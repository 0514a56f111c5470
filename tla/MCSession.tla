------------------------------ MODULE MCSession ------------------------------
(* Neighbourhoods for the session: pages of two, logs longer than a page. *)
EXTENDS Session, TLC

\* Peer 1's log has gaps and spills over a page, and what spills over only peer 1
\* has.  The deep chunk 4 is at peer 2 and lands at peer 1 later.
TwoPages ==
  [k \in Keys |->
     CASE k = <<1, 1>> -> (1 :> 1 @@ 3 :> 2 @@ 4 :> 3)
       [] k = <<2, 1>> -> (2 :> 2 @@ 3 :> 1)
       [] k = <<2, 2>> -> (1 :> 4)
       [] OTHER -> <<>>]

Upload == {<<1, 2, 4>>}

\* The same log of two full pages, without gaps, at every peer.
FullPages ==
  [k \in Keys |->
     IF k[2] = 1 THEN (1 :> 1 @@ 2 :> 2 @@ 3 :> 3 @@ 4 :> 4) ELSE <<>>]
=============================================================================
