----------------------------- MODULE MCPullNet -----------------------------
(* Neighbourhoods for TLC: two peers, bins 0 (below the radius) and up. *)
EXTENDS PullNet, TLC

\* Each peer files a chunk by the distance to its own overlay: peer 2 has
\* chunk 1, which peer 1 has in bin 1, in bin 2.
CrossFiled ==
  [k \in Keys |->
     CASE k = <<1, 1>> -> (1 :> 1 @@ 2 :> 2)
       [] k = <<2, 1>> -> (1 :> 2)
       [] k = <<2, 2>> -> (1 :> 1 @@ 2 :> 3)
       [] OTHER -> <<>>]

\* Chunk 3, of peer 2's bin 2, is uploaded to peer 1, which files it in bin 1.
OneUpload == {<<1, 1, 3>>}

\* One synced bin; both peers hold chunk 1, peer 1 numbers chunk 2 after it.
OneBin ==
  [k \in Keys |->
     CASE k = <<1, 1>> -> (1 :> 1 @@ 2 :> 2)
       [] k = <<2, 1>> -> (1 :> 1)
       [] OTHER -> <<>>]
=============================================================================
