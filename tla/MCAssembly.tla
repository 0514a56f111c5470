----------------------------- MODULE MCAssembly -----------------------------
(* A bootnode and two peers, one in our tile; addresses of three bits. *)
EXTENDS Assembly, TLC

CONSTANTS bn, near, far, a1, a2, a3, a4

Overlays == bn :> <<0, 0, 0>> @@ near :> <<0, 0, 1>> @@ far :> <<1, 0, 0>>

\* The second nonce is the first one close enough.
OurNonces == <<<<1, 1, 1>>, <<0, 1, 1>>, <<0, 1, 0>>, <<0, 0, 1>>>>

\* Raw TCP, WebSocket, not a multiaddr, and no /p2p/ part.
Addresses == a1 :> bn @@ a2 :> bn @@ a3 :> None @@ a4 :> None

TheApex == <<"apex", 0>>

\* A chain with a shortcut and a cycle: the host is two indirections away along
\* one path and one along the other; the last name is too deep.
Shortcut ==
  "apex" :> <<Nested("region", 0), Nested("host", 0), Text>>
  @@ "region" :> <<Nested("host", 0), Nested("apex", 0), Concrete(a2)>>
  @@ "host" :> <<Concrete(a3), Concrete(a2), Nested("leaf", 0), Nested("", 0)>>
  @@ "leaf" :> <<Concrete(a1), Concrete(a1), Nested("deep", 0)>>
  @@ "deep" :> <<Concrete(a4)>>

\* Two names of one domain.
TwoNames ==
  "apex" :> <<Nested("host", 1), Nested("host", 2), Concrete(a2)>>
  @@ "host" :> <<Nested("", 0), Concrete(a1)>>

\* A name that does not exist.
Dangling == "apex" :> <<Concrete(a1), Nested("none", 0)>>

OnlyWebSocket == "apex" :> <<Concrete(a2), Text>>

WithoutId == "apex" :> <<Concrete(a4)>>

AllZones == {Shortcut, TwoNames, Dangling, OnlyWebSocket, WithoutId}

Signed(overlay, underlay) ==
  [overlay |-> overlay, underlay |-> underlay, signed |-> <<overlay, underlay>>]
Of(x) == Signed(Overlays[x], x)

\* A valid signature over another underlay.
Forged == [overlay |-> <<0, 1, 1>>, underlay |-> far, signed |-> <<(<<0, 1, 1>>), near>>]

\* The whole neighbourhood, with every name in it twice: one more than a pull has
\* numbers; a batch of names not to use before one to use; nothing.
AllPushes ==
  {<<Of(near), Of(far), Of(near), Of(bn), Of(bn)>>,
   <<Forged, Signed(<<0, 0, 1>>, None), Of(near)>>,
   <<>>}
=============================================================================
