------------------------------ MODULE Overlay ------------------------------
(***************************************************************************)
(* Where a node is and who its neighbours are: crates/overlay/src/lib.rs,  *)
(* and the search for a nonce that places a node, of                       *)
(* crates/net/src/runtime.rs.  An address is the sequence of its bits.     *)
(***************************************************************************)
EXTENDS Integers, Sequences, FiniteSets

CONSTANT AddressBits      \* bits of an address: 256

ASSUME OverlayConstants == AddressBits \in Nat \ {0}

Address == [1 .. AddressBits -> {0, 1}]

Differ(a, b) == {i \in 1 .. AddressBits : a[i] # b[i]}

\* The number of common leading bits.  It is a u8: equal addresses saturate at
\* 255, where addresses that differ in the last bit only are, too.
Proximity(a, b) ==
  IF Differ(a, b) = {} THEN AddressBits - 1
  ELSE CHOOSE p \in 0 .. AddressBits - 1 :
         /\ p + 1 \in Differ(a, b)
         /\ \A i \in Differ(a, b) : p + 1 <= i

\* Neighbourhood::is_neighbour: the node's own overlay is not excluded.
IsNeighbour(overlay, radius, peer) == Proximity(peer, overlay) >= radius

\* Neighbourhood::in_reserve.
InReserve(overlay, radius, chunk) == Proximity(chunk, overlay) >= radius

\* grind_overlay_nonce over the overlays that our nonces 0, 1, ... give: the
\* first one that is close enough, or else the first of the closest, or else
\* nonce 0.  The result is the place of the overlay in the sequence.
GrindOverlayNonce(overlays, target, bits) ==
  LET po(i) == Proximity(overlays[i], target)
      Better == {i \in DOMAIN overlays : po(i) > 0}
      Enough == {i \in Better : po(i) >= bits}
      First(S) == CHOOSE i \in S : \A j \in S : i <= j
  IN IF Enough # {} THEN First(Enough)
     ELSE IF Better # {} THEN First({i \in Better : \A j \in Better : po(i) >= po(j)})
     ELSE 1
=============================================================================
