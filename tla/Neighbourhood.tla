--------------------------- MODULE Neighbourhood ---------------------------
(***************************************************************************)
(* What the assembly of a neighbourhood promises, the state machine of     *)
(* crates/neighbourhood/src/lib.rs: counts of the willing and declining    *)
(* neighbours discovered and of the willing ones connected.  Only a        *)
(* connected node discovers, and only discovered neighbours are connected. *)
(***************************************************************************)
EXTENDS Integers

CONSTANTS Willing, Declining    \* the populations of the tile

VARIABLES known_w, known_u, conn

vars == <<known_w, known_u, conn>>

\* One willing neighbour, the bootstrap peer, is known.
Init == known_w = 1 /\ known_u = 0 /\ conn = 0

Bootstrapped == conn > 0

\* Any number of discover_w and discover_u calls: a push names several peers.
Discover ==
  /\ Bootstrapped
  /\ known_w' \in known_w .. Willing
  /\ known_u' \in known_u .. Declining
  /\ UNCHANGED conn

Connect ==
  /\ conn < known_w
  /\ conn' = conn + 1
  /\ UNCHANGED <<known_w, known_u>>

Next == Discover \/ Connect

Spec == Init /\ [][Next]_vars
=============================================================================
