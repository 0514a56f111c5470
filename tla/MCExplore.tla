----------------------------- MODULE MCExplore -----------------------------
(* A row of the parity matrix, crates/machine/tests/parity.rs. *)
EXTENDS Explore

Prod == {PRODUCTION}

StormPrio == [c \in Chunks |-> c]

NoAssign == [c \in Chunks |-> {}]

\* The four-peer storm without its chunk 3.
Storm == <<{1, 2, 4}, {2, 4}, {4}, {1, 2, 4}>>
=============================================================================
