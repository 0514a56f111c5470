----------------------------- MODULE ExactlyOnce -----------------------------
(***************************************************************************)
(* What the scheduler promises its callers, without any of its mechanism:  *)
(* every chunk is idle, leased to one peer, stored or rejected; a chunk is *)
(* stored only out of a lease and both ends are final; and the number of   *)
(* deliveries grows by exactly the number of chunks that become stored.    *)
(*                                                                         *)
(* One step may move several chunks: an event of the node does.            *)
(***************************************************************************)
EXTENDS Integers, FiniteSets

CONSTANTS Chunks, Peers

VARIABLES
  status,       \* status[c]: <<"idle">>, <<"leased", p>>, <<"got">>, <<"rejected">>
  deliveries    \* payload transfers accepted so far

vars == <<status, deliveries>>

Idle == <<"idle">>
Leased(p) == <<"leased", p>>
Got == <<"got">>
Rejected == <<"rejected">>

Final == {Got, Rejected}
Leases == {Leased(p) : p \in Peers}

TypeOK ==
  /\ status \in [Chunks -> {Idle} \cup Leases \cup Final]
  /\ deliveries \in Nat

\* Some chunks are already in the reserve when syncing starts.
Init ==
  /\ status \in [Chunks -> {Idle, Got}]
  /\ deliveries = 0

\* From idle a chunk is leased or rejected (never stored); a lease ends any way.
Move(from, to) ==
  \/ from = to
  \/ from = Idle /\ to \in Leases \cup {Rejected}
  \/ from \in Leases

Next ==
  /\ DOMAIN status' = Chunks
  /\ \A c \in Chunks : Move(status[c], status'[c])
  /\ deliveries' =
       deliveries + Cardinality({c \in Chunks : status[c] # Got /\ status'[c] = Got})

Spec == Init /\ [][Next]_vars
=============================================================================
