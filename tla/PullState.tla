------------------------------ MODULE PullState ------------------------------
(***************************************************************************)
(* The scheduling machine of crates/machine/src/lib.rs as a data type: the *)
(* struct PullState is a record, each of its methods an operator from a    *)
(* record to a record.  A method that returns false changes nothing, so    *)
(* its operator returns its argument.                                      *)
(*                                                                         *)
(* The maps want, holders, excluded and assign are total functions into    *)
(* sets of peers.  The code removes a key whose set became empty, so an    *)
(* absent key and an empty set are the same value there too.  An absent    *)
(* prio reads as 0.                                                        *)
(***************************************************************************)
EXTENDS Integers, FiniteSets

CONSTANTS
  Chunks,   \* chunk identities, the type parameter C
  Peers     \* peer identities, PeerId

ASSUME ChunksFinite == IsFiniteSet(Chunks)

Config ==
  [dedup : BOOLEAN, failover : BOOLEAN, exclude : BOOLEAN,
   reset_on_exhaust : BOOLEAN, single_source : BOOLEAN,
   priority : BOOLEAN, enable_live : BOOLEAN]

PRODUCTION ==
  [dedup |-> TRUE, failover |-> TRUE, exclude |-> TRUE,
   reset_on_exhaust |-> TRUE, single_source |-> FALSE,
   priority |-> TRUE, enable_live |-> TRUE]

State ==
  [cfg : Config,
   want : [Chunks -> SUBSET Peers],       \* the lease table
   holders : [Chunks -> SUBSET Peers],    \* who offers the id
   excluded : [Chunks -> SUBSET Peers],   \* per-id bars
   arrived : SUBSET Chunks,               \* offered and unsettled
   live : SUBSET Chunks,                  \* arrived past the cursor
   rejected : SUBSET Chunks,              \* entry-faults, terminal
   got : SUBSET Chunks,                   \* stored, terminal
   prio : [Chunks -> Nat],                \* bin depth
   assign : [Chunks -> SUBSET Peers],     \* single-source ablation only
   conflict : BOOLEAN,                    \* double-delivery tripwire
   ndeliv : Nat,
   npre : Nat]

Nowhere == [c \in Chunks |-> {}]

New(cfg) ==
  [cfg |-> cfg, want |-> Nowhere, holders |-> Nowhere, excluded |-> Nowhere,
   arrived |-> {}, live |-> {}, rejected |-> {}, got |-> {},
   prio |-> [c \in Chunks |-> 0], assign |-> Nowhere,
   conflict |-> FALSE, ndeliv |-> 0, npre |-> 0]

-----------------------------------------------------------------------------
(* Observations.                                                           *)

Preload(m, c) ==
  IF c \in m.got THEN m
  ELSE [m EXCEPT !.got = @ \cup {c}, !.npre = @ + 1]

SetPrio(m, c, depth) == [m EXCEPT !.prio[c] = depth]

SetAssign(m, c, p) == [m EXCEPT !.assign[c] = {p}]

ObserveHolder(m, c, p) == [m EXCEPT !.holders[c] = @ \cup {p}]

\* Mutants of LoseHolder: the claim survives; the bar is washed off; churn bars.
LoseHolderKeepsClaim(m, c, p) == [m EXCEPT !.holders[c] = @ \ {p}]

LoseHolderForgives(m, c, p) ==
  [m EXCEPT !.holders[c] = @ \ {p}, !.want[c] = @ \ {p}, !.excluded[c] = @ \ {p}]

LoseHolderBars(m, c, p) ==
  [m EXCEPT !.holders[c] = @ \ {p}, !.want[c] = @ \ {p}, !.excluded[c] = @ \cup {p}]

LoseHolder(m, c, p) ==
  [m EXCEPT !.holders[c] = @ \ {p}, !.want[c] = @ \ {p}]

Settled(m, c) == c \in m.got \/ c \in m.rejected

ArriveHist(m, c) ==
  IF Settled(m, c) THEN m ELSE [m EXCEPT !.arrived = @ \cup {c}]

ArriveLive(m, c) ==
  IF Settled(m, c) \/ c \in m.arrived THEN m
  ELSE [m EXCEPT !.arrived = @ \cup {c}, !.live = @ \cup {c}]

-----------------------------------------------------------------------------
(* The claim guard.                                                        *)

Addressed(m, c) == c \in m.got \/ m.want[c] # {}

Eligible(m, d) == d \notin m.got /\ m.holders[d] \ m.excluded[d] # {}

\* Mutant of PrioOK: a deeper id holds others back even once it is stored.
PrioGreedy(m, c) == m.cfg.priority => \A d \in m.arrived : m.prio[d] <= m.prio[c]

PrioOK(m, c) ==
  m.cfg.priority =>
    \A d \in m.arrived :
      m.prio[d] <= m.prio[c] \/ ~Eligible(m, d) \/ Addressed(m, d)

Claimable(m, c, p) ==
  /\ c \in m.arrived
  /\ p \in m.holders[c]
  /\ c \notin m.got
  /\ p \notin m.want[c]
  /\ p \notin m.excluded[c]
  /\ m.cfg.dedup => m.want[c] = {}
  /\ m.cfg.single_source => m.assign[c] = {p}
  /\ c \in m.live => m.cfg.enable_live
  /\ PrioOK(m, c)

EnabledWants(m) ==
  {w \in m.arrived \X Peers : Claimable(m, w[1], w[2])}

-----------------------------------------------------------------------------
(* Leases.                                                                 *)

Want(m, c, p) ==
  IF Claimable(m, c, p) THEN [m EXCEPT !.want[c] = @ \cup {p}] ELSE m

\* Mutants of Deliver: the lease survives; the delivery is not counted.
DeliverKeepsLease(m, c, p) ==
  IF p \notin m.want[c] THEN m
  ELSE [m EXCEPT !.conflict = @ \/ c \in m.got,
                 !.got = @ \cup {c}, !.ndeliv = @ + 1]

DeliverUncounted(m, c, p) ==
  IF p \notin m.want[c] THEN m
  ELSE [m EXCEPT !.conflict = @ \/ c \in m.got,
                 !.got = @ \cup {c}, !.want[c] = @ \ {p}]

Deliver(m, c, p) ==
  IF p \notin m.want[c] THEN m
  ELSE [m EXCEPT !.conflict = @ \/ c \in m.got,
                 !.got = @ \cup {c},
                 !.ndeliv = @ + 1,
                 !.want[c] = @ \ {p}]

CanStall(m, c, p) == m.cfg.failover /\ p \in m.want[c]

\* Mutant of Stall: no bar at all.
StallNoBar(m, c, p) ==
  IF ~CanStall(m, c, p) THEN m ELSE [m EXCEPT !.want[c] = @ \ {p}]

Stall(m, c, p) ==
  IF ~CanStall(m, c, p) THEN m
  ELSE [m EXCEPT !.want[c] = @ \ {p},
                 !.excluded[c] = IF m.cfg.exclude THEN @ \cup {p} ELSE @]

\* Mutant of Reject: the claims on the id survive.
RejectKeepsClaims(m, c) ==
  IF Settled(m, c) THEN m
  ELSE [m EXCEPT !.rejected = @ \cup {c}, !.arrived = @ \ {c}, !.live = @ \ {c}]

Reject(m, c) ==
  IF Settled(m, c) THEN m
  ELSE [m EXCEPT !.rejected = @ \cup {c},
                 !.arrived = @ \ {c},
                 !.live = @ \ {c},
                 !.want[c] = {}]

\* Mutant of CanResetExcluded: the bars must be exactly the holders.
CanResetExact(m, c) ==
  /\ m.cfg.reset_on_exhaust
  /\ c \in m.arrived \ m.got
  /\ m.want[c] = {}
  /\ m.excluded[c] # {}
  /\ m.holders[c] = m.excluded[c]

CanResetExcluded(m, c) ==
  /\ m.cfg.reset_on_exhaust
  /\ c \in m.arrived
  /\ c \notin m.got
  /\ m.want[c] = {}
  /\ m.excluded[c] # {}
  /\ m.holders[c] \subseteq m.excluded[c]

ResetExcluded(m, c) ==
  IF CanResetExcluded(m, c) THEN [m EXCEPT !.excluded[c] = {}] ELSE m

\* Mutants of Forget: a stored id comes off the count of deliveries, which wraps
\* below zero if it was preloaded; the terminal marks go too.
ForgetUncounts(m, c) ==
  IF ~Settled(m, c) THEN m
  ELSE [m EXCEPT !.arrived = @ \ {c}, !.live = @ \ {c},
                 !.holders[c] = {}, !.excluded[c] = {}, !.prio[c] = 0,
                 !.ndeliv = IF c \in m.got THEN @ - 1 ELSE @]

ForgetVerdict(m, c) ==
  IF ~Settled(m, c) THEN m
  ELSE [m EXCEPT !.arrived = @ \ {c}, !.live = @ \ {c}, !.got = @ \ {c},
                 !.holders[c] = {}, !.excluded[c] = {}, !.prio[c] = 0]

Forget(m, c) ==
  IF ~Settled(m, c) THEN m
  ELSE [m EXCEPT !.arrived = @ \ {c},
                 !.live = @ \ {c},
                 !.holders[c] = {},
                 !.excluded[c] = {},
                 !.prio[c] = 0]

-----------------------------------------------------------------------------
(* Loops and queries of the node.                                          *)

\* The loop "for c in S { m.call(c) }".  A call on one id reads and writes that
\* id's entries only, and moves the counters by its own share, so the ids may
\* come in any order.
ForEach(m, S, Call(_, _)) ==
  LET After(c) == IF c \in S THEN Call(m, c) ELSE m
  IN [cfg |-> m.cfg,
      want |-> [c \in Chunks |-> After(c).want[c]],
      holders |-> [c \in Chunks |-> After(c).holders[c]],
      excluded |-> [c \in Chunks |-> After(c).excluded[c]],
      arrived |-> {c \in Chunks : c \in After(c).arrived},
      live |-> {c \in Chunks : c \in After(c).live},
      rejected |-> {c \in Chunks : c \in After(c).rejected},
      got |-> {c \in Chunks : c \in After(c).got},
      prio |-> [c \in Chunks |-> After(c).prio[c]],
      assign |-> m.assign,
      conflict |-> m.conflict \/ \E c \in S : Call(m, c).conflict,
      ndeliv |-> m.ndeliv + Cardinality({c \in S : Call(m, c).ndeliv > m.ndeliv}),
      npre |-> m.npre]

Load(m, p) == Cardinality({c \in Chunks : p \in m.want[c]})

ClaimsOf(m, p) == {c \in Chunks : p \in m.want[c]}

HeldBy(m, p) == {c \in Chunks : p \in m.holders[c]}
=============================================================================
