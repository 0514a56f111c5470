------------------------------- MODULE Explore -------------------------------
(***************************************************************************)
(* The machine in the environment of crates/machine/src/explore.rs: honest *)
(* and Byzantine peers, a budget of spurious timeouts, a budget of churn   *)
(* that never takes an id's last honest holder, and LIVE arrivals.  This   *)
(* is where the machine owes progress and not only safety.                 *)
(***************************************************************************)
EXTENDS PullMachine

CONSTANTS
  Holds,           \* initial holdings per peer
  Byzantine,       \* peers that never answer
  LiveChunks,      \* ids that arrive during the sync
  PrioOf,          \* bin depth per id
  AssignOf,        \* fixed source per id (single-source ablation)
  TimeoutBudget,   \* spurious stalls of honest peers
  ChurnBudget      \* holder changes

ASSUME ScenarioType ==
  /\ Holds \in [Peers -> SUBSET Chunks]
  /\ Byzantine \subseteq Peers
  /\ LiveChunks \subseteq Chunks
  /\ PrioOf \in [Chunks -> Depths]
  /\ AssignOf \in [Chunks -> SUBSET Peers]
  /\ TimeoutBudget \in Nat
  /\ ChurnBudget \in Nat

Honest == Peers \ Byzantine

\* The explorer refuses a start that breaks SupplyInv.
ASSUME InitialSupply == \A c \in Chunks : \E p \in Honest : c \in Holds[p]

VARIABLES
  tmo,    \* spurious timeouts left
  chn     \* churn events left

world == <<m, tmo, chn>>

WorldInit ==
  /\ \E cfg \in Configs :
       m = [New(cfg) EXCEPT
              !.holders = [c \in Chunks |-> {p \in Peers : c \in Holds[p]}],
              !.prio = PrioOf,
              !.assign = AssignOf,
              !.arrived = Chunks \ LiveChunks]
  /\ tmo = TimeoutBudget
  /\ chn = ChurnBudget

ActWant(c, p) == WantStep(c, p) /\ UNCHANGED <<tmo, chn>>

ActDeliver(c, p) == p \in Honest /\ DeliverStep(c, p) /\ UNCHANGED <<tmo, chn>>

ByzStall(c, p) == p \in Byzantine /\ StallStep(c, p) /\ UNCHANGED <<tmo, chn>>

SpuriousTimeout(c, p) ==
  /\ p \in Honest
  /\ tmo > 0
  /\ StallStep(c, p)
  /\ tmo' = tmo - 1
  /\ UNCHANGED chn

ActLose(c, p) ==
  /\ chn > 0
  /\ c \notin m.got
  /\ p \in m.holders[c]
  /\ \E q \in m.holders[c] \ {p} : q \in Honest
  /\ LoseHolderStep(c, p)
  /\ chn' = chn - 1
  /\ UNCHANGED tmo

ActGain(c, p) ==
  /\ chn > 0
  /\ c \notin m.got
  /\ ObserveHolderStep(c, p)
  /\ chn' = chn - 1
  /\ UNCHANGED tmo

ActNew(c) == c \in LiveChunks /\ ArriveLiveStep(c) /\ UNCHANGED <<tmo, chn>>

ActReset(c) == ResetExcludedStep(c) /\ UNCHANGED <<tmo, chn>>

WorldNext ==
  \E c \in Chunks :
    \/ ActNew(c)
    \/ ActReset(c)
    \/ \E p \in Peers :
         \/ ActWant(c, p)
         \/ ActDeliver(c, p)
         \/ ByzStall(c, p)
         \/ SpuriousTimeout(c, p)
         \/ ActLose(c, p)
         \/ ActGain(c, p)

\* The shell re-runs the scheduler until no want is enabled, an honest peer
\* answers, a silent one is timed out, and uploads land.  Spurious timeouts
\* and churn are never owed.
Fairness ==
  \A c \in Chunks :
    /\ WF_world(\E p \in Peers : ActWant(c, p))
    /\ WF_world(ActReset(c))
    /\ WF_world(ActNew(c))
    /\ \A p \in Peers : WF_world(ActDeliver(c, p)) /\ WF_world(ByzStall(c, p))

WorldSpec == WorldInit /\ [][WorldNext]_world /\ Fairness

-----------------------------------------------------------------------------
(* Properties.                                                             *)

\* NoFalseExclusion: as long as no timeout was spurious only Byzantine peers are
\* barred; churn never bars anyone.
NoFalseExclusion ==
  tmo = TimeoutBudget => \A c \in Chunks : m.excluded[c] \subseteq Byzantine

\* SupplyInv: churn never strips an open id of its last honest holder.
SupplyInv == \A c \in Chunks : m.holders[c] \cap Honest # {}

\* An id always has a candidate or a way back to one: unless it is leased, some
\* unbarred holder exists, or the bars are exactly at the point where
\* reset_excluded clears them.
NeverStranded ==
  m.cfg.reset_on_exhaust =>
    \A c \in m.arrived \ m.got :
      m.want[c] = {} =>
        m.holders[c] \ m.excluded[c] # {} \/ CanResetExcluded(m, c)

\* Completeness and freshness: every id, LIVE arrivals included, is stored in
\* the end although peers stall, misfire and churn.
Completes == \A c \in Chunks : <>(c \in m.got)
=============================================================================
