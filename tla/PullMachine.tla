----------------------------- MODULE PullMachine -----------------------------
(***************************************************************************)
(* The machine as a state machine: every public mutating method of         *)
(* PullState may be called at any time, with any arguments, as long as the *)
(* call does something.  A call that returns false is a stutter.           *)
(*                                                                         *)
(* Preloading is the exception.  Its contract is "at sync start", so it    *)
(* happens in Init, as does the fixed source of the single-source ablation.*)
(***************************************************************************)
EXTENDS PullState

CONSTANTS
  Depths,    \* the bin depths set_prio is called with
  Configs    \* the configurations an instance may start with

ASSUME DepthsNat == Depths \subseteq Nat
ASSUME ConfigsType == Configs \subseteq Config

VARIABLE m

Init ==
  \E cfg \in Configs, pre \in SUBSET Chunks :
    \E src \in IF cfg.single_source THEN [Chunks -> {{p} : p \in Peers}]
               ELSE {Nowhere} :
      m = [New(cfg) EXCEPT !.got = pre, !.npre = Cardinality(pre), !.assign = src]

SetPrioStep(c, d) == m' = SetPrio(m, c, d)

ObserveHolderStep(c, p) ==
  p \notin m.holders[c] /\ m' = ObserveHolder(m, c, p)

LoseHolderStep(c, p) ==
  p \in m.holders[c] \cup m.want[c] /\ m' = LoseHolder(m, c, p)

ArriveHistStep(c) == ~Settled(m, c) /\ m' = ArriveHist(m, c)

ArriveLiveStep(c) ==
  ~Settled(m, c) /\ c \notin m.arrived /\ m' = ArriveLive(m, c)

WantStep(c, p) == Claimable(m, c, p) /\ m' = Want(m, c, p)

DeliverStep(c, p) == p \in m.want[c] /\ m' = Deliver(m, c, p)

StallStep(c, p) == CanStall(m, c, p) /\ m' = Stall(m, c, p)

RejectStep(c) == ~Settled(m, c) /\ m' = Reject(m, c)

ResetExcludedStep(c) == CanResetExcluded(m, c) /\ m' = ResetExcluded(m, c)

ForgetStep(c) == Settled(m, c) /\ m' = Forget(m, c)

Next ==
  \E c \in Chunks :
    \/ ArriveHistStep(c)
    \/ ArriveLiveStep(c)
    \/ RejectStep(c)
    \/ ResetExcludedStep(c)
    \/ ForgetStep(c)
    \/ \E d \in Depths : SetPrioStep(c, d)
    \/ \E p \in Peers :
         \/ ObserveHolderStep(c, p)
         \/ LoseHolderStep(c, p)
         \/ WantStep(c, p)
         \/ DeliverStep(c, p)
         \/ StallStep(c, p)

Spec == Init /\ [][Next]_m

-----------------------------------------------------------------------------
(* Properties.                                                             *)

\* The machine is always a well-formed PullState.
TypeOK == m \in State

\* ConflictFree: with one claim per id no payload is delivered twice, whatever
\* order leases, stalls, losses and re-offers come in (the deliver tripwire).
ConflictFree == m.cfg.dedup => ~m.conflict

\* DeliveryFloor: deliveries plus preloaded ids are exactly the stored ids.
DeliveryFloor == m.cfg.dedup => m.ndeliv + m.npre = Cardinality(m.got)

\* DedupInv: at most one in-flight claim per id.
DedupInv == m.cfg.dedup => \A c \in Chunks : \A p, q \in m.want[c] : p = q

\* ClaimsLive: every claim is on a current holder that is not barred.
ClaimsLive ==
  m.cfg.dedup => \A c \in Chunks : m.want[c] \subseteq m.holders[c] \ m.excluded[c]

\* A lease exists only on an id that is still open: arrived and neither stored
\* nor rejected.  This is what makes a stored id final.
LeasedOpen ==
  m.cfg.dedup =>
    \A c \in Chunks : m.want[c] # {} => c \in m.arrived /\ ~Settled(m, c)

\* A rejected id is never stored, waiting or leased again: deliver never sees
\* an id that reject settled, and no arrival reopens it.
RejectedClosed ==
  /\ m.rejected \cap (m.arrived \cup m.got) = {}
  /\ \A c \in m.rejected : m.want[c] = {}

\* Leases are sound: at most one per id, on a current holder that is not barred,
\* and only on ids that are open, whatever order stalls, losses, rejections and
\* re-offers come in; a rejected id stays closed.
LeaseSafe == DedupInv /\ ClaimsLive /\ LeasedOpen /\ RejectedClosed

\* The inductive invariant behind the theorems.
IInv ==
  /\ TypeOK
  /\ ConflictFree
  /\ DeliveryFloor
  /\ DedupInv
  /\ ClaimsLive
  /\ LeasedOpen
  /\ RejectedClosed

\* The bar of a peer that stalled on an id outlives everything except running
\* out of candidates (reset_excluded) and the id's settlement (forget): losing
\* and re-offering the holding does not wash it off.
BarsKept ==
  \A c \in Chunks : \A p \in m.excluded[c] \ m'.excluded[c] :
    \/ Settled(m, c)
    \/ m.want[c] = {} /\ m.holders[c] \subseteq m.excluded[c]

BarsStick == [][BarsKept]_m

\* forget is behaviour-neutral, as its comment claims: dropping a settled id
\* changes no other id's claim guard.
ForgetNeutral ==
  [][\A c \in Chunks :
       Settled(m, c) /\ m' = Forget(m, c) =>
         \A d \in Chunks \ {c}, p \in Peers :
           Claimable(m', d, p) <=> Claimable(m, d, p)]_m

-----------------------------------------------------------------------------
(* The refinement: the machine's bookkeeping implements exactly-once.      *)

StatusOf(c) ==
  IF c \in m.got THEN <<"got">>
  ELSE IF c \in m.rejected THEN <<"rejected">>
  ELSE IF m.want[c] # {} THEN <<"leased", CHOOSE p \in m.want[c] : TRUE>>
  ELSE <<"idle">>

Abstract == INSTANCE ExactlyOnce
  WITH status <- [c \in Chunks |-> StatusOf(c)], deliveries <- m.ndeliv

\* Every call on the machine is a step, or a stutter, of the abstract promise.
ImplementsExactlyOnce == Abstract!Spec
=============================================================================
