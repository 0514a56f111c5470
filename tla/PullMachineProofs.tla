-------------------------- MODULE PullMachineProofs --------------------------
(***************************************************************************)
(* The safety of the machine for every set of peers, every finite set of   *)
(* chunks and every configuration, alone and among the honest and the      *)
(* Byzantine peers of the explorer's environment.                          *)
(***************************************************************************)
EXTENDS Explore, TLAPS, FiniteSetTheorems

-----------------------------------------------------------------------------
(* Every method maps a well-formed PullState to a well-formed PullState.   *)

\* A fresh machine.
LEMMA NewType ==
  ASSUME NEW cfg \in Config
  PROVE  New(cfg) \in State
BY DEF New, State, Nowhere

\* set_prio.
LEMMA PrioType ==
  ASSUME NEW r \in State, NEW c \in Chunks, NEW d \in Nat
  PROVE  SetPrio(r, c, d) \in State
BY DEF SetPrio, State

\* The calls that name a chunk only.
LEMMA ChunkCallType ==
  ASSUME NEW r \in State, NEW c \in Chunks
  PROVE  /\ ArriveHist(r, c) \in State
         /\ ArriveLive(r, c) \in State
         /\ Reject(r, c) \in State
         /\ ResetExcluded(r, c) \in State
         /\ Forget(r, c) \in State
<1>1. ArriveHist(r, c) \in State
  BY DEF ArriveHist, State
<1>2. ArriveLive(r, c) \in State
  BY DEF ArriveLive, State
<1>3. Reject(r, c) \in State
  BY DEF Reject, State
<1>4. ResetExcluded(r, c) \in State
  BY DEF ResetExcluded, State
<1>5. Forget(r, c) \in State
  BY DEF Forget, State
<1> QED
  BY <1>1, <1>2, <1>3, <1>4, <1>5

\* deliver's update, with the tripwire and the counter as given values.
LEMMA DeliveryUpdateType ==
  ASSUME NEW r \in State, NEW c \in Chunks, NEW p \in Peers,
         NEW trip \in BOOLEAN, NEW n \in Nat
  PROVE  [r EXCEPT !.conflict = trip, !.got = @ \cup {c},
                   !.ndeliv = n, !.want[c] = @ \ {p}] \in State
BY DEF State

\* deliver.
LEMMA DeliverType ==
  ASSUME NEW r \in State, NEW c \in Chunks, NEW p \in Peers
  PROVE  Deliver(r, c, p) \in State
<1>1. (r.conflict \/ c \in r.got) \in BOOLEAN
  OBVIOUS
<1>2. r.ndeliv + 1 \in Nat
  BY DEF State
<1>3. [r EXCEPT !.conflict = @ \/ c \in r.got, !.got = @ \cup {c},
                !.ndeliv = @ + 1, !.want[c] = @ \ {p}] \in State
  BY <1>1, <1>2, DeliveryUpdateType, Zenon
<1> QED
  BY <1>3, Zenon DEF Deliver

\* The calls that name a chunk and a peer.
LEMMA PeerCallType ==
  ASSUME NEW r \in State, NEW c \in Chunks, NEW p \in Peers
  PROVE  /\ ObserveHolder(r, c, p) \in State
         /\ LoseHolder(r, c, p) \in State
         /\ Want(r, c, p) \in State
         /\ Deliver(r, c, p) \in State
         /\ Stall(r, c, p) \in State
<1>1. ObserveHolder(r, c, p) \in State
  BY DEF ObserveHolder, State
<1>2. LoseHolder(r, c, p) \in State
  BY DEF LoseHolder, State
<1>3. Want(r, c, p) \in State
  BY DEF Want, State
<1>4. Deliver(r, c, p) \in State
  BY DeliverType
<1>5. Stall(r, c, p) \in State
  BY DEF Stall, State
<1> QED
  BY <1>1, <1>2, <1>3, <1>4, <1>5

-----------------------------------------------------------------------------
(* Type correctness.                                                       *)

\* Every start, with any preload and any fixed sources.
LEMMA InitType == Init => TypeOK
<1> SUFFICES ASSUME Init PROVE TypeOK
  OBVIOUS
<1>1. PICK cfg \in Configs, pre \in SUBSET Chunks :
        \E src \in IF cfg.single_source THEN [Chunks -> {{p} : p \in Peers}]
                   ELSE {Nowhere} :
          m = [New(cfg) EXCEPT !.got = pre, !.npre = Cardinality(pre), !.assign = src]
  BY DEF Init
<1>2. PICK src : /\ src \in IF cfg.single_source THEN [Chunks -> {{p} : p \in Peers}]
                             ELSE {Nowhere}
                 /\ m = [New(cfg) EXCEPT !.got = pre, !.npre = Cardinality(pre),
                                         !.assign = src]
  BY <1>1
<1>3. src \in [Chunks -> SUBSET Peers]
  BY <1>2 DEF Nowhere
<1>4. Cardinality(pre) \in Nat
  BY ChunksFinite, FS_Subset, FS_CardinalityType
<1>5. New(cfg) \in State
  BY ConfigsType, NewType
<1> QED
  BY <1>2, <1>3, <1>4, <1>5 DEF TypeOK, State

\* Every call.
LEMMA NextType == TypeOK /\ [Next]_m => TypeOK'
<1> SUFFICES ASSUME m \in State, [Next]_m PROVE m' \in State
  BY DEF TypeOK
<1>1. CASE UNCHANGED m
  BY <1>1
<1>2. ASSUME NEW c \in Chunks,
             \/ ArriveHistStep(c) \/ ArriveLiveStep(c) \/ RejectStep(c)
             \/ ResetExcludedStep(c) \/ ForgetStep(c)
      PROVE  m' \in State
  BY <1>2, ChunkCallType
     DEF ArriveHistStep, ArriveLiveStep, RejectStep, ResetExcludedStep, ForgetStep
<1>3. ASSUME NEW c \in Chunks, NEW d \in Depths, SetPrioStep(c, d)
      PROVE  m' \in State
  BY <1>3, DepthsNat, PrioType DEF SetPrioStep
<1>4. ASSUME NEW c \in Chunks, NEW p \in Peers,
             \/ ObserveHolderStep(c, p) \/ LoseHolderStep(c, p)
             \/ WantStep(c, p) \/ DeliverStep(c, p) \/ StallStep(c, p)
      PROVE  m' \in State
  BY <1>4, PeerCallType
     DEF ObserveHolderStep, LoseHolderStep, WantStep, DeliverStep, StallStep
<1> QED
  BY <1>1, <1>2, <1>3, <1>4 DEF Next

\* Every reachable machine is a well-formed PullState: no sequence of calls
\* takes a map, a set or a counter of the struct out of its type.
THEOREM TypeCorrect == Spec => []TypeOK
<1> QED
  BY InitType, NextType, PTL DEF Spec

-----------------------------------------------------------------------------
(* The inductive invariant.  In each lemma one call is made in a state     *)
(* that satisfies it.                                                      *)

\* Everything but the two counters: the facts a call can disturb by moving
\* leases, bars and terminal marks.
Bookkeeping ==
  /\ ConflictFree
  /\ DedupInv
  /\ ClaimsLive
  /\ LeasedOpen
  /\ RejectedClosed

\* A start has no leases, and its preloads are counted.
LEMMA InitInv == Init => IInv
<1> SUFFICES ASSUME Init PROVE IInv
  OBVIOUS
<1>1. TypeOK
  BY InitType
<1>2. PICK cfg \in Configs, pre \in SUBSET Chunks :
        \E src : m = [New(cfg) EXCEPT !.got = pre, !.npre = Cardinality(pre),
                                     !.assign = src]
  BY DEF Init
<1>3. /\ m.want = Nowhere /\ m.rejected = {} /\ ~m.conflict
      /\ m.ndeliv = 0 /\ m.npre = Cardinality(pre) /\ m.got = pre
  BY <1>2 DEF New
<1>4. Cardinality(pre) \in Nat
  BY ChunksFinite, FS_Subset, FS_CardinalityType
<1>5. DeliveryFloor
  BY <1>3, <1>4 DEF DeliveryFloor
<1>6. Bookkeeping
  BY <1>3 DEF Bookkeeping, ConflictFree, DedupInv, ClaimsLive, LeasedOpen,
              RejectedClosed, Nowhere
<1> QED
  BY <1>1, <1>5, <1>6 DEF IInv, Bookkeeping

\* Observations only add arrivals, holders and depths.
LEMMA ObservationsKeep ==
  IInv /\ (\E c \in Chunks :
           \/ ArriveHistStep(c) \/ ArriveLiveStep(c)
           \/ \E d \in Depths : SetPrioStep(c, d)
           \/ \E p \in Peers : ObserveHolderStep(c, p)) => Bookkeeping'
<1>1. ASSUME IInv, NEW c \in Chunks, ArriveHistStep(c)
      PROVE  Bookkeeping'
  BY <1>1 DEF IInv, TypeOK, State, Settled, ArriveHistStep, ArriveHist,
       Bookkeeping, ConflictFree, DedupInv, ClaimsLive, LeasedOpen,
       RejectedClosed
<1>2. ASSUME IInv, NEW c \in Chunks, ArriveLiveStep(c)
      PROVE  Bookkeeping'
  BY <1>2 DEF IInv, TypeOK, State, Settled, ArriveLiveStep, ArriveLive,
       Bookkeeping, ConflictFree, DedupInv, ClaimsLive, LeasedOpen,
       RejectedClosed
<1>3. ASSUME IInv, NEW c \in Chunks, NEW d \in Depths, SetPrioStep(c, d)
      PROVE  Bookkeeping'
  BY <1>3 DEF IInv, TypeOK, State, Settled, SetPrioStep, SetPrio,
       Bookkeeping, ConflictFree, DedupInv, ClaimsLive, LeasedOpen,
       RejectedClosed
<1>4. ASSUME IInv, NEW c \in Chunks, NEW p \in Peers, ObserveHolderStep(c, p)
      PROVE  Bookkeeping'
  BY <1>4 DEF IInv, TypeOK, State, Settled, ObserveHolderStep, ObserveHolder,
       Bookkeeping, ConflictFree, DedupInv, ClaimsLive, LeasedOpen,
       RejectedClosed
<1> QED
  BY <1>1, <1>2, <1>3, <1>4

\* Releases only take leases, bars and holdings away; a bar is added together
\* with the release of the barred peer's lease.
LEMMA ReleasesKeep ==
  IInv /\ (\E c \in Chunks :
           \/ ResetExcludedStep(c) \/ ForgetStep(c) \/ RejectStep(c)
           \/ \E p \in Peers : LoseHolderStep(c, p) \/ StallStep(c, p)) => Bookkeeping'
<1>1. ASSUME IInv, NEW c \in Chunks, ResetExcludedStep(c)
      PROVE  Bookkeeping'
  BY <1>1 DEF IInv, TypeOK, State, Settled, ResetExcludedStep, ResetExcluded, CanResetExcluded,
       Bookkeeping, ConflictFree, DedupInv, ClaimsLive, LeasedOpen,
       RejectedClosed
<1>2. ASSUME IInv, NEW c \in Chunks, ForgetStep(c)
      PROVE  Bookkeeping'
  BY <1>2 DEF IInv, TypeOK, State, Settled, ForgetStep, Forget,
       Bookkeeping, ConflictFree, DedupInv, ClaimsLive, LeasedOpen,
       RejectedClosed
<1>3. ASSUME IInv, NEW c \in Chunks, RejectStep(c)
      PROVE  Bookkeeping'
  BY <1>3 DEF IInv, TypeOK, State, Settled, RejectStep, Reject,
       Bookkeeping, ConflictFree, DedupInv, ClaimsLive, LeasedOpen,
       RejectedClosed
<1>4. ASSUME IInv, NEW c \in Chunks, NEW p \in Peers, LoseHolderStep(c, p)
      PROVE  Bookkeeping'
  BY <1>4 DEF IInv, TypeOK, State, Settled, LoseHolderStep, LoseHolder,
       Bookkeeping, ConflictFree, DedupInv, ClaimsLive, LeasedOpen,
       RejectedClosed
<1>5. ASSUME IInv, NEW c \in Chunks, NEW p \in Peers, StallStep(c, p)
      PROVE  Bookkeeping'
  BY <1>5 DEF IInv, TypeOK, State, Settled, StallStep, CanStall, Stall,
       Bookkeeping, ConflictFree, DedupInv, ClaimsLive, LeasedOpen,
       RejectedClosed
<1> QED
  BY <1>1, <1>2, <1>3, <1>4, <1>5

\* The claim guard is what makes the new lease the only one, on a live holder,
\* of an open id.
LEMMA WantKeeps ==
  ASSUME IInv, NEW c \in Chunks, NEW p \in Peers, WantStep(c, p)
  PROVE  Bookkeeping'
<1>1. /\ c \in m.arrived /\ c \notin m.got
      /\ p \in m.holders[c] \ m.excluded[c]
      /\ m.cfg.dedup => m.want[c] = {}
  BY DEF WantStep, Claimable
<1>2. m' = [m EXCEPT !.want[c] = @ \cup {p}]
  BY DEF WantStep, Want
<1>3. ConflictFree'
  BY <1>2 DEF IInv, TypeOK, State, ConflictFree
<1>4. DedupInv'
  BY <1>1, <1>2 DEF IInv, TypeOK, State, DedupInv
<1>5. ClaimsLive'
  BY <1>1, <1>2 DEF IInv, TypeOK, State, ClaimsLive
<1>6. RejectedClosed'
  BY <1>1, <1>2 DEF IInv, TypeOK, State, RejectedClosed
<1>7. LeasedOpen'
  BY <1>1, <1>2 DEF IInv, TypeOK, State, LeasedOpen, RejectedClosed, Settled
<1> QED
  BY <1>3, <1>4, <1>5, <1>6, <1>7 DEF Bookkeeping

\* A leased id is open, so the tripwire stays quiet, and the delivering lease
\* was the only one, so none is left on a stored id.
LEMMA DeliverKeeps ==
  ASSUME IInv, NEW c \in Chunks, NEW p \in Peers, DeliverStep(c, p)
  PROVE  Bookkeeping'
<1>1. p \in m.want[c]
  BY DEF DeliverStep
<1>2. m' = [m EXCEPT !.conflict = @ \/ c \in m.got, !.got = @ \cup {c},
                     !.ndeliv = @ + 1, !.want[c] = @ \ {p}]
  BY DEF DeliverStep, Deliver
<1>3. m.cfg.dedup => c \in m.arrived /\ c \notin m.got
  BY <1>1 DEF IInv, LeasedOpen, Settled
<1>4. ConflictFree'
  BY <1>2, <1>3 DEF IInv, TypeOK, State, ConflictFree
<1>5. DedupInv'
  BY <1>2 DEF IInv, TypeOK, State, DedupInv
<1>6. ClaimsLive'
  BY <1>2 DEF IInv, TypeOK, State, ClaimsLive
<1>7. LeasedOpen'
  BY <1>1, <1>2 DEF IInv, TypeOK, State, LeasedOpen, DedupInv, Settled
<1>8. RejectedClosed'
  BY <1>1, <1>2 DEF IInv, TypeOK, State, RejectedClosed
<1> QED
  BY <1>4, <1>5, <1>6, <1>7, <1>8 DEF Bookkeeping

\* Every call, by the groups above.
LEMMA BookkeepingStep == IInv /\ Next => Bookkeeping'
<1> SUFFICES ASSUME IInv, Next PROVE Bookkeeping'
  OBVIOUS
<1> QED
  BY ObservationsKeep, ReleasesKeep, WantKeeps, DeliverKeeps DEF Next

\* The counters move only together: a delivery stores exactly one new id.
LEMMA FloorStep == IInv /\ Next => DeliveryFloor'
<1> SUFFICES ASSUME IInv, Next PROVE DeliveryFloor'
  OBVIOUS
<1>1. ASSUME NEW c \in Chunks, NEW p \in Peers, DeliverStep(c, p)
      PROVE  DeliveryFloor'
  <2>1. m' = [m EXCEPT !.conflict = @ \/ c \in m.got, !.got = @ \cup {c},
                       !.ndeliv = @ + 1, !.want[c] = @ \ {p}]
    BY <1>1 DEF DeliverStep, Deliver
  <2>2. m.cfg.dedup => c \notin m.got
    BY <1>1 DEF DeliverStep, IInv, LeasedOpen, Settled
  <2>3. IsFiniteSet(m.got)
    BY ChunksFinite, FS_Subset DEF IInv, TypeOK, State
  <2>4. m.cfg.dedup => Cardinality(m.got \cup {c}) = Cardinality(m.got) + 1
    BY <2>2, <2>3, FS_AddElement
  <2>5. /\ m'.cfg = m.cfg /\ m'.got = m.got \cup {c}
        /\ m'.ndeliv = m.ndeliv + 1 /\ m'.npre = m.npre
    BY <2>1 DEF IInv, TypeOK, State
  <2>6. /\ m.ndeliv \in Nat /\ m.npre \in Nat
        /\ m.cfg.dedup => m.ndeliv + m.npre = Cardinality(m.got)
    BY DEF IInv, TypeOK, State, DeliveryFloor
  <2> QED
    BY <2>4, <2>5, <2>6 DEF DeliveryFloor
<1>2. ASSUME NEW c \in Chunks, \/ ArriveHistStep(c) \/ ArriveLiveStep(c)
                              \/ RejectStep(c) \/ ResetExcludedStep(c)
                              \/ ForgetStep(c) \/ \E d \in Depths : SetPrioStep(c, d)
      PROVE  DeliveryFloor'
  <2>1. /\ m'.cfg = m.cfg /\ m'.got = m.got
        /\ m'.ndeliv = m.ndeliv /\ m'.npre = m.npre
    BY <1>2 DEF IInv, TypeOK, State, ArriveHistStep, ArriveHist, ArriveLiveStep,
                ArriveLive, RejectStep, Reject, ResetExcludedStep, ResetExcluded,
                ForgetStep, Forget, SetPrioStep, SetPrio
  <2> QED
    BY <2>1 DEF IInv, DeliveryFloor
<1>3. ASSUME NEW c \in Chunks, NEW p \in Peers,
             \/ ObserveHolderStep(c, p) \/ LoseHolderStep(c, p)
             \/ WantStep(c, p) \/ StallStep(c, p)
      PROVE  DeliveryFloor'
  <2>1. /\ m'.cfg = m.cfg /\ m'.got = m.got
        /\ m'.ndeliv = m.ndeliv /\ m'.npre = m.npre
    BY <1>3 DEF IInv, TypeOK, State, ObserveHolderStep, ObserveHolder,
                LoseHolderStep, LoseHolder, WantStep, Want, StallStep, Stall
  <2> QED
    BY <2>1 DEF IInv, DeliveryFloor
<1> QED
  BY <1>1, <1>2, <1>3 DEF Next

\* IInv is inductive.
LEMMA InvStep == IInv /\ [Next]_m => IInv'
<1> SUFFICES ASSUME IInv, [Next]_m PROVE IInv'
  OBVIOUS
<1>1. CASE Next
  <2>1. TypeOK'
    BY NextType DEF IInv
  <2> QED
    BY <1>1, <2>1, BookkeepingStep, FloorStep DEF IInv, Bookkeeping
<1>2. CASE UNCHANGED m
  BY <1>2 DEF IInv, TypeOK, ConflictFree, DeliveryFloor, DedupInv, ClaimsLive,
              LeasedOpen, RejectedClosed, Settled
<1> QED
  BY <1>1, <1>2

\* IInv holds in every reachable state.
LEMMA Inductive == Spec => []IInv
BY InitInv, InvStep, PTL DEF Spec

\* No payload is ever delivered twice under one claim per id: the tripwire of
\* deliver is dead code, whatever order the calls come in.
THEOREM NoConflict == Spec => []ConflictFree
<1>1. IInv => ConflictFree
  BY DEF IInv
<1> QED
  BY <1>1, Inductive, PTL

\* Deliveries and preloads count the stored ids exactly: the floor the node's
\* deliveries() reports as evidence.
THEOREM FloorHolds == Spec => []DeliveryFloor
<1>1. IInv => DeliveryFloor
  BY DEF IInv
<1> QED
  BY <1>1, Inductive, PTL

\* One claim per id, each on a current holder that is not barred, each on an
\* id that is still open; a rejected id has none.
THEOREM LeasesSound == Spec => []LeaseSafe
<1>1. IInv => LeaseSafe
  BY DEF IInv, LeaseSafe
<1> QED
  BY <1>1, Inductive, PTL

-----------------------------------------------------------------------------
(* The bars.                                                               *)

\* Only reset_excluded and forget take a bar away, and both under the condition
\* the property names.
LEMMA BarsStep == TypeOK /\ [Next]_m => BarsKept
<1> SUFFICES ASSUME m \in State, [Next]_m PROVE BarsKept
  BY DEF TypeOK
<1>1. CASE UNCHANGED m
  BY <1>1 DEF BarsKept
<1>2. ASSUME NEW c \in Chunks, ResetExcludedStep(c)
      PROVE  BarsKept
  BY <1>2 DEF State, ResetExcludedStep, ResetExcluded, CanResetExcluded, BarsKept
<1>3. ASSUME NEW c \in Chunks, ForgetStep(c)
      PROVE  BarsKept
  BY <1>3 DEF State, ForgetStep, Forget, BarsKept
<1>4. ASSUME NEW c \in Chunks, NEW p \in Peers, StallStep(c, p)
      PROVE  BarsKept
  BY <1>4 DEF State, StallStep, Stall, BarsKept
<1>5. ASSUME NEW c \in Chunks,
             \/ ArriveHistStep(c) \/ ArriveLiveStep(c) \/ RejectStep(c)
             \/ \E d \in Depths : SetPrioStep(c, d)
      PROVE  BarsKept
  BY <1>5 DEF State, ArriveHistStep, ArriveHist, ArriveLiveStep, ArriveLive,
              RejectStep, Reject, SetPrioStep, SetPrio, BarsKept
<1>6. ASSUME NEW c \in Chunks, NEW p \in Peers,
             \/ ObserveHolderStep(c, p) \/ LoseHolderStep(c, p)
             \/ WantStep(c, p) \/ DeliverStep(c, p)
      PROVE  BarsKept
  BY <1>6 DEF State, ObserveHolderStep, ObserveHolder, LoseHolderStep, LoseHolder,
              WantStep, Want, DeliverStep, Deliver, BarsKept
<1> QED
  BY <1>1, <1>2, <1>3, <1>4, <1>5, <1>6 DEF Next

\* A stalled peer stays barred from the id until it settles or every holder is
\* barred: churn of the holder set never washes a bar off.
THEOREM BarsOutliveChurn == Spec => BarsStick
<1>1. Spec => []TypeOK
  BY TypeCorrect
<1> QED
  BY <1>1, BarsStep, PTL DEF Spec, BarsStick

-----------------------------------------------------------------------------
(* forget.                                                                 *)

\* A settled id holds nobody back: it is stored, or it is rejected and then not
\* among the arrived ids at all.
LEMMA SettledYields ==
  ASSUME NEW r \in State, r.rejected \cap r.arrived = {},
         NEW c \in Chunks, Settled(r, c), NEW d \in Chunks \ {c}
  PROVE  PrioOK(Forget(r, c), d) <=> PrioOK(r, d)
<1> DEFINE f == Forget(r, c)
<1>1. /\ f.cfg = r.cfg /\ f.arrived = r.arrived \ {c} /\ f.got = r.got
      /\ f.prio = [r.prio EXCEPT ![c] = 0]
      /\ f.holders = [r.holders EXCEPT ![c] = {}]
      /\ f.excluded = [r.excluded EXCEPT ![c] = {}] /\ f.want = r.want
  BY DEF Forget, State
<1>2. \A e \in r.arrived \ {c} :
        (f.prio[e] <= f.prio[d] \/ ~Eligible(f, e) \/ Addressed(f, e)) <=>
        (r.prio[e] <= r.prio[d] \/ ~Eligible(r, e) \/ Addressed(r, e))
  BY <1>1 DEF Eligible, Addressed, State
<1>3. c \in r.arrived => c \in r.got
  BY DEF Settled
<1>4. c \in r.arrived => Addressed(r, c)
  BY <1>3 DEF Addressed
<1> QED
  BY <1>1, <1>2, <1>4 DEF PrioOK

\* forget is behaviour-neutral: no other id's claim guard can tell whether a
\* settled id is still in the scheduling maps.
THEOREM ForgettingIsNeutral == Spec => ForgetNeutral
<1> DEFINE Neutral ==
      \A c \in Chunks :
        Settled(m, c) /\ m' = Forget(m, c) =>
          \A d \in Chunks \ {c}, p \in Peers :
            Claimable(m', d, p) <=> Claimable(m, d, p)
<1>1. IInv => [Neutral]_m
  <2> SUFFICES ASSUME IInv, NEW c \in Chunks, Settled(m, c), m' = Forget(m, c),
                      NEW d \in Chunks \ {c}, NEW p \in Peers
               PROVE  Claimable(m', d, p) <=> Claimable(m, d, p)
    OBVIOUS
  <2>1. m \in State /\ m.rejected \cap m.arrived = {}
    BY DEF IInv, TypeOK, RejectedClosed
  <2>2. PrioOK(m', d) <=> PrioOK(m, d)
    BY <2>1, SettledYields
  <2>3. /\ m'.cfg = m.cfg /\ m'.arrived = m.arrived \ {c} /\ m'.got = m.got
        /\ m'.live = m.live \ {c} /\ m'.assign = m.assign
        /\ m'.holders = [m.holders EXCEPT ![c] = {}]
        /\ m'.excluded = [m.excluded EXCEPT ![c] = {}] /\ m'.want = m.want
    BY <2>1 DEF Forget, State
  <2> QED
    BY <2>1, <2>2, <2>3 DEF Claimable, State
<1> QED
  BY <1>1, Inductive, PTL DEF ForgetNeutral

-----------------------------------------------------------------------------
(* With one claim per id, the machine implements ExactlyOnce.              *)

\* Every configuration the program ships with claims an id once.
AllDedup == \A cfg \in Configs : cfg.dedup

\* The configuration never changes.
LEMMA ConfigKept == Spec => [](m.cfg \in Configs)
<1>1. Init => m.cfg \in Configs
  BY DEF Init, New
<1>2. TypeOK /\ m.cfg \in Configs /\ [Next]_m => (m.cfg \in Configs)'
  <2> SUFFICES ASSUME m \in State, m.cfg \in Configs, [Next]_m PROVE m'.cfg = m.cfg
    BY DEF TypeOK
  <2>1. CASE UNCHANGED m
    BY <2>1
  <2>2. ASSUME NEW c \in Chunks,
               \/ ArriveHistStep(c) \/ ArriveLiveStep(c) \/ RejectStep(c)
               \/ ResetExcludedStep(c) \/ ForgetStep(c)
               \/ \E d \in Depths : SetPrioStep(c, d)
        PROVE  m'.cfg = m.cfg
    BY <2>2 DEF State, ArriveHistStep, ArriveHist, ArriveLiveStep, ArriveLive,
                RejectStep, Reject, ResetExcludedStep, ResetExcluded,
                ForgetStep, Forget, SetPrioStep, SetPrio
  <2>3. ASSUME NEW c \in Chunks, NEW p \in Peers,
               \/ ObserveHolderStep(c, p) \/ LoseHolderStep(c, p) \/ WantStep(c, p)
               \/ DeliverStep(c, p) \/ StallStep(c, p)
        PROVE  m'.cfg = m.cfg
    BY <2>3 DEF State, ObserveHolderStep, ObserveHolder, LoseHolderStep, LoseHolder,
                WantStep, Want, DeliverStep, Deliver, StallStep, Stall
  <2> QED
    BY <2>1, <2>2, <2>3 DEF Next
<1> QED
  BY <1>1, <1>2, TypeCorrect, PTL DEF Spec

-----------------------------------------------------------------------------
(* What the refinement mapping reads.                                      *)

\* The mapping looks at nothing but an id's leases and terminal marks.
Same(c) ==
  /\ m'.want[c] = m.want[c]
  /\ c \in m'.got <=> c \in m.got
  /\ c \in m'.rejected <=> c \in m.rejected

\* What it does not see does not change the status.
LEMMA SameStatus ==
  ASSUME NEW c \in Chunks, Same(c)
  PROVE  StatusOf(c)' = StatusOf(c)
BY DEF Same, StatusOf

\* The value of the mapping, case by case.
LEMMA StatusValue ==
  ASSUME TypeOK, NEW c \in Chunks
  PROVE  /\ c \in m.got => StatusOf(c) = Abstract!Got
         /\ c \notin m.got => StatusOf(c) # Abstract!Got
         /\ c \in m.rejected \ m.got => StatusOf(c) = Abstract!Rejected
         /\ ~Settled(m, c) /\ m.want[c] # {} => StatusOf(c) \in Abstract!Leases
         /\ ~Settled(m, c) /\ m.want[c] = {} => StatusOf(c) = Abstract!Idle
<1>1. m.want[c] # {} => (CHOOSE p \in m.want[c] : TRUE) \in Peers
  BY DEF TypeOK, State
<1>2. c \in m.got => StatusOf(c) = Abstract!Got
  BY DEF StatusOf, Abstract!Got
<1>3. c \in m.rejected \ m.got => StatusOf(c) = Abstract!Rejected
  BY DEF StatusOf, Abstract!Rejected
<1>4. ~Settled(m, c) /\ m.want[c] # {} => StatusOf(c) \in Abstract!Leases
  BY <1>1 DEF StatusOf, Settled, Abstract!Leases, Abstract!Leased
<1>5. ~Settled(m, c) /\ m.want[c] = {} => StatusOf(c) = Abstract!Idle
  BY DEF StatusOf, Settled, Abstract!Idle
<1>6. /\ Abstract!Got # Abstract!Rejected /\ Abstract!Got # Abstract!Idle
      /\ Abstract!Got \notin Abstract!Leases
  BY DEF Abstract!Got, Abstract!Rejected, Abstract!Idle, Abstract!Leases, Abstract!Leased
<1> QED
  BY <1>2, <1>3, <1>4, <1>5, <1>6 DEF Settled

\* The instance counts as this module does.
LEMMA SameCount ==
  ASSUME NEW S
  PROVE  Abstract!Cardinality(S) = Cardinality(S)
BY Zenon DEF Abstract!Cardinality, Cardinality

\* A call that touches one id, and counts a delivery exactly when that id
\* becomes stored, is an abstract step if the id's own move is allowed.
LEMMA OneChunkStep ==
  ASSUME TypeOK, TypeOK', NEW c \in Chunks,
         \A d \in Chunks \ {c} : Same(d),
         Abstract!Move(StatusOf(c), StatusOf(c)'),
         m'.ndeliv = m.ndeliv + (IF c \notin m.got /\ c \in m'.got THEN 1 ELSE 0)
  PROVE  Abstract!Next
<1> DEFINE new == {d \in Chunks : StatusOf(d) # Abstract!Got /\ StatusOf(d)' = Abstract!Got}
<1>1. \A d \in Chunks : Abstract!Move(StatusOf(d), StatusOf(d)')
  BY SameStatus DEF Abstract!Move
<1>2. \A d \in Chunks : /\ StatusOf(d) = Abstract!Got <=> d \in m.got
                        /\ (StatusOf(d) = Abstract!Got)' <=> d \in m'.got
  <2>1. \A d \in Chunks : StatusOf(d) = Abstract!Got <=> d \in m.got
    BY StatusValue
  <2>2. \A d \in Chunks : StatusOf(d)' = Abstract!Got <=> d \in m'.got
    BY DEF StatusOf, Abstract!Got
  <2> QED
    BY <2>1, <2>2
<1>3. new = IF c \notin m.got /\ c \in m'.got THEN {c} ELSE {}
  BY <1>2 DEF Same
<1>4. Cardinality(new) = IF c \notin m.got /\ c \in m'.got THEN 1 ELSE 0
  <2>1. Cardinality({c}) = 1 /\ Cardinality({}) = 0
    BY FS_Singleton, FS_EmptySet
  <2> QED
    BY <1>3, <2>1
<1>5. m'.ndeliv = m.ndeliv + Abstract!Cardinality(new)
  BY <1>4, SameCount
<1> QED
  BY <1>1, <1>5 DEF Abstract!Next
-----------------------------------------------------------------------------
(* Every call is an abstract step.                                         *)

\* Calls that leave an id's leases and terminal marks alone stutter.
LEMMA QuietCalls ==
  ASSUME TypeOK, NEW c \in Chunks,
         \/ ArriveHistStep(c) \/ ArriveLiveStep(c)
         \/ ResetExcludedStep(c) \/ ForgetStep(c)
         \/ \E d \in Depths : SetPrioStep(c, d)
         \/ \E p \in Peers : ObserveHolderStep(c, p)
  PROVE  (\A d \in Chunks : Same(d)) /\ m'.ndeliv = m.ndeliv
BY DEF TypeOK, State, Same, ArriveHistStep, ArriveHist, ArriveLiveStep, ArriveLive,
       ResetExcludedStep, ResetExcluded, ForgetStep, Forget, SetPrioStep, SetPrio,
       ObserveHolderStep, ObserveHolder

\* An unsettled id may be leased or rejected; from a lease it may go anywhere.
LEMMA OpenMove ==
  ASSUME TypeOK, TypeOK', NEW c \in Chunks, ~Settled(m, c),
         m.want[c] = {} => c \notin m'.got
  PROVE  Abstract!Move(StatusOf(c), StatusOf(c)')
<1>1. CASE m.want[c] # {}
  BY <1>1, StatusValue DEF Abstract!Move
<1>2. CASE m.want[c] = {}
  <2>1. StatusOf(c) = Abstract!Idle
    BY <1>2, StatusValue
  <2>2. c \notin m'.got
    BY <1>2
  <2>3. CASE c \in m'.rejected
    BY <2>1, <2>2, <2>3 DEF StatusOf, Abstract!Move, Abstract!Rejected
  <2>4. CASE c \notin m'.rejected /\ m'.want[c] # {}
    <3>1. (CHOOSE p \in m'.want[c] : TRUE) \in Peers
      BY <2>4 DEF TypeOK, State
    <3>2. StatusOf(c)' = Abstract!Leased(CHOOSE p \in m'.want[c] : TRUE)
      BY <2>2, <2>4 DEF StatusOf, Abstract!Leased
    <3> QED
      BY <2>1, <3>1, <3>2 DEF Abstract!Move, Abstract!Leases
  <2>5. CASE c \notin m'.rejected /\ m'.want[c] = {}
    BY <2>1, <2>2, <2>5 DEF StatusOf, Abstract!Move, Abstract!Idle
  <2> QED
    BY <2>3, <2>4, <2>5
<1> QED
  BY <1>1, <1>2

\* Calls that move one id, all of them on an id that is still open.
LEMMA MovingCalls ==
  ASSUME IInv, TypeOK', m.cfg.dedup, NEW c \in Chunks,
         \/ RejectStep(c)
         \/ \E p \in Peers : \/ LoseHolderStep(c, p) \/ WantStep(c, p)
                             \/ DeliverStep(c, p) \/ StallStep(c, p)
  PROVE  Abstract!Next \/ ((\A d \in Chunks : Same(d)) /\ m'.ndeliv = m.ndeliv)
<1> USE DEF IInv
<1>1. CASE RejectStep(c)
  <2>1. /\ ~Settled(m, c) /\ c \notin m'.got
        /\ \A d \in Chunks \ {c} : Same(d)
        /\ m'.ndeliv = m.ndeliv
    BY <1>1 DEF RejectStep, Reject, Settled, Same, TypeOK, State
  <2>2. Abstract!Move(StatusOf(c), StatusOf(c)')
    BY <2>1, OpenMove
  <2>3. m'.ndeliv = m.ndeliv + (IF c \notin m.got /\ c \in m'.got THEN 1 ELSE 0)
    BY <2>1 DEF TypeOK, State
  <2> QED
    BY <2>1, <2>2, <2>3, OneChunkStep
<1>2. ASSUME NEW p \in Peers, WantStep(c, p)
      PROVE  Abstract!Next
  <2>1. /\ ~Settled(m, c) /\ c \notin m'.got
        /\ \A d \in Chunks \ {c} : Same(d)
        /\ m'.ndeliv = m.ndeliv
    BY <1>2 DEF WantStep, Want, Claimable, RejectedClosed, Settled, Same, TypeOK, State
  <2>2. Abstract!Move(StatusOf(c), StatusOf(c)')
    BY <2>1, OpenMove
  <2>3. m'.ndeliv = m.ndeliv + (IF c \notin m.got /\ c \in m'.got THEN 1 ELSE 0)
    BY <2>1 DEF TypeOK, State
  <2> QED
    BY <2>1, <2>2, <2>3, OneChunkStep
<1>3. ASSUME NEW p \in Peers, DeliverStep(c, p)
      PROVE  Abstract!Next
  <2>1. ~Settled(m, c) /\ m.want[c] # {}
    BY <1>3 DEF DeliverStep, LeasedOpen
  <2>2. /\ c \in m'.got /\ \A d \in Chunks \ {c} : Same(d)
        /\ m'.ndeliv = m.ndeliv + 1
    BY <1>3 DEF DeliverStep, Deliver, Same, TypeOK, State
  <2>3. Abstract!Move(StatusOf(c), StatusOf(c)')
    BY <2>1, OpenMove
  <2> QED
    BY <2>1, <2>2, <2>3, OneChunkStep DEF Settled
<1>4. ASSUME NEW p \in Peers, LoseHolderStep(c, p) \/ StallStep(c, p)
      PROVE  Abstract!Next \/ ((\A d \in Chunks : Same(d)) /\ m'.ndeliv = m.ndeliv)
  <2>1. /\ \A d \in Chunks \ {c} : Same(d)
        /\ m'.ndeliv = m.ndeliv /\ m'.got = m.got /\ m'.rejected = m.rejected
        /\ m'.want[c] = m.want[c] \ {p}
    <3>1. CASE LoseHolderStep(c, p)
      BY <3>1 DEF LoseHolderStep, LoseHolder, Same, TypeOK, State
    <3>2. CASE StallStep(c, p)
      <4>1. PICK bars : m' = [m EXCEPT !.want[c] = @ \ {p}, !.excluded[c] = bars]
        BY <3>2 DEF StallStep, Stall
      <4> QED
        BY <4>1 DEF Same, TypeOK, State
    <3> QED
      BY <1>4, <3>1, <3>2
  <2>2. CASE m.want[c] = {}
    BY <2>1, <2>2 DEF Same
  <2>3. CASE m.want[c] # {}
    <3>1. ~Settled(m, c)
      BY <2>3 DEF LeasedOpen
    <3>2. Abstract!Move(StatusOf(c), StatusOf(c)')
      BY <2>3, <3>1, OpenMove
    <3>3. m'.ndeliv = m.ndeliv + (IF c \notin m.got /\ c \in m'.got THEN 1 ELSE 0)
      BY <2>1 DEF TypeOK, State
    <3> QED
      BY <2>1, <3>2, <3>3, OneChunkStep
  <2> QED
    BY <2>2, <2>3
<1> QED
  BY <1>1, <1>2, <1>3, <1>4

\* Preloaded ids start out stored, all others idle.
LEMMA InitRefines == Init => Abstract!Init
<1> SUFFICES ASSUME Init PROVE Abstract!Init
  OBVIOUS
<1>1. PICK cfg \in Configs, pre \in SUBSET Chunks :
        \E src : m = [New(cfg) EXCEPT !.got = pre, !.npre = Cardinality(pre),
                                     !.assign = src]
  BY DEF Init
<1>2. m.want = Nowhere /\ m.rejected = {} /\ m.ndeliv = 0
  BY <1>1 DEF New
<1>3. \A c \in Chunks : StatusOf(c) \in {Abstract!Idle, Abstract!Got}
  BY <1>2 DEF StatusOf, Nowhere, Abstract!Idle, Abstract!Got
<1> QED
  BY <1>2, <1>3 DEF Abstract!Init

\* A step of the machine is a step of ExactlyOnce or changes nothing it sees.
LEMMA StepRefines ==
  IInv /\ TypeOK' /\ m.cfg.dedup /\ [Next]_m => [Abstract!Next]_(Abstract!vars)
<1> SUFFICES ASSUME IInv, TypeOK', m.cfg.dedup, [Next]_m
             PROVE  Abstract!Next \/ UNCHANGED Abstract!vars
  OBVIOUS
<1>1. ASSUME \A d \in Chunks : Same(d), m'.ndeliv = m.ndeliv
      PROVE  UNCHANGED Abstract!vars
  <2>1. \A d \in Chunks : StatusOf(d)' = StatusOf(d)
    BY <1>1, SameStatus
  <2> QED
    BY <1>1, <2>1 DEF Abstract!vars
<1>2. CASE UNCHANGED m
  BY <1>1, <1>2 DEF Same
<1>3. CASE Next
  BY <1>1, <1>3, QuietCalls, MovingCalls DEF Next, IInv
<1> QED
  BY <1>2, <1>3

\* The machine implements exactly-once: every sequence of calls, in every
\* configuration with dedup, is a behaviour of the abstract promise.
THEOREM Refinement ==
  ASSUME AllDedup
  PROVE  Spec => ImplementsExactlyOnce
<1>1. m.cfg \in Configs => m.cfg.dedup
  BY DEF AllDedup
<1>2. IInv => TypeOK
  BY DEF IInv
<1> QED
  BY <1>1, <1>2, Inductive, ConfigKept, InitRefines, StepRefines, PTL
     DEF Spec, ImplementsExactlyOnce, Abstract!Spec

-----------------------------------------------------------------------------
(* The machine among honest and Byzantine peers, timeouts and churn.       *)

\* The bars that blame an honest peer.
FalseBars == {w \in Chunks \X Honest : w[2] \in m.excluded[w[1]]}

\* Every false bar was paid for: there are never more of them than spurious
\* timeouts spent.
Attribution ==
  /\ tmo \in 0 .. TimeoutBudget
  /\ IsFiniteSet(FalseBars)
  /\ Cardinality(FalseBars) <= TimeoutBudget - tmo

\* The inductive invariant of the environment: the machine's own, the supply of
\* honest holders and the attribution of bars.
WorldInv == IInv /\ SupplyInv /\ Attribution

-----------------------------------------------------------------------------
(* The start.                                                              *)

\* A scenario is a machine with holdings, depths, sources and arrivals, and
\* without leases or bars.
LEMMA WorldInitInv == WorldInit => WorldInv
<1> SUFFICES ASSUME WorldInit PROVE WorldInv
  OBVIOUS
<1> DEFINE held == [c \in Chunks |-> {p \in Peers : c \in Holds[p]}]
<1>1. PICK cfg \in Configs :
        m = [New(cfg) EXCEPT !.holders = held, !.prio = PrioOf,
                             !.assign = AssignOf, !.arrived = Chunks \ LiveChunks]
  BY DEF WorldInit
<1>2. New(cfg) \in State
  BY ConfigsType, NewType
<1>3. PrioOf \in [Chunks -> Nat]
  BY ScenarioType, DepthsNat
<1>4. TypeOK
  BY <1>1, <1>2, <1>3, ScenarioType DEF TypeOK, State
<1>5. /\ m.want = Nowhere /\ m.rejected = {} /\ ~m.conflict /\ m.holders = held
      /\ m.ndeliv = 0 /\ m.npre = 0 /\ m.got = {} /\ m.excluded = Nowhere
  BY <1>1 DEF New
<1>6. DeliveryFloor
  BY <1>5, FS_EmptySet DEF DeliveryFloor
<1>7. Bookkeeping
  BY <1>5 DEF Bookkeeping, ConflictFree, DedupInv, ClaimsLive, LeasedOpen,
              RejectedClosed, Nowhere
<1>8. SupplyInv
  <2> SUFFICES ASSUME NEW c \in Chunks PROVE m.holders[c] \cap Honest # {}
    BY DEF SupplyInv
  <2>1. PICK p \in Honest : c \in Holds[p]
    BY InitialSupply
  <2>2. p \in m.holders[c]
    BY <1>5, <2>1 DEF Honest
  <2> QED
    BY <2>2
<1>9. Attribution
  <2>1. FalseBars = {}
    BY <1>5 DEF FalseBars, Nowhere
  <2>2. tmo = TimeoutBudget /\ TimeoutBudget \in Nat
    BY ScenarioType DEF WorldInit
  <2> QED
    BY <2>1, <2>2, FS_EmptySet DEF Attribution
<1> QED
  BY <1>4, <1>6, <1>7, <1>8, <1>9 DEF WorldInv, IInv, Bookkeeping

-----------------------------------------------------------------------------
(* The steps.                                                              *)

\* Whatever the environment does to the machine is a call of its interface.
LEMMA WorldStepIsCall == WorldNext => Next
BY DEF WorldNext, Next, ActNew, ActReset, ActWant, ActDeliver, ByzStall,
       SpuriousTimeout, ActLose, ActGain

\* Only a lost holding takes a holder away, and only while another honest one
\* remains.
LEMMA SupplyStep == IInv /\ SupplyInv /\ WorldNext => SupplyInv'
<1> SUFFICES ASSUME m \in State, SupplyInv, WorldNext PROVE SupplyInv'
  BY DEF IInv, TypeOK
<1>1. PICK c \in Chunks :
        \/ ActNew(c) \/ ActReset(c)
        \/ \E p \in Peers : \/ ActWant(c, p) \/ ActDeliver(c, p) \/ ByzStall(c, p)
                            \/ SpuriousTimeout(c, p) \/ ActLose(c, p) \/ ActGain(c, p)
  BY DEF WorldNext
<1>2. CASE ActNew(c) \/ ActReset(c)
  BY <1>2 DEF ActNew, ActReset, ArriveLiveStep, ArriveLive, ResetExcludedStep,
              ResetExcluded, State, SupplyInv
<1>3. ASSUME NEW p \in Peers,
             ActWant(c, p) \/ ActDeliver(c, p) \/ ByzStall(c, p) \/ SpuriousTimeout(c, p)
      PROVE  SupplyInv'
  <2>1. m'.holders = m.holders
    BY <1>3 DEF ActWant, ActDeliver, ByzStall, SpuriousTimeout, WantStep, Want,
                DeliverStep, Deliver, StallStep, Stall, State
  <2> QED
    BY <2>1 DEF SupplyInv
<1>4. ASSUME NEW p \in Peers, ActLose(c, p)
      PROVE  SupplyInv'
  <2>1. PICK q \in m.holders[c] \ {p} : q \in Honest
    BY <1>4 DEF ActLose
  <2>2. m'.holders = [m.holders EXCEPT ![c] = @ \ {p}]
    BY <1>4 DEF ActLose, LoseHolderStep, LoseHolder, State
  <2> QED
    BY <2>1, <2>2 DEF SupplyInv, State
<1>5. ASSUME NEW p \in Peers, ActGain(c, p)
      PROVE  SupplyInv'
  BY <1>5 DEF ActGain, ObserveHolderStep, ObserveHolder, State, SupplyInv
<1> QED
  BY <1>1, <1>2, <1>3, <1>4, <1>5

\* A step that adds no false bar and leaves the budget alone keeps the account.
LEMMA NoNewFalseBars ==
  ASSUME Attribution, UNCHANGED tmo, FalseBars' \subseteq FalseBars
  PROVE  Attribution'
<1>1. IsFiniteSet(FalseBars') /\ Cardinality(FalseBars') <= Cardinality(FalseBars)
  BY FS_Subset DEF Attribution
<1>2. Cardinality(FalseBars) \in Nat /\ Cardinality(FalseBars') \in Nat
  BY <1>1, FS_CardinalityType DEF Attribution
<1> QED
  BY <1>1, <1>2, ScenarioType DEF Attribution

\* A spurious timeout adds at most the one bar it pays for.
LEMMA OneFalseBar ==
  ASSUME m \in State, Attribution, NEW c \in Chunks, NEW p \in Peers,
         SpuriousTimeout(c, p)
  PROVE  Attribution'
<1>1. \A d \in Chunks : m'.excluded[d] \subseteq m.excluded[d] \cup (IF d = c THEN {p} ELSE {})
  BY DEF SpuriousTimeout, StallStep, Stall, State
<1>2. FalseBars' \subseteq FalseBars \cup {<<c, p>>}
  BY <1>1 DEF FalseBars, SpuriousTimeout
<1>3. IsFiniteSet(FalseBars \cup {<<c, p>>})
      /\ Cardinality(FalseBars \cup {<<c, p>>}) <= Cardinality(FalseBars) + 1
  <2>1. IsFiniteSet(FalseBars) /\ Cardinality(FalseBars) \in Nat
    BY FS_CardinalityType DEF Attribution
  <2>2. /\ IsFiniteSet(FalseBars \cup {<<c, p>>})
        /\ Cardinality(FalseBars \cup {<<c, p>>}) =
             IF <<c, p>> \in FalseBars THEN Cardinality(FalseBars)
             ELSE Cardinality(FalseBars) + 1
    BY <2>1, FS_AddElement
  <2> QED
    BY <2>1, <2>2
<1>4. IsFiniteSet(FalseBars')
      /\ Cardinality(FalseBars') <= Cardinality(FalseBars \cup {<<c, p>>})
  BY <1>2, <1>3, FS_Subset
<1>5. /\ Cardinality(FalseBars) \in Nat /\ Cardinality(FalseBars') \in Nat
      /\ Cardinality(FalseBars \cup {<<c, p>>}) \in Nat
  BY <1>3, <1>4, FS_CardinalityType DEF Attribution
<1>6. tmo > 0 /\ tmo' = tmo - 1
  BY DEF SpuriousTimeout
<1> QED
  BY <1>3, <1>4, <1>5, <1>6, ScenarioType DEF Attribution

\* Bars come from timeouts alone, and honest peers are timed out only within
\* the budget.
LEMMA AttributionStep == IInv /\ Attribution /\ WorldNext => Attribution'
<1> SUFFICES ASSUME m \in State, Attribution, WorldNext PROVE Attribution'
  BY DEF IInv, TypeOK
<1>1. PICK c \in Chunks :
        \/ ActNew(c) \/ ActReset(c)
        \/ \E p \in Peers : \/ ActWant(c, p) \/ ActDeliver(c, p) \/ ByzStall(c, p)
                            \/ SpuriousTimeout(c, p) \/ ActLose(c, p) \/ ActGain(c, p)
  BY DEF WorldNext
<1>2. CASE ActNew(c) \/ ActReset(c)
  <2>1. \A d \in Chunks : m'.excluded[d] \subseteq m.excluded[d]
    <3>1. CASE ActNew(c)
      BY <3>1 DEF ActNew, ArriveLiveStep, ArriveLive, State
    <3>2. CASE ActReset(c)
      <4>1. m' = [m EXCEPT !.excluded[c] = {}]
        BY <3>2 DEF ActReset, ResetExcludedStep, ResetExcluded
      <4> QED
        BY <4>1 DEF State
    <3> QED
      BY <1>2, <3>1, <3>2
  <2>2. FalseBars' \subseteq FalseBars /\ UNCHANGED tmo
    BY <1>2, <2>1 DEF FalseBars, ActNew, ActReset
  <2> QED
    BY <2>2, NoNewFalseBars
<1>3. ASSUME NEW p \in Peers,
             ActWant(c, p) \/ ActDeliver(c, p) \/ ActLose(c, p) \/ ActGain(c, p)
      PROVE  Attribution'
  <2>1. m'.excluded = m.excluded
    BY <1>3 DEF ActWant, ActDeliver, ActLose, ActGain, WantStep, Want, DeliverStep,
                Deliver, LoseHolderStep, LoseHolder, ObserveHolderStep,
                ObserveHolder, State
  <2>2. FalseBars' \subseteq FalseBars /\ UNCHANGED tmo
    BY <1>3, <2>1 DEF FalseBars, ActWant, ActDeliver, ActLose, ActGain
  <2> QED
    BY <2>2, NoNewFalseBars
<1>4. ASSUME NEW p \in Peers, ByzStall(c, p)
      PROVE  Attribution'
  <2>1. \A d \in Chunks : m'.excluded[d] \subseteq m.excluded[d] \cup {p}
    BY <1>4 DEF ByzStall, StallStep, Stall, State
  <2>2. FalseBars' \subseteq FalseBars /\ UNCHANGED tmo
    BY <1>4, <2>1 DEF FalseBars, Honest, ByzStall
  <2> QED
    BY <2>2, NoNewFalseBars
<1> QED
  BY <1>1, <1>2, <1>3, <1>4, OneFalseBar

\* The invariant is inductive.
LEMMA WorldInvStep == WorldInv /\ [WorldNext]_world => WorldInv'
<1> SUFFICES ASSUME WorldInv, [WorldNext]_world PROVE WorldInv'
  OBVIOUS
<1>1. CASE WorldNext
  BY <1>1, WorldStepIsCall, InvStep, SupplyStep, AttributionStep DEF WorldInv
<1>2. CASE UNCHANGED world
  <2>1. UNCHANGED m /\ UNCHANGED tmo
    BY <1>2 DEF world
  <2>2. IInv'
    BY <2>1, InvStep DEF WorldInv
  <2> QED
    BY <2>1, <2>2 DEF WorldInv, SupplyInv, Attribution, FalseBars
<1> QED
  BY <1>1, <1>2

\* The invariant holds in every reachable world.
LEMMA WorldInductive == WorldSpec => []WorldInv
BY WorldInitInv, WorldInvStep, PTL DEF WorldSpec

-----------------------------------------------------------------------------
(* The theorems.                                                           *)

\* The machine's own invariants survive the environment, whatever it holds,
\* delivers, times out and churns: one claim per id, on a live holder that is
\* not barred, of an open id, and no payload twice.
THEOREM WorldSafe == WorldSpec => [](ConflictFree /\ DeliveryFloor /\ LeaseSafe)
<1>1. WorldInv => ConflictFree /\ DeliveryFloor /\ LeaseSafe
  BY DEF WorldInv, IInv, LeaseSafe
<1> QED
  BY <1>1, WorldInductive, PTL

\* Churn never takes the last honest holder of an id.
THEOREM SupplyHolds == WorldSpec => []SupplyInv
<1>1. WorldInv => SupplyInv
  BY DEF WorldInv
<1> QED
  BY <1>1, WorldInductive, PTL

\* With the budget untouched there are no false bars: only peers that stalled
\* by their own fault are barred, however holdings churn.
THEOREM OnlyByzantineBarred == WorldSpec => []NoFalseExclusion
<1>1. WorldInv => NoFalseExclusion
  <2> SUFFICES ASSUME WorldInv, tmo = TimeoutBudget, NEW c \in Chunks,
                      NEW p \in m.excluded[c]
               PROVE  p \in Byzantine
    BY DEF NoFalseExclusion
  <2>1. Cardinality(FalseBars) <= 0 /\ IsFiniteSet(FalseBars)
    BY ScenarioType DEF WorldInv, Attribution
  <2>2. FalseBars = {}
    <3>1. Cardinality(FalseBars) \in Nat
      BY <2>1, FS_CardinalityType
    <3>2. Cardinality(FalseBars) = 0
      BY <2>1, <3>1
    <3> QED
      BY <2>1, <3>2, FS_EmptySet
  <2>3. p \in Peers
    BY DEF WorldInv, IInv, TypeOK, State
  <2>4. p \in Honest => <<c, p>> \in FalseBars
    BY DEF FalseBars
  <2> QED
    BY <2>2, <2>3, <2>4 DEF Honest
<1> QED
  BY <1>1, WorldInductive, PTL

\* The blame is bounded for every budget: honest peers carry at most as many
\* bars as there were spurious timeouts.
THEOREM BlameBounded == WorldSpec => []Attribution
<1>1. WorldInv => Attribution
  BY DEF WorldInv
<1> QED
  BY <1>1, WorldInductive, PTL

\* An open id that nobody is leased always has an unbarred holder, or bars that
\* reset_excluded may clear now: no order of stalls, losses and gains leaves it
\* without a way on.
THEOREM AlwaysAWayOn == WorldSpec => []NeverStranded
<1>1. WorldInv => NeverStranded
  <2> SUFFICES ASSUME WorldInv, m.cfg.reset_on_exhaust,
                      NEW c \in m.arrived \ m.got, m.want[c] = {},
                      m.holders[c] \ m.excluded[c] = {}
               PROVE  CanResetExcluded(m, c)
    BY DEF NeverStranded
  <2>1. c \in Chunks
    BY DEF WorldInv, IInv, TypeOK, State
  <2>2. m.holders[c] # {}
    BY <2>1 DEF WorldInv, SupplyInv
  <2> QED
    BY <2>2 DEF CanResetExcluded
<1> QED
  BY <1>1, WorldInductive, PTL
=============================================================================
