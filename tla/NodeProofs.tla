----------------------------- MODULE NodeProofs -----------------------------
(***************************************************************************)
(* What one event does to the node, for every neighbourhood: the facts the *)
(* proofs about whole runs rest on.                                        *)
(***************************************************************************)
EXTENDS Node, TLAPS, FiniteSetTheorems, WellFoundedInduction

-----------------------------------------------------------------------------
(* The logs.                                                               *)

\* A log whose window lies above its interval and inside its coverage.
Sound(l) ==
  /\ l \in Log
  /\ l.interval <= l.topmost
  /\ \A b \in DOMAIN l.entries : l.interval < b /\ b <= l.topmost

\* BinIDs are numbers; a window is a function from some of them to chunks.
LEMMA LogTypes ==
  /\ MaxBinId \in Nat
  /\ BinIds \subseteq Nat
  /\ 0 \in BinIds
  /\ \A w : w \in Window <=> DOMAIN w \subseteq BinIds /\ w \in [DOMAIN w -> Chunks]
<1>1. MaxBinId \in Nat
  BY NodeConstants
<1>2. BinIds \subseteq Nat /\ 0 \in BinIds
  BY <1>1 DEF BinIds
<1>3. \A w : w \in Window <=> DOMAIN w \subseteq BinIds /\ w \in [DOMAIN w -> Chunks]
  BY DEF Window
<1> QED
  BY <1>1, <1>2, <1>3

\* A sound log's parts, for the provers.
LEMMA SoundFacts ==
  ASSUME NEW l, Sound(l)
  PROVE  /\ l = [interval |-> l.interval, topmost |-> l.topmost, entries |-> l.entries]
         /\ l.interval \in BinIds /\ l.topmost \in BinIds
         /\ l.interval \in Nat /\ l.topmost \in Nat
         /\ DOMAIN l.entries \subseteq BinIds
         /\ l.entries \in [DOMAIN l.entries -> Chunks]
         /\ \A b \in DOMAIN l.entries : b \in Nat /\ l.interval < b /\ b <= l.topmost
<1>1. /\ l = [interval |-> l.interval, topmost |-> l.topmost, entries |-> l.entries]
      /\ l.interval \in BinIds /\ l.topmost \in BinIds /\ l.entries \in Window
  BY DEF Sound, Log
<1> QED
  BY <1>1, LogTypes DEF Sound

\* The least unsettled BinID exists.
LEMMA LeastExists ==
  ASSUME NEW S \in SUBSET Nat, S # {}
  PROVE  Least(S) \in S /\ \A y \in S : Least(S) <= y
<1> DEFINE R == OpToRel(<, Nat)
<1>1. IsWellFoundedOn(R, Nat)
  BY NatLessThanWellFounded
<1>2. PICK x \in S : \A y \in S : <<y, x>> \notin R
  <2> HIDE DEF R
  <2> QED
    BY <1>1, WFMin
<1>3. \A y \in S : ~(y < x)
  BY <1>2 DEF OpToRel
<1>4. \E z \in S : \A y \in S : z <= y
  BY <1>3
<1> QED
  BY <1>4 DEF Least

\* What advance does to a log whose window lies above its interval: the interval
\* moves up inside the covered range, everything it passes is settled, and the
\* window keeps exactly the entries above it.
LEMMA AdvanceFacts ==
  ASSUME NEW l \in Log, NEW S,
         \A b \in DOMAIN l.entries : l.interval < b /\ b <= l.topmost,
         l.interval <= l.topmost
  PROVE  LET a == Advance(l, S)
         IN /\ a \in Log
            /\ a.topmost = l.topmost
            /\ l.interval <= a.interval /\ a.interval <= a.topmost
            /\ DOMAIN a.entries = {b \in DOMAIN l.entries : b > a.interval}
            /\ \A b \in DOMAIN a.entries : a.entries[b] = l.entries[b]
            /\ \A b \in DOMAIN l.entries : b <= a.interval => l.entries[b] \in S
<1> DEFINE stop == Stops(l, S)
           a == Advance(l, S)
<1>1. /\ l.interval \in BinIds /\ l.topmost \in BinIds
      /\ DOMAIN l.entries \subseteq BinIds
      /\ l.entries \in [DOMAIN l.entries -> Chunks]
  BY LogTypes DEF Log
<1>2. /\ l.interval \in Nat /\ l.topmost \in Nat
      /\ \A b \in DOMAIN l.entries : b \in Nat
  BY <1>1, LogTypes DEF BinIds
<1>3. CASE stop = {}
  <2>1. BinIdMax(l.interval, l.topmost) = l.topmost
    BY <1>2 DEF BinIdMax
  <2>2. a = [l EXCEPT !.interval = l.topmost, !.entries = EmptyWindow]
    BY <1>3, <2>1, Zenon DEF Advance
  <2>3. EmptyWindow \in Window /\ DOMAIN EmptyWindow = {}
    BY LogTypes DEF EmptyWindow
  <2>4. \A b \in DOMAIN l.entries : l.entries[b] \in S
    BY <1>3 DEF Stops
  <2>5. /\ a \in Log /\ a.topmost = l.topmost /\ a.interval = l.topmost
        /\ a.entries = EmptyWindow
    BY <1>1, <2>2, <2>3 DEF Log
  <2>6. {b \in DOMAIN l.entries : b > l.topmost} = {}
    BY <1>2
  <2> HIDE DEF a
  <2> QED
    BY <1>2, <2>3, <2>4, <2>5, <2>6 DEF a
<1>4. CASE stop # {}
  <2>1. Least(stop) \in stop /\ \A y \in stop : Least(stop) <= y
    <3>1. stop \in SUBSET Nat
      BY <1>2 DEF Stops
    <3> QED
      BY <1>4, <3>1, LeastExists
  <2>2. PICK first \in Nat : first = Least(stop)
    BY <1>2, <2>1 DEF Stops
  <2>3. first \in DOMAIN l.entries
    BY <2>1, <2>2 DEF Stops
  <2>4. l.interval < first /\ first <= l.topmost
    BY <2>3
  <2>5. l.interval <= first - 1 /\ first - 1 <= l.topmost
    BY <1>2, <2>4
  <2>6. /\ BinIdMin(first - 1, l.topmost) = first - 1
        /\ BinIdMax(l.interval, first - 1) = first - 1
    BY <1>2, <2>5 DEF BinIdMin, BinIdMax
  <2> DEFINE kept == {b \in DOMAIN l.entries : b >= first}
             rest == [b \in kept |-> l.entries[b]]
  <2>7. a = [l EXCEPT !.interval = first - 1, !.entries = rest]
    BY <1>4, <2>2, <2>6, Zenon DEF Advance
  <2>8. first - 1 \in BinIds
    BY <1>1, <1>2, <2>5, LogTypes DEF BinIds
  <2>9. rest \in Window
    BY <1>1, LogTypes
  <2>10. kept = {b \in DOMAIN l.entries : b > first - 1}
    BY <1>2
  <2>11. \A b \in DOMAIN l.entries : b <= first - 1 => l.entries[b] \in S
    <3>1. \A b \in stop : first <= b
      BY <2>1, <2>2
    <3>2. \A b \in DOMAIN l.entries : b \notin stop => l.entries[b] \in S
      BY DEF Stops
    <3> HIDE DEF stop
    <3>3. \A b \in DOMAIN l.entries : b <= first - 1 => b \notin stop
      BY <1>2, <3>1
    <3> QED
      BY <3>2, <3>3
  <2>12. DOMAIN rest = kept /\ \A b \in kept : rest[b] = l.entries[b]
    OBVIOUS
  <2> HIDE DEF kept, rest, stop, a
  <2>13. /\ a \in Log /\ a.topmost = l.topmost /\ a.interval = first - 1
         /\ a.entries = rest
    BY <1>1, <2>7, <2>8, <2>9 DEF Log
  <2> QED
    BY <2>5, <2>10, <2>11, <2>12, <2>13 DEF a
<1> QED
  BY <1>3, <1>4

\* The greatest of some BinIDs exists.
LEMMA GreatestExists ==
  ASSUME NEW S \in SUBSET BinIds, S # {}
  PROVE  \E t \in S : \A b \in S : b <= t
<1> DEFINE above == {t \in Nat : \A b \in S : b <= t}
<1>1. \A b \in S : b \in Nat /\ b <= MaxBinId
  BY LogTypes DEF BinIds
<1>2. MaxBinId \in above
  BY <1>1, LogTypes
<1>3. PICK t \in above : \A y \in above : t <= y
  BY <1>2, LeastExists
<1>4. t \in Nat /\ \A b \in S : b <= t
  BY <1>3
<1>5. t \in S
  <2> SUFFICES ASSUME t \notin S PROVE FALSE
    OBVIOUS
  <2>1. \A b \in S : b <= t - 1
    BY <1>1, <1>4
  <2>2. t - 1 \in Nat
    BY <1>1, <1>4, <2>1
  <2>3. t - 1 \in above
    BY <2>1, <2>2
  <2> QED
    BY <1>3, <1>4, <2>3
<1> QED
  BY <1>4, <1>5

\* The next start is a BinID just above the interval, or wraps below it.
LEMMA NextStartFacts ==
  ASSUME NEW l \in Log
  PROVE  NextStart(l) \in BinIds /\ NextStart(l) <= l.interval + 1
<1>1. l.interval \in Nat /\ l.interval <= MaxBinId
  BY LogTypes DEF Log, BinIds
<1>2. CASE l.interval = MaxBinId
  BY <1>1, <1>2, LogTypes DEF NextStart, BinIds
<1>3. CASE l.interval < MaxBinId
  BY <1>1, <1>3, LogTypes DEF NextStart, BinIds
<1> QED
  BY <1>1, <1>2, <1>3, LogTypes

\* Observing an offer's entries adds those above the interval to the window, in
\* place of what their BinIDs stood for, and covers them all.
LEMMA ObserveAllFacts ==
  ASSUME NEW l \in Log, NEW refs \in Window
  PROVE  LET o == ObserveAll(l, refs)
             news == {b \in DOMAIN refs : b > l.interval}
         IN /\ o \in Log
            /\ o.interval = l.interval
            /\ o.topmost \in {l.topmost} \cup DOMAIN refs
            /\ \A b \in {l.topmost} \cup DOMAIN refs : b <= o.topmost
            /\ DOMAIN o.entries = DOMAIN l.entries \cup news
            /\ \A b \in news : o.entries[b] = refs[b]
            /\ \A b \in DOMAIN l.entries \ news : o.entries[b] = l.entries[b]
<1> DEFINE news == {b \in DOMAIN refs : b > l.interval}
           all == {l.topmost} \cup DOMAIN refs
           top == CHOOSE t \in all : \A b \in all : b <= t
           w == [b \in DOMAIN l.entries \cup news |->
                   IF b \in news THEN refs[b] ELSE l.entries[b]]
<1>1. /\ l.interval \in BinIds /\ l.topmost \in BinIds /\ l.entries \in Window
      /\ l = [interval |-> l.interval, topmost |-> l.topmost, entries |-> l.entries]
  BY DEF Log
<1>2. DOMAIN refs \subseteq BinIds /\ DOMAIN l.entries \subseteq BinIds
      /\ refs \in [DOMAIN refs -> Chunks] /\ l.entries \in [DOMAIN l.entries -> Chunks]
  BY <1>1, LogTypes
<1>3. top \in all /\ \A b \in all : b <= top
  <2>1. \E t \in all : \A b \in all : b <= t
    BY <1>1, <1>2, GreatestExists
  <2> QED
    BY <2>1
<1>4. w \in Window
  <2>1. DOMAIN w \subseteq BinIds
    BY <1>2
  <2>2. w \in [DOMAIN w -> Chunks]
    BY <1>2
  <2> QED
    BY <2>1, <2>2, LogTypes
<1>5. ObserveAll(l, refs) = [l EXCEPT !.entries = w, !.topmost = top]
  BY DEF ObserveAll
<1>6. top \in BinIds
  BY <1>1, <1>2, <1>3
<1>7. /\ DOMAIN w = DOMAIN l.entries \cup news
      /\ \A b \in news : w[b] = refs[b]
      /\ \A b \in DOMAIN l.entries \ news : w[b] = l.entries[b]
  OBVIOUS
<1> HIDE DEF w, top, news, all
<1>8. ObserveAll(l, refs) = [interval |-> l.interval, topmost |-> top, entries |-> w]
  BY <1>1, <1>5
<1> QED
  BY <1>1, <1>3, <1>4, <1>6, <1>7, <1>8 DEF Log, all, news

\* advance: the interval moves up inside the coverage, what it passes is settled,
\* and the window keeps exactly the entries above it.
LEMMA AdvanceSound ==
  ASSUME NEW l, Sound(l), NEW S
  PROVE  LET a == Advance(l, S)
         IN /\ Sound(a)
            /\ a.topmost = l.topmost
            /\ l.interval <= a.interval
            /\ DOMAIN a.entries \subseteq DOMAIN l.entries
            /\ \A b \in DOMAIN a.entries : a.entries[b] = l.entries[b]
            /\ \A b \in DOMAIN l.entries \ DOMAIN a.entries : l.entries[b] \in S
<1> DEFINE a == Advance(l, S)
<1>1. /\ a \in Log
      /\ a.topmost = l.topmost
      /\ l.interval <= a.interval /\ a.interval <= a.topmost
      /\ DOMAIN a.entries = {b \in DOMAIN l.entries : b > a.interval}
      /\ \A b \in DOMAIN a.entries : a.entries[b] = l.entries[b]
      /\ \A b \in DOMAIN l.entries : b <= a.interval => l.entries[b] \in S
  BY AdvanceFacts DEF Sound
<1> HIDE DEF a
<1>2. a.interval \in Nat /\ a.topmost \in Nat
  BY <1>1, LogTypes DEF Log
<1>3. Sound(a)
  BY <1>1, <1>2, SoundFacts DEF Sound
<1>4. \A b \in DOMAIN l.entries : b > a.interval \/ b <= a.interval
  BY <1>2, SoundFacts
<1> QED
  BY <1>1, <1>3, <1>4 DEF a

\* next: a BinID just above the interval, or a wrap below it.
LEMMA NextStartSound ==
  ASSUME NEW l, Sound(l)
  PROVE  NextStart(l) \in BinIds /\ NextStart(l) <= l.interval + 1
BY NextStartFacts DEF Sound

\* observe, for all entries of an offer.
LEMMA ObserveSound ==
  ASSUME NEW l, Sound(l), NEW refs \in Window
  PROVE  LET o == ObserveAll(l, refs)
             news == {b \in DOMAIN refs : b > l.interval}
         IN /\ Sound(o)
            /\ o.interval = l.interval
            /\ o.topmost \in {l.topmost} \cup DOMAIN refs
            /\ l.topmost <= o.topmost
            /\ DOMAIN o.entries = DOMAIN l.entries \cup news
            /\ \A b \in news : o.entries[b] = refs[b]
            /\ \A b \in DOMAIN l.entries \ news : o.entries[b] = l.entries[b]
<1> DEFINE o == ObserveAll(l, refs)
           news == {b \in DOMAIN refs : b > l.interval}
<1>1. /\ o \in Log
      /\ o.interval = l.interval
      /\ o.topmost \in {l.topmost} \cup DOMAIN refs
      /\ \A b \in {l.topmost} \cup DOMAIN refs : b <= o.topmost
      /\ DOMAIN o.entries = DOMAIN l.entries \cup news
      /\ \A b \in news : o.entries[b] = refs[b]
      /\ \A b \in DOMAIN l.entries \ news : o.entries[b] = l.entries[b]
  BY ObserveAllFacts DEF Sound
<1> HIDE DEF o
<1>2. o.topmost \in Nat /\ o.interval \in Nat
  BY <1>1, LogTypes DEF Log
<1>3. \A b \in DOMAIN refs : b \in Nat
  BY LogTypes
<1>4. Sound(o)
  BY <1>1, <1>2, <1>3, SoundFacts DEF Sound
<1> QED
  BY <1>1, <1>4 DEF o

-----------------------------------------------------------------------------
(* The loops over the machine.                                             *)

\* A PullState is made of its fields.
LEMMA StateFields ==
  ASSUME NEW r
  PROVE  r \in State <=>
           /\ r = [cfg |-> r.cfg, want |-> r.want, holders |-> r.holders,
                   excluded |-> r.excluded, arrived |-> r.arrived, live |-> r.live,
                   rejected |-> r.rejected, got |-> r.got, prio |-> r.prio,
                   assign |-> r.assign, conflict |-> r.conflict,
                   ndeliv |-> r.ndeliv, npre |-> r.npre]
           /\ r.cfg \in Config
           /\ r.want \in [Chunks -> SUBSET Peers]
           /\ r.holders \in [Chunks -> SUBSET Peers]
           /\ r.excluded \in [Chunks -> SUBSET Peers]
           /\ r.arrived \in SUBSET Chunks /\ r.live \in SUBSET Chunks
           /\ r.rejected \in SUBSET Chunks /\ r.got \in SUBSET Chunks
           /\ r.prio \in [Chunks -> Nat]
           /\ r.assign \in [Chunks -> SUBSET Peers]
           /\ r.conflict \in BOOLEAN /\ r.ndeliv \in Nat /\ r.npre \in Nat
BY DEF State

\* Adding nothing to a count.
LEMMA NoneCounted ==
  ASSUME NEW n \in Nat, NEW S, S = {}
  PROVE  n + Cardinality(S) = n
BY FS_EmptySet

\* forget, for all ids of S: the settled ones leave the scheduling maps.
LEMMA ForgetAll ==
  ASSUME NEW r \in State, NEW S \in SUBSET Chunks
  PROVE  LET f == ForEach(r, S, Forget)
             gone == {c \in S : Settled(r, c)}
         IN /\ f \in State
            /\ f.cfg = r.cfg /\ f.want = r.want /\ f.rejected = r.rejected
            /\ f.got = r.got /\ f.conflict = r.conflict /\ f.ndeliv = r.ndeliv
            /\ f.npre = r.npre /\ f.arrived = r.arrived \ gone
            /\ \A c \in Chunks : c \notin gone => /\ f.holders[c] = r.holders[c]
                                                  /\ f.excluded[c] = r.excluded[c]
<1> DEFINE f == ForEach(r, S, Forget)
           gone == {c \in S : Settled(r, c)}
<1>1. ASSUME NEW c \in Chunks
      PROVE  /\ Forget(r, c) \in State
             /\ Forget(r, c).want = r.want /\ Forget(r, c).rejected = r.rejected
             /\ Forget(r, c).got = r.got /\ Forget(r, c).conflict = r.conflict
             /\ Forget(r, c).ndeliv = r.ndeliv
             /\ c \in Forget(r, c).arrived <=> c \in r.arrived /\ ~Settled(r, c)
             /\ ~Settled(r, c) => Forget(r, c) = r
  BY DEF Forget, State
<1>2. {c \in S : Forget(r, c).ndeliv > r.ndeliv} = {}
  BY <1>1 DEF State
<1>3. f.ndeliv = r.ndeliv
  BY <1>2, NoneCounted DEF ForEach, State
<1>4. f.conflict = r.conflict
  BY <1>1 DEF ForEach, State
<1>5. /\ f.cfg = r.cfg /\ f.npre = r.npre /\ f.assign = r.assign
      /\ f.want = r.want
  BY <1>1 DEF ForEach, State
<1>6. f.rejected = r.rejected /\ f.got = r.got
  BY <1>1 DEF ForEach, State
<1>7. f.arrived = r.arrived \ gone
  BY <1>1 DEF ForEach, State
<1>8. \A c \in Chunks : c \notin gone => /\ f.holders[c] = r.holders[c]
                                        /\ f.excluded[c] = r.excluded[c]
  BY <1>1 DEF ForEach, State
<1>9. /\ f.holders \in [Chunks -> SUBSET Peers]
      /\ f.excluded \in [Chunks -> SUBSET Peers]
      /\ f.prio \in [Chunks -> Nat] /\ f.live \in SUBSET Chunks
  BY <1>1 DEF ForEach, State
<1>10. f = [cfg |-> f.cfg, want |-> f.want, holders |-> f.holders,
            excluded |-> f.excluded, arrived |-> f.arrived, live |-> f.live,
            rejected |-> f.rejected, got |-> f.got, prio |-> f.prio,
            assign |-> f.assign, conflict |-> f.conflict,
            ndeliv |-> f.ndeliv, npre |-> f.npre]
  BY DEF ForEach
<1> HIDE DEF f
<1>11. f \in State
  BY <1>3, <1>4, <1>5, <1>6, <1>7, <1>9, <1>10, StateFields
<1> QED
  BY <1>3, <1>4, <1>5, <1>6, <1>7, <1>8, <1>11 DEF f

\* reset_excluded, for all ids of S: bars only go, and the exhausted ones do.
LEMMA ResetAll ==
  ASSUME NEW r \in State, NEW S \in SUBSET Chunks
  PROVE  LET f == ForEach(r, S, ResetExcluded)
         IN /\ f \in State
            /\ f.cfg = r.cfg /\ f.want = r.want /\ f.rejected = r.rejected
            /\ f.got = r.got /\ f.conflict = r.conflict /\ f.ndeliv = r.ndeliv
            /\ f.npre = r.npre /\ f.arrived = r.arrived /\ f.holders = r.holders
            /\ \A c \in Chunks : f.excluded[c] \subseteq r.excluded[c]
            /\ \A c \in S : CanResetExcluded(r, c) => f.excluded[c] = {}
<1> DEFINE f == ForEach(r, S, ResetExcluded)
<1>1. ASSUME NEW c \in Chunks
      PROVE  /\ ResetExcluded(r, c) \in State
             /\ ResetExcluded(r, c).want = r.want
             /\ ResetExcluded(r, c).rejected = r.rejected
             /\ ResetExcluded(r, c).got = r.got
             /\ ResetExcluded(r, c).conflict = r.conflict
             /\ ResetExcluded(r, c).ndeliv = r.ndeliv
             /\ ResetExcluded(r, c).arrived = r.arrived
             /\ ResetExcluded(r, c).live = r.live
             /\ ResetExcluded(r, c).holders = r.holders
             /\ ResetExcluded(r, c).prio = r.prio
             /\ ResetExcluded(r, c).excluded[c] \subseteq r.excluded[c]
             /\ CanResetExcluded(r, c) => ResetExcluded(r, c).excluded[c] = {}
  BY DEF ResetExcluded, State
<1>2. {c \in S : ResetExcluded(r, c).ndeliv > r.ndeliv} = {}
  BY <1>1 DEF State
<1>3. f.ndeliv = r.ndeliv
  BY <1>2, NoneCounted DEF ForEach, State
<1>4. f.conflict = r.conflict
  BY <1>1 DEF ForEach, State
<1>5. /\ f.cfg = r.cfg /\ f.npre = r.npre /\ f.assign = r.assign
      /\ f.want = r.want
  BY <1>1 DEF ForEach, State
<1>6. f.holders = r.holders /\ f.prio = r.prio
  BY <1>1 DEF ForEach, State
<1>7. f.rejected = r.rejected /\ f.got = r.got
  BY <1>1 DEF ForEach, State
<1>8. f.arrived = r.arrived /\ f.live = r.live
  BY <1>1 DEF ForEach, State
<1>9. /\ f.excluded \in [Chunks -> SUBSET Peers]
      /\ \A c \in Chunks : f.excluded[c] \subseteq r.excluded[c]
      /\ \A c \in S : CanResetExcluded(r, c) => f.excluded[c] = {}
  BY <1>1 DEF ForEach, State
<1>10. f = [cfg |-> f.cfg, want |-> f.want, holders |-> f.holders,
            excluded |-> f.excluded, arrived |-> f.arrived, live |-> f.live,
            rejected |-> f.rejected, got |-> f.got, prio |-> f.prio,
            assign |-> f.assign, conflict |-> f.conflict,
            ndeliv |-> f.ndeliv, npre |-> f.npre]
  BY DEF ForEach
<1> HIDE DEF f
<1>11. f \in State
  BY <1>3, <1>4, <1>5, <1>6, <1>7, <1>8, <1>9, <1>10, StateFields
<1> QED
  BY <1>3, <1>4, <1>5, <1>6, <1>7, <1>8, <1>9, <1>11 DEF f

\* The loop over lose_holder, and what it does.
Losing(r, S, p) == ForEach(r, S, LAMBDA m, c : LoseHolder(m, c, p))

Lost(r, f, S, p) ==
  /\ f \in State
  /\ f.cfg = r.cfg /\ f.rejected = r.rejected /\ f.excluded = r.excluded
  /\ f.got = r.got /\ f.conflict = r.conflict /\ f.ndeliv = r.ndeliv
  /\ f.npre = r.npre /\ f.arrived = r.arrived
  /\ \A c \in Chunks \ S : f.want[c] = r.want[c] /\ f.holders[c] = r.holders[c]
  /\ \A c \in S : /\ f.want[c] = r.want[c] \ {p}
                  /\ f.holders[c] = r.holders[c] \ {p}

\* lose_holder, for all ids of S: the peer's holdings and claims on them go.
LEMMA LoseAll ==
  ASSUME NEW r \in State, NEW S \in SUBSET Chunks, NEW p \in Peers
  PROVE  Lost(r, Losing(r, S, p), S, p)
<1> DEFINE f == Losing(r, S, p)
<1>1. ASSUME NEW c \in Chunks
      PROVE  /\ LoseHolder(r, c, p) \in State
             /\ LoseHolder(r, c, p).want[c] = r.want[c] \ {p}
             /\ LoseHolder(r, c, p).holders[c] = r.holders[c] \ {p}
             /\ LoseHolder(r, c, p).rejected = r.rejected
             /\ LoseHolder(r, c, p).got = r.got
             /\ LoseHolder(r, c, p).conflict = r.conflict
             /\ LoseHolder(r, c, p).ndeliv = r.ndeliv
             /\ LoseHolder(r, c, p).arrived = r.arrived
             /\ LoseHolder(r, c, p).live = r.live
             /\ LoseHolder(r, c, p).prio = r.prio
             /\ LoseHolder(r, c, p).excluded = r.excluded
  BY DEF LoseHolder, State
<1>2. {c \in S : LoseHolder(r, c, p).ndeliv > r.ndeliv} = {}
  BY <1>1 DEF State
<1>3. f.ndeliv = r.ndeliv
  BY <1>2, NoneCounted DEF Losing, ForEach, State
<1>4. f.conflict = r.conflict
  BY <1>1 DEF Losing, ForEach, State
<1>5. /\ f.cfg = r.cfg /\ f.npre = r.npre /\ f.assign = r.assign
      /\ f.excluded = r.excluded
  BY <1>1 DEF Losing, ForEach, State
<1>6. f.prio = r.prio
  BY <1>1 DEF Losing, ForEach, State
<1>7. f.rejected = r.rejected /\ f.got = r.got
  BY <1>1 DEF Losing, ForEach, State
<1>8. f.arrived = r.arrived /\ f.live = r.live
  BY <1>1 DEF Losing, ForEach, State
<1>9. /\ f.want \in [Chunks -> SUBSET Peers] /\ f.holders \in [Chunks -> SUBSET Peers]
      /\ \A c \in Chunks \ S : f.want[c] = r.want[c] /\ f.holders[c] = r.holders[c]
      /\ \A c \in S : /\ f.want[c] = r.want[c] \ {p}
                      /\ f.holders[c] = r.holders[c] \ {p}
  BY <1>1 DEF Losing, ForEach, State
<1>10. f = [cfg |-> f.cfg, want |-> f.want, holders |-> f.holders,
            excluded |-> f.excluded, arrived |-> f.arrived, live |-> f.live,
            rejected |-> f.rejected, got |-> f.got, prio |-> f.prio,
            assign |-> f.assign, conflict |-> f.conflict,
            ndeliv |-> f.ndeliv, npre |-> f.npre]
  BY DEF Losing, ForEach
<1> HIDE DEF f
<1>11. f \in State
  BY <1>3, <1>4, <1>5, <1>6, <1>7, <1>8, <1>9, <1>10, StateFields
<1>12. Lost(r, f, S, p)
  BY <1>3, <1>4, <1>5, <1>6, <1>7, <1>8, <1>9, <1>11 DEF Lost
<1> QED
  BY <1>12 DEF f

\* One offered chunk.
LEMMA ArriveFacts ==
  ASSUME NEW r \in State, NEW c \in Chunks, NEW k \in Keys, NEW refs, NEW cursor
  PROVE  LET a == Arrive(r, c, k, refs, cursor)
         IN /\ a \in State
            /\ a.want = r.want /\ a.rejected = r.rejected /\ a.got = r.got
            /\ a.conflict = r.conflict /\ a.ndeliv = r.ndeliv
            /\ a.excluded = r.excluded
            /\ a.holders[c] = r.holders[c] \cup {k[1]}
            /\ c \in a.arrived <=> c \in r.arrived \/ ~Settled(r, c)
<1> DEFINE seen == SetPrio(ObserveHolder(r, c, k[1]), c, k[2])
<1>1. k[1] \in Peers /\ k[2] \in Nat
  BY NodeConstants DEF Keys
<1>2. ObserveHolder(r, c, k[1]) \in State
  BY <1>1 DEF ObserveHolder, State
<1>3. /\ seen \in State
      /\ seen.want = r.want /\ seen.rejected = r.rejected /\ seen.got = r.got
      /\ seen.conflict = r.conflict /\ seen.ndeliv = r.ndeliv
      /\ seen.excluded = r.excluded /\ seen.arrived = r.arrived
      /\ seen.holders[c] = r.holders[c] \cup {k[1]}
  BY <1>1, <1>2 DEF SetPrio, ObserveHolder, State
<1>4. Settled(seen, c) <=> Settled(r, c)
  BY <1>3 DEF Settled
<1> HIDE DEF seen
<1>5. ASSUME NEW a, a = ArriveHist(seen, c) \/ a = ArriveLive(seen, c)
      PROVE  /\ a \in State
             /\ a.want = seen.want /\ a.rejected = seen.rejected /\ a.got = seen.got
             /\ a.conflict = seen.conflict /\ a.ndeliv = seen.ndeliv
             /\ a.excluded = seen.excluded /\ a.holders = seen.holders
             /\ c \in a.arrived <=> c \in seen.arrived \/ ~Settled(seen, c)
  <2>1. CASE a = ArriveHist(seen, c)
    BY <1>3, <2>1 DEF ArriveHist, State
  <2>2. CASE a = ArriveLive(seen, c)
    BY <1>3, <2>2 DEF ArriveLive, State
  <2> QED
    BY <1>5, <2>1, <2>2
<1>6. \/ Arrive(r, c, k, refs, cursor) = ArriveHist(seen, c)
      \/ Arrive(r, c, k, refs, cursor) = ArriveLive(seen, c)
  BY DEF Arrive, seen
<1> QED
  BY <1>3, <1>4, <1>5, <1>6

\* The ingest loop, and what it does.
Arriving(r, S, k, refs, cursor) == ForEach(r, S, LAMBDA m, c : Arrive(m, c, k, refs, cursor))

Offered(r, f, S) ==
  /\ f \in State
  /\ f.cfg = r.cfg /\ f.want = r.want /\ f.rejected = r.rejected
  /\ f.got = r.got /\ f.conflict = r.conflict /\ f.ndeliv = r.ndeliv
  /\ f.npre = r.npre /\ f.excluded = r.excluded
  /\ f.arrived = r.arrived \cup {c \in S : ~Settled(r, c)}
  /\ \A c \in Chunks : r.holders[c] \subseteq f.holders[c]

\* The ingest loop: the peer becomes a holder of all ids of S, and the open ones
\* arrive.
LEMMA ArriveAll ==
  ASSUME NEW r \in State, NEW S \in SUBSET Chunks, NEW k \in Keys, NEW refs, NEW cursor
  PROVE  /\ Offered(r, Arriving(r, S, k, refs, cursor), S)
         /\ \A c \in S : k[1] \in Arriving(r, S, k, refs, cursor).holders[c]
<1> DEFINE A(c) == Arrive(r, c, k, refs, cursor)
           f == Arriving(r, S, k, refs, cursor)
<1>1. ASSUME NEW c \in Chunks
      PROVE  /\ A(c) \in State
             /\ A(c).want = r.want /\ A(c).rejected = r.rejected /\ A(c).got = r.got
             /\ A(c).conflict = r.conflict /\ A(c).ndeliv = r.ndeliv
             /\ A(c).excluded = r.excluded
             /\ A(c).holders[c] = r.holders[c] \cup {k[1]}
             /\ c \in A(c).arrived <=> c \in r.arrived \/ ~Settled(r, c)
  BY ArriveFacts
<1>2. f = [cfg |-> r.cfg,
           want |-> [c \in Chunks |-> (IF c \in S THEN A(c) ELSE r).want[c]],
           holders |-> [c \in Chunks |-> (IF c \in S THEN A(c) ELSE r).holders[c]],
           excluded |-> [c \in Chunks |-> (IF c \in S THEN A(c) ELSE r).excluded[c]],
           arrived |-> {c \in Chunks : c \in (IF c \in S THEN A(c) ELSE r).arrived},
           live |-> {c \in Chunks : c \in (IF c \in S THEN A(c) ELSE r).live},
           rejected |-> {c \in Chunks : c \in (IF c \in S THEN A(c) ELSE r).rejected},
           got |-> {c \in Chunks : c \in (IF c \in S THEN A(c) ELSE r).got},
           prio |-> [c \in Chunks |-> (IF c \in S THEN A(c) ELSE r).prio[c]],
           assign |-> r.assign,
           conflict |-> r.conflict \/ \E c \in S : A(c).conflict,
           ndeliv |-> r.ndeliv + Cardinality({c \in S : A(c).ndeliv > r.ndeliv}),
           npre |-> r.npre]
  BY DEF Arriving, ForEach
<1> HIDE DEF A, f
<1>3. {c \in S : A(c).ndeliv > r.ndeliv} = {}
  BY <1>1 DEF State
<1>4. f.ndeliv = r.ndeliv
  BY <1>2, <1>3, NoneCounted DEF State
<1>5. f.conflict = r.conflict
  BY <1>1, <1>2 DEF State
<1>6. /\ f.cfg = r.cfg /\ f.npre = r.npre /\ f.assign = r.assign
      /\ f.want = r.want /\ f.excluded = r.excluded
  BY <1>1, <1>2 DEF State
<1>7. f.rejected = r.rejected /\ f.got = r.got
  BY <1>1, <1>2 DEF State
<1>8. f.arrived = r.arrived \cup {c \in S : ~Settled(r, c)}
  BY <1>1, <1>2 DEF State
<1>9. /\ f.holders \in [Chunks -> SUBSET Peers] /\ f.live \in SUBSET Chunks
      /\ f.prio \in [Chunks -> Nat]
      /\ \A c \in Chunks : r.holders[c] \subseteq f.holders[c]
      /\ \A c \in S : k[1] \in f.holders[c]
  BY <1>1, <1>2 DEF State
<1>10. f = [cfg |-> f.cfg, want |-> f.want, holders |-> f.holders,
            excluded |-> f.excluded, arrived |-> f.arrived, live |-> f.live,
            rejected |-> f.rejected, got |-> f.got, prio |-> f.prio,
            assign |-> f.assign, conflict |-> f.conflict,
            ndeliv |-> f.ndeliv, npre |-> f.npre]
  BY <1>2
<1>11. f \in State
  <2>1. f.arrived \in SUBSET Chunks
    BY <1>8 DEF State
  <2> QED
    BY <1>4, <1>5, <1>6, <1>7, <1>9, <1>10, <2>1, StateFields
<1>12. Offered(r, f, S)
  BY <1>4, <1>5, <1>6, <1>7, <1>8, <1>9, <1>11 DEF Offered
<1> QED
  BY <1>9, <1>12 DEF f

\* What one outcome stores and what it rejects.
Stores(r, c, p, o) == o = "Delivered" /\ p \in r.want[c]
Rejects(r, c, o) == o = "Rejected" /\ ~Settled(r, c)

\* One outcome.  Whatever it is, it ends the lease of the reporting peer, if the
\* leased id was open and stalls fail over.
LEMMA ApplyFacts ==
  ASSUME NEW r \in State, NEW c \in Chunks, NEW p \in Peers, NEW o \in Outcomes
  PROVE  LET a == Apply(r, c, p, o)
         IN /\ a \in State
            /\ a.holders = r.holders
            /\ a.want[c] \subseteq r.want[c]
            /\ r.cfg.failover /\ ~Settled(r, c) => p \notin a.want[c]
            /\ \/ a.excluded[c] = r.excluded[c]
               \/ a.excluded[c] = r.excluded[c] \cup {p} /\ p \notin a.want[c]
            /\ c \in a.got <=> c \in r.got \/ Stores(r, c, p, o)
            /\ c \in a.rejected <=> c \in r.rejected \/ Rejects(r, c, o)
            /\ c \in a.arrived <=> c \in r.arrived /\ ~Rejects(r, c, o)
            /\ Rejects(r, c, o) => a.want[c] = {}
            /\ Stores(r, c, p, o) => a.want[c] = r.want[c] \ {p}
            /\ a.ndeliv = IF Stores(r, c, p, o) THEN r.ndeliv + 1 ELSE r.ndeliv
            /\ a.conflict <=> r.conflict \/ (Stores(r, c, p, o) /\ c \in r.got)
<1>1. CASE o = "Delivered"
  <2>0. Apply(r, c, p, o) = Deliver(r, c, p)
    BY <1>1 DEF Apply
  <2>1. CASE p \notin r.want[c]
    <3>1. Apply(r, c, p, o) = r
      BY <2>0, <2>1 DEF Deliver
    <3> QED
      BY <1>1, <2>1, <3>1 DEF Stores, Rejects
  <2>2. CASE p \in r.want[c]
    <3>0. (r.conflict \/ c \in r.got) \in BOOLEAN
      OBVIOUS
    <3> DEFINE trip == r.conflict \/ c \in r.got
    <3> DEFINE a == [r EXCEPT !.conflict = trip, !.got = @ \cup {c},
                              !.ndeliv = @ + 1, !.want[c] = @ \ {p}]
    <3>1. Apply(r, c, p, o) = a
      BY <2>0, <2>2, Zenon DEF Deliver
    <3> HIDE DEF trip
    <3>2. trip \in BOOLEAN
      BY <3>0 DEF trip
    <3>3. /\ a \in State
          /\ a.holders = r.holders
          /\ a.want[c] = r.want[c] \ {p}
          /\ a.excluded = r.excluded
          /\ a.got = r.got \cup {c}
          /\ a.rejected = r.rejected
          /\ a.arrived = r.arrived
          /\ a.ndeliv = r.ndeliv + 1
          /\ a.conflict = trip
      <4>1. a \in State
        <5> DEFINE got == r.got \cup {c}
                   ndeliv == r.ndeliv + 1
                   want == [r.want EXCEPT ![c] = @ \ {p}]
        <5>1. got \in SUBSET Chunks /\ ndeliv \in Nat /\ want \in [Chunks -> SUBSET Peers]
          BY DEF State
        <5>2. a = [r EXCEPT !.conflict = trip, !.got = got, !.ndeliv = ndeliv, !.want = want]
          BY DEF State
        <5> HIDE DEF got, ndeliv, want, a
        <5> QED
          BY <3>2, <5>1, <5>2 DEF State
      <4>2. /\ a.holders = r.holders /\ a.excluded = r.excluded
            /\ a.rejected = r.rejected /\ a.arrived = r.arrived
        BY DEF State
      <4>3. a.want[c] = r.want[c] \ {p} /\ a.got = r.got \cup {c}
        BY DEF State
      <4>4. a.ndeliv = r.ndeliv + 1
        BY DEF State
      <4>5. a.conflict = trip
        BY Zenon DEF State
      <4> HIDE DEF a
      <4> QED
        BY <4>1, <4>2, <4>3, <4>4, <4>5
    <3>4. Stores(r, c, p, o) /\ ~Rejects(r, c, o)
      BY <1>1, <2>2 DEF Stores, Rejects
    <3>5. a.conflict <=> r.conflict \/ (Stores(r, c, p, o) /\ c \in r.got)
      BY <3>3, <3>4 DEF trip
    <3> HIDE DEF a
    <3> QED
      BY <3>1, <3>3, <3>4, <3>5
  <2> QED
    BY <2>1, <2>2
<1>2. CASE o = "Rejected"
  <2>0. Apply(r, c, p, o) = Reject(r, c)
    BY <1>2 DEF Apply
  <2>1. CASE Settled(r, c)
    <3>1. Apply(r, c, p, o) = r
      BY <2>0, <2>1 DEF Reject
    <3> QED
      BY <1>2, <2>1, <3>1 DEF Stores, Rejects
  <2>2. CASE ~Settled(r, c)
    <3> DEFINE a == [r EXCEPT !.rejected = @ \cup {c}, !.arrived = @ \ {c},
                              !.live = @ \ {c}, !.want[c] = {}]
    <3>1. Apply(r, c, p, o) = a
      BY <2>0, <2>2, Zenon DEF Reject
    <3>2. /\ a \in State
          /\ a.holders = r.holders
          /\ a.want[c] = {}
          /\ a.excluded = r.excluded
          /\ a.got = r.got
          /\ a.rejected = r.rejected \cup {c}
          /\ a.arrived = r.arrived \ {c}
          /\ a.ndeliv = r.ndeliv
          /\ a.conflict = r.conflict
      BY DEF State
    <3>3. ~Stores(r, c, p, o) /\ Rejects(r, c, o)
      BY <1>2, <2>2 DEF Stores, Rejects
    <3> HIDE DEF a
    <3> QED
      BY <3>1, <3>2, <3>3
  <2> QED
    BY <2>1, <2>2
<1>3. CASE o = "Missed"
  <2>0. Apply(r, c, p, o) = Stall(r, c, p)
    BY <1>3 DEF Apply
  <2>1. CASE ~CanStall(r, c, p)
    <3>1. Apply(r, c, p, o) = r
      BY <2>0, <2>1 DEF Stall
    <3> QED
      BY <1>3, <2>1, <3>1 DEF Stores, Rejects, CanStall
  <2>2. CASE CanStall(r, c, p)
    <3> DEFINE bars == IF r.cfg.exclude THEN r.excluded[c] \cup {p} ELSE r.excluded[c]
    <3> DEFINE a == [r EXCEPT !.want[c] = @ \ {p}, !.excluded[c] = bars]
    <3>1. Apply(r, c, p, o) = a
      BY <2>0, <2>2 DEF Stall
    <3>2. bars \in SUBSET Peers
      BY DEF State
    <3>3. bars = r.excluded[c] \/ bars = r.excluded[c] \cup {p}
      OBVIOUS
    <3> HIDE DEF bars
    <3>4. /\ a \in State
          /\ a.holders = r.holders
          /\ a.want[c] = r.want[c] \ {p}
          /\ a.excluded[c] = bars
          /\ a.got = r.got
          /\ a.rejected = r.rejected
          /\ a.arrived = r.arrived
          /\ a.ndeliv = r.ndeliv
          /\ a.conflict = r.conflict
      BY <3>2 DEF State
    <3>5. ~Stores(r, c, p, o) /\ ~Rejects(r, c, o)
      BY <1>3 DEF Stores, Rejects
    <3> HIDE DEF a
    <3> QED
      BY <3>1, <3>3, <3>4, <3>5
  <2> QED
    BY <2>1, <2>2
<1> QED
  BY <1>1, <1>2, <1>3 DEF Outcomes

\* The loop over the outcomes of a fetch, and what it does.
Applying(r, D, p, out) == ForEach(r, D, LAMBDA m, c : Apply(m, c, p, out[c]))

Reported(r, f, D, p, out) ==
  LET stored == {c \in D : Stores(r, c, p, out[c])}
      refused == {c \in D : Rejects(r, c, out[c])}
  IN /\ f \in State
     /\ f.cfg = r.cfg /\ f.npre = r.npre /\ f.holders = r.holders
     /\ f.got = r.got \cup stored
     /\ f.rejected = r.rejected \cup refused
     /\ f.arrived = r.arrived \ refused
     /\ f.ndeliv = r.ndeliv + Cardinality(stored)
     /\ f.conflict <=> r.conflict \/ stored \cap r.got # {}
     /\ \A c \in Chunks :
          /\ f.want[c] \subseteq r.want[c]
          /\ c \notin D => f.want[c] = r.want[c]
          /\ c \in D /\ r.cfg.failover /\ ~Settled(r, c) => p \notin f.want[c]
          /\ c \in refused => f.want[c] = {}
          /\ c \in stored => f.want[c] = r.want[c] \ {p}
          /\ \/ f.excluded[c] = r.excluded[c]
             \/ f.excluded[c] = r.excluded[c] \cup {p} /\ p \notin f.want[c]

\* The outcomes of one fetch: the leased deliveries are stored and counted, the
\* open rejects are recorded, and the peer's open leases among them end.
LEMMA ApplyAll ==
  ASSUME NEW r \in State, NEW D \in SUBSET Chunks, NEW p \in Peers,
         NEW out \in [D -> Outcomes]
  PROVE  Reported(r, Applying(r, D, p, out), D, p, out)
<1> DEFINE A(c) == Apply(r, c, p, out[c])
           f == Applying(r, D, p, out)
           stored == {c \in D : Stores(r, c, p, out[c])}
           refused == {c \in D : Rejects(r, c, out[c])}
<1>1. ASSUME NEW c \in D
      PROVE  /\ A(c) \in State
             /\ A(c).holders = r.holders
             /\ A(c).want[c] \subseteq r.want[c]
             /\ r.cfg.failover /\ ~Settled(r, c) => p \notin A(c).want[c]
             /\ \/ A(c).excluded[c] = r.excluded[c]
                \/ A(c).excluded[c] = r.excluded[c] \cup {p} /\ p \notin A(c).want[c]
             /\ c \in A(c).got <=> c \in r.got \/ c \in stored
             /\ c \in A(c).rejected <=> c \in r.rejected \/ c \in refused
             /\ c \in A(c).arrived <=> c \in r.arrived /\ c \notin refused
             /\ c \in refused => A(c).want[c] = {}
             /\ c \in stored => A(c).want[c] = r.want[c] \ {p}
             /\ A(c).ndeliv = IF c \in stored THEN r.ndeliv + 1 ELSE r.ndeliv
             /\ A(c).conflict <=> r.conflict \/ (c \in stored /\ c \in r.got)
  <2>1. c \in Chunks /\ out[c] \in Outcomes
    OBVIOUS
  <2>2. /\ c \in stored <=> Stores(r, c, p, out[c])
        /\ c \in refused <=> Rejects(r, c, out[c])
    OBVIOUS
  <2> HIDE DEF stored, refused
  <2> QED
    BY <2>1, <2>2, ApplyFacts
<1>2. f = [cfg |-> r.cfg,
           want |-> [c \in Chunks |-> (IF c \in D THEN A(c) ELSE r).want[c]],
           holders |-> [c \in Chunks |-> (IF c \in D THEN A(c) ELSE r).holders[c]],
           excluded |-> [c \in Chunks |-> (IF c \in D THEN A(c) ELSE r).excluded[c]],
           arrived |-> {c \in Chunks : c \in (IF c \in D THEN A(c) ELSE r).arrived},
           live |-> {c \in Chunks : c \in (IF c \in D THEN A(c) ELSE r).live},
           rejected |-> {c \in Chunks : c \in (IF c \in D THEN A(c) ELSE r).rejected},
           got |-> {c \in Chunks : c \in (IF c \in D THEN A(c) ELSE r).got},
           prio |-> [c \in Chunks |-> (IF c \in D THEN A(c) ELSE r).prio[c]],
           assign |-> r.assign,
           conflict |-> r.conflict \/ \E c \in D : A(c).conflict,
           ndeliv |-> r.ndeliv + Cardinality({c \in D : A(c).ndeliv > r.ndeliv}),
           npre |-> r.npre]
  BY DEF Applying, ForEach
<1>3. stored \in SUBSET D /\ refused \in SUBSET D
  OBVIOUS
<1> HIDE DEF A, f, stored, refused
<1>4. {c \in D : A(c).ndeliv > r.ndeliv} = stored
  <2>1. r.ndeliv \in Nat
    BY DEF State
  <2>2. \A c \in D : A(c).ndeliv > r.ndeliv <=> c \in stored
    BY <1>1, <2>1
  <2> QED
    BY <1>3, <2>2
<1>5. f.ndeliv = r.ndeliv + Cardinality(stored)
  BY <1>2, <1>4
<1>6. f.conflict <=> r.conflict \/ stored \cap r.got # {}
  <2>1. f.conflict <=> r.conflict \/ \E c \in D : A(c).conflict
    BY <1>2
  <2>2. \A c \in D : A(c).conflict <=> r.conflict \/ (c \in stored /\ c \in r.got)
    BY <1>1
  <2>3. stored \cap r.got # {} <=> \E c \in D : c \in stored /\ c \in r.got
    BY <1>3
  <2> QED
    BY <2>1, <2>2, <2>3
<1>7. /\ f.cfg = r.cfg /\ f.npre = r.npre /\ f.assign = r.assign
      /\ f.holders = r.holders
  BY <1>1, <1>2 DEF State
<1>8. f.got = r.got \cup stored
  BY <1>1, <1>2, <1>3 DEF State
<1>9. f.rejected = r.rejected \cup refused
  BY <1>1, <1>2, <1>3 DEF State
<1>10. f.arrived = r.arrived \ refused
  BY <1>1, <1>2, <1>3 DEF State
<1>11. /\ f.live \in SUBSET Chunks /\ f.prio \in [Chunks -> Nat]
       /\ f.want \in [Chunks -> SUBSET Peers] /\ f.excluded \in [Chunks -> SUBSET Peers]
  BY <1>1, <1>2 DEF State
<1>12. ASSUME NEW c \in Chunks
       PROVE  /\ c \in D => f.want[c] = A(c).want[c] /\ f.excluded[c] = A(c).excluded[c]
              /\ c \notin D => f.want[c] = r.want[c] /\ f.excluded[c] = r.excluded[c]
  BY <1>2
<1>13. \A c \in Chunks :
         /\ f.want[c] \subseteq r.want[c]
         /\ c \notin D => f.want[c] = r.want[c]
         /\ c \in D /\ r.cfg.failover /\ ~Settled(r, c) => p \notin f.want[c]
         /\ c \in refused => f.want[c] = {}
         /\ c \in stored => f.want[c] = r.want[c] \ {p}
         /\ \/ f.excluded[c] = r.excluded[c]
            \/ f.excluded[c] = r.excluded[c] \cup {p} /\ p \notin f.want[c]
  BY <1>1, <1>3, <1>12
<1>14. f = [cfg |-> f.cfg, want |-> f.want, holders |-> f.holders,
            excluded |-> f.excluded, arrived |-> f.arrived, live |-> f.live,
            rejected |-> f.rejected, got |-> f.got, prio |-> f.prio,
            assign |-> f.assign, conflict |-> f.conflict,
            ndeliv |-> f.ndeliv, npre |-> f.npre]
  BY <1>2
<1>15. f.ndeliv \in Nat /\ f.conflict \in BOOLEAN
  <2>1. IsFiniteSet(stored)
    BY <1>3, ChunksFinite, FS_Subset
  <2>2. f.conflict \in BOOLEAN
    BY <1>2
  <2> QED
    BY <1>5, <2>1, <2>2, FS_CardinalityType DEF State
<1>16. f \in State
  <2>1. /\ f.got \in SUBSET Chunks /\ f.rejected \in SUBSET Chunks
        /\ f.arrived \in SUBSET Chunks /\ f.holders \in [Chunks -> SUBSET Peers]
        /\ f.cfg \in Config /\ f.npre \in Nat /\ f.assign \in [Chunks -> SUBSET Peers]
    BY <1>3, <1>7, <1>8, <1>9, <1>10 DEF State
  <2> QED
    BY <1>11, <1>14, <1>15, <2>1, StateFields
<1>17. Reported(r, f, D, p, out)
  BY <1>5, <1>6, <1>7, <1>8, <1>9, <1>10, <1>13, <1>16 DEF Reported, stored, refused
<1> QED
  BY <1>17 DEF f

-----------------------------------------------------------------------------
(* The scheduling loop.                                                    *)

\* A partial function.
LEMMA PartialFacts ==
  ASSUME NEW D, NEW R, NEW f
  PROVE  f \in Partial(D, R) <=> DOMAIN f \subseteq D /\ f \in [DOMAIN f -> R]
BY DEF Partial

\* A node is made of its fields.
LEMMA NodeFields ==
  ASSUME NEW n
  PROVE  n \in NodeState <=>
           /\ n = [m |-> n.m, peers |-> n.peers, cursors |-> n.cursors,
                   logs |-> n.logs, bin_of |-> n.bin_of,
                   assigned |-> n.assigned, offer_open |-> n.offer_open]
           /\ n.m \in State
           /\ n.peers \in SUBSET Peers
           /\ n.cursors \in [Keys -> BinIds]
           /\ n.logs \in Partial(Keys, Log)
           /\ n.bin_of \in Partial(Chunks, Bins)
           /\ n.assigned \in [Peers -> Nat]
           /\ n.offer_open \in SUBSET Keys
BY DEF NodeState

\* What scheduling may do to a node: add leases, each of an arrived chunk that is
\* not stored, to a holder that is not barred, and under dedup only where there
\* was none.
Leased(n, s) ==
  /\ s \in NodeState
  /\ s.peers = n.peers /\ s.cursors = n.cursors /\ s.logs = n.logs
  /\ s.bin_of = n.bin_of /\ s.offer_open = n.offer_open
  /\ s.m.cfg = n.m.cfg /\ s.m.holders = n.m.holders /\ s.m.excluded = n.m.excluded
  /\ s.m.arrived = n.m.arrived /\ s.m.rejected = n.m.rejected /\ s.m.got = n.m.got
  /\ s.m.conflict = n.m.conflict /\ s.m.ndeliv = n.m.ndeliv /\ s.m.npre = n.m.npre
  /\ \A c \in Chunks :
       /\ n.m.want[c] \subseteq s.m.want[c]
       /\ s.m.want[c] # n.m.want[c] => c \in n.m.arrived /\ c \notin n.m.got
       /\ s.m.want[c] \ n.m.want[c] \subseteq n.m.holders[c] \ n.m.excluded[c]
       /\ n.m.cfg.dedup => \/ s.m.want[c] = n.m.want[c]
                           \/ n.m.want[c] = {} /\ \E p \in Peers : s.m.want[c] = {p}

\* want takes no more than one lease, and only a claimable one.
LEMMA WantFacts ==
  ASSUME NEW r \in State, NEW c \in Chunks, NEW p \in Peers, NEW w, w = Want(r, c, p)
  PROVE  /\ w \in State
         /\ w.cfg = r.cfg /\ w.holders = r.holders /\ w.excluded = r.excluded
         /\ w.arrived = r.arrived /\ w.rejected = r.rejected /\ w.got = r.got
         /\ w.conflict = r.conflict /\ w.ndeliv = r.ndeliv /\ w.npre = r.npre
         /\ \/ w.want = r.want
            \/ /\ c \in r.arrived /\ c \notin r.got
               /\ p \in r.holders[c] \ r.excluded[c]
               /\ r.cfg.dedup => r.want[c] = {}
               /\ w.want = [r.want EXCEPT ![c] = @ \cup {p}]
<1>1. CASE ~Claimable(r, c, p)
  BY <1>1 DEF Want
<1>2. CASE Claimable(r, c, p)
  <2> DEFINE u == [r EXCEPT !.want[c] = @ \cup {p}]
  <2>1. w = u
    BY <1>2 DEF Want
  <2>2. /\ c \in r.arrived /\ c \notin r.got
        /\ p \in r.holders[c] \ r.excluded[c]
        /\ r.cfg.dedup => r.want[c] = {}
    BY <1>2 DEF Claimable
  <2>3. c \in Chunks /\ p \in Peers
    BY <2>2 DEF State
  <2>4. /\ u \in State
        /\ u.cfg = r.cfg /\ u.holders = r.holders /\ u.excluded = r.excluded
        /\ u.arrived = r.arrived /\ u.rejected = r.rejected /\ u.got = r.got
        /\ u.conflict = r.conflict /\ u.ndeliv = r.ndeliv /\ u.npre = r.npre
    BY <2>3 DEF State
  <2>5. u.want = [r.want EXCEPT ![c] = @ \cup {p}]
    BY <2>3 DEF State
  <2> HIDE DEF u
  <2> QED
    BY <2>1, <2>2, <2>4, <2>5
<1> QED
  BY <1>1, <1>2

\* One turn of the loop.
LEMMA TurnLeases ==
  ASSUME NEW n \in NodeState, NEW s, Leased(n, s)
  PROVE  Leased(n, ScheduleOne(n, s))
<1>1. ASSUME NEW c, NEW p,
             ScheduleOne(n, s) = [s EXCEPT !.m = Want(@, c, p), !.assigned[p] = @ + 1]
      PROVE  Leased(n, ScheduleOne(n, s))
  <2> DEFINE w == Want(s.m, c, p)
             a == [s.assigned EXCEPT ![p] = @ + 1]
             t == ScheduleOne(n, s)
  <2>1. /\ s \in NodeState /\ s.m \in State /\ s.assigned \in [Peers -> Nat]
    BY NodeFields DEF Leased
  <2>2. a \in [Peers -> Nat]
    <3>1. CASE p \in Peers
      BY <2>1, <3>1
    <3>2. CASE p \notin Peers
      BY <2>1, <3>2
    <3> QED
      BY <3>1, <3>2
  <2>3. /\ w \in State
        /\ w.cfg = s.m.cfg /\ w.holders = s.m.holders /\ w.excluded = s.m.excluded
        /\ w.arrived = s.m.arrived /\ w.rejected = s.m.rejected /\ w.got = s.m.got
        /\ w.conflict = s.m.conflict /\ w.ndeliv = s.m.ndeliv /\ w.npre = s.m.npre
        /\ \/ w.want = s.m.want
           \/ /\ c \in s.m.arrived /\ c \notin s.m.got
              /\ p \in s.m.holders[c] \ s.m.excluded[c]
              /\ s.m.cfg.dedup => s.m.want[c] = {}
              /\ w.want = [s.m.want EXCEPT ![c] = @ \cup {p}]
    <3> HIDE DEF w
    <3>1. w = Want(s.m, c, p)
      BY DEF w
    <3>2. s.m \in State
      BY <2>1
    <3>3. CASE c \in Chunks /\ p \in Peers
      BY <3>1, <3>2, <3>3, WantFacts
    <3>4. CASE ~(c \in Chunks /\ p \in Peers)
      <4>1. ~Claimable(s.m, c, p)
        BY <3>2, <3>4 DEF Claimable, State
      <4>2. w = s.m
        BY <3>1, <4>1 DEF Want
      <4> QED
        BY <3>2, <4>2
    <3> QED
      BY <3>3, <3>4
  <2>4. t = [s EXCEPT !.m = w, !.assigned = a]
    BY <1>1, <2>1 DEF NodeState
  <2> HIDE DEF w, a, t
  <2>5. /\ t \in NodeState /\ t.m = w
        /\ t.peers = s.peers /\ t.cursors = s.cursors /\ t.logs = s.logs
        /\ t.bin_of = s.bin_of /\ t.offer_open = s.offer_open
    BY <2>1, <2>2, <2>3, <2>4 DEF NodeState
  <2>6. CASE w.want = s.m.want
    BY <2>3, <2>5, <2>6 DEF Leased, t
  <2>7. CASE /\ c \in s.m.arrived /\ c \notin s.m.got
             /\ p \in s.m.holders[c] \ s.m.excluded[c]
             /\ s.m.cfg.dedup => s.m.want[c] = {}
             /\ w.want = [s.m.want EXCEPT ![c] = @ \cup {p}]
    <3>0. /\ c \in Chunks /\ p \in Peers
          /\ s.m.want \in [Chunks -> SUBSET Peers]
      BY <2>1, <2>7 DEF State
    <3>1. /\ c \in Chunks /\ p \in Peers
          /\ \A d \in Chunks : w.want[d] = IF d = c THEN s.m.want[c] \cup {p}
                                           ELSE s.m.want[d]
      BY <2>7, <3>0
    <3>2. ASSUME NEW d \in Chunks
          PROVE  /\ n.m.want[d] \subseteq w.want[d]
                 /\ w.want[d] # n.m.want[d] => d \in n.m.arrived /\ d \notin n.m.got
                 /\ w.want[d] \ n.m.want[d] \subseteq n.m.holders[d] \ n.m.excluded[d]
      BY <2>7, <3>1 DEF Leased
    <3>3. ASSUME NEW d \in Chunks, n.m.cfg.dedup
          PROVE  \/ w.want[d] = n.m.want[d]
                 \/ n.m.want[d] = {} /\ \E q \in Peers : w.want[d] = {q}
      <4>1. CASE d # c
        BY <2>7, <3>3, <4>1 DEF Leased
      <4>2. CASE d = c
        <5>1. s.m.want[d] = {} /\ w.want[d] = {p}
          BY <2>7, <3>1, <3>3, <4>2 DEF Leased
        <5>2. n.m.want[d] = {}
          BY <5>1 DEF Leased
        <5> QED
          BY <3>1, <5>1, <5>2
      <4> QED
        BY <4>1, <4>2
    <3> QED
      BY <2>3, <2>5, <3>2, <3>3 DEF Leased, t
  <2> QED
    BY <2>3, <2>6, <2>7
<1>2. \/ ScheduleOne(n, s) = s
      \/ \E c, p : ScheduleOne(n, s) = [s EXCEPT !.m = Want(@, c, p), !.assigned[p] = @ + 1]
  BY DEF ScheduleOne
<1> QED
  BY <1>1, <1>2

\* A set of numbers that is not empty has a least one.
LEMMA LeastNat ==
  ASSUME NEW S \in SUBSET Nat, S # {}
  PROVE  \E x \in S : \A y \in S : x <= y
BY LeastExists

\* The loop runs a number of turns.
LEMMA TurnsNat == Turns \in Nat
<1>1. Cardinality(Chunks) \in Nat /\ Cardinality(Peers) \in Nat
  BY ChunksFinite, NodeConstants, FS_CardinalityType
<1> QED
  BY <1>1 DEF Turns

\* The loop: the nodes after each of its turns.
LEMMA ScheduledRun ==
  ASSUME NEW n
  PROVE  \E after : /\ Scheduled(n) = after[Turns] /\ after[0] = n
                    /\ \A t \in 0 .. Turns : t # 0 => after[t] = ScheduleOne(n, after[t - 1])
<1> DEFINE Step(s) == ScheduleOne(n, s)
           Run(g, N) == g = [t \in 0 .. N |-> IF t = 0 THEN n ELSE Step(g[t - 1])]
<1>1. \A N \in Nat : \E g : Run(g, N)
  <2> DEFINE bad == {N \in Nat : ~ \E g : Run(g, N)}
  <2> SUFFICES ASSUME bad # {} PROVE FALSE
    OBVIOUS
  <2>1. PICK N \in bad : \A y \in bad : N <= y
    BY LeastNat
  <2>2. N \in Nat /\ ~ \E g : Run(g, N)
    BY <2>1
  <2>3. N # 0
    <3>1. Run([t \in 0 .. 0 |-> n], 0)
      OBVIOUS
    <3> QED
      BY <2>2, <3>1
  <2>4. PICK g : Run(g, N - 1)
    <3>1. N - 1 \in Nat /\ ~(N <= N - 1)
      BY <2>2, <2>3
    <3>2. N - 1 \notin bad
      BY <2>1, <3>1
    <3> QED
      BY <3>1, <3>2
  <2> DEFINE h == [t \in 0 .. N |-> IF t = N THEN Step(g[N - 1]) ELSE g[t]]
  <2>5. ASSUME NEW t \in 0 .. N
        PROVE  h[t] = IF t = 0 THEN n ELSE Step(h[t - 1])
    <3> HIDE DEF Step
    <3>1. CASE t = N
      <4>1. h[t] = Step(g[N - 1])
        BY <3>1
      <4>2. h[t - 1] = g[N - 1]
        BY <2>2, <2>3, <3>1
      <4> QED
        BY <2>3, <3>1, <4>1, <4>2
    <3>2. CASE t # N
      <4>1. t \in 0 .. (N - 1)
        BY <2>2, <3>2
      <4>2. h[t] = g[t] /\ g[t] = IF t = 0 THEN n ELSE Step(g[t - 1])
        BY <2>4, <3>2, <4>1
      <4>3. t # 0 => h[t - 1] = g[t - 1]
        BY <2>2, <4>1
      <4> QED
        BY <4>2, <4>3
    <3> QED
      BY <3>1, <3>2
  <2>6. Run(h, N)
    <3>1. h = [t \in 0 .. N |-> h[t]]
      OBVIOUS
    <3> HIDE DEF h, Step
    <3> QED
      BY <2>5, <3>1
  <2> QED
    BY <2>2, <2>6
<1> DEFINE after == CHOOSE g : Run(g, Turns)
<1>2. Run(after, Turns)
  <2>1. \E g : Run(g, Turns)
    BY <1>1, TurnsNat
  <2> HIDE DEF Run
  <2> QED
    BY <2>1
<1>3. Scheduled(n) = after[Turns]
  BY DEF Scheduled
<1> HIDE DEF after
<1>4. ASSUME NEW t \in 0 .. Turns
      PROVE  after[t] = IF t = 0 THEN n ELSE Step(after[t - 1])
  <2> HIDE DEF Step
  <2> QED
    BY <1>2
<1>5. after[0] = n /\ \A t \in 0 .. Turns : t # 0 => after[t] = Step(after[t - 1])
  <2> HIDE DEF Step, Run
  <2> QED
    BY <1>4, TurnsNat
<1> QED
  BY <1>3, <1>5

\* The node after each turn, and with it after the last.
LEMMA ScheduledLeases ==
  ASSUME NEW n \in NodeState
  PROVE  Leased(n, Scheduled(n))
<1>4. PICK after : /\ Scheduled(n) = after[Turns] /\ after[0] = n
                   /\ \A t \in 0 .. Turns : t # 0 => after[t] = ScheduleOne(n, after[t - 1])
  BY ScheduledRun
<1>5. Leased(n, n)
  BY NodeFields DEF Leased
<1>6. \A t \in 0 .. Turns : Leased(n, after[t])
  <2> DEFINE bad == {t \in 0 .. Turns : ~Leased(n, after[t])}
  <2> SUFFICES ASSUME bad # {} PROVE FALSE
    OBVIOUS
  <2>1. bad \in SUBSET Nat
    BY TurnsNat
  <2>2. PICK t \in bad : \A y \in bad : t <= y
    BY <2>1, LeastNat
  <2>3. t \in 0 .. Turns /\ ~Leased(n, after[t])
    BY <2>2
  <2>4. t # 0
    BY <1>4, <1>5, <2>3
  <2>5. t - 1 \in 0 .. Turns /\ ~(t <= t - 1)
    BY <2>3, <2>4, TurnsNat
  <2>6. Leased(n, after[t - 1])
    BY <2>2, <2>5
  <2>7. after[t] = ScheduleOne(n, after[t - 1])
    BY <1>4, <2>3, <2>4
  <2> QED
    BY <2>3, <2>6, <2>7, TurnLeases
<1> QED
  BY <1>4, <1>6, TurnsNat

-----------------------------------------------------------------------------
(* The round.                                                              *)

\* A node between events: typed, its logs sound, and the bin of everything that
\* has arrived and is not yet settled known.
NodeOK(n) ==
  /\ n \in NodeState
  /\ \A k \in DOMAIN n.logs : Sound(n.logs[k])
  /\ n.m.arrived \subseteq DOMAIN n.bin_of

\* The offers a round re-opens.
Reopened(n, s) ==
  {k \in DOMAIN s.logs : /\ NextStart(s.logs[k]) > s.logs[k].topmost
                         /\ k[1] \in n.peers
                         /\ k \notin n.offer_open}

\* The parts of a typed node, for the provers.
LEMMA NodeParts ==
  ASSUME NEW n \in NodeState
  PROVE  /\ n.m \in State
         /\ n.m.arrived \in SUBSET Chunks
         /\ n.m.got \in SUBSET Chunks /\ n.m.rejected \in SUBSET Chunks
         /\ n.m.want \in [Chunks -> SUBSET Peers]
         /\ n.m.holders \in [Chunks -> SUBSET Peers]
         /\ n.m.excluded \in [Chunks -> SUBSET Peers]
         /\ DOMAIN n.logs \subseteq Keys /\ n.logs \in [DOMAIN n.logs -> Log]
         /\ DOMAIN n.bin_of \subseteq Chunks /\ n.bin_of \in [DOMAIN n.bin_of -> Bins]
         /\ n.offer_open \subseteq Keys
         /\ n.peers \subseteq Peers
<1>1. n.m \in State /\ n.offer_open \subseteq Keys /\ n.peers \subseteq Peers
  BY NodeFields
<1>2. n.logs \in Partial(Keys, Log) /\ n.bin_of \in Partial(Chunks, Bins)
  BY NodeFields
<1>3. DOMAIN n.logs \subseteq Keys /\ n.logs \in [DOMAIN n.logs -> Log]
  BY <1>2, PartialFacts
<1>4. DOMAIN n.bin_of \subseteq Chunks /\ n.bin_of \in [DOMAIN n.bin_of -> Bins]
  BY <1>2, PartialFacts
<1> QED
  BY <1>1, <1>3, <1>4, StateFields

\* 1. Settle: every log advances.
LEMMA SettleFacts ==
  ASSUME NEW n, NodeOK(n), NEW t, t = Settle(n).node
  PROVE  /\ t \in NodeState
         /\ t.m = n.m /\ t.peers = n.peers /\ t.cursors = n.cursors
         /\ t.bin_of = n.bin_of
         /\ DOMAIN t.logs = DOMAIN n.logs
         /\ \A k \in DOMAIN n.logs : /\ t.logs[k] = Advance(n.logs[k], Done(n))
                                     /\ Sound(t.logs[k])
         /\ t.offer_open = n.offer_open \cup Reopened(n, t)
         /\ Settle(n).fx =
              {SettledFx(k, t.logs[k].interval) :
                 k \in {l \in DOMAIN t.logs : Advanced(n.logs[l], Done(n))}}
              \cup {Offer(k, NextStart(t.logs[k])) : k \in Reopened(n, t)}
<1> DEFINE logs == [k \in DOMAIN n.logs |-> Advance(n.logs[k], Done(n))]
           opens == {k \in DOMAIN logs : /\ NextStart(logs[k]) > logs[k].topmost
                                         /\ k[1] \in n.peers
                                         /\ TryOpen(n, k)}
           moved == {k \in DOMAIN logs : Advanced(n.logs[k], Done(n))}
<1>1. n \in NodeState
  BY DEF NodeOK
<1>2. t = [n EXCEPT !.logs = logs, !.offer_open = @ \cup opens]
  BY DEF Settle
<1>3. Settle(n).fx = {SettledFx(k, logs[k].interval) : k \in moved}
                     \cup {Offer(k, NextStart(logs[k])) : k \in opens}
  BY DEF Settle
<1>4. ASSUME NEW k \in DOMAIN n.logs
      PROVE  logs[k] = Advance(n.logs[k], Done(n)) /\ Sound(logs[k])
  BY AdvanceSound DEF NodeOK
<1>5. DOMAIN logs = DOMAIN n.logs
  OBVIOUS
<1>6. logs \in [DOMAIN n.logs -> Log]
  BY <1>4 DEF Sound
<1>7. logs \in Partial(Keys, Log)
  <2> HIDE DEF logs
  <2> QED
    BY <1>1, <1>5, <1>6, NodeParts, PartialFacts
<1> HIDE DEF logs
<1>8. opens = {k \in DOMAIN logs : /\ NextStart(logs[k]) > logs[k].topmost
                                   /\ k[1] \in n.peers
                                   /\ k \notin n.offer_open}
  BY DEF TryOpen
<1>9. opens \subseteq Keys
  BY <1>1, <1>5, NodeParts
<1> HIDE DEF opens
<1>10. /\ t \in NodeState
       /\ t.m = n.m /\ t.peers = n.peers /\ t.cursors = n.cursors
       /\ t.bin_of = n.bin_of /\ t.logs = logs /\ t.offer_open = n.offer_open \cup opens
  BY <1>1, <1>2, <1>7, <1>9 DEF NodeState
<1>11. opens = Reopened(n, t)
  BY <1>8, <1>10 DEF Reopened
<1> QED
  BY <1>3, <1>4, <1>5, <1>10, <1>11

\* 2. Prune: only settled ids outside every window leave, with what the maps say
\* of them.
LEMMA PruneFacts ==
  ASSUME NEW n \in NodeState, NEW t, t = Prune(n)
  PROVE  /\ t \in NodeState
         /\ t.peers = n.peers /\ t.cursors = n.cursors /\ t.logs = n.logs
         /\ t.offer_open = n.offer_open
         /\ t.m.cfg = n.m.cfg /\ t.m.want = n.m.want /\ t.m.rejected = n.m.rejected
         /\ t.m.got = n.m.got /\ t.m.conflict = n.m.conflict
         /\ t.m.ndeliv = n.m.ndeliv /\ t.m.npre = n.m.npre
         /\ t.m.arrived \subseteq n.m.arrived
         /\ n.m.arrived \ t.m.arrived \subseteq Done(n)
         /\ \A c \in Chunks : c \notin Done(n) => /\ t.m.holders[c] = n.m.holders[c]
                                                  /\ t.m.excluded[c] = n.m.excluded[c]
         /\ DOMAIN t.bin_of = {c \in DOMAIN n.bin_of : c \notin Done(n) \/ c \in Windowed(n)}
         /\ \A c \in DOMAIN t.bin_of : t.bin_of[c] = n.bin_of[c]
         /\ t.m.arrived \cap (DOMAIN n.bin_of \ DOMAIN t.bin_of) = {}
<1> DEFINE done == {c \in DOMAIN n.bin_of : c \in Done(n) /\ c \notin Windowed(n)}
           f == ForEach(n.m, done, Forget)
           b == Without(n.bin_of, done)
<1>1. n.m \in State /\ done \in SUBSET Chunks
  BY NodeParts
<1>2. \A c \in done : Settled(n.m, c)
  BY DEF Done, Settled
<1>3. \A c \in Chunks : c \in Done(n) <=> Settled(n.m, c)
  BY DEF Done, Settled
<1>4. done \subseteq Done(n)
  OBVIOUS
<1>5. DOMAIN b = DOMAIN n.bin_of \ done /\ \A c \in DOMAIN b : b[c] = n.bin_of[c]
  BY DEF Without
<1>6. DOMAIN b = {c \in DOMAIN n.bin_of : c \notin Done(n) \/ c \in Windowed(n)}
  BY <1>5
<1>7. t = [n EXCEPT !.m = f, !.bin_of = b]
  BY DEF Prune
<1> HIDE DEF done
<1>8. /\ f \in State
      /\ f.cfg = n.m.cfg /\ f.want = n.m.want /\ f.rejected = n.m.rejected
      /\ f.got = n.m.got /\ f.conflict = n.m.conflict /\ f.ndeliv = n.m.ndeliv
      /\ f.npre = n.m.npre /\ f.arrived = n.m.arrived \ {c \in done : Settled(n.m, c)}
      /\ \A c \in Chunks : c \notin {d \in done : Settled(n.m, d)} =>
           f.holders[c] = n.m.holders[c] /\ f.excluded[c] = n.m.excluded[c]
  BY <1>1, ForgetAll
<1>9. b \in Partial(Chunks, Bins)
  <2>1. b \in [DOMAIN b -> Bins]
    <3>1. \A c \in DOMAIN b : b[c] \in Bins
      BY <1>5, NodeParts
    <3>2. b = [c \in DOMAIN b |-> b[c]]
      BY DEF Without
    <3> HIDE DEF b
    <3> QED
      BY <3>1, <3>2
  <2>2. DOMAIN b \subseteq Chunks
    BY <1>5, NodeParts
  <2> HIDE DEF b
  <2> QED
    BY <2>1, <2>2, PartialFacts
<1> HIDE DEF f, b
<1>10. /\ t \in NodeState
       /\ t.m = f /\ t.bin_of = b
       /\ t.peers = n.peers /\ t.cursors = n.cursors /\ t.logs = n.logs
       /\ t.offer_open = n.offer_open
  BY <1>7, <1>8, <1>9 DEF NodeState
<1>11. /\ f.arrived \subseteq n.m.arrived
       /\ n.m.arrived \ f.arrived \subseteq Done(n)
       /\ f.arrived \cap done = {}
  BY <1>2, <1>4, <1>8
<1>12. \A c \in Chunks : c \notin Done(n) => /\ f.holders[c] = n.m.holders[c]
                                             /\ f.excluded[c] = n.m.excluded[c]
  BY <1>4, <1>8
<1>13. f.arrived \cap (DOMAIN n.bin_of \ DOMAIN b) = {}
  BY <1>5, <1>11
<1> QED
  BY <1>5, <1>6, <1>8, <1>10, <1>11, <1>12, <1>13

\* 3. Reset: only bars go.
LEMMA ResetFacts ==
  ASSUME NEW n \in NodeState, NEW t, t = Reset(n)
  PROVE  /\ t \in NodeState
         /\ t.peers = n.peers /\ t.cursors = n.cursors /\ t.logs = n.logs
         /\ t.offer_open = n.offer_open /\ t.bin_of = n.bin_of
         /\ t.m.cfg = n.m.cfg /\ t.m.want = n.m.want /\ t.m.rejected = n.m.rejected
         /\ t.m.got = n.m.got /\ t.m.conflict = n.m.conflict
         /\ t.m.ndeliv = n.m.ndeliv /\ t.m.npre = n.m.npre
         /\ t.m.arrived = n.m.arrived /\ t.m.holders = n.m.holders
         /\ \A c \in Chunks : t.m.excluded[c] \subseteq n.m.excluded[c]
         /\ \A c \in DOMAIN n.bin_of : CanResetExcluded(n.m, c) => t.m.excluded[c] = {}
<1> DEFINE S == DOMAIN n.bin_of
           f == ForEach(n.m, S, ResetExcluded)
<1>1. n.m \in State /\ S \in SUBSET Chunks
  BY NodeParts
<1>2. t = [n EXCEPT !.m = f]
  BY DEF Reset
<1> HIDE DEF S
<1>3. /\ f \in State
      /\ f.cfg = n.m.cfg /\ f.want = n.m.want /\ f.rejected = n.m.rejected
      /\ f.got = n.m.got /\ f.conflict = n.m.conflict /\ f.ndeliv = n.m.ndeliv
      /\ f.npre = n.m.npre /\ f.arrived = n.m.arrived /\ f.holders = n.m.holders
      /\ \A c \in Chunks : f.excluded[c] \subseteq n.m.excluded[c]
      /\ \A c \in S : CanResetExcluded(n.m, c) => f.excluded[c] = {}
  BY <1>1, ResetAll
<1> HIDE DEF f
<1>4. /\ t \in NodeState /\ t.m = f
      /\ t.peers = n.peers /\ t.cursors = n.cursors /\ t.logs = n.logs
      /\ t.offer_open = n.offer_open /\ t.bin_of = n.bin_of
  BY <1>2, <1>3 DEF NodeState
<1> QED
  BY <1>3, <1>4 DEF S

\* The effects of a round: intervals to persist, the offers it re-opened, and one
\* fetch per (peer, bin) that was handed new leases.
RoundFx(n, s) ==
  {SettledFx(k, s.logs[k].interval) :
     k \in {l \in DOMAIN s.logs : Advanced(n.logs[l], Done(n))}}
  \cup {Offer(k, NextStart(s.logs[k])) : k \in Reopened(n, s)}
  \cup {Fetch(k, Committed(n, s, k[1], k[2])) :
          k \in {l \in Keys : Committed(n, s, l[1], l[2]) # {}}}

\* What every arm that ends in a round adds to its own changes: logs advance over
\* what is settled, settled ids outside the windows are forgotten, offers re-open
\* and leases are taken.  Nothing is stored, rejected or released.
Rounded(n, s) ==
  /\ NodeOK(s)
  /\ s.peers = n.peers /\ s.cursors = n.cursors
  /\ s.m.cfg = n.m.cfg /\ s.m.got = n.m.got /\ s.m.rejected = n.m.rejected
  /\ s.m.conflict = n.m.conflict /\ s.m.ndeliv = n.m.ndeliv /\ s.m.npre = n.m.npre
  /\ DOMAIN s.logs = DOMAIN n.logs
  /\ \A k \in DOMAIN n.logs : s.logs[k] = Advance(n.logs[k], Done(n))
  /\ s.offer_open = n.offer_open \cup Reopened(n, s)
  /\ DOMAIN s.bin_of = {c \in DOMAIN n.bin_of : c \notin Done(n) \/ c \in Windowed(s)}
  /\ s.m.arrived \subseteq n.m.arrived
  /\ n.m.arrived \ s.m.arrived \subseteq Done(n)
  /\ \A c \in Chunks :
       /\ n.m.want[c] \subseteq s.m.want[c]
       /\ s.m.want[c] # n.m.want[c] => c \in s.m.arrived /\ c \notin n.m.got
       /\ s.m.want[c] \ n.m.want[c] \subseteq s.m.holders[c] \ s.m.excluded[c]
       /\ c \notin Done(n) => /\ s.m.holders[c] = n.m.holders[c]
                              /\ s.m.excluded[c] \subseteq n.m.excluded[c]
       /\ n.m.cfg.dedup => \/ s.m.want[c] = n.m.want[c]
                           \/ n.m.want[c] = {} /\ \E p \in Peers : s.m.want[c] = {p}

LEMMA RoundFacts ==
  ASSUME NEW n, NodeOK(n), NEW s, s = Round(n).node
  PROVE  Rounded(n, s) /\ Round(n).fx = RoundFx(n, s)
<1> DEFINE a == Settle(n).node
           b == Prune(a)
           d == Reset(b)
<1>1. /\ a \in NodeState
      /\ a.m = n.m /\ a.peers = n.peers /\ a.cursors = n.cursors
      /\ a.bin_of = n.bin_of
      /\ DOMAIN a.logs = DOMAIN n.logs
      /\ \A k \in DOMAIN n.logs : /\ a.logs[k] = Advance(n.logs[k], Done(n))
                                  /\ Sound(a.logs[k])
      /\ a.offer_open = n.offer_open \cup Reopened(n, a)
      /\ Settle(n).fx =
           {SettledFx(k, a.logs[k].interval) :
              k \in {l \in DOMAIN a.logs : Advanced(n.logs[l], Done(n))}}
           \cup {Offer(k, NextStart(a.logs[k])) : k \in Reopened(n, a)}
  <2>1. a = Settle(n).node
    OBVIOUS
  <2> HIDE DEF a
  <2> QED
    BY <2>1, SettleFacts
<1>2. s = Scheduled(d)
  BY DEF Round, Schedule
<1>3. Round(n).fx =
        Settle(n).fx \cup {Fetch(k, Committed(d, s, k[1], k[2])) :
                             k \in {l \in Keys : Committed(d, s, l[1], l[2]) # {}}}
  BY <1>2 DEF Round, Schedule
<1> HIDE DEF a
<1>4. Done(a) = Done(n)
  BY <1>1 DEF Done
<1>5. /\ b \in NodeState
      /\ b.peers = a.peers /\ b.cursors = a.cursors /\ b.logs = a.logs
      /\ b.offer_open = a.offer_open
      /\ b.m.cfg = a.m.cfg /\ b.m.want = a.m.want /\ b.m.rejected = a.m.rejected
      /\ b.m.got = a.m.got /\ b.m.conflict = a.m.conflict
      /\ b.m.ndeliv = a.m.ndeliv /\ b.m.npre = a.m.npre
      /\ b.m.arrived \subseteq a.m.arrived
      /\ a.m.arrived \ b.m.arrived \subseteq Done(a)
      /\ \A c \in Chunks : c \notin Done(a) => /\ b.m.holders[c] = a.m.holders[c]
                                               /\ b.m.excluded[c] = a.m.excluded[c]
      /\ DOMAIN b.bin_of = {c \in DOMAIN a.bin_of : c \notin Done(a) \/ c \in Windowed(a)}
      /\ b.m.arrived \cap (DOMAIN a.bin_of \ DOMAIN b.bin_of) = {}
  BY <1>1, PruneFacts
<1> HIDE DEF b
<1>6. /\ d \in NodeState
      /\ d.peers = b.peers /\ d.cursors = b.cursors /\ d.logs = b.logs
      /\ d.offer_open = b.offer_open /\ d.bin_of = b.bin_of
      /\ d.m.cfg = b.m.cfg /\ d.m.want = b.m.want /\ d.m.rejected = b.m.rejected
      /\ d.m.got = b.m.got /\ d.m.conflict = b.m.conflict
      /\ d.m.ndeliv = b.m.ndeliv /\ d.m.npre = b.m.npre
      /\ d.m.arrived = b.m.arrived /\ d.m.holders = b.m.holders
      /\ \A c \in Chunks : d.m.excluded[c] \subseteq b.m.excluded[c]
  BY <1>5, ResetFacts
<1> HIDE DEF d
<1>7. Leased(d, s)
  BY <1>2, <1>6, ScheduledLeases
<1>8. /\ s \in NodeState
      /\ s.peers = n.peers /\ s.cursors = n.cursors
      /\ s.logs = a.logs /\ s.offer_open = a.offer_open /\ s.bin_of = b.bin_of
  BY <1>1, <1>5, <1>6, <1>7 DEF Leased
<1>9. /\ s.m.cfg = n.m.cfg /\ s.m.got = n.m.got /\ s.m.rejected = n.m.rejected
      /\ s.m.conflict = n.m.conflict /\ s.m.ndeliv = n.m.ndeliv /\ s.m.npre = n.m.npre
      /\ s.m.arrived = b.m.arrived
  BY <1>1, <1>5, <1>6, <1>7 DEF Leased
<1>10. Windowed(s) = Windowed(a)
  BY <1>8 DEF Windowed
<1>11. Reopened(n, s) = Reopened(n, a)
  BY <1>8 DEF Reopened
<1>12. NodeOK(s)
  <2>1. \A k \in DOMAIN s.logs : Sound(s.logs[k])
    BY <1>1, <1>8
  <2>2. b.m.arrived \subseteq DOMAIN n.bin_of
    BY <1>1, <1>5 DEF NodeOK
  <2>3. b.m.arrived \subseteq DOMAIN b.bin_of
    BY <1>1, <1>5, <2>2
  <2> QED
    BY <1>8, <1>9, <2>1, <2>3 DEF NodeOK
<1>13. d.m.want = n.m.want
  BY <1>1, <1>5, <1>6
<1>14. Round(n).fx = RoundFx(n, s)
  <2> DEFINE Kept(logs, opens) ==
               {SettledFx(k, logs[k].interval) :
                  k \in {l \in DOMAIN logs : Advanced(n.logs[l], Done(n))}}
               \cup {Offer(k, NextStart(logs[k])) : k \in opens}
             Batch(want, k) ==
               {c \in Chunks : k[1] \in s.m.want[c] \ want[c] /\ BinOf(s, c) = k[2]}
             Asked(want) == {Fetch(k, Batch(want, k)) : k \in {l \in Keys : Batch(want, l) # {}}}
  <2>1. Settle(n).fx = Kept(a.logs, Reopened(n, a))
    BY <1>1
  <2>2. Round(n).fx = Settle(n).fx \cup Asked(d.m.want)
    BY <1>3 DEF Committed
  <2>3. RoundFx(n, s) = Kept(s.logs, Reopened(n, s)) \cup Asked(n.m.want)
    BY DEF RoundFx, Committed
  <2> HIDE DEF Kept, Asked
  <2> QED
    BY <1>8, <1>11, <1>13, <2>1, <2>2, <2>3
<1>15. ASSUME NEW c \in Chunks
       PROVE  /\ n.m.want[c] \subseteq s.m.want[c]
              /\ s.m.want[c] # n.m.want[c] => c \in s.m.arrived /\ c \notin n.m.got
              /\ s.m.want[c] \ n.m.want[c] \subseteq s.m.holders[c] \ s.m.excluded[c]
              /\ c \notin Done(n) => /\ s.m.holders[c] = n.m.holders[c]
                                     /\ s.m.excluded[c] \subseteq n.m.excluded[c]
              /\ n.m.cfg.dedup => \/ s.m.want[c] = n.m.want[c]
                                  \/ n.m.want[c] = {} /\ \E p \in Peers : s.m.want[c] = {p}
  <2>1. d.m.want = n.m.want /\ d.m.cfg = n.m.cfg /\ d.m.got = n.m.got
    BY <1>1, <1>5, <1>6
  <2>2. s.m.holders = d.m.holders /\ s.m.excluded = d.m.excluded /\ s.m.arrived = d.m.arrived
    BY <1>7 DEF Leased
  <2>3. /\ n.m.want[c] \subseteq s.m.want[c]
        /\ s.m.want[c] # n.m.want[c] => c \in s.m.arrived /\ c \notin n.m.got
        /\ s.m.want[c] \ n.m.want[c] \subseteq s.m.holders[c] \ s.m.excluded[c]
    BY <1>7, <2>1, <2>2 DEF Leased
  <2>4. c \notin Done(n) => /\ s.m.holders[c] = n.m.holders[c]
                            /\ s.m.excluded[c] \subseteq n.m.excluded[c]
    BY <1>1, <1>4, <1>5, <1>6, <2>2
  <2>5. n.m.cfg.dedup => \/ s.m.want[c] = n.m.want[c]
                         \/ n.m.want[c] = {} /\ \E p \in Peers : s.m.want[c] = {p}
    BY <1>7, <2>1 DEF Leased
  <2> QED
    BY <2>3, <2>4, <2>5
<1>16. /\ DOMAIN s.logs = DOMAIN n.logs
       /\ \A k \in DOMAIN n.logs : s.logs[k] = Advance(n.logs[k], Done(n))
       /\ s.offer_open = n.offer_open \cup Reopened(n, s)
  BY <1>1, <1>8, <1>11
<1>17. /\ DOMAIN s.bin_of = {c \in DOMAIN n.bin_of : c \notin Done(n) \/ c \in Windowed(s)}
       /\ s.m.arrived \subseteq n.m.arrived
       /\ n.m.arrived \ s.m.arrived \subseteq Done(n)
  BY <1>1, <1>4, <1>5, <1>8, <1>9, <1>10
<1>18. Rounded(n, s)
  BY <1>8, <1>9, <1>12, <1>15, <1>16, <1>17 DEF Rounded
<1> QED
  BY <1>14, <1>18

-----------------------------------------------------------------------------
(* The arms of Node::handle, up to their round.                            *)

\* The offers opened between n and s, one for each flag that was set.
OfferFx(n, s) == {Offer(k, NextStart(s.logs[k])) : k \in s.offer_open \ n.offer_open}

\* A round's offers are those of its new flags.
LEMMA RoundOffers ==
  ASSUME NEW n, NodeOK(n), NEW s, s = Round(n).node
  PROVE  /\ Reopened(n, s) = s.offer_open \ n.offer_open
         /\ s.offer_open \ n.offer_open \subseteq DOMAIN s.logs
<1>1. s.offer_open = n.offer_open \cup Reopened(n, s)
  BY RoundFacts DEF Rounded
<1>2. /\ Reopened(n, s) \cap n.offer_open = {}
      /\ Reopened(n, s) \subseteq DOMAIN s.logs
  BY DEF Reopened
<1> HIDE DEF Reopened
<1> QED
  BY <1>1, <1>2

\* A log starts sound.
LEMMA NewLogSound == Sound(NewLog)
<1>1. EmptyWindow \in Window /\ DOMAIN EmptyWindow = {}
  BY LogTypes DEF EmptyWindow, Window
<1> QED
  BY <1>1, LogTypes DEF NewLog, Resume, Sound, Log

\* The node a departure leaves to its round.
Departed(n, p) ==
  [n EXCEPT
     !.peers = @ \ {p},
     !.m = Losing(@, HeldBy(n.m, p) \cup ClaimsOf(n.m, p), p),
     !.logs = Without(@, {k \in Keys : k[1] = p}),
     !.cursors = [k \in Keys |-> IF k \in {l \in Keys : l[1] = p} THEN 0 ELSE @[k]],
     !.offer_open = @ \ {k \in Keys : k[1] = p}]

\* PeerGone: the peer's logs, flags, holdings and claims go.
LEMMA DepartedFacts ==
  ASSUME NEW n, NodeOK(n), NEW p \in Peers, NEW t, t = Departed(n, p)
  PROVE  /\ PeerGone(n, p) = Round(t)
         /\ NodeOK(t)
         /\ t.bin_of = n.bin_of
         /\ DOMAIN t.logs = {k \in DOMAIN n.logs : k[1] # p}
         /\ \A k \in DOMAIN t.logs : t.logs[k] = n.logs[k]
         /\ t.m.cfg = n.m.cfg /\ t.m.rejected = n.m.rejected /\ t.m.excluded = n.m.excluded
         /\ t.m.got = n.m.got /\ t.m.conflict = n.m.conflict /\ t.m.ndeliv = n.m.ndeliv
         /\ t.m.npre = n.m.npre /\ t.m.arrived = n.m.arrived
         /\ \A c \in Chunks : /\ t.m.want[c] = n.m.want[c] \ {p}
                              /\ t.m.holders[c] = n.m.holders[c] \ {p}
<1> DEFINE keys == {k \in Keys : k[1] = p}
           lost == HeldBy(n.m, p) \cup ClaimsOf(n.m, p)
           f == Losing(n.m, lost, p)
           logs == Without(n.logs, keys)
           cursors == [k \in Keys |-> IF k \in keys THEN 0 ELSE n.cursors[k]]
           open == n.offer_open \ keys
           peers == n.peers \ {p}
<1>1. n \in NodeState /\ n.m \in State
  BY NodeParts DEF NodeOK
<1>2. lost \in SUBSET Chunks
  BY DEF HeldBy, ClaimsOf
<1>3. \A c \in Chunks : c \notin lost => p \notin n.m.want[c] /\ p \notin n.m.holders[c]
  BY DEF HeldBy, ClaimsOf
<1>4. t = [n EXCEPT !.peers = peers, !.m = f, !.logs = logs,
                    !.cursors = cursors, !.offer_open = open]
  BY DEF Departed
<1>5. PeerGone(n, p) = Round(t)
  BY DEF Departed, PeerGone, Losing
<1>6. DOMAIN logs = DOMAIN n.logs \ keys /\ \A k \in DOMAIN logs : logs[k] = n.logs[k]
  BY DEF Without
<1>7. logs \in Partial(Keys, Log)
  <2>1. logs = [k \in DOMAIN logs |-> logs[k]]
    BY DEF Without
  <2> HIDE DEF logs
  <2>2. \A k \in DOMAIN logs : logs[k] \in Log
    BY <1>1, <1>6, NodeParts
  <2>3. DOMAIN logs \subseteq Keys
    BY <1>1, <1>6, NodeParts
  <2> QED
    BY <2>1, <2>2, <2>3, PartialFacts
<1>8. DOMAIN logs = {k \in DOMAIN n.logs : k[1] # p}
  BY <1>1, <1>6, NodeParts
<1>9. cursors \in [Keys -> BinIds]
  BY <1>1, NodeFields, LogTypes
<1>10. open \in SUBSET Keys /\ peers \in SUBSET Peers
  BY <1>1, NodeParts
<1> HIDE DEF lost, keys
<1>11. Lost(n.m, f, lost, p)
  BY <1>1, <1>2, LoseAll
<1> HIDE DEF f, logs, cursors, open, peers
<1>12. \A c \in Chunks : /\ f.want[c] = n.m.want[c] \ {p}
                         /\ f.holders[c] = n.m.holders[c] \ {p}
  BY <1>3, <1>11 DEF Lost
<1>13. /\ t \in NodeState
       /\ t.m = f /\ t.logs = logs /\ t.bin_of = n.bin_of
  BY <1>1, <1>4, <1>7, <1>9, <1>10, <1>11 DEF NodeState, Lost
<1>14. NodeOK(t)
  BY <1>6, <1>11, <1>13 DEF NodeOK, Lost
<1> QED
  BY <1>5, <1>6, <1>8, <1>11, <1>12, <1>13, <1>14 DEF Lost

\* Heads reported for every bin are heads reported for some.
LEMMA AllHeads ==
  ASSUME NEW heads \in [Bins -> BinIds]
  PROVE  heads \in Partial(Bins, BinIds)
BY PartialFacts

\* CursorsResult: a fresh log and an offer for each synced bin that has none.
LEMMA CursorsFacts ==
  ASSUME NEW n, NodeOK(n), NEW p \in Peers, NEW heads \in Partial(Bins, BinIds),
         NEW t, t = CursorsResult(n, p, heads).node
  PROVE  /\ NodeOK(t)
         /\ DOMAIN t.logs \ DOMAIN n.logs \subseteq {k \in Keys : k[1] = p}
         /\ t.offer_open \ n.offer_open \subseteq {k \in Keys : k[1] = p}
         /\ DOMAIN t.logs \ DOMAIN n.logs \subseteq t.offer_open
         /\ t.m = n.m /\ t.bin_of = n.bin_of /\ t.peers = n.peers
         /\ DOMAIN n.logs \subseteq DOMAIN t.logs
         /\ \A k \in DOMAIN t.logs :
              t.logs[k] = IF k \in DOMAIN n.logs THEN n.logs[k] ELSE NewLog
         /\ n.offer_open \subseteq t.offer_open
         /\ t.offer_open \ n.offer_open \subseteq DOMAIN t.logs
         /\ CursorsResult(n, p, heads).fx = OfferFx(n, t)
<1> DEFINE synced == {k \in Keys : k[1] = p /\ k[2] \in DOMAIN heads /\ k[2] >= Radius}
           logs == [k \in DOMAIN n.logs \cup synced |->
                      IF k \in DOMAIN n.logs THEN n.logs[k] ELSE NewLog]
           opens == {k \in synced : TryOpen(n, k)}
           cursors == [k \in Keys |-> IF k \in synced THEN heads[k[2]] ELSE n.cursors[k]]
           open == n.offer_open \cup opens
<1>1. n \in NodeState
  BY DEF NodeOK
<1>2. t = [n EXCEPT !.cursors = cursors, !.logs = logs, !.offer_open = open]
  BY DEF CursorsResult
<1>3. CursorsResult(n, p, heads).fx = {Offer(k, NextStart(logs[k])) : k \in opens}
  BY DEF CursorsResult
<1>4. cursors \in [Keys -> BinIds]
  <2>1. n.cursors \in [Keys -> BinIds]
    BY <1>1, NodeFields
  <2>2. \A k \in synced : heads[k[2]] \in BinIds
    BY PartialFacts
  <2> HIDE DEF synced
  <2> QED
    BY <2>1, <2>2
<1>5. synced \subseteq {k \in Keys : k[1] = p}
  OBVIOUS
<1>6. opens = synced \ n.offer_open
  BY DEF TryOpen
<1> HIDE DEF synced, opens
<1>7. \A k \in DOMAIN logs : Sound(logs[k])
  BY NewLogSound DEF NodeOK
<1>8. /\ DOMAIN logs = DOMAIN n.logs \cup synced
      /\ \A k \in DOMAIN logs : logs[k] = IF k \in DOMAIN n.logs THEN n.logs[k] ELSE NewLog
      /\ logs = [k \in DOMAIN logs |-> logs[k]]
  OBVIOUS
<1> HIDE DEF logs, cursors
<1>9. logs \in Partial(Keys, Log)
  <2>1. DOMAIN logs \subseteq Keys
    BY <1>1, <1>5, <1>8, NodeParts
  <2>2. \A k \in DOMAIN logs : logs[k] \in Log
    BY <1>7 DEF Sound
  <2> QED
    BY <1>8, <2>1, <2>2, PartialFacts
<1>10. open \in SUBSET Keys /\ open \ n.offer_open = opens /\ opens \subseteq DOMAIN logs
  BY <1>1, <1>5, <1>6, <1>8, NodeParts
<1>11. n.offer_open \subseteq open
  OBVIOUS
<1> HIDE DEF open
<1>12. /\ t \in NodeState
       /\ t.m = n.m /\ t.bin_of = n.bin_of /\ t.peers = n.peers
       /\ t.logs = logs /\ t.offer_open = open
  BY <1>1, <1>2, <1>4, <1>9, <1>10 DEF NodeState
<1>13. NodeOK(t)
  BY <1>7, <1>12 DEF NodeOK
<1>14. CursorsResult(n, p, heads).fx = OfferFx(n, t)
  <2> DEFINE Sent(l, o) == {Offer(k, NextStart(l[k])) : k \in o}
  <2>1. CursorsResult(n, p, heads).fx = Sent(logs, opens)
    BY <1>3
  <2>2. OfferFx(n, t) = Sent(t.logs, t.offer_open \ n.offer_open)
    BY DEF OfferFx
  <2> HIDE DEF Sent
  <2> QED
    BY <1>10, <1>12, <2>1, <2>2
<1>15. /\ DOMAIN t.logs \ DOMAIN n.logs \subseteq {k \in Keys : k[1] = p}
       /\ t.offer_open \ n.offer_open \subseteq {k \in Keys : k[1] = p}
       /\ DOMAIN t.logs \ DOMAIN n.logs \subseteq t.offer_open
  BY <1>5, <1>6, <1>8, <1>10, <1>11, <1>12
<1> QED
  BY <1>8, <1>10, <1>11, <1>12, <1>13, <1>14, <1>15

\* Tick: an offer for each log of a connected peer that has none.
LEMMA TickFacts ==
  ASSUME NEW n, NodeOK(n), NEW t, t = Tick(n).node
  PROVE  /\ NodeOK(t)
         /\ t.m = n.m /\ t.bin_of = n.bin_of /\ t.peers = n.peers /\ t.logs = n.logs
         /\ n.offer_open \subseteq t.offer_open
         /\ t.offer_open \ n.offer_open \subseteq DOMAIN t.logs
         /\ Tick(n).fx = OfferFx(n, t)
<1> DEFINE opens == {k \in DOMAIN n.logs : k[1] \in n.peers /\ TryOpen(n, k)}
           open == n.offer_open \cup opens
<1>1. n \in NodeState
  BY DEF NodeOK
<1>2. t = [n EXCEPT !.offer_open = open]
  BY DEF Tick
<1>3. Tick(n).fx = {Offer(k, NextStart(n.logs[k])) : k \in opens}
  BY DEF Tick
<1>4. opens \subseteq DOMAIN n.logs /\ opens \cap n.offer_open = {}
  BY DEF TryOpen
<1> HIDE DEF opens
<1>5. open \in SUBSET Keys /\ open \ n.offer_open = opens /\ n.offer_open \subseteq open
  BY <1>1, <1>4, NodeParts
<1> HIDE DEF open
<1>6. /\ t \in NodeState
      /\ t.m = n.m /\ t.bin_of = n.bin_of /\ t.peers = n.peers
      /\ t.logs = n.logs /\ t.offer_open = open
  BY <1>1, <1>2, <1>5 DEF NodeState
<1>7. NodeOK(t)
  BY <1>6 DEF NodeOK
<1>8. Tick(n).fx = OfferFx(n, t)
  <2> DEFINE Sent(l, o) == {Offer(k, NextStart(l[k])) : k \in o}
  <2>1. Tick(n).fx = Sent(n.logs, opens)
    BY <1>3
  <2>2. OfferFx(n, t) = Sent(t.logs, t.offer_open \ n.offer_open)
    BY DEF OfferFx
  <2> HIDE DEF Sent
  <2> QED
    BY <1>5, <1>6, <2>1, <2>2
<1> QED
  BY <1>4, <1>5, <1>6, <1>7, <1>8

\* The log an answer finds.
LogOf(n, k) == IF k \in DOMAIN n.logs THEN n.logs[k] ELSE NewLog

\* The window entries an answer's range no longer names.
Unnamed(log, start, refs, topmost) ==
  {b \in DOMAIN log.entries : b >= start /\ b <= topmost /\ b \notin DOMAIN refs}

\* What the diff of an answer does.
DiffedTo(n, t, k, start, refs, topmost) ==
  LET old == LogOf(n, k)
      lost == Unnamed(old, start, refs, topmost)
  IN /\ NodeOK(t)
     /\ t.bin_of = n.bin_of /\ t.peers = n.peers
     /\ t.offer_open = n.offer_open \ {k}
     /\ DOMAIN t.logs = DOMAIN n.logs \cup {k}
     /\ \A l \in DOMAIN n.logs \ {k} : t.logs[l] = n.logs[l]
     /\ t.logs[k].interval = old.interval
     /\ t.logs[k].topmost \in {old.topmost, topmost, start}
     /\ old.topmost <= t.logs[k].topmost
     /\ topmost <= t.logs[k].topmost /\ start <= t.logs[k].topmost
     /\ DOMAIN t.logs[k].entries = DOMAIN old.entries \ lost
     /\ \A b \in DOMAIN old.entries \ lost : t.logs[k].entries[b] = old.entries[b]
     /\ Lost(n.m, t.m, {old.entries[b] : b \in lost}, k[1])

LEMMA DiffedFacts ==
  ASSUME NEW n, NodeOK(n), NEW k \in Keys, NEW start \in BinIds, NEW refs \in Window,
         NEW topmost \in BinIds
  PROVE  DiffedTo(n, Diffed(n, k, start, refs, topmost), k, start, refs, topmost)
<1> DEFINE t == Diffed(n, k, start, refs, topmost)
           old == LogOf(n, k)
           high == BinIdMax(topmost, start)
           top == BinIdMax(old.topmost, high)
           lost == Unnamed(old, start, refs, topmost)
           rest == Without(old.entries, lost)
           log == [interval |-> old.interval, topmost |-> top, entries |-> rest]
           ids == {old.entries[b] : b \in lost}
           f == Losing(n.m, ids, k[1])
           logs == Put(n.logs, k, log)
           open == n.offer_open \ {k}
<1>1. n \in NodeState /\ n.m \in State /\ k[1] \in Peers
  BY NodeParts DEF NodeOK, Keys
<1>2. Sound(old)
  BY NewLogSound DEF LogOf, NodeOK
<1>3. t = [n EXCEPT !.offer_open = open, !.logs = logs, !.m = f]
  <2> DEFINE covered == Cover(old, high)
  <2>1. covered = [interval |-> old.interval, topmost |-> top, entries |-> old.entries]
    BY <1>2, SoundFacts DEF Cover
  <2>2. covered.entries = old.entries
    BY <2>1
  <2>3. {b \in DOMAIN covered.entries : b >= start /\ b <= topmost /\ b \notin DOMAIN refs} = lost
    BY <2>2 DEF Unnamed
  <2>4. t = [n EXCEPT !.offer_open = @ \ {k},
                      !.logs = Put(@, k, [covered EXCEPT !.entries = Without(@, lost)]),
                      !.m = Losing(@, {covered.entries[b] : b \in lost}, k[1])]
    BY <2>3, Zenon DEF Diffed, LogOf, Losing, Cover
  <2>5. [covered EXCEPT !.entries = Without(@, lost)] = log
    BY <2>1
  <2>6. {covered.entries[b] : b \in lost} = ids
    BY <2>2
  <2> HIDE DEF covered, lost, log, ids
  <2> QED
    BY <2>4, <2>5, <2>6
<1>4. /\ old.interval \in BinIds /\ old.topmost \in Nat /\ top \in BinIds
      /\ high \in BinIds
      /\ top \in {old.topmost, topmost, start}
      /\ old.topmost <= top /\ topmost <= top /\ start <= top
  <2>1. old.interval \in BinIds /\ old.topmost \in BinIds
    BY <1>2, SoundFacts
  <2>2. topmost \in Nat /\ start \in Nat /\ old.topmost \in Nat
    BY <2>1, LogTypes
  <2> HIDE DEF old
  <2> QED
    BY <2>1, <2>2 DEF BinIdMax
<1>5. lost \subseteq DOMAIN old.entries
  BY DEF Unnamed
<1> HIDE DEF old, lost, top, high
<1>6. /\ DOMAIN rest = DOMAIN old.entries \ lost
      /\ \A b \in DOMAIN rest : rest[b] = old.entries[b]
      /\ rest = [b \in DOMAIN rest |-> rest[b]]
  BY DEF Without
<1> HIDE DEF rest
<1>7. rest \in Window
  BY <1>2, <1>6, SoundFacts, LogTypes
<1>8. /\ log.interval = old.interval /\ log.topmost = top /\ log.entries = rest
      /\ log \in Log
  BY <1>4, <1>7 DEF Log
<1> HIDE DEF log
<1>9. Sound(log)
  <2>1. old.interval <= log.topmost
    BY <1>2, <1>4, <1>8, SoundFacts, LogTypes DEF Sound
  <2>2. \A b \in DOMAIN rest : old.interval < b /\ b <= log.topmost
    <3>1. \A b \in DOMAIN rest : b \in Nat /\ old.interval < b /\ b <= old.topmost
      BY <1>2, <1>6, SoundFacts
    <3>2. log.topmost \in Nat
      BY <1>4, <1>8, LogTypes
    <3> QED
      BY <1>4, <1>8, <3>1, <3>2
  <2> QED
    BY <1>8, <2>1, <2>2 DEF Sound
<1>10. ids \in SUBSET Chunks
  BY <1>2, <1>5, SoundFacts
<1> HIDE DEF ids
<1>11. Lost(n.m, f, ids, k[1])
  BY <1>1, <1>10, LoseAll
<1> HIDE DEF f
<1>12. /\ DOMAIN logs = DOMAIN n.logs \cup {k}
       /\ logs[k] = log
       /\ \A l \in DOMAIN n.logs \ {k} : logs[l] = n.logs[l]
       /\ logs = [l \in DOMAIN logs |-> logs[l]]
  BY DEF Put
<1> HIDE DEF logs
<1>13. \A l \in DOMAIN logs : Sound(logs[l])
  BY <1>9, <1>12 DEF NodeOK
<1>14. logs \in Partial(Keys, Log)
  <2>1. DOMAIN logs \subseteq Keys
    BY <1>1, <1>12, NodeParts
  <2>2. \A l \in DOMAIN logs : logs[l] \in Log
    BY <1>13 DEF Sound
  <2> QED
    BY <1>12, <2>1, <2>2, PartialFacts
<1>15. open \in SUBSET Keys
  BY <1>1, NodeParts
<1> HIDE DEF t
<1>16. /\ t \in NodeState /\ t.m = f /\ t.logs = logs /\ t.bin_of = n.bin_of
       /\ t.offer_open = open /\ t.peers = n.peers
  <2> HIDE DEF open
  <2> QED
    BY <1>1, <1>3, <1>11, <1>14, <1>15 DEF NodeState, Lost
<1>17. NodeOK(t)
  BY <1>11, <1>13, <1>16 DEF NodeOK, Lost
<1>18. DiffedTo(n, t, k, start, refs, topmost)
  <2>1. t.logs[k].entries = rest /\ t.logs[k].interval = old.interval /\ t.logs[k].topmost = top
    BY <1>8, <1>12, <1>16
  <2>2. /\ DOMAIN t.logs[k].entries = DOMAIN old.entries \ lost
        /\ \A b \in DOMAIN old.entries \ lost : t.logs[k].entries[b] = old.entries[b]
    BY <1>6, <2>1
  <2>3. Lost(n.m, t.m, ids, k[1])
    BY <1>11, <1>16
  <2>4. /\ DOMAIN t.logs = DOMAIN n.logs \cup {k}
        /\ \A l \in DOMAIN n.logs \ {k} : t.logs[l] = n.logs[l]
    BY <1>12, <1>16
  <2> QED
    BY <1>4, <1>16, <1>17, <2>1, <2>2, <2>3, <2>4 DEF DiffedTo, old, lost, ids
<1> QED
  BY <1>18 DEF t

\* What the ingest of an answer's entries does.
IngestedTo(n, t, k, refs) ==
  LET named == {refs[b] : b \in DOMAIN refs}
  IN /\ NodeOK(t)
     /\ t.offer_open = n.offer_open
     /\ DOMAIN t.logs = DOMAIN n.logs
     /\ \A l \in DOMAIN n.logs \ {k} : t.logs[l] = n.logs[l]
     /\ t.logs[k] = ObserveAll(n.logs[k], refs)
     /\ DOMAIN t.bin_of = DOMAIN n.bin_of \cup named
     /\ Offered(n.m, t.m, named)
     /\ t.peers = n.peers
     /\ \A c \in named : k[1] \in t.m.holders[c]

LEMMA IngestedFacts ==
  ASSUME NEW n, NodeOK(n), NEW k \in DOMAIN n.logs, NEW refs \in Window
  PROVE  IngestedTo(n, Ingested(n, k, refs), k, refs)
<1> DEFINE t == Ingested(n, k, refs)
           named == {refs[b] : b \in DOMAIN refs}
           log == ObserveAll(n.logs[k], refs)
           logs == [n.logs EXCEPT ![k] = log]
           bins == [c \in DOMAIN n.bin_of \cup named |-> IF c \in named THEN k[2] ELSE n.bin_of[c]]
           f == Arriving(n.m, named, k, refs, n.cursors[k])
<1>1. n \in NodeState /\ n.m \in State /\ k \in Keys /\ k[2] \in Bins
  <2>1. n \in NodeState
    BY DEF NodeOK
  <2>2. n.m \in State /\ k \in Keys
    BY <2>1, NodeParts
  <2> QED
    BY <2>1, <2>2 DEF Keys
<1>2. named \in SUBSET Chunks
  BY LogTypes
<1>3. Sound(log)
  BY ObserveSound DEF NodeOK
<1>4. t = [n EXCEPT !.logs = logs, !.bin_of = bins, !.m = f]
  BY <1>1, Zenon DEF Ingested, Arriving
<1> HIDE DEF named, log
<1>5. /\ DOMAIN logs = DOMAIN n.logs /\ logs[k] = log
      /\ \A l \in DOMAIN n.logs \ {k} : logs[l] = n.logs[l]
      /\ logs = [l \in DOMAIN logs |-> logs[l]]
  OBVIOUS
<1> HIDE DEF logs
<1>6. \A l \in DOMAIN logs : Sound(logs[l])
  BY <1>3, <1>5 DEF NodeOK
<1>7. logs \in Partial(Keys, Log)
  <2>1. DOMAIN logs \subseteq Keys
    BY <1>1, <1>5, NodeParts
  <2>2. \A l \in DOMAIN logs : logs[l] \in Log
    BY <1>6 DEF Sound
  <2> QED
    BY <1>5, <2>1, <2>2, PartialFacts
<1>8. DOMAIN bins = DOMAIN n.bin_of \cup named /\ bins \in Partial(Chunks, Bins)
  <2>1. DOMAIN bins = DOMAIN n.bin_of \cup named /\ bins = [c \in DOMAIN bins |-> bins[c]]
    OBVIOUS
  <2>2. \A c \in DOMAIN bins : bins[c] \in Bins
    BY <1>1, NodeParts
  <2> HIDE DEF bins
  <2>3. DOMAIN bins \subseteq Chunks
    BY <1>1, <1>2, <2>1, NodeParts
  <2> QED
    BY <2>1, <2>2, <2>3, PartialFacts
<1>9. Offered(n.m, f, named) /\ \A c \in named : k[1] \in f.holders[c]
  BY <1>1, <1>2, ArriveAll
<1> HIDE DEF bins, f, t
<1>10. /\ t \in NodeState /\ t.m = f /\ t.logs = logs /\ t.bin_of = bins
       /\ t.offer_open = n.offer_open /\ t.peers = n.peers
  BY <1>1, <1>4, <1>7, <1>8, <1>9 DEF NodeState, Offered
<1>11. NodeOK(t)
  <2>1. f.arrived \subseteq DOMAIN bins
    BY <1>8, <1>9 DEF NodeOK, Offered
  <2> QED
    BY <1>6, <1>10, <2>1 DEF NodeOK
<1>12. IngestedTo(n, t, k, refs)
  BY <1>5, <1>8, <1>9, <1>10, <1>11 DEF IngestedTo, named, log
<1> QED
  BY <1>12 DEF t

\* The node a fetch result leaves to its round.
Fetched(n, p, out) == [n EXCEPT !.m = Applying(@, DOMAIN out, p, out)]

LEMMA FetchedFacts ==
  ASSUME NEW n, NodeOK(n), NEW p \in Peers, NEW out \in Partial(Chunks, Outcomes),
         NEW t, t = Fetched(n, p, out)
  PROVE  /\ FetchResult(n, p, out) = Round(t)
         /\ NodeOK(t)
         /\ t.logs = n.logs /\ t.bin_of = n.bin_of /\ t.offer_open = n.offer_open
         /\ t.peers = n.peers
         /\ Reported(n.m, t.m, DOMAIN out, p, out)
<1> DEFINE D == DOMAIN out
           f == Applying(n.m, D, p, out)
<1>1. n \in NodeState /\ n.m \in State
  BY NodeParts DEF NodeOK
<1>2. D \in SUBSET Chunks /\ out \in [D -> Outcomes]
  BY PartialFacts
<1>3. t = [n EXCEPT !.m = f]
  BY DEF Fetched
<1>4. FetchResult(n, p, out) = Round(t)
  BY DEF FetchResult, Fetched, Applying
<1> HIDE DEF D
<1>5. Reported(n.m, f, D, p, out)
  BY <1>1, <1>2, ApplyAll
<1> HIDE DEF f
<1>6. /\ t \in NodeState /\ t.m = f /\ t.peers = n.peers
      /\ t.logs = n.logs /\ t.bin_of = n.bin_of /\ t.offer_open = n.offer_open
  BY <1>1, <1>3, <1>5 DEF NodeState, Reported
<1>7. NodeOK(t)
  BY <1>5, <1>6 DEF NodeOK, Reported
<1> QED
  BY <1>4, <1>5, <1>6, <1>7 DEF D

-----------------------------------------------------------------------------
(* The machine under dedup.                                                *)

\* Deliveries are counted once each and leases are exclusive: at most one per
\* chunk, on a holder without a bar, and only while the chunk is open.
Exclusive(m) ==
  /\ ~m.conflict
  /\ m.ndeliv + m.npre = Cardinality(m.got)
  /\ m.arrived \cap m.rejected = {}
  /\ m.got \cap m.rejected = {}
  /\ \A c \in Chunks :
       /\ m.want[c] = {} \/ \E p \in Peers : m.want[c] = {p}
       /\ m.want[c] \subseteq m.holders[c] \ m.excluded[c]
       /\ m.want[c] # {} => c \in m.arrived /\ c \notin m.got

\* A leased chunk is neither stored nor rejected.
LEMMA LeasedOpen ==
  ASSUME NEW r, Exclusive(r), NEW c \in Chunks, r.want[c] # {}
  PROVE  ~Settled(r, c)
BY DEF Exclusive, Settled

LEMMA ExclusiveLost ==
  ASSUME NEW r \in State, Exclusive(r), NEW S \in SUBSET Chunks, NEW p \in Peers,
         NEW f, Lost(r, f, S, p)
  PROVE  Exclusive(f)
<1>1. /\ ~f.conflict
      /\ f.ndeliv + f.npre = Cardinality(f.got)
      /\ f.arrived \cap f.rejected = {} /\ f.got \cap f.rejected = {}
  BY DEF Exclusive, Lost
<1>2. ASSUME NEW c \in Chunks
      PROVE  /\ f.want[c] = {} \/ \E q \in Peers : f.want[c] = {q}
             /\ f.want[c] \subseteq f.holders[c] \ f.excluded[c]
             /\ f.want[c] # {} => c \in f.arrived /\ c \notin f.got
  <2>1. CASE c \in S
    <3>1. f.want[c] = r.want[c] \ {p} /\ f.holders[c] = r.holders[c] \ {p}
      BY <2>1 DEF Lost
    <3>2. f.excluded = r.excluded /\ f.arrived = r.arrived /\ f.got = r.got
      BY DEF Lost
    <3>3. f.want[c] = {} \/ f.want[c] = r.want[c]
      BY <3>1 DEF Exclusive
    <3> QED
      BY <3>1, <3>2, <3>3 DEF Exclusive
  <2>2. CASE c \notin S
    BY <2>2 DEF Exclusive, Lost
  <2> QED
    BY <2>1, <2>2
<1> QED
  BY <1>1, <1>2 DEF Exclusive

LEMMA ExclusiveOffered ==
  ASSUME NEW r \in State, Exclusive(r), NEW S \in SUBSET Chunks, NEW f, Offered(r, f, S)
  PROVE  Exclusive(f)
<1>1. /\ ~f.conflict
      /\ f.ndeliv + f.npre = Cardinality(f.got)
      /\ f.got \cap f.rejected = {}
  BY DEF Exclusive, Offered
<1>2. f.arrived \cap f.rejected = {}
  BY DEF Exclusive, Offered, Settled
<1>3. \A c \in Chunks :
        /\ f.want[c] = {} \/ \E q \in Peers : f.want[c] = {q}
        /\ f.want[c] \subseteq f.holders[c] \ f.excluded[c]
        /\ f.want[c] # {} => c \in f.arrived /\ c \notin f.got
  BY DEF Exclusive, Offered
<1> QED
  BY <1>1, <1>2, <1>3 DEF Exclusive

LEMMA ExclusiveReported ==
  ASSUME NEW r \in State, Exclusive(r), NEW D \in SUBSET Chunks, NEW p \in Peers,
         NEW out, NEW f, Reported(r, f, D, p, out)
  PROVE  Exclusive(f)
<1> DEFINE stored == {c \in D : Stores(r, c, p, out[c])}
           refused == {c \in D : Rejects(r, c, out[c])}
<1>1. /\ f.npre = r.npre /\ f.holders = r.holders
      /\ f.got = r.got \cup stored
      /\ f.rejected = r.rejected \cup refused
      /\ f.arrived = r.arrived \ refused
      /\ f.ndeliv = r.ndeliv + Cardinality(stored)
      /\ f.conflict <=> r.conflict \/ stored \cap r.got # {}
  BY DEF Reported
<1>2. ASSUME NEW c \in Chunks
      PROVE  /\ f.want[c] \subseteq r.want[c]
             /\ c \in refused => f.want[c] = {}
             /\ c \in stored => f.want[c] = r.want[c] \ {p}
             /\ \/ f.excluded[c] = r.excluded[c]
                \/ f.excluded[c] = r.excluded[c] \cup {p} /\ p \notin f.want[c]
  BY DEF Reported
<1>3. \A c \in stored : c \in Chunks /\ p \in r.want[c]
  BY DEF Stores
<1>4. \A c \in refused : c \in Chunks /\ ~Settled(r, c)
  BY DEF Rejects
<1>5. \A c \in stored : c \notin refused
  BY DEF Stores, Rejects
<1> HIDE DEF stored, refused
<1>6. \A c \in stored : c \notin r.got /\ c \notin r.rejected
  BY <1>3 DEF Exclusive
<1>7. ~f.conflict
  BY <1>1, <1>6 DEF Exclusive
<1>8. f.ndeliv + f.npre = Cardinality(f.got)
  <2>1. r.got \in SUBSET Chunks /\ stored \in SUBSET Chunks /\ r.ndeliv \in Nat /\ r.npre \in Nat
    BY <1>3 DEF State
  <2>2. IsFiniteSet(r.got) /\ IsFiniteSet(stored)
    BY <2>1, ChunksFinite, FS_Subset
  <2>3. r.got \cap stored = {}
    BY <1>6
  <2>4. Cardinality(r.got \cup stored)
          = Cardinality(r.got) + Cardinality(stored) - Cardinality(r.got \cap stored)
    BY <2>2, FS_Union
  <2>5. Cardinality(r.got \cap stored) = 0
    BY <2>3, FS_EmptySet
  <2>6. Cardinality(r.got) \in Nat /\ Cardinality(stored) \in Nat
    BY <2>2, FS_CardinalityType
  <2>7. r.ndeliv + r.npre = Cardinality(r.got)
    BY DEF Exclusive
  <2> QED
    BY <1>1, <2>1, <2>4, <2>5, <2>6, <2>7
<1>9. f.arrived \cap f.rejected = {}
  BY <1>1 DEF Exclusive
<1>10. f.got \cap f.rejected = {}
  BY <1>1, <1>4, <1>5, <1>6 DEF Exclusive, Settled
<1>11. ASSUME NEW c \in Chunks
       PROVE  /\ f.want[c] = {} \/ \E q \in Peers : f.want[c] = {q}
              /\ f.want[c] \subseteq f.holders[c] \ f.excluded[c]
              /\ f.want[c] # {} => c \in f.arrived /\ c \notin f.got
  <2>0. r.want[c] = {} \/ \E q \in Peers : r.want[c] = {q}
    BY DEF Exclusive
  <2>1. f.want[c] = {} \/ f.want[c] = r.want[c]
    BY <1>2, <2>0
  <2>2. CASE f.want[c] = {}
    BY <2>2
  <2>3. CASE f.want[c] # {}
    <3>1. f.want[c] = r.want[c] /\ r.want[c] # {} /\ c \notin refused
      BY <1>2, <2>1, <2>3
    <3>2. c \notin stored
      <4> SUFFICES ASSUME c \in stored PROVE FALSE
        OBVIOUS
      <4>1. f.want[c] = r.want[c] \ {p} /\ p \in r.want[c]
        BY <1>2, <1>3
      <4> QED
        BY <3>1, <4>1
    <3>3. c \in f.arrived /\ c \notin f.got
      BY <1>1, <3>1, <3>2 DEF Exclusive
    <3>4. f.want[c] \subseteq f.holders[c] \ f.excluded[c]
      BY <1>1, <1>2, <3>1 DEF Exclusive
    <3> QED
      BY <3>1, <3>3, <3>4 DEF Exclusive
  <2> QED
    BY <2>2, <2>3
<1> QED
  BY <1>7, <1>8, <1>9, <1>10, <1>11 DEF Exclusive

LEMMA ExclusiveRound ==
  ASSUME NEW n, NodeOK(n), Exclusive(n.m), n.m.cfg.dedup, NEW s, s = Round(n).node
  PROVE  Exclusive(s.m)
<1>0. Rounded(n, s)
  BY RoundFacts
<1>1. /\ s.m.got = n.m.got /\ s.m.rejected = n.m.rejected
      /\ s.m.conflict = n.m.conflict /\ s.m.ndeliv = n.m.ndeliv /\ s.m.npre = n.m.npre
      /\ s.m.arrived \subseteq n.m.arrived
      /\ n.m.arrived \ s.m.arrived \subseteq Done(n)
  BY <1>0 DEF Rounded
<1>2. \A c \in Chunks :
        /\ n.m.want[c] \subseteq s.m.want[c]
        /\ s.m.want[c] # n.m.want[c] => c \in s.m.arrived /\ c \notin n.m.got
        /\ s.m.want[c] \ n.m.want[c] \subseteq s.m.holders[c] \ s.m.excluded[c]
        /\ c \notin Done(n) => /\ s.m.holders[c] = n.m.holders[c]
                               /\ s.m.excluded[c] \subseteq n.m.excluded[c]
        /\ n.m.cfg.dedup => \/ s.m.want[c] = n.m.want[c]
                            \/ n.m.want[c] = {} /\ \E p \in Peers : s.m.want[c] = {p}
  BY <1>0 DEF Rounded
<1>3. ASSUME NEW c \in Chunks, n.m.want[c] # {}
      PROVE  c \notin Done(n)
  BY <1>3 DEF Exclusive, Done
<1>4. ASSUME NEW c \in Chunks
      PROVE  /\ s.m.want[c] = {} \/ \E p \in Peers : s.m.want[c] = {p}
             /\ s.m.want[c] \subseteq s.m.holders[c] \ s.m.excluded[c]
             /\ s.m.want[c] # {} => c \in s.m.arrived /\ c \notin s.m.got
  <2>1. CASE n.m.want[c] = {}
    <3>1. s.m.want[c] \subseteq s.m.holders[c] \ s.m.excluded[c]
      BY <1>2, <2>1
    <3>2. s.m.want[c] = {} \/ \E p \in Peers : s.m.want[c] = {p}
      BY <1>2, <2>1
    <3>3. s.m.want[c] # {} => c \in s.m.arrived /\ c \notin s.m.got
      BY <1>1, <1>2, <2>1
    <3> QED
      BY <3>1, <3>2, <3>3
  <2>2. CASE n.m.want[c] # {}
    <3>1. s.m.want[c] = n.m.want[c]
      BY <1>2, <2>2
    <3>2. c \notin Done(n)
      BY <1>3, <2>2
    <3>3. /\ n.m.want[c] \subseteq n.m.holders[c] \ n.m.excluded[c]
          /\ c \in n.m.arrived /\ c \notin n.m.got
          /\ \E p \in Peers : n.m.want[c] = {p}
      BY <2>2 DEF Exclusive
    <3>4. s.m.holders[c] = n.m.holders[c] /\ s.m.excluded[c] \subseteq n.m.excluded[c]
      BY <1>2, <3>2
    <3>5. c \in s.m.arrived /\ c \notin s.m.got
      BY <1>1, <3>2, <3>3
    <3> QED
      BY <3>1, <3>3, <3>4, <3>5
  <2> QED
    BY <2>1, <2>2
<1>5. s.m.arrived \cap s.m.rejected = {} /\ s.m.got \cap s.m.rejected = {}
  BY <1>1 DEF Exclusive
<1>6. ~s.m.conflict /\ s.m.ndeliv + s.m.npre = Cardinality(s.m.got)
  BY <1>1 DEF Exclusive
<1> QED
  BY <1>4, <1>5, <1>6 DEF Exclusive
=============================================================================
