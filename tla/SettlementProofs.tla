-------------------------- MODULE SettlementProofs --------------------------
(***************************************************************************)
(* Settle before you forget, for every BinID range, every set of triples   *)
(* and every sequence of calls, as long as a BinID keeps its triple.       *)
(***************************************************************************)
EXTENDS Settlement, TLAPS, WellFoundedInduction

-----------------------------------------------------------------------------
(* The operation advance.                                                  *)

\* The least unsettled BinID exists.
LEMMA LeastExists ==
  ASSUME NEW S \in SUBSET Nat, S # {}
  PROVE  Least(S) \in S /\ \A y \in S : Least(S) <= y
<1> DEFINE R == OpToRel(<, Nat)
<1>1. IsWellFoundedOn(R, Nat)
  BY NatLessThanWellFounded
<1>2. PICK x \in S : \A y \in S : <<y, x>> \notin R
  <2> HIDE DEF R
  <2> QED
    BY <1>1, WFMin
<1>3. \A y \in S : ~(y < x)
  BY <1>2 DEF OpToRel
<1>4. \E z \in S : \A y \in S : z <= y
  BY <1>3
<1> QED
  BY <1>4 DEF Least

\* A window is a function from some BinIDs to triples.
LEMMA WindowFacts ==
  ASSUME NEW w
  PROVE  w \in Window <=> /\ DOMAIN w \subseteq BinIds
                          /\ w \in [DOMAIN w -> Triples]
BY DEF Window

\* What advance does to a log whose window lies above its interval: the interval
\* moves up inside the covered range, everything it passes is settled, and the
\* window keeps exactly the entries above it.
LEMMA AdvanceFacts ==
  ASSUME NEW l \in Log, NEW S,
         \A b \in DOMAIN l.entries : l.interval < b /\ b <= l.topmost,
         l.interval <= l.topmost
  PROVE  LET a == Advance(l, S)
         IN /\ a \in Log
            /\ a.topmost = l.topmost
            /\ l.interval <= a.interval /\ a.interval <= a.topmost
            /\ DOMAIN a.entries = {b \in DOMAIN l.entries : b > a.interval}
            /\ \A b \in DOMAIN a.entries : a.entries[b] = l.entries[b]
            /\ \A b \in DOMAIN l.entries : b <= a.interval => l.entries[b] \in S
<1> DEFINE stop == Stops(l, S)
           a == Advance(l, S)
<1>1. /\ l.interval \in BinIds /\ l.topmost \in BinIds
      /\ DOMAIN l.entries \subseteq BinIds
      /\ l.entries \in [DOMAIN l.entries -> Triples]
  BY WindowFacts DEF Log
<1>2. /\ l.interval \in Nat /\ l.topmost \in Nat
      /\ \A b \in DOMAIN l.entries : b \in Nat
  BY <1>1, MaxBinIdNat DEF BinIds
<1>3. CASE stop = {}
  <2>1. BinIdMax(l.interval, l.topmost) = l.topmost
    BY <1>2 DEF BinIdMax
  <2>2. a = [l EXCEPT !.interval = l.topmost, !.entries = EmptyWindow]
    BY <1>3, <2>1, Zenon DEF Advance
  <2>3. EmptyWindow \in Window /\ DOMAIN EmptyWindow = {}
    BY WindowFacts DEF EmptyWindow
  <2>4. \A b \in DOMAIN l.entries : l.entries[b] \in S
    BY <1>3 DEF Stops
  <2>5. /\ a \in Log /\ a.topmost = l.topmost /\ a.interval = l.topmost
        /\ a.entries = EmptyWindow
    BY <1>1, <2>2, <2>3 DEF Log
  <2>6. {b \in DOMAIN l.entries : b > l.topmost} = {}
    BY <1>2
  <2> HIDE DEF a
  <2> QED
    BY <1>2, <2>3, <2>4, <2>5, <2>6 DEF a
<1>4. CASE stop # {}
  <2>1. Least(stop) \in stop /\ \A y \in stop : Least(stop) <= y
    <3>1. stop \in SUBSET Nat
      BY <1>2 DEF Stops
    <3> QED
      BY <1>4, <3>1, LeastExists
  <2>2. PICK first \in Nat : first = Least(stop)
    BY <1>2, <2>1 DEF Stops
  <2>3. first \in DOMAIN l.entries
    BY <2>1, <2>2 DEF Stops
  <2>4. l.interval < first /\ first <= l.topmost
    BY <2>3
  <2>5. l.interval <= first - 1 /\ first - 1 <= l.topmost
    BY <1>2, <2>4
  <2>6. /\ BinIdMin(first - 1, l.topmost) = first - 1
        /\ BinIdMax(l.interval, first - 1) = first - 1
    BY <1>2, <2>5 DEF BinIdMin, BinIdMax
  <2> DEFINE kept == {b \in DOMAIN l.entries : b >= first}
             rest == [b \in kept |-> l.entries[b]]
  <2>7. a = [l EXCEPT !.interval = first - 1, !.entries = rest]
    BY <1>4, <2>2, <2>6, Zenon DEF Advance
  <2>8. first - 1 \in BinIds
    BY <1>1, <1>2, <2>5, MaxBinIdNat DEF BinIds
  <2>9. rest \in Window
    BY <1>1, WindowFacts
  <2>10. kept = {b \in DOMAIN l.entries : b > first - 1}
    BY <1>2
  <2>11. \A b \in DOMAIN l.entries : b <= first - 1 => l.entries[b] \in S
    <3>1. \A b \in stop : first <= b
      BY <2>1, <2>2
    <3>2. \A b \in DOMAIN l.entries : b \notin stop => l.entries[b] \in S
      BY DEF Stops
    <3> HIDE DEF stop
    <3>3. \A b \in DOMAIN l.entries : b <= first - 1 => b \notin stop
      BY <1>2, <3>1
    <3> QED
      BY <3>2, <3>3
  <2>12. DOMAIN rest = kept /\ \A b \in kept : rest[b] = l.entries[b]
    OBVIOUS
  <2> HIDE DEF kept, rest, stop, a
  <2>13. /\ a \in Log /\ a.topmost = l.topmost /\ a.interval = first - 1
         /\ a.entries = rest
    BY <1>1, <2>7, <2>8, <2>9 DEF Log
  <2> QED
    BY <2>5, <2>10, <2>11, <2>12, <2>13 DEF a
<1> QED
  BY <1>3, <1>4

-----------------------------------------------------------------------------
(* The inductive invariant.                                                *)

\* A resumed log covers nothing beyond its interval and owes nothing.
LEMMA InitInv == Init => IInv
<1> SUFFICES ASSUME Init PROVE IInv
  OBVIOUS
<1>1. PICK i \in BinIds : log = [interval |-> i, topmost |-> i, entries |-> EmptyWindow]
  BY DEF Init, Resume
<1>2. EmptyWindow \in Window /\ DOMAIN EmptyWindow = {}
  BY WindowFacts DEF EmptyWindow
<1>3. i \in Nat
  BY MaxBinIdNat DEF BinIds
<1>4. TypeOK
  BY <1>1, <1>2 DEF Init, TypeOK, Log
<1>5. WindowAbove
  BY <1>1, <1>2, <1>3 DEF WindowAbove
<1> QED
  BY <1>4, <1>5 DEF Init, IInv, NoDrop, WindowComplete, NumberingKept

\* The parts of the invariant, as facts the provers can use directly.
LEMMA LogFacts ==
  ASSUME IInv
  PROVE  /\ log.interval \in Nat /\ log.topmost \in Nat
         /\ log.interval \in BinIds /\ log.topmost \in BinIds
         /\ log = [interval |-> log.interval, topmost |-> log.topmost,
                   entries |-> log.entries]
         /\ DOMAIN log.entries \subseteq BinIds
         /\ log.entries \in [DOMAIN log.entries -> Triples]
         /\ \A b \in BinIds : b \in Nat
<1>1. \A b \in BinIds : b \in Nat
  BY MaxBinIdNat DEF BinIds
<1>2. log \in Log
  BY DEF IInv, TypeOK
<1> QED
  BY <1>1, <1>2, WindowFacts DEF Log

\* An offered entry joins the window.  If its BinID was there already the peer's
\* numbering makes it the same triple, so no obligation is overwritten.
LEMMA ObserveKeeps ==
  ASSUME IInv, NEW b \in BinIds, ObserveStep(b)
  PROVE  IInv'
<1>0. PICK c \in Triples : c = numbering[b]
  BY DEF IInv, TypeOK
<1> DEFINE w == [x \in DOMAIN log.entries \cup {b} |->
                   IF x = b THEN c ELSE log.entries[x]]
<1>1. c = numbering[b] /\ UNCHANGED <<settled, numbering>>
  BY <1>0 DEF ObserveStep
<1>2. w \in Window /\ DOMAIN w = DOMAIN log.entries \cup {b}
  BY LogFacts, WindowFacts
<1>3. BinIdMax(log.topmost, b) \in BinIds /\ log.topmost <= BinIdMax(log.topmost, b)
      /\ b <= BinIdMax(log.topmost, b)
  BY LogFacts DEF BinIdMax
<1>4. CASE b > log.interval
  <2>1. /\ log'.interval = log.interval /\ log'.topmost = BinIdMax(log.topmost, b)
        /\ log'.entries = w /\ log' \in Log
    BY <1>0, <1>2, <1>3, <1>4 DEF ObserveStep, Observe, IInv, TypeOK, Log
  <2>2. offered' = offered \cup {<<b, c>>}
    BY <1>0, <1>4 DEF ObserveStep
  <2>3. TypeOK'
    BY <1>1, <2>1, <2>2 DEF IInv, TypeOK
  <2>4. WindowAbove'
    BY <1>2, <1>3, <1>4, <2>1, LogFacts DEF IInv, WindowAbove
  <2>5. NoDrop'
    BY <1>1, <1>4, <2>1, <2>2, LogFacts DEF IInv, NoDrop
  <2>6. NumberingKept'
    BY <1>1, <2>2 DEF IInv, NumberingKept
  <2>7. WindowComplete'
    BY <1>1, <2>1, <2>2 DEF IInv, WindowComplete, NumberingKept
  <2> QED
    BY <2>3, <2>4, <2>5, <2>6, <2>7 DEF IInv
<1>5. CASE ~(b > log.interval)
  <2>1. /\ log'.interval = log.interval /\ log'.topmost = BinIdMax(log.topmost, b)
        /\ log'.entries = log.entries /\ log' \in Log
    BY <1>3, <1>5 DEF ObserveStep, Observe, IInv, TypeOK, Log
  <2>2. offered' = offered
    BY <1>5 DEF ObserveStep
  <2>3. WindowAbove'
    BY <1>3, <2>1, LogFacts DEF IInv, WindowAbove
  <2> QED
    BY <1>1, <2>1, <2>2, <2>3 DEF IInv, TypeOK, NoDrop, NumberingKept, WindowComplete
<1> QED
  BY <1>4, <1>5

\* Covering a range only raises the coverage.
LEMMA CoverKeeps ==
  ASSUME IInv, NEW t \in BinIds, CoverStep(t)
  PROVE  IInv'
<1>1. BinIdMax(log.topmost, t) \in BinIds /\ log.topmost <= BinIdMax(log.topmost, t)
  BY LogFacts DEF BinIdMax
<1>2. /\ log'.interval = log.interval /\ log'.topmost = BinIdMax(log.topmost, t)
      /\ log'.entries = log.entries /\ log' \in Log
  BY <1>1 DEF CoverStep, Cover, IInv, TypeOK, Log
<1>3. WindowAbove'
  <2>1. BinIdMax(log.topmost, t) \in Nat
    BY <1>1, LogFacts
  <2> QED
    BY <1>1, <1>2, <2>1, LogFacts DEF IInv, WindowAbove
<1> QED
  BY <1>2, <1>3 DEF CoverStep, IInv, TypeOK, NoDrop, NumberingKept, WindowComplete

\* The offer-diff drops an entry and the obligation with it.
LEMMA ForgetEntryKeeps ==
  ASSUME IInv, NEW b \in BinIds, ForgetEntryStep(b)
  PROVE  IInv'
<1> DEFINE w == [x \in DOMAIN log.entries \ {b} |-> log.entries[x]]
<1>1. w \in Window /\ DOMAIN w = DOMAIN log.entries \ {b}
  BY LogFacts, WindowFacts
<1>2. /\ log'.interval = log.interval /\ log'.topmost = log.topmost
      /\ log'.entries = w /\ log' \in Log
  BY <1>1 DEF ForgetEntryStep, ForgetEntry, IInv, TypeOK, Log
<1>3. /\ offered' = offered \ {<<b, log.entries[b]>>} /\ b \in DOMAIN log.entries
      /\ UNCHANGED <<settled, numbering>>
  BY DEF ForgetEntryStep
<1>4. TypeOK'
  BY <1>2, <1>3 DEF IInv, TypeOK
<1>5. WindowAbove'
  BY <1>1, <1>2 DEF IInv, WindowAbove
<1>6. NoDrop' /\ NumberingKept'
  BY <1>2, <1>3 DEF IInv, NoDrop, NumberingKept
<1>7. WindowComplete'
  <2> SUFFICES ASSUME NEW e \in offered', e[1] > log.interval
               PROVE  e[1] \in DOMAIN w /\ w[e[1]] = e[2]
    BY <1>2 DEF WindowComplete
  <2>1. e[1] \in DOMAIN log.entries /\ log.entries[e[1]] = e[2]
    BY <1>3 DEF IInv, WindowComplete
  <2>2. e = <<e[1], e[2]>>
    BY <1>3 DEF IInv, TypeOK
  <2>3. e[1] # b
    BY <1>3, <2>1, <2>2
  <2> QED
    BY <2>1, <2>3
<1> QED
  BY <1>4, <1>5, <1>6, <1>7 DEF IInv

\* advance passes only settled entries and leaves the rest in the window.
LEMMA AdvanceKeeps ==
  ASSUME IInv, AdvanceStep
  PROVE  IInv'
<1>1. /\ log' \in Log /\ log'.topmost = log.topmost
      /\ log.interval <= log'.interval /\ log'.interval <= log'.topmost
      /\ DOMAIN log'.entries = {b \in DOMAIN log.entries : b > log'.interval}
      /\ \A b \in DOMAIN log'.entries : log'.entries[b] = log.entries[b]
      /\ \A b \in DOMAIN log.entries : b <= log'.interval => log.entries[b] \in settled
  BY AdvanceFacts DEF AdvanceStep, IInv, TypeOK, WindowAbove
<1>2. UNCHANGED <<settled, numbering, offered>>
  BY DEF AdvanceStep
<1>3. log'.interval \in Nat
  BY <1>1, MaxBinIdNat DEF Log, BinIds
<1>4. TypeOK'
  BY <1>1, <1>2 DEF IInv, TypeOK
<1>5. WindowAbove'
  BY <1>1 DEF IInv, WindowAbove
<1>6. \A e \in offered : e[1] \in Nat
  BY LogFacts DEF IInv, TypeOK
<1>7. NoDrop'
  <2> SUFFICES ASSUME NEW e \in offered, e[1] <= log'.interval
               PROVE  e[2] \in settled
    BY <1>2 DEF NoDrop
  <2>1. CASE e[1] <= log.interval
    BY <2>1 DEF IInv, NoDrop
  <2>2. CASE e[1] > log.interval
    BY <1>1, <2>2 DEF IInv, WindowComplete
  <2> QED
    BY <1>6, <2>1, <2>2, LogFacts
<1>8. WindowComplete'
  <2> SUFFICES ASSUME NEW e \in offered, e[1] > log'.interval
               PROVE  e[1] \in DOMAIN log'.entries /\ log'.entries[e[1]] = e[2]
    BY <1>2 DEF WindowComplete
  <2>1. e[1] > log.interval
    BY <1>1, <1>3, <1>6, LogFacts
  <2> QED
    BY <1>1, <2>1 DEF IInv, WindowComplete
<1> QED
  BY <1>2, <1>4, <1>5, <1>7, <1>8 DEF IInv, NumberingKept

\* IInv is inductive while BinIDs keep their triples.
LEMMA InvStep == IInv /\ [Next]_vars => IInv'
<1> SUFFICES ASSUME IInv, [Next]_vars PROVE IInv'
  OBVIOUS
<1>1. ASSUME NEW c \in Triples, SettleStep(c)
      PROVE  IInv'
  BY <1>1 DEF SettleStep, IInv, TypeOK, WindowAbove, NoDrop, WindowComplete, NumberingKept
<1>2. CASE UNCHANGED vars
  BY <1>2 DEF vars, IInv, TypeOK, WindowAbove, NoDrop, WindowComplete, NumberingKept
<1> QED
  BY <1>1, <1>2, ObserveKeeps, CoverKeeps, ForgetEntryKeeps, AdvanceKeeps DEF Next

\* Every reachable log satisfies IInv.
LEMMA Inductive == Spec => []IInv
BY InitInv, InvStep, PTL DEF Spec

\* Settle before you forget: while every BinID keeps its triple, no sequence of
\* offers, diffs, settlements and rounds lets the interval pass an offered entry
\* that is neither stored nor rejected.
THEOREM SettleBeforeForget == Spec => []NoDrop
<1>1. IInv => NoDrop
  BY DEF IInv
<1> QED
  BY <1>1, Inductive, PTL

\* The window always lies strictly above the interval and inside the coverage,
\* so the next offer never starts behind an entry that is still owed.
THEOREM WindowSound == Spec => [](TypeOK /\ WindowAbove /\ WindowComplete)
<1>1. IInv => TypeOK /\ WindowAbove /\ WindowComplete
  BY DEF IInv
<1> QED
  BY <1>1, Inductive, PTL

\* Neither end of the log ever moves back.
LEMMA MonotoneStep ==
  IInv /\ [Next]_vars => log.interval <= log'.interval /\ log.topmost <= log'.topmost
<1> SUFFICES ASSUME IInv, [Next]_vars
             PROVE  log.interval <= log'.interval /\ log.topmost <= log'.topmost
  OBVIOUS
<1>1. ASSUME NEW b \in BinIds, ObserveStep(b)
      PROVE  log.interval <= log'.interval /\ log.topmost <= log'.topmost
  BY <1>1, LogFacts DEF ObserveStep, Observe, BinIdMax, IInv, TypeOK, Log
<1>2. ASSUME NEW t \in BinIds, CoverStep(t)
      PROVE  log.interval <= log'.interval /\ log.topmost <= log'.topmost
  BY <1>2, LogFacts DEF CoverStep, Cover, BinIdMax, IInv, TypeOK, Log
<1>3. ASSUME NEW b \in BinIds, ForgetEntryStep(b)
      PROVE  log.interval <= log'.interval /\ log.topmost <= log'.topmost
  BY <1>3, LogFacts DEF ForgetEntryStep, ForgetEntry, IInv, TypeOK, Log
<1>4. CASE AdvanceStep
  BY <1>4, LogFacts, AdvanceFacts DEF AdvanceStep, IInv, TypeOK, WindowAbove
<1>5. CASE UNCHANGED log
  BY <1>5, LogFacts
<1> QED
  BY <1>1, <1>2, <1>3, <1>4, <1>5 DEF Next, SettleStep, vars

\* The durable high-water is monotone whatever is observed, dropped or settled.
THEOREM IntervalMonotone == Spec => Monotone
<1>1. Spec => []IInv
  BY Inductive
<1> QED
  BY <1>1, MonotoneStep, PTL DEF Spec, Monotone

\* advance is complete as well as safe: it stops at the largest covered BinID
\* with nothing unsettled at or below it, never short of it.
THEOREM AdvanceIsLargest == Spec => []AdvanceComplete
<1>1. IInv => AdvanceComplete
  <2> SUFFICES ASSUME IInv PROVE AdvanceComplete
    OBVIOUS
  <2> DEFINE a == Advance(log, settled)
  <2>1. /\ a \in Log /\ a.topmost = log.topmost
        /\ log.interval <= a.interval /\ a.interval <= a.topmost
        /\ DOMAIN a.entries = {b \in DOMAIN log.entries : b > a.interval}
        /\ \A b \in DOMAIN a.entries : a.entries[b] = log.entries[b]
        /\ \A b \in DOMAIN log.entries : b <= a.interval => log.entries[b] \in settled
    BY AdvanceFacts DEF IInv, TypeOK, WindowAbove
  <2>2. LargestSettled(a.interval)
    BY <2>1 DEF LargestSettled
  <2>3. \A y \in BinIds : LargestSettled(y) => y <= a.interval
    <3> SUFFICES ASSUME NEW y \in BinIds, LargestSettled(y) PROVE y <= a.interval
      OBVIOUS
    <3>1. y <= log.topmost /\ y \in Nat /\ log.topmost \in Nat /\ log.interval \in Nat
      BY LogFacts DEF LargestSettled
    <3>2. CASE Stops(log, settled) = {}
      <4>1. a.interval = BinIdMax(log.interval, log.topmost)
        BY <3>2 DEF Advance, IInv, TypeOK, Log
      <4> QED
        BY <3>1, <4>1 DEF BinIdMax
    <3>3. CASE Stops(log, settled) # {}
      <4>1. Stops(log, settled) \in SUBSET Nat
        BY LogFacts DEF Stops
      <4>2. PICK first \in Nat : /\ first = Least(Stops(log, settled))
                                /\ first \in Stops(log, settled)
        BY <3>3, <4>1, LeastExists
      <4>3. first \in DOMAIN log.entries /\ log.entries[first] \notin settled
        BY <4>2 DEF Stops
      <4>4. y < first
        BY <3>1, <4>3 DEF LargestSettled
      <4>5. a.interval = BinIdMax(log.interval, BinIdMin(first - 1, log.topmost))
        BY <3>3, <4>2 DEF Advance, IInv, TypeOK, Log
      <4> QED
        BY <3>1, <4>4, <4>5 DEF BinIdMax, BinIdMin
    <3> QED
      BY <3>2, <3>3
  <2> QED
    BY <2>2, <2>3 DEF AdvanceComplete
<1> QED
  BY <1>1, Inductive, PTL

-----------------------------------------------------------------------------
(* The loop of advance.                                                    *)

\* after[i] is the state of the loop after i turns.
Loops(g, l, S, N) ==
  g = [i \in 0 .. N |-> IF i = 0 THEN [new |-> l.interval, entries |-> l.entries]
                        ELSE LoopTurn(g[i - 1], S)]

\* The recursion has a solution.
LEMMA LoopRuns ==
  ASSUME NEW l, NEW S, NEW N \in Nat
  PROVE  \E g : Loops(g, l, S, N)
<1> DEFINE first == [new |-> l.interval, entries |-> l.entries]
           Run(g, M) == g = [i \in 0 .. M |-> IF i = 0 THEN first ELSE LoopTurn(g[i - 1], S)]
           bad == {M \in Nat : ~ \E g : Run(g, M)}
<1> SUFFICES ASSUME bad # {} PROVE FALSE
  BY DEF Loops
<1> HIDE DEF first
<1>1. PICK M \in bad : \A y \in bad : M <= y
  BY LeastExists
<1>2. M \in Nat /\ ~ \E g : Run(g, M)
  BY <1>1
<1>3. M # 0
  <2>1. Run([t \in 0 .. 0 |-> first], 0)
    OBVIOUS
  <2> QED
    BY <1>2, <2>1
<1>4. PICK g : Run(g, M - 1)
  <2>1. M - 1 \in Nat /\ ~(M <= M - 1)
    BY <1>2, <1>3
  <2>2. M - 1 \notin bad
    BY <1>1, <2>1
  <2> QED
    BY <2>1, <2>2
<1> DEFINE h == [t \in 0 .. M |-> IF t = M THEN LoopTurn(g[M - 1], S) ELSE g[t]]
<1>5. ASSUME NEW t \in 0 .. M
      PROVE  h[t] = IF t = 0 THEN first ELSE LoopTurn(h[t - 1], S)
  <2>1. CASE t = M
    <3>1. h[t] = LoopTurn(g[M - 1], S)
      BY <2>1
    <3>2. h[t - 1] = g[M - 1]
      BY <1>2, <1>3, <2>1
    <3> QED
      BY <1>3, <2>1, <3>1, <3>2
  <2>2. CASE t # M
    <3>1. t \in 0 .. (M - 1)
      BY <1>2, <2>2
    <3>2. h[t] = g[t] /\ g[t] = IF t = 0 THEN first ELSE LoopTurn(g[t - 1], S)
      BY <1>4, <2>2, <3>1
    <3>3. t # 0 => h[t - 1] = g[t - 1]
      BY <1>2, <3>1
    <3> QED
      BY <3>2, <3>3
  <2> QED
    BY <2>1, <2>2
<1>6. Run(h, M)
  <2>1. h = [t \in 0 .. M |-> h[t]]
    OBVIOUS
  <2> HIDE DEF h
  <2> QED
    BY <1>5, <2>1
<1> QED
  BY <1>2, <1>6

\* After i turns the loop rests at the first unsettled entry, or all that is left
\* are entries from i on.  What it took off was settled, and in front of the rest.
Turned(s, i, l, S) ==
  /\ DOMAIN s.entries \subseteq DOMAIN l.entries
  /\ s.entries = [b \in DOMAIN s.entries |-> l.entries[b]]
  /\ \A x \in DOMAIN l.entries : x \notin DOMAIN s.entries =>
       l.entries[x] \in S /\ \A b \in DOMAIN s.entries : x < b
  /\ s.new \in Nat /\ l.interval <= s.new
  /\ \A b \in DOMAIN s.entries : s.new < b
  /\ \/ \A b \in DOMAIN s.entries : i <= b
     \/ DOMAIN s.entries # {} /\ l.entries[Least(DOMAIN s.entries)] \notin S

LEMMA TurnKeeps ==
  ASSUME NEW l \in Log, NEW S, NEW s, NEW i \in Nat, Turned(s, i, l, S)
  PROVE  Turned(LoopTurn(s, S), i + 1, l, S)
<1> DEFINE D == DOMAIN s.entries
           b == Least(D)
           r == LoopTurn(s, S)
<1>1. D \subseteq DOMAIN l.entries /\ DOMAIN l.entries \subseteq Nat /\ l.interval \in Nat
  BY WindowFacts, MaxBinIdNat DEF Log, Turned, BinIds
<1>2. ASSUME D # {} PROVE b \in D /\ (\A x \in D : b <= x) /\ s.entries[b] = l.entries[b]
  <2>1. D \in SUBSET Nat
    BY <1>1
  <2> HIDE DEF D
  <2>2. b \in D /\ \A x \in D : b <= x
    BY <1>2, <2>1, LeastExists
  <2>3. \A x \in D : s.entries[x] = l.entries[x]
    BY DEF Turned, D
  <2> QED
    BY <2>2, <2>3
<1>3. CASE D = {} \/ s.entries[b] \notin S
  <2>1. r = s
    BY <1>3 DEF LoopTurn
  <2>2. \/ \A x \in D : i + 1 <= x
        \/ D # {} /\ l.entries[b] \notin S
    BY <1>2, <1>3
  <2> HIDE DEF r
  <2> QED
    BY <2>1, <2>2 DEF Turned, r
<1>4. CASE D # {} /\ s.entries[b] \in S
  <2> DEFINE rest == [x \in D \ {b} |-> s.entries[x]]
  <2>1. r = [new |-> b, entries |-> rest]
    BY <1>4 DEF LoopTurn
  <2>2. b \in D /\ (\A x \in D : b <= x) /\ l.entries[b] \in S
    BY <1>2, <1>4
  <2>3. r.new = b /\ r.entries = rest /\ DOMAIN rest = D \ {b}
    BY <2>1
  <2>4. rest = [x \in D \ {b} |-> l.entries[x]]
    BY DEF Turned
  <2>5. \A x \in D : i <= x
    BY <2>2 DEF Turned
  <2>6. /\ \A x \in DOMAIN l.entries : x \notin D => l.entries[x] \in S /\ \A y \in D : x < y
        /\ l.interval <= s.new /\ s.new < b /\ s.new \in Nat
    BY <2>2 DEF Turned
  <2> HIDE DEF D, b, r, rest
  <2>7. b \in Nat /\ \A x \in D : x \in Nat
    BY <1>1, <2>2
  <2>8. \A x \in D \ {b} : b < x /\ i + 1 <= x
    BY <2>2, <2>5, <2>7
  <2>9. \A x \in DOMAIN l.entries : x \notin D \ {b} => l.entries[x] \in S /\ \A y \in D \ {b} : x < y
    BY <2>2, <2>6, <2>8
  <2>10. l.interval <= b
    BY <1>1, <2>6, <2>7
  <2>11. D \ {b} \subseteq DOMAIN l.entries /\ r.entries = [x \in DOMAIN r.entries |-> l.entries[x]]
    BY <1>1, <2>3, <2>4
  <2> QED
    BY <2>3, <2>7, <2>8, <2>9, <2>10, <2>11 DEF Turned, r
<1> QED
  BY <1>3, <1>4

\* The closed form is the loop, for every log whose window lies above its interval.
LEMMA LoopResult ==
  ASSUME NEW l \in Log, NEW S, l.interval <= l.topmost,
         \A b \in DOMAIN l.entries : l.interval < b /\ b <= l.topmost
  PROVE  Advance(l, S) = AdvanceLoop(l, S)
<1> DEFINE N == MaxBinId + 1
           after == CHOOSE g : Loops(g, l, S, N)
           last == after[N]
           D == DOMAIN last.entries
           stop == Stops(l, S)
           new == IF D = {} THEN l.topmost
                  ELSE BinIdMin(BinIdMax(last.new, Least(D) - 1), l.topmost)
<1>1. N \in Nat
  BY MaxBinIdNat
<1>2. Loops(after, l, S, N)
  <2> HIDE DEF N
  <2> QED
    BY <1>1, LoopRuns
<1>3. AdvanceLoop(l, S) = [l EXCEPT !.interval = BinIdMax(@, new), !.entries = last.entries]
  BY Zenon DEF AdvanceLoop, Loops
<1> HIDE DEF after, N
<1>4. ASSUME NEW i \in 0 .. N
      PROVE  after[i] = IF i = 0 THEN [new |-> l.interval, entries |-> l.entries]
                        ELSE LoopTurn(after[i - 1], S)
  BY <1>2 DEF Loops
<1>5. DOMAIN l.entries \subseteq 0 .. MaxBinId /\ l.interval \in Nat /\ l.topmost \in Nat
  BY WindowFacts, MaxBinIdNat DEF Log, BinIds
<1>6. \A i \in 0 .. N : Turned(after[i], i, l, S)
  <2> DEFINE bad == {i \in 0 .. N : ~Turned(after[i], i, l, S)}
  <2> SUFFICES ASSUME bad # {} PROVE FALSE
    OBVIOUS
  <2>1. bad \in SUBSET Nat
    BY <1>1
  <2>2. PICK i \in bad : \A y \in bad : i <= y
    BY <2>1, LeastExists
  <2>3. i \in 0 .. N /\ ~Turned(after[i], i, l, S)
    BY <2>2
  <2>4. i # 0
    <3>1. after[0] = [new |-> l.interval, entries |-> l.entries]
      BY <1>1, <1>4
    <3>2. after[0].new = l.interval /\ after[0].entries = l.entries
      BY <3>1
    <3>3. l.entries = [b \in DOMAIN l.entries |-> l.entries[b]]
      BY WindowFacts DEF Log
    <3>4. \A b \in DOMAIN l.entries : 0 <= b
      BY <1>5
    <3>5. Turned(after[0], 0, l, S)
      BY <1>5, <3>2, <3>3, <3>4 DEF Turned
    <3> QED
      BY <2>3, <3>5
  <2>5. i - 1 \in 0 .. N /\ ~(i <= i - 1) /\ i - 1 \in Nat /\ (i - 1) + 1 = i
    BY <1>1, <2>3, <2>4
  <2>6. Turned(after[i - 1], i - 1, l, S)
    BY <2>2, <2>5
  <2>7. after[i] = LoopTurn(after[i - 1], S)
    BY <1>4, <2>3, <2>4
  <2>8. Turned(LoopTurn(after[i - 1], S), (i - 1) + 1, l, S)
    BY <2>5, <2>6, TurnKeeps
  <2> QED
    BY <2>3, <2>5, <2>7, <2>8
<1>7. Turned(last, N, l, S)
  BY <1>1, <1>6
<1> HIDE DEF last
<1>8. /\ D \subseteq DOMAIN l.entries
      /\ last.entries = [b \in D |-> l.entries[b]]
      /\ \A x \in DOMAIN l.entries : x \notin D => l.entries[x] \in S /\ \A b \in D : x < b
      /\ last.new \in Nat /\ \A b \in D : last.new < b
  BY <1>7 DEF Turned
<1>9. CASE D = {}
  <2>1. stop = {}
    BY <1>8, <1>9 DEF Stops
  <2>2. last.entries = EmptyWindow
    BY <1>8, <1>9 DEF EmptyWindow
  <2>3. Advance(l, S) = [l EXCEPT !.interval = BinIdMax(@, l.topmost), !.entries = EmptyWindow]
    BY <2>1 DEF Advance
  <2>4. new = l.topmost
    BY <1>9
  <2> HIDE DEF new
  <2> QED
    BY <1>3, <2>2, <2>3, <2>4
<1>10. CASE D # {}
  <2> DEFINE b == Least(D)
             f == Least(stop)
  <2>1. D \in SUBSET Nat /\ DOMAIN l.entries \in SUBSET Nat
    BY <1>5, <1>8
  <2>2. b \in D /\ \A x \in D : b <= x
    <3> HIDE DEF D
    <3> QED
      BY <1>10, <2>1, LeastExists
  <2>3. l.entries[b] \notin S
    <3>1. ~ \A x \in D : N <= x
      BY <1>5, <1>8, <2>2, MaxBinIdNat DEF N
    <3> QED
      BY <1>7, <3>1 DEF Turned
  <2> HIDE DEF D, b
  <2>4. b \in stop /\ stop \subseteq D /\ stop \in SUBSET Nat
    BY <1>8, <2>1, <2>2, <2>3 DEF Stops
  <2>5. f \in stop /\ \A x \in stop : f <= x
    <3> HIDE DEF stop
    <3> QED
      BY <2>4, LeastExists
  <2>6. f = b /\ b \in Nat
    <3> HIDE DEF f, stop
    <3> QED
      BY <2>1, <2>2, <2>4, <2>5
  <2>7. {x \in DOMAIN l.entries : x >= b} = D
    BY <1>8, <2>1, <2>2, <2>6
  <2>8. BinIdMax(last.new, b - 1) = b - 1
    <3>1. last.new < b /\ last.new \in Nat
      BY <1>8, <2>2
    <3> QED
      BY <2>6, <3>1 DEF BinIdMax
  <2>9. new = BinIdMin(b - 1, l.topmost)
    BY <1>10, <2>8 DEF b
  <2>10. Advance(l, S) = [l EXCEPT !.interval = BinIdMax(@, BinIdMin(b - 1, l.topmost)),
                                   !.entries = [x \in D |-> l.entries[x]]]
    <3>1. stop # {}
      BY <2>4
    <3>2. Advance(l, S) =
            [l EXCEPT !.interval = BinIdMax(@, BinIdMin(f - 1, l.topmost)),
                      !.entries = [x \in {x \in DOMAIN l.entries : x >= f} |-> l.entries[x]]]
      BY <3>1, Zenon DEF Advance
    <3> HIDE DEF f
    <3> QED
      BY <2>6, <2>7, <3>2
  <2> HIDE DEF new
  <2> QED
    BY <1>3, <1>8, <2>9, <2>10
<1> QED
  BY <1>9, <1>10

\* The loop of PeerBinLog::advance, turn by turn, computes its closed form, in every
\* state that any sequence of calls reaches.
THEOREM AdvanceIsItsLoop == Spec => []AdvanceIsLoop
<1>1. IInv => AdvanceIsLoop
  BY LoopResult DEF IInv, TypeOK, WindowAbove, AdvanceIsLoop
<1> QED
  BY <1>1, Inductive, PTL
=============================================================================
