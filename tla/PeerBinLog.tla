----------------------------- MODULE PeerBinLog -----------------------------
(***************************************************************************)
(* crates/settlement/src/lib.rs as a data type: the resume state of one    *)
(* (peer, bin).  A log is a record of the interval high-water, the highest *)
(* BinID the peer's offers have covered, and the window of offered entries,*)
(* a function from some BinIDs to triples (the code's BTreeMap).           *)
(***************************************************************************)
EXTENDS Integers, FiniteSets

CONSTANTS
  Triples,    \* chunk identities
  MaxBinId    \* the largest BinID, u64::MAX in the code

ASSUME MaxBinIdNat == MaxBinId \in Nat

BinIds == 0 .. MaxBinId

Window == UNION {[D -> Triples] : D \in SUBSET BinIds}

Log == [interval : BinIds, topmost : BinIds, entries : Window]

EmptyWindow == [b \in {} |-> b]

Resume(interval) ==
  [interval |-> interval, topmost |-> interval, entries |-> EmptyWindow]

NewLog == Resume(0)

\* The u64 addition, as a release build wraps it.
NextStart(log) == (log.interval + 1) % (MaxBinId + 1)

BinIdMax(a, b) == IF a >= b THEN a ELSE b

BinIdMin(a, b) == IF a <= b THEN a ELSE b

\* Inserting replaces the triple a re-offered BinID had before.
Observe(log, b, c) ==
  [log EXCEPT
     !.entries = IF b > log.interval
                 THEN [x \in DOMAIN @ \cup {b} |-> IF x = b THEN c ELSE @[x]]
                 ELSE @,
     !.topmost = BinIdMax(@, b)]

\* The loop of Observe over the entries of one offer, a function from BinIDs to
\* triples.
ObserveAll(log, refs) ==
  LET news == {b \in DOMAIN refs : b > log.interval}
  IN [log EXCEPT
        !.entries = [b \in DOMAIN @ \cup news |-> IF b \in news THEN refs[b] ELSE @[b]],
        !.topmost = CHOOSE t \in {@} \cup DOMAIN refs : \A b \in {@} \cup DOMAIN refs : b <= t]

\* Mutant of Cover: the last range wins.
CoverLast(log, topmost) == [log EXCEPT !.topmost = topmost]

Cover(log, topmost) == [log EXCEPT !.topmost = BinIdMax(@, topmost)]

ForgetEntry(log, b) ==
  [log EXCEPT !.entries = [x \in DOMAIN @ \ {b} |-> @[x]]]

\* Where the loop of advance stops: the entries of the window, which is what
\* unsettled() yields, that the predicate does not accept.
Stops(log, settled) == {b \in DOMAIN log.entries : log.entries[b] \notin settled}

Least(S) == CHOOSE b \in S : \A x \in S : b <= x

\* Mutants of Advance: the cap is the unsettled entry itself; the window is
\* emptied past it; an emptied window settles no further than its last entry.
AdvanceOntoFirst(log, settled) ==
  LET stop == Stops(log, settled)
  IN IF stop = {}
     THEN [log EXCEPT !.interval = BinIdMax(@, log.topmost), !.entries = EmptyWindow]
     ELSE [log EXCEPT !.interval = BinIdMax(@, Least(stop)),
                      !.entries = [b \in {x \in DOMAIN @ : x >= Least(stop)} |-> @[b]]]

AdvanceDrains(log, settled) ==
  LET stop == Stops(log, settled)
  IN IF stop = {}
     THEN [log EXCEPT !.interval = BinIdMax(@, log.topmost), !.entries = EmptyWindow]
     ELSE [log EXCEPT !.interval = BinIdMax(@, Least(stop) - 1), !.entries = EmptyWindow]

AdvanceShort(log, settled) ==
  LET stop == Stops(log, settled)
      passed == {b \in DOMAIN log.entries : \A s \in stop : b < s}
  IN [log EXCEPT
        !.interval = IF passed = {} THEN @
                     ELSE BinIdMax(@, CHOOSE b \in passed : \A x \in passed : x <= b),
        !.entries = [b \in DOMAIN @ \ passed |-> @[b]]]

\* The loop takes settled entries off the front of the window and stops at the
\* first unsettled one, which caps the advance just below it; when it empties
\* the window everything covered settles.  "settled" is the set of triples the
\* caller's predicate accepts.
Advance(log, settled) ==
  LET stop == Stops(log, settled)
  IN IF stop = {}
     THEN [log EXCEPT !.interval = BinIdMax(@, log.topmost), !.entries = EmptyWindow]
     ELSE LET first == Least(stop)
              kept == {b \in DOMAIN log.entries : b >= first}
              new == BinIdMin(first - 1, log.topmost)
          IN [log EXCEPT !.interval = BinIdMax(@, new),
                         !.entries = [b \in kept |-> @[b]]]

\* One turn of the code's loop: the first entry leaves the window if it is settled.
LoopTurn(s, settled) ==
  LET b == Least(DOMAIN s.entries)
  IN IF DOMAIN s.entries = {} \/ s.entries[b] \notin settled THEN s
     ELSE [new |-> b, entries |-> [x \in DOMAIN s.entries \ {b} |-> s.entries[x]]]

\* advance as the code has it, turn by turn: no window has more entries than turns.
AdvanceLoop(log, settled) ==
  LET after[i \in 0 .. MaxBinId + 1] ==
        IF i = 0 THEN [new |-> log.interval, entries |-> log.entries]
        ELSE LoopTurn(after[i - 1], settled)
      last == after[MaxBinId + 1]
      new == IF DOMAIN last.entries = {} THEN log.topmost
             ELSE BinIdMin(BinIdMax(last.new, Least(DOMAIN last.entries) - 1), log.topmost)
  IN [log EXCEPT !.interval = BinIdMax(@, new), !.entries = last.entries]

\* advance returns a new high-water only when it moved.
Advanced(log, settled) == Advance(log, settled).interval > log.interval
=============================================================================
