----------------------------- MODULE Settlement -----------------------------
(***************************************************************************)
(* One PeerBinLog under every sequence of calls: offers name entries and   *)
(* cover ranges, the offer-diff drops entries, triples settle elsewhere,   *)
(* and the round advances the interval.                                    *)
(*                                                                         *)
(* The peer numbers its entries for good: BinID b stands for the triple    *)
(* numbering[b].  Observing another triple there would replace the one the *)
(* window owes, so everything below rests on this.                         *)
(***************************************************************************)
EXTENDS PeerBinLog

VARIABLES
  log,
  settled,      \* triples stored or rejected, by whichever peer
  numbering,    \* the peer's own log
  offered       \* history: obligations <<b, c>> taken on and not dropped by a diff

vars == <<log, settled, numbering, offered>>

Init ==
  /\ \E i \in BinIds : log = Resume(i)
  /\ settled = {}
  /\ numbering \in [BinIds -> Triples]
  /\ offered = {}

ObserveStep(b) ==
  /\ log' = Observe(log, b, numbering[b])
  /\ offered' = IF b > log.interval THEN offered \cup {<<b, numbering[b]>>} ELSE offered
  /\ UNCHANGED <<settled, numbering>>

CoverStep(topmost) ==
  /\ log' = Cover(log, topmost)
  /\ UNCHANGED <<settled, numbering, offered>>

ForgetEntryStep(b) ==
  /\ b \in DOMAIN log.entries
  /\ log' = ForgetEntry(log, b)
  /\ offered' = offered \ {<<b, log.entries[b]>>}
  /\ UNCHANGED <<settled, numbering>>

SettleStep(c) ==
  /\ settled' = settled \cup {c}
  /\ UNCHANGED <<log, numbering, offered>>

AdvanceStep ==
  /\ log' = Advance(log, settled)
  /\ UNCHANGED <<settled, numbering, offered>>

Next ==
  \/ \E b \in BinIds : ObserveStep(b)
  \/ \E b \in BinIds : CoverStep(b)
  \/ \E b \in BinIds : ForgetEntryStep(b)
  \/ \E c \in Triples : SettleStep(c)
  \/ AdvanceStep

Spec == Init /\ [][Next]_vars

-----------------------------------------------------------------------------
(* Properties.                                                             *)

\* The log is well formed and the history is made of obligations.
TypeOK ==
  /\ log \in Log
  /\ settled \subseteq Triples
  /\ numbering \in [BinIds -> Triples]
  /\ offered \subseteq BinIds \X Triples

\* The window lies strictly above the interval and inside the covered range.
WindowAbove ==
  /\ log.interval <= log.topmost
  /\ \A b \in DOMAIN log.entries : log.interval < b /\ b <= log.topmost

\* NoDrop, settle before you forget: the interval covers an offered entry only
\* once its triple is stored or rejected.
NoDrop == \A e \in offered : e[1] <= log.interval => e[2] \in settled

\* Every obligation above the interval is still in the window.
WindowComplete ==
  \A e \in offered :
    e[1] > log.interval => e[1] \in DOMAIN log.entries /\ log.entries[e[1]] = e[2]

\* An obligation is what the peer numbers so.
NumberingKept ==
  \A e \in offered : e[2] = numbering[e[1]]

\* The inductive invariant behind NoDrop.
IInv == TypeOK /\ WindowAbove /\ NoDrop /\ WindowComplete /\ NumberingKept

\* Monotone: no call ever moves the interval or the coverage back.
Monotone ==
  [][log.interval <= log'.interval /\ log.topmost <= log'.topmost]_vars

\* advance goes as far as its comment says: to the largest x up to topmost with
\* every offered entry at or below x settled.
LargestSettled(x) ==
  /\ log.interval <= x /\ x <= log.topmost
  /\ \A b \in DOMAIN log.entries : b <= x => log.entries[b] \in settled

AdvanceComplete ==
  LET x == Advance(log, settled).interval
  IN LargestSettled(x) /\ \A y \in BinIds : LargestSettled(y) => y <= x

\* The closed form of advance, which everything else uses, computes what the loop
\* computes, on every reachable log.
AdvanceIsLoop == Advance(log, settled) = AdvanceLoop(log, settled)
=============================================================================
