---------------------------- MODULE PullNetProofs ----------------------------
(***************************************************************************)
(* The node among its neighbours, for every neighbourhood, every order of  *)
(* delivery and every number of faults, departures and refreshes.          *)
(***************************************************************************)
EXTENDS PullNet, NodeProofs

-----------------------------------------------------------------------------
(* Bags.                                                                   *)

\* Dispatching a set of messages adds one copy of each.
LEMMA BagAdd ==
  ASSUME NEW b, IsABag(b), NEW S
  PROVE  /\ IsABag(b (+) SetToBag(S))
         /\ DOMAIN (b (+) SetToBag(S)) = DOMAIN b \cup S
         /\ \A e : CopiesOf(e, b (+) SetToBag(S)) = CopiesOf(e, b) + IF e \in S THEN 1 ELSE 0
<1>1. SetToBag(S) = [x \in S |-> 1]
  BY DEF SetToBag
<1>2. IsABag(b (+) SetToBag(S)) /\ DOMAIN (b (+) SetToBag(S)) = DOMAIN b \cup S
  BY <1>1 DEF (+), IsABag
<1>3. ASSUME NEW e
      PROVE  CopiesOf(e, b (+) SetToBag(S)) = CopiesOf(e, b) + IF e \in S THEN 1 ELSE 0
  BY <1>1, <1>2 DEF (+), IsABag, CopiesOf, BagIn, BagToSet
<1> QED
  BY <1>2, <1>3

\* Consuming a message takes one copy of it away.
LEMMA BagTake ==
  ASSUME NEW b, IsABag(b), NEW x \in DOMAIN b
  PROVE  /\ IsABag(b (-) Event(x))
         /\ DOMAIN (b (-) Event(x)) \subseteq DOMAIN b
         /\ DOMAIN b \ {x} \subseteq DOMAIN (b (-) Event(x))
         /\ \A e : CopiesOf(e, b (-) Event(x)) = CopiesOf(e, b) - IF e = x THEN 1 ELSE 0
<1>1. Event(x) = [y \in {x} |-> 1]
  BY DEF Event, SetToBag
<1>2. IsABag(b (-) Event(x)) /\ DOMAIN (b (-) Event(x)) \subseteq DOMAIN b
  BY <1>1 DEF (-), IsABag
<1>3. DOMAIN b \ {x} \subseteq DOMAIN (b (-) Event(x))
  BY <1>1 DEF (-), IsABag
<1>4. ASSUME NEW e
      PROVE  CopiesOf(e, b (-) Event(x)) = CopiesOf(e, b) - IF e = x THEN 1 ELSE 0
  BY <1>1, <1>2 DEF (-), IsABag, CopiesOf, BagIn, BagToSet
<1> QED
  BY <1>2, <1>3, <1>4

-----------------------------------------------------------------------------
(* Messages.                                                               *)

Requests ==
  [op : {"cursors"}, peer : Peers]
  \cup [op : {"offer"}, peer : Peers, bin : Bins, start : BinIds]
  \cup [op : {"fetch"}, peer : Peers, bin : Bins, want : SUBSET Chunks]

Answers ==
  [op : {"cursors"}, peer : Peers, heads : [Bins -> BinIds]]
  \cup [op : {"offer"}, key : Keys, start : BinIds, refs : Window, topmost : BinIds]
  \cup [op : {"fetch"}, peer : Peers, outcomes : Partial(Chunks, Outcomes)]

\* The (peer, bin) a request is for.
At(r) == <<r.peer, r.bin>>

\* What the node sends is typed, and an offer asks from where its log stands.
EffectsOK(s, fx) ==
  \A e \in fx : e.op # "settled" =>
    /\ e \in Requests
    /\ e.op = "offer" => At(e) \in DOMAIN s.logs /\ e.start = NextStart(s.logs[At(e)])

\* The forms of the node's effects.
LEMMA EffectForms ==
  /\ \A k \in Keys : k = <<k[1], k[2]>> /\ k[1] \in Peers /\ k[2] \in Bins
  /\ \A k, start : /\ Offer(k, start).op = "offer" /\ Offer(k, start).start = start
                   /\ At(Offer(k, start)) = <<k[1], k[2]>>
                   /\ Offer(k, start).peer = k[1] /\ Offer(k, start).bin = k[2]
  /\ \A k, want : /\ Fetch(k, want).op = "fetch" /\ Fetch(k, want).want = want
                  /\ Fetch(k, want).peer = k[1] /\ Fetch(k, want).bin = k[2]
  /\ \A k, upto : SettledFx(k, upto).op = "settled"
  /\ \A p : GetCursors(p).op = "cursors" /\ GetCursors(p).peer = p
  /\ \A k \in Keys : \A start \in BinIds : Offer(k, start) \in Requests
  /\ \A k \in Keys : \A want \in SUBSET Chunks : Fetch(k, want) \in Requests
  /\ \A p \in Peers : GetCursors(p) \in Requests
<1>1. \A k \in Keys : k = <<k[1], k[2]>> /\ k[1] \in Peers /\ k[2] \in Bins
  BY DEF Keys
<1>2. /\ \A k, start : /\ Offer(k, start).op = "offer" /\ Offer(k, start).start = start
                       /\ At(Offer(k, start)) = <<k[1], k[2]>>
                       /\ Offer(k, start).peer = k[1] /\ Offer(k, start).bin = k[2]
      /\ \A k, want : /\ Fetch(k, want).op = "fetch" /\ Fetch(k, want).want = want
                      /\ Fetch(k, want).peer = k[1] /\ Fetch(k, want).bin = k[2]
      /\ \A k, upto : SettledFx(k, upto).op = "settled"
      /\ \A p : GetCursors(p).op = "cursors" /\ GetCursors(p).peer = p
  BY DEF Offer, At, Fetch, SettledFx, GetCursors
<1>3. \A k \in Keys : \A start \in BinIds : Offer(k, start) \in Requests
  BY <1>1 DEF Offer, Requests
<1>4. \A k \in Keys : \A want \in SUBSET Chunks : Fetch(k, want) \in Requests
  BY <1>1 DEF Fetch, Requests
<1>5. \A p \in Peers : GetCursors(p) \in Requests
  BY DEF GetCursors, Requests
<1> QED
  BY <1>1, <1>2, <1>3, <1>4, <1>5

\* The offers of newly set flags.
LEMMA OfferFxOK ==
  ASSUME NEW n, NEW s, NodeOK(s), s.offer_open \ n.offer_open \subseteq DOMAIN s.logs
  PROVE  EffectsOK(s, OfferFx(n, s))
<1> SUFFICES ASSUME NEW k \in s.offer_open \ n.offer_open
             PROVE  LET e == Offer(k, NextStart(s.logs[k]))
                    IN /\ e \in Requests
                       /\ At(e) \in DOMAIN s.logs
                       /\ e.start = NextStart(s.logs[At(e)])
  BY DEF EffectsOK, OfferFx
<1>1. k \in DOMAIN s.logs /\ k \in Keys /\ Sound(s.logs[k])
  BY NodeParts DEF NodeOK
<1>2. NextStart(s.logs[k]) \in BinIds
  BY <1>1, NextStartSound
<1> QED
  BY <1>1, <1>2, EffectForms

\* The effects of a round.
LEMMA RoundEffects ==
  ASSUME NEW n, NodeOK(n), NEW s, s = Round(n).node
  PROVE  EffectsOK(s, Round(n).fx)
<1>1. Rounded(n, s) /\ Round(n).fx = RoundFx(n, s)
  BY RoundFacts
<1>2. NodeOK(s)
  BY <1>1 DEF Rounded
<1>3. EffectsOK(s, OfferFx(n, s))
  BY <1>2, RoundOffers, OfferFxOK
<1>4. OfferFx(n, s) = {Offer(k, NextStart(s.logs[k])) : k \in Reopened(n, s)}
  <2> DEFINE Sent(o) == {Offer(k, NextStart(s.logs[k])) : k \in o}
  <2>1. OfferFx(n, s) = Sent(s.offer_open \ n.offer_open)
    BY DEF OfferFx
  <2> HIDE DEF Sent
  <2>2. OfferFx(n, s) = Sent(Reopened(n, s))
    BY <2>1, RoundOffers
  <2> QED
    BY <2>2 DEF Sent
<1>5. ASSUME NEW e \in RoundFx(n, s), e.op # "settled"
      PROVE  e \in OfferFx(n, s) \/ (e \in Requests /\ e.op = "fetch")
  <2>1. CASE e \in {SettledFx(k, s.logs[k].interval) :
                      k \in {l \in DOMAIN s.logs : Advanced(n.logs[l], Done(n))}}
    BY <1>5, <2>1, EffectForms
  <2>2. CASE e \in {Offer(k, NextStart(s.logs[k])) : k \in Reopened(n, s)}
    BY <1>4, <2>2
  <2>3. CASE e \in {Fetch(k, Committed(n, s, k[1], k[2])) :
                      k \in {l \in Keys : Committed(n, s, l[1], l[2]) # {}}}
    <3>1. PICK k \in Keys : e = Fetch(k, Committed(n, s, k[1], k[2]))
      BY <2>3
    <3>2. Committed(n, s, k[1], k[2]) \in SUBSET Chunks
      BY DEF Committed
    <3> QED
      BY <3>1, <3>2, EffectForms
  <2> QED
    BY <2>1, <2>2, <2>3 DEF RoundFx
<1> QED
  BY <1>1, <1>3, <1>5 DEF EffectsOK

-----------------------------------------------------------------------------
(* Settlement.  R and H are the reserve and the last BinID of one peer's   *)
(* bin.                                                                    *)

\* What the node owes to one log: everything the peer stores in the covered range
\* is settled here or waits in the window under its own BinID.
Owes(n, k, R, h) ==
  /\ n.logs[k].topmost <= h
  /\ \A b \in DOMAIN R : b <= n.logs[k].topmost =>
       \/ R[b] \in Done(n)
       \/ b \in DOMAIN n.logs[k].entries /\ n.logs[k].entries[b] = R[b]

\* An offer in flight skips nothing that is still owed.
Asked(n, start, R, h) ==
  /\ start <= h + 1
  /\ \A b \in DOMAIN R : b < start => R[b] \in Done(n)

\* The range an answer makes its log cover: up to its Topmost, its start or the
\* last entry it names, whichever is highest.  Topmost alone may be understated.
Spans(e, b) ==
  e.start <= b /\ (b <= e.start \/ b <= e.topmost \/ \E x \in DOMAIN e.refs : b <= x)

\* Nor does its answer, which names all the peer stores in its range.
Answered(n, e, R, h) ==
  /\ e.start <= h /\ e.topmost <= h
  /\ \A b \in DOMAIN e.refs : e.start <= b /\ b <= h
  /\ \A b \in DOMAIN R :
       /\ b < e.start => R[b] \in Done(n)
       /\ Spans(e, b) => b \in DOMAIN e.refs /\ e.refs[b] = R[b]

\* A peer's reserve: numbered from 1 to the last BinID given out.
Reserve(R, h) == R \in Window /\ h \in BinIds /\ \A b \in DOMAIN R : 1 <= b /\ b <= h

LEMMA ReserveFacts ==
  ASSUME NEW R, NEW h, Reserve(R, h)
  PROVE  h \in Nat /\ \A b \in DOMAIN R : b \in Nat /\ b \in BinIds /\ R[b] \in Chunks
<1>1. R \in Window /\ h \in BinIds
  BY DEF Reserve
<1> QED
  BY <1>1, LogTypes

\* What is settled stays settled, so what was owed is still owed at most.
LEMMA OwesKept ==
  ASSUME NEW n, NEW s, Done(n) \subseteq Done(s), NEW k, s.logs[k] = n.logs[k],
         NEW R, NEW h, Owes(n, k, R, h)
  PROVE  Owes(s, k, R, h)
BY DEF Owes

LEMMA OwesNew ==
  ASSUME NEW s, NEW k, s.logs[k] = NewLog, NEW R, NEW h, Reserve(R, h)
  PROVE  Owes(s, k, R, h)
<1>1. NewLog.topmost = 0
  BY DEF NewLog, Resume
<1>2. h \in Nat /\ \A b \in DOMAIN R : b \in Nat /\ 1 <= b
  BY ReserveFacts DEF Reserve
<1>3. 0 <= h /\ \A b \in DOMAIN R : ~(b <= 0)
  BY <1>2
<1> QED
  BY <1>1, <1>3 DEF Owes

\* A round's advance passes settled entries only.
LEMMA OwesRound ==
  ASSUME NEW n, NodeOK(n), NEW s, Rounded(n, s), NEW k \in DOMAIN n.logs,
         NEW R, NEW h, Owes(n, k, R, h)
  PROVE  Owes(s, k, R, h)
<1> DEFINE l == n.logs[k]
           a == s.logs[k]
<1>1. a = Advance(l, Done(n)) /\ Sound(l)
  BY DEF Rounded, NodeOK
<1>2. Done(s) = Done(n)
  BY DEF Rounded, Done
<1> HIDE DEF l, a
<1>3. /\ a.topmost = l.topmost
      /\ DOMAIN a.entries \subseteq DOMAIN l.entries
      /\ \A b \in DOMAIN a.entries : a.entries[b] = l.entries[b]
      /\ \A b \in DOMAIN l.entries \ DOMAIN a.entries : l.entries[b] \in Done(n)
  BY <1>1, AdvanceSound
<1>4. /\ l.topmost <= h
      /\ \A b \in DOMAIN R : b <= l.topmost =>
           R[b] \in Done(n) \/ (b \in DOMAIN l.entries /\ l.entries[b] = R[b])
  BY DEF Owes, l
<1>5. /\ a.topmost <= h
      /\ \A b \in DOMAIN R : b <= a.topmost =>
           R[b] \in Done(s) \/ (b \in DOMAIN a.entries /\ a.entries[b] = R[b])
  BY <1>2, <1>3, <1>4
<1> QED
  BY <1>5 DEF Owes, a

\* An offer from where the log stands skips settled BinIDs only.
LEMMA OwesAsked ==
  ASSUME NEW s, NEW k, Sound(s.logs[k]), NEW R, NEW h, Reserve(R, h), Owes(s, k, R, h)
  PROVE  Asked(s, NextStart(s.logs[k]), R, h)
<1> DEFINE l == s.logs[k]
           start == NextStart(l)
<1>1. start \in BinIds /\ start <= l.interval + 1
  BY NextStartSound
<1>2. /\ l.topmost <= h
      /\ \A b \in DOMAIN R : b <= l.topmost =>
           R[b] \in Done(s) \/ (b \in DOMAIN l.entries /\ l.entries[b] = R[b])
  BY DEF Owes
<1>3. /\ l.interval \in Nat /\ l.topmost \in Nat /\ l.interval <= l.topmost
      /\ \A b \in DOMAIN l.entries : b \in Nat /\ l.interval < b
  BY SoundFacts DEF Sound
<1>4. start \in Nat
  BY <1>1, LogTypes
<1> HIDE DEF l, start
<1>5. start <= h + 1
  BY <1>1, <1>2, <1>3, <1>4, ReserveFacts
<1>6. ASSUME NEW b \in DOMAIN R, b < start
      PROVE  R[b] \in Done(s)
  <2>1. b \in Nat
    BY ReserveFacts
  <2>2. b <= l.interval
    BY <1>1, <1>3, <1>4, <1>6, <2>1
  <2>3. b <= l.topmost /\ b \notin DOMAIN l.entries
    BY <1>3, <2>1, <2>2
  <2> QED
    BY <1>2, <2>3
<1> QED
  BY <1>5, <1>6 DEF Asked, start, l

\* An answer leaves its log owing what it owed, and the range it covers.
LEMMA OwesAnswer ==
  ASSUME NEW n, NodeOK(n), NEW k \in Keys, NEW e,
         e.start \in BinIds, e.refs \in Window, e.topmost \in BinIds,
         NEW R, NEW h, Reserve(R, h),
         k \in DOMAIN n.logs => Owes(n, k, R, h), Answered(n, e, R, h),
         NEW d, DiffedTo(n, d, k, e.start, e.refs, e.topmost),
         NEW s, IngestedTo(d, s, k, e.refs)
  PROVE  Owes(s, k, R, h)
<1> DEFINE old == LogOf(n, k)
           lost == Unnamed(old, e.start, e.refs, e.topmost)
           mid == d.logs[k]
           new == s.logs[k]
<1>1. Sound(old) /\ k \in DOMAIN d.logs /\ Sound(mid)
  BY NewLogSound DEF LogOf, NodeOK, DiffedTo
<1>2. /\ old.topmost <= h
      /\ \A b \in DOMAIN R : b <= old.topmost =>
           R[b] \in Done(n) \/ (b \in DOMAIN old.entries /\ old.entries[b] = R[b])
  <2>1. CASE k \in DOMAIN n.logs
    BY <2>1 DEF Owes, LogOf
  <2>2. CASE k \notin DOMAIN n.logs
    <3>1. old = NewLog
      BY <2>2 DEF LogOf
    <3>2. NewLog.topmost = 0
      BY DEF NewLog, Resume
    <3>3. h \in Nat /\ \A b \in DOMAIN R : b \in Nat /\ 1 <= b
      BY ReserveFacts DEF Reserve
    <3>4. 0 <= h /\ \A b \in DOMAIN R : ~(b <= 0)
      BY <3>3
    <3> QED
      BY <3>1, <3>2, <3>4
  <2> QED
    BY <2>1, <2>2
<1>3. Done(s) = Done(n)
  BY DEF DiffedTo, IngestedTo, Lost, Offered, Done
<1>4. /\ mid.interval = old.interval
      /\ mid.topmost \in {old.topmost, e.topmost, e.start}
      /\ DOMAIN mid.entries = DOMAIN old.entries \ lost
      /\ \A b \in DOMAIN old.entries \ lost : mid.entries[b] = old.entries[b]
  BY DEF DiffedTo
<1>5. new = ObserveAll(mid, e.refs)
  BY DEF IngestedTo
<1>6. lost = {b \in DOMAIN old.entries : b >= e.start /\ b <= e.topmost /\ b \notin DOMAIN e.refs}
  BY DEF Unnamed
<1> HIDE DEF old, lost, mid, new
<1> DEFINE news == {b \in DOMAIN e.refs : b > mid.interval}
<1>7. /\ new.interval = mid.interval
      /\ new.topmost \in {mid.topmost} \cup DOMAIN e.refs
      /\ DOMAIN new.entries = DOMAIN mid.entries \cup news
      /\ \A b \in news : new.entries[b] = e.refs[b]
      /\ \A b \in DOMAIN mid.entries \ news : new.entries[b] = mid.entries[b]
  BY <1>1, <1>5, ObserveSound
<1>8. /\ old.interval \in Nat /\ old.topmost \in Nat /\ old.interval <= old.topmost
      /\ e.start \in Nat /\ e.topmost \in Nat /\ h \in Nat
      /\ \A b \in DOMAIN e.refs : b \in Nat
      /\ \A b \in DOMAIN R : b \in Nat
      /\ \A b \in DOMAIN old.entries : b \in Nat /\ old.interval < b
  BY <1>1, SoundFacts, LogTypes, ReserveFacts DEF Sound
<1>9. /\ new.topmost <= h /\ new.topmost \in Nat
      /\ new.topmost \in {old.topmost, e.topmost, e.start} \cup DOMAIN e.refs
  <2>1. new.topmost \in {old.topmost, e.topmost, e.start} \cup DOMAIN e.refs
    BY <1>4, <1>7
  <2> QED
    BY <1>2, <1>8, <2>1 DEF Answered
<1>10. ASSUME NEW b \in DOMAIN R, b <= new.topmost, R[b] \notin Done(n)
       PROVE  b \in DOMAIN new.entries /\ new.entries[b] = R[b]
  <2>1. b \in Nat /\ ~(b < e.start)
    BY <1>8, <1>10 DEF Answered
  <2>2. CASE Spans(e, b)
    <3>1. b \in DOMAIN e.refs /\ e.refs[b] = R[b]
      BY <2>2 DEF Answered
    <3>2. b > old.interval
      <4> SUFFICES ASSUME b <= old.interval PROVE FALSE
        BY <1>8, <2>1
      <4>1. b <= old.topmost /\ b \notin DOMAIN old.entries
        BY <1>8, <2>1
      <4> QED
        BY <1>2, <1>10, <4>1
    <3>3. b \in news
      BY <1>4, <3>1, <3>2
    <3> HIDE DEF news
    <3> QED
      BY <1>7, <3>1, <3>3
  <2>3. CASE ~Spans(e, b)
    <3>0. ~(b <= e.start) /\ ~(b <= e.topmost) /\ \A x \in DOMAIN e.refs : ~(b <= x)
      BY <1>8, <2>1, <2>3 DEF Spans
    <3>1. b <= old.topmost
      BY <1>9, <1>10, <3>0
    <3>2. b \in DOMAIN old.entries /\ old.entries[b] = R[b]
      BY <1>2, <1>10, <3>1
    <3>3. b \notin lost /\ b \notin DOMAIN e.refs
      BY <1>6, <2>1, <3>0
    <3> QED
      BY <1>4, <1>7, <3>2, <3>3
  <2> QED
    BY <2>2, <2>3
<1>11. /\ new.topmost <= h
       /\ \A b \in DOMAIN R : b <= new.topmost =>
            R[b] \in Done(s) \/ (b \in DOMAIN new.entries /\ new.entries[b] = R[b])
  BY <1>3, <1>9, <1>10
<1> QED
  BY <1>11 DEF Owes, new

-----------------------------------------------------------------------------
(* The events of the node, for any reserves and BinID counters.            *)

World(n, res, hd) ==
  /\ NodeOK(n)
  /\ n.m.cfg = Cfg
  /\ \A k \in Keys : Reserve(res[k], hd[k])
  /\ \A k \in DOMAIN n.logs : Owes(n, k, res[k], hd[k])

\* An event keeps the node in step with the world, unsettles nothing and sends
\* only what it should.
Moved(n, s, fx, res, hd) ==
  World(s, res, hd) /\ Done(n) \subseteq Done(s) /\ EffectsOK(s, fx)

LEMMA MovedRound ==
  ASSUME NEW n, NEW res, NEW hd, World(n, res, hd)
  PROVE  Moved(n, Round(n).node, Round(n).fx, res, hd)
<1> DEFINE s == Round(n).node
<1>1. NodeOK(n)
  BY DEF World
<1>2. Rounded(n, s) /\ EffectsOK(s, Round(n).fx)
  BY <1>1, RoundFacts, RoundEffects
<1> HIDE DEF s
<1>3. /\ NodeOK(s) /\ s.m.cfg = n.m.cfg /\ Done(s) = Done(n)
      /\ DOMAIN s.logs = DOMAIN n.logs
  BY <1>2 DEF Rounded, Done
<1>4. \A k \in DOMAIN s.logs : Owes(s, k, res[k], hd[k])
  BY <1>1, <1>2, <1>3, OwesRound DEF World
<1>5. World(s, res, hd)
  BY <1>3, <1>4 DEF World
<1> QED
  BY <1>2, <1>3, <1>5 DEF Moved, s

\* What an arm does before its round and the round together.
LEMMA MovedOn ==
  ASSUME NEW n, NEW t, NEW res, NEW hd, World(t, res, hd), Done(n) \subseteq Done(t)
  PROVE  Moved(n, Round(t).node, Round(t).fx, res, hd)
BY MovedRound DEF Moved

LEMMA SeenMoved ==
  ASSUME NEW n, NEW res, NEW hd, World(n, res, hd), NEW p \in Peers
  PROVE  Moved(n, PeerSeen(n, p).node, PeerSeen(n, p).fx, res, hd)
<1>1. CASE p \in n.peers
  <2>1. PeerSeen(n, p).node = n /\ PeerSeen(n, p).fx = {}
    BY <1>1 DEF PeerSeen, Quiet
  <2> QED
    BY <2>1 DEF Moved, EffectsOK
<1>2. CASE p \notin n.peers
  <2> DEFINE s == [n EXCEPT !.peers = @ \cup {p}]
  <2>1. PeerSeen(n, p).node = s /\ PeerSeen(n, p).fx = {GetCursors(p)}
    BY <1>2 DEF PeerSeen
  <2>2. n \in NodeState
    BY DEF World, NodeOK
  <2>3. /\ s \in NodeState /\ s.m = n.m /\ s.logs = n.logs /\ s.bin_of = n.bin_of
    BY <2>2 DEF NodeState
  <2> HIDE DEF s
  <2>4. NodeOK(s)
    BY <2>3 DEF World, NodeOK
  <2>5. Done(s) = Done(n)
    BY <2>3 DEF Done
  <2>6. \A k \in DOMAIN s.logs : Owes(s, k, res[k], hd[k])
    BY <2>3, <2>5, OwesKept DEF World
  <2>7. EffectsOK(s, {GetCursors(p)})
    BY EffectForms DEF EffectsOK
  <2> QED
    BY <2>1, <2>3, <2>4, <2>5, <2>6, <2>7 DEF Moved, World
<1> QED
  BY <1>1, <1>2

LEMMA GoneMoved ==
  ASSUME NEW n, NEW res, NEW hd, World(n, res, hd), NEW p \in Peers
  PROVE  Moved(n, PeerGone(n, p).node, PeerGone(n, p).fx, res, hd)
<1> DEFINE t == Departed(n, p)
<1>1. NodeOK(n)
  BY DEF World
<1>2. /\ PeerGone(n, p) = Round(t)
      /\ NodeOK(t)
      /\ DOMAIN t.logs = {k \in DOMAIN n.logs : k[1] # p}
      /\ \A k \in DOMAIN t.logs : t.logs[k] = n.logs[k]
      /\ t.m.cfg = n.m.cfg /\ t.m.rejected = n.m.rejected /\ t.m.got = n.m.got
  BY <1>1, DepartedFacts
<1> HIDE DEF t
<1>3. Done(t) = Done(n)
  BY <1>2 DEF Done
<1>4. \A k \in DOMAIN t.logs : Owes(t, k, res[k], hd[k])
  BY <1>2, <1>3, OwesKept DEF World
<1>5. World(t, res, hd)
  BY <1>2, <1>4 DEF World
<1> QED
  BY <1>2, <1>3, <1>5, MovedOn

LEMMA TickMoved ==
  ASSUME NEW n, NEW res, NEW hd, World(n, res, hd)
  PROVE  Moved(n, Tick(n).node, Tick(n).fx, res, hd)
<1> DEFINE s == Tick(n).node
<1>1. NodeOK(n)
  BY DEF World
<1>2. /\ NodeOK(s) /\ s.m = n.m /\ s.logs = n.logs
      /\ s.offer_open \ n.offer_open \subseteq DOMAIN s.logs
      /\ Tick(n).fx = OfferFx(n, s)
  BY <1>1, TickFacts
<1> HIDE DEF s
<1>3. Done(s) = Done(n)
  BY <1>2 DEF Done
<1>4. \A k \in DOMAIN s.logs : Owes(s, k, res[k], hd[k])
  BY <1>2, <1>3, OwesKept DEF World
<1>5. EffectsOK(s, Tick(n).fx)
  BY <1>2, OfferFxOK
<1> QED
  BY <1>2, <1>3, <1>4, <1>5 DEF Moved, World, s

LEMMA CursorsMoved ==
  ASSUME NEW n, NEW res, NEW hd, World(n, res, hd), NEW p \in Peers,
         NEW reported \in [Bins -> BinIds]
  PROVE  Moved(n, CursorsResult(n, p, reported).node, CursorsResult(n, p, reported).fx, res, hd)
<1> DEFINE s == CursorsResult(n, p, reported).node
<1>1. NodeOK(n)
  BY DEF World
<1>2. /\ NodeOK(s) /\ s.m = n.m
      /\ \A k \in DOMAIN s.logs :
           s.logs[k] = IF k \in DOMAIN n.logs THEN n.logs[k] ELSE NewLog
      /\ s.offer_open \ n.offer_open \subseteq DOMAIN s.logs
      /\ CursorsResult(n, p, reported).fx = OfferFx(n, s)
  BY <1>1, AllHeads, CursorsFacts
<1> HIDE DEF s
<1>3. Done(s) = Done(n)
  BY <1>2 DEF Done
<1>4. ASSUME NEW k \in DOMAIN s.logs
      PROVE  Owes(s, k, res[k], hd[k])
  <2>1. CASE k \in DOMAIN n.logs
    BY <1>2, <1>3, <2>1, OwesKept DEF World
  <2>2. CASE k \notin DOMAIN n.logs
    <3>1. k \in Keys
      BY <1>2, NodeParts DEF NodeOK
    <3> QED
      BY <1>2, <2>2, <3>1, OwesNew DEF World
  <2> QED
    BY <2>1, <2>2
<1>5. EffectsOK(s, CursorsResult(n, p, reported).fx)
  BY <1>2, OfferFxOK
<1> QED
  BY <1>2, <1>3, <1>4, <1>5 DEF Moved, World, s

LEMMA OfferMoved ==
  ASSUME NEW n, NEW res, NEW hd, World(n, res, hd), NEW e, e.key \in Keys,
         e.start \in BinIds, e.refs \in Window, e.topmost \in BinIds,
         Answered(n, e, res[e.key], hd[e.key])
  PROVE  LET o == OfferResult(n, e.key, e.start, e.refs, e.topmost)
         IN Moved(n, o.node, o.fx, res, hd)
<1> DEFINE k == e.key
           d == Diffed(n, k, e.start, e.refs, e.topmost)
           t == Ingested(d, k, e.refs)
<1>1. NodeOK(n)
  BY DEF World
<1>2. DiffedTo(n, d, k, e.start, e.refs, e.topmost)
  BY <1>1, DiffedFacts
<1>3. NodeOK(d) /\ k \in DOMAIN d.logs
  BY <1>2 DEF DiffedTo
<1>4. IngestedTo(d, t, k, e.refs)
  BY <1>3, IngestedFacts
<1>5. OfferResult(n, e.key, e.start, e.refs, e.topmost) = Round(t)
  BY DEF OfferResult
<1> HIDE DEF d, t
<1>6. Owes(t, k, res[k], hd[k])
  BY <1>1, <1>2, <1>4, OwesAnswer DEF World
<1>7. /\ NodeOK(t) /\ t.m.cfg = n.m.cfg /\ Done(t) = Done(n)
      /\ DOMAIN t.logs = DOMAIN n.logs \cup {k}
      /\ \A l \in DOMAIN n.logs \ {k} : t.logs[l] = n.logs[l]
  BY <1>2, <1>4 DEF DiffedTo, IngestedTo, Lost, Offered, Done
<1>8. \A l \in DOMAIN t.logs : Owes(t, l, res[l], hd[l])
  BY <1>6, <1>7, OwesKept DEF World
<1>9. World(t, res, hd)
  BY <1>7, <1>8 DEF World
<1> QED
  BY <1>5, <1>7, <1>9, MovedOn

LEMMA FetchMoved ==
  ASSUME NEW n, NEW res, NEW hd, World(n, res, hd), NEW p \in Peers,
         NEW out \in Partial(Chunks, Outcomes)
  PROVE  Moved(n, FetchResult(n, p, out).node, FetchResult(n, p, out).fx, res, hd)
<1> DEFINE t == Fetched(n, p, out)
<1>1. NodeOK(n)
  BY DEF World
<1>2. /\ FetchResult(n, p, out) = Round(t)
      /\ NodeOK(t) /\ t.logs = n.logs
      /\ Reported(n.m, t.m, DOMAIN out, p, out)
  BY <1>1, FetchedFacts
<1> HIDE DEF t
<1>3. Done(n) \subseteq Done(t) /\ t.m.cfg = n.m.cfg
  BY <1>2 DEF Done, Reported
<1>4. \A k \in DOMAIN t.logs : Owes(t, k, res[k], hd[k])
  BY <1>2, <1>3, OwesKept DEF World
<1>5. World(t, res, hd)
  BY <1>2, <1>3, <1>4 DEF World
<1> QED
  BY <1>2, <1>3, <1>5, MovedOn

-----------------------------------------------------------------------------
(* The peers.                                                              *)

\* The greatest of some BinIDs.
LEMMA MaxBinIdOf ==
  ASSUME NEW S \in SUBSET BinIds, S # {}
  PROVE  Max(S) \in S /\ \A b \in S : b <= Max(S)
<1>1. \E t \in S : \A b \in S : b <= t
  BY GreatestExists
<1>2. \A b \in S : b \in Nat
  BY LogTypes
<1>3. \E t \in S : \A b \in S : t >= b
  BY <1>1, <1>2
<1>4. Max(S) \in S /\ \A b \in S : Max(S) >= b
  BY <1>3 DEF Max
<1> QED
  BY <1>2, <1>4

\* A reserve R with last BinID h that became S and g adds nothing to what is owed.
NoMoreOwed(n, R, h, S, g) ==
  /\ \A k : Owes(n, k, R, h) /\ Sound(n.logs[k]) => Owes(n, k, S, g)
  /\ \A start \in BinIds : Asked(n, start, R, h) => Asked(n, start, S, g)
  /\ \A e : /\ e.start \in BinIds /\ e.topmost \in BinIds /\ e.refs \in Window
            /\ Answered(n, e, R, h)
            => Answered(n, e, S, g)

\* An upload under the next BinID is past everything asked, answered or covered.
LEMMA Landed ==
  ASSUME NEW n, NEW R, NEW h, Reserve(R, h), h < MaxBinId, NEW c \in Chunks,
         NEW S, S = Put(R, h + 1, c)
  PROVE  Reserve(S, h + 1) /\ NoMoreOwed(n, R, h, S, h + 1)
<1>1. /\ DOMAIN S = DOMAIN R \cup {h + 1} /\ S[h + 1] = c
      /\ \A b \in DOMAIN R \ {h + 1} : S[b] = R[b]
      /\ S = [b \in DOMAIN S |-> S[b]]
  BY DEF Put
<1>2. h \in Nat /\ MaxBinId \in Nat /\ \A b \in DOMAIN R : b \in Nat /\ b <= h /\ R[b] \in Chunks
  BY ReserveFacts, LogTypes DEF Reserve
<1>3. \A b \in DOMAIN R : b # h + 1 /\ S[b] = R[b]
  BY <1>1, <1>2
<1>4. h + 1 \in BinIds
  BY <1>2 DEF BinIds
<1>5. Reserve(S, h + 1)
  <2>1. DOMAIN S \subseteq BinIds
    BY <1>1, <1>4, ReserveFacts
  <2>2. \A b \in DOMAIN S : S[b] \in Chunks
    BY <1>1, <1>2, <1>3
  <2>3. S \in Window
    BY <1>1, <2>1, <2>2, LogTypes
  <2>4. \A b \in DOMAIN R : 1 <= b /\ b <= h
    BY DEF Reserve
  <2>5. \A b \in DOMAIN S : 1 <= b /\ b <= h + 1
    BY <1>1, <1>2, <2>4
  <2> QED
    BY <1>4, <2>3, <2>5 DEF Reserve
<1>6. ASSUME NEW k, Owes(n, k, R, h), Sound(n.logs[k])
      PROVE  Owes(n, k, S, h + 1)
  <2>1. n.logs[k].topmost \in Nat /\ n.logs[k].topmost <= h
    BY <1>6, SoundFacts DEF Owes
  <2>2. n.logs[k].topmost <= h + 1 /\ ~(h + 1 <= n.logs[k].topmost)
    BY <1>2, <2>1
  <2> QED
    BY <1>1, <1>3, <1>6, <2>2 DEF Owes
<1>7. ASSUME NEW start \in BinIds, Asked(n, start, R, h)
      PROVE  Asked(n, start, S, h + 1)
  <2>1. start \in Nat /\ start <= h + 1
    BY <1>7, LogTypes DEF Asked
  <2>2. start <= (h + 1) + 1 /\ ~(h + 1 < start)
    BY <1>2, <2>1
  <2> QED
    BY <1>1, <1>3, <1>7, <2>2 DEF Asked
<1>8. ASSUME NEW e, e.start \in BinIds, e.topmost \in BinIds, e.refs \in Window,
             Answered(n, e, R, h)
      PROVE  Answered(n, e, S, h + 1)
  <2>1. /\ e.start \in Nat /\ e.topmost \in Nat /\ e.start <= h /\ e.topmost <= h
        /\ \A b \in DOMAIN e.refs : b \in Nat /\ e.start <= b /\ b <= h
    BY <1>8, LogTypes DEF Answered
  <2>2. /\ e.start <= h + 1 /\ e.topmost <= h + 1 /\ \A b \in DOMAIN e.refs : b <= h + 1
        /\ ~(h + 1 < e.start) /\ ~(h + 1 <= e.start) /\ ~(h + 1 <= e.topmost)
        /\ \A b \in DOMAIN e.refs : ~(h + 1 <= b)
    BY <1>2, <2>1
  <2>3. ~Spans(e, h + 1)
    BY <2>2 DEF Spans
  <2>4. /\ \A b \in DOMAIN R : /\ b < e.start => R[b] \in Done(n)
                               /\ Spans(e, b) => b \in DOMAIN e.refs /\ e.refs[b] = R[b]
        /\ \A b \in DOMAIN e.refs : e.start <= b
    BY <1>8 DEF Answered
  <2>5. \A b \in DOMAIN S : /\ b < e.start => S[b] \in Done(n)
                            /\ Spans(e, b) => b \in DOMAIN e.refs /\ e.refs[b] = S[b]
    BY <1>1, <1>3, <2>2, <2>3, <2>4
  <2> QED
    BY <2>2, <2>4, <2>5 DEF Answered
<1> QED
  BY <1>5, <1>6, <1>7, <1>8 DEF NoMoreOwed

\* An eviction leaves less to owe.
LEMMA Evicted ==
  ASSUME NEW n, NEW R, NEW h, Reserve(R, h), NEW b, NEW S, S = Without(R, {b})
  PROVE  Reserve(S, h) /\ NoMoreOwed(n, R, h, S, h)
<1>1. /\ DOMAIN S \subseteq DOMAIN R /\ \A x \in DOMAIN S : S[x] = R[x]
      /\ S = [x \in DOMAIN S |-> S[x]]
  BY DEF Without
<1>2. Reserve(S, h)
  <2>1. R \in Window /\ h \in BinIds /\ \A x \in DOMAIN R : 1 <= x /\ x <= h
    BY DEF Reserve
  <2>2. S \in Window
    <3>1. DOMAIN S \subseteq BinIds /\ \A x \in DOMAIN S : S[x] \in Chunks
      BY <1>1, ReserveFacts
    <3>2. S \in [DOMAIN S -> Chunks]
      BY <1>1, <3>1
    <3> QED
      BY <3>1, <3>2, LogTypes
  <2> QED
    BY <1>1, <2>1, <2>2 DEF Reserve
<1>3. \A k : Owes(n, k, R, h) => Owes(n, k, S, h)
  BY <1>1 DEF Owes
<1>4. \A start : Asked(n, start, R, h) => Asked(n, start, S, h)
  BY <1>1 DEF Asked
<1>5. \A e : Answered(n, e, R, h) => Answered(n, e, S, h)
  BY <1>1 DEF Answered
<1> QED
  BY <1>2, <1>3, <1>4, <1>5 DEF NoMoreOwed

\* Some entries agree with a reserve.
Agrees(w, R) == \A b \in DOMAIN w : b \in DOMAIN R /\ w[b] = R[b]

\* A page of a peer's reserve, and the answer that carries it.
Above(R, start) == {b \in DOMAIN R : b >= start}
PageOf(R, start) ==
  {b \in Above(R, start) : Cardinality({x \in Above(R, start) : x <= b}) <= Page}
PageAnswer(k, R, start, top) ==
  [op |-> "offer", key |-> k, start |-> start,
   refs |-> [b \in PageOf(R, start) |-> R[b]], topmost |-> top]

\* The highest Topmost an honest peer states for it.
TopOf(R, h, start) == IF PageOf(R, start) = {} THEN h ELSE Max(PageOf(R, start))

\* The bin has been numbered up to start, and top is no more than that.
Stated(R, h, start, top) == start <= h /\ top \in Nat /\ top <= TopOf(R, h, start)

\* The page is the whole of the reserve up to its last entry.
LEMMA PageFacts ==
  ASSUME NEW R, NEW h, Reserve(R, h), NEW start \in BinIds, Above(R, start) # {}
  PROVE  LET page == PageOf(R, start)
         IN /\ page \in SUBSET BinIds /\ page # {} /\ page \subseteq DOMAIN R
            /\ Max(page) \in page /\ start <= Max(page)
            /\ \A b \in page : start <= b /\ b <= Max(page)
            /\ \A b \in DOMAIN R : start <= b /\ b <= Max(page) => b \in page
<1> DEFINE range == Above(R, start)
           page == PageOf(R, start)
           Below(b) == {x \in range : x <= b}
<1>1. /\ range \in SUBSET BinIds /\ range \in SUBSET Nat /\ start \in Nat
      /\ range \subseteq DOMAIN R
      /\ \A b \in range : start <= b
      /\ \A b \in DOMAIN R : start <= b => b \in range
  BY ReserveFacts, LogTypes DEF Above
<1>2. page = {b \in range : Cardinality(Below(b)) <= Page}
  BY DEF PageOf
<1>3. Page \in Nat /\ 1 <= Page
  BY NetConstants
<1> HIDE DEF range, page
<1>4. IsFiniteSet(range)
  <2>1. IsFiniteSet(BinIds)
    BY LogTypes, FS_Interval DEF BinIds
  <2> QED
    BY <1>1, <2>1, FS_Subset
<1>5. ASSUME NEW b
      PROVE  IsFiniteSet(Below(b)) /\ Cardinality(Below(b)) \in Nat
  <2>1. Below(b) \in SUBSET range
    OBVIOUS
  <2> HIDE DEF Below
  <2> QED
    BY <1>4, <2>1, FS_Subset, FS_CardinalityType
<1>6. page # {}
  <2>1. range # {}
    BY DEF range
  <2>2. PICK a \in range : \A y \in range : a <= y
    BY <1>1, <2>1, LeastNat
  <2>3. \A x \in range : x <= a <=> x = a
    <3>1. \A x \in range : x \in Nat
      BY <1>1
    <3> QED
      BY <2>2, <3>1
  <2>4. Below(a) = {a}
    BY <2>2, <2>3
  <2>5. Cardinality(Below(a)) = 1
    BY <2>4, FS_Singleton
  <2> QED
    BY <1>2, <1>3, <2>2, <2>5
<1>7. page \in SUBSET BinIds /\ page \subseteq DOMAIN R
  BY <1>1, <1>2
<1>8. Max(page) \in page /\ \A b \in page : b <= Max(page)
  BY <1>6, <1>7, MaxBinIdOf
<1>9. \A b \in page : start <= b
  BY <1>1, <1>2
<1>10. ASSUME NEW b \in DOMAIN R, start <= b, b <= Max(page)
       PROVE  b \in page
  <2>1. b \in range /\ b \in Nat /\ Max(page) \in range /\ Max(page) \in Nat
    BY <1>1, <1>2, <1>8, <1>10
  <2>2. Below(b) \in SUBSET Below(Max(page))
    <3> DEFINE top == Max(page)
    <3>1. \A x \in range : x \in Nat
      BY <1>1
    <3>2. b <= top /\ top \in Nat
      BY <1>10, <2>1
    <3> HIDE DEF top
    <3>3. \A x \in range : x <= b => x <= top
      BY <2>1, <3>1, <3>2
    <3>4. Below(b) \in SUBSET Below(top)
      BY <3>3
    <3> QED
      BY <3>4 DEF top
  <2>3. Cardinality(Below(Max(page))) <= Page
    BY <1>2, <1>8
  <2> HIDE DEF Below
  <2>4. Cardinality(Below(b)) <= Cardinality(Below(Max(page)))
    BY <1>5, <2>2, FS_Subset
  <2>5. Cardinality(Below(b)) <= Page
    BY <1>3, <1>5, <2>3, <2>4
  <2> QED
    BY <1>2, <2>1, <2>5
<1> QED
  BY <1>6, <1>7, <1>8, <1>9, <1>10 DEF page

\* So the answer accounts for its range, even if its Topmost is understated.
LEMMA PageAnswers ==
  ASSUME NEW n, NEW k \in Keys, NEW R, NEW h, Reserve(R, h), NEW start \in BinIds,
         Asked(n, start, R, h), NEW top, Stated(R, h, start, top),
         NEW e, e = PageAnswer(k, R, start, top)
  PROVE  /\ e \in Answers /\ e.op = "offer" /\ e.key = k /\ Answered(n, e, R, h)
         /\ Agrees(e.refs, R)
<1> DEFINE page == PageOf(R, start)
           refs == [b \in page |-> R[b]]
<1>0. start <= h /\ top \in Nat /\ top <= TopOf(R, h, start)
  BY DEF Stated
<1>1. page \subseteq Above(R, start)
  BY DEF PageOf
<1>2. /\ h \in Nat /\ start \in Nat /\ h <= MaxBinId /\ MaxBinId \in Nat
      /\ \A b \in DOMAIN R : b \in Nat /\ b \in BinIds /\ b <= h
  BY ReserveFacts, LogTypes DEF Reserve, BinIds
<1>3. \A b \in page : b \in DOMAIN R /\ start <= b
  BY <1>1, <1>2 DEF Above
<1>4. /\ top \in Nat /\ top <= h
      /\ \A b \in DOMAIN R :
           start <= b /\ (b <= start \/ b <= top \/ \E x \in page : b <= x) => b \in page
  <2>1. CASE Above(R, start) = {}
    <3>1. page = {}
      BY <1>1, <2>1
    <3>2. TopOf(R, h, start) = h
      BY <3>1 DEF TopOf
    <3>3. \A b \in DOMAIN R : ~(start <= b)
      BY <1>2, <2>1 DEF Above
    <3> QED
      BY <1>0, <1>2, <3>2, <3>3
  <2>2. CASE Above(R, start) # {}
    <3> DEFINE high == Max(page)
    <3>1. /\ page # {} /\ high \in page /\ start <= high
          /\ \A b \in page : b <= high
          /\ \A b \in DOMAIN R : start <= b /\ b <= high => b \in page
      BY <2>2, PageFacts
    <3>2. TopOf(R, h, start) = high
      BY <3>1 DEF TopOf
    <3>3. high \in Nat /\ high <= h
      BY <1>2, <1>3, <3>1
    <3> HIDE DEF high, page
    <3>4. top \in Nat /\ top <= high /\ top <= h
      BY <1>0, <1>2, <3>2, <3>3
    <3>5. ASSUME NEW b \in DOMAIN R, start <= b,
                 b <= start \/ b <= top \/ \E x \in page : b <= x
          PROVE  b <= high
      <4>1. \A x \in page : x \in Nat
        BY <1>2, <1>3
      <4> QED
        BY <1>2, <3>1, <3>3, <3>4, <3>5, <4>1
    <3> QED
      BY <3>1, <3>4, <3>5
  <2> QED
    BY <2>1, <2>2
<1>5. e = [op |-> "offer", key |-> k, start |-> start, refs |-> refs, topmost |-> top]
  BY DEF PageAnswer
<1> HIDE DEF page
<1>6. DOMAIN refs = page /\ \A b \in page : refs[b] = R[b]
  OBVIOUS
<1>7. refs \in Window
  <2>1. page \in SUBSET BinIds /\ \A b \in page : R[b] \in Chunks
    BY <1>3, ReserveFacts
  <2>2. refs \in [page -> Chunks]
    BY <2>1
  <2> HIDE DEF refs
  <2> QED
    BY <1>6, <2>1, <2>2, LogTypes
<1>8. top \in BinIds
  BY <1>2, <1>4 DEF BinIds
<1> HIDE DEF refs
<1>9. e \in Answers /\ e.op = "offer" /\ e.key = k
  BY <1>5, <1>7, <1>8 DEF Answers
<1>10. e.start = start /\ e.topmost = top /\ e.refs = refs
  BY <1>5
<1>11. \A b \in DOMAIN R : b < start => R[b] \in Done(n)
  BY DEF Asked
<1>12. \A b \in DOMAIN e.refs : e.start <= b /\ b <= h
  BY <1>2, <1>3, <1>6, <1>10
<1>13. \A b \in DOMAIN R : Spans(e, b) => b \in DOMAIN e.refs /\ e.refs[b] = R[b]
  BY <1>4, <1>6, <1>10 DEF Spans
<1>14. Answered(n, e, R, h)
  BY <1>0, <1>4, <1>10, <1>11, <1>12, <1>13 DEF Answered
<1>15. Agrees(e.refs, R)
  BY <1>3, <1>6, <1>10 DEF Agrees
<1> QED
  BY <1>9, <1>14, <1>15

-----------------------------------------------------------------------------
(* What is in flight.                                                      *)

AllAsked(n, B, res, hd) ==
  /\ IsABag(B) /\ DOMAIN B \subseteq Requests
  /\ \A r \in DOMAIN B : r.op = "offer" => Asked(n, r.start, res[At(r)], hd[At(r)])

AllAnswered(n, B, res, hd) ==
  /\ IsABag(B) /\ DOMAIN B \subseteq Answers
  /\ \A e \in DOMAIN B : e.op = "offer" => Answered(n, e, res[e.key], hd[e.key])

\* A message's operation gives its form.
LEMMA RequestForms ==
  ASSUME NEW r \in Requests
  PROVE  /\ r.op \in {"cursors", "offer", "fetch"} /\ r.peer \in Peers
         /\ r.op = "offer" => r.start \in BinIds /\ r.bin \in Bins /\ At(r) \in Keys
         /\ r.op = "fetch" => r.want \in SUBSET Chunks /\ r.bin \in Bins
<1>1. CASE r \in [op : {"cursors"}, peer : Peers]
  BY <1>1
<1>2. CASE r \in [op : {"offer"}, peer : Peers, bin : Bins, start : BinIds]
  BY <1>2 DEF At, Keys
<1>3. CASE r \in [op : {"fetch"}, peer : Peers, bin : Bins, want : SUBSET Chunks]
  BY <1>3
<1> QED
  BY <1>1, <1>2, <1>3 DEF Requests

LEMMA AnswerForms ==
  ASSUME NEW e \in Answers
  PROVE  /\ e.op \in {"cursors", "offer", "fetch"}
         /\ e.op = "cursors" => e.peer \in Peers /\ e.heads \in [Bins -> BinIds]
         /\ e.op = "offer" => /\ e.key \in Keys /\ e.start \in BinIds
                              /\ e.refs \in Window /\ e.topmost \in BinIds
         /\ e.op = "fetch" => e.peer \in Peers /\ e.outcomes \in Partial(Chunks, Outcomes)
<1>1. CASE e \in [op : {"cursors"}, peer : Peers, heads : [Bins -> BinIds]]
  BY <1>1
<1>2. CASE e \in [op : {"offer"}, key : Keys, start : BinIds, refs : Window, topmost : BinIds]
  BY <1>2
<1>3. CASE e \in [op : {"fetch"}, peer : Peers, outcomes : Partial(Chunks, Outcomes)]
  BY <1>3
<1> QED
  BY <1>1, <1>2, <1>3 DEF Answers

\* Dispatching the effects of an event.
LEMMA Dispatched ==
  ASSUME NEW n, NEW s, NEW fx, NEW res, NEW hd, Moved(n, s, fx, res, hd),
         NEW B, AllAsked(n, B, res, hd)
  PROVE  AllAsked(s, AddFx(B, fx), res, hd)
<1> DEFINE net == NetFx(fx)
<1>1. IsABag(B) /\ AddFx(B, fx) = B (+) SetToBag(net)
  BY DEF AllAsked, AddFx
<1>2. \A e \in net : e \in fx /\ e.op # "settled"
  BY DEF NetFx
<1> HIDE DEF net
<1>3. IsABag(AddFx(B, fx)) /\ DOMAIN AddFx(B, fx) = DOMAIN B \cup net
  BY <1>1, BagAdd
<1>4. \A e \in net : e \in Requests
  BY <1>2 DEF Moved, EffectsOK
<1>5. ASSUME NEW r \in DOMAIN B, r.op = "offer"
      PROVE  Asked(s, r.start, res[At(r)], hd[At(r)])
  BY <1>5 DEF AllAsked, Asked, Moved
<1>6. ASSUME NEW r \in net, r.op = "offer"
      PROVE  Asked(s, r.start, res[At(r)], hd[At(r)])
  <2> DEFINE k == At(r)
  <2>1. k \in DOMAIN s.logs /\ r.start = NextStart(s.logs[k])
    BY <1>2, <1>6 DEF Moved, EffectsOK
  <2>2. k \in Keys
    BY <1>4, <1>6, RequestForms
  <2> HIDE DEF k
  <2>3. Sound(s.logs[k]) /\ Owes(s, k, res[k], hd[k]) /\ Reserve(res[k], hd[k])
    BY <2>1, <2>2 DEF Moved, World, NodeOK
  <2>4. Asked(s, NextStart(s.logs[k]), res[k], hd[k])
    BY <2>3, OwesAsked
  <2> QED
    BY <2>1, <2>4 DEF k
<1> QED
  BY <1>3, <1>4, <1>5, <1>6 DEF AllAsked

\* An event unsettles nothing, so what was answered stays so.
LEMMA StillAnswered ==
  ASSUME NEW n, NEW s, Done(n) \subseteq Done(s), NEW res, NEW hd,
         NEW B, AllAnswered(n, B, res, hd)
  PROVE  AllAnswered(s, B, res, hd)
BY DEF AllAnswered, Answered

LEMMA AskedTaken ==
  ASSUME NEW n, NEW res, NEW hd, NEW B, AllAsked(n, B, res, hd), NEW x \in DOMAIN B
  PROVE  AllAsked(n, B (-) Event(x), res, hd)
<1>1. IsABag(B (-) Event(x)) /\ DOMAIN (B (-) Event(x)) \subseteq DOMAIN B
  BY BagTake DEF AllAsked
<1> QED
  BY <1>1 DEF AllAsked

LEMMA AnsweredTaken ==
  ASSUME NEW n, NEW res, NEW hd, NEW B, AllAnswered(n, B, res, hd), NEW x \in DOMAIN B
  PROVE  AllAnswered(n, B (-) Event(x), res, hd)
<1>1. IsABag(B (-) Event(x)) /\ DOMAIN (B (-) Event(x)) \subseteq DOMAIN B
  BY BagTake DEF AllAnswered
<1> QED
  BY <1>1 DEF AllAnswered

LEMMA AnsweredPosted ==
  ASSUME NEW n, NEW res, NEW hd, NEW B, AllAnswered(n, B, res, hd), NEW e \in Answers,
         e.op = "offer" => Answered(n, e, res[e.key], hd[e.key])
  PROVE  AllAnswered(n, B (+) Event(e), res, hd)
<1>1. IsABag(B (+) Event(e)) /\ DOMAIN (B (+) Event(e)) = DOMAIN B \cup {e}
  BY BagAdd DEF AllAnswered, Event
<1> QED
  BY <1>1 DEF AllAnswered

\* f and g differ at most at k, where g is v.
ChangedAt(f, g, k, v) == g[k] = v /\ \A l \in Keys \ {k} : g[l] = f[l]

\* One peer's bin changes and nothing is owed that was not.
LEMMA BinChanged ==
  ASSUME NEW n, NEW res \in [Keys -> Window], NEW hd \in [Keys -> BinIds], World(n, res, hd),
         NEW Q, AllAsked(n, Q, res, hd), NEW P, AllAnswered(n, P, res, hd),
         NEW k \in Keys, NEW S, NEW h, Reserve(S, h), NoMoreOwed(n, res[k], hd[k], S, h),
         NEW res2, ChangedAt(res, res2, k, S), NEW hd2, ChangedAt(hd, hd2, k, h)
  PROVE  /\ World(n, res2, hd2) /\ AllAsked(n, Q, res2, hd2) /\ AllAnswered(n, P, res2, hd2)
<1>2. /\ res2[k] = S /\ hd2[k] = h
      /\ \A l \in Keys \ {k} : res2[l] = res[l] /\ hd2[l] = hd[l]
  BY DEF ChangedAt
<1>3. DOMAIN n.logs \subseteq Keys /\ \A l \in DOMAIN n.logs : Sound(n.logs[l])
  BY NodeParts DEF World, NodeOK
<1>4. \A l \in Keys : Reserve(res2[l], hd2[l])
  BY <1>2 DEF World
<1>5. ASSUME NEW l \in DOMAIN n.logs
      PROVE  Owes(n, l, res2[l], hd2[l])
  <2>1. Owes(n, l, res[l], hd[l]) /\ Sound(n.logs[l]) /\ l \in Keys
    BY <1>3 DEF World
  <2> QED
    BY <1>2, <2>1 DEF NoMoreOwed
<1>6. ASSUME NEW r \in DOMAIN Q, r.op = "offer"
      PROVE  Asked(n, r.start, res2[At(r)], hd2[At(r)])
  <2>1. At(r) \in Keys /\ r.start \in BinIds /\ Asked(n, r.start, res[At(r)], hd[At(r)])
    BY <1>6, RequestForms DEF AllAsked
  <2> QED
    BY <1>2, <2>1 DEF NoMoreOwed
<1>7. ASSUME NEW e \in DOMAIN P, e.op = "offer"
      PROVE  Answered(n, e, res2[e.key], hd2[e.key])
  <2>1. /\ e.key \in Keys /\ e.start \in BinIds /\ e.topmost \in BinIds
        /\ e.refs \in Window /\ Answered(n, e, res[e.key], hd[e.key])
    BY <1>7, AnswerForms DEF AllAnswered
  <2> QED
    BY <1>2, <2>1 DEF NoMoreOwed
<1>8. World(n, res2, hd2)
  BY <1>4, <1>5 DEF World
<1>9. AllAsked(n, Q, res2, hd2) /\ AllAnswered(n, P, res2, hd2)
  BY <1>6, <1>7 DEF AllAsked, AllAnswered
<1> QED
  BY <1>8, <1>9

-----------------------------------------------------------------------------
(* Settle before you forget.                                               *)

NetInv ==
  /\ reserve \in [Keys -> Window] /\ heads \in [Keys -> BinIds]
  /\ landing \subseteq Landing
  /\ World(node, reserve, heads)
  /\ AllAsked(node, reqs, reserve, heads)
  /\ AllAnswered(node, resps, reserve, heads)

LEMMA NewNodeOK == NodeOK(NewNode) /\ NewNode.m = New(Cfg) /\ DOMAIN NewNode.logs = {}
<1>1. New(Cfg) \in State /\ New(Cfg).arrived = {}
  BY NodeConstants DEF New, State, Nowhere
<1>2. NewNode.logs \in Partial(Keys, Log) /\ DOMAIN NewNode.logs = {}
  BY DEF NewNode, Partial
<1>3. NewNode.bin_of \in Partial(Chunks, Bins)
  <2>1. NewNode.bin_of = [c \in {} |-> 0] /\ {} \in SUBSET Chunks
    BY DEF NewNode
  <2>2. NewNode.bin_of \in [{} -> Bins]
    BY <2>1
  <2> QED
    BY <2>1, <2>2 DEF Partial
<1>4. /\ NewNode.m = New(Cfg) /\ NewNode.peers = {} /\ NewNode.offer_open = {}
      /\ NewNode.cursors \in [Keys -> BinIds] /\ NewNode.assigned \in [Peers -> Nat]
  BY LogTypes DEF NewNode
<1>5. NewNode = [m |-> NewNode.m, peers |-> NewNode.peers, cursors |-> NewNode.cursors,
                 logs |-> NewNode.logs, bin_of |-> NewNode.bin_of,
                 assigned |-> NewNode.assigned, offer_open |-> NewNode.offer_open]
  BY DEF NewNode
<1>6. NewNode \in NodeState
  BY <1>1, <1>2, <1>3, <1>4, <1>5 DEF NodeState
<1> QED
  BY <1>1, <1>2, <1>4, <1>6 DEF NodeOK

LEMMA NetInit == Init => NetInv
<1> SUFFICES ASSUME Init PROVE NetInv
  OBVIOUS
<1>1. /\ node = NewNode /\ reserve = Reserve0 /\ landing = Landing
      /\ reqs = EmptyBag /\ resps = EmptyBag
      /\ heads = [k \in Keys |-> Max({0} \cup DOMAIN Reserve0[k])]
  BY DEF Init
<1>2. ASSUME NEW k \in Keys
      PROVE  Reserve(reserve[k], heads[k])
  <2> DEFINE R == reserve[k]
             S == {0} \cup DOMAIN R
  <2>1. R \in Window /\ 0 \notin DOMAIN R
    BY <1>1, NetConstants
  <2>2. heads[k] = Max(S)
    BY <1>1
  <2> HIDE DEF R
  <2>3. DOMAIN R \subseteq BinIds
    BY <2>1, LogTypes
  <2>4. S \in SUBSET BinIds /\ S # {}
    BY <2>3, LogTypes
  <2>5. Max(S) \in S /\ \A b \in S : b <= Max(S)
    BY <2>4, MaxBinIdOf
  <2>6. \A b \in DOMAIN R : b \in Nat
    BY <2>3, LogTypes
  <2>7. \A b \in DOMAIN R : 1 <= b
    BY <2>1, <2>6
  <2>8. Reserve(R, Max(S))
    BY <2>1, <2>4, <2>5, <2>7 DEF Reserve
  <2> QED
    BY <2>2, <2>8 DEF R
<1>3. reserve \in [Keys -> Window]
  BY <1>1, NetConstants
<1>4. heads \in [Keys -> BinIds]
  <2>1. \A k \in Keys : heads[k] \in BinIds
    BY <1>2 DEF Reserve
  <2>2. heads = [k \in Keys |-> heads[k]]
    BY <1>1
  <2> QED
    BY <2>1, <2>2
<1>5. World(node, reserve, heads)
  <2>1. NewNode.m.cfg = Cfg
    BY NewNodeOK DEF New
  <2> QED
    BY <1>1, <1>2, <2>1, NewNodeOK DEF World
<1>6. IsABag(EmptyBag) /\ DOMAIN EmptyBag = {}
  BY DEF EmptyBag, SetToBag, IsABag
<1> QED
  BY <1>1, <1>3, <1>4, <1>5, <1>6 DEF NetInv, AllAsked, AllAnswered

\* An event of the node, fed to it: its effects join the requests.
LEMMA Fed ==
  ASSUME NetInv, NEW result, Moved(node, result.node, result.fx, reserve, heads),
         Feed(result, reqs), UNCHANGED stores, AllAnswered(node, resps', reserve, heads)
  PROVE  NetInv'
<1>1. /\ node' = result.node /\ reqs' = AddFx(reqs, result.fx)
      /\ reserve' = reserve /\ heads' = heads /\ landing' = landing
  BY DEF Feed, stores
<1>2. World(node', reserve, heads) /\ Done(node) \subseteq Done(node')
  BY <1>1 DEF Moved
<1>3. AllAsked(node', reqs', reserve, heads)
  BY <1>1, Dispatched DEF NetInv
<1>4. AllAnswered(node', resps', reserve, heads)
  BY <1>2, StillAnswered
<1> QED
  BY <1>1, <1>2, <1>3, <1>4 DEF NetInv

\* Neither of these touches the node or the reserves.
LEMMA Served ==
  ASSUME NetInv, NEW r \in DOMAIN reqs, NEW e \in Answers,
         e.op = "offer" => Answered(node, e, reserve[e.key], heads[e.key]),
         Answer(r, e), UNCHANGED <<node, stores>>
  PROVE  NetInv'
<1>1. /\ node' = node /\ reserve' = reserve /\ heads' = heads /\ landing' = landing
      /\ reqs' = reqs (-) Event(r) /\ resps' = resps (+) Event(e)
  BY DEF Answer, stores
<1>2. AllAsked(node, reqs', reserve, heads)
  BY <1>1, AskedTaken DEF NetInv
<1>3. AllAnswered(node, resps', reserve, heads)
  BY <1>1, AnsweredPosted DEF NetInv
<1> QED
  BY <1>1, <1>2, <1>3 DEF NetInv

\* What a peer reports of its wants.
LEMMA FetchAnswerForm ==
  ASSUME NEW r, r.peer \in Peers, r.want \in SUBSET Chunks, NEW failed
  PROVE  /\ FetchAnswer(r, failed) \in Answers /\ FetchAnswer(r, failed).op = "fetch"
         /\ FetchAnswer(r, failed).peer = r.peer
         /\ DOMAIN FetchAnswer(r, failed).outcomes = r.want
<1> DEFINE out == [c \in r.want |->
                     IF c \in failed \/ c \notin Stored(<<r.peer, r.bin>>) THEN "Missed"
                     ELSE IF c \in Bad THEN "Rejected" ELSE "Delivered"]
<1>1. out \in [r.want -> Outcomes] /\ DOMAIN out = r.want
  BY DEF Outcomes
<1>2. FetchAnswer(r, failed) = [op |-> "fetch", peer |-> r.peer, outcomes |-> out]
  BY DEF FetchAnswer
<1> HIDE DEF out
<1>3. out \in Partial(Chunks, Outcomes)
  BY <1>1 DEF Partial
<1> QED
  BY <1>1, <1>2, <1>3 DEF Answers

\* An offer that is served, with its Topmost or with a lower one.
LEMMA OfferServed ==
  ASSUME NetInv, NEW r \in DOMAIN reqs, ServeOffer(r) \/ UnderstateOffer(r)
  PROVE  /\ r \in Requests /\ r.op = "offer" /\ UNCHANGED <<node, stores>>
         /\ \E e \in Answers :
              /\ Answer(r, e) /\ e.op = "offer" /\ e.key = At(r)
              /\ Answered(node, e, reserve[e.key], heads[e.key])
              /\ Agrees(e.refs, reserve[e.key])
<1> DEFINE k == At(r)
           R == reserve[k]
           h == heads[k]
<1>1. /\ World(node, reserve, heads) /\ AllAsked(node, reqs, reserve, heads)
      /\ r \in Requests
  BY DEF NetInv, AllAsked
<1>2. r.op = "offer" /\ r.start <= h /\ UNCHANGED <<node, stores>>
  BY DEF ServeOffer, UnderstateOffer, OfferReady, At
<1>3. k \in Keys /\ r.start \in BinIds
  BY <1>1, <1>2, RequestForms
<1>4. Reserve(R, h) /\ Asked(node, r.start, R, h)
  BY <1>1, <1>2, <1>3 DEF World, AllAsked
<1>5. PageFrom(k, r.start) = PageOf(R, r.start)
  BY DEF PageFrom, PageOf, Above
<1>6. /\ Topmost(k, r.start) = TopOf(R, h, r.start)
      /\ \A top : OfferAnswer(k, r.start, top) = PageAnswer(k, R, r.start, top)
  BY <1>5 DEF Topmost, TopOf, OfferAnswer, PageAnswer
<1>7. TopOf(R, h, r.start) \in Nat
  <2>1. CASE PageOf(R, r.start) = {}
    BY <1>4, <2>1, ReserveFacts DEF TopOf
  <2>2. CASE PageOf(R, r.start) # {}
    <3>1. PageOf(R, r.start) \in SUBSET BinIds
      BY <1>4, ReserveFacts DEF PageOf, Above
    <3>2. Max(PageOf(R, r.start)) \in BinIds
      BY <2>2, <3>1, MaxBinIdOf
    <3> QED
      BY <2>2, <3>2, LogTypes DEF TopOf
  <2> QED
    BY <2>1, <2>2
<1>8. \E top \in Nat : top <= TopOf(R, h, r.start) /\ Answer(r, PageAnswer(k, R, r.start, top))
  <2>1. \/ Answer(r, OfferAnswer(k, r.start, Topmost(k, r.start)))
        \/ \E top \in 0 .. Topmost(k, r.start) - 1 : Answer(r, OfferAnswer(k, r.start, top))
    BY DEF ServeOffer, UnderstateOffer, At
  <2> QED
    BY <1>6, <1>7, <2>1
<1>9. PICK top \in Nat : /\ top <= TopOf(R, h, r.start)
                        /\ Answer(r, PageAnswer(k, R, r.start, top))
  BY <1>8
<1>10. ASSUME NEW e, e = PageAnswer(k, R, r.start, top)
       PROVE  /\ e \in Answers /\ e.op = "offer" /\ e.key = k /\ Answered(node, e, R, h)
              /\ Agrees(e.refs, R)
  <2> HIDE DEF k, R, h
  <2>1. Stated(R, h, r.start, top)
    BY <1>2, <1>9 DEF Stated
  <2> QED
    BY <1>3, <1>4, <1>10, <2>1, PageAnswers
<1>11. PICK e : e = PageAnswer(k, R, r.start, top)
  OBVIOUS
<1>12. /\ e \in Answers /\ e.op = "offer" /\ e.key = At(r)
       /\ Answered(node, e, reserve[e.key], heads[e.key])
       /\ Agrees(e.refs, reserve[e.key])
  BY <1>10, <1>11
<1>13. Answer(r, e)
  BY <1>9, <1>11
<1> QED
  BY <1>1, <1>2, <1>12, <1>13

LEMMA NetNext == NetInv /\ [Next]_vars => NetInv'
<1> SUFFICES ASSUME NetInv, [Next]_vars PROVE NetInv'
  OBVIOUS
<1>0. /\ World(node, reserve, heads) /\ NodeOK(node)
      /\ AllAsked(node, reqs, reserve, heads) /\ AllAnswered(node, resps, reserve, heads)
      /\ reserve \in [Keys -> Window] /\ heads \in [Keys -> BinIds]
      /\ landing \subseteq Landing
      /\ BagToSet(reqs) = DOMAIN reqs /\ BagToSet(resps) = DOMAIN resps
      /\ DOMAIN reqs \subseteq Requests /\ DOMAIN resps \subseteq Answers
  BY DEF NetInv, World, AllAsked, AllAnswered, BagToSet
<1>1. CASE UNCHANGED vars
  BY <1>1 DEF NetInv, vars
<1>2. ASSUME NEW p \in Peers, SeePeer(p)
      PROVE  NetInv'
  BY <1>0, <1>2, SeenMoved, Fed DEF SeePeer
<1>3. ASSUME NEW p \in Peers, LosePeer(p)
      PROVE  NetInv'
  BY <1>0, <1>3, GoneMoved, Fed DEF LosePeer
<1>4. CASE Refresh
  BY <1>0, <1>4, TickMoved, Fed DEF Refresh
<1>5. ASSUME NEW u \in landing, Land(u)
      PROVE  NetInv'
  <2> DEFINE k == <<u[1], u[2]>>
             R == reserve[k]
             h == heads[k]
             S == Put(R, h + 1, u[3])
  <2>1. k \in Keys /\ u[3] \in Chunks
    BY <1>0, NetConstants DEF Keys
  <2>2. /\ h < MaxBinId /\ landing' \subseteq landing
        /\ heads' = [heads EXCEPT ![k] = h + 1] /\ reserve' = [reserve EXCEPT ![k] = S]
        /\ node' = node /\ reqs' = reqs /\ resps' = resps
    BY <1>5 DEF Land
  <2>3. Reserve(R, h)
    BY <1>0, <2>1 DEF World
  <2> HIDE DEF k, R, h, S
  <2>4. Reserve(S, h + 1) /\ NoMoreOwed(node, R, h, S, h + 1)
    BY <2>1, <2>2, <2>3, Landed DEF S
  <2>5. /\ reserve' \in [Keys -> Window] /\ heads' \in [Keys -> BinIds]
        /\ ChangedAt(reserve, reserve', k, S) /\ ChangedAt(heads, heads', k, h + 1)
    BY <1>0, <2>1, <2>2, <2>4 DEF ChangedAt, Reserve
  <2>6. /\ World(node, reserve', heads') /\ AllAsked(node, reqs, reserve', heads')
        /\ AllAnswered(node, resps, reserve', heads')
    BY <1>0, <2>1, <2>4, <2>5, BinChanged DEF R, h
  <2> QED
    BY <1>0, <2>2, <2>5, <2>6 DEF NetInv
<1>6. ASSUME NEW k \in Keys, NEW b \in DOMAIN reserve[k], Evict(k, b)
      PROVE  NetInv'
  <2> DEFINE R == reserve[k]
             h == heads[k]
             S == Without(R, {b})
  <2>1. /\ landing' = landing /\ heads' = heads /\ reserve' = [reserve EXCEPT ![k] = S]
        /\ node' = node /\ reqs' = reqs /\ resps' = resps
    BY <1>6 DEF Evict
  <2>2. heads' = [heads EXCEPT ![k] = h]
    BY <1>0, <2>1
  <2>3. Reserve(R, h)
    BY <1>0 DEF World
  <2> HIDE DEF R, h, S
  <2>4. Reserve(S, h) /\ NoMoreOwed(node, R, h, S, h)
    BY <2>3, Evicted DEF S
  <2>5. /\ reserve' \in [Keys -> Window] /\ heads' \in [Keys -> BinIds]
        /\ ChangedAt(reserve, reserve', k, S) /\ ChangedAt(heads, heads', k, h)
    BY <1>0, <2>1, <2>2, <2>4 DEF ChangedAt, Reserve
  <2>6. /\ World(node, reserve', heads') /\ AllAsked(node, reqs, reserve', heads')
        /\ AllAnswered(node, resps, reserve', heads')
    BY <1>0, <2>1, <2>4, <2>5, BinChanged DEF R, h
  <2> QED
    BY <1>0, <2>1, <2>5, <2>6 DEF NetInv
<1>7. ASSUME NEW r \in DOMAIN reqs, ServeCursors(r)
      PROVE  NetInv'
  <2> DEFINE hd == [b \in Bins |-> heads[<<r.peer, b>>]]
             e == [op |-> "cursors", peer |-> r.peer, heads |-> hd]
  <2>1. r.peer \in Peers
    BY <1>0, RequestForms
  <2>2. hd \in [Bins -> BinIds]
    BY <1>0, <2>1 DEF Keys
  <2>3. Answer(r, e) /\ UNCHANGED <<node, stores>>
    BY <1>7 DEF ServeCursors
  <2> HIDE DEF hd
  <2>4. e \in Answers /\ e.op # "offer"
    BY <2>1, <2>2 DEF Answers
  <2> HIDE DEF e
  <2> QED
    BY <2>3, <2>4, Served
<1>8. ASSUME NEW r \in DOMAIN reqs, ServeOffer(r) \/ UnderstateOffer(r)
      PROVE  NetInv'
  BY <1>8, OfferServed, Served
<1>9. ASSUME NEW r \in DOMAIN reqs, r.op = "fetch", NEW failed, Answer(r, FetchAnswer(r, failed)),
             UNCHANGED <<node, stores>>
      PROVE  NetInv'
  <2>1. FetchAnswer(r, failed) \in Answers /\ FetchAnswer(r, failed).op = "fetch"
    BY <1>0, <1>9, RequestForms, FetchAnswerForm
  <2> QED
    BY <1>9, <2>1, Served
<1>10. ASSUME NEW r \in DOMAIN reqs, ServeFetch(r)
       PROVE  NetInv'
  BY <1>9, <1>10 DEF ServeFetch
<1>11. ASSUME NEW r \in DOMAIN reqs, MissFetch(r)
       PROVE  NetInv'
  BY <1>9, <1>11 DEF MissFetch
<1>12. ASSUME NEW e \in DOMAIN resps, Receive(e)
       PROVE  NetInv'
  <2>1. e \in Answers /\ AllAnswered(node, resps', reserve, heads)
    BY <1>0, <1>12, AnsweredTaken DEF Receive
  <2>2. Feed(Handle(e), reqs) /\ UNCHANGED stores
    BY <1>12 DEF Receive
  <2>3. Moved(node, Handle(e).node, Handle(e).fx, reserve, heads)
    <3>1. CASE e.op = "cursors"
      <4>1. Handle(e) = CursorsResult(node, e.peer, e.heads)
        BY <3>1 DEF Handle
      <4> QED
        BY <1>0, <2>1, <3>1, <4>1, AnswerForms, CursorsMoved
    <3>2. CASE e.op = "offer"
      <4>1. Handle(e) = OfferResult(node, e.key, e.start, e.refs, e.topmost)
        BY <3>2 DEF Handle
      <4>2. Answered(node, e, reserve[e.key], heads[e.key])
        BY <1>0, <3>2 DEF AllAnswered
      <4> QED
        BY <1>0, <2>1, <3>2, <4>1, <4>2, AnswerForms, OfferMoved
    <3>3. CASE e.op = "fetch"
      <4>1. Handle(e) = FetchResult(node, e.peer, e.outcomes)
        BY <3>3 DEF Handle
      <4> QED
        BY <1>0, <2>1, <3>3, <4>1, AnswerForms, FetchMoved
    <3> QED
      BY <2>1, <3>1, <3>2, <3>3, AnswerForms
  <2> QED
    BY <2>1, <2>2, <2>3, Fed
<1> QED
  BY <1>0, <1>1, <1>2, <1>3, <1>4, <1>5, <1>6, <1>7, <1>8, <1>10, <1>11, <1>12 DEF Next

\* The reserves, the node and all that is in flight stay in step.
THEOREM NetInductive == Spec => []NetInv
<1>1. Init => NetInv
  BY NetInit
<1>2. NetInv /\ [Next]_vars => NetInv'
  BY NetNext
<1> QED
  BY <1>1, <1>2, PTL DEF Spec

\* Settle before you forget, end to end: whatever a peer stores at or below the
\* interval the node holds for it is stored by the node or rejected, whatever the
\* order in which answers arrive, peers leave and come back, uploads land and
\* entries are evicted.
THEOREM SettledBeforeForgotten == Spec => []SettleBeforeForget
<1>1. NetInv => SettleBeforeForget
  <2> SUFFICES ASSUME NetInv, NEW k \in DOMAIN node.logs, NEW b \in DOMAIN reserve[k],
                      b <= node.logs[k].interval
               PROVE  reserve[k][b] \in Done(node)
    BY DEF SettleBeforeForget
  <2> DEFINE l == node.logs[k]
  <2>1. Sound(l) /\ Owes(node, k, reserve[k], heads[k]) /\ k \in Keys
    BY NodeParts DEF NetInv, World, NodeOK
  <2>2. b \in Nat
    BY <2>1, ReserveFacts DEF NetInv, World
  <2>3. /\ l.interval \in Nat /\ l.topmost \in Nat /\ l.interval <= l.topmost
        /\ \A x \in DOMAIN l.entries : x \in Nat /\ l.interval < x
    BY <2>1, SoundFacts DEF Sound
  <2>4. /\ b <= l.topmost =>
             reserve[k][b] \in Done(node) \/ b \in DOMAIN l.entries
        /\ b <= l.interval
    BY <2>1 DEF Owes
  <2> HIDE DEF l
  <2> QED
    BY <2>2, <2>3, <2>4
<1> QED
  BY <1>1, NetInductive, PTL

-----------------------------------------------------------------------------
(* Exactly once.  From here on the node claims each chunk once.            *)

\* Between two states of the machine: verdicts are final, what became stored was
\* leased, and each such chunk counts as one delivery.
Delivers(r, f) ==
  /\ r.got \subseteq f.got /\ r.rejected \subseteq f.rejected
  /\ \A c \in f.got \ r.got : r.want[c] # {}
  /\ f.ndeliv = r.ndeliv + Cardinality(f.got \ r.got)

Kept(n, s) == Exclusive(s.m) /\ Delivers(n.m, s.m)

LEMMA DeliversNone ==
  ASSUME NEW r \in State, NEW f, f.got = r.got, f.rejected = r.rejected, f.ndeliv = r.ndeliv
  PROVE  Delivers(r, f)
<1>1. f.got \ r.got = {}
  OBVIOUS
<1>2. Cardinality(f.got \ r.got) = 0
  BY <1>1, FS_EmptySet
<1>3. r.ndeliv \in Nat
  BY DEF State
<1> QED
  BY <1>1, <1>2, <1>3 DEF Delivers

\* The round after an arm stores nothing.
LEMMA KeptRound ==
  ASSUME NEW n, NEW t, NodeOK(t), Exclusive(t.m), Delivers(n.m, t.m), t.m.cfg.dedup
  PROVE  Kept(n, Round(t).node)
<1> DEFINE s == Round(t).node
<1>1. Exclusive(s.m) /\ Rounded(t, s)
  BY ExclusiveRound, RoundFacts
<1>2. s.m.got = t.m.got /\ s.m.rejected = t.m.rejected /\ s.m.ndeliv = t.m.ndeliv
  BY <1>1 DEF Rounded
<1> HIDE DEF s
<1>3. Delivers(n.m, s.m)
  BY <1>2 DEF Delivers
<1> QED
  BY <1>1, <1>3 DEF Kept, s

\* An arm that leaves the machine alone.
LEMMA KeptSame ==
  ASSUME NEW n, NodeOK(n), Exclusive(n.m), NEW s, s.m = n.m
  PROVE  Kept(n, s)
<1>1. n.m \in State
  BY NodeParts DEF NodeOK
<1>2. Delivers(n.m, s.m)
  BY <1>1, DeliversNone
<1> QED
  BY <1>2 DEF Kept

LEMMA SeenSame ==
  ASSUME NEW n \in NodeState, NEW p
  PROVE  PeerSeen(n, p).node.m = n.m
BY DEF PeerSeen, Quiet, NodeState

LEMMA GoneKept ==
  ASSUME NEW n, NodeOK(n), Exclusive(n.m), n.m.cfg.dedup, NEW p \in Peers
  PROVE  Kept(n, PeerGone(n, p).node)
<1> DEFINE t == Departed(n, p)
<1>1. /\ PeerGone(n, p) = Round(t) /\ NodeOK(t)
      /\ t.m.cfg = n.m.cfg /\ t.m.rejected = n.m.rejected /\ t.m.excluded = n.m.excluded
      /\ t.m.got = n.m.got /\ t.m.conflict = n.m.conflict /\ t.m.ndeliv = n.m.ndeliv
      /\ t.m.npre = n.m.npre /\ t.m.arrived = n.m.arrived
      /\ \A c \in Chunks : /\ t.m.want[c] = n.m.want[c] \ {p}
                           /\ t.m.holders[c] = n.m.holders[c] \ {p}
  BY DepartedFacts
<1> HIDE DEF t
<1>2. n.m \in State /\ t.m \in State
  BY <1>1, NodeParts DEF NodeOK
<1>3. Lost(n.m, t.m, Chunks, p)
  BY <1>1, <1>2 DEF Lost
<1>4. Exclusive(t.m) /\ Delivers(n.m, t.m)
  BY <1>1, <1>2, <1>3, ExclusiveLost, DeliversNone
<1> QED
  BY <1>1, <1>4, KeptRound

LEMMA OfferKept ==
  ASSUME NEW n, NodeOK(n), Exclusive(n.m), n.m.cfg.dedup, NEW k \in Keys,
         NEW start \in BinIds, NEW refs \in Window, NEW topmost \in BinIds
  PROVE  Kept(n, OfferResult(n, k, start, refs, topmost).node)
<1> DEFINE d == Diffed(n, k, start, refs, topmost)
           t == Ingested(d, k, refs)
           old == LogOf(n, k)
           lost == {old.entries[b] : b \in Unnamed(old, start, refs, topmost)}
           named == {refs[b] : b \in DOMAIN refs}
<1>1. DiffedTo(n, d, k, start, refs, topmost)
  BY DiffedFacts
<1>2. NodeOK(d) /\ k \in DOMAIN d.logs /\ Lost(n.m, d.m, lost, k[1])
  BY <1>1 DEF DiffedTo
<1>3. IngestedTo(d, t, k, refs)
  BY <1>2, IngestedFacts
<1>4. NodeOK(t) /\ Offered(d.m, t.m, named)
  BY <1>3 DEF IngestedTo
<1>5. OfferResult(n, k, start, refs, topmost) = Round(t)
  BY DEF OfferResult
<1>6. lost \in SUBSET Chunks
  <2>1. Sound(old)
    BY NewLogSound DEF LogOf, NodeOK
  <2>2. old.entries \in Window
    BY <2>1 DEF Sound, Log
  <2>3. \A b \in DOMAIN old.entries : old.entries[b] \in Chunks
    BY <2>2, LogTypes
  <2> HIDE DEF old
  <2> QED
    BY <2>3 DEF Unnamed
<1>7. named \in SUBSET Chunks
  BY LogTypes
<1>8. k[1] \in Peers
  BY EffectForms
<1> HIDE DEF d, t, lost, named
<1>9. n.m \in State /\ d.m \in State /\ t.m \in State
  BY <1>2, <1>4, NodeParts DEF NodeOK
<1>10. Exclusive(d.m)
  BY <1>2, <1>6, <1>8, <1>9, ExclusiveLost
<1>11. Exclusive(t.m)
  BY <1>4, <1>7, <1>9, <1>10, ExclusiveOffered
<1>12. /\ t.m.got = n.m.got /\ t.m.rejected = n.m.rejected /\ t.m.ndeliv = n.m.ndeliv
       /\ t.m.cfg = n.m.cfg
  BY <1>2, <1>4 DEF Lost, Offered
<1>13. Delivers(n.m, t.m)
  BY <1>9, <1>12, DeliversNone
<1> QED
  BY <1>4, <1>5, <1>11, <1>12, <1>13, KeptRound

LEMMA FetchKept ==
  ASSUME NEW n, NodeOK(n), Exclusive(n.m), n.m.cfg.dedup, NEW p \in Peers,
         NEW out \in Partial(Chunks, Outcomes)
  PROVE  Kept(n, FetchResult(n, p, out).node)
<1> DEFINE t == Fetched(n, p, out)
           D == DOMAIN out
           stored == {c \in D : Stores(n.m, c, p, out[c])}
<1>1. FetchResult(n, p, out) = Round(t) /\ NodeOK(t) /\ Reported(n.m, t.m, D, p, out)
  BY FetchedFacts
<1>2. D \in SUBSET Chunks
  BY PartialFacts
<1>3. /\ t.m.cfg = n.m.cfg /\ t.m.got = n.m.got \cup stored
      /\ n.m.rejected \subseteq t.m.rejected
      /\ t.m.ndeliv = n.m.ndeliv + Cardinality(stored)
  BY <1>1 DEF Reported
<1>4. \A c \in stored : n.m.want[c] # {} /\ c \notin n.m.got
  BY <1>2 DEF Stores, Exclusive
<1> HIDE DEF t, D, stored
<1>5. n.m \in State
  BY NodeParts DEF NodeOK
<1>6. Exclusive(t.m)
  BY <1>1, <1>2, <1>5, ExclusiveReported
<1>7. t.m.got \ n.m.got = stored
  BY <1>3, <1>4
<1>8. Delivers(n.m, t.m)
  BY <1>3, <1>4, <1>7 DEF Delivers
<1> QED
  BY <1>1, <1>3, <1>6, <1>8, KeptRound

\* Every step of the neighbourhood keeps it up.
LEMMA OnceNext ==
  ASSUME Cfg.dedup, NetInv, Exclusive(node.m), [Next]_vars
  PROVE  Kept(node, node')
<1>0. /\ NodeOK(node) /\ node \in NodeState /\ node.m.cfg.dedup
      /\ BagToSet(resps) = DOMAIN resps /\ DOMAIN resps \subseteq Answers
  BY DEF NetInv, World, NodeOK, AllAnswered, BagToSet
<1>1. CASE node' = node
  BY <1>0, <1>1, KeptSame
<1>2. ASSUME NEW p \in Peers, SeePeer(p)
      PROVE  Kept(node, node')
  <2>1. node' = PeerSeen(node, p).node
    BY <1>2 DEF SeePeer, Feed
  <2> QED
    BY <1>0, <2>1, SeenSame, KeptSame
<1>3. ASSUME NEW p \in Peers, LosePeer(p)
      PROVE  Kept(node, node')
  <2>1. node' = PeerGone(node, p).node
    BY <1>3 DEF LosePeer, Feed
  <2> QED
    BY <1>0, <2>1, GoneKept
<1>4. CASE Refresh
  <2>1. node' = Tick(node).node
    BY <1>4 DEF Refresh, Feed
  <2> QED
    BY <1>0, <2>1, TickFacts, KeptSame
<1>5. ASSUME NEW e \in DOMAIN resps, Receive(e)
      PROVE  Kept(node, node')
  <2>1. e \in Answers /\ node' = Handle(e).node
    BY <1>0, <1>5 DEF Receive, Feed
  <2>2. CASE e.op = "cursors"
    <3>1. node' = CursorsResult(node, e.peer, e.heads).node
      BY <2>1, <2>2 DEF Handle
    <3> QED
      BY <1>0, <2>1, <2>2, <3>1, AnswerForms, AllHeads, CursorsFacts, KeptSame
  <2>3. CASE e.op = "offer"
    <3>1. node' = OfferResult(node, e.key, e.start, e.refs, e.topmost).node
      BY <2>1, <2>3 DEF Handle
    <3> QED
      BY <1>0, <2>1, <2>3, <3>1, AnswerForms, OfferKept
  <2>4. CASE e.op = "fetch"
    <3>1. node' = FetchResult(node, e.peer, e.outcomes).node
      BY <2>1, <2>4 DEF Handle
    <3> QED
      BY <1>0, <2>1, <2>4, <3>1, AnswerForms, FetchKept
  <2> QED
    BY <2>1, <2>2, <2>3, <2>4, AnswerForms
<1> QED
  BY <1>0, <1>1, <1>2, <1>3, <1>4, <1>5
     DEF Next, vars, Land, Evict, ServeCursors, ServeOffer, UnderstateOffer, ServeFetch,
         MissFetch

LEMMA ExclusiveAlways ==
  ASSUME Cfg.dedup
  PROVE  Spec => []Exclusive(node.m)
<1>1. Init => Exclusive(node.m)
  <2> SUFFICES ASSUME Init PROVE Exclusive(node.m)
    OBVIOUS
  <2>1. node.m = New(Cfg)
    BY NewNodeOK DEF Init
  <2>2. Cardinality({}) = 0
    BY FS_EmptySet
  <2>3. New(Cfg).ndeliv + New(Cfg).npre = Cardinality(New(Cfg).got)
    BY <2>2 DEF New
  <2>4. /\ ~New(Cfg).conflict /\ New(Cfg).arrived = {} /\ New(Cfg).got = {}
        /\ \A c \in Chunks : New(Cfg).want[c] = {}
    BY DEF New, Nowhere
  <2> QED
    BY <2>1, <2>3, <2>4 DEF Exclusive
<1>2. NetInv /\ Exclusive(node.m) /\ [Next]_vars => Exclusive(node.m)'
  BY OnceNext DEF Kept
<1> QED
  BY <1>1, <1>2, NetInductive, PTL DEF Spec

\* The machine's own check_invariants after every event, in every order: no double
\* delivery, every stored chunk counted once, and at most one lease per chunk, on
\* a holder without a bar.
THEOREM MachineStaysSafe ==
  ASSUME Cfg.dedup
  PROVE  Spec => []MachineSafe
<1>1. NetInv /\ Exclusive(node.m) => MachineSafe
  <2> SUFFICES ASSUME Exclusive(node.m), NEW c \in Chunks
               PROVE  /\ ~node.m.conflict
                      /\ node.m.ndeliv + node.m.npre = Cardinality(node.m.got)
                      /\ Cardinality(node.m.want[c]) <= 1
                      /\ node.m.want[c] \subseteq node.m.holders[c] \ node.m.excluded[c]
    BY DEF MachineSafe, Exclusive
  <2>1. Cardinality(node.m.want[c]) \in {0, 1}
    <3>1. CASE node.m.want[c] = {}
      BY <3>1, FS_EmptySet
    <3>2. ASSUME NEW p \in Peers, node.m.want[c] = {p}
          PROVE  Cardinality(node.m.want[c]) = 1
      BY <3>2, FS_Singleton
    <3> QED
      BY <3>1, <3>2 DEF Exclusive
  <2> QED
    BY <2>1 DEF Exclusive
<1> QED
  BY <1>1, NetInductive, ExclusiveAlways, PTL

-----------------------------------------------------------------------------
(* The refinement: the node among its neighbours implements ExactlyOnce.   *)

Status(r, c) ==
  IF c \in r.got THEN <<"got">>
  ELSE IF c \in r.rejected THEN <<"rejected">>
  ELSE IF r.want[c] # {} THEN <<"leased", CHOOSE p \in r.want[c] : TRUE>>
  ELSE <<"idle">>

LEMMA StatusValues ==
  ASSUME NEW r \in State, NEW c \in Chunks
  PROVE  /\ c \in r.got => Status(r, c) = Abstract!Got
         /\ c \notin r.got => Status(r, c) # Abstract!Got
         /\ c \in r.rejected \ r.got => Status(r, c) = Abstract!Rejected
         /\ ~Settled(r, c) /\ r.want[c] # {} => Status(r, c) \in Abstract!Leases
         /\ ~Settled(r, c) /\ r.want[c] = {} => Status(r, c) = Abstract!Idle
<1>1. r.want[c] # {} => (CHOOSE p \in r.want[c] : TRUE) \in Peers
  BY DEF State
<1>2. c \in r.got => Status(r, c) = Abstract!Got
  BY DEF Status, Abstract!Got
<1>3. c \in r.rejected \ r.got => Status(r, c) = Abstract!Rejected
  BY DEF Status, Abstract!Rejected
<1>4. ~Settled(r, c) /\ r.want[c] # {} => Status(r, c) \in Abstract!Leases
  BY <1>1 DEF Status, Settled, Abstract!Leases, Abstract!Leased
<1>5. ~Settled(r, c) /\ r.want[c] = {} => Status(r, c) = Abstract!Idle
  BY DEF Status, Settled, Abstract!Idle
<1>6. /\ Abstract!Got # Abstract!Rejected /\ Abstract!Got # Abstract!Idle
      /\ Abstract!Got \notin Abstract!Leases
  BY DEF Abstract!Got, Abstract!Rejected, Abstract!Idle, Abstract!Leases, Abstract!Leased
<1> QED
  BY <1>2, <1>3, <1>4, <1>5, <1>6 DEF Settled

\* Each chunk moves as ExactlyOnce allows.
LEMMA StatusMoves ==
  ASSUME NEW r \in State, NEW f \in State, Exclusive(r), Exclusive(f), Delivers(r, f),
         NEW c \in Chunks
  PROVE  Abstract!Move(Status(r, c), Status(f, c))
<1>1. CASE c \in r.got
  <2>1. c \in f.got
    BY <1>1 DEF Delivers
  <2> QED
    BY <1>1, <2>1, StatusValues DEF Abstract!Move
<1>2. CASE c \in r.rejected
  <2>1. c \in f.rejected /\ c \notin f.got /\ c \notin r.got
    BY <1>2 DEF Delivers, Exclusive
  <2> QED
    BY <1>2, <2>1, StatusValues DEF Abstract!Move
<1>3. CASE ~Settled(r, c) /\ r.want[c] # {}
  BY <1>3, StatusValues DEF Abstract!Move
<1>4. CASE ~Settled(r, c) /\ r.want[c] = {}
  <2>1. c \notin f.got /\ Status(r, c) = Abstract!Idle
    BY <1>4, StatusValues DEF Delivers, Settled
  <2>2. \/ Status(f, c) = Abstract!Rejected
        \/ Status(f, c) \in Abstract!Leases
        \/ Status(f, c) = Abstract!Idle
    BY <2>1, StatusValues DEF Settled
  <2> QED
    BY <2>1, <2>2 DEF Abstract!Move
<1> QED
  BY <1>1, <1>2, <1>3, <1>4 DEF Settled

\* The instance counts as this module does.
LEMMA AbstractCount ==
  ASSUME NEW S
  PROVE  Abstract!Cardinality(S) = Cardinality(S)
BY Zenon DEF Abstract!Cardinality, Cardinality

LEMMA NetRefines ==
  ASSUME NetInv, NetInv', Exclusive(node.m), Kept(node, node')
  PROVE  Abstract!Next
<1> DEFINE r == node.m
           f == node'.m
           new == {c \in Chunks : Status(r, c) # Abstract!Got /\ Status(f, c) = Abstract!Got}
<1>1. r \in State /\ f \in State /\ r.got \subseteq Chunks /\ f.got \subseteq Chunks
  BY NodeParts DEF NetInv, World, NodeOK
<1>2. Exclusive(r) /\ Exclusive(f) /\ Delivers(r, f)
  BY DEF Kept
<1>3. \A c \in Chunks : StatusOf(c) = Status(r, c) /\ StatusOf(c)' = Status(f, c)
  BY DEF StatusOf, Status
<1> HIDE DEF r, f
<1>4. \A c \in Chunks : Abstract!Move(Status(r, c), Status(f, c))
  BY <1>1, <1>2, StatusMoves
<1>5. new = f.got \ r.got
  BY <1>1, StatusValues
<1>6. f.ndeliv = r.ndeliv + Abstract!Cardinality(new)
  BY <1>2, <1>5, AbstractCount DEF Delivers
<1>7. new = {c \in Chunks : StatusOf(c) # Abstract!Got /\ StatusOf(c)' = Abstract!Got}
  BY <1>3
<1> HIDE DEF new
<1>8. \A c \in Chunks : Abstract!Move(StatusOf(c), StatusOf(c)')
  BY <1>3, <1>4
<1> QED
  BY <1>6, <1>7, <1>8 DEF Abstract!Next, r, f

\* The node implements exactly-once, whatever its neighbours do and in whatever
\* order their answers arrive: nothing is stored except out of a lease, once, and
\* a verdict is final.
THEOREM NetImplementsExactlyOnce ==
  ASSUME Cfg.dedup
  PROVE  Spec => ImplementsExactlyOnce
<1>1. Init => Abstract!Init
  <2> SUFFICES ASSUME Init PROVE Abstract!Init
    OBVIOUS
  <2>1. node.m = New(Cfg)
    BY NewNodeOK DEF Init
  <2>2. /\ node.m.got = {} /\ node.m.rejected = {} /\ node.m.ndeliv = 0
        /\ \A c \in Chunks : node.m.want[c] = {}
    BY <2>1 DEF New, Nowhere
  <2>3. \A c \in Chunks : StatusOf(c) = Abstract!Idle
    BY <2>2 DEF StatusOf, Abstract!Idle
  <2> QED
    BY <2>2, <2>3 DEF Abstract!Init
<1>2. NetInv /\ NetInv' /\ Exclusive(node.m) /\ [Next]_vars => [Abstract!Next]_(Abstract!vars)
  BY OnceNext, NetRefines
<1> QED
  BY <1>1, <1>2, NetInductive, ExclusiveAlways, PTL
     DEF Spec, ImplementsExactlyOnce, Abstract!Spec

-----------------------------------------------------------------------------
(* Claims and their carriers.  A claim is an open-offer flag or a lease; a *)
(* message carries the claims it will end.  q and a give the claims that a *)
(* request and an answer carry; H are the claims the node holds.           *)

\* Every claim held is carried by some message in flight.
Backed(H, Q, P, q, a) ==
  \A i \in H : (\E r \in DOMAIN Q : i \in q[r]) \/ (\E e \in DOMAIN P : i \in a[e])

\* Every claim in flight is held, and one copy of one message carries it.
Single(H, Q, P, q, a) ==
  /\ \A r \in DOMAIN Q : \A i \in q[r] :
       /\ i \in H /\ CopiesOf(r, Q) = 1
       /\ \A x \in DOMAIN Q : i \in q[x] => x = r
       /\ \A e \in DOMAIN P : i \notin a[e]
  /\ \A e \in DOMAIN P : \A i \in a[e] :
       /\ i \in H /\ CopiesOf(e, P) = 1
       /\ \A x \in DOMAIN P : i \in a[x] => x = e

\* From H to G the node takes claims up, and sends one message for each.
Sends(H, G, fx, q) ==
  /\ H \subseteq G
  /\ \A r \in fx : \A i \in q[r] : i \in G \ H /\ \A x \in fx : i \in q[x] => x = r
  /\ \A i \in G \ H : \E r \in fx : i \in q[r]

LEMMA CopiesZero ==
  ASSUME NEW b, IsABag(b)
  PROVE  \A e : CopiesOf(e, b) \in Nat /\ (CopiesOf(e, b) = 0 <=> e \notin DOMAIN b)
BY DEF CopiesOf, BagIn, BagToSet, IsABag

\* Dispatch.
LEMMA BackedSent ==
  ASSUME NEW H, NEW G, NEW Q, IsABag(Q), NEW P, NEW q, NEW a, NEW fx,
         Backed(H, Q, P, q, a), Sends(H, G, fx, q)
  PROVE  Backed(G, Q (+) SetToBag(fx), P, q, a)
<1>1. DOMAIN (Q (+) SetToBag(fx)) = DOMAIN Q \cup fx
  BY BagAdd
<1> QED
  BY <1>1 DEF Backed, Sends

LEMMA SingleSent ==
  ASSUME NEW H, NEW G, NEW Q, IsABag(Q), NEW P, NEW q, NEW a, NEW fx,
         Single(H, Q, P, q, a), Sends(H, G, fx, q)
  PROVE  Single(G, Q (+) SetToBag(fx), P, q, a)
<1> DEFINE B == Q (+) SetToBag(fx)
<1>1. /\ DOMAIN B = DOMAIN Q \cup fx
      /\ \A e : CopiesOf(e, B) = CopiesOf(e, Q) + IF e \in fx THEN 1 ELSE 0
  BY BagAdd
<1>2. \A e : CopiesOf(e, Q) \in Nat /\ (CopiesOf(e, Q) = 0 <=> e \notin DOMAIN Q)
  BY CopiesZero
<1> HIDE DEF B
<1>3. ASSUME NEW r \in DOMAIN Q, NEW i \in q[r]
      PROVE  /\ i \in G /\ CopiesOf(r, B) = 1
             /\ \A x \in DOMAIN B : i \in q[x] => x = r
             /\ \A e \in DOMAIN P : i \notin a[e]
  <2>1. i \in H /\ i \in G /\ CopiesOf(r, Q) = 1
    BY DEF Single, Sends
  <2>2. \A x \in fx : i \notin q[x]
    BY <2>1 DEF Sends
  <2>3. r \notin fx
    BY <2>2
  <2>4. CopiesOf(r, B) = 1
    BY <1>1, <2>1, <2>3
  <2> QED
    BY <1>1, <2>1, <2>2, <2>4 DEF Single
<1>4. ASSUME NEW r \in fx, NEW i \in q[r]
      PROVE  /\ i \in G /\ CopiesOf(r, B) = 1
             /\ \A x \in DOMAIN B : i \in q[x] => x = r
             /\ \A e \in DOMAIN P : i \notin a[e]
  <2>1. i \in G /\ i \notin H
    BY DEF Sends
  <2>2. \A x \in DOMAIN Q : i \notin q[x]
    BY <2>1 DEF Single
  <2>3. CopiesOf(r, Q) = 0
    BY <1>2, <2>2
  <2>4. CopiesOf(r, B) = 1
    BY <1>1, <2>3
  <2>5. \A e \in DOMAIN P : i \notin a[e]
    BY <2>1 DEF Single
  <2>6. \A x \in fx : i \in q[x] => x = r
    BY DEF Sends
  <2> QED
    BY <1>1, <2>1, <2>2, <2>4, <2>5, <2>6
<1>5. \A e \in DOMAIN P : \A i \in a[e] :
        /\ i \in G /\ CopiesOf(e, P) = 1
        /\ \A x \in DOMAIN P : i \in a[x] => x = e
  BY DEF Single, Sends
<1>6. Single(G, B, P, q, a)
  BY <1>1, <1>3, <1>4, <1>5 DEF Single
<1> QED
  BY <1>6 DEF B

\* Service: the answer carries what its request did.
LEMMA BackedServed ==
  ASSUME NEW H, NEW Q, IsABag(Q), NEW P, IsABag(P), NEW q, NEW a,
         NEW r \in DOMAIN Q, NEW e, a[e] = q[r], Backed(H, Q, P, q, a)
  PROVE  Backed(H, Q (-) Event(r), P (+) Event(e), q, a)
<1>1. DOMAIN Q \ {r} \subseteq DOMAIN (Q (-) Event(r))
  BY BagTake
<1>2. DOMAIN (P (+) Event(e)) = DOMAIN P \cup {e}
  BY BagAdd DEF Event
<1> QED
  BY <1>1, <1>2 DEF Backed

LEMMA SingleServed ==
  ASSUME NEW H, NEW Q, IsABag(Q), NEW P, IsABag(P), NEW q, NEW a,
         NEW r \in DOMAIN Q, NEW e, a[e] = q[r], Single(H, Q, P, q, a)
  PROVE  Single(H, Q (-) Event(r), P (+) Event(e), q, a)
<1> DEFINE B == Q (-) Event(r)
           C == P (+) Event(e)
<1>1. /\ IsABag(B) /\ DOMAIN B \subseteq DOMAIN Q
      /\ \A x : CopiesOf(x, B) = CopiesOf(x, Q) - IF x = r THEN 1 ELSE 0
  BY BagTake
<1>2. /\ DOMAIN C = DOMAIN P \cup {e}
      /\ \A x : CopiesOf(x, C) = CopiesOf(x, P) + IF x \in {e} THEN 1 ELSE 0
  BY BagAdd DEF Event
<1>3. \A x : CopiesOf(x, P) \in Nat /\ (CopiesOf(x, P) = 0 <=> x \notin DOMAIN P)
  BY CopiesZero
<1>4. \A x : CopiesOf(x, B) = 0 <=> x \notin DOMAIN B
  BY <1>1, CopiesZero
<1> HIDE DEF B, C
<1>5. ASSUME NEW x \in DOMAIN B, NEW i \in q[x]
      PROVE  i \notin q[r] /\ i \notin a[e] /\ x # r
  <2>1. x \in DOMAIN Q /\ CopiesOf(x, Q) = 1
    BY <1>1 DEF Single
  <2>2. x # r
    BY <1>1, <1>4, <2>1
  <2> QED
    BY <2>1, <2>2 DEF Single
<1>6. ASSUME NEW x \in DOMAIN B, NEW i \in q[x]
      PROVE  /\ i \in H /\ CopiesOf(x, B) = 1
             /\ \A y \in DOMAIN B : i \in q[y] => y = x
             /\ \A y \in DOMAIN C : i \notin a[y]
  <2>1. x \in DOMAIN Q /\ i \notin a[e] /\ x # r
    BY <1>1, <1>5
  <2>2. CopiesOf(x, Q) = 1 /\ i \in H
    BY <2>1 DEF Single
  <2>3. CopiesOf(x, B) = 1
    BY <1>1, <2>1, <2>2
  <2> QED
    BY <1>1, <1>2, <2>1, <2>2, <2>3 DEF Single
<1>7. ASSUME NEW x \in DOMAIN P, NEW i \in a[x]
      PROVE  /\ i \in H /\ CopiesOf(x, C) = 1
             /\ \A y \in DOMAIN C : i \in a[y] => y = x
  <2>1. i \notin q[r] /\ i \in H /\ CopiesOf(x, P) = 1
    BY DEF Single
  <2>2. i \notin a[e] /\ x # e
    BY <2>1
  <2>3. CopiesOf(x, C) = 1
    BY <1>2, <2>1, <2>2
  <2> QED
    BY <1>2, <2>1, <2>2, <2>3 DEF Single
<1>8. ASSUME NEW i \in a[e]
      PROVE  /\ i \in H /\ CopiesOf(e, C) = 1
             /\ \A y \in DOMAIN C : i \in a[y] => y = e
  <2>1. i \in H /\ \A y \in DOMAIN P : i \notin a[y]
    BY DEF Single
  <2>2. CopiesOf(e, P) = 0
    BY <1>3, <2>1
  <2>3. CopiesOf(e, C) = 1
    BY <1>2, <2>2
  <2> QED
    BY <1>2, <2>1, <2>3
<1>9. Single(H, B, C, q, a)
  BY <1>2, <1>6, <1>7, <1>8 DEF Single
<1> QED
  BY <1>9 DEF B, C

\* Receipt: the claims the message carries end with it.
LEMMA BackedReceived ==
  ASSUME NEW H, NEW G, NEW Q, NEW P, IsABag(P), NEW q, NEW a,
         NEW e \in DOMAIN P, G \subseteq H \ a[e], Backed(H, Q, P, q, a)
  PROVE  Backed(G, Q, P (-) Event(e), q, a)
<1>1. DOMAIN P \ {e} \subseteq DOMAIN (P (-) Event(e))
  BY BagTake
<1> QED
  BY <1>1 DEF Backed

LEMMA SingleReceived ==
  ASSUME NEW H, NEW G, NEW Q, NEW P, IsABag(P), NEW q, NEW a,
         NEW e \in DOMAIN P, H \ a[e] \subseteq G, Single(H, Q, P, q, a)
  PROVE  Single(G, Q, P (-) Event(e), q, a)
<1> DEFINE C == P (-) Event(e)
<1>1. /\ IsABag(C) /\ DOMAIN C \subseteq DOMAIN P
      /\ \A x : CopiesOf(x, C) = CopiesOf(x, P) - IF x = e THEN 1 ELSE 0
  BY BagTake
<1>2. \A x : CopiesOf(x, C) = 0 <=> x \notin DOMAIN C
  BY <1>1, CopiesZero
<1> HIDE DEF C
<1>3. ASSUME NEW x \in DOMAIN C, NEW i \in a[x]
      PROVE  /\ i \in G /\ CopiesOf(x, C) = 1
             /\ \A y \in DOMAIN C : i \in a[y] => y = x
  <2>1. x \in DOMAIN P /\ CopiesOf(x, P) = 1 /\ i \in H
    BY <1>1 DEF Single
  <2>2. x # e
    BY <1>1, <1>2, <2>1
  <2>3. i \notin a[e]
    BY <2>1, <2>2 DEF Single
  <2>4. CopiesOf(x, C) = 1
    BY <1>1, <2>1, <2>2
  <2> QED
    BY <1>1, <2>1, <2>3, <2>4 DEF Single
<1>4. ASSUME NEW r \in DOMAIN Q, NEW i \in q[r]
      PROVE  /\ i \in G /\ CopiesOf(r, Q) = 1
             /\ \A x \in DOMAIN Q : i \in q[x] => x = r
             /\ \A y \in DOMAIN C : i \notin a[y]
  BY <1>1 DEF Single
<1>5. Single(G, Q, C, q, a)
  BY <1>3, <1>4 DEF Single
<1> QED
  BY <1>5 DEF C

\* The flags and the leases, and the messages that carry them.
Leases(n) == {w \in Chunks \X Peers : w[2] \in n.m.want[w[1]]}

OfferReq == [r \in Requests |-> IF r.op = "offer" THEN {At(r)} ELSE {}]
OfferAns == [e \in Answers |-> IF e.op = "offer" THEN {e.key} ELSE {}]

LeaseReq ==
  [r \in Requests |-> {w \in Chunks \X Peers :
                         r.op = "fetch" /\ w[1] \in r.want /\ w[2] = r.peer}]
LeaseAns ==
  [e \in Answers |-> {w \in Chunks \X Peers :
                        e.op = "fetch" /\ w[1] \in DOMAIN e.outcomes /\ w[2] = e.peer}]

\* What the node sends with the flags it sets.
LEMMA OfferSends ==
  ASSUME NEW n, NEW s, NodeOK(s), n.offer_open \subseteq s.offer_open,
         s.offer_open \ n.offer_open \subseteq DOMAIN s.logs, s.m = n.m
  PROVE  /\ Sends(n.offer_open, s.offer_open, NetFx(OfferFx(n, s)), OfferReq)
         /\ Sends(Leases(n), Leases(s), NetFx(OfferFx(n, s)), LeaseReq)
<1> DEFINE new == s.offer_open \ n.offer_open
           Sent(k) == Offer(k, NextStart(s.logs[k]))
           fx == NetFx(OfferFx(n, s))
<1>1. \A k \in new : k \in Keys /\ NextStart(s.logs[k]) \in BinIds
  BY NodeParts, NextStartSound DEF NodeOK
<1>2. \A k \in new : Sent(k) \in Requests /\ Sent(k).op = "offer" /\ At(Sent(k)) = k
  BY <1>1, EffectForms
<1>3. fx = {Sent(k) : k \in new}
  <2>1. OfferFx(n, s) = {Sent(k) : k \in new}
    BY DEF OfferFx
  <2> HIDE DEF Sent, new
  <2>2. \A e \in OfferFx(n, s) : e.op # "settled"
    BY <1>2, <2>1
  <2>3. fx = OfferFx(n, s)
    BY <2>2 DEF NetFx
  <2> QED
    BY <2>1, <2>3
<1> HIDE DEF Sent, fx, new
<1>4. \A k \in new : OfferReq[Sent(k)] = {k} /\ LeaseReq[Sent(k)] = {}
  <2> SUFFICES ASSUME NEW k \in new PROVE OfferReq[Sent(k)] = {k} /\ LeaseReq[Sent(k)] = {}
    OBVIOUS
  <2> DEFINE r == Sent(k)
  <2>1. r \in Requests /\ r.op = "offer" /\ At(r) = k
    BY <1>2
  <2> HIDE DEF r
  <2>2. OfferReq[r] = {k} /\ LeaseReq[r] = {}
    BY <2>1 DEF OfferReq, LeaseReq
  <2> QED
    BY <2>2 DEF r
<1>5. Sends(n.offer_open, s.offer_open, fx, OfferReq)
  <2>1. new = s.offer_open \ n.offer_open
    BY DEF new
  <2>2. \A r \in fx : \A i \in OfferReq[r] : i \in new /\ r = Sent(i)
    BY <1>3, <1>4
  <2>3. \A i \in new : Sent(i) \in fx /\ i \in OfferReq[Sent(i)]
    BY <1>3, <1>4
  <2> QED
    BY <2>1, <2>2, <2>3 DEF Sends
<1>6. Leases(n) = Leases(s)
  BY DEF Leases
<1>7. Sends(Leases(n), Leases(s), fx, LeaseReq)
  BY <1>3, <1>4, <1>6 DEF Sends
<1> QED
  BY <1>5, <1>7 DEF fx

\* The network effects of a round: an offer for each flag, and the fetches.
LEMMA RoundSent ==
  ASSUME NEW t, NodeOK(t), NEW s, s = Round(t).node, NEW e \in NetFx(Round(t).fx)
  PROVE  \/ \E k \in s.offer_open \ t.offer_open :
              e \in Requests /\ e = Offer(k, NextStart(s.logs[k])) /\ At(e) = k
         \/ \E k \in Keys : e \in Requests /\ e = Fetch(k, Committed(t, s, k[1], k[2]))
<1>1. /\ Round(t).fx = RoundFx(t, s) /\ EffectsOK(s, Round(t).fx)
      /\ Reopened(t, s) = s.offer_open \ t.offer_open
      /\ s.offer_open \ t.offer_open \subseteq DOMAIN s.logs /\ NodeOK(s)
  BY RoundFacts, RoundEffects, RoundOffers DEF Rounded
<1>2. e \in RoundFx(t, s) /\ e.op # "settled" /\ e \in Requests
  BY <1>1 DEF NetFx, EffectsOK
<1>3. CASE e \in {SettledFx(k, s.logs[k].interval) :
                    k \in {l \in DOMAIN s.logs : Advanced(t.logs[l], Done(t))}}
  BY <1>2, <1>3, EffectForms
<1>4. CASE e \in {Offer(k, NextStart(s.logs[k])) : k \in Reopened(t, s)}
  <2>1. PICK k \in Reopened(t, s) : e = Offer(k, NextStart(s.logs[k]))
    BY <1>4
  <2>2. k \in s.offer_open \ t.offer_open /\ k \in Keys
    BY <1>1, NodeParts DEF NodeOK
  <2> QED
    BY <1>2, <2>1, <2>2, EffectForms
<1>5. CASE e \in {Fetch(k, Committed(t, s, k[1], k[2])) :
                    k \in {l \in Keys : Committed(t, s, l[1], l[2]) # {}}}
  BY <1>2, <1>5
<1> QED
  BY <1>2, <1>3, <1>4, <1>5 DEF RoundFx

LEMMA RoundSends ==
  ASSUME NEW t, NodeOK(t), NEW s, s = Round(t).node, NEW fx, fx = NetFx(Round(t).fx)
  PROVE  /\ Sends(t.offer_open, s.offer_open, fx, OfferReq)
         /\ Sends(Leases(t), Leases(s), fx, LeaseReq)
<1>0. Rounded(t, s) /\ Round(t).fx = RoundFx(t, s)
  BY RoundFacts
<1>1. /\ Rounded(t, s) /\ NodeOK(s) /\ Round(t).fx = RoundFx(t, s)
      /\ Reopened(t, s) = s.offer_open \ t.offer_open
  BY <1>0, RoundOffers DEF Rounded
<1>2. /\ s.offer_open \subseteq Keys /\ t.offer_open \subseteq s.offer_open
      /\ DOMAIN s.bin_of \subseteq Chunks /\ s.bin_of \in [DOMAIN s.bin_of -> Bins]
      /\ s.m.arrived \subseteq DOMAIN s.bin_of
  BY <1>1, NodeParts DEF NodeOK, Rounded
<1>3. ASSUME NEW e \in fx
      PROVE  \/ /\ e \in Requests /\ LeaseReq[e] = {}
                /\ \E k \in s.offer_open \ t.offer_open :
                     OfferReq[e] = {k} /\ e = Offer(k, NextStart(s.logs[k]))
             \/ /\ e \in Requests /\ OfferReq[e] = {}
                /\ \E k \in Keys :
                     /\ e = Fetch(k, Committed(t, s, k[1], k[2]))
                     /\ LeaseReq[e] = {w \in Chunks \X Peers :
                                         w[1] \in Committed(t, s, k[1], k[2]) /\ w[2] = k[1]}
  <2>1. CASE \E k \in s.offer_open \ t.offer_open :
               e \in Requests /\ e = Offer(k, NextStart(s.logs[k])) /\ At(e) = k
    <3>1. PICK k \in s.offer_open \ t.offer_open :
            e \in Requests /\ e = Offer(k, NextStart(s.logs[k])) /\ At(e) = k
      BY <2>1
    <3>2. e.op = "offer"
      BY <3>1, EffectForms
    <3>3. OfferReq[e] = {k} /\ LeaseReq[e] = {}
      BY <3>1, <3>2 DEF OfferReq, LeaseReq
    <3> QED
      BY <3>1, <3>3
  <2>2. CASE \E k \in Keys : e \in Requests /\ e = Fetch(k, Committed(t, s, k[1], k[2]))
    <3>1. PICK k \in Keys : e \in Requests /\ e = Fetch(k, Committed(t, s, k[1], k[2]))
      BY <2>2
    <3>2. e.op = "fetch" /\ e.want = Committed(t, s, k[1], k[2]) /\ e.peer = k[1]
      BY <3>1, EffectForms
    <3>3. /\ OfferReq[e] = {}
          /\ LeaseReq[e] = {w \in Chunks \X Peers :
                              w[1] \in Committed(t, s, k[1], k[2]) /\ w[2] = k[1]}
      BY <3>1, <3>2 DEF OfferReq, LeaseReq
    <3> QED
      BY <3>1, <3>3
  <2> QED
    BY <2>1, <2>2, RoundSent
<1>4. Sends(t.offer_open, s.offer_open, fx, OfferReq)
  <2>1. ASSUME NEW r \in fx, NEW i \in OfferReq[r]
        PROVE  i \in s.offer_open \ t.offer_open /\ r = Offer(i, NextStart(s.logs[i]))
    BY <1>3
  <2>2. ASSUME NEW i \in s.offer_open \ t.offer_open
        PROVE  \E r \in fx : i \in OfferReq[r]
    <3> DEFINE r == Offer(i, NextStart(s.logs[i]))
    <3>1. r \in RoundFx(t, s)
      BY <1>1 DEF RoundFx
    <3>2. r.op = "offer" /\ i \in Keys /\ At(r) = i
      BY <1>2, EffectForms
    <3>3. r \in fx
      BY <1>1, <3>1, <3>2 DEF NetFx
    <3> HIDE DEF r
    <3>4. r \in Requests
      BY <1>3, <3>3
    <3> QED
      BY <3>2, <3>3, <3>4 DEF OfferReq
  <2> QED
    BY <1>2, <2>1, <2>2 DEF Sends
<1>5. Sends(Leases(t), Leases(s), fx, LeaseReq)
  <2> DEFINE Carrier(i) == Fetch(<<i[2], BinOf(s, i[1])>>,
                                 Committed(t, s, i[2], BinOf(s, i[1])))
  <2>1. Leases(t) \subseteq Leases(s)
    BY <1>1 DEF Rounded, Leases
  <2>2. ASSUME NEW r \in fx, NEW i \in LeaseReq[r]
        PROVE  i \in Leases(s) \ Leases(t) /\ r = Carrier(i)
    <3>1. PICK k \in Keys :
            /\ r = Fetch(k, Committed(t, s, k[1], k[2]))
            /\ LeaseReq[r] = {w \in Chunks \X Peers :
                                w[1] \in Committed(t, s, k[1], k[2]) /\ w[2] = k[1]}
      BY <1>3
    <3>2. i \in Chunks \X Peers /\ i[1] \in Committed(t, s, k[1], k[2]) /\ i[2] = k[1]
      BY <3>1
    <3>3. i[2] \in s.m.want[i[1]] \ t.m.want[i[1]] /\ BinOf(s, i[1]) = k[2]
      BY <3>2 DEF Committed
    <3>4. k = <<i[2], BinOf(s, i[1])>>
      BY <3>2, <3>3, EffectForms
    <3> QED
      BY <3>1, <3>2, <3>3, <3>4 DEF Leases
  <2>3. ASSUME NEW i \in Leases(s) \ Leases(t)
        PROVE  \E r \in fx : i \in LeaseReq[r]
    <3> DEFINE c == i[1]
               p == i[2]
               k == <<p, BinOf(s, c)>>
               W == Committed(t, s, p, BinOf(s, c))
               r == Fetch(k, W)
    <3>1. i \in Chunks \X Peers /\ c \in Chunks /\ p \in Peers /\ p \in s.m.want[c] \ t.m.want[c]
      BY DEF Leases
    <3>2. c \in s.m.arrived
      BY <1>1, <3>1 DEF Rounded
    <3>3. BinOf(s, c) \in Bins
      BY <1>2, <3>2 DEF BinOf
    <3>4. k \in Keys /\ k[1] = p /\ k[2] = BinOf(s, c)
      BY <3>1, <3>3 DEF Keys
    <3>5. c \in W
      BY <3>1 DEF Committed
    <3> HIDE DEF k, W
    <3>6. r.op = "fetch" /\ r.want = W /\ r.peer = p
      BY <3>4, EffectForms
    <3>7. W = Committed(t, s, k[1], k[2])
      BY <3>4 DEF W
    <3>8. r \in RoundFx(t, s)
      BY <3>4, <3>5, <3>7 DEF RoundFx
    <3>9. r \in fx
      BY <1>1, <3>6, <3>8 DEF NetFx
    <3> HIDE DEF r, c, p
    <3>10. r \in Requests
      BY <1>3, <3>9
    <3>11. i \in LeaseReq[r]
      BY <3>1, <3>5, <3>6, <3>10 DEF LeaseReq, c, p
    <3> QED
      BY <3>9, <3>11
  <2> HIDE DEF Carrier
  <2> QED
    BY <2>1, <2>2, <2>3 DEF Sends
<1> QED
  BY <1>4, <1>5

-----------------------------------------------------------------------------
(* What each event does with the claims: it ends some of them, and then    *)
(* takes others up.  F and L are the flags and the leases in between.      *)

Claimed(s, fx, F, L) ==
  /\ Sends(F, s.offer_open, NetFx(fx), OfferReq)
  /\ Sends(L, Leases(s), NetFx(fx), LeaseReq)

LEMMA SeenClaims ==
  ASSUME NEW n, NodeOK(n), NEW p \in Peers
  PROVE  Claimed(PeerSeen(n, p).node, PeerSeen(n, p).fx, n.offer_open, Leases(n))
<1> DEFINE s == PeerSeen(n, p).node
           fx == NetFx(PeerSeen(n, p).fx)
<1>1. s.offer_open = n.offer_open /\ s.m = n.m
  BY DEF PeerSeen, Quiet, NodeOK, NodeState
<1>2. PeerSeen(n, p).fx \in {{}, {GetCursors(p)}}
  BY DEF PeerSeen, Quiet
<1>3. \A r \in fx : r = GetCursors(p)
  BY <1>2 DEF NetFx
<1>4. GetCursors(p) \in Requests /\ GetCursors(p).op = "cursors"
  BY EffectForms
<1>5. OfferReq[GetCursors(p)] = {} /\ LeaseReq[GetCursors(p)] = {}
  BY <1>4 DEF OfferReq, LeaseReq
<1>6. Leases(s) = Leases(n)
  BY <1>1 DEF Leases
<1> HIDE DEF s, fx
<1>7. /\ Sends(n.offer_open, s.offer_open, fx, OfferReq)
      /\ Sends(Leases(n), Leases(s), fx, LeaseReq)
  BY <1>1, <1>3, <1>5, <1>6 DEF Sends
<1> QED
  BY <1>7 DEF Claimed, s, fx

LEMMA TickClaims ==
  ASSUME NEW n, NodeOK(n)
  PROVE  Claimed(Tick(n).node, Tick(n).fx, n.offer_open, Leases(n))
<1> DEFINE s == Tick(n).node
<1>1. /\ NodeOK(s) /\ s.m = n.m /\ n.offer_open \subseteq s.offer_open
      /\ s.offer_open \ n.offer_open \subseteq DOMAIN s.logs
      /\ Tick(n).fx = OfferFx(n, s)
  BY TickFacts
<1> HIDE DEF s
<1>2. /\ Sends(n.offer_open, s.offer_open, NetFx(OfferFx(n, s)), OfferReq)
      /\ Sends(Leases(n), Leases(s), NetFx(OfferFx(n, s)), LeaseReq)
  BY <1>1, OfferSends
<1> QED
  BY <1>1, <1>2 DEF Claimed, s

LEMMA CursorsClaims ==
  ASSUME NEW n, NodeOK(n), NEW p \in Peers, NEW reported \in [Bins -> BinIds]
  PROVE  LET c == CursorsResult(n, p, reported)
         IN Claimed(c.node, c.fx, n.offer_open, Leases(n))
<1> DEFINE s == CursorsResult(n, p, reported).node
<1>1. /\ NodeOK(s) /\ s.m = n.m /\ n.offer_open \subseteq s.offer_open
      /\ s.offer_open \ n.offer_open \subseteq DOMAIN s.logs
      /\ CursorsResult(n, p, reported).fx = OfferFx(n, s)
  BY AllHeads, CursorsFacts
<1> HIDE DEF s
<1>2. /\ Sends(n.offer_open, s.offer_open, NetFx(OfferFx(n, s)), OfferReq)
      /\ Sends(Leases(n), Leases(s), NetFx(OfferFx(n, s)), LeaseReq)
  BY <1>1, OfferSends
<1> QED
  BY <1>1, <1>2 DEF Claimed, s

LEMMA RoundClaims ==
  ASSUME NEW t, NodeOK(t)
  PROVE  Claimed(Round(t).node, Round(t).fx, t.offer_open, Leases(t))
BY RoundSends DEF Claimed

\* A departure drops the flags and the leases of the peer.
LEMMA GoneClaims ==
  ASSUME NEW n, NodeOK(n), NEW p \in Peers
  PROVE  \E t : /\ Claimed(PeerGone(n, p).node, PeerGone(n, p).fx, t.offer_open, Leases(t))
                /\ t.offer_open \subseteq n.offer_open /\ Leases(t) \subseteq Leases(n)
<1> DEFINE t == Departed(n, p)
<1>1. /\ PeerGone(n, p) = Round(t) /\ NodeOK(t)
      /\ \A c \in Chunks : t.m.want[c] = n.m.want[c] \ {p}
  BY DepartedFacts
<1>2. t.offer_open \subseteq n.offer_open
  BY DEF Departed, NodeOK, NodeState
<1> HIDE DEF t
<1>3. Leases(t) \subseteq Leases(n)
  BY <1>1 DEF Leases
<1>4. Claimed(PeerGone(n, p).node, PeerGone(n, p).fx, t.offer_open, Leases(t))
  BY <1>1, RoundClaims
<1> QED
  BY <1>2, <1>3, <1>4

\* An answer to an offer drops its flag, and the leases of entries it no longer names.
LEMMA OfferClaims ==
  ASSUME NEW n, NodeOK(n), NEW k \in Keys, NEW start \in BinIds, NEW refs \in Window,
         NEW topmost \in BinIds
  PROVE  LET o == OfferResult(n, k, start, refs, topmost)
         IN \E t : /\ Claimed(o.node, o.fx, t.offer_open, Leases(t))
                   /\ t.offer_open = n.offer_open \ {k} /\ Leases(t) \subseteq Leases(n)
                   /\ Unnamed(LogOf(n, k), start, refs, topmost) = {} => Leases(t) = Leases(n)
<1> DEFINE d == Diffed(n, k, start, refs, topmost)
           t == Ingested(d, k, refs)
           old == LogOf(n, k)
           lost == {old.entries[b] : b \in Unnamed(old, start, refs, topmost)}
<1>1. DiffedTo(n, d, k, start, refs, topmost)
  BY DiffedFacts
<1>2. /\ NodeOK(d) /\ k \in DOMAIN d.logs /\ Lost(n.m, d.m, lost, k[1])
      /\ d.offer_open = n.offer_open \ {k}
  BY <1>1 DEF DiffedTo
<1>3. IngestedTo(d, t, k, refs)
  BY <1>2, IngestedFacts
<1>4. /\ NodeOK(t) /\ t.offer_open = d.offer_open /\ t.m.want = d.m.want
  BY <1>3 DEF IngestedTo, Offered
<1>5. OfferResult(n, k, start, refs, topmost) = Round(t)
  BY DEF OfferResult
<1>6. Unnamed(old, start, refs, topmost) = {} => lost = {}
  OBVIOUS
<1> HIDE DEF d, t, lost, old
<1>7. \A c \in Chunks : /\ d.m.want[c] \subseteq n.m.want[c]
                        /\ lost = {} => d.m.want[c] = n.m.want[c]
  BY <1>2 DEF Lost
<1>8. /\ Leases(t) \subseteq Leases(n)
      /\ lost = {} => Leases(t) = Leases(n)
  BY <1>4, <1>7 DEF Leases
<1>9. Claimed(Round(t).node, Round(t).fx, t.offer_open, Leases(t))
  BY <1>4, RoundClaims
<1> QED
  BY <1>2, <1>4, <1>5, <1>6, <1>8, <1>9 DEF old

\* The result of a fetch ends the leases it reports on.
LEMMA FetchClaims ==
  ASSUME NEW n, NodeOK(n), Exclusive(n.m), n.m.cfg.failover, NEW e \in Answers, e.op = "fetch"
  PROVE  LET o == FetchResult(n, e.peer, e.outcomes)
         IN \E t : /\ Claimed(o.node, o.fx, t.offer_open, Leases(t))
                   /\ t.offer_open = n.offer_open
                   /\ Leases(t) \subseteq Leases(n) \ LeaseAns[e]
                   /\ LeaseAns[e] \subseteq Leases(n) => Leases(t) = Leases(n) \ LeaseAns[e]
<1> DEFINE p == e.peer
           out == e.outcomes
           D == DOMAIN out
           t == Fetched(n, p, out)
<1>1. p \in Peers /\ out \in Partial(Chunks, Outcomes) /\ D \subseteq Chunks
  BY AnswerForms, PartialFacts
<1> HIDE DEF p, out
<1>2. /\ FetchResult(n, p, out) = Round(t) /\ NodeOK(t) /\ t.offer_open = n.offer_open
      /\ Reported(n.m, t.m, D, p, out)
  BY <1>1, FetchedFacts
<1> HIDE DEF t, D
<1>3. \A c \in Chunks :
        /\ t.m.want[c] \subseteq n.m.want[c]
        /\ c \notin D => t.m.want[c] = n.m.want[c]
        /\ c \in D /\ ~Settled(n.m, c) => p \notin t.m.want[c]
  BY <1>2 DEF Reported
<1>4. ASSUME NEW c \in D
      PROVE  p \notin t.m.want[c]
  <2>1. CASE n.m.want[c] = {}
    BY <1>1, <1>3, <2>1
  <2>2. CASE n.m.want[c] # {}
    BY <1>1, <1>3, <2>2, LeasedOpen
  <2> QED
    BY <2>1, <2>2
<1>5. LeaseAns[e] = {w \in Chunks \X Peers : w[1] \in D /\ w[2] = p}
  BY DEF LeaseAns, D, p, out
<1>6. Leases(t) \subseteq Leases(n) \ LeaseAns[e]
  BY <1>3, <1>4, <1>5 DEF Leases
<1>7. ASSUME LeaseAns[e] \subseteq Leases(n), NEW w \in Leases(n) \ LeaseAns[e]
      PROVE  w \in Leases(t)
  <2>1. w \in Chunks \X Peers /\ w[1] \in Chunks /\ w[2] \in Peers /\ w[2] \in n.m.want[w[1]]
    BY DEF Leases
  <2>2. w[1] \notin D
    <3> SUFFICES ASSUME w[1] \in D PROVE FALSE
      OBVIOUS
    <3>1. <<w[1], p>> \in LeaseAns[e]
      BY <1>1, <1>5, <2>1
    <3>2. p \in n.m.want[w[1]]
      BY <1>7, <3>1 DEF Leases
    <3>3. w[2] = p
      BY <2>1, <3>2 DEF Exclusive
    <3> QED
      BY <1>5, <2>1, <3>3
  <2>3. w[2] \in t.m.want[w[1]]
    BY <1>3, <2>1, <2>2
  <2> QED
    BY <2>1, <2>3 DEF Leases
<1>8. Claimed(Round(t).node, Round(t).fx, t.offer_open, Leases(t))
  BY <1>2, RoundClaims
<1> QED
  BY <1>2, <1>6, <1>7, <1>8 DEF p, out

-----------------------------------------------------------------------------
(* What each step of the neighbourhood does with one kind of claims.       *)

\* H becomes G, and the claims that end without their message are none at all
\* (Carried) or any number (Loses).
Carried(H, G, q, a) ==
  \/ G = H /\ reqs' = reqs /\ resps' = resps
  \/ /\ G = H
     /\ \E r \in DOMAIN reqs : \E e \in Answers :
          a[e] = q[r] /\ reqs' = reqs (-) Event(r) /\ resps' = resps (+) Event(e)
  \/ \E fx : Sends(H, G, fx, q) /\ reqs' = reqs (+) SetToBag(fx) /\ resps' = resps
  \/ \E e \in DOMAIN resps : \E fx :
       /\ Sends(H \ a[e], G, fx, q)
       /\ reqs' = reqs (+) SetToBag(fx) /\ resps' = resps (-) Event(e)

Loses(H, G, q, a) ==
  \/ Carried(H, G, q, a)
  \/ \E F, fx : /\ F \subseteq H /\ Sends(F, G, fx, q)
                /\ reqs' = reqs (+) SetToBag(fx) /\ resps' = resps
  \/ \E e \in DOMAIN resps : \E F, fx :
       /\ F \subseteq H \ a[e] /\ Sends(F, G, fx, q)
       /\ reqs' = reqs (+) SetToBag(fx) /\ resps' = resps (-) Event(e)

LEMMA BackedStep ==
  ASSUME NEW H, NEW G, NEW q, NEW a, IsABag(reqs), IsABag(resps), Loses(H, G, q, a),
         Backed(H, reqs, resps, q, a)
  PROVE  Backed(G, reqs', resps', q, a)
<1>1. CASE G = H /\ reqs' = reqs /\ resps' = resps
  BY <1>1
<1>2. ASSUME NEW r \in DOMAIN reqs, NEW e, a[e] = q[r], G = H,
             reqs' = reqs (-) Event(r), resps' = resps (+) Event(e)
      PROVE  Backed(G, reqs', resps', q, a)
  BY <1>2, BackedServed
<1>3. ASSUME NEW F, NEW fx, F \subseteq H, Sends(F, G, fx, q),
             reqs' = reqs (+) SetToBag(fx), resps' = resps
      PROVE  Backed(G, reqs', resps', q, a)
  <2>1. Backed(F, reqs, resps, q, a)
    BY <1>3 DEF Backed
  <2> QED
    BY <1>3, <2>1, BackedSent
<1>4. ASSUME NEW e \in DOMAIN resps, NEW F, NEW fx, F \subseteq H \ a[e], Sends(F, G, fx, q),
             reqs' = reqs (+) SetToBag(fx), resps' = resps (-) Event(e)
      PROVE  Backed(G, reqs', resps', q, a)
  <2>1. Backed(F, reqs, resps', q, a)
    BY <1>4, BackedReceived
  <2> QED
    BY <1>4, <2>1, BackedSent
<1> QED
  BY <1>1, <1>2, <1>3, <1>4 DEF Loses, Carried

LEMMA SingleStep ==
  ASSUME NEW H, NEW G, NEW q, NEW a, IsABag(reqs), IsABag(resps), Carried(H, G, q, a),
         Single(H, reqs, resps, q, a)
  PROVE  Single(G, reqs', resps', q, a)
<1>1. CASE G = H /\ reqs' = reqs /\ resps' = resps
  BY <1>1
<1>2. ASSUME NEW r \in DOMAIN reqs, NEW e, a[e] = q[r], G = H,
             reqs' = reqs (-) Event(r), resps' = resps (+) Event(e)
      PROVE  Single(G, reqs', resps', q, a)
  BY <1>2, SingleServed
<1>3. ASSUME NEW fx, Sends(H, G, fx, q), reqs' = reqs (+) SetToBag(fx), resps' = resps
      PROVE  Single(G, reqs', resps', q, a)
  BY <1>3, SingleSent
<1>4. ASSUME NEW e \in DOMAIN resps, NEW fx, Sends(H \ a[e], G, fx, q),
             reqs' = reqs (+) SetToBag(fx), resps' = resps (-) Event(e)
      PROVE  Single(G, reqs', resps', q, a)
  <2>1. Single(H \ a[e], reqs, resps', q, a)
    BY <1>4, SingleReceived
  <2> QED
    BY <1>4, <2>1, SingleSent
<1> QED
  BY <1>1, <1>2, <1>3, <1>4 DEF Carried

\* An answer carries the claims of its request.
LEMMA AnswerCarries ==
  ASSUME NEW r \in Requests, NEW e \in Answers, e.op = r.op,
         r.op = "offer" => e.key = At(r),
         r.op = "fetch" => e.peer = r.peer /\ DOMAIN e.outcomes = r.want
  PROVE  OfferAns[e] = OfferReq[r] /\ LeaseAns[e] = LeaseReq[r]
<1>1. OfferAns[e] = OfferReq[r]
  BY DEF OfferAns, OfferReq
<1>2. LeaseAns[e] = LeaseReq[r]
  BY DEF LeaseAns, LeaseReq
<1> QED
  BY <1>1, <1>2

\* The steps of the neighbours: nothing, or one request served.
LEMMA NeighbourSteps ==
  ASSUME NetInv,
         \/ UNCHANGED vars
         \/ \E u \in landing : Land(u)
         \/ \E k \in Keys : \E b \in DOMAIN reserve[k] : Evict(k, b)
         \/ \E r \in BagToSet(reqs) : ServeCursors(r)
         \/ \E r \in BagToSet(reqs) : ServeOffer(r)
         \/ \E r \in BagToSet(reqs) : UnderstateOffer(r)
         \/ \E r \in BagToSet(reqs) : ServeFetch(r)
         \/ \E r \in BagToSet(reqs) : MissFetch(r)
  PROVE  /\ Carried(node.offer_open, node'.offer_open, OfferReq, OfferAns)
         /\ Carried(Leases(node), Leases(node'), LeaseReq, LeaseAns)
<1>0. /\ BagToSet(reqs) = DOMAIN reqs /\ DOMAIN reqs \subseteq Requests
      /\ World(node, reserve, heads) /\ heads \in [Keys -> BinIds]
      /\ AllAsked(node, reqs, reserve, heads)
  BY DEF NetInv, AllAsked, BagToSet
<1>1. CASE node' = node /\ reqs' = reqs /\ resps' = resps
  BY <1>1 DEF Carried
<1>2. ASSUME NEW r \in DOMAIN reqs, NEW e \in Answers, Answer(r, e), node' = node,
             OfferAns[e] = OfferReq[r], LeaseAns[e] = LeaseReq[r]
      PROVE  /\ Carried(node.offer_open, node'.offer_open, OfferReq, OfferAns)
             /\ Carried(Leases(node), Leases(node'), LeaseReq, LeaseAns)
  BY <1>2 DEF Carried, Answer
<1>3. ASSUME NEW r \in DOMAIN reqs, ServeCursors(r)
      PROVE  /\ Carried(node.offer_open, node'.offer_open, OfferReq, OfferAns)
             /\ Carried(Leases(node), Leases(node'), LeaseReq, LeaseAns)
  <2> DEFINE hd == [b \in Bins |-> heads[<<r.peer, b>>]]
             e == [op |-> "cursors", peer |-> r.peer, heads |-> hd]
  <2>1. r.peer \in Peers /\ r \in Requests
    BY <1>0, RequestForms
  <2>2. hd \in [Bins -> BinIds]
    BY <1>0, <2>1 DEF Keys
  <2>3. Answer(r, e) /\ node' = node /\ r.op = "cursors"
    BY <1>3 DEF ServeCursors
  <2> HIDE DEF hd
  <2>4. e \in Answers /\ e.op = "cursors"
    BY <2>1, <2>2 DEF Answers
  <2> HIDE DEF e
  <2>5. OfferAns[e] = OfferReq[r] /\ LeaseAns[e] = LeaseReq[r]
    BY <2>1, <2>3, <2>4, AnswerCarries
  <2> QED
    BY <1>2, <2>3, <2>4, <2>5
<1>4. ASSUME NEW r \in DOMAIN reqs, ServeOffer(r) \/ UnderstateOffer(r)
      PROVE  /\ Carried(node.offer_open, node'.offer_open, OfferReq, OfferAns)
             /\ Carried(Leases(node), Leases(node'), LeaseReq, LeaseAns)
  <2>1. PICK e \in Answers : Answer(r, e) /\ e.op = "offer" /\ e.key = At(r)
    BY <1>4, OfferServed
  <2>2. r \in Requests /\ r.op = "offer" /\ node' = node
    BY <1>4, OfferServed
  <2>3. OfferAns[e] = OfferReq[r] /\ LeaseAns[e] = LeaseReq[r]
    BY <2>1, <2>2, AnswerCarries
  <2> QED
    BY <1>2, <2>1, <2>2, <2>3
<1>5. ASSUME NEW r \in DOMAIN reqs, r.op = "fetch", NEW failed,
             Answer(r, FetchAnswer(r, failed)), node' = node
      PROVE  /\ Carried(node.offer_open, node'.offer_open, OfferReq, OfferAns)
             /\ Carried(Leases(node), Leases(node'), LeaseReq, LeaseAns)
  <2> DEFINE e == FetchAnswer(r, failed)
  <2>1. r \in Requests
    BY <1>0
  <2>2. e \in Answers /\ e.op = "fetch" /\ e.peer = r.peer /\ DOMAIN e.outcomes = r.want
    BY <1>5, <2>1, RequestForms, FetchAnswerForm
  <2>3. Answer(r, e)
    BY <1>5
  <2> HIDE DEF e
  <2>4. OfferAns[e] = OfferReq[r] /\ LeaseAns[e] = LeaseReq[r]
    BY <1>5, <2>1, <2>2, AnswerCarries
  <2> QED
    BY <1>2, <1>5, <2>2, <2>3, <2>4
<1>6. ASSUME NEW r \in DOMAIN reqs, ServeFetch(r) \/ MissFetch(r)
      PROVE  /\ Carried(node.offer_open, node'.offer_open, OfferReq, OfferAns)
             /\ Carried(Leases(node), Leases(node'), LeaseReq, LeaseAns)
  BY <1>5, <1>6 DEF ServeFetch, MissFetch
<1>7. CASE UNCHANGED vars
  BY <1>1, <1>7 DEF vars
<1>8. CASE \E u \in landing : Land(u)
  BY <1>1, <1>8 DEF Land
<1>9. CASE \E k \in Keys : \E b \in DOMAIN reserve[k] : Evict(k, b)
  BY <1>1, <1>9 DEF Evict
<1> QED
  BY <1>0, <1>3, <1>4, <1>6, <1>7, <1>8, <1>9

\* An event is fed to the node.
LEMMA FedClaims ==
  ASSUME NEW result, NEW pending, Feed(result, pending), NEW F, NEW L,
         Claimed(result.node, result.fx, F, L)
  PROVE  \E fx : /\ reqs' = pending (+) SetToBag(fx)
                 /\ Sends(F, node'.offer_open, fx, OfferReq)
                 /\ Sends(L, Leases(node'), fx, LeaseReq)
<1>1. /\ node' = result.node
      /\ reqs' = pending (+) SetToBag(NetFx(result.fx))
  BY DEF Feed, AddFx
<1>2. /\ Sends(F, node'.offer_open, NetFx(result.fx), OfferReq)
      /\ Sends(L, Leases(node'), NetFx(result.fx), LeaseReq)
  BY <1>1 DEF Claimed
<1> QED
  BY <1>1, <1>2

\* An event that ends no claim.
LEMMA FedQuietly ==
  ASSUME NEW result, Feed(result, reqs), resps' = resps,
         Claimed(result.node, result.fx, node.offer_open, Leases(node))
  PROVE  /\ Carried(node.offer_open, node'.offer_open, OfferReq, OfferAns)
         /\ Carried(Leases(node), Leases(node'), LeaseReq, LeaseAns)
BY FedClaims DEF Carried

\* A departure.
LEMMA GoneLoses ==
  ASSUME NetInv, NEW p \in Peers, LosePeer(p)
  PROVE  /\ Loses(node.offer_open, node'.offer_open, OfferReq, OfferAns)
         /\ Loses(Leases(node), Leases(node'), LeaseReq, LeaseAns)
<1>1. NodeOK(node) /\ Feed(PeerGone(node, p), reqs) /\ resps' = resps
  BY DEF NetInv, World, LosePeer
<1>2. PICK t : /\ Claimed(PeerGone(node, p).node, PeerGone(node, p).fx, t.offer_open, Leases(t))
               /\ t.offer_open \subseteq node.offer_open /\ Leases(t) \subseteq Leases(node)
  BY <1>1, GoneClaims
<1>3. PICK fx : /\ reqs' = reqs (+) SetToBag(fx)
                /\ Sends(t.offer_open, node'.offer_open, fx, OfferReq)
                /\ Sends(Leases(t), Leases(node'), fx, LeaseReq)
  BY <1>1, <1>2, FedClaims
<1> QED
  BY <1>1, <1>2, <1>3 DEF Loses

\* Only a departure drops a flag whose offer is still in flight.
LEMMA FlagSteps ==
  ASSUME NetInv, [Next]_vars
  PROVE  \/ Carried(node.offer_open, node'.offer_open, OfferReq, OfferAns)
         \/ /\ \E p \in Peers : LosePeer(p)
            /\ Loses(node.offer_open, node'.offer_open, OfferReq, OfferAns)
<1>0. /\ NodeOK(node) /\ DOMAIN resps \subseteq Answers /\ BagToSet(resps) = DOMAIN resps
  BY DEF NetInv, World, AllAnswered, BagToSet
<1>1. ASSUME NEW p \in Peers, SeePeer(p)
      PROVE  Carried(node.offer_open, node'.offer_open, OfferReq, OfferAns)
  BY <1>0, <1>1, SeenClaims, FedQuietly DEF SeePeer
<1>2. CASE Refresh
  BY <1>0, <1>2, TickClaims, FedQuietly DEF Refresh
<1>3. ASSUME NEW e \in DOMAIN resps, Receive(e)
      PROVE  Carried(node.offer_open, node'.offer_open, OfferReq, OfferAns)
  <2>1. e \in Answers /\ Feed(Handle(e), reqs) /\ resps' = resps (-) Event(e)
    BY <1>0, <1>3 DEF Receive
  <2>2. \E F, L : /\ Claimed(Handle(e).node, Handle(e).fx, F, L)
                  /\ F = node.offer_open \ OfferAns[e]
    <3>1. CASE e.op = "cursors"
      <4>1. Handle(e) = CursorsResult(node, e.peer, e.heads) /\ OfferAns[e] = {}
        BY <2>1, <3>1 DEF Handle, OfferAns
      <4>2. Claimed(Handle(e).node, Handle(e).fx, node.offer_open, Leases(node))
        BY <1>0, <2>1, <3>1, <4>1, AnswerForms, CursorsClaims
      <4> QED
        BY <4>1, <4>2
    <3>2. CASE e.op = "offer"
      <4>1. /\ Handle(e) = OfferResult(node, e.key, e.start, e.refs, e.topmost)
            /\ OfferAns[e] = {e.key}
        BY <2>1, <3>2 DEF Handle, OfferAns
      <4>2. /\ e.key \in Keys /\ e.start \in BinIds /\ e.refs \in Window /\ e.topmost \in BinIds
        BY <2>1, <3>2, AnswerForms
      <4>3. PICK t : /\ Claimed(Handle(e).node, Handle(e).fx, t.offer_open, Leases(t))
                     /\ t.offer_open = node.offer_open \ {e.key}
        BY <1>0, <4>1, <4>2, OfferClaims
      <4> QED
        BY <4>1, <4>3
    <3>3. CASE e.op = "fetch"
      <4> DEFINE t == Fetched(node, e.peer, e.outcomes)
      <4>1. Handle(e) = FetchResult(node, e.peer, e.outcomes) /\ OfferAns[e] = {}
        BY <2>1, <3>3 DEF Handle, OfferAns
      <4>2. e.peer \in Peers /\ e.outcomes \in Partial(Chunks, Outcomes)
        BY <2>1, <3>3, AnswerForms
      <4>3. /\ FetchResult(node, e.peer, e.outcomes) = Round(t) /\ NodeOK(t)
            /\ t.offer_open = node.offer_open
        BY <1>0, <4>2, FetchedFacts
      <4> HIDE DEF t
      <4>4. Claimed(Handle(e).node, Handle(e).fx, t.offer_open, Leases(t))
        BY <4>1, <4>3, RoundClaims
      <4> QED
        BY <4>1, <4>3, <4>4
    <3> QED
      BY <2>1, <3>1, <3>2, <3>3, AnswerForms
  <2>3. PICK fx : /\ reqs' = reqs (+) SetToBag(fx)
                  /\ Sends(node.offer_open \ OfferAns[e], node'.offer_open, fx, OfferReq)
    BY <2>1, <2>2, FedClaims
  <2> QED
    BY <2>1, <2>3 DEF Carried
<1> QED
  BY <1>0, <1>1, <1>2, <1>3, GoneLoses, NeighbourSteps DEF Next

\* Leases too; but an answer that no longer names a chunk drops the leases on it.
LEMMA LeaseSteps ==
  ASSUME Cfg.failover, NetInv, Exclusive(node.m), [Next]_vars
  PROVE  \/ Carried(Leases(node), Leases(node'), LeaseReq, LeaseAns)
         \/ /\ Loses(Leases(node), Leases(node'), LeaseReq, LeaseAns)
            /\ \/ \E p \in Peers : LosePeer(p)
               \/ \E e \in DOMAIN resps :
                    /\ e.op = "offer"
                    /\ Unnamed(LogOf(node, e.key), e.start, e.refs, e.topmost) # {}
               \/ \E e \in DOMAIN resps : ~(LeaseAns[e] \subseteq Leases(node))
<1>0. /\ NodeOK(node) /\ DOMAIN resps \subseteq Answers /\ BagToSet(resps) = DOMAIN resps
      /\ node.m.cfg.failover
  BY DEF NetInv, World, AllAnswered, BagToSet
<1>1. ASSUME NEW p \in Peers, SeePeer(p)
      PROVE  Carried(Leases(node), Leases(node'), LeaseReq, LeaseAns)
  BY <1>0, <1>1, SeenClaims, FedQuietly DEF SeePeer
<1>2. CASE Refresh
  BY <1>0, <1>2, TickClaims, FedQuietly DEF Refresh
<1>3. ASSUME NEW e \in DOMAIN resps, Receive(e)
      PROVE  \/ Carried(Leases(node), Leases(node'), LeaseReq, LeaseAns)
             \/ /\ Loses(Leases(node), Leases(node'), LeaseReq, LeaseAns)
                /\ \/ /\ e.op = "offer"
                      /\ Unnamed(LogOf(node, e.key), e.start, e.refs, e.topmost) # {}
                   \/ ~(LeaseAns[e] \subseteq Leases(node))
  <2>1. e \in Answers /\ Feed(Handle(e), reqs) /\ resps' = resps (-) Event(e)
    BY <1>0, <1>3 DEF Receive
  <2>2. ASSUME NEW F, NEW L, Claimed(Handle(e).node, Handle(e).fx, F, L)
        PROVE  /\ L = Leases(node) \ LeaseAns[e]
                    => Carried(Leases(node), Leases(node'), LeaseReq, LeaseAns)
               /\ L \subseteq Leases(node) \ LeaseAns[e]
                    => Loses(Leases(node), Leases(node'), LeaseReq, LeaseAns)
    <3>1. PICK fx : reqs' = reqs (+) SetToBag(fx) /\ Sends(L, Leases(node'), fx, LeaseReq)
      BY <2>1, <2>2, FedClaims
    <3> QED
      BY <2>1, <3>1 DEF Carried, Loses
  <2>3. CASE e.op = "cursors"
    <3>1. Handle(e) = CursorsResult(node, e.peer, e.heads) /\ LeaseAns[e] = {}
      BY <2>1, <2>3 DEF Handle, LeaseAns
    <3>2. Claimed(Handle(e).node, Handle(e).fx, node.offer_open, Leases(node))
      BY <1>0, <2>1, <2>3, <3>1, AnswerForms, CursorsClaims
    <3> QED
      BY <2>2, <3>1, <3>2
  <2>4. CASE e.op = "offer"
    <3>1. /\ Handle(e) = OfferResult(node, e.key, e.start, e.refs, e.topmost)
          /\ LeaseAns[e] = {}
      BY <2>1, <2>4 DEF Handle, LeaseAns
    <3>2. /\ e.key \in Keys /\ e.start \in BinIds /\ e.refs \in Window /\ e.topmost \in BinIds
      BY <2>1, <2>4, AnswerForms
    <3>3. PICK t : /\ Claimed(Handle(e).node, Handle(e).fx, t.offer_open, Leases(t))
                   /\ Leases(t) \subseteq Leases(node)
                   /\ Unnamed(LogOf(node, e.key), e.start, e.refs, e.topmost) = {}
                        => Leases(t) = Leases(node)
      BY <1>0, <3>1, <3>2, OfferClaims
    <3> QED
      BY <2>2, <2>4, <3>1, <3>3
  <2>5. CASE e.op = "fetch"
    <3>1. Handle(e) = FetchResult(node, e.peer, e.outcomes)
      BY <2>5 DEF Handle
    <3>2. PICK t : /\ Claimed(Handle(e).node, Handle(e).fx, t.offer_open, Leases(t))
                   /\ Leases(t) \subseteq Leases(node) \ LeaseAns[e]
                   /\ LeaseAns[e] \subseteq Leases(node)
                        => Leases(t) = Leases(node) \ LeaseAns[e]
      BY <1>0, <2>1, <2>5, <3>1, FetchClaims
    <3> QED
      BY <2>2, <3>2
  <2> QED
    BY <2>1, <2>3, <2>4, <2>5, AnswerForms
<1> QED
  BY <1>0, <1>1, <1>2, <1>3, GoneLoses, NeighbourSteps DEF Next

LEMMA LeasesBackedAlways ==
  ASSUME Cfg.dedup, Cfg.failover
  PROVE  Spec => []Backed(Leases(node), reqs, resps, LeaseReq, LeaseAns)
<1> DEFINE Inv == Backed(Leases(node), reqs, resps, LeaseReq, LeaseAns)
<1>1. Init => Inv
  <2> SUFFICES ASSUME Init PROVE Leases(node) = {}
    BY DEF Backed
  <2>1. node.m = New(Cfg)
    BY NewNodeOK DEF Init
  <2>2. \A c \in Chunks : node.m.want[c] = {}
    BY <2>1 DEF New, Nowhere
  <2> QED
    BY <2>2 DEF Leases
<1>2. NetInv /\ Exclusive(node.m) /\ Inv /\ [Next]_vars => Inv'
  <2> SUFFICES ASSUME NetInv, Exclusive(node.m), Inv, [Next]_vars PROVE Inv'
    OBVIOUS
  <2>1. IsABag(reqs) /\ IsABag(resps)
    BY DEF NetInv, AllAsked, AllAnswered
  <2>2. Loses(Leases(node), Leases(node'), LeaseReq, LeaseAns)
    BY LeaseSteps DEF Loses
  <2>3. Backed(Leases(node'), reqs', resps', LeaseReq, LeaseAns)
    BY <2>1, <2>2, BackedStep
  <2> QED
    BY <2>3 DEF Leases, OfferReq, LeaseReq, LeaseAns
<1> QED
  BY <1>1, <1>2, NetInductive, ExclusiveAlways, PTL DEF Spec

\* Every lease has a fetch in flight, so its result will end it: no chunk waits for
\* a request that was never sent or whose answer has been used up, whatever was
\* lost, evicted, refused or answered late.
THEOREM LeasesAreBacked ==
  ASSUME Cfg.dedup, Cfg.failover
  PROVE  Spec => []LeaseBacked
<1>1. NetInv /\ Backed(Leases(node), reqs, resps, LeaseReq, LeaseAns) => LeaseBacked
  <2> SUFFICES ASSUME NetInv, Backed(Leases(node), reqs, resps, LeaseReq, LeaseAns),
                      NEW c \in Chunks, NEW p \in node.m.want[c]
               PROVE  FetchesFor(c, p) # {}
    BY DEF LeaseBacked
  <2>1. DOMAIN reqs \subseteq Requests /\ DOMAIN resps \subseteq Answers
    BY DEF NetInv, AllAsked, AllAnswered
  <2>2. p \in Peers
    BY NodeParts DEF NetInv, World, NodeOK
  <2>3. <<c, p>> \in Leases(node)
    BY <2>2 DEF Leases
  <2>4. CASE \E r \in DOMAIN reqs : <<c, p>> \in LeaseReq[r]
    BY <2>1, <2>4 DEF LeaseReq, FetchesFor, BagToSet
  <2>5. CASE \E e \in DOMAIN resps : <<c, p>> \in LeaseAns[e]
    BY <2>1, <2>5 DEF LeaseAns, FetchesFor, BagToSet
  <2> QED
    BY <2>3, <2>4, <2>5 DEF Backed
<1> QED
  BY <1>1, NetInductive, LeasesBackedAlways, PTL

-----------------------------------------------------------------------------
(* The budgets, and what holds until the first departure or eviction.      *)

BudgetOK ==
  /\ budget \in [miss : Nat, under : Nat, gone : Nat, tick : Nat, evict : Nat]
  /\ budget.gone <= MaxGone /\ budget.evict <= MaxEvict

\* No peer has left yet, and none has evicted anything.
NoneGone == budget.gone = MaxGone
NoneEvicted == budget.evict = MaxEvict

\* A budget is spent for good.
LEMMA BudgetNext ==
  ASSUME BudgetOK, [Next]_vars
  PROVE  /\ BudgetOK'
         /\ NoneGone' => NoneGone /\ \A p \in Peers : ~LosePeer(p)
         /\ NoneEvicted' => NoneEvicted /\ \A k \in Keys : \A b : ~Evict(k, b)
<1>0. MaxGone \in Nat /\ MaxEvict \in Nat
  BY NetConstants
<1>1. CASE budget' = budget
  <2>1. BudgetOK' /\ (NoneGone' => NoneGone) /\ (NoneEvicted' => NoneEvicted)
    BY <1>1 DEF BudgetOK, NoneGone, NoneEvicted
  <2>2. \A p \in Peers : ~LosePeer(p)
    BY <1>1 DEF BudgetOK, LosePeer, Spend
  <2>3. \A k \in Keys : \A b : ~Evict(k, b)
    BY <1>1 DEF BudgetOK, Evict, Spend
  <2> QED
    BY <2>1, <2>2, <2>3
<1>2. ASSUME NEW p \in Peers, LosePeer(p)
      PROVE  /\ BudgetOK' /\ ~NoneGone' /\ (NoneEvicted' => NoneEvicted)
             /\ \A k \in Keys : \A b : ~Evict(k, b)
  <2>1. budget.gone > 0 /\ budget' = [budget EXCEPT !["gone"] = @ - 1]
    BY <1>2 DEF LosePeer, Spend
  <2>2. /\ budget' \in [miss : Nat, under : Nat, gone : Nat, tick : Nat, evict : Nat]
        /\ budget'.gone = budget.gone - 1 /\ budget'.evict = budget.evict
    BY <2>1 DEF BudgetOK
  <2>3. \A k \in Keys : \A b : ~Evict(k, b)
    BY <2>2 DEF BudgetOK, Evict, Spend
  <2> QED
    BY <1>0, <2>1, <2>2, <2>3 DEF BudgetOK, NoneGone, NoneEvicted
<1>3. ASSUME NEW k \in Keys, NEW b, Evict(k, b)
      PROVE  /\ BudgetOK' /\ ~NoneEvicted' /\ (NoneGone' => NoneGone)
             /\ \A p \in Peers : ~LosePeer(p)
  <2>1. budget.evict > 0 /\ budget' = [budget EXCEPT !["evict"] = @ - 1]
    BY <1>3 DEF Evict, Spend
  <2>2. /\ budget' \in [miss : Nat, under : Nat, gone : Nat, tick : Nat, evict : Nat]
        /\ budget'.evict = budget.evict - 1 /\ budget'.gone = budget.gone
    BY <2>1 DEF BudgetOK
  <2>3. \A p \in Peers : ~LosePeer(p)
    BY <2>2 DEF BudgetOK, LosePeer, Spend
  <2> QED
    BY <1>0, <2>1, <2>2, <2>3 DEF BudgetOK, NoneGone, NoneEvicted
<1>4. ASSUME NEW what \in {"tick", "miss", "under"}, Spend(what)
      PROVE  /\ BudgetOK' /\ (NoneGone' => NoneGone) /\ (NoneEvicted' => NoneEvicted)
             /\ \A p \in Peers : ~LosePeer(p)
             /\ \A k \in Keys : \A b : ~Evict(k, b)
  <2>1. budget[what] > 0 /\ budget' = [budget EXCEPT ![what] = @ - 1]
    BY <1>4 DEF Spend
  <2>2. /\ budget' \in [miss : Nat, under : Nat, gone : Nat, tick : Nat, evict : Nat]
        /\ budget'.evict = budget.evict /\ budget'.gone = budget.gone
    <3>1. CASE what = "tick"
      BY <2>1, <3>1 DEF BudgetOK
    <3>2. CASE what = "miss"
      BY <2>1, <3>2 DEF BudgetOK
    <3>3. CASE what = "under"
      BY <2>1, <3>3 DEF BudgetOK
    <3> QED
      BY <3>1, <3>2, <3>3
  <2>3. \A p \in Peers : ~LosePeer(p)
    BY <2>2 DEF BudgetOK, LosePeer, Spend
  <2>4. \A k \in Keys : \A b : ~Evict(k, b)
    BY <2>2 DEF BudgetOK, Evict, Spend
  <2> QED
    BY <2>2, <2>3, <2>4 DEF BudgetOK, NoneGone, NoneEvicted
<1>5. CASE Refresh
  BY <1>4, <1>5 DEF Refresh
<1>6. ASSUME NEW r
      PROVE  (MissFetch(r) => Spend("miss")) /\ (UnderstateOffer(r) => Spend("under"))
  BY DEF MissFetch, UnderstateOffer
<1>7. \/ budget' = budget
      \/ \E p \in Peers : LosePeer(p)
      \/ \E k \in Keys : \E b : Evict(k, b)
      \/ Refresh
      \/ \E r : MissFetch(r) \/ UnderstateOffer(r)
  BY DEF Next, vars, SeePeer, Land, ServeCursors, ServeOffer, ServeFetch, Receive
<1> QED
  BY <1>1, <1>2, <1>3, <1>4, <1>5, <1>6, <1>7

LEMMA BudgetAlways == Spec => []BudgetOK
<1>1. Init => BudgetOK
  BY NetConstants DEF Init, BudgetOK
<1>2. BudgetOK /\ [Next]_vars => BudgetOK'
  BY BudgetNext
<1> QED
  BY <1>1, <1>2, PTL DEF Spec

Flags == Single(node.offer_open, reqs, resps, OfferReq, OfferAns)
FlagsBacked == Backed(node.offer_open, reqs, resps, OfferReq, OfferAns)

LEMMA FlagsAlways == Spec => [](FlagsBacked /\ (NoneGone => Flags))
<1> DEFINE Inv == FlagsBacked /\ (NoneGone => Flags)
<1>1. Init => Inv
  <2> SUFFICES ASSUME Init PROVE node.offer_open = {} /\ DOMAIN reqs = {} /\ DOMAIN resps = {}
    BY DEF Flags, FlagsBacked, Backed, Single
  <2>1. node.offer_open = {}
    BY DEF Init, NewNode
  <2> QED
    BY <2>1 DEF Init, EmptyBag, SetToBag
<1>2. NetInv /\ BudgetOK /\ Inv /\ [Next]_vars => Inv'
  <2> SUFFICES ASSUME NetInv, BudgetOK, Inv, [Next]_vars PROVE Inv'
    OBVIOUS
  <2>1. IsABag(reqs) /\ IsABag(resps)
    BY DEF NetInv, AllAsked, AllAnswered
  <2>2. Loses(node.offer_open, node'.offer_open, OfferReq, OfferAns)
    BY FlagSteps DEF Loses
  <2>3. Backed(node'.offer_open, reqs', resps', OfferReq, OfferAns)
    BY <2>1, <2>2, BackedStep DEF FlagsBacked
  <2>4. ASSUME NoneGone'
        PROVE  Single(node'.offer_open, reqs', resps', OfferReq, OfferAns)
    <3>1. NoneGone /\ \A p \in Peers : ~LosePeer(p)
      BY <2>4, BudgetNext
    <3>2. Carried(node.offer_open, node'.offer_open, OfferReq, OfferAns)
      BY <3>1, FlagSteps
    <3> QED
      BY <2>1, <3>1, <3>2, SingleStep DEF Flags
  <2> QED
    BY <2>3, <2>4 DEF FlagsBacked, Flags
<1> QED
  BY <1>1, <1>2, NetInductive, BudgetAlways, PTL DEF Spec

\* A request is no answer.
LEMMA Disjoint ==
  ASSUME NEW x, x.op = "offer"
  PROVE  ~(x \in Requests /\ x \in Answers)
<1> SUFFICES ASSUME x \in Requests, x \in Answers PROVE FALSE
  OBVIOUS
<1>1. x \in [op : {"offer"}, peer : Peers, bin : Bins, start : BinIds]
  BY DEF Requests
<1>2. x \in [op : {"offer"}, key : Keys, start : BinIds, refs : Window, topmost : BinIds]
  BY DEF Answers
<1>3. "peer" \in DOMAIN x /\ "peer" \notin DOMAIN x
  BY <1>1, <1>2
<1> QED
  BY <1>3

\* One open offer per (peer, bin), as long as no peer leaves: the flag is set
\* exactly while one offer is in flight, in one copy.
THEOREM OneOfferOpen == Spec => [](NoneGone => OneOffer)
<1>1. NetInv /\ FlagsBacked /\ (NoneGone => Flags) => (NoneGone => OneOffer)
  <2> SUFFICES ASSUME NetInv, FlagsBacked, Flags, NEW k \in Keys
               PROVE  /\ k \in node.offer_open <=> OffersFor(k) # {}
                      /\ Cardinality(OffersFor(k)) <= 1
                      /\ \A e \in OffersFor(k) : Copies(e) = 1
    BY DEF OneOffer
  <2> DEFINE S == OffersFor(k)
  <2>1. /\ DOMAIN reqs \subseteq Requests /\ DOMAIN resps \subseteq Answers
        /\ IsABag(reqs) /\ IsABag(resps)
    BY DEF NetInv, AllAsked, AllAnswered
  <2>2. \A e : e \in S <=> \/ e \in DOMAIN reqs /\ k \in OfferReq[e]
                           \/ e \in DOMAIN resps /\ k \in OfferAns[e]
    <3>1. \A e \in DOMAIN reqs :
            k \in OfferReq[e] <=> e.op = "offer" /\ e.peer = k[1] /\ e.bin = k[2]
      BY <2>1, EffectForms DEF OfferReq, At
    <3>2. \A e \in DOMAIN resps : k \in OfferAns[e] <=> e.op = "offer" /\ e.key = k
      BY <2>1 DEF OfferAns
    <3> QED
      BY <3>1, <3>2 DEF OffersFor, BagToSet
  <2> HIDE DEF S
  <2>3. k \in node.offer_open <=> S # {}
    <3>1. k \in node.offer_open => S # {}
      BY <2>2 DEF FlagsBacked, Backed
    <3>2. S # {} => k \in node.offer_open
      BY <2>2 DEF Flags, Single
    <3> QED
      BY <3>1, <3>2
  <2>4. ASSUME NEW e \in S
        PROVE  Copies(e) = 1 /\ S = {e}
    <3>1. CASE e \in DOMAIN reqs /\ k \in OfferReq[e]
      <4>1. CopiesOf(e, reqs) = 1 /\ S = {e}
        BY <2>2, <3>1 DEF Flags, Single
      <4>2. e.op = "offer" /\ e \in Requests
        BY <2>1, <3>1 DEF OfferReq
      <4>3. CopiesOf(e, resps) = 0
        BY <2>1, <4>2, Disjoint, CopiesZero
      <4> QED
        BY <4>1, <4>3 DEF Copies
    <3>2. CASE e \in DOMAIN resps /\ k \in OfferAns[e]
      <4>1. CopiesOf(e, resps) = 1 /\ S = {e}
        BY <2>2, <3>2 DEF Flags, Single
      <4>2. e.op = "offer" /\ e \in Answers
        BY <2>1, <3>2 DEF OfferAns
      <4>3. CopiesOf(e, reqs) = 0
        BY <2>1, <4>2, Disjoint, CopiesZero
      <4> QED
        BY <4>1, <4>3 DEF Copies
    <3> QED
      BY <2>2, <3>1, <3>2
  <2>5. Cardinality(S) \in {0, 1}
    <3>1. CASE S = {}
      BY <3>1, FS_EmptySet
    <3>2. CASE S # {}
      <4>1. PICK e \in S : TRUE
        BY <3>2
      <4>2. S = {e}
        BY <2>4
      <4> QED
        BY <4>2, FS_Singleton
    <3> QED
      BY <3>1, <3>2
  <2> QED
    BY <2>3, <2>4, <2>5 DEF S
<1> QED
  BY <1>1, NetInductive, FlagsAlways, PTL

-----------------------------------------------------------------------------
(* Until the first eviction the windows, and the answers on their way to   *)
(* them, show the reserves as they are.                                    *)

Current(n, res) == \A k \in DOMAIN n.logs : Agrees(n.logs[k].entries, res[k])

CurrentAnswers(B, res) == \A e \in DOMAIN B : e.op = "offer" => Agrees(e.refs, res[e.key])

\* A round, and an answer, keep the windows current.
LEMMA CurrentRound ==
  ASSUME NEW n, NodeOK(n), NEW res, Current(n, res), NEW s, s = Round(n).node
  PROVE  Current(s, res)
<1>1. Rounded(n, s)
  BY RoundFacts
<1>2. ASSUME NEW k \in DOMAIN s.logs
      PROVE  Agrees(s.logs[k].entries, res[k])
  <2> DEFINE l == n.logs[k]
             a == s.logs[k]
  <2>1. k \in DOMAIN n.logs /\ a = Advance(l, Done(n)) /\ Sound(l)
    BY <1>1 DEF Rounded, NodeOK
  <2>2. Agrees(l.entries, res[k])
    BY <2>1 DEF Current
  <2> HIDE DEF l, a
  <2>3. /\ DOMAIN a.entries \subseteq DOMAIN l.entries
        /\ \A b \in DOMAIN a.entries : a.entries[b] = l.entries[b]
    BY <2>1, AdvanceSound
  <2>4. Agrees(a.entries, res[k])
    BY <2>2, <2>3 DEF Agrees
  <2> QED
    BY <2>4 DEF a
<1> QED
  BY <1>2 DEF Current

\* A log keeps its entries, and has those of an offer that are past its interval.
Extends(new, old, refs) ==
  /\ \A b \in DOMAIN old.entries : b \in DOMAIN new.entries /\ new.entries[b] = old.entries[b]
  /\ \A b \in DOMAIN refs : b > old.interval =>
       b \in DOMAIN new.entries /\ new.entries[b] = refs[b]

\* An answer names all that a current log holds in its range.
LEMMA UnnamedNone ==
  ASSUME NEW log, NEW R, NEW h, Reserve(R, h), Agrees(log.entries, R),
         NEW n, NEW e, e.start \in BinIds, e.topmost \in BinIds, Answered(n, e, R, h)
  PROVE  Unnamed(log, e.start, e.refs, e.topmost) = {}
<1> SUFFICES ASSUME NEW b \in DOMAIN log.entries, b >= e.start, b <= e.topmost
             PROVE  b \in DOMAIN e.refs
  BY DEF Unnamed
<1>1. b \in DOMAIN R
  BY DEF Agrees
<1>2. e.start \in Nat /\ b \in Nat
  BY <1>1, ReserveFacts, LogTypes
<1>3. Spans(e, b)
  BY <1>2 DEF Spans
<1> QED
  BY <1>1, <1>3 DEF Answered

\* What an answer leaves of its log, when all it shows is current: everything
\* that was there, and its own entries past the interval.
LEMMA AnswerKeeps ==
  ASSUME NEW n, NodeOK(n), NEW k \in Keys, NEW e,
         e.start \in BinIds, e.refs \in Window, e.topmost \in BinIds,
         NEW R, Agrees(LogOf(n, k).entries, R), Agrees(e.refs, R),
         NEW h, Reserve(R, h), Answered(n, e, R, h),
         NEW d, DiffedTo(n, d, k, e.start, e.refs, e.topmost),
         NEW s, IngestedTo(d, s, k, e.refs)
  PROVE  /\ Unnamed(LogOf(n, k), e.start, e.refs, e.topmost) = {}
         /\ Agrees(s.logs[k].entries, R)
         /\ Extends(s.logs[k], LogOf(n, k), e.refs)
<1> DEFINE old == LogOf(n, k)
           lost == Unnamed(old, e.start, e.refs, e.topmost)
           mid == d.logs[k]
           new == s.logs[k]
<1>1. lost = {}
  BY UnnamedNone
<1>2. /\ Sound(mid) /\ mid.interval = old.interval
      /\ DOMAIN mid.entries = DOMAIN old.entries \ lost
      /\ \A b \in DOMAIN old.entries \ lost : mid.entries[b] = old.entries[b]
  BY DEF DiffedTo, NodeOK
<1>3. new = ObserveAll(mid, e.refs)
  BY DEF IngestedTo
<1> HIDE DEF old, lost, mid, new
<1> DEFINE news == {b \in DOMAIN e.refs : b > mid.interval}
<1>4. /\ DOMAIN new.entries = DOMAIN mid.entries \cup news
      /\ \A b \in news : new.entries[b] = e.refs[b]
      /\ \A b \in DOMAIN mid.entries \ news : new.entries[b] = mid.entries[b]
  BY <1>2, <1>3, ObserveSound
<1>5. Agrees(old.entries, R) /\ Agrees(e.refs, R)
  BY DEF old
<1>6. \A b \in news : b \in DOMAIN e.refs
  OBVIOUS
<1>7. \A b \in DOMAIN e.refs : b > old.interval => b \in news
  BY <1>2
<1> HIDE DEF news
<1>8. \A b \in DOMAIN old.entries : b \in DOMAIN new.entries /\ new.entries[b] = old.entries[b]
  BY <1>1, <1>2, <1>4, <1>5, <1>6 DEF Agrees
<1>9. \A b \in DOMAIN new.entries : b \in DOMAIN R /\ new.entries[b] = R[b]
  BY <1>1, <1>2, <1>4, <1>5, <1>6 DEF Agrees
<1>10. \A b \in DOMAIN e.refs : b > old.interval =>
         b \in DOMAIN new.entries /\ new.entries[b] = e.refs[b]
  BY <1>4, <1>7
<1> QED
  BY <1>1, <1>8, <1>9, <1>10 DEF Agrees, Extends, old, lost, new

LEMMA NewLogAgrees == \A R : Agrees(NewLog.entries, R)
<1>1. DOMAIN NewLog.entries = {}
  BY DEF NewLog, Resume, EmptyWindow
<1> QED
  BY <1>1 DEF Agrees

\* The intermediate state of the offer arm, current when the answer is.
LEMMA OfferVia ==
  ASSUME NEW n, NEW res, NEW hd, World(n, res, hd), NEW e \in Answers, e.op = "offer",
         Answered(n, e, res[e.key], hd[e.key]), Current(n, res), Agrees(e.refs, res[e.key])
  PROVE  \E d, t : /\ OfferResult(n, e.key, e.start, e.refs, e.topmost) = Round(t)
                   /\ DiffedTo(n, d, e.key, e.start, e.refs, e.topmost)
                   /\ IngestedTo(d, t, e.key, e.refs)
                   /\ NodeOK(t) /\ Current(t, res)
<1> DEFINE k == e.key
           d == Diffed(n, k, e.start, e.refs, e.topmost)
           t == Ingested(d, k, e.refs)
<1>1. /\ NodeOK(n) /\ k \in Keys /\ e.start \in BinIds /\ e.refs \in Window
      /\ e.topmost \in BinIds /\ Reserve(res[k], hd[k])
  BY AnswerForms DEF World
<1>2. DiffedTo(n, d, k, e.start, e.refs, e.topmost)
  BY <1>1, DiffedFacts
<1>3. NodeOK(d) /\ k \in DOMAIN d.logs
  BY <1>2 DEF DiffedTo
<1>4. IngestedTo(d, t, k, e.refs)
  BY <1>1, <1>3, IngestedFacts
<1>5. OfferResult(n, k, e.start, e.refs, e.topmost) = Round(t)
  BY DEF OfferResult
<1> HIDE DEF d, t
<1>6. /\ NodeOK(t) /\ DOMAIN t.logs = DOMAIN n.logs \cup {k}
      /\ \A l \in DOMAIN n.logs \ {k} : t.logs[l] = n.logs[l]
  BY <1>2, <1>4 DEF DiffedTo, IngestedTo
<1>7. Agrees(LogOf(n, k).entries, res[k])
  BY NewLogAgrees DEF LogOf, Current
<1>8. Agrees(t.logs[k].entries, res[k])
  BY <1>1, <1>2, <1>4, <1>7, AnswerKeeps
<1>9. \A l \in DOMAIN n.logs : Agrees(n.logs[l].entries, res[l])
  BY DEF Current
<1>10. \A l \in DOMAIN t.logs : Agrees(t.logs[l].entries, res[l])
  BY <1>6, <1>8, <1>9
<1>11. Current(t, res)
  BY <1>10 DEF Current
<1> QED
  BY <1>2, <1>4, <1>5, <1>6, <1>11

\* Events that leave every window alone or drop it.
LEMMA CurrentFewer ==
  ASSUME NEW n, NEW t, NEW res, Current(n, res),
         \A k \in DOMAIN t.logs : t.logs[k] = NewLog \/ (k \in DOMAIN n.logs /\ t.logs[k] = n.logs[k])
  PROVE  Current(t, res)
BY NewLogAgrees DEF Current

LEMMA CurrentEvents ==
  ASSUME NEW n, NEW res, NEW hd, World(n, res, hd), Current(n, res)
  PROVE  /\ \A p \in Peers : Current(PeerSeen(n, p).node, res)
         /\ \A p \in Peers : Current(PeerGone(n, p).node, res)
         /\ Current(Tick(n).node, res)
         /\ \A p \in Peers : \A reported \in [Bins -> BinIds] :
              Current(CursorsResult(n, p, reported).node, res)
         /\ \A p \in Peers : \A out \in Partial(Chunks, Outcomes) :
              Current(FetchResult(n, p, out).node, res)
<1>0. NodeOK(n)
  BY DEF World
<1>1. ASSUME NEW p \in Peers
      PROVE  Current(PeerSeen(n, p).node, res)
  <2>1. PeerSeen(n, p).node.logs = n.logs
    BY <1>0 DEF PeerSeen, Quiet, NodeOK, NodeState
  <2> QED
    BY <2>1, CurrentFewer
<1>2. ASSUME NEW p \in Peers
      PROVE  Current(PeerGone(n, p).node, res)
  <2> DEFINE t == Departed(n, p)
  <2>1. /\ PeerGone(n, p) = Round(t) /\ NodeOK(t)
        /\ DOMAIN t.logs = {k \in DOMAIN n.logs : k[1] # p}
        /\ \A k \in DOMAIN t.logs : t.logs[k] = n.logs[k]
    BY <1>0, DepartedFacts
  <2> HIDE DEF t
  <2>2. Current(t, res)
    BY <2>1, CurrentFewer
  <2> QED
    BY <2>1, <2>2, CurrentRound
<1>3. Current(Tick(n).node, res)
  <2>1. Tick(n).node.logs = n.logs
    BY <1>0, TickFacts
  <2> QED
    BY <2>1, CurrentFewer
<1>4. ASSUME NEW p \in Peers, NEW reported \in [Bins -> BinIds]
      PROVE  Current(CursorsResult(n, p, reported).node, res)
  <2> DEFINE t == CursorsResult(n, p, reported).node
  <2>1. \A k \in DOMAIN t.logs : t.logs[k] = IF k \in DOMAIN n.logs THEN n.logs[k] ELSE NewLog
    BY <1>0, AllHeads, CursorsFacts
  <2> HIDE DEF t
  <2>2. Current(t, res)
    BY <2>1, CurrentFewer
  <2> QED
    BY <2>2 DEF t
<1>5. ASSUME NEW p \in Peers, NEW out \in Partial(Chunks, Outcomes)
      PROVE  Current(FetchResult(n, p, out).node, res)
  <2> DEFINE t == Fetched(n, p, out)
  <2>1. FetchResult(n, p, out) = Round(t) /\ NodeOK(t) /\ t.logs = n.logs
    BY <1>0, FetchedFacts
  <2> HIDE DEF t
  <2>2. Current(t, res)
    BY <2>1, CurrentFewer
  <2> QED
    BY <2>1, <2>2, CurrentRound
<1> QED
  BY <1>1, <1>2, <1>3, <1>4, <1>5

Mirrors == Current(node, reserve) /\ CurrentAnswers(resps, reserve)

LEMMA MirrorsNext ==
  ASSUME NetInv, Mirrors, [Next]_vars, \A k \in Keys : \A b : ~Evict(k, b)
  PROVE  Mirrors'
<1>0. /\ World(node, reserve, heads) /\ NodeOK(node)
      /\ Current(node, reserve) /\ CurrentAnswers(resps, reserve)
      /\ BagToSet(reqs) = DOMAIN reqs /\ BagToSet(resps) = DOMAIN resps
      /\ DOMAIN reqs \subseteq Requests /\ DOMAIN resps \subseteq Answers
      /\ IsABag(resps) /\ DOMAIN node.logs \subseteq Keys
      /\ reserve \in [Keys -> Window]
  BY NodeParts DEF NetInv, Mirrors, World, AllAsked, AllAnswered, BagToSet, NodeOK
<1>1. ASSUME Current(node', reserve), reserve' = reserve, DOMAIN resps' \subseteq DOMAIN resps
      PROVE  Mirrors'
  BY <1>0, <1>1 DEF Mirrors, CurrentAnswers
<1>2. ASSUME NEW e, node' = node, reserve' = reserve, resps' = resps (+) Event(e),
             e.op = "offer" => Agrees(e.refs, reserve[e.key])
      PROVE  Mirrors'
  <2>1. DOMAIN resps' = DOMAIN resps \cup {e}
    BY <1>0, <1>2, BagAdd DEF Event
  <2>2. CurrentAnswers(resps', reserve)
    BY <1>0, <1>2, <2>1 DEF CurrentAnswers
  <2> QED
    BY <1>0, <1>2, <2>2 DEF Mirrors
<1>3. CASE UNCHANGED vars
  BY <1>0, <1>1, <1>3 DEF vars
<1>4. ASSUME NEW p \in Peers, SeePeer(p)
      PROVE  Mirrors'
  BY <1>0, <1>1, <1>4, CurrentEvents DEF SeePeer, Feed, stores
<1>5. ASSUME NEW p \in Peers, LosePeer(p)
      PROVE  Mirrors'
  BY <1>0, <1>1, <1>5, CurrentEvents DEF LosePeer, Feed, stores
<1>6. CASE Refresh
  BY <1>0, <1>1, <1>6, CurrentEvents DEF Refresh, Feed, stores
<1>7. ASSUME NEW u \in landing, Land(u)
      PROVE  Mirrors'
  <2> DEFINE k == <<u[1], u[2]>>
             h == heads[k]
  <2>1. k \in Keys
    BY NetConstants DEF NetInv, Keys
  <2>2. /\ node' = node /\ resps' = resps
        /\ reserve' = [reserve EXCEPT ![k] = Put(reserve[k], h + 1, u[3])]
    BY <1>7 DEF Land
  <2>3. Reserve(reserve[k], h)
    BY <1>0, <2>1 DEF World
  <2>4. \A b \in DOMAIN reserve[k] : b # h + 1
    <3>1. h \in Nat /\ \A b \in DOMAIN reserve[k] : b \in Nat /\ b <= h
      BY <2>3, ReserveFacts DEF Reserve
    <3> HIDE DEF h
    <3> QED
      BY <3>1
  <2> HIDE DEF k, h
  <2>5. /\ \A b \in DOMAIN reserve[k] : b \in DOMAIN reserve'[k] /\ reserve'[k][b] = reserve[k][b]
        /\ \A l \in Keys \ {k} : reserve'[l] = reserve[l]
    BY <1>0, <2>1, <2>2, <2>4 DEF Put
  <2>6. \A l \in Keys : \A w : Agrees(w, reserve[l]) => Agrees(w, reserve'[l])
    BY <2>5 DEF Agrees
  <2>7. Current(node, reserve')
    BY <1>0, <2>6 DEF Current
  <2>8. CurrentAnswers(resps, reserve')
    BY <1>0, <2>6, AnswerForms DEF CurrentAnswers
  <2> QED
    BY <2>2, <2>7, <2>8 DEF Mirrors
<1>8. ASSUME NEW r \in DOMAIN reqs, ServeCursors(r)
      PROVE  Mirrors'
  <2> DEFINE e == [op |-> "cursors", peer |-> r.peer,
                   heads |-> [b \in Bins |-> heads[<<r.peer, b>>]]]
  <2>1. resps' = resps (+) Event(e) /\ node' = node /\ reserve' = reserve /\ e.op # "offer"
    BY <1>8 DEF ServeCursors, Answer, stores
  <2> HIDE DEF e
  <2> QED
    BY <1>2, <2>1
<1>9. ASSUME NEW r \in DOMAIN reqs, ServeOffer(r) \/ UnderstateOffer(r)
      PROVE  Mirrors'
  <2>1. PICK e \in Answers : Answer(r, e) /\ Agrees(e.refs, reserve[e.key])
    BY <1>9, OfferServed
  <2>2. resps' = resps (+) Event(e) /\ node' = node /\ reserve' = reserve
    BY <1>9, <2>1, OfferServed DEF Answer, stores
  <2> QED
    BY <1>2, <2>1, <2>2
<1>10. ASSUME NEW r \in DOMAIN reqs, ServeFetch(r) \/ MissFetch(r)
       PROVE  Mirrors'
  <2>1. PICK failed : resps' = resps (+) Event(FetchAnswer(r, failed))
    BY <1>10 DEF ServeFetch, MissFetch, Answer
  <2>2. node' = node /\ reserve' = reserve
    BY <1>10 DEF ServeFetch, MissFetch, stores
  <2>3. FetchAnswer(r, failed).op = "fetch"
    BY DEF FetchAnswer
  <2> QED
    BY <1>2, <2>1, <2>2, <2>3
<1>11. ASSUME NEW e \in DOMAIN resps, Receive(e)
       PROVE  Mirrors'
  <2>1. e \in Answers /\ node' = Handle(e).node /\ reserve' = reserve
        /\ resps' = resps (-) Event(e)
    BY <1>0, <1>11 DEF Receive, Feed, stores
  <2>2. DOMAIN resps' \subseteq DOMAIN resps
    BY <1>0, <2>1, BagTake
  <2>3. CASE e.op = "cursors"
    <3>1. node' = CursorsResult(node, e.peer, e.heads).node
      BY <2>1, <2>3 DEF Handle
    <3>2. e.peer \in Peers /\ e.heads \in [Bins -> BinIds]
      BY <2>1, <2>3, AnswerForms
    <3>3. Current(node', reserve)
      BY <1>0, <3>1, <3>2, CurrentEvents
    <3> QED
      BY <1>1, <2>1, <2>2, <3>3
  <2>4. CASE e.op = "offer"
    <3>1. node' = OfferResult(node, e.key, e.start, e.refs, e.topmost).node
      BY <2>1, <2>4 DEF Handle
    <3>2. /\ Answered(node, e, reserve[e.key], heads[e.key])
          /\ Agrees(e.refs, reserve[e.key])
      BY <1>0, <2>4 DEF NetInv, AllAnswered, CurrentAnswers
    <3>3. PICK d, t : /\ OfferResult(node, e.key, e.start, e.refs, e.topmost) = Round(t)
                      /\ NodeOK(t) /\ Current(t, reserve)
      BY <1>0, <2>1, <2>4, <3>2, OfferVia
    <3>4. Current(node', reserve)
      BY <3>1, <3>3, CurrentRound
    <3> QED
      BY <1>1, <2>1, <2>2, <3>4
  <2>5. CASE e.op = "fetch"
    <3>1. node' = FetchResult(node, e.peer, e.outcomes).node
      BY <2>1, <2>5 DEF Handle
    <3>2. e.peer \in Peers /\ e.outcomes \in Partial(Chunks, Outcomes)
      BY <2>1, <2>5, AnswerForms
    <3>3. Current(node', reserve)
      BY <1>0, <3>1, <3>2, CurrentEvents
    <3> QED
      BY <1>1, <2>1, <2>2, <3>3
  <2> QED
    BY <2>1, <2>3, <2>4, <2>5, AnswerForms
<1> QED
  BY <1>0, <1>3, <1>4, <1>5, <1>6, <1>7, <1>8, <1>9, <1>10, <1>11 DEF Next

LEMMA MirrorsAlways == Spec => [](NoneEvicted => Mirrors)
<1>1. Init => Mirrors
  <2> SUFFICES ASSUME Init PROVE DOMAIN node.logs = {} /\ DOMAIN resps = {}
    BY DEF Mirrors, Current, CurrentAnswers
  <2> QED
    BY NewNodeOK DEF Init, EmptyBag, SetToBag
<1>2. NetInv /\ BudgetOK /\ (NoneEvicted => Mirrors) /\ [Next]_vars
        => (NoneEvicted => Mirrors)'
  BY BudgetNext, MirrorsNext
<1> QED
  BY <1>1, <1>2, NetInductive, BudgetAlways, PTL DEF Spec

-----------------------------------------------------------------------------
(* One fetch per lease, until the first departure or eviction.             *)

Untouched == NoneGone /\ NoneEvicted

OneFetch == Single(Leases(node), reqs, resps, LeaseReq, LeaseAns)

\* A current answer names all that its log holds in its range.
LEMMA CurrentNames ==
  ASSUME NetInv, Mirrors, NEW e \in DOMAIN resps, e.op = "offer"
  PROVE  Unnamed(LogOf(node, e.key), e.start, e.refs, e.topmost) = {}
<1>1. Agrees(LogOf(node, e.key).entries, reserve[e.key])
  BY NewLogAgrees DEF LogOf, Mirrors, Current
<1>2. Answered(node, e, reserve[e.key], heads[e.key])
  BY DEF NetInv, AllAnswered
<1>3. /\ e.key \in Keys /\ e.start \in BinIds /\ e.topmost \in BinIds
      /\ Reserve(reserve[e.key], heads[e.key])
  BY AnswerForms DEF NetInv, AllAnswered, World
<1> QED
  BY <1>1, <1>2, <1>3, UnnamedNone

LEMMA OneFetchAlways ==
  ASSUME Cfg.dedup, Cfg.failover
  PROVE  Spec => [](Untouched => OneFetch)
<1> DEFINE Inv == Untouched => OneFetch
<1>1. Init => Inv
  <2> SUFFICES ASSUME Init PROVE DOMAIN reqs = {} /\ DOMAIN resps = {}
    BY DEF OneFetch, Single
  <2> QED
    BY DEF Init, EmptyBag, SetToBag
<1>2. NetInv /\ Exclusive(node.m) /\ BudgetOK /\ (NoneEvicted => Mirrors) /\ Inv /\ [Next]_vars
        => Inv'
  <2> SUFFICES ASSUME NetInv, Exclusive(node.m), BudgetOK, NoneEvicted => Mirrors, Inv,
                      [Next]_vars
               PROVE  Inv'
    OBVIOUS
  <2> SUFFICES ASSUME Untouched' PROVE OneFetch'
    OBVIOUS
  <2>1. IsABag(reqs) /\ IsABag(resps)
    BY DEF NetInv, AllAsked, AllAnswered
  <2>2. Untouched /\ \A p \in Peers : ~LosePeer(p)
    BY BudgetNext DEF Untouched
  <2>3. Mirrors /\ OneFetch
    BY <2>2 DEF Untouched
  <2>4. \A e \in DOMAIN resps : LeaseAns[e] \subseteq Leases(node)
    BY <2>3 DEF OneFetch, Single
  <2>5. Carried(Leases(node), Leases(node'), LeaseReq, LeaseAns)
    BY <2>2, <2>3, <2>4, CurrentNames, LeaseSteps
  <2>6. Single(Leases(node'), reqs', resps', LeaseReq, LeaseAns)
    BY <2>1, <2>3, <2>5, SingleStep DEF OneFetch
  <2> QED
    BY <2>6 DEF OneFetch, Leases, LeaseReq, LeaseAns
<1> QED
  BY <1>1, <1>2, NetInductive, ExclusiveAlways, BudgetAlways, MirrorsAlways, PTL DEF Spec

\* The node's assertion on a payload that arrives holds until the first departure
\* or eviction: it is still leased from the peer that sent it.
THEOREM DeliveriesAreLeased ==
  ASSUME Cfg.dedup, Cfg.failover
  PROVE  Spec => [](Untouched => DeliveryLeased)
<1>1. NetInv /\ OneFetch => DeliveryLeased
  <2> SUFFICES ASSUME NetInv, OneFetch, NEW e \in DOMAIN resps, e.op = "fetch",
                      NEW c \in DOMAIN e.outcomes
               PROVE  e.peer \in node.m.want[c]
    BY DEF DeliveryLeased, BagToSet
  <2>1. e \in Answers
    BY DEF NetInv, AllAnswered
  <2>2. e.peer \in Peers /\ e.outcomes \in Partial(Chunks, Outcomes)
    BY <2>1, AnswerForms
  <2>3. c \in Chunks
    BY <2>2, PartialFacts
  <2>4. <<c, e.peer>> \in LeaseAns[e]
    BY <2>1, <2>2, <2>3 DEF LeaseAns
  <2>5. <<c, e.peer>> \in Leases(node)
    BY <2>4 DEF OneFetch, Single
  <2> QED
    BY <2>5 DEF Leases
<1> QED
  BY <1>1, NetInductive, OneFetchAlways, PTL

-----------------------------------------------------------------------------
(* The working set, until the first departure or eviction.                 *)

LEMMA InWindows ==
  ASSUME NEW n
  PROVE  \A c : c \in Windowed(n) <=>
           \E k \in DOMAIN n.logs : \E b \in DOMAIN n.logs[k].entries : n.logs[k].entries[b] = c
BY DEF Windowed, WindowOf

\* What a round leaves in the working set is in a window.
LEMMA RoundWindows ==
  ASSUME NEW n, NodeOK(n), DOMAIN n.bin_of \subseteq Windowed(n) \cup Done(n),
         NEW s, s = Round(n).node
  PROVE  DOMAIN s.bin_of \subseteq Windowed(s)
<1>1. Rounded(n, s)
  BY RoundFacts
<1>2. /\ DOMAIN s.bin_of = {c \in DOMAIN n.bin_of : c \notin Done(n) \/ c \in Windowed(s)}
      /\ DOMAIN s.logs = DOMAIN n.logs
      /\ \A k \in DOMAIN n.logs : s.logs[k] = Advance(n.logs[k], Done(n)) /\ Sound(n.logs[k])
  BY <1>1 DEF Rounded, NodeOK
<1>3. ASSUME NEW c \in Windowed(n), c \notin Done(n)
      PROVE  c \in Windowed(s)
  <2>1. PICK k \in DOMAIN n.logs : \E b \in DOMAIN n.logs[k].entries : n.logs[k].entries[b] = c
    BY <1>3, InWindows
  <2> DEFINE l == n.logs[k]
             a == s.logs[k]
  <2>2. PICK b \in DOMAIN l.entries : l.entries[b] = c
    BY <2>1
  <2>3. a = Advance(l, Done(n)) /\ Sound(l) /\ k \in DOMAIN s.logs
    BY <1>2
  <2> HIDE DEF l, a
  <2>4. /\ \A x \in DOMAIN a.entries : a.entries[x] = l.entries[x]
        /\ \A x \in DOMAIN l.entries \ DOMAIN a.entries : l.entries[x] \in Done(n)
    BY <2>3, AdvanceSound
  <2>5. b \in DOMAIN a.entries /\ a.entries[b] = c
    BY <1>3, <2>2, <2>4
  <2> QED
    BY <2>3, <2>5, InWindows DEF a
<1> QED
  BY <1>2, <1>3

\* An answer adds to the working set what it adds to the window, or what is settled.
LEMMA AnswerWindows ==
  ASSUME NEW n, NEW res, NEW hd, World(n, res, hd), NEW e \in Answers, e.op = "offer",
         Answered(n, e, res[e.key], hd[e.key]), Current(n, res), Agrees(e.refs, res[e.key]),
         DOMAIN n.bin_of \subseteq Windowed(n)
  PROVE  DOMAIN OfferResult(n, e.key, e.start, e.refs, e.topmost).node.bin_of
           \subseteq Windowed(OfferResult(n, e.key, e.start, e.refs, e.topmost).node)
<1> DEFINE k == e.key
           old == LogOf(n, k)
           R == res[k]
<1>1. PICK d, t : /\ OfferResult(n, k, e.start, e.refs, e.topmost) = Round(t)
                  /\ DiffedTo(n, d, k, e.start, e.refs, e.topmost)
                  /\ IngestedTo(d, t, k, e.refs)
                  /\ NodeOK(t)
  BY OfferVia
<1>2. /\ NodeOK(n) /\ k \in Keys /\ e.start \in BinIds /\ e.refs \in Window
      /\ e.topmost \in BinIds /\ Reserve(R, hd[k])
  BY AnswerForms DEF World
<1>3. Agrees(old.entries, R)
  BY NewLogAgrees DEF LogOf, Current
<1>4. /\ \A b \in DOMAIN old.entries :
           b \in DOMAIN t.logs[k].entries /\ t.logs[k].entries[b] = old.entries[b]
      /\ \A b \in DOMAIN e.refs : b > old.interval =>
           b \in DOMAIN t.logs[k].entries /\ t.logs[k].entries[b] = e.refs[b]
  <2>1. Extends(t.logs[k], old, e.refs)
    BY <1>1, <1>2, <1>3, AnswerKeeps
  <2> HIDE DEF old, k
  <2> QED
    BY <2>1 DEF Extends
<1>5. /\ DOMAIN d.logs = DOMAIN n.logs \cup {k} /\ d.bin_of = n.bin_of
      /\ \A l \in DOMAIN n.logs \ {k} : d.logs[l] = n.logs[l]
      /\ d.m.got = n.m.got /\ d.m.rejected = n.m.rejected
  BY <1>1 DEF DiffedTo, Lost
<1>6. /\ DOMAIN t.logs = DOMAIN d.logs
      /\ \A l \in DOMAIN d.logs \ {k} : t.logs[l] = d.logs[l]
      /\ DOMAIN t.bin_of = DOMAIN d.bin_of \cup {e.refs[b] : b \in DOMAIN e.refs}
      /\ t.m.got = d.m.got /\ t.m.rejected = d.m.rejected
  BY <1>1 DEF IngestedTo, Offered
<1>7. Done(t) = Done(n)
  BY <1>5, <1>6 DEF Done
<1>8. Windowed(n) \subseteq Windowed(t)
  <2> SUFFICES ASSUME NEW c \in Windowed(n) PROVE c \in Windowed(t)
    OBVIOUS
  <2>1. PICK l \in DOMAIN n.logs : \E b \in DOMAIN n.logs[l].entries : n.logs[l].entries[b] = c
    BY InWindows
  <2>2. l \in DOMAIN t.logs
    BY <1>5, <1>6
  <2>3. CASE l = k
    BY <1>4, <2>1, <2>2, <2>3, InWindows DEF LogOf
  <2>4. CASE l # k
    <3>1. t.logs[l] = n.logs[l]
      BY <1>5, <1>6, <2>4
    <3> QED
      BY <2>1, <2>2, <3>1, InWindows
  <2> QED
    BY <2>3, <2>4
<1>9. ASSUME NEW b \in DOMAIN e.refs
      PROVE  e.refs[b] \in Windowed(t) \cup Done(t)
  <2>1. k \in DOMAIN t.logs
    BY <1>5, <1>6
  <2>2. b \in DOMAIN R /\ e.refs[b] = R[b] /\ b \in Nat /\ 1 <= b
    BY <1>2, ReserveFacts DEF Agrees, Reserve
  <2>3. old.interval \in Nat /\ old.interval <= old.topmost /\ old.topmost \in Nat
        /\ \A x \in DOMAIN old.entries : x \in Nat /\ old.interval < x
    BY <1>2, NewLogSound, SoundFacts DEF LogOf, NodeOK, Sound
  <2>4. CASE b > old.interval
    BY <1>4, <2>1, <2>4, InWindows
  <2>5. CASE b <= old.interval
    <3>1. k \in DOMAIN n.logs
      <4>1. NewLog.interval = 0
        BY DEF NewLog, Resume
      <4>2. old.interval # 0
        BY <2>2, <2>3, <2>5
      <4> QED
        BY <4>1, <4>2 DEF LogOf
    <3>2. Owes(n, k, R, hd[k]) /\ old = n.logs[k]
      BY <3>1 DEF World, LogOf
    <3> HIDE DEF R, old, k
    <3>3. b <= old.topmost /\ b \notin DOMAIN old.entries
      BY <2>2, <2>3, <2>5
    <3>4. R[b] \in Done(n)
      BY <2>2, <3>2, <3>3 DEF Owes
    <3> QED
      BY <1>7, <2>2, <3>4
  <2> QED
    BY <2>2, <2>3, <2>4, <2>5
<1>10. DOMAIN t.bin_of \subseteq Windowed(t) \cup Done(t)
  BY <1>5, <1>6, <1>8, <1>9
<1> QED
  BY <1>1, <1>10, RoundWindows

LEMMA WindowsNext ==
  ASSUME NetInv, Mirrors, WorkingSetWindowed, [Next]_vars, \A p \in Peers : ~LosePeer(p)
  PROVE  WorkingSetWindowed'
<1>0. /\ World(node, reserve, heads) /\ NodeOK(node)
      /\ Current(node, reserve) /\ CurrentAnswers(resps, reserve)
      /\ BagToSet(resps) = DOMAIN resps /\ DOMAIN resps \subseteq Answers
      /\ DOMAIN node.bin_of \subseteq Windowed(node)
  BY DEF NetInv, World, AllAnswered, BagToSet, Mirrors, WorkingSetWindowed
<1>1. ASSUME NEW t, NodeOK(t), t.logs = node.logs, t.bin_of = node.bin_of
      PROVE  DOMAIN t.bin_of \subseteq Windowed(t)
  BY <1>0, <1>1 DEF Windowed
<1>2. ASSUME node' = node
      PROVE  WorkingSetWindowed'
  BY <1>0, <1>2 DEF WorkingSetWindowed, Windowed
<1>3. ASSUME DOMAIN node'.bin_of \subseteq Windowed(node')
      PROVE  WorkingSetWindowed'
  BY <1>3 DEF WorkingSetWindowed, Windowed
<1>4. ASSUME NEW p \in Peers, SeePeer(p)
      PROVE  WorkingSetWindowed'
  <2>1. node'.logs = node.logs /\ node'.bin_of = node.bin_of
    BY <1>0, <1>4 DEF SeePeer, Feed, PeerSeen, Quiet, NodeOK, NodeState
  <2> QED
    BY <1>0, <1>3, <2>1 DEF Windowed
<1>5. CASE Refresh
  <2>1. node' = Tick(node).node
    BY <1>5 DEF Refresh, Feed
  <2>2. node'.logs = node.logs /\ node'.bin_of = node.bin_of
    BY <1>0, <2>1, TickFacts
  <2> QED
    BY <1>0, <1>3, <2>2 DEF Windowed
<1>6. ASSUME NEW e \in DOMAIN resps, Receive(e)
      PROVE  WorkingSetWindowed'
  <2>1. e \in Answers /\ node' = Handle(e).node
    BY <1>0, <1>6 DEF Receive, Feed
  <2>2. CASE e.op = "cursors"
    <3> DEFINE t == CursorsResult(node, e.peer, e.heads).node
    <3>1. node' = t
      BY <2>1, <2>2 DEF Handle
    <3>2. e.peer \in Peers /\ e.heads \in [Bins -> BinIds]
      BY <2>1, <2>2, AnswerForms
    <3>3. /\ t.bin_of = node.bin_of /\ DOMAIN node.logs \subseteq DOMAIN t.logs
          /\ \A k \in DOMAIN t.logs :
               t.logs[k] = IF k \in DOMAIN node.logs THEN node.logs[k] ELSE NewLog
      BY <1>0, <3>2, AllHeads, CursorsFacts
    <3> HIDE DEF t
    <3>4. Windowed(node) \subseteq Windowed(t)
      BY <3>3, InWindows
    <3> QED
      BY <1>0, <1>3, <3>1, <3>3, <3>4
  <2>3. CASE e.op = "offer"
    <3>1. node' = OfferResult(node, e.key, e.start, e.refs, e.topmost).node
      BY <2>1, <2>3 DEF Handle
    <3>2. /\ Answered(node, e, reserve[e.key], heads[e.key])
          /\ Agrees(e.refs, reserve[e.key])
      BY <1>0, <2>3 DEF NetInv, AllAnswered, CurrentAnswers
    <3>3. DOMAIN OfferResult(node, e.key, e.start, e.refs, e.topmost).node.bin_of
            \subseteq Windowed(OfferResult(node, e.key, e.start, e.refs, e.topmost).node)
      BY <1>0, <2>1, <2>3, <3>2, AnswerWindows
    <3> QED
      BY <1>3, <3>1, <3>3
  <2>4. CASE e.op = "fetch"
    <3>1. node' = FetchResult(node, e.peer, e.outcomes).node
      BY <2>1, <2>4 DEF Handle
    <3>2. e.peer \in Peers /\ e.outcomes \in Partial(Chunks, Outcomes)
      BY <2>1, <2>4, AnswerForms
    <3> DEFINE t == Fetched(node, e.peer, e.outcomes)
    <3>3. /\ FetchResult(node, e.peer, e.outcomes) = Round(t) /\ NodeOK(t)
          /\ t.logs = node.logs /\ t.bin_of = node.bin_of
      BY <1>0, <3>2, FetchedFacts
    <3> HIDE DEF t
    <3>4. DOMAIN t.bin_of \subseteq Windowed(t) \cup Done(t)
      BY <1>1, <3>3
    <3> QED
      BY <1>3, <3>1, <3>3, <3>4, RoundWindows
  <2> QED
    BY <2>1, <2>2, <2>3, <2>4, AnswerForms
<1>7. CASE UNCHANGED vars
  BY <1>2, <1>7 DEF vars
<1>8. ASSUME NEW u \in landing, Land(u)
      PROVE  WorkingSetWindowed'
  BY <1>2, <1>8 DEF Land
<1>9. ASSUME NEW k \in Keys, NEW b \in DOMAIN reserve[k], Evict(k, b)
      PROVE  WorkingSetWindowed'
  BY <1>2, <1>9 DEF Evict
<1>10. ASSUME NEW r, \/ ServeCursors(r) \/ ServeOffer(r) \/ UnderstateOffer(r)
                     \/ ServeFetch(r) \/ MissFetch(r)
       PROVE  WorkingSetWindowed'
  BY <1>2, <1>10 DEF ServeCursors, ServeOffer, UnderstateOffer, ServeFetch, MissFetch
<1> QED
  BY <1>0, <1>4, <1>5, <1>6, <1>7, <1>8, <1>9, <1>10 DEF Next

\* The working set tracks the open windows: until the first departure or eviction,
\* the node schedules only what waits in some window and forgets the rest.
THEOREM WorkingSetIsWindowed == Spec => [](Untouched => WorkingSetWindowed)
<1> DEFINE Inv == Untouched => WorkingSetWindowed
<1>1. Init => Inv
  <2> SUFFICES ASSUME Init PROVE DOMAIN node.bin_of = {}
    BY DEF WorkingSetWindowed
  <2> QED
    BY DEF Init, NewNode
<1>2. NetInv /\ BudgetOK /\ (NoneEvicted => Mirrors) /\ Inv /\ [Next]_vars => Inv'
  <2> SUFFICES ASSUME NetInv, BudgetOK, NoneEvicted => Mirrors, Inv, [Next]_vars
               PROVE  Inv'
    OBVIOUS
  <2> SUFFICES ASSUME Untouched' PROVE WorkingSetWindowed'
    OBVIOUS
  <2>1. Untouched /\ \A p \in Peers : ~LosePeer(p)
    BY BudgetNext DEF Untouched
  <2> QED
    BY <2>1, WindowsNext DEF Untouched
<1> QED
  BY <1>1, <1>2, NetInductive, BudgetAlways, MirrorsAlways, PTL DEF Spec
=============================================================================
