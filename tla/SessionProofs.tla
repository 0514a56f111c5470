---------------------------- MODULE SessionProofs ----------------------------
(***************************************************************************)
(* The session, for every neighbourhood, every page size and every number  *)
(* of failed, dropped, closed and abandoned operations, uploads and        *)
(* evictions.                                                              *)
(***************************************************************************)
EXTENDS Session, NodeProofs, SequenceTheorems

-----------------------------------------------------------------------------
(* Sorting by rank.                                                        *)

\* The elements of S that R puts before e.
Under(S, R, e) == {f \in S \ {e} : <<f, e>> \in R}

Rank(S, R, e) == Cardinality(Under(S, R, e))

\* R orders S: of two elements one comes first, and never both.
Orders(R, S) ==
  /\ \A e, f \in S : e # f => <<e, f>> \in R \/ <<f, e>> \in R
  /\ \A e, f \in S : e # f => ~(<<e, f>> \in R /\ <<f, e>> \in R)
  /\ \A e, f, g \in S : <<e, f>> \in R /\ <<f, g>> \in R /\ e # f /\ f # g => <<e, g>> \in R

\* The ranks in a finite set are 0 up to its size, each taken once.
Ranked(S, R) ==
  /\ \A e \in S : Rank(S, R, e) \in 0 .. Cardinality(S) - 1
  /\ \A e, f \in S : Rank(S, R, e) = Rank(S, R, f) => e = f
  /\ \A i \in 0 .. Cardinality(S) - 1 : \E e \in S : Rank(S, R, e) = i

LEMMA RanksTaken ==
  ASSUME NEW S, IsFiniteSet(S), NEW R, Orders(R, S)
  PROVE  Ranked(S, R)
<1> DEFINE N == Cardinality(S)
           rank == [e \in S |-> Rank(S, R, e)]
<1>1. N \in Nat
  BY FS_CardinalityType
<1>2. ASSUME NEW e \in S
      PROVE  /\ IsFiniteSet(Under(S, R, e))
             /\ Rank(S, R, e) \in Nat /\ Rank(S, R, e) <= N - 1
  <2>1. Under(S, R, e) \in SUBSET (S \ {e})
    BY DEF Under
  <2>2. IsFiniteSet(S \ {e}) /\ Cardinality(S \ {e}) = N - 1
    BY FS_RemoveElement
  <2>3. IsFiniteSet(Under(S, R, e)) /\ Cardinality(Under(S, R, e)) <= N - 1
    BY <2>1, <2>2, FS_Subset
  <2> QED
    BY <2>3, FS_CardinalityType DEF Rank
<1>3. ASSUME NEW e \in S, NEW f \in S, e # f, <<e, f>> \in R
      PROVE  Rank(S, R, e) < Rank(S, R, f)
  <2>1. Under(S, R, e) \cup {e} \in SUBSET Under(S, R, f)
    BY <1>3 DEF Under, Orders
  <2>2. e \notin Under(S, R, e)
    BY DEF Under
  <2>3. Cardinality(Under(S, R, e) \cup {e}) = Rank(S, R, e) + 1
    BY <1>2, <2>2, FS_AddElement DEF Rank
  <2>4. Cardinality(Under(S, R, e) \cup {e}) <= Rank(S, R, f)
    BY <1>2, <2>1, FS_Subset DEF Rank
  <2> QED
    BY <1>2, <2>3, <2>4
<1>4. \A e, f \in S : Rank(S, R, e) = Rank(S, R, f) => e = f
  <2> SUFFICES ASSUME NEW e \in S, NEW f \in S, e # f PROVE Rank(S, R, e) # Rank(S, R, f)
    OBVIOUS
  <2>1. Rank(S, R, e) < Rank(S, R, f) \/ Rank(S, R, f) < Rank(S, R, e)
    BY <1>3 DEF Orders
  <2> QED
    BY <1>2, <2>1
<1>5. \A e \in S : Rank(S, R, e) \in 0 .. N - 1
  BY <1>1, <1>2
<1>6. rank \in Injection(S, 0 .. N - 1)
  BY <1>4, <1>5 DEF Injection, IsInjective
<1>7. IsFiniteSet(0 .. N - 1) /\ Cardinality(0 .. N - 1) = N
  BY <1>1, FS_Interval
<1>8. rank \in Surjection(S, 0 .. N - 1)
  <2> HIDE DEF rank, N
  <2> QED
    BY <1>6, <1>7, FS_Injection DEF N
<1>9. \A i \in 0 .. N - 1 : \E e \in S : Rank(S, R, e) = i
  BY <1>8 DEF Surjection
<1> QED
  BY <1>4, <1>5, <1>9 DEF Ranked

-----------------------------------------------------------------------------
(* The queue.                                                              *)

Effects ==
  [op : {"cursors"}, peer : Peers]
  \cup [op : {"offer"}, peer : Peers, bin : Bins, start : BinIds]
  \cup [op : {"fetch"}, peer : Peers, bin : Bins, want : SUBSET Chunks]
  \cup [op : {"settled"}, peer : Peers, bin : Bins, upto : BinIds]

\* What one event emits: at most one effect of each kind per (peer, bin), or the
\* one request for cursors.
Emitted(fx) ==
  /\ fx \subseteq Effects
  /\ IsFiniteSet(fx)
  /\ \/ \E e : fx = {e}
     \/ /\ \A e \in fx : e.op # "cursors"
        /\ \A e, f \in fx : e.op = f.op /\ KeyOf(e) = KeyOf(f) => e = f

\* The queue's order: a sequence of all of them, each once.
Lists(q, fx) ==
  /\ q \in Seq(fx)
  /\ \A i, j \in DOMAIN q : q[i] = q[j] => i = j
  /\ \A e \in fx : \E i \in DOMAIN q : q[i] = e

LEMMA EffectKeys ==
  ASSUME NEW e \in Effects, e.op # "cursors"
  PROVE  /\ e.peer \in Peers /\ e.bin \in Bins /\ e.peer \in Nat /\ e.bin \in Nat
         /\ KeyOf(e) = <<e.peer, e.bin>> /\ KeyOf(e) \in Keys
         /\ KeyOf(e)[1] = e.peer /\ KeyOf(e)[2] = e.bin
         /\ e.op \in {"offer", "fetch", "settled"}
<1>1. e.peer \in Peers /\ e.bin \in Bins /\ e.op \in {"offer", "fetch", "settled"}
  BY DEF Effects
<1> QED
  BY <1>1, NodeConstants DEF KeyOf, Keys

\* The order of the Vec is an order on what one event emits.
LEMMA FxOrdered ==
  ASSUME NEW fx, Emitted(fx)
  PROVE  Orders({w \in fx \X fx : FxBefore(w[1], w[2])}, fx)
<1> DEFINE R == {w \in fx \X fx : FxBefore(w[1], w[2])}
<1>1. \A e, f \in fx : <<e, f>> \in R <=> FxBefore(e, f)
  OBVIOUS
<1> HIDE DEF R
<1>2. CASE \E e : fx = {e}
  <2>1. \A e, f \in fx : e = f
    BY <1>2
  <2> QED
    BY <2>1 DEF Orders, R
<1>3. CASE /\ \A e \in fx : e.op # "cursors"
           /\ \A e, f \in fx : e.op = f.op /\ KeyOf(e) = KeyOf(f) => e = f
  <2> DEFINE Lower(e, f) == e.peer < f.peer \/ (e.peer = f.peer /\ e.bin < f.bin)
             Same(e, f) == e.peer = f.peer /\ e.bin = f.bin
             Before(e, f) ==
               \/ e.op # "fetch" /\ f.op = "fetch"
               \/ /\ e.op = "fetch" <=> f.op = "fetch"
                  /\ Lower(e, f) \/ (Same(e, f) /\ e.op = "settled" /\ f.op = "offer")
  <2>1. ASSUME NEW e \in fx
        PROVE  /\ e.peer \in Nat /\ e.bin \in Nat
               /\ KeyOf(e) = <<e.peer, e.bin>>
               /\ e.op \in {"offer", "fetch", "settled"}
    BY <1>3, EffectKeys DEF Emitted
  <2>2. ASSUME NEW e \in fx, NEW f \in fx
        PROVE  FxBefore(e, f) <=> Before(e, f)
    <3>1. KeyOf(e)[1] = e.peer /\ KeyOf(e)[2] = e.bin /\ KeyOf(f)[1] = f.peer /\ KeyOf(f)[2] = f.bin
      BY <2>1
    <3>2. KeyOf(e) = KeyOf(f) <=> Same(e, f)
      BY <2>1
    <3> QED
      BY <3>1, <3>2 DEF FxBefore
  <2>3. ASSUME NEW e \in fx, NEW f \in fx, e # f
        PROVE  /\ Before(e, f) \/ Before(f, e)
               /\ ~(Before(e, f) /\ Before(f, e))
    <3>1. ~(e.op = f.op /\ Same(e, f))
      BY <1>3, <2>1, <2>3
    <3> QED
      BY <2>1, <3>1
  <2>4. ASSUME NEW e \in fx, NEW f \in fx, NEW g \in fx, Before(e, f), Before(f, g)
        PROVE  Before(e, g)
    BY <2>1, <2>4
  <2> HIDE DEF Before
  <2> QED
    BY <1>1, <2>2, <2>3, <2>4 DEF Orders, R
<1> QED
  BY <1>2, <1>3 DEF Emitted, R

\* InOrder lists every effect once.
LEMMA InOrderLists ==
  ASSUME NEW fx, Emitted(fx)
  PROVE  Lists(InOrder(fx), fx) /\ Len(InOrder(fx)) = Cardinality(fx)
<1> DEFINE R == {w \in fx \X fx : FxBefore(w[1], w[2])}
           N == Cardinality(fx)
           q == InOrder(fx)
<1>1. Ranked(fx, R)
  <2>1. Orders(R, fx) /\ IsFiniteSet(fx)
    BY FxOrdered DEF Emitted
  <2> HIDE DEF R
  <2> QED
    BY <2>1, RanksTaken
<1> DEFINE Below(e) == Cardinality({f \in fx \ {e} : FxBefore(f, e)})
<1>2. \A e \in fx : Rank(fx, R, e) = Below(e)
  <2>1. \A e \in fx : Under(fx, R, e) = {f \in fx \ {e} : FxBefore(f, e)}
    BY DEF Under
  <2> QED
    BY <2>1 DEF Rank
<1>3. q = [i \in 1 .. N |-> CHOOSE e \in fx : Below(e) = i - 1]
  BY DEF InOrder
<1>4. N \in Nat
  BY FS_CardinalityType DEF Emitted
<1> HIDE DEF R, q, Below
<1>5. ASSUME NEW i \in 1 .. N
      PROVE  q[i] \in fx /\ Rank(fx, R, q[i]) = i - 1
  <2>1. i - 1 \in 0 .. N - 1
    BY <1>4
  <2>2. \E e \in fx : Rank(fx, R, e) = i - 1
    BY <1>1, <2>1 DEF Ranked
  <2>3. \E e \in fx : Below(e) = i - 1
    BY <1>2, <2>2
  <2>4. q[i] = CHOOSE e \in fx : Below(e) = i - 1
    BY <1>3
  <2>5. q[i] \in fx /\ Below(q[i]) = i - 1
    BY <2>3, <2>4
  <2> QED
    BY <1>2, <2>5
<1>6. q \in Seq(fx) /\ Len(q) = N /\ DOMAIN q = 1 .. N
  <2>1. q \in [1 .. N -> fx]
    BY <1>3, <1>5
  <2> QED
    BY <1>4, <2>1
<1>7. \A i, j \in DOMAIN q : q[i] = q[j] => i = j
  <2> SUFFICES ASSUME NEW i \in 1 .. N, NEW j \in 1 .. N, q[i] = q[j] PROVE i = j
    BY <1>6
  <2>1. i - 1 = j - 1
    BY <1>5
  <2> QED
    BY <1>4, <2>1
<1>8. ASSUME NEW e \in fx
      PROVE  \E i \in DOMAIN q : q[i] = e
  <2>1. Rank(fx, R, e) \in 0 .. N - 1
    BY <1>1 DEF Ranked
  <2> DEFINE i == Rank(fx, R, e) + 1
  <2>2. i \in 1 .. N /\ i - 1 = Rank(fx, R, e)
    BY <1>4, <2>1
  <2>3. q[i] \in fx /\ Rank(fx, R, q[i]) = Rank(fx, R, e)
    BY <1>5, <2>2
  <2>4. q[i] = e
    BY <1>1, <2>3 DEF Ranked
  <2> QED
    BY <1>6, <2>2, <2>4
<1> QED
  BY <1>6, <1>7, <1>8 DEF Lists, q

\* The event's effects behind the queue.
Joined(q, r, fx) ==
  /\ r \in Seq(Effects)
  /\ DOMAIN q \subseteq DOMAIN r
  /\ \A i \in DOMAIN q : r[i] = q[i]
  /\ \A i \in DOMAIN r \ DOMAIN q : r[i] \in fx
  /\ \A i, j \in DOMAIN r \ DOMAIN q : r[i] = r[j] => i = j
  /\ \A e \in fx : \E i \in DOMAIN r \ DOMAIN q : r[i] = e

LEMMA QueueJoins ==
  ASSUME NEW q \in Seq(Effects), NEW fx, Emitted(fx)
  PROVE  Joined(q, q \o InOrder(fx), fx)
<1> DEFINE new == InOrder(fx)
           r == q \o new
<1>1. Lists(new, fx)
  BY InOrderLists
<1> HIDE DEF new
<1>2. new \in Seq(Effects) /\ new \in Seq(fx)
  BY <1>1 DEF Lists, Emitted
<1>3. /\ r \in Seq(Effects) /\ Len(r) = Len(q) + Len(new)
      /\ \A i \in 1 .. Len(q) : r[i] = q[i]
      /\ \A i \in 1 .. Len(new) : r[Len(q) + i] = new[i]
  BY <1>2
<1>4. /\ Len(q) \in Nat /\ Len(new) \in Nat
      /\ DOMAIN q = 1 .. Len(q) /\ DOMAIN new = 1 .. Len(new)
      /\ DOMAIN r = 1 .. Len(q) + Len(new)
  BY <1>2, <1>3
<1> HIDE DEF r
<1>5. ASSUME NEW i \in DOMAIN r \ DOMAIN q
      PROVE  i - Len(q) \in DOMAIN new /\ r[i] = new[i - Len(q)]
  <2>1. i - Len(q) \in 1 .. Len(new) /\ Len(q) + (i - Len(q)) = i
    BY <1>4
  <2> QED
    BY <1>3, <1>4, <2>1
<1>6. \A i \in DOMAIN r \ DOMAIN q : r[i] \in fx
  BY <1>2, <1>5
<1>7. ASSUME NEW i \in DOMAIN r \ DOMAIN q, NEW j \in DOMAIN r \ DOMAIN q, r[i] = r[j]
      PROVE  i = j
  <2>1. i - Len(q) = j - Len(q)
    BY <1>1, <1>5, <1>7 DEF Lists
  <2> QED
    BY <1>4, <2>1
<1>8. ASSUME NEW e \in fx
      PROVE  \E i \in DOMAIN r \ DOMAIN q : r[i] = e
  <2>1. PICK j \in DOMAIN new : new[j] = e
    BY <1>1 DEF Lists
  <2>2. Len(q) + j \in DOMAIN r \ DOMAIN q /\ r[Len(q) + j] = e
    BY <1>3, <1>4, <2>1
  <2> QED
    BY <2>2
<1>9. DOMAIN q \subseteq DOMAIN r /\ \A i \in DOMAIN q : r[i] = q[i]
  BY <1>3, <1>4
<1>10. Joined(q, r, fx)
  BY <1>3, <1>6, <1>7, <1>8, <1>9 DEF Joined
<1> QED
  BY <1>10 DEF r, new

\* Popping the head.
LEMMA QueueTail ==
  ASSUME NEW q \in Seq(Effects), q # <<>>
  PROVE  /\ Tail(q) \in Seq(Effects)
         /\ Head(q) \in Effects /\ 1 \in DOMAIN q /\ Head(q) = q[1]
         /\ \A i \in DOMAIN Tail(q) : /\ i + 1 \in DOMAIN q /\ i + 1 # 1
                                      /\ Tail(q)[i] = q[i + 1]
         /\ \A i \in DOMAIN q \ {1} : /\ i - 1 \in DOMAIN Tail(q)
                                      /\ Tail(q)[i - 1] = q[i]
         /\ \A i, j \in DOMAIN Tail(q) : i + 1 = j + 1 => i = j
<1>1. /\ Len(q) \in Nat /\ Len(q) >= 1 /\ DOMAIN q = 1 .. Len(q)
      /\ Tail(q) \in Seq(Effects) /\ Len(Tail(q)) = Len(q) - 1
      /\ DOMAIN Tail(q) = 1 .. Len(q) - 1
      /\ \A i \in 1 .. Len(q) - 1 : Tail(q)[i] = q[i + 1]
      /\ Head(q) = q[1]
  <2>1. Len(q) \in Nat /\ DOMAIN q = 1 .. Len(q)
    OBVIOUS
  <2>2. Len(q) # 0
    BY EmptySeq
  <2>3. /\ Tail(q) \in Seq(Effects) /\ Len(Tail(q)) = Len(q) - 1
        /\ \A i \in 1 .. Len(q) - 1 : Tail(q)[i] = q[i + 1]
        /\ Head(q) = q[1]
    BY <2>1, <2>2, HeadTailProperties
  <2>4. DOMAIN Tail(q) = 1 .. Len(q) - 1
    BY <2>3
  <2> QED
    BY <2>1, <2>2, <2>3, <2>4
<1>2. \A i \in 1 .. Len(q) - 1 : i + 1 \in 1 .. Len(q) /\ i + 1 # 1
  BY <1>1
<1>3. \A i \in 1 .. Len(q) : i # 1 => i - 1 \in 1 .. Len(q) - 1 /\ i = (i - 1) + 1
  BY <1>1
<1>4. \A i, j \in 1 .. Len(q) - 1 : i + 1 = j + 1 => i = j
  BY <1>1
<1>5. 1 \in 1 .. Len(q) /\ q[1] \in Effects
  BY <1>1
<1> QED
  BY <1>1, <1>2, <1>3, <1>4, <1>5

-----------------------------------------------------------------------------
(* What waits in the queue.                                                *)

\* With one claim per id and failover a lease has exactly one fetch.
OneClaim == Cfg.dedup /\ Cfg.failover

\* Two operations that never wait together: both ask one peer for its cursors,
\* one (peer, bin) for an offer, or one peer for one chunk.
Clash(e, f) ==
  \/ e.op = "cursors" /\ f.op = "cursors" /\ e.peer = f.peer
  \/ e.op = "offer" /\ f.op = "offer" /\ KeyOf(e) = KeyOf(f)
  \/ /\ OneClaim
     /\ e.op = "fetch" /\ f.op = "fetch" /\ e.peer = f.peer
     /\ \E c \in e.want : c \in f.want

\* What holds of the node while the effect waits.  A peer whose cursors are asked
\* for has no log.  An offer asks on from a log that settled all it covers.  A
\* fetch asks for standing leases.  An interval to persist is not ahead of the log.
Waits(n, e) ==
  /\ e.op = "cursors" => \A k \in DOMAIN n.logs : k[1] # e.peer
  /\ e.op = "offer" =>
       /\ KeyOf(e) \in DOMAIN n.logs /\ KeyOf(e) \in n.offer_open
       /\ e.start = NextStart(n.logs[KeyOf(e)])
       /\ n.logs[KeyOf(e)].interval = n.logs[KeyOf(e)].topmost
  /\ e.op = "fetch" /\ OneClaim => \A c \in e.want : e.peer \in n.m.want[c]
  /\ e.op = "settled" =>
       /\ KeyOf(e) \in DOMAIN n.logs
       /\ e.upto <= n.logs[KeyOf(e)].interval

Queued(n, q) == \A i \in DOMAIN q : Waits(n, q[i])

Apart(q) == \A i, j \in DOMAIN q : i # j => ~Clash(q[i], q[j])

\* What answering the operation h may do to the node.
Moved(n, s, h) ==
  /\ NodeOK(s)
  /\ s.m.cfg = n.m.cfg
  /\ Done(n) \subseteq Done(s)
  /\ DOMAIN n.logs \subseteq DOMAIN s.logs
  /\ \A k \in DOMAIN n.logs : n.logs[k].interval <= s.logs[k].interval
  /\ \A k \in DOMAIN n.logs :
       n.logs[k].interval = n.logs[k].topmost =>
         \/ h.op = "offer" /\ k = KeyOf(h)
         \/ /\ s.logs[k].interval = n.logs[k].interval
            /\ s.logs[k].topmost = n.logs[k].topmost
  /\ \A k \in n.offer_open \ s.offer_open : h.op = "offer" /\ k = KeyOf(h)
  /\ \A k \in DOMAIN s.logs \ DOMAIN n.logs : h.op = "cursors" /\ k[1] = h.peer
  /\ OneClaim => \A c \in Chunks : \A p \in n.m.want[c] \ s.m.want[c] :
                   h.op = "fetch" /\ p = h.peer /\ c \in h.want

\* The effects of answering it.
Sent(n, s, h, fx) ==
  /\ Emitted(fx)
  /\ \A e \in fx : e.op # "cursors" /\ Waits(s, e)
  /\ \A e, f \in fx : e # f => ~Clash(e, f)
  /\ \A e \in fx : e.op = "offer" /\ KeyOf(e) \in n.offer_open =>
                     h.op = "offer" /\ KeyOf(e) = KeyOf(h)
  /\ OneClaim => \A e \in fx : e.op = "fetch" =>
                   \A c \in e.want : e.peer \in n.m.want[c] =>
                     h.op = "fetch" /\ e.peer = h.peer /\ c \in h.want

LEMMA ClashSame ==
  ASSUME NEW e, NEW f
  PROVE  Clash(e, f) <=> Clash(f, e)
BY DEF Clash

\* An effect that does not clash with the answered one goes on waiting.
LEMMA StillWaits ==
  ASSUME NEW n, NodeOK(n), NEW s, NEW h \in Effects, Moved(n, s, h),
         NEW e \in Effects, Waits(n, e), ~Clash(h, e)
  PROVE  Waits(s, e)
<1>1. CASE e.op = "cursors"
  <2>1. ASSUME NEW k \in DOMAIN s.logs, k[1] = e.peer
        PROVE  FALSE
    <3>1. k \notin DOMAIN n.logs
      BY <1>1, <2>1 DEF Waits
    <3>2. h.op = "cursors" /\ k[1] = h.peer
      BY <3>1 DEF Moved
    <3> QED
      BY <1>1, <2>1, <3>2 DEF Clash
  <2> QED
    BY <1>1, <2>1 DEF Waits
<1>2. CASE e.op = "offer"
  <2> DEFINE k == KeyOf(e)
  <2>1. /\ k \in DOMAIN n.logs /\ k \in n.offer_open
        /\ e.start = NextStart(n.logs[k])
        /\ n.logs[k].interval = n.logs[k].topmost
    BY <1>2 DEF Waits
  <2>2. ~(h.op = "offer" /\ k = KeyOf(h))
    BY <1>2 DEF Clash
  <2>3. /\ k \in DOMAIN s.logs /\ k \in s.offer_open
        /\ s.logs[k].interval = n.logs[k].interval
        /\ s.logs[k].topmost = n.logs[k].topmost
    BY <2>1, <2>2 DEF Moved
  <2>4. NextStart(s.logs[k]) = NextStart(n.logs[k])
    BY <2>3 DEF NextStart
  <2> QED
    BY <1>2, <2>1, <2>3, <2>4 DEF Waits
<1>3. CASE e.op = "fetch"
  <2>1. e.want \in SUBSET Chunks
    BY <1>3 DEF Effects
  <2>2. ASSUME OneClaim, NEW c \in e.want
        PROVE  e.peer \in s.m.want[c]
    <3>1. e.peer \in n.m.want[c]
      BY <1>3, <2>2 DEF Waits
    <3>2. ~(h.op = "fetch" /\ e.peer = h.peer /\ c \in h.want)
      BY <1>3, <2>2 DEF Clash
    <3> QED
      BY <2>1, <2>2, <3>1, <3>2 DEF Moved
  <2> QED
    BY <1>3, <2>2 DEF Waits
<1>4. CASE e.op = "settled"
  <2> DEFINE k == KeyOf(e)
  <2>1. k \in DOMAIN n.logs /\ e.upto <= n.logs[k].interval /\ e.upto \in Nat
    BY <1>4, LogTypes DEF Waits, Effects
  <2>2. k \in DOMAIN s.logs /\ n.logs[k].interval <= s.logs[k].interval
    BY <2>1 DEF Moved
  <2>3. n.logs[k].interval \in Nat /\ s.logs[k].interval \in Nat
    BY <2>1, <2>2, SoundFacts DEF NodeOK, Moved
  <2> QED
    BY <1>4, <2>1, <2>2, <2>3 DEF Waits
<1> QED
  BY <1>1, <1>2, <1>3, <1>4 DEF Effects

\* The queue after an operation was answered.
LEMMA QueueFed ==
  ASSUME NEW n, NodeOK(n), NEW s, NEW q \in Seq(Effects), q # <<>>, NEW fx,
         Queued(n, q), Apart(q), Moved(n, s, Head(q)), Sent(n, s, Head(q), fx)
  PROVE  LET r == Tail(q) \o InOrder(fx)
         IN r \in Seq(Effects) /\ Queued(s, r) /\ Apart(r)
<1> DEFINE h == Head(q)
           r == Tail(q) \o InOrder(fx)
           T == DOMAIN Tail(q)
<1>1. Joined(Tail(q), r, fx)
  <2>1. Tail(q) \in Seq(Effects) /\ Emitted(fx)
    BY QueueTail DEF Sent
  <2> QED
    BY <2>1, QueueJoins
<1>2. h \in Effects /\ h = q[1] /\ 1 \in DOMAIN q
  BY QueueTail
<1>3. ASSUME NEW i \in T
      PROVE  r[i] \in Effects /\ Waits(n, r[i]) /\ ~Clash(h, r[i])
  <2>1. i + 1 \in DOMAIN q /\ i + 1 # 1 /\ r[i] = q[i + 1]
    BY <1>1, QueueTail DEF Joined
  <2>2. q[i + 1] \in Effects
    BY <2>1
  <2> HIDE DEF r, h
  <2> QED
    BY <1>2, <2>1, <2>2 DEF Queued, Apart
<1>4. \A i \in T : \A j \in T : i # j => ~Clash(r[i], r[j])
  <2> SUFFICES ASSUME NEW i \in T, NEW j \in T, i # j PROVE ~Clash(r[i], r[j])
    OBVIOUS
  <2>1. /\ i + 1 \in DOMAIN q /\ r[i] = q[i + 1]
        /\ j + 1 \in DOMAIN q /\ r[j] = q[j + 1]
        /\ i + 1 # j + 1
    BY <1>1, QueueTail DEF Joined
  <2> HIDE DEF r
  <2> QED
    BY <2>1 DEF Apart
<1> HIDE DEF r, T, h
<1>5. ASSUME NEW i \in DOMAIN r
      PROVE  Waits(s, r[i])
  <2>1. CASE i \in T
    BY <1>2, <1>3, <2>1, StillWaits DEF h
  <2>2. CASE i \notin T
    BY <1>1, <2>2 DEF Joined, Sent, T
  <2> QED
    BY <2>1, <2>2
<1>6. ASSUME NEW i \in T, NEW f \in fx
      PROVE  ~Clash(r[i], f)
  <2> SUFFICES ASSUME Clash(r[i], f) PROVE FALSE
    OBVIOUS
  <2>0. r[i] \in Effects /\ Waits(n, r[i]) /\ ~Clash(h, r[i])
    BY <1>3
  <2>1. f.op # "cursors"
    BY DEF Sent
  <2>2. CASE r[i].op = "offer" /\ f.op = "offer" /\ KeyOf(r[i]) = KeyOf(f)
    <3>1. KeyOf(f) \in n.offer_open
      BY <2>0, <2>2 DEF Waits
    <3>2. h.op = "offer" /\ KeyOf(f) = KeyOf(h)
      BY <2>2, <3>1 DEF Sent, h
    <3> QED
      BY <2>0, <2>2, <3>2 DEF Clash
  <2>3. CASE /\ OneClaim /\ r[i].op = "fetch" /\ f.op = "fetch" /\ r[i].peer = f.peer
             /\ \E c \in r[i].want : c \in f.want
    <3>1. PICK c \in r[i].want : c \in f.want
      BY <2>3
    <3>2. f.peer \in n.m.want[c]
      BY <2>0, <2>3, <3>1 DEF Waits
    <3>3. h.op = "fetch" /\ f.peer = h.peer /\ c \in h.want
      BY <2>3, <3>1, <3>2 DEF Sent, h
    <3> QED
      BY <2>0, <2>3, <3>1, <3>3 DEF Clash
  <2> QED
    BY <2>1, <2>2, <2>3 DEF Clash
<1>7. ASSUME NEW i \in DOMAIN r, NEW j \in DOMAIN r, i # j
      PROVE  ~Clash(r[i], r[j])
  <2>1. CASE i \in T /\ j \in T
    BY <1>4, <1>7, <2>1
  <2>2. CASE i \in T /\ j \notin T
    BY <1>1, <1>6, <2>2 DEF Joined, T
  <2>3. CASE i \notin T /\ j \in T
    BY <1>1, <1>6, <2>3, ClashSame DEF Joined, T
  <2>4. CASE i \notin T /\ j \notin T
    <3>1. r[i] \in fx /\ r[j] \in fx /\ r[i] # r[j]
      BY <1>1, <1>7, <2>4 DEF Joined, T
    <3> QED
      BY <3>1 DEF Sent
  <2> QED
    BY <2>1, <2>2, <2>3, <2>4
<1> QED
  BY <1>1, <1>5, <1>7 DEF Joined, Queued, Apart, r

-----------------------------------------------------------------------------
(* What the node emits.                                                    *)

\* The fields of the effects.
LEMMA FxForms ==
  ASSUME NEW k \in Keys, NEW x
  PROVE  /\ k = <<k[1], k[2]>> /\ k[1] \in Peers /\ k[2] \in Bins
         /\ Offer(k, x).op = "offer" /\ KeyOf(Offer(k, x)) = k /\ Offer(k, x).start = x
         /\ Fetch(k, x).op = "fetch" /\ KeyOf(Fetch(k, x)) = k /\ Fetch(k, x).want = x
         /\ Fetch(k, x).peer = k[1]
         /\ SettledFx(k, x).op = "settled" /\ KeyOf(SettledFx(k, x)) = k
         /\ SettledFx(k, x).upto = x
         /\ x \in BinIds => Offer(k, x) \in Effects /\ SettledFx(k, x) \in Effects
         /\ x \in SUBSET Chunks => Fetch(k, x) \in Effects
<1>1. k = <<k[1], k[2]>> /\ k[1] \in Peers /\ k[2] \in Bins
  BY DEF Keys
<1>2. /\ Offer(k, x).op = "offer" /\ KeyOf(Offer(k, x)) = k /\ Offer(k, x).start = x
      /\ x \in BinIds => Offer(k, x) \in Effects
  BY <1>1 DEF Offer, KeyOf, Effects
<1>3. /\ Fetch(k, x).op = "fetch" /\ KeyOf(Fetch(k, x)) = k /\ Fetch(k, x).want = x
      /\ Fetch(k, x).peer = k[1]
      /\ x \in SUBSET Chunks => Fetch(k, x) \in Effects
  BY <1>1 DEF Fetch, KeyOf, Effects
<1>4. /\ SettledFx(k, x).op = "settled" /\ KeyOf(SettledFx(k, x)) = k
      /\ SettledFx(k, x).upto = x
      /\ x \in BinIds => SettledFx(k, x) \in Effects
  BY <1>1 DEF SettledFx, KeyOf, Effects
<1> QED
  BY <1>1, <1>2, <1>3, <1>4

\* One effect of each kind per (peer, bin) is finitely many.
LEMMA KeyedFinite ==
  ASSUME NEW fx, fx \subseteq Effects, \A e \in fx : e.op # "cursors",
         \A e, f \in fx : e.op = f.op /\ KeyOf(e) = KeyOf(f) => e = f
  PROVE  Emitted(fx)
<1> DEFINE ops == {"offer", "fetch", "settled"}
           g == [e \in fx |-> <<e.op, KeyOf(e)>>]
<1>1. IsFiniteSet(Keys)
  BY NodeConstants, SessionConstants, FS_Product DEF Keys
<1>2. IsFiniteSet(ops)
  <2>1. IsFiniteSet({"offer"} \cup {"fetch"})
    BY FS_Singleton, FS_AddElement
  <2>2. IsFiniteSet(({"offer"} \cup {"fetch"}) \cup {"settled"})
    BY <2>1, FS_AddElement
  <2>3. ops = ({"offer"} \cup {"fetch"}) \cup {"settled"}
    OBVIOUS
  <2> HIDE DEF ops
  <2> QED
    BY <2>2, <2>3
<1>3. IsFiniteSet(ops \X Keys)
  BY <1>1, <1>2, FS_Product
<1>4. \A e \in fx : <<e.op, KeyOf(e)>> \in ops \X Keys
  BY EffectKeys
<1>5. g \in Injection(fx, ops \X Keys)
  <2>1. g \in [fx -> ops \X Keys]
    BY <1>4
  <2>2. \A e, f \in fx : g[e] = g[f] => e = f
    OBVIOUS
  <2> HIDE DEF g
  <2> QED
    BY <2>1, <2>2 DEF Injection, IsInjective
<1>6. IsFiniteSet(fx)
  <2> HIDE DEF g, ops
  <2> QED
    BY <1>3, <1>5, FS_Injection
<1> QED
  BY <1>6 DEF Emitted

\* The offers that CursorsResult opens.
LEMMA OffersEmitted ==
  ASSUME NEW n, NEW s, NodeOK(s), s.offer_open \ n.offer_open \subseteq DOMAIN s.logs
  PROVE  /\ Emitted(OfferFx(n, s))
         /\ \A e \in OfferFx(n, s) : \E k \in s.offer_open \ n.offer_open :
              /\ k \in Keys /\ k \in DOMAIN s.logs
              /\ e = Offer(k, NextStart(s.logs[k])) /\ e.op = "offer"
              /\ KeyOf(e) = k /\ e.start = NextStart(s.logs[k])
<1>1. DOMAIN s.logs \subseteq Keys /\ \A k \in DOMAIN s.logs : NextStart(s.logs[k]) \in BinIds
  BY NodeParts, NextStartSound DEF NodeOK
<1>2. \A e \in OfferFx(n, s) : \E k \in s.offer_open \ n.offer_open :
        /\ k \in Keys /\ k \in DOMAIN s.logs
        /\ e = Offer(k, NextStart(s.logs[k])) /\ e.op = "offer"
        /\ KeyOf(e) = k /\ e.start = NextStart(s.logs[k])
  BY <1>1, FxForms DEF OfferFx
<1>3. \A e \in OfferFx(n, s) : e \in Effects /\ e.op # "cursors"
  BY <1>1, <1>2, FxForms
<1>4. \A e, f \in OfferFx(n, s) : KeyOf(e) = KeyOf(f) => e = f
  BY <1>2
<1>5. OfferFx(n, s) \subseteq Effects
  BY <1>3
<1>6. Emitted(OfferFx(n, s))
  BY <1>3, <1>4, <1>5, KeyedFinite
<1> QED
  BY <1>2, <1>6

\* A log that has settled all it covers stands still until it is offered more.
LEMMA SettledStands ==
  ASSUME NEW l, Sound(l), l.interval = l.topmost, NEW S
  PROVE  Advance(l, S).interval = l.interval /\ Advance(l, S).topmost = l.topmost
<1> DEFINE a == Advance(l, S)
<1>1. Sound(a) /\ a.topmost = l.topmost /\ l.interval <= a.interval
  BY AdvanceSound
<1> HIDE DEF a
<1>2. a.interval \in Nat /\ a.topmost \in Nat /\ a.interval <= a.topmost
  BY <1>1, SoundFacts DEF Sound
<1>3. l.interval \in Nat
  BY SoundFacts
<1> QED
  BY <1>1, <1>2, <1>3 DEF a

\* A log with nothing left to cover has settled all it covers.
LEMMA UsedUp ==
  ASSUME NEW l, Sound(l), NextStart(l) > l.topmost
  PROVE  l.interval = l.topmost
<1>1. NextStart(l) \in Nat /\ NextStart(l) <= l.interval + 1
  BY NextStartSound, LogTypes
<1>2. l.interval \in Nat /\ l.topmost \in Nat /\ l.interval <= l.topmost
  BY SoundFacts DEF Sound
<1> QED
  BY <1>1, <1>2

\* The effects of a round: each is of one of three forms.
LEMMA RoundForms ==
  ASSUME NEW t, NodeOK(t), NEW s, s = Round(t).node, NEW e \in Round(t).fx
  PROVE  \E k \in Keys :
           /\ KeyOf(e) = k
           /\ \/ /\ k \in DOMAIN s.logs
                 /\ e = SettledFx(k, s.logs[k].interval) /\ e.op = "settled"
              \/ /\ k \in Reopened(t, s)
                 /\ e = Offer(k, NextStart(s.logs[k])) /\ e.op = "offer"
              \/ /\ e = Fetch(k, Committed(t, s, k[1], k[2])) /\ e.op = "fetch"
                 /\ e.peer = k[1] /\ e.want = Committed(t, s, k[1], k[2])
<1>1. NodeOK(s) /\ e \in RoundFx(t, s)
  BY RoundFacts DEF Rounded
<1>2. DOMAIN s.logs \subseteq Keys /\ Reopened(t, s) \subseteq Keys
  BY <1>1, NodeParts DEF NodeOK, Reopened
<1>3. CASE \E k \in DOMAIN s.logs : e = SettledFx(k, s.logs[k].interval)
  BY <1>2, <1>3, FxForms
<1>4. CASE \E k \in Reopened(t, s) : e = Offer(k, NextStart(s.logs[k]))
  BY <1>2, <1>4, FxForms
<1>5. CASE \E k \in Keys : e = Fetch(k, Committed(t, s, k[1], k[2]))
  BY <1>5, FxForms
<1> QED
  BY <1>1, <1>3, <1>4, <1>5 DEF RoundFx

\* The effects of a round wait rightly, and are new.
RoundSent(t, s, fx) ==
  /\ Emitted(fx)
  /\ \A e \in fx : e.op # "cursors" /\ Waits(s, e)
  /\ \A e, f \in fx : e # f => ~Clash(e, f)
  /\ \A e \in fx : e.op = "offer" => KeyOf(e) \notin t.offer_open
  /\ \A e \in fx : e.op = "fetch" =>
       \A c \in e.want : c \in Chunks /\ e.peer \in s.m.want[c] \ t.m.want[c]

LEMMA RoundSends ==
  ASSUME NEW t, NodeOK(t), NEW s, s = Round(t).node
  PROVE  RoundSent(t, s, Round(t).fx)
<1> DEFINE fx == Round(t).fx
           Form(e, k) ==
             /\ k \in Keys
             /\ KeyOf(e) = k
             /\ \/ /\ k \in DOMAIN s.logs
                   /\ e = SettledFx(k, s.logs[k].interval) /\ e.op = "settled"
                \/ /\ k \in Reopened(t, s)
                   /\ e = Offer(k, NextStart(s.logs[k])) /\ e.op = "offer"
                \/ /\ e = Fetch(k, Committed(t, s, k[1], k[2])) /\ e.op = "fetch"
                   /\ e.peer = k[1] /\ e.want = Committed(t, s, k[1], k[2])
<1>1. ASSUME NEW e \in fx
      PROVE  \E k \in Keys : Form(e, k)
  <2>1. e \in Round(t).fx
    OBVIOUS
  <2> QED
    BY <2>1, RoundForms
<1>2. /\ NodeOK(s) /\ \A k \in DOMAIN s.logs : Sound(s.logs[k])
      /\ s.offer_open = t.offer_open \cup Reopened(t, s)
  <2>1. NodeOK(s) /\ s.offer_open = t.offer_open \cup Reopened(t, s)
    BY RoundFacts DEF Rounded
  <2> QED
    BY <2>1 DEF NodeOK
<1>3. /\ Reopened(t, s) \subseteq DOMAIN s.logs
      /\ Reopened(t, s) \cap t.offer_open = {}
      /\ \A k \in Reopened(t, s) : NextStart(s.logs[k]) > s.logs[k].topmost
  BY DEF Reopened
<1> HIDE DEF fx
<1>4. ASSUME NEW e \in fx
      PROVE  e \in Effects /\ e.op # "cursors"
  <2>1. PICK k \in Keys : Form(e, k)
    BY <1>1
  <2>2. \A l \in DOMAIN s.logs : s.logs[l].interval \in BinIds /\ NextStart(s.logs[l]) \in BinIds
    BY <1>2, SoundFacts, NextStartSound
  <2>3. Committed(t, s, k[1], k[2]) \in SUBSET Chunks
    BY DEF Committed
  <2> QED
    BY <1>3, <2>1, <2>2, <2>3, FxForms
<1>5. \A e, f \in fx : e.op = f.op /\ KeyOf(e) = KeyOf(f) => e = f
  <2> SUFFICES ASSUME NEW e \in fx, NEW f \in fx, e.op = f.op, KeyOf(e) = KeyOf(f)
               PROVE  e = f
    OBVIOUS
  <2>1. PICK k \in Keys : Form(e, k)
    BY <1>1
  <2>2. PICK l \in Keys : Form(f, l)
    BY <1>1
  <2>3. k = l
    BY <2>1, <2>2
  <2> QED
    BY <2>1, <2>2, <2>3
<1>6. Emitted(fx)
  <2>1. fx \subseteq Effects /\ \A e \in fx : e.op # "cursors"
    BY <1>4
  <2> QED
    BY <1>5, <2>1, KeyedFinite
<1>7. \A e \in fx : e.op = "offer" => KeyOf(e) \in Reopened(t, s)
  BY <1>1
<1>8. \A e \in fx : e.op = "offer" => KeyOf(e) \notin t.offer_open
  BY <1>3, <1>7
<1>9. ASSUME NEW e \in fx, e.op = "fetch"
      PROVE  \A c \in e.want : /\ c \in Chunks /\ e.peer \in s.m.want[c] \ t.m.want[c]
                               /\ BinOf(s, c) = KeyOf(e)[2] /\ e.peer = KeyOf(e)[1]
  <2>1. PICK k \in Keys : Form(e, k)
    BY <1>1
  <2>2. e.peer = k[1] /\ e.want = Committed(t, s, k[1], k[2]) /\ KeyOf(e) = k
    BY <1>9, <2>1
  <2> QED
    BY <2>2 DEF Committed
<1>10. ASSUME NEW e \in fx
       PROVE  Waits(s, e)
  <2>1. PICK k \in Keys : Form(e, k)
    BY <1>1
  <2>2. CASE e.op = "settled"
    <3>1. k \in DOMAIN s.logs /\ e.upto = s.logs[k].interval /\ KeyOf(e) = k
      BY <2>1, <2>2, FxForms
    <3>2. s.logs[k].interval \in Nat
      BY <1>2, <3>1, SoundFacts
    <3> QED
      BY <2>2, <3>1, <3>2 DEF Waits
  <2>3. CASE e.op = "offer"
    <3>1. k \in Reopened(t, s) /\ e.start = NextStart(s.logs[k]) /\ KeyOf(e) = k
      BY <2>1, <2>3, FxForms
    <3>2. s.logs[k].interval = s.logs[k].topmost
      BY <1>2, <1>3, <3>1, UsedUp
    <3> QED
      BY <1>2, <1>3, <2>3, <3>1, <3>2 DEF Waits
  <2>4. CASE e.op = "fetch"
    BY <1>9, <2>4 DEF Waits
  <2> QED
    BY <2>1, <2>2, <2>3, <2>4
<1>11. ASSUME NEW e \in fx, NEW f \in fx, e # f
       PROVE  ~Clash(e, f)
  <2> SUFFICES ASSUME Clash(e, f) PROVE FALSE
    OBVIOUS
  <2>1. ~(e.op = f.op /\ KeyOf(e) = KeyOf(f))
    BY <1>5, <1>11
  <2>2. e.op # "cursors"
    BY <1>4
  <2>3. /\ e.op = "fetch" /\ f.op = "fetch" /\ e.peer = f.peer
        /\ \E c \in e.want : c \in f.want
    BY <2>1, <2>2 DEF Clash
  <2>4. PICK c \in e.want : c \in f.want
    BY <2>3
  <2>5. KeyOf(e)[1] = KeyOf(f)[1] /\ KeyOf(e)[2] = KeyOf(f)[2]
    BY <1>9, <2>3, <2>4
  <2>6. KeyOf(e) \in Keys /\ KeyOf(f) \in Keys
    BY <1>4, EffectKeys
  <2>7. KeyOf(e) = KeyOf(f)
    BY <2>5, <2>6 DEF Keys
  <2> QED
    BY <2>1, <2>3, <2>7
<1>12. RoundSent(t, s, fx)
  BY <1>4, <1>6, <1>8, <1>9, <1>10, <1>11 DEF RoundSent
<1> QED
  BY <1>12 DEF fx

-----------------------------------------------------------------------------
(* What the answers do to the node.                                        *)

\* A round moves intervals up, keeps coverage, flags and leases, and settles
\* nothing.
RoundMoved(t, s) ==
  /\ NodeOK(s)
  /\ s.m.cfg = t.m.cfg
  /\ s.m.got = t.m.got /\ s.m.rejected = t.m.rejected /\ Done(s) = Done(t)
  /\ DOMAIN s.logs = DOMAIN t.logs
  /\ \A k \in DOMAIN t.logs :
       /\ t.logs[k].interval <= s.logs[k].interval
       /\ s.logs[k].topmost = t.logs[k].topmost
       /\ t.logs[k].interval = t.logs[k].topmost => s.logs[k].interval = t.logs[k].interval
  /\ t.offer_open \subseteq s.offer_open
  /\ \A c \in Chunks : t.m.want[c] \subseteq s.m.want[c]

LEMMA RoundMoves ==
  ASSUME NEW t, NodeOK(t), NEW s, s = Round(t).node
  PROVE  RoundMoved(t, s)
<1>1. Rounded(t, s)
  BY RoundFacts
<1>2. /\ NodeOK(s)
      /\ s.m.cfg = t.m.cfg /\ s.m.got = t.m.got /\ s.m.rejected = t.m.rejected
      /\ DOMAIN s.logs = DOMAIN t.logs
      /\ \A k \in DOMAIN t.logs : s.logs[k] = Advance(t.logs[k], Done(t))
      /\ s.offer_open = t.offer_open \cup Reopened(t, s)
      /\ \A c \in Chunks : t.m.want[c] \subseteq s.m.want[c]
  BY <1>1 DEF Rounded
<1>3. Done(s) = Done(t)
  BY <1>2 DEF Done
<1>4. ASSUME NEW k \in DOMAIN t.logs
      PROVE  /\ t.logs[k].interval <= s.logs[k].interval
             /\ s.logs[k].topmost = t.logs[k].topmost
             /\ t.logs[k].interval = t.logs[k].topmost => s.logs[k].interval = t.logs[k].interval
  <2>1. Sound(t.logs[k])
    BY DEF NodeOK
  <2> QED
    BY <1>2, <2>1, AdvanceSound, SettledStands
<1> QED
  BY <1>2, <1>3, <1>4 DEF RoundMoved

\* The answer to a request for cursors.
LEMMA CursorsMove ==
  ASSUME NEW n, NodeOK(n), NEW h \in Effects, h.op = "cursors", Waits(n, h),
         NEW heads \in Partial(Bins, BinIds),
         NEW s, s = CursorsResult(n, h.peer, heads).node
  PROVE  Moved(n, s, h) /\ Sent(n, s, h, CursorsResult(n, h.peer, heads).fx)
<1>0. h.peer \in Peers
  BY DEF Effects
<1>1. /\ NodeOK(s)
      /\ DOMAIN s.logs \ DOMAIN n.logs \subseteq {k \in Keys : k[1] = h.peer}
      /\ s.offer_open \ n.offer_open \subseteq {k \in Keys : k[1] = h.peer}
      /\ s.m = n.m
      /\ DOMAIN n.logs \subseteq DOMAIN s.logs
      /\ \A k \in DOMAIN s.logs :
           s.logs[k] = IF k \in DOMAIN n.logs THEN n.logs[k] ELSE NewLog
      /\ n.offer_open \subseteq s.offer_open
      /\ s.offer_open \ n.offer_open \subseteq DOMAIN s.logs
      /\ CursorsResult(n, h.peer, heads).fx = OfferFx(n, s)
  BY <1>0, CursorsFacts
<1>2. Moved(n, s, h)
  <2>1. Done(s) = Done(n)
    BY <1>1 DEF Done
  <2>2. \A k \in DOMAIN n.logs : s.logs[k] = n.logs[k] /\ n.logs[k].interval <= s.logs[k].interval
    BY <1>1, SoundFacts DEF NodeOK
  <2> QED
    BY <1>1, <2>1, <2>2 DEF Moved
<1>3. \A k \in s.offer_open \ n.offer_open : k \notin DOMAIN n.logs
  BY <1>1 DEF Waits
<1>4. NewLog.interval = NewLog.topmost
  BY DEF NewLog, Resume
<1> DEFINE fx == OfferFx(n, s)
<1>5. /\ Emitted(fx)
      /\ \A e \in fx : \E k \in s.offer_open \ n.offer_open :
           /\ k \in Keys /\ k \in DOMAIN s.logs
           /\ e = Offer(k, NextStart(s.logs[k])) /\ e.op = "offer"
           /\ KeyOf(e) = k /\ e.start = NextStart(s.logs[k])
  BY <1>1, OffersEmitted
<1> HIDE DEF fx
<1>6. ASSUME NEW e \in fx
      PROVE  e.op = "offer" /\ Waits(s, e) /\ KeyOf(e) \notin n.offer_open
  <2>1. PICK k \in s.offer_open \ n.offer_open :
           /\ k \in DOMAIN s.logs /\ e.op = "offer"
           /\ KeyOf(e) = k /\ e.start = NextStart(s.logs[k])
    BY <1>5
  <2>2. s.logs[k].interval = s.logs[k].topmost
    BY <1>1, <1>3, <1>4, <2>1
  <2> QED
    BY <2>1, <2>2 DEF Waits
<1>7. \A e, f \in fx : e # f => ~Clash(e, f)
  <2>1. \A e, f \in fx : KeyOf(e) = KeyOf(f) => e = f
    BY <1>5
  <2> QED
    BY <1>6, <2>1 DEF Clash
<1>8. Sent(n, s, h, fx)
  BY <1>5, <1>6, <1>7 DEF Sent
<1> QED
  BY <1>1, <1>2, <1>8 DEF fx

\* The outcomes of a fetch.
LEMMA FetchMove ==
  ASSUME NEW n, NodeOK(n), n.m.cfg = Cfg, OneClaim => Exclusive(n.m),
         NEW h \in Effects, h.op = "fetch", Waits(n, h),
         NEW out \in Partial(Chunks, Outcomes), DOMAIN out \subseteq h.want,
         NEW s, s = FetchResult(n, h.peer, out).node
  PROVE  Moved(n, s, h) /\ Sent(n, s, h, FetchResult(n, h.peer, out).fx)
<1> DEFINE t == Fetched(n, h.peer, out)
           D == DOMAIN out
<1>0. h.peer \in Peers /\ h.want \in SUBSET Chunks
  BY DEF Effects
<1>1. /\ FetchResult(n, h.peer, out) = Round(t)
      /\ NodeOK(t)
      /\ t.logs = n.logs /\ t.bin_of = n.bin_of /\ t.offer_open = n.offer_open
      /\ Reported(n.m, t.m, D, h.peer, out)
  BY <1>0, FetchedFacts
<1> HIDE DEF t, D
<1>2. /\ t.m.cfg = n.m.cfg
      /\ n.m.got \subseteq t.m.got /\ n.m.rejected \subseteq t.m.rejected
      /\ \A c \in Chunks : /\ t.m.want[c] \subseteq n.m.want[c]
                           /\ c \notin D => t.m.want[c] = n.m.want[c]
  BY <1>1 DEF Reported
<1>3. RoundMoved(t, s) /\ RoundSent(t, s, FetchResult(n, h.peer, out).fx)
  BY <1>1, RoundMoves, RoundSends
<1>4. ASSUME OneClaim, NEW c \in Chunks, NEW p \in n.m.want[c], p \notin t.m.want[c]
      PROVE  p = h.peer /\ c \in h.want
  <2>1. c \in h.want
    BY <1>2, <1>4 DEF D
  <2>2. h.peer \in n.m.want[c]
    BY <1>4, <2>1 DEF Waits
  <2>3. PICK q \in Peers : n.m.want[c] = {q}
    BY <1>4 DEF Exclusive
  <2> QED
    BY <1>4, <2>1, <2>2, <2>3
<1>5. Moved(n, s, h)
  <2>1. Done(n) \subseteq Done(s)
    BY <1>2, <1>3 DEF Done, RoundMoved
  <2>2. OneClaim => \A c \in Chunks : \A p \in n.m.want[c] \ s.m.want[c] :
                      h.op = "fetch" /\ p = h.peer /\ c \in h.want
    BY <1>3, <1>4 DEF RoundMoved
  <2> QED
    BY <1>1, <1>2, <1>3, <2>1, <2>2 DEF Moved, RoundMoved
<1> DEFINE fx == FetchResult(n, h.peer, out).fx
<1>6. RoundSent(t, s, fx)
  BY <1>3
<1> HIDE DEF fx
<1>7. OneClaim => \A e \in fx : e.op = "fetch" =>
                    \A c \in e.want : e.peer \in n.m.want[c] =>
                      h.op = "fetch" /\ e.peer = h.peer /\ c \in h.want
  BY <1>4, <1>6 DEF RoundSent
<1>8. Sent(n, s, h, fx)
  BY <1>1, <1>6, <1>7 DEF Sent, RoundSent
<1> QED
  BY <1>5, <1>8 DEF fx

\* The node an offer's answer leaves to its round.
Told(n, k, start, refs, topmost) == Ingested(Diffed(n, k, start, refs, topmost), k, refs)

\* The answer finds a log that has settled all it covers, so it loses no holder.
ToldTo(n, t, k, start, refs, topmost) ==
  /\ NodeOK(t)
  /\ t.m.cfg = n.m.cfg /\ t.m.got = n.m.got /\ t.m.rejected = n.m.rejected
  /\ t.m.want = n.m.want
  /\ Done(t) = Done(n)
  /\ OneClaim => Exclusive(t.m)
  /\ t.peers = n.peers
  /\ n.m.arrived \subseteq t.m.arrived
  /\ \A c \in Chunks : n.m.holders[c] \subseteq t.m.holders[c]
  /\ \A b \in DOMAIN refs : refs[b] \notin Done(n) =>
       refs[b] \in t.m.arrived /\ k[1] \in t.m.holders[refs[b]]
  /\ t.offer_open = n.offer_open \ {k}
  /\ DOMAIN t.logs = DOMAIN n.logs
  /\ \A l \in DOMAIN n.logs \ {k} : t.logs[l] = n.logs[l]
  /\ t.logs[k].interval = n.logs[k].interval
  /\ t.logs[k].topmost \in {n.logs[k].topmost, topmost, start} \cup DOMAIN refs
  /\ topmost <= t.logs[k].topmost /\ n.logs[k].topmost <= t.logs[k].topmost
  /\ DOMAIN t.logs[k].entries = {b \in DOMAIN refs : b > n.logs[k].interval}
  /\ \A b \in DOMAIN t.logs[k].entries : t.logs[k].entries[b] = refs[b]

LEMMA ToldFacts ==
  ASSUME NEW n, NodeOK(n), n.m.cfg = Cfg, OneClaim => Exclusive(n.m),
         NEW k \in DOMAIN n.logs, n.logs[k].interval = n.logs[k].topmost,
         NEW start \in BinIds, NEW refs \in Window, NEW topmost \in BinIds
  PROVE  ToldTo(n, Told(n, k, start, refs, topmost), k, start, refs, topmost)
<1> DEFINE d == Diffed(n, k, start, refs, topmost)
           t == Told(n, k, start, refs, topmost)
           named == {refs[b] : b \in DOMAIN refs}
           lost == Unnamed(n.logs[k], start, refs, topmost)
<1>0. /\ k \in Keys /\ k[1] \in Peers /\ n.m \in State /\ Sound(n.logs[k])
      /\ LogOf(n, k) = n.logs[k]
  BY NodeParts DEF NodeOK, Keys, LogOf
<1>1. DOMAIN n.logs[k].entries = {}
  <2>1. n.logs[k].interval \in Nat /\ \A b \in DOMAIN n.logs[k].entries :
          b \in Nat /\ n.logs[k].interval < b /\ b <= n.logs[k].topmost
    BY <1>0, SoundFacts
  <2> QED
    BY <2>1
<1>2. lost = {} /\ {n.logs[k].entries[b] : b \in lost} = {}
  BY <1>1 DEF Unnamed
<1>3. DiffedTo(n, d, k, start, refs, topmost)
  BY <1>0, DiffedFacts
<1> HIDE DEF d, lost
<1>4. /\ NodeOK(d) /\ d.bin_of = n.bin_of /\ d.peers = n.peers
      /\ d.offer_open = n.offer_open \ {k}
      /\ DOMAIN d.logs = DOMAIN n.logs
      /\ \A l \in DOMAIN n.logs \ {k} : d.logs[l] = n.logs[l]
      /\ d.logs[k].interval = n.logs[k].interval
      /\ d.logs[k].topmost \in {n.logs[k].topmost, topmost, start}
      /\ topmost <= d.logs[k].topmost /\ n.logs[k].topmost <= d.logs[k].topmost
      /\ DOMAIN d.logs[k].entries = {}
      /\ Lost(n.m, d.m, {}, k[1])
  BY <1>0, <1>1, <1>2, <1>3 DEF DiffedTo, lost
<1>5. /\ d.m \in State /\ d.m.cfg = n.m.cfg /\ d.m.got = n.m.got
      /\ d.m.rejected = n.m.rejected
      /\ d.m.arrived = n.m.arrived
      /\ \A c \in Chunks : d.m.want[c] = n.m.want[c] /\ d.m.holders[c] = n.m.holders[c]
  BY <1>4 DEF Lost
<1>6. d.m.want = n.m.want
  <2>1. d.m.want \in [Chunks -> SUBSET Peers] /\ n.m.want \in [Chunks -> SUBSET Peers]
    BY <1>0, <1>5 DEF State
  <2> QED
    BY <1>5, <2>1
<1>7. OneClaim => Exclusive(d.m)
  <2>1. {} \in SUBSET Chunks
    OBVIOUS
  <2> QED
    BY <1>0, <1>4, <2>1, ExclusiveLost
<1>8. IngestedTo(d, t, k, refs)
  BY <1>4, IngestedFacts DEF Told, d
<1> HIDE DEF t
<1>9. /\ NodeOK(t) /\ t.offer_open = d.offer_open
      /\ DOMAIN t.logs = DOMAIN d.logs
      /\ \A l \in DOMAIN d.logs \ {k} : t.logs[l] = d.logs[l]
      /\ t.logs[k] = ObserveAll(d.logs[k], refs)
      /\ Offered(d.m, t.m, named)
      /\ t.peers = d.peers /\ \A c \in named : k[1] \in t.m.holders[c]
  BY <1>8 DEF IngestedTo
<1> DEFINE news == {b \in DOMAIN refs : b > n.logs[k].interval}
<1>10. /\ t.logs[k].interval = d.logs[k].interval
       /\ t.logs[k].topmost \in {d.logs[k].topmost} \cup DOMAIN refs
       /\ d.logs[k].topmost <= t.logs[k].topmost
       /\ DOMAIN t.logs[k].entries = news
       /\ \A b \in news : t.logs[k].entries[b] = refs[b]
  <2>1. Sound(d.logs[k])
    BY <1>4 DEF NodeOK
  <2> QED
    BY <1>4, <1>9, <2>1, ObserveSound
<1>11. /\ t.m.cfg = d.m.cfg /\ t.m.got = d.m.got /\ t.m.rejected = d.m.rejected
       /\ t.m.want = d.m.want
  BY <1>9 DEF Offered
<1>12. named \in SUBSET Chunks
  BY LogTypes
<1>13. OneClaim => Exclusive(t.m)
  BY <1>5, <1>7, <1>9, <1>12, ExclusiveOffered
<1>14. topmost <= t.logs[k].topmost /\ n.logs[k].topmost <= t.logs[k].topmost
  <2>1. /\ topmost \in Nat /\ d.logs[k].topmost \in Nat /\ t.logs[k].topmost \in Nat
        /\ n.logs[k].topmost \in Nat
    <3>1. Sound(d.logs[k]) /\ Sound(t.logs[k])
      BY <1>4, <1>9 DEF NodeOK
    <3> QED
      BY <1>0, <3>1, SoundFacts, LogTypes
  <2> QED
    BY <1>4, <1>10, <2>1
<1>15. Done(t) = Done(n)
  BY <1>5, <1>11 DEF Done
<1>16. /\ t.peers = n.peers /\ n.m.arrived \subseteq t.m.arrived
       /\ \A c \in Chunks : n.m.holders[c] \subseteq t.m.holders[c]
  BY <1>4, <1>5, <1>9 DEF Offered
<1>17. ASSUME NEW b \in DOMAIN refs, refs[b] \notin Done(n)
       PROVE  refs[b] \in t.m.arrived /\ k[1] \in t.m.holders[refs[b]]
  <2>1. refs[b] \in named /\ ~Settled(d.m, refs[b])
    BY <1>5, <1>17 DEF Settled, Done
  <2> QED
    BY <1>9, <2>1 DEF Offered
<1>18. ToldTo(n, t, k, start, refs, topmost)
  BY <1>4, <1>5, <1>6, <1>9, <1>10, <1>11, <1>13, <1>14, <1>15, <1>16, <1>17 DEF ToldTo
<1> QED
  BY <1>18 DEF t

\* The answer to an offer.
LEMMA OfferMove ==
  ASSUME NEW n, NodeOK(n), n.m.cfg = Cfg, OneClaim => Exclusive(n.m),
         NEW h \in Effects, h.op = "offer", Waits(n, h),
         NEW refs \in Window, NEW topmost \in BinIds,
         NEW s, s = OfferResult(n, KeyOf(h), h.start, refs, topmost).node
  PROVE  /\ ToldTo(n, Told(n, KeyOf(h), h.start, refs, topmost), KeyOf(h), h.start, refs, topmost)
         /\ OfferResult(n, KeyOf(h), h.start, refs, topmost)
              = Round(Told(n, KeyOf(h), h.start, refs, topmost))
         /\ RoundMoved(Told(n, KeyOf(h), h.start, refs, topmost), s)
         /\ Moved(n, s, h)
         /\ Sent(n, s, h, OfferResult(n, KeyOf(h), h.start, refs, topmost).fx)
<1> DEFINE k == KeyOf(h)
           t == Told(n, k, h.start, refs, topmost)
           fx == OfferResult(n, k, h.start, refs, topmost).fx
<1>1. k \in DOMAIN n.logs /\ n.logs[k].interval = n.logs[k].topmost /\ h.start \in BinIds
  BY DEF Waits, Effects
<1>2. OfferResult(n, k, h.start, refs, topmost) = Round(t)
  BY DEF OfferResult, Told
<1>3. ToldTo(n, t, k, h.start, refs, topmost)
  <2> HIDE DEF k
  <2> QED
    BY <1>1, ToldFacts
<1>4. RoundMoved(t, s) /\ RoundSent(t, s, fx)
  <2>1. NodeOK(t)
    BY <1>3 DEF ToldTo
  <2> HIDE DEF t
  <2> QED
    BY <1>2, <2>1, RoundMoves, RoundSends
<1> HIDE DEF t, fx, k
<1>5. Moved(n, s, h)
  <2>1. NodeOK(s) /\ s.m.cfg = n.m.cfg /\ Done(s) = Done(n) /\ DOMAIN s.logs = DOMAIN n.logs
    BY <1>3, <1>4 DEF ToldTo, RoundMoved
  <2>2. ASSUME NEW l \in DOMAIN n.logs
        PROVE  /\ n.logs[l].interval <= s.logs[l].interval
               /\ n.logs[l].interval = n.logs[l].topmost =>
                    \/ l = k
                    \/ /\ s.logs[l].interval = n.logs[l].interval
                       /\ s.logs[l].topmost = n.logs[l].topmost
    BY <1>3, <1>4 DEF ToldTo, RoundMoved
  <2>3. n.offer_open \ s.offer_open \subseteq {k}
    BY <1>3, <1>4 DEF ToldTo, RoundMoved
  <2>4. \A c \in Chunks : n.m.want[c] \subseteq s.m.want[c]
    BY <1>3, <1>4 DEF ToldTo, RoundMoved
  <2> QED
    BY <2>1, <2>2, <2>3, <2>4 DEF Moved, k
<1>6. \A e \in fx : e.op = "offer" /\ KeyOf(e) \in n.offer_open => KeyOf(e) = k
  BY <1>3, <1>4 DEF ToldTo, RoundSent
<1>7. \A e \in fx : e.op = "fetch" => \A c \in e.want : e.peer \notin n.m.want[c]
  BY <1>3, <1>4 DEF ToldTo, RoundSent
<1>8. Sent(n, s, h, fx)
  BY <1>4, <1>6, <1>7 DEF Sent, RoundSent, k
<1> QED
  BY <1>2, <1>3, <1>4, <1>5, <1>8 DEF t, fx, k

-----------------------------------------------------------------------------
(* The pages of an offer.                                                  *)

\* Sets of BinIDs are finite and have a maximum.
LEMMA BinIdSets ==
  ASSUME NEW S \in SUBSET BinIds
  PROVE  /\ IsFiniteSet(S)
         /\ S # {} => Max(S) \in S /\ Max(S) \in Nat /\ \A y \in S : y <= Max(S)
<1>1. IsFiniteSet(BinIds)
  BY LogTypes, FS_Interval DEF BinIds
<1>2. IsFiniteSet(S)
  BY <1>1, FS_Subset
<1>3. ASSUME S # {}
      PROVE  Max(S) \in S /\ Max(S) \in Nat /\ \A y \in S : y <= Max(S)
  <2>1. \A x, y \in S : x \in Nat /\ y \in Nat /\ (x >= y <=> y <= x)
    BY LogTypes
  <2>2. \E x \in S : \A y \in S : x >= y
    BY <1>3, <2>1, GreatestExists
  <2>3. Max(S) \in S /\ \A y \in S : Max(S) >= y
    BY <2>2 DEF Max
  <2> QED
    BY <2>1, <2>3
<1> QED
  BY <1>2, <1>3

\* The head of a peer's log.
LEMMA HeadFacts ==
  ASSUME NEW k, reserve[k] \in Window
  PROVE  /\ HeadOf(k) \in BinIds /\ HeadOf(k) \in Nat
         /\ \A b \in DOMAIN reserve[k] : b \in Nat /\ b <= HeadOf(k)
         /\ DOMAIN reserve[k] # {} => HeadOf(k) \in DOMAIN reserve[k]
         /\ DOMAIN reserve[k] = {} => HeadOf(k) = 0
<1> DEFINE S == {0} \cup DOMAIN reserve[k]
<1>1. S \in SUBSET BinIds /\ S # {} /\ \A b \in S : b \in Nat
  BY LogTypes
<1>2. HeadOf(k) = Max(S)
  BY DEF HeadOf
<1> HIDE DEF S
<1>3. HeadOf(k) \in S /\ \A y \in S : y <= HeadOf(k)
  BY <1>1, <1>2, BinIdSets
<1>4. HeadOf(k) \in BinIds /\ HeadOf(k) \in Nat
  BY <1>1, <1>3
<1>5. DOMAIN reserve[k] # {} => HeadOf(k) \in DOMAIN reserve[k]
  <2> SUFFICES ASSUME NEW b \in DOMAIN reserve[k], HeadOf(k) \notin DOMAIN reserve[k]
               PROVE  FALSE
    OBVIOUS
  <2>1. HeadOf(k) = 0
    BY <1>3 DEF S
  <2>2. b \in S /\ b \in Nat
    BY <1>1 DEF S
  <2>3. b = 0
    BY <1>3, <2>1, <2>2
  <2> QED
    BY <2>1, <2>3
<1> QED
  BY <1>1, <1>3, <1>4, <1>5 DEF S

\* A page holds every entry of its range, up to its last one.
LEMMA PageFacts ==
  ASSUME NEW k, reserve[k] \in Window, NEW start \in BinIds,
         NEW page, page = Collect(k, start)
  PROVE  /\ page \in SUBSET BinIds /\ page \subseteq DOMAIN reserve[k]
         /\ \A b \in page : b \in Nat /\ start <= b
         /\ \A m \in page : \A b \in DOMAIN reserve[k] : start <= b /\ b <= m => b \in page
<1> DEFINE range == {b \in DOMAIN reserve[k] : b >= start}
           Below(b) == {x \in range : x < b}
<1>1. DOMAIN reserve[k] \subseteq BinIds /\ BinIds \subseteq Nat /\ start \in Nat
  BY LogTypes
<1>2. page = {b \in range : Cardinality(Below(b)) < Page}
  BY DEF Collect
<1>3. page \subseteq DOMAIN reserve[k] /\ \A b \in page : b \in Nat /\ start <= b
  BY <1>1, <1>2
<1>4. ASSUME NEW m \in page, NEW b \in DOMAIN reserve[k], start <= b, b <= m
      PROVE  b \in page
  <2>1. b \in range /\ m \in range /\ b \in Nat /\ m \in Nat
    BY <1>1, <1>2, <1>4
  <2>2. \A x \in range : x \in Nat
    BY <1>1
  <2>3. Below(b) \in SUBSET Below(m) /\ Below(m) \in SUBSET BinIds
    BY <1>1, <1>4, <2>1, <2>2
  <2>4. Cardinality(Below(m)) < Page
    BY <1>2
  <2> HIDE DEF Below, range
  <2>5. IsFiniteSet(Below(m)) /\ IsFiniteSet(Below(b))
    BY <2>3, BinIdSets, FS_Subset
  <2>6. Cardinality(Below(b)) <= Cardinality(Below(m))
    BY <2>3, <2>5, FS_Subset
  <2>7. Cardinality(Below(b)) \in Nat /\ Cardinality(Below(m)) \in Nat
    BY <2>5, FS_CardinalityType
  <2>8. Cardinality(Below(b)) < Page
    BY <2>4, <2>6, <2>7, SessionConstants
  <2> QED
    BY <1>2, <2>1, <2>8
<1> QED
  BY <1>1, <1>3, <1>4

\* The positions an offer gets: none is past the BinID it stands for.
PositionedAs(refs, R, start, page) ==
  /\ refs \in Window
  /\ \A i \in DOMAIN refs : /\ i \in Nat /\ start <= i /\ i <= Max(page)
                            /\ \E b \in page : i <= b /\ refs[i] = R[b]
  /\ \A b \in page : \E i \in DOMAIN refs : i <= b /\ refs[i] = R[b]

LEMMA PositionedFacts ==
  ASSUME NEW k, reserve[k] \in Window, NEW start \in BinIds, NEW page,
         page = Collect(k, start), page # {}
  PROVE  PositionedAs(Positioned(k, start, page), reserve[k], start, page)
<1> DEFINE R == {w \in page \X page : w[1] < w[2]}
           N == Cardinality(page)
           refs == Positioned(k, start, page)
           Below(b) == Cardinality({x \in page : x < b})
<1>1. /\ page \in SUBSET BinIds /\ page \subseteq DOMAIN reserve[k]
      /\ \A b \in page : b \in Nat /\ start <= b
  BY PageFacts
<1>2. start \in Nat /\ IsFiniteSet(page) /\ N \in Nat
      /\ \A b \in page : b <= Max(page)
      /\ Max(page) \in Nat
  BY <1>1, LogTypes, BinIdSets, FS_CardinalityType
<1>3. Ranked(page, R)
  <2>1. Orders(R, page)
    BY <1>1 DEF Orders
  <2> HIDE DEF R
  <2> QED
    BY <1>2, <2>1, RanksTaken
<1>4. \A b \in page : Rank(page, R, b) = Below(b)
  <2>1. \A b \in page : Under(page, R, b) = {x \in page : x < b}
    BY <1>1 DEF Under
  <2> QED
    BY <2>1 DEF Rank
<1>5. refs = [i \in start .. start + N - 1 |->
                reserve[k][CHOOSE b \in page : Below(b) = i - start]]
  BY DEF Positioned
<1>6. ASSUME NEW b \in page
      PROVE  Below(b) \in Nat /\ start + Below(b) <= b
  <2> DEFINE U == {x \in page : x < b}
  <2>1. b \in Nat /\ start <= b
    BY <1>1
  <2>0. start \in Int /\ b - 1 \in Int /\ b \in Int
    BY <1>2, <2>1
  <2>2. U \in SUBSET (start .. b - 1)
    <3>1. \A x \in U : x \in Nat /\ start <= x /\ x < b
      BY <1>1
    <3>2. \A x \in U : x \in start .. b - 1
      BY <2>0, <3>1
    <3> QED
      BY <3>2
  <2>3. /\ IsFiniteSet(start .. b - 1)
        /\ Cardinality(start .. b - 1) = IF start > b - 1 THEN 0 ELSE b - 1 - start + 1
    BY <2>0, FS_Interval
  <2>4. Cardinality(start .. b - 1) = b - start
    BY <1>2, <2>1, <2>3
  <2>5. IsFiniteSet(U) /\ Cardinality(U) <= b - start
    BY <2>2, <2>3, <2>4, FS_Subset
  <2>6. Cardinality(U) \in Nat
    BY <2>5, FS_CardinalityType
  <2>7. Below(b) = Cardinality(U)
    OBVIOUS
  <2> HIDE DEF U, Below
  <2> QED
    BY <1>2, <2>1, <2>5, <2>6, <2>7
<1> HIDE DEF R, refs, Below, N
<1>7. ASSUME NEW i \in start .. start + N - 1
      PROVE  \E b \in page : Below(b) = i - start /\ refs[i] = reserve[k][b]
  <2>1. i - start \in 0 .. N - 1
    BY <1>2
  <2>2. \E b \in page : Below(b) = i - start
    BY <1>3, <1>4, <2>1 DEF Ranked, N
  <2> DEFINE b == CHOOSE x \in page : Below(x) = i - start
  <2>3. b \in page /\ Below(b) = i - start
    <3> DEFINE j == i - start
    <3>1. \E x \in page : Below(x) = j
      BY <2>2
    <3> HIDE DEF j
    <3>2. (CHOOSE x \in page : Below(x) = j) \in page
          /\ Below(CHOOSE x \in page : Below(x) = j) = j
      BY <3>1
    <3> QED
      BY <3>2 DEF j
  <2>4. refs[i] = reserve[k][b]
    BY <1>5, Zenon
  <2> QED
    BY <2>3, <2>4
<1>8. DOMAIN refs = start .. start + N - 1
  BY <1>5
<1>9. ASSUME NEW i \in DOMAIN refs
      PROVE  /\ i \in Nat /\ start <= i /\ i <= Max(page)
             /\ \E b \in page : i <= b /\ refs[i] = reserve[k][b]
  <2>1. PICK b \in page : Below(b) = i - start /\ refs[i] = reserve[k][b]
    BY <1>7, <1>8
  <2>2. i \in Nat /\ start <= i
    BY <1>2, <1>8
  <2>3. i <= b /\ b <= Max(page) /\ b \in Nat
    BY <1>1, <1>2, <1>6, <2>1, <2>2
  <2> QED
    BY <1>2, <2>1, <2>2, <2>3
<1>10. ASSUME NEW b \in page
       PROVE  \E i \in DOMAIN refs : i <= b /\ refs[i] = reserve[k][b]
  <2> DEFINE i == start + Below(b)
  <2>1. Below(b) \in 0 .. N - 1
    BY <1>3, <1>4 DEF Ranked, N
  <2>2. i \in DOMAIN refs /\ i - start = Below(b) /\ i <= b
    BY <1>2, <1>6, <1>8, <2>1
  <2>3. PICK x \in page : Below(x) = i - start /\ refs[i] = reserve[k][x]
    BY <1>7, <1>8, <2>2
  <2>4. x = b
    BY <1>3, <1>4, <2>2, <2>3 DEF Ranked
  <2> QED
    BY <2>2, <2>3, <2>4
<1>11. refs \in Window
  <2>1. DOMAIN refs \subseteq BinIds
    <3>1. \A b \in page : b <= MaxBinId
      BY <1>1, LogTypes DEF BinIds
    <3>2. \A i \in DOMAIN refs : i \in Nat /\ \E b \in page : i <= b /\ b \in Nat
      BY <1>1, <1>9
    <3>3. \A i \in DOMAIN refs : i <= MaxBinId
      BY <3>1, <3>2, LogTypes
    <3> QED
      BY <3>2, <3>3, LogTypes DEF BinIds
  <2>2. \A i \in DOMAIN refs : refs[i] \in Chunks
    BY <1>1, <1>9, LogTypes
  <2>3. refs = [i \in DOMAIN refs |-> refs[i]]
    BY <1>5
  <2> QED
    BY <2>1, <2>2, <2>3, LogTypes
<1> QED
  BY <1>9, <1>10, <1>11 DEF PositionedAs, refs

-----------------------------------------------------------------------------
(* The inductive invariant of the durable high-water.                      *)

\* A log covers no BinID past the peer's last one.
Within(l, R) == l.topmost = 0 \/ \E b \in DOMAIN R : l.topmost <= b

\* Every entry of the peer's that the log covers is settled or in the window, and
\* there at a position that does not exceed its BinID.
Accounted(l, R, done) ==
  \A b \in DOMAIN R : b <= l.topmost =>
    \/ R[b] \in done
    \/ \E x \in DOMAIN l.entries : x <= b /\ l.entries[x] = R[b]

Covers(n, R) ==
  \A k \in DOMAIN n.logs :
    Within(n.logs[k], R[k]) /\ Accounted(n.logs[k], R[k], Done(n))

\* What was handed to the shell is not ahead of the log.
Persisted(n, high) ==
  \A k \in Keys :
    high[k] = 0 \/ (k \in DOMAIN n.logs /\ high[k] <= n.logs[k].interval)

TypeOK ==
  /\ NodeOK(node) /\ node.m.cfg = Cfg
  /\ queue \in Seq(Effects)
  /\ settled \in [Keys -> BinIds]
  /\ reserve \in [Keys -> Window]
  /\ \A k \in Keys : 0 \notin DOMAIN reserve[k]
  /\ landing \subseteq Peers \X Bins \X Chunks

IInv ==
  /\ TypeOK
  /\ Queued(node, queue)
  /\ Apart(queue)
  /\ Covers(node, reserve)
  /\ Persisted(node, settled)
  /\ OneClaim => Exclusive(node.m)

\* The next start is just above the interval, unless that is the last BinID.
LEMMA NextStartUp ==
  ASSUME NEW l, Sound(l), l.interval # MaxBinId
  PROVE  NextStart(l) = l.interval + 1
<1>1. l.interval \in Nat /\ l.interval <= MaxBinId /\ MaxBinId \in Nat
  BY SoundFacts, LogTypes DEF BinIds
<1> QED
  BY <1>1 DEF NextStart

\* What advance drops from a window is settled.
LEMMA AccountedAdvance ==
  ASSUME NEW l, Sound(l), NEW R, NEW done, Within(l, R), Accounted(l, R, done)
  PROVE  Within(Advance(l, done), R) /\ Accounted(Advance(l, done), R, done)
<1> DEFINE a == Advance(l, done)
<1>1. /\ a.topmost = l.topmost
      /\ \A b \in DOMAIN a.entries : a.entries[b] = l.entries[b]
      /\ \A b \in DOMAIN l.entries \ DOMAIN a.entries : l.entries[b] \in done
  BY AdvanceSound
<1> HIDE DEF a
<1>2. Within(a, R)
  BY <1>1 DEF Within
<1>3. Accounted(a, R, done)
  BY <1>1 DEF Accounted
<1> QED
  BY <1>2, <1>3 DEF a

LEMMA CoversRound ==
  ASSUME NEW t, NodeOK(t), NEW s, s = Round(t).node, NEW R, Covers(t, R)
  PROVE  Covers(s, R)
<1>1. Rounded(t, s)
  BY RoundFacts
<1>2. /\ DOMAIN s.logs = DOMAIN t.logs
      /\ \A k \in DOMAIN t.logs : s.logs[k] = Advance(t.logs[k], Done(t))
      /\ Done(s) = Done(t)
  BY <1>1 DEF Rounded, Done
<1>3. \A k \in DOMAIN t.logs : Sound(t.logs[k])
  BY DEF NodeOK
<1> QED
  BY <1>2, <1>3, AccountedAdvance DEF Covers

\* More is settled: the logs cover what they did.
LEMMA CoversMore ==
  ASSUME NEW n, NEW t, t.logs = n.logs, Done(n) \subseteq Done(t), NEW R, Covers(n, R)
  PROVE  Covers(t, R)
BY DEF Covers, Accounted

\* The answer to an offer covers its page, each entry at a position in the window.
LEMMA CoversTold ==
  ASSUME NEW n, NodeOK(n), NEW t, NEW k \in DOMAIN n.logs,
         n.logs[k].interval = n.logs[k].topmost,
         reserve[k] \in Window, NEW page, page # {},
         NEW start, start = NextStart(n.logs[k]), page = Collect(k, start),
         NEW refs, PositionedAs(refs, reserve[k], start, page),
         NEW told \in BinIds, told <= Max(page), ToldTo(n, t, k, start, refs, told),
         Covers(n, reserve)
  PROVE  Covers(t, reserve)
<1> DEFINE R == reserve[k]
           l == n.logs[k]
           a == t.logs[k]
           top == Max(page)
<1>1. Sound(l) /\ start \in BinIds /\ start \in Nat
  <2>1. Sound(l)
    BY DEF NodeOK
  <2> QED
    BY <2>1, NextStartSound, LogTypes
<1>2. /\ page \in SUBSET BinIds /\ page \subseteq DOMAIN R
      /\ \A b \in page : b \in Nat /\ start <= b
      /\ \A m \in page : \A b \in DOMAIN R : start <= b /\ b <= m => b \in page
  BY <1>1, PageFacts
<1>3. top \in page /\ top \in Nat /\ start <= top
  BY <1>2, BinIdSets
<1>4. /\ a.interval = l.interval
      /\ a.topmost \in {l.topmost, told, start} \cup DOMAIN refs
      /\ DOMAIN a.entries = {b \in DOMAIN refs : b > l.interval}
      /\ \A b \in DOMAIN a.entries : a.entries[b] = refs[b]
      /\ Done(t) = Done(n) /\ DOMAIN t.logs = DOMAIN n.logs
      /\ \A j \in DOMAIN n.logs \ {k} : t.logs[j] = n.logs[j]
  BY DEF ToldTo
<1>5. /\ Within(l, R) /\ Accounted(l, R, Done(n))
      /\ l.interval \in Nat /\ l.topmost = l.interval
      /\ \A b \in DOMAIN l.entries : b \in Nat /\ l.interval < b /\ b <= l.topmost
  BY <1>1, SoundFacts DEF Covers
<1>6. /\ \A i \in DOMAIN refs : i \in Nat /\ start <= i /\ i <= top
      /\ \A b \in page : \E i \in DOMAIN refs : i <= b /\ refs[i] = R[b]
  BY DEF PositionedAs
<1>7. \A b \in DOMAIN R : b \in Nat /\ b \in BinIds
  BY LogTypes
<1>8. l.topmost = a.topmost \/ (a.topmost \in Nat /\ a.topmost <= top)
  <2>1. told \in Nat /\ told <= top
    BY LogTypes
  <2> QED
    BY <1>1, <1>3, <1>4, <1>6, <2>1
<1> HIDE DEF R, a, l, top
<1>9. Within(a, R)
  BY <1>2, <1>3, <1>5, <1>8 DEF Within
<1>10. Accounted(a, R, Done(t))
  <2> SUFFICES ASSUME NEW b \in DOMAIN R, b <= a.topmost
               PROVE  \/ R[b] \in Done(t)
                      \/ \E x \in DOMAIN a.entries : x <= b /\ a.entries[x] = R[b]
    BY DEF Accounted
  <2>1. CASE b <= l.topmost
    <3>1. R[b] \in Done(n) \/ \E x \in DOMAIN l.entries : x <= b /\ l.entries[x] = R[b]
      BY <1>5, <2>1 DEF Accounted
    <3>2. DOMAIN l.entries = {}
      BY <1>5
    <3> QED
      BY <1>4, <3>1, <3>2
  <2>2. CASE ~(b <= l.topmost)
    <3>1. b \in Nat /\ b > l.interval /\ b <= MaxBinId /\ MaxBinId \in Nat
      BY <1>5, <1>7, <2>2, LogTypes DEF BinIds
    <3>2. start = l.interval + 1
      <4>1. l.interval # MaxBinId
        BY <1>5, <3>1
      <4> QED
        BY <1>1, <4>1, NextStartUp DEF l
    <3>3. a.topmost \in Nat /\ a.topmost <= top
      BY <1>8, <2>2
    <3>4. start <= b /\ b <= top
      BY <1>3, <1>5, <3>1, <3>2, <3>3
    <3>5. b \in page
      BY <1>2, <1>3, <3>4
    <3>6. PICK i \in DOMAIN refs : i <= b /\ refs[i] = R[b]
      BY <1>6, <3>5
    <3>7. i > l.interval
      BY <1>1, <1>5, <1>6, <3>2
    <3>8. i \in DOMAIN a.entries /\ a.entries[i] = R[b]
      BY <1>4, <3>6, <3>7
    <3> QED
      BY <3>6, <3>8
  <2> QED
    BY <2>1, <2>2
<1>11. ASSUME NEW j \in DOMAIN t.logs
       PROVE  Within(t.logs[j], reserve[j]) /\ Accounted(t.logs[j], reserve[j], Done(t))
  <2>1. CASE j = k
    BY <1>9, <1>10, <2>1 DEF a, R
  <2>2. CASE j # k
    BY <1>4, <2>2 DEF Covers
  <2> QED
    BY <2>1, <2>2
<1> QED
  BY <1>11 DEF Covers

-----------------------------------------------------------------------------
(* The steps.                                                              *)

\* The queue without its head.
LEMMA QueueSkipped ==
  ASSUME NEW n, NEW q \in Seq(Effects), q # <<>>, Queued(n, q), Apart(q)
  PROVE  Tail(q) \in Seq(Effects) /\ Queued(n, Tail(q)) /\ Apart(Tail(q))
<1>1. /\ Tail(q) \in Seq(Effects)
      /\ \A i \in DOMAIN Tail(q) : i + 1 \in DOMAIN q /\ Tail(q)[i] = q[i + 1]
      /\ \A i, j \in DOMAIN Tail(q) : i + 1 = j + 1 => i = j
  BY QueueTail
<1> DEFINE r == Tail(q)
<1> HIDE DEF r
<1>2. Queued(n, r)
  BY <1>1 DEF Queued, r
<1>3. Apart(r)
  BY <1>1 DEF Apart, r
<1> QED
  BY <1>1, <1>2, <1>3 DEF r

\* The head of the queue, for the provers.
LEMMA HeadWaits ==
  ASSUME IInv, queue # <<>>
  PROVE  /\ queue \in Seq(Effects) /\ Head(queue) \in Effects
         /\ Waits(node, Head(queue))
         /\ NodeOK(node) /\ node.m.cfg = Cfg /\ (OneClaim => Exclusive(node.m))
<1>1. /\ queue \in Seq(Effects) /\ Queued(node, queue)
      /\ NodeOK(node) /\ node.m.cfg = Cfg /\ (OneClaim => Exclusive(node.m))
  BY DEF IInv, TypeOK
<1>2. Head(queue) \in Effects /\ 1 \in DOMAIN queue /\ Head(queue) = queue[1]
  BY <1>1, QueueTail
<1> QED
  BY <1>1, <1>2 DEF Queued

\* An answered operation keeps the invariant.
LEMMA FedKeeps ==
  ASSUME IInv, queue # <<>>, NEW result, Feed(result), UNCHANGED <<settled, reserve, landing>>,
         Moved(node, result.node, Head(queue)), Sent(node, result.node, Head(queue), result.fx),
         Covers(result.node, reserve), OneClaim => Exclusive(result.node.m)
  PROVE  IInv'
<1> DEFINE s == result.node
           h == Head(queue)
<1>1. node' = s /\ queue' = Tail(queue) \o InOrder(result.fx)
      /\ settled' = settled /\ reserve' = reserve /\ landing' = landing
  BY DEF Feed
<1>2. NodeOK(node) /\ node.m.cfg = Cfg /\ queue \in Seq(Effects)
      /\ Queued(node, queue) /\ Apart(queue)
  BY DEF IInv, TypeOK
<1>3. queue' \in Seq(Effects) /\ Queued(s, queue') /\ Apart(queue')
  BY <1>1, <1>2, QueueFed
<1>4. NodeOK(s) /\ s.m.cfg = Cfg
  BY <1>2 DEF Moved
<1> HIDE DEF s
<1>5. TypeOK'
  BY <1>1, <1>3, <1>4 DEF IInv, TypeOK
<1>6. Persisted(s, settled)
  <2> SUFFICES ASSUME NEW k \in Keys, settled[k] # 0
               PROVE  k \in DOMAIN s.logs /\ settled[k] <= s.logs[k].interval
    BY DEF Persisted
  <2>1. k \in DOMAIN node.logs /\ settled[k] <= node.logs[k].interval
    BY DEF IInv, Persisted
  <2>2. k \in DOMAIN s.logs /\ node.logs[k].interval <= s.logs[k].interval
    BY <2>1 DEF Moved, s
  <2>3. node.logs[k].interval \in Nat /\ s.logs[k].interval \in Nat /\ settled[k] \in Nat
    BY <1>2, <1>4, <2>1, <2>2, SoundFacts, LogTypes DEF NodeOK, IInv, TypeOK
  <2> QED
    BY <2>1, <2>2, <2>3
<1> QED
  BY <1>1, <1>3, <1>5, <1>6 DEF IInv, s

\* The logs that cursors open cover nothing yet.
LEMMA CursorsKeep ==
  ASSUME IInv, NextOp("cursors"), NEW heads \in Partial(Bins, BinIds),
         Feed(CursorsResult(node, Head(queue).peer, heads)),
         UNCHANGED <<settled, reserve, landing>>
  PROVE  IInv'
<1> DEFINE h == Head(queue)
           r == CursorsResult(node, h.peer, heads)
           s == r.node
<1>1. queue # <<>> /\ h.op = "cursors"
  BY DEF NextOp
<1>2. /\ h \in Effects /\ Waits(node, h)
      /\ NodeOK(node) /\ node.m.cfg = Cfg /\ (OneClaim => Exclusive(node.m))
  BY <1>1, HeadWaits
<1>3. Moved(node, s, h) /\ Sent(node, s, h, r.fx)
  BY <1>1, <1>2, CursorsMove
<1>4. h.peer \in Peers
  BY <1>1, <1>2 DEF Effects
<1>5. /\ s.m = node.m
      /\ DOMAIN s.logs \ DOMAIN node.logs \subseteq {k \in Keys : k[1] = h.peer}
      /\ \A k \in DOMAIN s.logs :
           s.logs[k] = IF k \in DOMAIN node.logs THEN node.logs[k] ELSE NewLog
  BY <1>2, <1>4, CursorsFacts
<1> HIDE DEF h, r, s
<1>6. Covers(s, reserve)
  <2>1. Done(s) = Done(node)
    BY <1>5 DEF Done
  <2>2. ASSUME NEW k \in DOMAIN s.logs
        PROVE  Within(s.logs[k], reserve[k]) /\ Accounted(s.logs[k], reserve[k], Done(s))
    <3>1. CASE k \in DOMAIN node.logs
      BY <1>5, <2>1, <3>1 DEF IInv, Covers
    <3>2. CASE k \notin DOMAIN node.logs
      <4>1. k \in Keys /\ s.logs[k].topmost = 0
        BY <1>5, <3>2 DEF NewLog, Resume
      <4>2. \A b \in DOMAIN reserve[k] : b \in Nat /\ b # 0
        BY <4>1, LogTypes DEF IInv, TypeOK
      <4> QED
        BY <4>1, <4>2 DEF Within, Accounted
    <3> QED
      BY <3>1, <3>2
  <2> QED
    BY <2>2 DEF Covers
<1>7. OneClaim => Exclusive(s.m)
  BY <1>2, <1>5
<1>8. Feed(r) /\ r.node = s
  BY DEF r, h, s
<1> QED
  BY <1>1, <1>3, <1>6, <1>7, <1>8, FedKeeps DEF h

\* An offer's answer states a Topmost that its page covers.
OfferFed(topmost) ==
  /\ NextOp("offer") /\ OfferPage # {}
  /\ topmost \in BinIds /\ topmost <= Max(OfferPage)
  /\ FeedOffer(topmost)

LEMMA OfferRuns ==
  ASSUME IInv, RunOffer \/ UnderstateOffer
  PROVE  (\E topmost : OfferFed(topmost)) /\ UNCHANGED <<settled, reserve, landing>>
<1> DEFINE h == Head(queue)
           page == OfferPage
<1>1. /\ queue # <<>> /\ h.op = "offer" /\ NextOp("offer") /\ page # {}
      /\ UNCHANGED <<settled, reserve, landing>>
  BY DEF RunOffer, UnderstateOffer, NextOp, peersVars
<1>2. h \in Effects /\ Waits(node, h)
  BY <1>1, HeadWaits
<1>3. KeyOf(h) \in Keys /\ h.start \in BinIds
  BY <1>1, <1>2, EffectKeys DEF Effects
<1>4. page \in SUBSET BinIds
  <2>1. reserve[KeyOf(h)] \in Window
    BY <1>3 DEF IInv, TypeOK
  <2> HIDE DEF h
  <2> QED
    BY <1>3, <2>1, PageFacts DEF OfferPage, h
<1>5. Max(page) \in page
  BY <1>1, <1>4, BinIdSets
<1>6. /\ Max(page) \in BinIds /\ Max(page) \in Nat /\ MaxBinId \in Nat
      /\ Max(page) <= MaxBinId
  BY <1>4, <1>5, LogTypes DEF BinIds
<1>7. \E topmost \in 0 .. Max(page) : FeedOffer(topmost)
  <2>1. FeedOffer(Max(page)) \/ \E topmost \in 0 .. Max(page) - 1 : FeedOffer(topmost)
    BY DEF RunOffer, UnderstateOffer
  <2> QED
    BY <1>6, <2>1
<1>8. PICK topmost \in 0 .. Max(page) : FeedOffer(topmost)
  BY <1>7
<1>9. topmost \in BinIds /\ topmost <= Max(page)
  BY <1>6, <1>8 DEF BinIds
<1>10. OfferFed(topmost)
  BY <1>1, <1>8, <1>9 DEF OfferFed
<1> QED
  BY <1>1, <1>10

\* The page of an offer is covered and positioned before its round.
LEMMA OfferKeeps ==
  ASSUME IInv, NEW told, OfferFed(told), UNCHANGED <<settled, reserve, landing>>
  PROVE  IInv'
<1> DEFINE h == Head(queue)
           k == KeyOf(h)
           start == h.start
           page == Collect(k, start)
           refs == Positioned(k, start, page)
           t == Told(node, k, start, refs, told)
           r == OfferResult(node, k, start, refs, told)
           s == r.node
<1>1. /\ queue # <<>> /\ h.op = "offer" /\ page # {} /\ Feed(r)
      /\ told \in BinIds /\ told <= Max(page)
  BY DEF OfferFed, FeedOffer, OfferPage, NextOp
<1>2. /\ h \in Effects /\ Waits(node, h)
      /\ NodeOK(node) /\ node.m.cfg = Cfg /\ (OneClaim => Exclusive(node.m))
  BY <1>1, HeadWaits
<1>3. /\ k \in DOMAIN node.logs /\ start = NextStart(node.logs[k])
      /\ node.logs[k].interval = node.logs[k].topmost
      /\ start \in BinIds /\ k \in Keys
  BY <1>1, <1>2, EffectKeys DEF Waits, Effects
<1>4. reserve[k] \in Window
  BY <1>3 DEF IInv, TypeOK
<1> HIDE DEF h, k, start, page
<1>5. PositionedAs(refs, reserve[k], start, page)
  BY <1>1, <1>3, <1>4, PositionedFacts DEF page
<1>6. refs \in Window
  BY <1>5 DEF PositionedAs
<1> HIDE DEF refs
<1>8. /\ ToldTo(node, t, k, start, refs, told) /\ r = Round(t)
      /\ Moved(node, s, h) /\ Sent(node, s, h, r.fx)
  BY <1>1, <1>2, <1>6, OfferMove DEF k, start
<1> HIDE DEF t, r, s
<1>9. NodeOK(t) /\ (OneClaim => Exclusive(t.m)) /\ t.m.cfg = Cfg
  BY <1>2, <1>8 DEF ToldTo
<1>10. Covers(t, reserve)
  <2>1. Covers(node, reserve)
    BY DEF IInv
  <2> QED
    BY <1>1, <1>2, <1>3, <1>4, <1>5, <1>8, <2>1, CoversTold DEF page
<1>11. Covers(s, reserve)
  BY <1>8, <1>9, <1>10, CoversRound DEF s
<1>12. OneClaim => Exclusive(s.m)
  BY <1>8, <1>9, ExclusiveRound DEF OneClaim, s
<1> QED
  BY <1>1, <1>8, <1>11, <1>12, FedKeeps DEF h, s

\* Outcomes settle more, and the round follows.
LEMMA FetchKeeps ==
  ASSUME IInv, NextOp("fetch"), NEW out \in Partial(Chunks, Outcomes),
         DOMAIN out \subseteq Head(queue).want,
         Feed(FetchResult(node, Head(queue).peer, out)),
         UNCHANGED <<settled, reserve, landing>>
  PROVE  IInv'
<1> DEFINE h == Head(queue)
           t == Fetched(node, h.peer, out)
           r == FetchResult(node, h.peer, out)
           s == r.node
<1>1. queue # <<>> /\ h.op = "fetch"
  BY DEF NextOp
<1>2. /\ h \in Effects /\ Waits(node, h)
      /\ NodeOK(node) /\ node.m.cfg = Cfg /\ (OneClaim => Exclusive(node.m))
  BY <1>1, HeadWaits
<1>3. Moved(node, s, h) /\ Sent(node, s, h, r.fx)
  BY <1>1, <1>2, FetchMove
<1>4. h.peer \in Peers /\ DOMAIN out \in SUBSET Chunks
  BY <1>1, <1>2, PartialFacts DEF Effects
<1>5. /\ r = Round(t) /\ NodeOK(t) /\ t.logs = node.logs
      /\ Reported(node.m, t.m, DOMAIN out, h.peer, out)
  BY <1>2, <1>4, FetchedFacts
<1> HIDE DEF h, t, r, s
<1>6. /\ t.m.cfg = Cfg /\ Done(node) \subseteq Done(t)
  BY <1>2, <1>5 DEF Reported, Done
<1>7. Covers(s, reserve)
  <2>1. Covers(node, reserve)
    BY DEF IInv
  <2>2. Covers(t, reserve)
    BY <1>5, <1>6, <2>1, CoversMore
  <2> QED
    BY <1>5, <2>2, CoversRound DEF s
<1>8. OneClaim => Exclusive(s.m)
  <2> SUFFICES ASSUME OneClaim PROVE Exclusive(s.m)
    OBVIOUS
  <2>1. Exclusive(node.m) /\ node.m \in State
    BY <1>2, NodeParts DEF NodeOK
  <2>2. Exclusive(t.m)
    BY <1>4, <1>5, <2>1, ExclusiveReported
  <2>3. t.m.cfg.dedup
    BY <1>6 DEF OneClaim
  <2> QED
    BY <1>5, <2>2, <2>3, ExclusiveRound DEF s
<1>9. Feed(r) /\ r.node = s
  BY DEF r, h, s
<1> QED
  BY <1>1, <1>3, <1>7, <1>8, <1>9, FedKeeps DEF h

-----------------------------------------------------------------------------
(* The session before its first turn.                                      *)

\* A node that has only been told of neighbours, and the requests for their
\* cursors.
Greeted(a) ==
  /\ a.node \in NodeState
  /\ a.node.m = New(Cfg)
  /\ DOMAIN a.node.logs = {} /\ a.node.offer_open = {}
  /\ a.queue \in Seq(Effects)
  /\ \A i \in DOMAIN a.queue : /\ a.queue[i].op = "cursors"
                               /\ a.queue[i].peer \in a.node.peers
  /\ \A i, j \in DOMAIN a.queue : a.queue[i].peer = a.queue[j].peer => i = j

\* The peer that add_peer is called for in turn i.
NthPeer(i) == CHOOSE p \in Peers : Cardinality({q \in Peers : q < p}) = i - 1

Greet(a, p) ==
  LET seen == PeerSeen(a.node, p)
  IN [node |-> seen.node, queue |-> a.queue \o InOrder(seen.fx)]

LEMMA NthPeers ==
  /\ Cardinality(Peers) \in Nat
  /\ \A i \in 1 .. Cardinality(Peers) : NthPeer(i) \in Peers
<1> DEFINE R == {w \in Peers \X Peers : w[1] < w[2]}
           N == Cardinality(Peers)
<1>1. \A p \in Peers : p \in Nat
  BY NodeConstants
<1>2. N \in Nat
  BY NodeConstants, FS_CardinalityType
<1>3. Ranked(Peers, R)
  <2>1. Orders(R, Peers)
    BY <1>1 DEF Orders
  <2> HIDE DEF R
  <2> QED
    BY <2>1, NodeConstants, RanksTaken
<1>4. \A p \in Peers : Rank(Peers, R, p) = Cardinality({q \in Peers : q < p})
  <2>1. \A p \in Peers : Under(Peers, R, p) = {q \in Peers : q < p}
    BY <1>1 DEF Under
  <2> QED
    BY <2>1 DEF Rank
<1> HIDE DEF R, N
<1>5. ASSUME NEW i \in 1 .. N
      PROVE  NthPeer(i) \in Peers
  <2>1. i - 1 \in 0 .. N - 1
    BY <1>2
  <2>2. \E p \in Peers : Cardinality({q \in Peers : q < p}) = i - 1
    BY <1>3, <1>4, <2>1 DEF Ranked, N
  <2> DEFINE Below(p) == Cardinality({q \in Peers : q < p})
             j == i - 1
  <2>3. \E p \in Peers : Below(p) = j
    BY <2>2
  <2>4. NthPeer(i) = CHOOSE p \in Peers : Below(p) = j
    BY DEF NthPeer
  <2> HIDE DEF Below, j
  <2> QED
    BY <2>3, <2>4
<1> QED
  BY <1>2, <1>5 DEF N

\* The node before any event.
LEMMA NewNodeFacts ==
  Greeted([node |-> NewNode, queue |-> <<>>]) /\ Exclusive(New(Cfg)) /\ New(Cfg).cfg = Cfg
<1>1. New(Cfg) \in State
  BY NodeConstants DEF New, State, Nowhere
<1>2. Exclusive(New(Cfg))
  <2>1. Cardinality({}) = 0
    BY FS_EmptySet
  <2> QED
    BY <2>1 DEF New, Exclusive, Nowhere
<1>3. /\ NewNode.logs \in Partial(Keys, Log) /\ DOMAIN NewNode.logs = {}
      /\ NewNode.bin_of \in Partial(Chunks, Bins)
  BY PartialFacts DEF NewNode
<1>4. NewNode \in NodeState
  <2>1. NewNode.cursors \in [Keys -> BinIds] /\ NewNode.assigned \in [Peers -> Nat]
    BY LogTypes DEF NewNode
  <2>2. NewNode.m = New(Cfg) /\ NewNode.peers = {} /\ NewNode.offer_open = {}
    BY DEF NewNode
  <2>3. NewNode = [m |-> NewNode.m, peers |-> NewNode.peers, cursors |-> NewNode.cursors,
                   logs |-> NewNode.logs, bin_of |-> NewNode.bin_of,
                   assigned |-> NewNode.assigned, offer_open |-> NewNode.offer_open]
    BY DEF NewNode
  <2> QED
    BY <1>1, <1>3, <2>1, <2>2, <2>3, NodeFields
<1>5. NewNode.m = New(Cfg) /\ NewNode.offer_open = {}
  BY DEF NewNode
<1>6. <<>> \in Seq(Effects) /\ DOMAIN <<>> = {}
  OBVIOUS
<1> QED
  BY <1>2, <1>3, <1>4, <1>5, <1>6 DEF Greeted, New

\* One add_peer.
LEMMA GreetKeeps ==
  ASSUME NEW a, Greeted(a), NEW p \in Peers
  PROVE  Greeted(Greet(a, p))
<1> DEFINE seen == PeerSeen(a.node, p)
           r == a.queue \o InOrder(seen.fx)
           g == Greet(a, p)
           s == seen.node
<1>0. GetCursors(p) \in Effects /\ GetCursors(p).op = "cursors" /\ GetCursors(p).peer = p
  BY DEF GetCursors, Effects
<1>1. Emitted(seen.fx) /\ \A e \in seen.fx : e = GetCursors(p) /\ p \notin a.node.peers
  <2>1. CASE p \in a.node.peers
    <3>1. seen.fx = {}
      BY <2>1 DEF PeerSeen, Quiet
    <3> QED
      BY <3>1, FS_EmptySet DEF Emitted
  <2>2. CASE p \notin a.node.peers
    <3>1. seen.fx = {GetCursors(p)}
      BY <2>2 DEF PeerSeen
    <3>2. IsFiniteSet({GetCursors(p)})
      BY FS_Singleton
    <3> QED
      BY <1>0, <2>2, <3>1, <3>2 DEF Emitted
  <2> QED
    BY <2>1, <2>2
<1>2. /\ s \in NodeState /\ s.m = a.node.m /\ s.logs = a.node.logs
      /\ s.offer_open = a.node.offer_open
      /\ s.peers = a.node.peers \cup {p}
  <2>1. a.node \in NodeState /\ a.node.peers \in SUBSET Peers
    BY NodeParts DEF Greeted
  <2>2. CASE p \in a.node.peers
    BY <2>1, <2>2 DEF PeerSeen, Quiet
  <2>3. CASE p \notin a.node.peers
    <3>1. s = [a.node EXCEPT !.peers = @ \cup {p}]
      BY <2>3 DEF PeerSeen
    <3> QED
      BY <2>1, <3>1 DEF NodeState
  <2> QED
    BY <2>2, <2>3
<1>3. a.queue \in Seq(Effects)
  BY DEF Greeted
<1> DEFINE fx == seen.fx
<1>4. g = [node |-> s, queue |-> r]
  BY DEF Greet
<1> HIDE DEF s
<1>5. Joined(a.queue, r, fx)
  BY <1>1, <1>3, QueueJoins
<1> HIDE DEF r, g, fx
<1>6. \A e \in fx : e.op = "cursors" /\ e.peer = p /\ p \notin a.node.peers
  BY <1>0, <1>1 DEF fx
<1>7. \A e, f \in fx : e = f
  BY <1>1 DEF fx
<1>8. \A i \in DOMAIN r : r[i].op = "cursors" /\ r[i].peer \in s.peers
  BY <1>2, <1>5, <1>6 DEF Joined, Greeted
<1>9. ASSUME NEW i \in DOMAIN r, NEW j \in DOMAIN r, r[i].peer = r[j].peer
      PROVE  i = j
  <2> DEFINE T == DOMAIN a.queue
  <2>1. CASE i \in T /\ j \in T
    BY <1>5, <1>9, <2>1 DEF Joined, Greeted
  <2>2. CASE i \notin T /\ j \notin T
    BY <1>5, <1>7, <2>2 DEF Joined
  <2>3. \A x \in T : r[x].peer \in a.node.peers
    BY <1>5 DEF Joined, Greeted
  <2>4. \A x \in DOMAIN r \ T : r[x].peer \notin a.node.peers
    BY <1>5, <1>6 DEF Joined
  <2> QED
    BY <1>9, <2>1, <2>2, <2>3, <2>4
<1>10. g.node = s /\ g.queue = r
  BY <1>4
<1>11. r \in Seq(Effects)
  BY <1>5 DEF Joined
<1>12. Greeted(g)
  BY <1>2, <1>8, <1>9, <1>10, <1>11 DEF Greeted
<1> QED
  BY <1>12 DEF g

LEMMA AnnouncedFacts == Greeted(Announced)
<1> DEFINE first == [node |-> NewNode, queue |-> <<>>]
           N == Cardinality(Peers)
           Run(g, M) == g = [i \in 0 .. M |-> IF i = 0 THEN first ELSE Greet(g[i - 1], NthPeer(i))]
<1>0. N \in Nat
  BY NthPeers
<1>1. \A M \in Nat : \E g : Run(g, M)
  <2> DEFINE bad == {M \in Nat : ~ \E g : Run(g, M)}
  <2> SUFFICES ASSUME bad # {} PROVE FALSE
    OBVIOUS
  <2> HIDE DEF first
  <2>1. PICK M \in bad : \A y \in bad : M <= y
    BY LeastNat
  <2>2. M \in Nat /\ ~ \E g : Run(g, M)
    BY <2>1
  <2>3. M # 0
    <3>1. Run([t \in 0 .. 0 |-> first], 0)
      OBVIOUS
    <3> QED
      BY <2>2, <3>1
  <2>4. PICK g : Run(g, M - 1)
    <3>1. M - 1 \in Nat /\ ~(M <= M - 1)
      BY <2>2, <2>3
    <3>2. M - 1 \notin bad
      BY <2>1, <3>1
    <3> QED
      BY <3>1, <3>2
  <2> DEFINE h == [t \in 0 .. M |-> IF t = M THEN Greet(g[M - 1], NthPeer(M)) ELSE g[t]]
  <2>5. ASSUME NEW t \in 0 .. M
        PROVE  h[t] = IF t = 0 THEN first ELSE Greet(h[t - 1], NthPeer(t))
    <3>1. CASE t = M
      <4>1. h[t] = Greet(g[M - 1], NthPeer(M))
        BY <3>1
      <4>2. h[t - 1] = g[M - 1]
        BY <2>2, <2>3, <3>1
      <4> QED
        BY <2>3, <3>1, <4>1, <4>2
    <3>2. CASE t # M
      <4>1. t \in 0 .. (M - 1)
        BY <2>2, <3>2
      <4>2. h[t] = g[t] /\ g[t] = IF t = 0 THEN first ELSE Greet(g[t - 1], NthPeer(t))
        BY <2>4, <3>2, <4>1
      <4>3. t # 0 => h[t - 1] = g[t - 1]
        BY <2>2, <4>1
      <4> QED
        BY <4>2, <4>3
    <3> QED
      BY <3>1, <3>2
  <2>6. Run(h, M)
    <3>1. h = [t \in 0 .. M |-> h[t]]
      OBVIOUS
    <3> HIDE DEF h
    <3> QED
      BY <2>5, <3>1
  <2> QED
    BY <2>2, <2>6
<1> DEFINE after == CHOOSE g : Run(g, N)
<1>2. Run(after, N)
  <2>1. \E g : Run(g, N)
    BY <1>0, <1>1
  <2> HIDE DEF Run
  <2> QED
    BY <2>1
<1>3. Announced = after[N]
  BY DEF Announced, Greet, NthPeer
<1> HIDE DEF after, first, N
<1>4. ASSUME NEW i \in 0 .. N
      PROVE  after[i] = IF i = 0 THEN first ELSE Greet(after[i - 1], NthPeer(i))
  BY <1>2
<1> HIDE DEF Run
<1>5. Greeted(first)
  BY NewNodeFacts DEF first
<1>6. \A i \in 0 .. N : Greeted(after[i])
  <2> DEFINE bad == {i \in 0 .. N : ~Greeted(after[i])}
  <2> SUFFICES ASSUME bad # {} PROVE FALSE
    OBVIOUS
  <2>1. bad \in SUBSET Nat
    BY <1>0
  <2>2. PICK i \in bad : \A y \in bad : i <= y
    BY <2>1, LeastNat
  <2>3. i \in 0 .. N /\ ~Greeted(after[i])
    BY <2>2
  <2>4. i # 0
    BY <1>4, <1>5, <2>3
  <2>5. i - 1 \in 0 .. N /\ ~(i <= i - 1) /\ i \in 1 .. N
    BY <1>0, <2>3, <2>4
  <2>6. Greeted(after[i - 1])
    BY <2>2, <2>5
  <2>7. after[i] = Greet(after[i - 1], NthPeer(i)) /\ NthPeer(i) \in Peers
    BY <1>4, <2>3, <2>4, <2>5, NthPeers DEF N
  <2> QED
    BY <2>3, <2>6, <2>7, GreetKeeps
<1> QED
  BY <1>0, <1>3, <1>6

LEMMA IInvInit == Init => IInv
<1> SUFFICES ASSUME Init PROVE IInv
  OBVIOUS
<1>1. Greeted(Announced) /\ Exclusive(New(Cfg)) /\ New(Cfg).cfg = Cfg
  BY AnnouncedFacts, NewNodeFacts
<1>2. node = Announced.node /\ queue = Announced.queue /\ settled = [k \in Keys |-> 0]
      /\ reserve = Reserve0 /\ landing = Landing
  BY DEF Init
<1>3. /\ node \in NodeState /\ node.m = New(Cfg) /\ DOMAIN node.logs = {}
      /\ queue \in Seq(Effects)
      /\ \A i \in DOMAIN queue : queue[i].op = "cursors"
      /\ \A i, j \in DOMAIN queue : queue[i].peer = queue[j].peer => i = j
  BY <1>1, <1>2 DEF Greeted
<1>4. NodeOK(node)
  <2>1. New(Cfg).arrived = {}
    BY DEF New
  <2> QED
    BY <1>3, <2>1 DEF NodeOK
<1>5. TypeOK
  BY <1>1, <1>2, <1>3, <1>4, LogTypes, SessionConstants DEF TypeOK
<1>6. Queued(node, queue) /\ Apart(queue)
  BY <1>3 DEF Queued, Waits, Apart, Clash
<1>7. Covers(node, reserve) /\ Persisted(node, settled)
  BY <1>2, <1>3 DEF Covers, Persisted
<1> QED
  BY <1>1, <1>3, <1>5, <1>6, <1>7 DEF IInv

\* An operation that is dropped.
LEMMA SkipKeeps ==
  ASSUME IInv, queue # <<>>, Skip, UNCHANGED <<settled, reserve, landing>>
  PROVE  IInv'
<1>1. /\ node' = node /\ queue' = Tail(queue)
      /\ settled' = settled /\ reserve' = reserve /\ landing' = landing
  BY DEF Skip
<1>2. queue \in Seq(Effects) /\ Queued(node, queue) /\ Apart(queue)
  BY DEF IInv, TypeOK
<1>3. queue' \in Seq(Effects) /\ Queued(node, queue') /\ Apart(queue')
  BY <1>1, <1>2, QueueSkipped
<1> QED
  BY <1>1, <1>3 DEF IInv, TypeOK

\* An interval that is persisted is not ahead of the log.
LEMMA SettledKeeps ==
  ASSUME IInv, TakeSettled
  PROVE  IInv'
<1> DEFINE h == Head(queue)
           k == KeyOf(h)
<1>1. /\ queue # <<>> /\ h.op = "settled" /\ node' = node /\ queue' = Tail(queue)
      /\ settled' = [settled EXCEPT ![k] = h.upto]
      /\ reserve' = reserve /\ landing' = landing
  BY DEF TakeSettled, NextOp, Skip, peersVars
<1>2. queue \in Seq(Effects) /\ Queued(node, queue) /\ Apart(queue)
  BY DEF IInv, TypeOK
<1>3. queue' \in Seq(Effects) /\ Queued(node, queue') /\ Apart(queue')
  BY <1>1, <1>2, QueueSkipped
<1>4. h \in Effects /\ Waits(node, h)
  BY <1>1, HeadWaits
<1>5. k \in Keys /\ h.upto \in BinIds /\ k \in DOMAIN node.logs /\ h.upto <= node.logs[k].interval
  BY <1>1, <1>4, EffectKeys DEF Waits, Effects
<1> HIDE DEF h, k
<1>6. settled' \in [Keys -> BinIds]
      /\ \A j \in Keys : settled'[j] = IF j = k THEN h.upto ELSE settled[j]
  BY <1>1, <1>5 DEF IInv, TypeOK
<1>7. Persisted(node, settled')
  BY <1>5, <1>6 DEF IInv, Persisted
<1> QED
  BY <1>1, <1>3, <1>6, <1>7 DEF IInv, TypeOK

\* What lands is past everything the logs cover.
LEMMA LandKeeps ==
  ASSUME IInv, NEW u \in landing, Land(u)
  PROVE  IInv'
<1> DEFINE k == <<u[1], u[2]>>
           b == HeadOf(k) + 1
           new == Put(reserve[k], b, u[3])
<1>1. /\ landing' = landing \ {u} /\ HeadOf(k) < MaxBinId
      /\ reserve' = [reserve EXCEPT ![k] = new]
      /\ node' = node /\ queue' = queue /\ settled' = settled
  BY DEF Land
<1>2. k \in Keys /\ u[3] \in Chunks /\ reserve[k] \in Window /\ reserve \in [Keys -> Window]
  BY DEF IInv, TypeOK, Keys
<1>3. /\ HeadOf(k) \in Nat /\ \A x \in DOMAIN reserve[k] : x \in Nat /\ x <= HeadOf(k)
  BY <1>2, HeadFacts
<1>4. b \in BinIds /\ b \in Nat /\ b # 0 /\ \A x \in DOMAIN reserve[k] : x < b
  BY <1>1, <1>3, LogTypes DEF BinIds
<1> HIDE DEF b, k
<1>5. /\ DOMAIN new = DOMAIN reserve[k] \cup {b}
      /\ \A x \in DOMAIN reserve[k] : new[x] = reserve[k][x]
      /\ new \in [DOMAIN new -> Chunks]
  BY <1>2, <1>4, LogTypes DEF Put
<1> HIDE DEF new
<1>6. new \in Window /\ 0 \notin DOMAIN new
  <2>1. DOMAIN new \subseteq BinIds
    BY <1>2, <1>4, <1>5, LogTypes
  <2>2. 0 \notin DOMAIN reserve[k]
    BY <1>2 DEF IInv, TypeOK
  <2> QED
    BY <1>4, <1>5, <2>1, <2>2, LogTypes
<1>7. reserve' \in [Keys -> Window] /\ \A j \in Keys : reserve'[j] = IF j = k THEN new ELSE reserve[j]
  BY <1>1, <1>2, <1>6
<1>8. Covers(node, reserve')
  <2> SUFFICES ASSUME NEW j \in DOMAIN node.logs
               PROVE  /\ Within(node.logs[j], reserve'[j])
                      /\ Accounted(node.logs[j], reserve'[j], Done(node))
    BY DEF Covers
  <2>0. j \in Keys /\ Sound(node.logs[j])
    BY NodeParts DEF IInv, TypeOK, NodeOK
  <2>1. CASE j # k
    BY <1>7, <2>0, <2>1 DEF IInv, Covers
  <2>2. CASE j = k
    <3> DEFINE l == node.logs[k]
    <3>1. Within(l, reserve[k]) /\ Accounted(l, reserve[k], Done(node)) /\ l.topmost \in Nat
      BY <2>0, <2>2, SoundFacts DEF IInv, Covers
    <3> HIDE DEF l
    <3>2. l.topmost < b
      BY <1>3, <1>4, <3>1 DEF Within
    <3>3. Within(l, new)
      BY <1>5, <3>1 DEF Within
    <3>4. Accounted(l, new, Done(node))
      <4> SUFFICES ASSUME NEW x \in DOMAIN new, x <= l.topmost
                   PROVE  \/ new[x] \in Done(node)
                          \/ \E y \in DOMAIN l.entries : y <= x /\ l.entries[y] = new[x]
        BY DEF Accounted
      <4>1. x \in DOMAIN reserve[k]
        BY <1>4, <1>5, <3>1, <3>2
      <4> QED
        BY <1>5, <3>1, <4>1 DEF Accounted
    <3> QED
      BY <1>7, <2>0, <2>2, <3>3, <3>4 DEF l
  <2> QED
    BY <2>1, <2>2
<1>9. \A j \in Keys : 0 \notin DOMAIN reserve'[j]
  BY <1>6, <1>7 DEF IInv, TypeOK
<1> QED
  BY <1>1, <1>7, <1>8, <1>9 DEF IInv, TypeOK

\* The head of a reserve is never evicted, so the logs stay below it.
LEMMA EvictKeeps ==
  ASSUME IInv, NEW k \in Keys, NEW b \in DOMAIN reserve[k], Evict(k, b)
  PROVE  IInv'
<1> DEFINE new == Without(reserve[k], {b})
           top == HeadOf(k)
<1>1. /\ b < top /\ landing' = landing
      /\ reserve' = [reserve EXCEPT ![k] = new]
      /\ node' = node /\ queue' = queue /\ settled' = settled
  BY DEF Evict
<1>2. reserve[k] \in Window /\ reserve \in [Keys -> Window]
  BY DEF IInv, TypeOK
<1>3. /\ top \in Nat /\ \A x \in DOMAIN reserve[k] : x \in Nat /\ x <= top
      /\ top \in DOMAIN reserve[k]
  BY <1>2, HeadFacts
<1> HIDE DEF top
<1>4. /\ DOMAIN new = DOMAIN reserve[k] \ {b}
      /\ \A x \in DOMAIN new : new[x] = reserve[k][x]
      /\ new \in [DOMAIN new -> Chunks]
  BY <1>2, LogTypes DEF Without
<1> HIDE DEF new
<1>5. new \in Window /\ 0 \notin DOMAIN new
  BY <1>2, <1>4, LogTypes DEF IInv, TypeOK
<1>6. top \in DOMAIN new
  BY <1>1, <1>3, <1>4
<1>7. reserve' \in [Keys -> Window] /\ \A j \in Keys : reserve'[j] = IF j = k THEN new ELSE reserve[j]
  BY <1>1, <1>2, <1>5
<1>8. Covers(node, reserve')
  <2> SUFFICES ASSUME NEW j \in DOMAIN node.logs
               PROVE  /\ Within(node.logs[j], reserve'[j])
                      /\ Accounted(node.logs[j], reserve'[j], Done(node))
    BY DEF Covers
  <2>0. j \in Keys /\ Sound(node.logs[j])
    BY NodeParts DEF IInv, TypeOK, NodeOK
  <2>1. CASE j # k
    BY <1>7, <2>0, <2>1 DEF IInv, Covers
  <2>2. CASE j = k
    <3> DEFINE l == node.logs[k]
    <3>1. Within(l, reserve[k]) /\ Accounted(l, reserve[k], Done(node)) /\ l.topmost \in Nat
      BY <2>0, <2>2, SoundFacts DEF IInv, Covers
    <3> HIDE DEF l
    <3>2. Within(l, new)
      BY <1>3, <1>6, <3>1 DEF Within
    <3>3. Accounted(l, new, Done(node))
      BY <1>4, <3>1 DEF Accounted
    <3> QED
      BY <1>7, <2>0, <2>2, <3>2, <3>3 DEF l
  <2> QED
    BY <2>1, <2>2
<1>9. \A j \in Keys : 0 \notin DOMAIN reserve'[j]
  BY <1>5, <1>7 DEF IInv, TypeOK
<1> QED
  BY <1>1, <1>7, <1>8, <1>9 DEF IInv, TypeOK

\* What a fetch may report.
LEMMA ReportFacts ==
  ASSUME NEW S \in SUBSET Chunks, NEW named,
         NEW out, out = [c \in S |-> CASE c \notin named -> "Missed"
                                       [] c \in named \cap Bad -> "Rejected"
                                       [] OTHER -> "Delivered"]
  PROVE  out \in Partial(Chunks, Outcomes) /\ DOMAIN out = S
<1>1. DOMAIN out = S /\ out \in [DOMAIN out -> Outcomes]
  BY DEF Outcomes
<1> QED
  BY <1>1, PartialFacts

LEMMA ReportKeeps ==
  ASSUME IInv, NextOp("fetch"), NEW named, Feed(FetchReport(named)),
         UNCHANGED <<settled, reserve, landing>>
  PROVE  IInv'
<1> DEFINE h == Head(queue)
           out == [c \in h.want |-> CASE c \notin named -> "Missed"
                                      [] c \in named \cap Bad -> "Rejected"
                                      [] OTHER -> "Delivered"]
<1>1. h.want \in SUBSET Chunks
  <2>1. h \in Effects /\ h.op = "fetch"
    BY HeadWaits DEF NextOp
  <2> QED
    BY <2>1 DEF Effects
<1>2. FetchReport(named) = FetchResult(node, h.peer, out)
  BY DEF FetchReport
<1>3. out \in Partial(Chunks, Outcomes) /\ DOMAIN out = h.want
  <2> HIDE DEF h
  <2> QED
    BY <1>1, ReportFacts
<1> HIDE DEF out
<1> QED
  BY <1>2, <1>3, FetchKeeps DEF h

\* No report, or no heads.
LEMMA NothingReported ==
  /\ <<>> \in Partial(Chunks, Outcomes) /\ DOMAIN <<>> = {}
  /\ <<>> \in Partial(Bins, BinIds)
<1>1. DOMAIN <<>> = {} /\ <<>> \in [{} -> Outcomes] /\ <<>> \in [{} -> BinIds]
  OBVIOUS
<1> QED
  BY <1>1, PartialFacts

LEMMA IInvNext == IInv /\ [Next]_vars => IInv'
<1> SUFFICES ASSUME IInv, [Next]_vars PROVE IInv'
  OBVIOUS
<1>1. CASE TakeSettled
  BY <1>1, SettledKeeps
<1>2. CASE RunCursors
  <2> DEFINE p == Head(queue).peer
             heads == [b \in Bins |-> HeadOf(<<p, b>>)]
  <2>1. NextOp("cursors") /\ Feed(CursorsResult(node, p, heads)) /\ UNCHANGED <<settled, reserve, landing>>
    BY <1>2 DEF RunCursors, peersVars
  <2>2. p \in Peers
    <3>1. Head(queue) \in Effects /\ Head(queue).op = "cursors"
      BY <2>1, HeadWaits DEF NextOp
    <3> QED
      BY <3>1 DEF Effects
  <2>3. heads \in [Bins -> BinIds]
    <3>1. \A b \in Bins : <<p, b>> \in Keys
      BY <2>2 DEF Keys
    <3>2. \A b \in Bins : reserve[<<p, b>>] \in Window
      BY <3>1 DEF IInv, TypeOK
    <3> QED
      BY <3>2, HeadFacts
  <2> HIDE DEF heads
  <2> QED
    BY <2>1, <2>3, AllHeads, CursorsKeep
<1>3. CASE FailCursors
  <2>1. /\ NextOp("cursors") /\ Feed(CursorsResult(node, Head(queue).peer, <<>>))
        /\ UNCHANGED <<settled, reserve, landing>>
    BY <1>3 DEF FailCursors, peersVars
  <2> QED
    BY <2>1, NothingReported, CursorsKeep
<1>4. CASE RunOffer \/ UnderstateOffer
  BY <1>4, OfferRuns, OfferKeeps
<1>5. CASE DropOffer
  BY <1>5, SkipKeeps DEF DropOffer, NextOp, peersVars
<1>6. CASE DropParked
  BY <1>6, SkipKeeps DEF DropParked, NextOp, peersVars
<1>7. CASE RunFetch \/ CutFetch
  <2>1. NextOp("fetch") /\ UNCHANGED <<settled, reserve, landing>>
        /\ \E named : Feed(FetchReport(named))
    BY <1>7 DEF RunFetch, CutFetch, peersVars
  <2> QED
    BY <2>1, ReportKeeps
<1>8. CASE FailFetch
  <2>1. NextOp("fetch") /\ UNCHANGED <<settled, reserve, landing>> /\ Feed(FetchReport({}))
    BY <1>8 DEF FailFetch, peersVars
  <2> QED
    BY <2>1, ReportKeeps
<1>9. CASE CloseFetch
  <2>1. /\ NextOp("fetch") /\ Feed(FetchResult(node, Head(queue).peer, <<>>))
        /\ UNCHANGED <<settled, reserve, landing>>
    BY <1>9 DEF CloseFetch, peersVars
  <2> QED
    BY <2>1, NothingReported, FetchKeeps
<1>10. CASE AbandonOp
  BY <1>10, SkipKeeps DEF AbandonOp, NextOp, peersVars
<1>11. CASE \E u \in landing : Land(u)
  BY <1>11, LandKeeps
<1>12. CASE \E k \in Keys : \E b \in DOMAIN reserve[k] : Evict(k, b)
  BY <1>12, EvictKeeps
<1>13. CASE UNCHANGED vars
  BY <1>13 DEF vars, IInv, TypeOK, Queued, Apart, Covers, Persisted
<1> QED
  BY <1>1, <1>2, <1>3, <1>4, <1>5, <1>6, <1>7, <1>8, <1>9, <1>10, <1>11, <1>12, <1>13 DEF Next

\* Whatever operations fail, are closed, dropped or abandoned: what waits in the
\* queue fits the node that asked for it, no two operations ask for the same thing,
\* and every log accounts for all that its peer holds in the covered range.
THEOREM SessionInvariant == Spec => []IInv
BY IInvInit, IInvNext, PTL DEF Spec

\* What the shell persists covers only chunks that are stored or rejected, in the
\* peer's own BinIDs.  The interval an offer's answers moved up counts positions
\* from start, which no peer's gaps can put ahead of its BinIDs.
LEMMA PersistedSettled == IInv => DurableSettled
<1> SUFFICES ASSUME IInv, NEW k \in Keys, NEW b \in DOMAIN reserve[k], b <= settled[k]
             PROVE  reserve[k][b] \in Done(node)
  BY DEF DurableSettled
<1>1. b \in Nat /\ b # 0 /\ settled[k] \in Nat
  BY LogTypes DEF IInv, TypeOK
<1>2. k \in DOMAIN node.logs /\ settled[k] <= node.logs[k].interval
  BY <1>1 DEF IInv, Persisted
<1> DEFINE l == node.logs[k]
<1>3. Sound(l)
  BY <1>2 DEF IInv, TypeOK, NodeOK
<1>4. /\ l.interval \in Nat /\ l.topmost \in Nat /\ l.interval <= l.topmost
      /\ \A x \in DOMAIN l.entries : x \in Nat /\ l.interval < x
  BY <1>3, SoundFacts DEF Sound
<1>5. b <= l.topmost
  BY <1>1, <1>2, <1>4
<1>6. \/ reserve[k][b] \in Done(node)
      \/ \E x \in DOMAIN l.entries : x <= b /\ l.entries[x] = reserve[k][b]
  BY <1>2, <1>5 DEF IInv, Covers, Accounted
<1> QED
  BY <1>1, <1>2, <1>4, <1>6

\* What was handed to the shell to persist covers only chunks that are stored or
\* rejected here, whatever failed, was closed, dropped, uploaded or evicted.
THEOREM SettledDurably == Spec => []DurableSettled
BY SessionInvariant, PersistedSettled, PTL

-----------------------------------------------------------------------------
(* Leases and queued fetches.                                              *)

\* The fetch e of a queue or an event would end p's lease on c.
Ends(e, c, p) == e.op = "fetch" /\ e.peer = p /\ c \in e.want

\* Every lease has its fetch in the queue.
Kept(n, q) ==
  \A c \in Chunks : \A p \in n.m.want[c] : \E i \in DOMAIN q : Ends(q[i], c, p)

\* A lease after an answer stood before it and was not the answered fetch's, or its
\* fetch is new.
Followed(n, s, h, fx) ==
  \A c \in Chunks : \A p \in s.m.want[c] :
    \/ p \in n.m.want[c] /\ ~Ends(h, c, p)
    \/ \E e \in fx : Ends(e, c, p)

\* The faults left are between none and all.
BudgetOK ==
  budget \in [fail : 0 .. MaxFail, under : 0 .. MaxUnder, drop : 0 .. MaxDrop,
              close : 0 .. MaxClose, abandon : 0 .. MaxAbandon, evict : 0 .. MaxEvict]

\* No fetch was lost.
NoneLost == budget.close = MaxClose /\ budget.abandon = MaxAbandon

LInv == BudgetOK /\ (NoneLost /\ OneClaim => Kept(node, queue))

\* A round's new leases are in its fetches: their ids have arrived, so their bins
\* are known.
LEMMA RoundLeases ==
  ASSUME NEW t, NodeOK(t), NEW s, s = Round(t).node,
         NEW c \in Chunks, NEW p \in s.m.want[c], p \notin t.m.want[c]
  PROVE  \E e \in Round(t).fx : Ends(e, c, p)
<1>1. Rounded(t, s) /\ Round(t).fx = RoundFx(t, s)
  BY RoundFacts
<1>2. NodeOK(s) /\ c \in s.m.arrived
  BY <1>1 DEF Rounded
<1>3. /\ s.m.want[c] \in SUBSET Peers
      /\ s.bin_of \in [DOMAIN s.bin_of -> Bins] /\ c \in DOMAIN s.bin_of
  <2>1. s \in NodeState /\ c \in DOMAIN s.bin_of
    BY <1>2 DEF NodeOK
  <2>2. s.m.want \in [Chunks -> SUBSET Peers] /\ s.bin_of \in [DOMAIN s.bin_of -> Bins]
    BY <2>1, NodeParts
  <2> QED
    BY <2>1, <2>2
<1> DEFINE k == <<p, s.bin_of[c]>>
<1>4. k \in Keys /\ k[1] = p /\ k[2] = s.bin_of[c]
  BY <1>3 DEF Keys
<1>5. c \in Committed(t, s, k[1], k[2])
  BY <1>3, <1>4 DEF Committed, BinOf
<1> DEFINE e == Fetch(k, Committed(t, s, k[1], k[2]))
<1>6. e \in Round(t).fx
  BY <1>1, <1>4, <1>5 DEF RoundFx
<1>7. e.op = "fetch" /\ e.peer = p /\ e.want = Committed(t, s, k[1], k[2])
  BY <1>4, FxForms
<1> QED
  BY <1>5, <1>6, <1>7 DEF Ends

\* The queue after an answer that follows up every lease.
LEMMA KeptFed ==
  ASSUME NEW n, NEW s, NEW q \in Seq(Effects), q # <<>>, NEW fx, Emitted(fx),
         Kept(n, q), Followed(n, s, Head(q), fx)
  PROVE  Kept(s, Tail(q) \o InOrder(fx))
<1> DEFINE r == Tail(q) \o InOrder(fx)
<1>1. Joined(Tail(q), r, fx)
  <2>1. Tail(q) \in Seq(Effects)
    BY QueueTail
  <2> QED
    BY <2>1, QueueJoins
<1> HIDE DEF r
<1>2. ASSUME NEW c \in Chunks, NEW p \in s.m.want[c]
      PROVE  \E i \in DOMAIN r : Ends(r[i], c, p)
  <2>1. CASE \E e \in fx : Ends(e, c, p)
    BY <1>1, <2>1 DEF Joined
  <2>2. CASE p \in n.m.want[c] /\ ~Ends(Head(q), c, p)
    <3>1. PICK i \in DOMAIN q : Ends(q[i], c, p)
      BY <2>2 DEF Kept
    <3>2. i # 1 /\ i - 1 \in DOMAIN Tail(q) /\ Tail(q)[i - 1] = q[i]
      BY <2>2, <3>1, QueueTail
    <3> QED
      BY <1>1, <3>1, <3>2 DEF Joined
  <2> QED
    BY <2>1, <2>2 DEF Followed
<1> QED
  BY <1>2 DEF Kept, r

\* Dropping anything but a fetch.
LEMMA KeptSkipped ==
  ASSUME NEW n, NEW q \in Seq(Effects), q # <<>>, Head(q).op # "fetch", Kept(n, q)
  PROVE  Kept(n, Tail(q))
<1>1. ASSUME NEW c \in Chunks, NEW p \in n.m.want[c]
      PROVE  \E i \in DOMAIN Tail(q) : Ends(Tail(q)[i], c, p)
  <2>1. PICK i \in DOMAIN q : Ends(q[i], c, p)
    BY DEF Kept
  <2>2. i # 1 /\ i - 1 \in DOMAIN Tail(q) /\ Tail(q)[i - 1] = q[i]
    BY <2>1, QueueTail DEF Ends
  <2> QED
    BY <2>1, <2>2
<1> QED
  BY <1>1 DEF Kept

\* Cursors lease nothing.
LEMMA CursorsFollow ==
  ASSUME NEW n, NodeOK(n), NEW h \in Effects, h.op = "cursors",
         NEW heads \in Partial(Bins, BinIds)
  PROVE  LET r == CursorsResult(n, h.peer, heads) IN Followed(n, r.node, h, r.fx)
<1>1. h.peer \in Peers
  BY DEF Effects
<1>2. CursorsResult(n, h.peer, heads).node.m = n.m
  BY <1>1, CursorsFacts
<1> QED
  BY <1>2 DEF Followed, Ends

\* An offer's leases are its round's.
LEMMA OfferFollows ==
  ASSUME NEW n, NEW t, NodeOK(t), t.m.want = n.m.want, NEW h, h.op = "offer"
  PROVE  Followed(n, Round(t).node, h, Round(t).fx)
BY RoundLeases DEF Followed, Ends

\* A fetch that reports all it asked for ends all its leases.
LEMMA FetchFollows ==
  ASSUME NEW n, NodeOK(n), n.m.cfg = Cfg, OneClaim, Exclusive(n.m),
         NEW h \in Effects, h.op = "fetch",
         NEW out \in Partial(Chunks, Outcomes), DOMAIN out = h.want
  PROVE  LET r == FetchResult(n, h.peer, out) IN Followed(n, r.node, h, r.fx)
<1> DEFINE t == Fetched(n, h.peer, out)
           r == FetchResult(n, h.peer, out)
           s == r.node
<1>1. h.peer \in Peers
  BY DEF Effects
<1>2. r = Round(t) /\ NodeOK(t) /\ Reported(n.m, t.m, h.want, h.peer, out)
  BY <1>1, FetchedFacts
<1> HIDE DEF t, r
<1>3. \A c \in Chunks :
        /\ t.m.want[c] \subseteq n.m.want[c]
        /\ c \in h.want /\ n.m.cfg.failover /\ ~Settled(n.m, c) => h.peer \notin t.m.want[c]
  BY <1>2 DEF Reported
<1>4. ASSUME NEW c \in Chunks, NEW p \in s.m.want[c]
      PROVE  \/ p \in n.m.want[c] /\ ~Ends(h, c, p)
             \/ \E e \in r.fx : Ends(e, c, p)
  <2>1. CASE p \in t.m.want[c]
    <3>1. p \in n.m.want[c]
      BY <1>3, <2>1
    <3>2. ~Settled(n.m, c)
      BY <3>1, LeasedOpen
    <3>3. ~Ends(h, c, p)
      BY <1>3, <2>1, <3>2 DEF Ends, OneClaim
    <3> QED
      BY <3>1, <3>3
  <2>2. CASE p \notin t.m.want[c]
    BY <1>2, <2>2, RoundLeases
  <2> QED
    BY <2>1, <2>2
<1>5. Followed(n, r.node, h, r.fx)
  BY <1>4 DEF Followed
<1> QED
  BY <1>5 DEF r

\* A fault that is spent leaves less than all.
LEMMA SpendFacts ==
  ASSUME BudgetOK, NEW what \in {"fail", "under", "drop", "close", "abandon", "evict"}, Spend(what)
  PROVE  /\ BudgetOK'
         /\ what \notin {"close", "abandon"} => (NoneLost' <=> NoneLost)
         /\ what \in {"close", "abandon"} => ~NoneLost'
<1>1. {MaxFail, MaxUnder, MaxDrop, MaxClose, MaxAbandon, MaxEvict} \subseteq Nat
  BY SessionConstants
<1>2. CASE what = "fail"
  BY <1>1, <1>2 DEF BudgetOK, Spend, NoneLost
<1>3. CASE what = "drop"
  BY <1>1, <1>3 DEF BudgetOK, Spend, NoneLost
<1>4. CASE what = "close"
  BY <1>1, <1>4 DEF BudgetOK, Spend, NoneLost
<1>5. CASE what = "abandon"
  BY <1>1, <1>5 DEF BudgetOK, Spend, NoneLost
<1>6. CASE what = "evict"
  BY <1>1, <1>6 DEF BudgetOK, Spend, NoneLost
<1>7. CASE what = "under"
  BY <1>1, <1>7 DEF BudgetOK, Spend, NoneLost
<1> QED
  BY <1>2, <1>3, <1>4, <1>5, <1>6, <1>7

\* Only a closed or an abandoned fetch gives up leases, and a step that carries its
\* operation is none.
Spares == BudgetOK' /\ (NoneLost' => NoneLost)

LEMMA FedSpares ==
  ASSUME IInv, LInv, queue # <<>>, NEW result, Feed(result), Spares,
         Sent(node, result.node, Head(queue), result.fx),
         OneClaim => Followed(node, result.node, Head(queue), result.fx)
  PROVE  LInv'
<1>1. node' = result.node /\ queue' = Tail(queue) \o InOrder(result.fx)
  BY DEF Feed
<1>2. queue \in Seq(Effects) /\ Emitted(result.fx)
  BY DEF IInv, TypeOK, Sent
<1>3. ASSUME NoneLost', OneClaim
      PROVE  Kept(node', queue')
  <2>1. Kept(node, queue) /\ Followed(node, result.node, Head(queue), result.fx)
    BY <1>3 DEF LInv, Spares
  <2>2. Kept(result.node, Tail(queue) \o InOrder(result.fx))
    BY <1>2, <2>1, KeptFed
  <2> QED
    BY <1>1, <2>2
<1>4. (NoneLost /\ OneClaim => Kept(node, queue))'
  BY <1>3 DEF Kept
<1> QED
  BY <1>4 DEF LInv, Spares

LEMMA CursorsSpare ==
  ASSUME IInv, LInv, NextOp("cursors"), Spares, NEW heads \in Partial(Bins, BinIds),
         Feed(CursorsResult(node, Head(queue).peer, heads))
  PROVE  LInv'
<1> DEFINE h == Head(queue)
           r == CursorsResult(node, h.peer, heads)
<1>1. queue # <<>> /\ h.op = "cursors"
  BY DEF NextOp
<1>2. h \in Effects /\ Waits(node, h) /\ NodeOK(node)
  BY <1>1, HeadWaits
<1>3. Sent(node, r.node, h, r.fx)
  BY <1>1, <1>2, CursorsMove
<1>4. Followed(node, r.node, h, r.fx)
  BY <1>1, <1>2, CursorsFollow
<1>5. Feed(r)
  OBVIOUS
<1> HIDE DEF r
<1> QED
  BY <1>1, <1>3, <1>4, <1>5, FedSpares

LEMMA ReportSpares ==
  ASSUME IInv, LInv, NextOp("fetch"), Spares, NEW named, Feed(FetchReport(named))
  PROVE  LInv'
<1> DEFINE h == Head(queue)
           out == [c \in h.want |-> CASE c \notin named -> "Missed"
                                      [] c \in named \cap Bad -> "Rejected"
                                      [] OTHER -> "Delivered"]
           r == FetchResult(node, h.peer, out)
<1>1. queue # <<>> /\ h.op = "fetch"
  BY DEF NextOp
<1>2. /\ h \in Effects /\ Waits(node, h)
      /\ NodeOK(node) /\ node.m.cfg = Cfg /\ (OneClaim => Exclusive(node.m))
  BY <1>1, HeadWaits
<1>3. h.want \in SUBSET Chunks
  BY <1>1, <1>2 DEF Effects
<1>4. Feed(r)
  BY DEF FetchReport
<1> HIDE DEF h
<1>5. out \in Partial(Chunks, Outcomes) /\ DOMAIN out = h.want
  BY <1>3, ReportFacts
<1> HIDE DEF out
<1>6. Sent(node, r.node, h, r.fx)
  BY <1>1, <1>2, <1>5, FetchMove
<1>7. OneClaim => Followed(node, r.node, h, r.fx)
  BY <1>1, <1>2, <1>5, FetchFollows
<1> HIDE DEF r
<1> QED
  BY <1>1, <1>4, <1>6, <1>7, FedSpares DEF h

LEMMA OfferSpares ==
  ASSUME IInv, LInv, Spares, NEW told, OfferFed(told)
  PROVE  LInv'
<1> DEFINE h == Head(queue)
           k == KeyOf(h)
           start == h.start
           page == Collect(k, start)
           refs == Positioned(k, start, page)
           t == Told(node, k, start, refs, told)
           r == OfferResult(node, k, start, refs, told)
<1>1. /\ queue # <<>> /\ h.op = "offer" /\ page # {} /\ Feed(r)
      /\ told \in BinIds
  BY DEF OfferFed, FeedOffer, OfferPage, NextOp
<1>2. /\ h \in Effects /\ Waits(node, h)
      /\ NodeOK(node) /\ node.m.cfg = Cfg /\ (OneClaim => Exclusive(node.m))
  BY <1>1, HeadWaits
<1>3. start \in BinIds /\ k \in Keys
  BY <1>1, <1>2, EffectKeys DEF Effects
<1>4. reserve[k] \in Window
  BY <1>3 DEF IInv, TypeOK
<1> HIDE DEF h, k, start, page
<1>5. refs \in Window
  BY <1>1, <1>3, <1>4, PositionedFacts DEF page, PositionedAs
<1> HIDE DEF refs
<1>7. /\ ToldTo(node, t, k, start, refs, told) /\ r = Round(t)
      /\ Sent(node, r.node, h, r.fx)
  BY <1>1, <1>2, <1>5, OfferMove DEF k, start
<1> HIDE DEF t, r
<1>8. NodeOK(t) /\ t.m.want = node.m.want
  BY <1>7 DEF ToldTo
<1>9. Followed(node, r.node, h, r.fx)
  BY <1>1, <1>7, <1>8, OfferFollows
<1> QED
  BY <1>1, <1>7, <1>9, FedSpares DEF h

LEMMA SkipSpares ==
  ASSUME IInv, LInv, queue # <<>>, Head(queue).op # "fetch", Skip, Spares
  PROVE  LInv'
<1>1. node' = node /\ queue' = Tail(queue) /\ queue \in Seq(Effects)
  BY DEF Skip, IInv, TypeOK
<1>2. NoneLost' /\ OneClaim => Kept(node', queue')
  BY <1>1, KeptSkipped DEF LInv, Spares
<1>3. (NoneLost /\ OneClaim => Kept(node, queue))'
  BY <1>2 DEF Kept
<1> QED
  BY <1>3 DEF LInv, Spares

LEMMA LInvInit == Init => LInv
<1> SUFFICES ASSUME Init PROVE LInv
  OBVIOUS
<1>1. BudgetOK
  BY SessionConstants DEF Init, BudgetOK
<1>2. Kept(node, queue)
  <2>1. node.m = New(Cfg)
    BY AnnouncedFacts DEF Init, Greeted
  <2>2. \A c \in Chunks : New(Cfg).want[c] = {}
    BY DEF New, Nowhere
  <2> QED
    BY <2>1, <2>2 DEF Kept
<1> QED
  BY <1>1, <1>2 DEF LInv

LEMMA LInvNext == IInv /\ LInv /\ [Next]_vars => LInv'
<1> SUFFICES ASSUME IInv, LInv, [Next]_vars PROVE LInv'
  OBVIOUS
<1>0. BudgetOK
  BY DEF LInv
<1>a. UNCHANGED budget => Spares
  BY <1>0 DEF BudgetOK, NoneLost, Spares
<1>b. \A what \in {"fail", "under", "drop", "evict"} : Spend(what) => Spares
  BY <1>0, SpendFacts DEF Spares
<1>c. \A what \in {"close", "abandon"} : Spend(what) => LInv'
  BY <1>0, SpendFacts DEF LInv
<1>1. CASE TakeSettled
  BY <1>1, <1>a, SkipSpares DEF TakeSettled, NextOp
<1>2. CASE RunCursors
  <2> DEFINE p == Head(queue).peer
             heads == [b \in Bins |-> HeadOf(<<p, b>>)]
  <2>1. NextOp("cursors") /\ Feed(CursorsResult(node, p, heads)) /\ Spares
    BY <1>2, <1>a DEF RunCursors
  <2>2. p \in Peers
    <3>1. Head(queue) \in Effects /\ Head(queue).op = "cursors"
      BY <2>1, HeadWaits DEF NextOp
    <3> QED
      BY <3>1 DEF Effects
  <2>3. heads \in [Bins -> BinIds]
    <3>1. \A b \in Bins : <<p, b>> \in Keys
      BY <2>2 DEF Keys
    <3>2. \A b \in Bins : reserve[<<p, b>>] \in Window
      BY <3>1 DEF IInv, TypeOK
    <3> QED
      BY <3>2, HeadFacts
  <2> HIDE DEF heads
  <2> QED
    BY <2>1, <2>3, AllHeads, CursorsSpare
<1>3. CASE FailCursors
  <2>1. /\ NextOp("cursors") /\ Feed(CursorsResult(node, Head(queue).peer, <<>>)) /\ Spares
    BY <1>3, <1>b DEF FailCursors
  <2> QED
    BY <2>1, NothingReported, CursorsSpare
<1>4. CASE RunOffer \/ UnderstateOffer
  <2>1. Spares
    BY <1>4, <1>a, <1>b DEF RunOffer, UnderstateOffer
  <2> QED
    BY <1>4, <2>1, OfferRuns, OfferSpares
<1>5. CASE DropOffer
  <2>1. queue # <<>> /\ Head(queue).op # "fetch" /\ Skip /\ Spares
    BY <1>5, <1>b DEF DropOffer, NextOp
  <2> QED
    BY <2>1, SkipSpares
<1>6. CASE DropParked
  <2>1. queue # <<>> /\ Head(queue).op # "fetch" /\ Skip /\ Spares
    BY <1>6, <1>a DEF DropParked, NextOp
  <2> QED
    BY <2>1, SkipSpares
<1>7. CASE RunFetch \/ CutFetch
  <2>1. NextOp("fetch") /\ Spares /\ \E named : Feed(FetchReport(named))
    BY <1>7, <1>a, <1>b DEF RunFetch, CutFetch
  <2> QED
    BY <2>1, ReportSpares
<1>8. CASE FailFetch
  <2>1. NextOp("fetch") /\ Spares /\ Feed(FetchReport({}))
    BY <1>8, <1>b DEF FailFetch
  <2> QED
    BY <2>1, ReportSpares
<1>9. CASE CloseFetch
  BY <1>9, <1>c DEF CloseFetch
<1>10. CASE AbandonOp
  BY <1>10, <1>c DEF AbandonOp
<1>11. CASE \E u \in landing : Land(u)
  <2>1. UNCHANGED <<node, queue, budget>>
    BY <1>11 DEF Land
  <2> QED
    BY <2>1 DEF LInv, BudgetOK, NoneLost, Kept
<1>12. CASE \E k \in Keys : \E b \in DOMAIN reserve[k] : Evict(k, b)
  <2>1. UNCHANGED <<node, queue>> /\ Spares
    BY <1>12, <1>b DEF Evict
  <2> QED
    BY <2>1 DEF LInv, Spares, Kept
<1>13. CASE UNCHANGED vars
  BY <1>13 DEF vars, LInv, BudgetOK, NoneLost, Kept
<1> QED
  BY <1>1, <1>2, <1>3, <1>4, <1>5, <1>6, <1>7, <1>8, <1>9, <1>10, <1>11, <1>12, <1>13 DEF Next

\* No two queued fetches ask one peer for one chunk, so the number of them is 0 or 1.
LEMMA LeasesCounted == IInv /\ LInv => (OneClaim => LeasesMatch)
<1> SUFFICES ASSUME IInv, LInv, OneClaim PROVE LeasesMatch
  OBVIOUS
<1>1. ASSUME NEW c \in Chunks, NEW p \in Peers
      PROVE  /\ QueuedFetches(c, p) # {} => Cardinality(QueuedFetches(c, p)) = 1
             /\ QueuedFetches(c, p) = {} => Cardinality(QueuedFetches(c, p)) = 0
  <2> DEFINE Q == QueuedFetches(c, p)
  <2>1. \A i, j \in Q : i = j
    BY DEF QueuedFetches, IInv, Apart, Clash
  <2> HIDE DEF Q
  <2>2. Q # {} => \E i : Q = {i}
    BY <2>1
  <2>3. Q # {} => Cardinality(Q) = 1
    BY <2>2, FS_Singleton
  <2>4. Q = {} => Cardinality(Q) = 0
    BY FS_EmptySet
  <2> QED
    BY <2>3, <2>4 DEF Q
<1>2. \A i \in DOMAIN queue : queue[i].op = "fetch" =>
        \A c \in queue[i].want : queue[i].peer \in node.m.want[c]
  BY DEF IInv, Queued, Waits
<1>3. FetchesLeased
  <2>1. \A c \in Chunks : \A p \in Peers : Cardinality(QueuedFetches(c, p)) <= 1
    BY <1>1
  <2> QED
    BY <1>2, <2>1 DEF FetchesLeased
<1>4. ASSUME NoneLost, NEW c \in Chunks, NEW p \in Peers
      PROVE  Cardinality(QueuedFetches(c, p)) = IF p \in node.m.want[c] THEN 1 ELSE 0
  <2>1. CASE p \in node.m.want[c]
    <3>1. QueuedFetches(c, p) # {}
      BY <1>4, <2>1 DEF LInv, Kept, Ends, QueuedFetches
    <3> QED
      BY <1>1, <2>1, <3>1
  <2>2. CASE p \notin node.m.want[c]
    <3>1. QueuedFetches(c, p) = {}
      BY <1>2, <2>2 DEF QueuedFetches
    <3> QED
      BY <1>1, <2>2, <3>1
  <2> QED
    BY <2>1, <2>2
<1>5. LeaseQueued
  BY <1>4 DEF LeaseQueued, NoneLost
<1> QED
  BY <1>3, <1>5 DEF LeasesMatch

\* Under dedup and failover, whatever fails: a queued fetch asks for leases that
\* stand, each once; and no lease is without its fetch, unless a fetch was closed
\* before its offer or abandoned.
THEOREM LeasesMatched == Spec => [](OneClaim => LeasesMatch)
<1>1. Spec => [](IInv /\ LInv)
  <2>1. Init => IInv /\ LInv
    BY IInvInit, LInvInit
  <2>2. IInv /\ LInv /\ [Next]_vars => (IInv /\ LInv)'
    BY IInvNext, LInvNext
  <2> QED
    BY <2>1, <2>2, PTL DEF Spec
<1> QED
  BY <1>1, LeasesCounted, PTL

-----------------------------------------------------------------------------
(* A round that finds work leases some of it.                              *)

\* A finite ordered set has a first element.
LEMMA FirstExists ==
  ASSUME NEW S, S # {}, IsFiniteSet(S), NEW R, Orders(R, S)
  PROVE  \E e \in S : \A f \in S \ {e} : <<e, f>> \in R
<1> DEFINE N == Cardinality(S)
<1>1. N \in Nat /\ N # 0
  BY FS_CardinalityType, FS_EmptySet
<1>2. Ranked(S, R)
  BY RanksTaken
<1>3. 0 \in 0 .. N - 1
  BY <1>1
<1> HIDE DEF N
<1>4. PICK e \in S : Rank(S, R, e) = 0
  BY <1>2, <1>3 DEF Ranked, N
<1>5. Under(S, R, e) = {}
  <2>1. Under(S, R, e) \in SUBSET S
    BY DEF Under
  <2>2. IsFiniteSet(Under(S, R, e))
    BY <2>1, FS_Subset
  <2> QED
    BY <1>4, <2>2, FS_EmptySet DEF Rank
<1>6. \A f \in S \ {e} : <<e, f>> \in R
  BY <1>5 DEF Under, Orders
<1> QED
  BY <1>6

\* Of some chunks, the lowest of the deepest.
LEMMA DeepestExists ==
  ASSUME NEW C \in SUBSET Chunks, C # {}, NEW depth \in [C -> Nat]
  PROVE  \E x \in C : \A y \in C : \/ depth[y] < depth[x]
                                   \/ depth[y] = depth[x] /\ x <= y
<1> DEFINE R == {w \in C \X C : \/ depth[w[2]] < depth[w[1]]
                                \/ depth[w[2]] = depth[w[1]] /\ w[1] < w[2]}
<1>1. \A x \in C : x \in Nat /\ depth[x] \in Nat
  BY NodeConstants
<1>2. IsFiniteSet(C)
  BY ChunksFinite, FS_Subset
<1>3. \A x, y \in C : <<x, y>> \in R <=> \/ depth[y] < depth[x]
                                         \/ depth[y] = depth[x] /\ x < y
  OBVIOUS
<1> HIDE DEF R
<1>4. Orders(R, C)
  <2>1. \A e, f \in C : e # f => <<e, f>> \in R \/ <<f, e>> \in R
    BY <1>1, <1>3
  <2>2. \A e, f \in C : e # f => ~(<<e, f>> \in R /\ <<f, e>> \in R)
    BY <1>1, <1>3
  <2>3. \A e, f, g \in C : <<e, f>> \in R /\ <<f, g>> \in R /\ e # f /\ f # g => <<e, g>> \in R
    <3> SUFFICES ASSUME NEW e \in C, NEW f \in C, NEW g \in C, <<e, f>> \in R, <<f, g>> \in R
                 PROVE  <<e, g>> \in R
      OBVIOUS
    <3> QED
      BY <1>1, <1>3
  <2> QED
    BY <2>1, <2>2, <2>3 DEF Orders
<1>5. PICK x \in C : \A y \in C \ {x} : <<x, y>> \in R
  BY <1>2, <1>4, FirstExists
<1>6. ASSUME NEW y \in C
      PROVE  depth[y] < depth[x] \/ (depth[y] = depth[x] /\ x <= y)
  <2>1. CASE y = x
    BY <1>1, <2>1
  <2>2. CASE y # x
    <3>1. <<x, y>> \in R
      BY <1>5, <2>2
    <3>2. x \in Nat /\ y \in Nat
      BY <1>1
    <3>3. depth[y] < depth[x] \/ (depth[y] = depth[x] /\ x < y)
      BY <1>3, <3>1
    <3>4. x < y => x <= y
      BY <3>2
    <3> QED
      BY <3>3, <3>4
  <2> QED
    BY <2>1, <2>2
<1> QED
  BY <1>6

\* Of some peers, the one that the policy routes to.
LEMMA RouteExists ==
  ASSUME NEW n \in NodeState, NEW H \in SUBSET Peers, H # {}
  PROVE  \E q \in H : \A r \in H \ {q} : RouteBefore(RouteKey(n, q), RouteKey(n, r))
<1> DEFINE R == {w \in H \X H : RouteBefore(RouteKey(n, w[1]), RouteKey(n, w[2]))}
<1>1. ASSUME NEW p \in Peers
      PROVE  /\ RouteKey(n, p)[1] \in Nat /\ RouteKey(n, p)[2] \in Nat
             /\ RouteKey(n, p)[3] \in Nat /\ RouteKey(n, p)[3] = p
  <2>1. n.assigned[p] \in Nat
    BY NodeFields
  <2>2. Load(n.m, p) \in Nat
    <3>1. IsFiniteSet({c \in Chunks : p \in n.m.want[c]})
      BY ChunksFinite, FS_Subset
    <3> QED
      BY <3>1, FS_CardinalityType DEF Load
  <2>3. p \in Nat
    BY NodeConstants
  <2> QED
    BY <2>1, <2>2, <2>3 DEF RouteKey
<1>2. IsFiniteSet(H)
  BY NodeConstants, FS_Subset
<1>3. \A p, q \in H : <<p, q>> \in R <=> RouteBefore(RouteKey(n, p), RouteKey(n, q))
  OBVIOUS
<1> HIDE DEF R
<1>4. Orders(R, H)
  <2>1. \A e, f \in H : e # f => <<e, f>> \in R \/ <<f, e>> \in R
    BY <1>1, <1>3 DEF RouteBefore
  <2>2. \A e, f \in H : e # f => ~(<<e, f>> \in R /\ <<f, e>> \in R)
    BY <1>1, <1>3 DEF RouteBefore
  <2>3. \A e, f, g \in H : <<e, f>> \in R /\ <<f, g>> \in R /\ e # f /\ f # g => <<e, g>> \in R
    <3> SUFFICES ASSUME NEW e \in H, NEW f \in H, NEW g \in H, <<e, f>> \in R, <<f, g>> \in R
                 PROVE  <<e, g>> \in R
      OBVIOUS
    <3> QED
      BY <1>1, <1>3 DEF RouteBefore
  <2> QED
    BY <2>1, <2>2, <2>3 DEF Orders
<1>5. PICK q \in H : \A r \in H \ {q} : <<q, r>> \in R
  BY <1>2, <1>4, FirstExists
<1> QED
  BY <1>3, <1>5

\* The first turn: nothing has been committed yet, so every enabled want has budget.
LEMMA TurnTakes ==
  ASSUME NEW n \in NodeState, EnabledWants(n.m) # {}
  PROVE  \E c \in Chunks : ScheduleOne(n, n).m.want[c] # {}
<1> DEFINE E == {w \in EnabledWants(n.m) :
                   Cardinality(Committed(n, n, w[2], BinOf(n, w[1]))) < WindowCap}
           C == {w[1] : w \in E}
           c == CHOOSE x \in C : \A y \in C : \/ BinOf(n, y) < BinOf(n, x)
                                              \/ BinOf(n, y) = BinOf(n, x) /\ x <= y
           H == {w[2] : w \in {v \in E : v[1] = c}}
           p == CHOOSE q \in H : \A r \in H \ {q} : RouteBefore(RouteKey(n, q), RouteKey(n, r))
<1>1. ScheduleOne(n, n) = IF E = {} THEN n
                          ELSE [n EXCEPT !.m = Want(@, c, p), !.assigned[p] = @ + 1]
  BY Zenon DEF ScheduleOne
<1>2. n.m \in State /\ n.m.arrived \subseteq Chunks
  BY NodeParts
<1>3. \A w \in EnabledWants(n.m) : /\ w[1] \in Chunks /\ w[2] \in Peers
                                   /\ Claimable(n.m, w[1], w[2])
  BY <1>2 DEF EnabledWants
<1>4. E # {}
  <2>1. \A w \in EnabledWants(n.m) : Committed(n, n, w[2], BinOf(n, w[1])) = {}
    BY DEF Committed
  <2>2. Cardinality({}) < WindowCap
    BY FS_EmptySet, NodeConstants
  <2> QED
    BY <2>1, <2>2
<1>5. \A w \in E : w[1] \in Chunks /\ w[2] \in Peers /\ Claimable(n.m, w[1], w[2])
  BY <1>3
<1> HIDE DEF E
<1>6. c \in C
  <2> DEFINE depth == [x \in C |-> BinOf(n, x)]
             Best(x) == \A y \in C : \/ BinOf(n, y) < BinOf(n, x)
                                     \/ BinOf(n, y) = BinOf(n, x) /\ x <= y
  <2>1. C \in SUBSET Chunks /\ C # {}
    BY <1>4, <1>5
  <2>2. \A x \in Chunks : BinOf(n, x) \in Nat
    BY NodeParts, NodeConstants DEF BinOf
  <2>3. depth \in [C -> Nat] /\ \A x \in C : depth[x] = BinOf(n, x)
    BY <2>1, <2>2
  <2> HIDE DEF C, depth
  <2>4. \E x \in C : Best(x)
    BY <2>1, <2>3, DeepestExists
  <2>5. c = CHOOSE x \in C : Best(x)
    OBVIOUS
  <2> HIDE DEF Best, c
  <2> QED
    BY <2>4, <2>5
<1> HIDE DEF c
<1>7. p \in H
  <2> DEFINE Best(q) == \A r \in H \ {q} : RouteBefore(RouteKey(n, q), RouteKey(n, r))
  <2>1. H \in SUBSET Peers /\ H # {}
    BY <1>5, <1>6
  <2> HIDE DEF H
  <2>2. \E q \in H : Best(q)
    BY <2>1, RouteExists
  <2>3. p = CHOOSE q \in H : Best(q)
    OBVIOUS
  <2> HIDE DEF Best, p
  <2> QED
    BY <2>2, <2>3
<1> HIDE DEF p
<1>8. c \in Chunks /\ Claimable(n.m, c, p)
  BY <1>5, <1>7
<1>9. ScheduleOne(n, n).m = [n.m EXCEPT !.want[c] = @ \cup {p}]
  <2>1. ScheduleOne(n, n).m = Want(n.m, c, p)
    BY <1>1, <1>4 DEF NodeState
  <2> QED
    BY <1>8, <2>1 DEF Want
<1>10. ScheduleOne(n, n).m.want[c] # {}
  <2>1. n.m.want \in [Chunks -> SUBSET Peers]
    BY NodeParts
  <2>2. ScheduleOne(n, n).m.want = [n.m.want EXCEPT ![c] = @ \cup {p}]
    BY <1>2, <1>9 DEF State
  <2>3. ScheduleOne(n, n).m.want[c] = n.m.want[c] \cup {p}
    BY <1>8, <2>1, <2>2
  <2> QED
    BY <2>3
<1> QED
  BY <1>8, <1>10

\* Later turns take no lease back.
LEMMA TurnKeeps ==
  ASSUME NEW n, NEW s \in NodeState, NEW d \in Chunks
  PROVE  s.m.want[d] \subseteq ScheduleOne(n, s).m.want[d]
<1>1. \/ ScheduleOne(n, s) = s
      \/ \E c, p : ScheduleOne(n, s) = [s EXCEPT !.m = Want(@, c, p), !.assigned[p] = @ + 1]
  BY DEF ScheduleOne
<1>2. ASSUME NEW c, NEW p,
             ScheduleOne(n, s) = [s EXCEPT !.m = Want(@, c, p), !.assigned[p] = @ + 1]
      PROVE  s.m.want[d] \subseteq ScheduleOne(n, s).m.want[d]
  <2>1. s.m \in State
    BY NodeParts
  <2>2. ScheduleOne(n, s).m = Want(s.m, c, p)
    BY <1>2 DEF NodeState
  <2>3. CASE Claimable(s.m, c, p)
    <3>1. c \in Chunks
      BY <2>1, <2>3 DEF Claimable, State
    <3> QED
      BY <2>1, <2>2, <2>3, <3>1 DEF Want, State
  <2>4. CASE ~Claimable(s.m, c, p)
    BY <2>2, <2>4 DEF Want
  <2> QED
    BY <2>3, <2>4
<1> QED
  BY <1>1, <1>2

LEMMA ScheduledTakes ==
  ASSUME NEW n \in NodeState, EnabledWants(n.m) # {}
  PROVE  \E c \in Chunks : Scheduled(n).m.want[c] # {}
<1>1. PICK after : /\ Scheduled(n) = after[Turns] /\ after[0] = n
                   /\ \A t \in 0 .. Turns : t # 0 => after[t] = ScheduleOne(n, after[t - 1])
  BY ScheduledRun
<1>2. Turns \in Nat /\ Turns # 0
  <2>1. Chunks # {} /\ Peers # {}
    BY NodeParts DEF EnabledWants
  <2>2. /\ Cardinality(Chunks) \in Nat /\ Cardinality(Chunks) # 0
        /\ Cardinality(Peers) \in Nat /\ Cardinality(Peers) # 0
    BY <2>1, ChunksFinite, NodeConstants, FS_CardinalityType, FS_EmptySet
  <2>3. \A a, b \in Nat : a # 0 /\ b # 0 => a * b \in Nat /\ a * b # 0
    OBVIOUS
  <2> QED
    BY <2>2, <2>3 DEF Turns
<1> DEFINE Good(s) == Leased(n, s) /\ \E c \in Chunks : s.m.want[c] # {}
<1>3. Leased(n, n)
  BY NodeFields DEF Leased
<1>4. ASSUME NEW s, Good(s)
      PROVE  Good(ScheduleOne(n, s))
  <2>1. s \in NodeState
    BY <1>4 DEF Leased
  <2>2. Leased(n, ScheduleOne(n, s))
    BY <1>4, TurnLeases
  <2>3. PICK c \in Chunks : s.m.want[c] # {}
    BY <1>4
  <2>4. ScheduleOne(n, s).m.want[c] # {}
    BY <2>1, <2>3, TurnKeeps
  <2> QED
    BY <2>2, <2>4
<1>5. Good(ScheduleOne(n, n))
  BY <1>3, TurnLeases, TurnTakes
<1> HIDE DEF Good
<1>6. \A t \in 1 .. Turns : Good(after[t])
  <2> DEFINE bad == {t \in 1 .. Turns : ~Good(after[t])}
  <2> SUFFICES ASSUME bad # {} PROVE FALSE
    OBVIOUS
  <2>1. bad \in SUBSET Nat
    BY <1>2
  <2>2. PICK t \in bad : \A y \in bad : t <= y
    BY <2>1, LeastNat
  <2>3. t \in 1 .. Turns /\ ~Good(after[t])
    BY <2>2
  <2>4. after[t] = ScheduleOne(n, after[t - 1])
    BY <1>1, <1>2, <2>3
  <2>5. t # 1
    <3> SUFFICES ASSUME t = 1 PROVE FALSE
      OBVIOUS
    <3>1. after[t] = ScheduleOne(n, n)
      BY <1>1, <2>4
    <3> QED
      BY <1>5, <2>3, <3>1
  <2>6. t - 1 \in 1 .. Turns /\ ~(t <= t - 1)
    BY <1>2, <2>3, <2>5
  <2>7. Good(after[t - 1])
    BY <2>2, <2>6
  <2> QED
    BY <1>4, <2>3, <2>4, <2>7
<1>7. Good(after[Turns])
  BY <1>2, <1>6
<1> QED
  BY <1>1, <1>7 DEF Good

\* Nothing is leased and something open has a holder that is not barred: the
\* deepest such chunk can be claimed.
LEMMA Unblocked ==
  ASSUME NEW r \in State, r.cfg.enable_live, ~r.cfg.single_source,
         \A d \in Chunks : r.want[d] = {},
         NEW c \in r.arrived, c \notin r.got, r.holders[c] \ r.excluded[c] # {}
  PROVE  EnabledWants(r) # {}
<1> DEFINE C == {d \in r.arrived : Eligible(r, d)}
           depth == [d \in C |-> r.prio[d]]
<1>1. /\ r.arrived \in SUBSET Chunks /\ r.prio \in [Chunks -> Nat]
      /\ r.holders \in [Chunks -> SUBSET Peers]
  BY DEF State
<1>2. C \in SUBSET Chunks /\ c \in C
  BY <1>1 DEF Eligible
<1>3. depth \in [C -> Nat] /\ \A d \in C : depth[d] = r.prio[d]
  BY <1>1
<1>4. \A d \in r.arrived : Eligible(r, d) => d \in C
  OBVIOUS
<1>5. \A d \in C : d \in r.arrived /\ Eligible(r, d)
  OBVIOUS
<1> HIDE DEF C, depth
<1>6. PICK x \in C : \A y \in C : \/ depth[y] < depth[x]
                                  \/ depth[y] = depth[x] /\ x <= y
  BY <1>2, <1>3, DeepestExists
<1>7. PICK p \in Peers : p \in r.holders[x] /\ p \notin r.excluded[x]
  <2>1. x \in Chunks /\ r.holders[x] \ r.excluded[x] # {}
    BY <1>2, <1>5 DEF Eligible
  <2> QED
    BY <1>1, <2>1
<1>8. \A d \in C : r.prio[d] <= r.prio[x]
  <2> SUFFICES ASSUME NEW d \in C PROVE r.prio[d] <= r.prio[x]
    OBVIOUS
  <2>1. r.prio[d] \in Nat /\ r.prio[x] \in Nat
    BY <1>1, <1>2
  <2>2. r.prio[d] < r.prio[x] \/ r.prio[d] = r.prio[x]
    BY <1>3, <1>6
  <2> QED
    BY <2>1, <2>2
<1>9. PrioOK(r, x)
  BY <1>4, <1>8 DEF PrioOK
<1>10. x \in r.arrived /\ x \notin r.got /\ r.want[x] = {}
  BY <1>1, <1>5 DEF Eligible
<1>11. Claimable(r, x, p)
  BY <1>7, <1>9, <1>10 DEF Claimable
<1>12. <<x, p>> \in EnabledWants(r)
  BY <1>7, <1>10, <1>11 DEF EnabledWants
<1> QED
  BY <1>12

\* The switches under which a run converges: one claim per chunk, exhausted bars
\* cleared, and nothing that keeps an offered chunk from being asked for.
Converging ==
  /\ OneClaim
  /\ Cfg.reset_on_exhaust /\ Cfg.enable_live /\ ~Cfg.single_source

\* A round that finds an open chunk with a holder leaves something leased: a bar
\* on every holder is cleared first.
LEMMA RoundStarts ==
  ASSUME Converging, NEW n, NodeOK(n), n.m.cfg = Cfg,
         NEW c \in n.m.arrived, c \notin Done(n), n.m.holders[c] # {}
  PROVE  \E d \in Chunks : Round(n).node.m.want[d] # {}
<1> DEFINE a == Settle(n).node
           b == Prune(a)
           e == Reset(b)
<1>0. n \in NodeState /\ c \in DOMAIN n.bin_of /\ c \in Chunks
  <2>1. n \in NodeState /\ c \in DOMAIN n.bin_of
    BY DEF NodeOK
  <2> QED
    BY <2>1, NodeParts
<1>1. a \in NodeState /\ a.m = n.m /\ a.bin_of = n.bin_of
  <2>1. a = Settle(n).node
    OBVIOUS
  <2> HIDE DEF a
  <2> QED
    BY <2>1, SettleFacts
<1> HIDE DEF a
<1>2. Done(a) = Done(n)
  BY <1>1 DEF Done
<1>3. /\ b \in NodeState /\ b.m.cfg = Cfg /\ b.m.want = n.m.want /\ b.m.got = n.m.got
      /\ c \in b.m.arrived /\ b.m.holders[c] = n.m.holders[c] /\ c \in DOMAIN b.bin_of
  <2>1. b = Prune(a)
    OBVIOUS
  <2> HIDE DEF b
  <2> QED
    BY <1>0, <1>1, <1>2, <2>1, PruneFacts
<1> HIDE DEF b
<1>4. /\ e \in NodeState /\ e.m.cfg = Cfg /\ e.m.want = n.m.want /\ e.m.got = n.m.got
      /\ c \in e.m.arrived /\ e.m.holders[c] = n.m.holders[c]
      /\ e.m.excluded[c] \subseteq b.m.excluded[c]
      /\ CanResetExcluded(b.m, c) => e.m.excluded[c] = {}
  <2>1. e = Reset(b)
    OBVIOUS
  <2> HIDE DEF e
  <2> QED
    BY <1>0, <1>3, <2>1, ResetFacts
<1>5. Round(n).node = Scheduled(e)
  BY DEF Round, Schedule, a, b
<1> HIDE DEF e
<1>6. CASE \E d \in Chunks : n.m.want[d] # {}
  <2>1. PICK d \in Chunks : n.m.want[d] # {}
    BY <1>6
  <2>2. Leased(e, Scheduled(e))
    BY <1>4, ScheduledLeases
  <2>3. e.m.want[d] \subseteq Scheduled(e).m.want[d]
    BY <2>2 DEF Leased
  <2> QED
    BY <1>4, <1>5, <2>1, <2>3
<1>7. CASE \A d \in Chunks : n.m.want[d] = {}
  <2>1. c \notin n.m.got
    BY DEF Done
  <2>2. e.m.holders[c] \ e.m.excluded[c] # {}
    <3>1. CASE n.m.holders[c] \subseteq b.m.excluded[c]
      <4>1. CanResetExcluded(b.m, c)
        BY <1>0, <1>3, <1>7, <2>1, <3>1 DEF CanResetExcluded, Converging
      <4> QED
        BY <1>4, <4>1
    <3>2. CASE ~(n.m.holders[c] \subseteq b.m.excluded[c])
      BY <1>4, <3>2
    <3> QED
      BY <3>1, <3>2
  <2>3. e.m \in State
    BY <1>4, NodeParts
  <2>4. e.m.cfg.enable_live /\ ~e.m.cfg.single_source
    BY <1>4 DEF Converging
  <2>5. EnabledWants(e.m) # {}
    BY <1>4, <1>7, <2>1, <2>2, <2>3, <2>4, Unblocked
  <2> QED
    BY <1>4, <1>5, <2>5, ScheduledTakes
<1> QED
  BY <1>6, <1>7

-----------------------------------------------------------------------------
(* Nothing waits for an operation that nobody will carry.                  *)

\* The log's entry at b is neither stored nor rejected yet.
Awaits(n, k, b) == b \in DOMAIN n.logs[k].entries /\ n.logs[k].entries[b] \notin Done(n)

\* The logs are of known peers, and their open entries have arrived and are held
\* by the peer that offered them.
Served(n) ==
  \A k \in DOMAIN n.logs :
    /\ k[1] \in n.peers
    /\ \A b \in DOMAIN n.logs[k].entries : Awaits(n, k, b) =>
         /\ n.logs[k].entries[b] \in n.m.arrived
         /\ k[1] \in n.m.holders[n.logs[k].entries[b]]

\* A log without open entries has settled all it covers; one that is used up has
\* its offer open.
Driven(n) ==
  /\ n.offer_open \subseteq DOMAIN n.logs
  /\ \A k \in DOMAIN n.logs :
       /\ k \notin n.offer_open => NextStart(n.logs[k]) <= n.logs[k].topmost
       /\ \/ n.logs[k].interval = n.logs[k].topmost
          \/ \E b \in DOMAIN n.logs[k].entries : Awaits(n, k, b)

\* While an entry is open something is leased.
Pending(n) ==
  \A k \in DOMAIN n.logs : \A b \in DOMAIN n.logs[k].entries :
    Awaits(n, k, b) => \E d \in Chunks : n.m.want[d] # {}

Ready(n) == Served(n) /\ Driven(n) /\ Pending(n)

\* advance stops below the coverage only at an unsettled entry.
LEMMA AdvanceStops ==
  ASSUME NEW l, Sound(l), NEW S, NEW a, a = Advance(l, S), a.interval # l.topmost
  PROVE  \E b \in DOMAIN a.entries : a.entries[b] \notin S
<1> DEFINE stop == Stops(l, S)
           first == Least(stop)
           kept == {b \in DOMAIN l.entries : b >= first}
<1>1. /\ l = [interval |-> l.interval, topmost |-> l.topmost, entries |-> l.entries]
      /\ l.interval \in Nat /\ l.topmost \in Nat /\ l.interval <= l.topmost
      /\ \A b \in DOMAIN l.entries : b \in Nat
  BY SoundFacts DEF Sound
<1>2. CASE stop = {}
  <2>1. a.interval = BinIdMax(l.interval, l.topmost)
    BY <1>1, <1>2 DEF Advance
  <2> QED
    BY <1>1, <2>1 DEF BinIdMax
<1>3. CASE stop # {}
  <2>1. stop \in SUBSET Nat
    BY <1>1 DEF Stops
  <2>2. first \in stop
    <3> HIDE DEF stop
    <3> QED
      BY <1>3, <2>1, LeastExists
  <2>3. first \in DOMAIN l.entries /\ l.entries[first] \notin S /\ first \in Nat
    BY <1>1, <2>2 DEF Stops
  <2>4. a.entries = [b \in kept |-> l.entries[b]]
    BY <1>1, <1>3 DEF Advance
  <2> HIDE DEF first
  <2>5. first \in kept
    BY <2>3
  <2>6. first \in DOMAIN a.entries /\ a.entries[first] = l.entries[first]
    BY <2>4, <2>5
  <2> QED
    BY <2>3, <2>6
<1> QED
  BY <1>2, <1>3

\* A round over served logs leaves a node that is ready.
LEMMA RoundReady ==
  ASSUME Converging, NEW t, NodeOK(t), t.m.cfg = Cfg, Served(t),
         t.offer_open \subseteq DOMAIN t.logs, NEW s, s = Round(t).node
  PROVE  Ready(s)
<1>1. Rounded(t, s)
  BY RoundFacts
<1>2. /\ NodeOK(s) /\ s.peers = t.peers
      /\ s.m.got = t.m.got /\ s.m.rejected = t.m.rejected
      /\ DOMAIN s.logs = DOMAIN t.logs
      /\ \A k \in DOMAIN t.logs : s.logs[k] = Advance(t.logs[k], Done(t))
      /\ s.offer_open = t.offer_open \cup Reopened(t, s)
      /\ t.m.arrived \ s.m.arrived \subseteq Done(t)
      /\ \A c \in Chunks : c \notin Done(t) => s.m.holders[c] = t.m.holders[c]
  BY <1>1 DEF Rounded
<1>3. Done(s) = Done(t)
  BY <1>2 DEF Done
<1>4. ASSUME NEW k \in DOMAIN t.logs
      PROVE  /\ Sound(t.logs[k]) /\ Sound(s.logs[k])
             /\ s.logs[k].topmost = t.logs[k].topmost
             /\ DOMAIN s.logs[k].entries \subseteq DOMAIN t.logs[k].entries
             /\ \A b \in DOMAIN s.logs[k].entries : s.logs[k].entries[b] = t.logs[k].entries[b]
  <2>1. Sound(t.logs[k])
    BY DEF NodeOK
  <2> QED
    BY <1>2, <2>1, AdvanceSound
<1>5. ASSUME NEW k \in DOMAIN s.logs, NEW b \in DOMAIN s.logs[k].entries, Awaits(s, k, b)
      PROVE  /\ s.logs[k].entries[b] \in t.m.arrived
             /\ s.logs[k].entries[b] \notin Done(t)
             /\ k[1] \in t.m.holders[s.logs[k].entries[b]]
  <2>1. Awaits(t, k, b)
    BY <1>2, <1>3, <1>4, <1>5 DEF Awaits
  <2> QED
    BY <1>2, <1>4, <2>1 DEF Served, Awaits
<1>6. Served(s)
  <2>1. ASSUME NEW k \in DOMAIN s.logs, NEW b \in DOMAIN s.logs[k].entries, Awaits(s, k, b)
        PROVE  /\ s.logs[k].entries[b] \in s.m.arrived
               /\ k[1] \in s.m.holders[s.logs[k].entries[b]]
    <3>1. s.logs[k].entries[b] \in Chunks
      BY <1>2, <1>4, SoundFacts
    <3> QED
      BY <1>2, <1>5, <2>1, <3>1
  <2>2. \A k \in DOMAIN s.logs : k[1] \in s.peers
    BY <1>2 DEF Served
  <2> QED
    BY <2>1, <2>2 DEF Served
<1>7. Driven(s)
  <2>1. s.offer_open \subseteq DOMAIN s.logs
    BY <1>2 DEF Reopened
  <2>2. ASSUME NEW k \in DOMAIN s.logs, k \notin s.offer_open
        PROVE  NextStart(s.logs[k]) <= s.logs[k].topmost
    <3>1. ~(NextStart(s.logs[k]) > s.logs[k].topmost)
      BY <1>2, <1>6, <2>2 DEF Served, Reopened
    <3>2. NextStart(s.logs[k]) \in Nat /\ s.logs[k].topmost \in Nat
      BY <1>2, <1>4, NextStartSound, SoundFacts, LogTypes
    <3> QED
      BY <3>1, <3>2
  <2>3. ASSUME NEW k \in DOMAIN s.logs, s.logs[k].interval # s.logs[k].topmost
        PROVE  \E b \in DOMAIN s.logs[k].entries : Awaits(s, k, b)
    <3>1. PICK b \in DOMAIN s.logs[k].entries : s.logs[k].entries[b] \notin Done(t)
      BY <1>2, <1>4, <2>3, AdvanceStops
    <3> QED
      BY <1>3, <3>1 DEF Awaits
  <2> QED
    BY <2>1, <2>2, <2>3 DEF Driven
<1>8. Pending(s)
  <2>1. ASSUME NEW k \in DOMAIN s.logs, NEW b \in DOMAIN s.logs[k].entries, Awaits(s, k, b)
        PROVE  \E d \in Chunks : s.m.want[d] # {}
    <3> DEFINE c == s.logs[k].entries[b]
    <3>1. c \in t.m.arrived /\ c \notin Done(t) /\ t.m.holders[c] # {}
      BY <1>5, <2>1
    <3> HIDE DEF c
    <3> QED
      BY <3>1, RoundStarts
  <2> QED
    BY <2>1 DEF Pending
<1> QED
  BY <1>6, <1>7, <1>8 DEF Ready

\* Cursors open logs that are used up, with their offers.
LEMMA CursorsReady ==
  ASSUME NEW n, NodeOK(n), Ready(n), NEW p \in n.peers, p \in Peers,
         NEW heads \in Partial(Bins, BinIds), NEW s, s = CursorsResult(n, p, heads).node
  PROVE  Ready(s)
<1>1. /\ DOMAIN s.logs \ DOMAIN n.logs \subseteq {k \in Keys : k[1] = p}
      /\ DOMAIN s.logs \ DOMAIN n.logs \subseteq s.offer_open
      /\ s.m = n.m /\ s.peers = n.peers
      /\ DOMAIN n.logs \subseteq DOMAIN s.logs
      /\ \A k \in DOMAIN s.logs :
           s.logs[k] = IF k \in DOMAIN n.logs THEN n.logs[k] ELSE NewLog
      /\ n.offer_open \subseteq s.offer_open
      /\ s.offer_open \ n.offer_open \subseteq DOMAIN s.logs
  BY CursorsFacts
<1>2. Done(s) = Done(n)
  BY <1>1 DEF Done
<1>3. NewLog.interval = NewLog.topmost /\ DOMAIN NewLog.entries = {}
  BY DEF NewLog, Resume, EmptyWindow
<1>4. ASSUME NEW k \in DOMAIN s.logs
      PROVE  \/ k \in DOMAIN n.logs /\ s.logs[k] = n.logs[k]
             \/ /\ k[1] = p /\ k \in s.offer_open
                /\ DOMAIN s.logs[k].entries = {} /\ s.logs[k].interval = s.logs[k].topmost
  BY <1>1, <1>3
<1>5. Served(s)
  BY <1>1, <1>2, <1>4 DEF Ready, Served, Awaits
<1>6. Driven(s)
  BY <1>1, <1>2, <1>4 DEF Ready, Driven, Awaits
<1>7. Pending(s)
  BY <1>1, <1>2, <1>4 DEF Ready, Pending, Awaits
<1> QED
  BY <1>5, <1>6, <1>7 DEF Ready

\* What an offer names arrives and is held.
LEMMA ToldServed ==
  ASSUME NEW n, NodeOK(n), Served(n), NEW t, NEW k \in DOMAIN n.logs, NEW start, NEW refs, NEW top,
         ToldTo(n, t, k, start, refs, top)
  PROVE  Served(t)
<1>1. /\ NodeOK(t) /\ Done(t) = Done(n) /\ t.peers = n.peers
      /\ n.m.arrived \subseteq t.m.arrived
      /\ \A c \in Chunks : n.m.holders[c] \subseteq t.m.holders[c]
      /\ \A b \in DOMAIN refs : refs[b] \notin Done(n) =>
           refs[b] \in t.m.arrived /\ k[1] \in t.m.holders[refs[b]]
      /\ DOMAIN t.logs = DOMAIN n.logs
      /\ \A l \in DOMAIN n.logs \ {k} : t.logs[l] = n.logs[l]
      /\ DOMAIN t.logs[k].entries \subseteq DOMAIN refs
      /\ \A b \in DOMAIN t.logs[k].entries : t.logs[k].entries[b] = refs[b]
  BY DEF ToldTo
<1>2. ASSUME NEW l \in DOMAIN t.logs, NEW b \in DOMAIN t.logs[l].entries, Awaits(t, l, b)
      PROVE  /\ t.logs[l].entries[b] \in t.m.arrived
             /\ l[1] \in t.m.holders[t.logs[l].entries[b]]
  <2>1. CASE l = k
    BY <1>1, <1>2, <2>1 DEF Awaits
  <2>2. CASE l # k
    <3>1. Awaits(n, l, b) /\ t.logs[l] = n.logs[l] /\ l \in DOMAIN n.logs
      BY <1>1, <1>2, <2>2 DEF Awaits
    <3>2. n.logs[l].entries[b] \in Chunks
      BY <1>2, <3>1, SoundFacts DEF NodeOK
    <3>3. n.logs[l].entries[b] \in n.m.arrived /\ l[1] \in n.m.holders[n.logs[l].entries[b]]
      BY <1>2, <3>1 DEF Served
    <3> QED
      BY <1>1, <3>1, <3>2, <3>3
  <2> QED
    BY <2>1, <2>2
<1>3. \A l \in DOMAIN t.logs : l[1] \in t.peers
  BY <1>1 DEF Served
<1> QED
  BY <1>2, <1>3 DEF Served

\* What a fetch removes from the arrived chunks it rejected.
LEMMA FetchedServed ==
  ASSUME NEW n, Served(n), NEW t, t.logs = n.logs, t.peers = n.peers,
         NEW D, NEW p, NEW out, Reported(n.m, t.m, D, p, out)
  PROVE  Served(t)
<1>1. /\ t.m.holders = n.m.holders /\ n.m.got \subseteq t.m.got
      /\ n.m.rejected \subseteq t.m.rejected
      /\ n.m.arrived \ t.m.arrived \subseteq t.m.rejected
  BY DEF Reported
<1>2. Done(n) \subseteq Done(t) /\ n.m.arrived \ t.m.arrived \subseteq Done(t)
  BY <1>1 DEF Done
<1> QED
  BY <1>1, <1>2 DEF Served, Awaits

-----------------------------------------------------------------------------
(* When drive returns, everything is here.                                 *)

\* Cursors are asked of known peers.
Asked(n, q) == \A i \in DOMAIN q : q[i].op = "cursors" => q[i].peer \in n.peers

AsksFor(e, k) == e.op = "offer" /\ KeyOf(e) = k

\* An open offer is queued, unless its log already covers all that its peer held
\* at the start.
Standing(n, q) ==
  \A k \in n.offer_open :
    \/ \E i \in DOMAIN q : AsksFor(q[i], k)
    \/ \A b \in DOMAIN Reserve0[k] : b <= n.logs[k].topmost

\* An offer that is open after an answer stood before it and was not the answered
\* one, or is new; and no log covers less.
Flags(n, s, h, fx) ==
  /\ s.peers = n.peers
  /\ \A k \in s.offer_open :
       \/ /\ k \in n.offer_open /\ ~AsksFor(h, k)
          /\ n.logs[k].topmost \in Nat /\ s.logs[k].topmost \in Nat
          /\ n.logs[k].topmost <= s.logs[k].topmost
       \/ \E e \in fx : AsksFor(e, k)

\* Without evictions a peer keeps what it held at the start.
Stays ==
  budget.evict = MaxEvict =>
    \A k \in Keys : \A b \in DOMAIN Reserve0[k] :
      b \in DOMAIN reserve[k] /\ reserve[k][b] = Reserve0[k][b]

Goes ==
  /\ Ready(node)
  /\ Asked(node, queue)
  /\ AllCarried => Standing(node, queue)

CInv == Stays /\ (Converging => Goes)

\* The BinIDs a peer held at the start are numbers.
LEMMA Reserved ==
  ASSUME NEW k \in Keys, NEW b \in DOMAIN Reserve0[k]
  PROVE  b \in Nat
BY SessionConstants, LogTypes

LEMMA StandingFed ==
  ASSUME NEW n, NEW s, NEW q \in Seq(Effects), q # <<>>, NEW fx,
         Sent(n, s, Head(q), fx), Flags(n, s, Head(q), fx), s.offer_open \subseteq Keys
  PROVE  LET r == Tail(q) \o InOrder(fx)
         IN /\ Asked(n, q) => Asked(s, r)
            /\ Standing(n, q) => Standing(s, r)
<1> DEFINE r == Tail(q) \o InOrder(fx)
<1>1. Joined(Tail(q), r, fx)
  <2>1. Tail(q) \in Seq(Effects) /\ Emitted(fx)
    BY QueueTail DEF Sent
  <2> QED
    BY <2>1, QueueJoins
<1> HIDE DEF r
<1>2. ASSUME Asked(n, q), NEW i \in DOMAIN r, r[i].op = "cursors"
      PROVE  r[i].peer \in s.peers
  <2>1. i \in DOMAIN Tail(q)
    BY <1>1, <1>2 DEF Joined, Sent
  <2>2. r[i] = q[i + 1] /\ i + 1 \in DOMAIN q
    BY <1>1, <2>1, QueueTail DEF Joined
  <2> QED
    BY <1>2, <2>2 DEF Asked, Flags
<1>3. ASSUME Standing(n, q), NEW k \in s.offer_open
      PROVE  \/ \E i \in DOMAIN r : AsksFor(r[i], k)
             \/ \A b \in DOMAIN Reserve0[k] : b <= s.logs[k].topmost
  <2>1. CASE \E e \in fx : AsksFor(e, k)
    BY <1>1, <2>1 DEF Joined
  <2>2. CASE ~ \E e \in fx : AsksFor(e, k)
    <3>1. /\ k \in n.offer_open /\ ~AsksFor(Head(q), k)
          /\ n.logs[k].topmost \in Nat /\ s.logs[k].topmost \in Nat
          /\ n.logs[k].topmost <= s.logs[k].topmost
      BY <2>2 DEF Flags
    <3>2. CASE \E i \in DOMAIN q : AsksFor(q[i], k)
      <4>1. PICK i \in DOMAIN q : AsksFor(q[i], k)
        BY <3>2
      <4>2. i # 1 /\ i - 1 \in DOMAIN Tail(q) /\ Tail(q)[i - 1] = q[i]
        BY <3>1, <4>1, QueueTail
      <4> QED
        BY <1>1, <4>1, <4>2 DEF Joined
    <3>3. CASE \A b \in DOMAIN Reserve0[k] : b <= n.logs[k].topmost
      <4>1. \A b \in DOMAIN Reserve0[k] : b \in Nat
        BY Reserved
      <4> QED
        BY <3>1, <3>3, <4>1
    <3> QED
      BY <1>3, <3>1, <3>2, <3>3 DEF Standing
  <2> QED
    BY <2>1, <2>2
<1>4. Asked(n, q) => Asked(s, r)
  BY <1>2 DEF Asked
<1>5. Standing(n, q) => Standing(s, r)
  BY <1>3 DEF Standing
<1> QED
  BY <1>4, <1>5 DEF r

\* A dropped operation, unless it is an offer with something left to answer.
LEMMA StandingSkipped ==
  ASSUME NEW n, NEW q \in Seq(Effects), q # <<>>
  PROVE  /\ Asked(n, q) => Asked(n, Tail(q))
         /\ Standing(n, q) /\ (\A k \in n.offer_open : AsksFor(Head(q), k) =>
                                 \A b \in DOMAIN Reserve0[k] : b <= n.logs[k].topmost)
              => Standing(n, Tail(q))
<1>1. Asked(n, q) => Asked(n, Tail(q))
  BY QueueTail DEF Asked
<1>2. ASSUME Standing(n, q), NEW k \in n.offer_open,
             AsksFor(Head(q), k) => \A b \in DOMAIN Reserve0[k] : b <= n.logs[k].topmost
      PROVE  \/ \E i \in DOMAIN Tail(q) : AsksFor(Tail(q)[i], k)
             \/ \A b \in DOMAIN Reserve0[k] : b <= n.logs[k].topmost
  <2>1. CASE \E i \in DOMAIN q : AsksFor(q[i], k)
    <3>1. PICK i \in DOMAIN q : AsksFor(q[i], k)
      BY <2>1
    <3>2. CASE i = 1
      BY <1>2, <3>1, <3>2, QueueTail
    <3>3. CASE i # 1
      <4>1. i - 1 \in DOMAIN Tail(q) /\ Tail(q)[i - 1] = q[i]
        BY <3>3, QueueTail
      <4> QED
        BY <3>1, <4>1
    <3> QED
      BY <3>2, <3>3
  <2>2. CASE \A b \in DOMAIN Reserve0[k] : b <= n.logs[k].topmost
    BY <2>2
  <2> QED
    BY <1>2, <2>1, <2>2 DEF Standing
<1> QED
  BY <1>1, <1>2 DEF Standing

\* The flags after an answer that ends in a round.
LEMMA RoundFlags ==
  ASSUME NEW n, NodeOK(n), n.offer_open \subseteq DOMAIN n.logs, NEW t, NodeOK(t), t.peers = n.peers,
         NEW h, \A k \in t.offer_open : k \in n.offer_open /\ ~AsksFor(h, k),
         \A k \in DOMAIN n.logs : /\ k \in DOMAIN t.logs
                                  /\ n.logs[k].topmost <= t.logs[k].topmost,
         NEW s, s = Round(t).node
  PROVE  Flags(n, s, h, Round(t).fx)
<1>1. Rounded(t, s) /\ Round(t).fx = RoundFx(t, s)
  BY RoundFacts
<1>2. /\ NodeOK(s) /\ s.peers = t.peers /\ DOMAIN s.logs = DOMAIN t.logs
      /\ s.offer_open = t.offer_open \cup Reopened(t, s)
  BY <1>1 DEF Rounded
<1>3. RoundMoved(t, s)
  BY RoundMoves
<1>4. ASSUME NEW k \in t.offer_open
      PROVE  /\ k \in n.offer_open /\ ~AsksFor(h, k)
             /\ n.logs[k].topmost \in Nat /\ s.logs[k].topmost \in Nat
             /\ n.logs[k].topmost <= s.logs[k].topmost
  <2>1. k \in n.offer_open /\ ~AsksFor(h, k) /\ k \in DOMAIN n.logs
    OBVIOUS
  <2>2. k \in DOMAIN t.logs /\ n.logs[k].topmost <= t.logs[k].topmost
    BY <2>1
  <2>3. s.logs[k].topmost = t.logs[k].topmost
    BY <1>3, <2>2 DEF RoundMoved
  <2>4. Sound(n.logs[k]) /\ Sound(s.logs[k])
    BY <1>2, <2>1, <2>2 DEF NodeOK
  <2> QED
    BY <2>1, <2>2, <2>3, <2>4, SoundFacts
<1>5. ASSUME NEW k \in Reopened(t, s)
      PROVE  \E e \in Round(t).fx : AsksFor(e, k)
  <2>1. k \in Keys
    BY <1>2, NodeParts DEF Reopened, NodeOK
  <2>2. Offer(k, NextStart(s.logs[k])) \in Round(t).fx
    BY <1>1 DEF RoundFx
  <2> QED
    BY <2>1, <2>2, FxForms DEF AsksFor
<1> QED
  BY <1>2, <1>4, <1>5 DEF Flags

LEMMA CursorsFlag ==
  ASSUME NEW n, NodeOK(n), n.offer_open \subseteq DOMAIN n.logs, NEW h \in Effects, h.op = "cursors",
         NEW heads \in Partial(Bins, BinIds)
  PROVE  LET r == CursorsResult(n, h.peer, heads) IN Flags(n, r.node, h, r.fx)
<1> DEFINE r == CursorsResult(n, h.peer, heads)
           s == r.node
<1>0. h.peer \in Peers
  BY DEF Effects
<1>1. /\ NodeOK(s) /\ s.peers = n.peers
      /\ DOMAIN n.logs \subseteq DOMAIN s.logs
      /\ \A k \in DOMAIN s.logs :
           s.logs[k] = IF k \in DOMAIN n.logs THEN n.logs[k] ELSE NewLog
      /\ s.offer_open \ n.offer_open \subseteq Keys
      /\ r.fx = OfferFx(n, s)
  BY <1>0, CursorsFacts
<1> HIDE DEF r
<1>2. ASSUME NEW k \in n.offer_open
      PROVE  /\ ~AsksFor(h, k) /\ n.logs[k].topmost \in Nat /\ s.logs[k].topmost \in Nat
             /\ n.logs[k].topmost <= s.logs[k].topmost
  <2>1. k \in DOMAIN n.logs /\ s.logs[k] = n.logs[k]
    BY <1>1
  <2>2. n.logs[k].topmost \in Nat
    BY <2>1, SoundFacts DEF NodeOK
  <2> QED
    BY <2>1, <2>2 DEF AsksFor
<1>3. ASSUME NEW k \in s.offer_open, k \notin n.offer_open
      PROVE  \E e \in r.fx : AsksFor(e, k)
  <2>1. k \in Keys
    BY <1>1, <1>3
  <2>2. Offer(k, NextStart(s.logs[k])) \in r.fx
    BY <1>1, <1>3 DEF OfferFx
  <2> QED
    BY <2>1, <2>2, FxForms DEF AsksFor
<1>4. Flags(n, s, h, r.fx)
  BY <1>1, <1>2, <1>3 DEF Flags
<1> QED
  BY <1>4 DEF r

\* A server that blocks on a range has nothing in it.
LEMMA EmptyPage ==
  ASSUME NEW k, reserve[k] \in Window, NEW start \in BinIds, Collect(k, start) = {}
  PROVE  \A b \in DOMAIN reserve[k] : b \in Nat /\ b < start
<1> DEFINE range == {b \in DOMAIN reserve[k] : b >= start}
           Below(b) == {x \in range : x < b}
<1>1. DOMAIN reserve[k] \subseteq BinIds /\ BinIds \subseteq Nat /\ start \in Nat
  BY LogTypes
<1>2. {b \in range : Cardinality(Below(b)) < Page} = {}
  BY DEF Collect
<1>3. range \in SUBSET Nat
  BY <1>1
<1>4. range = {}
  <2> SUFFICES ASSUME range # {} PROVE FALSE
    OBVIOUS
  <2>1. PICK b \in range : \A y \in range : b <= y
    <3> HIDE DEF range
    <3> QED
      BY <1>3, LeastNat
  <2> HIDE DEF range
  <2>2. Below(b) = {}
    <3>1. \A y \in range : b \in Nat /\ y \in Nat /\ ~(y < b)
      BY <1>3, <2>1
    <3> QED
      BY <3>1
  <2>3. Cardinality(Below(b)) < Page
    <3>1. 0 < Page
      BY SessionConstants
    <3> HIDE DEF Below
    <3> QED
      BY <2>2, <3>1, FS_EmptySet
  <2> QED
    BY <1>2, <2>1, <2>3
<1>5. \A b \in DOMAIN reserve[k] : b \in Nat /\ ~(b >= start)
  BY <1>1, <1>4
<1> QED
  BY <1>1, <1>5

\* A spent fault is never made up for.
Carries == (AllCarried' => AllCarried) /\ (budget'.evict = MaxEvict => budget.evict = MaxEvict)

LEMMA SpendCarries ==
  ASSUME BudgetOK, NEW what \in {"fail", "under", "drop", "close", "abandon", "evict"}, Spend(what)
  PROVE  /\ Carries
         /\ what \notin {"fail", "under"} => ~AllCarried'
         /\ what = "evict" => budget'.evict # MaxEvict
<1>1. {MaxFail, MaxUnder, MaxDrop, MaxClose, MaxAbandon, MaxEvict} \subseteq Nat
  BY SessionConstants
<1>2. CASE what = "fail"
  BY <1>1, <1>2 DEF BudgetOK, Spend, AllCarried, Carries
<1>3. CASE what = "drop"
  BY <1>1, <1>3 DEF BudgetOK, Spend, AllCarried, Carries
<1>4. CASE what = "close"
  BY <1>1, <1>4 DEF BudgetOK, Spend, AllCarried, Carries
<1>5. CASE what = "abandon"
  BY <1>1, <1>5 DEF BudgetOK, Spend, AllCarried, Carries
<1>6. CASE what = "evict"
  BY <1>1, <1>6 DEF BudgetOK, Spend, AllCarried, Carries
<1>7. CASE what = "under"
  BY <1>1, <1>7 DEF BudgetOK, Spend, AllCarried, Carries
<1> QED
  BY <1>2, <1>3, <1>4, <1>5, <1>6, <1>7

LEMMA FedGoes ==
  ASSUME IInv, Goes, queue # <<>>, NEW result, Feed(result), AllCarried' => AllCarried,
         Moved(node, result.node, Head(queue)),
         Sent(node, result.node, Head(queue), result.fx),
         Flags(node, result.node, Head(queue), result.fx), Ready(result.node)
  PROVE  Goes'
<1> DEFINE s == result.node
           r == Tail(queue) \o InOrder(result.fx)
<1>1. node' = s /\ queue' = r
  BY DEF Feed
<1>2. queue \in Seq(Effects)
  BY DEF IInv, TypeOK
<1>3. s.offer_open \subseteq Keys
  <2>1. s \in NodeState
    BY DEF Moved, NodeOK
  <2> QED
    BY <2>1, NodeParts
<1>4. (Asked(node, queue) => Asked(s, r)) /\ (Standing(node, queue) => Standing(s, r))
  BY <1>2, <1>3, StandingFed
<1> HIDE DEF s, r
<1>5. Ready(s) /\ Asked(s, r) /\ (AllCarried' => Standing(s, r))
  BY <1>4 DEF Goes, s
<1>6. Ready(node)' /\ Asked(node, queue)' /\ (AllCarried' => Standing(node, queue)')
  <2>1. Ready(node') /\ Asked(node', queue') /\ (AllCarried' => Standing(node', queue'))
    BY <1>1, <1>5
  <2>2. Ready(node)' <=> Ready(node')
    BY DEF Ready, Served, Driven, Pending, Awaits, Done, NextStart
  <2>3. Asked(node, queue)' <=> Asked(node', queue')
    BY DEF Asked
  <2>4. Standing(node, queue)' <=> Standing(node', queue')
    BY DEF Standing, AsksFor, KeyOf
  <2> QED
    BY <2>1, <2>2, <2>3, <2>4
<1> QED
  BY <1>6 DEF Goes

LEMMA CursorsGoes ==
  ASSUME IInv, Goes, NextOp("cursors"), AllCarried' => AllCarried,
         NEW heads \in Partial(Bins, BinIds),
         Feed(CursorsResult(node, Head(queue).peer, heads))
  PROVE  Goes'
<1> DEFINE h == Head(queue)
           r == CursorsResult(node, h.peer, heads)
<1>1. queue # <<>> /\ h.op = "cursors"
  BY DEF NextOp
<1>2. h \in Effects /\ Waits(node, h) /\ NodeOK(node) /\ queue \in Seq(Effects)
  BY <1>1, HeadWaits
<1>3. Moved(node, r.node, h) /\ Sent(node, r.node, h, r.fx)
  BY <1>1, <1>2, CursorsMove
<1>4. Ready(node) /\ node.offer_open \subseteq DOMAIN node.logs
  BY DEF Goes, Ready, Driven
<1>5. Flags(node, r.node, h, r.fx)
  BY <1>1, <1>2, <1>4, CursorsFlag
<1>6. h.peer \in node.peers /\ h.peer \in Peers
  <2>1. 1 \in DOMAIN queue /\ h = queue[1]
    BY <1>1, <1>2, QueueTail
  <2>2. h.peer \in node.peers
    BY <1>1, <2>1 DEF Goes, Asked
  <2> QED
    BY <1>1, <1>2, <2>2 DEF Effects
<1>7. Ready(r.node)
  BY <1>2, <1>4, <1>6, CursorsReady
<1>8. Feed(r)
  OBVIOUS
<1> HIDE DEF r
<1> QED
  BY <1>1, <1>3, <1>5, <1>7, <1>8, FedGoes

LEMMA FetchGoes ==
  ASSUME Converging, IInv, Goes, NextOp("fetch"), AllCarried' => AllCarried,
         NEW out \in Partial(Chunks, Outcomes), DOMAIN out \subseteq Head(queue).want,
         Feed(FetchResult(node, Head(queue).peer, out))
  PROVE  Goes'
<1> DEFINE h == Head(queue)
           t == Fetched(node, h.peer, out)
           r == FetchResult(node, h.peer, out)
<1>1. queue # <<>> /\ h.op = "fetch"
  BY DEF NextOp
<1>2. /\ h \in Effects /\ Waits(node, h)
      /\ NodeOK(node) /\ node.m.cfg = Cfg /\ (OneClaim => Exclusive(node.m))
  BY <1>1, HeadWaits
<1>3. Moved(node, r.node, h) /\ Sent(node, r.node, h, r.fx)
  BY <1>1, <1>2, FetchMove
<1>4. h.peer \in Peers
  BY <1>1, <1>2 DEF Effects
<1>5. /\ r = Round(t) /\ NodeOK(t) /\ t.logs = node.logs
      /\ t.offer_open = node.offer_open /\ t.peers = node.peers
      /\ Reported(node.m, t.m, DOMAIN out, h.peer, out)
  BY <1>2, <1>4, FetchedFacts
<1>6. Feed(r)
  OBVIOUS
<1> HIDE DEF h, t, r
<1>7. Served(node) /\ node.offer_open \subseteq DOMAIN node.logs
  BY DEF Goes, Ready, Driven
<1>8. Served(t) /\ t.m.cfg = Cfg
  <2>1. t.m.cfg = Cfg
    BY <1>2, <1>5 DEF Reported
  <2> QED
    BY <1>5, <1>7, <2>1, FetchedServed
<1>9. Ready(r.node)
  BY <1>5, <1>7, <1>8, RoundReady
<1>10. Flags(node, r.node, h, r.fx)
  <2>1. \A k \in t.offer_open : k \in node.offer_open /\ ~AsksFor(h, k)
    BY <1>1, <1>5 DEF AsksFor
  <2>2. \A k \in DOMAIN node.logs : /\ k \in DOMAIN t.logs
                                    /\ node.logs[k].topmost <= t.logs[k].topmost
    BY <1>2, <1>5, SoundFacts DEF NodeOK
  <2> QED
    BY <1>2, <1>5, <1>7, <2>1, <2>2, RoundFlags
<1> QED
  BY <1>1, <1>3, <1>6, <1>9, <1>10, FedGoes DEF h

LEMMA ReportGoes ==
  ASSUME Converging, IInv, Goes, NextOp("fetch"), AllCarried' => AllCarried,
         NEW named, Feed(FetchReport(named))
  PROVE  Goes'
<1> DEFINE h == Head(queue)
           out == [c \in h.want |-> CASE c \notin named -> "Missed"
                                      [] c \in named \cap Bad -> "Rejected"
                                      [] OTHER -> "Delivered"]
<1>1. h.want \in SUBSET Chunks
  <2>1. h \in Effects /\ h.op = "fetch"
    BY HeadWaits DEF NextOp
  <2> QED
    BY <2>1 DEF Effects
<1>2. FetchReport(named) = FetchResult(node, h.peer, out)
  BY DEF FetchReport
<1>3. out \in Partial(Chunks, Outcomes) /\ DOMAIN out = h.want
  <2> HIDE DEF h
  <2> QED
    BY <1>1, ReportFacts
<1> HIDE DEF out
<1> QED
  BY <1>2, <1>3, FetchGoes DEF h

LEMMA OfferGoes ==
  ASSUME Converging, IInv, Goes, AllCarried' => AllCarried, NEW told, OfferFed(told)
  PROVE  Goes'
<1> DEFINE h == Head(queue)
           k == KeyOf(h)
           start == h.start
           page == Collect(k, start)
           refs == Positioned(k, start, page)
           t == Told(node, k, start, refs, told)
           r == OfferResult(node, k, start, refs, told)
<1>1. /\ queue # <<>> /\ h.op = "offer" /\ page # {} /\ Feed(r)
      /\ told \in BinIds
  BY DEF OfferFed, FeedOffer, OfferPage, NextOp
<1>2. /\ h \in Effects /\ Waits(node, h)
      /\ NodeOK(node) /\ node.m.cfg = Cfg /\ (OneClaim => Exclusive(node.m))
  BY <1>1, HeadWaits
<1>3. start \in BinIds /\ k \in Keys /\ k \in DOMAIN node.logs
  BY <1>1, <1>2, EffectKeys DEF Effects, Waits
<1>4. reserve[k] \in Window
  BY <1>3 DEF IInv, TypeOK
<1> HIDE DEF h, k, start, page
<1>5. refs \in Window
  BY <1>1, <1>3, <1>4, PositionedFacts DEF page, PositionedAs
<1> HIDE DEF refs
<1>7. /\ ToldTo(node, t, k, start, refs, told) /\ r = Round(t)
      /\ Moved(node, r.node, h) /\ Sent(node, r.node, h, r.fx)
  BY <1>1, <1>2, <1>5, OfferMove DEF k, start
<1> HIDE DEF t, r
<1>8. /\ NodeOK(t) /\ t.m.cfg = Cfg /\ t.peers = node.peers
      /\ t.offer_open = node.offer_open \ {k}
      /\ DOMAIN t.logs = DOMAIN node.logs
      /\ \A l \in DOMAIN node.logs \ {k} : t.logs[l] = node.logs[l]
      /\ node.logs[k].topmost <= t.logs[k].topmost
  BY <1>2, <1>7 DEF ToldTo
<1>9. Served(node) /\ node.offer_open \subseteq DOMAIN node.logs
  BY DEF Goes, Ready, Driven
<1>10. Served(t)
  BY <1>2, <1>3, <1>7, <1>9, ToldServed
<1>11. Ready(r.node)
  BY <1>7, <1>8, <1>9, <1>10, RoundReady
<1>12. Flags(node, r.node, h, r.fx)
  <2>1. \A l \in t.offer_open : l \in node.offer_open /\ ~AsksFor(h, l)
    BY <1>8 DEF AsksFor, k
  <2>2. \A l \in DOMAIN node.logs : node.logs[l].topmost \in Nat
    BY <1>2, SoundFacts DEF NodeOK
  <2>3. \A l \in DOMAIN node.logs : /\ l \in DOMAIN t.logs
                                    /\ node.logs[l].topmost <= t.logs[l].topmost
    BY <1>8, <2>2
  <2> QED
    BY <1>2, <1>7, <1>8, <1>9, <2>1, <2>3, RoundFlags
<1> QED
  BY <1>1, <1>7, <1>11, <1>12, FedGoes DEF h

\* A dropped operation: an offer is one whose range is empty, or a fault is spent.
LEMMA SkipGoes ==
  ASSUME IInv, Goes, queue # <<>>, Skip, AllCarried' => AllCarried,
         AllCarried' => \A k \in node.offer_open : AsksFor(Head(queue), k) =>
                          \A b \in DOMAIN Reserve0[k] : b <= node.logs[k].topmost
  PROVE  Goes'
<1>1. node' = node /\ queue' = Tail(queue) /\ queue \in Seq(Effects)
  BY DEF Skip, IInv, TypeOK
<1>2. Ready(node) /\ Asked(node, Tail(queue)) /\ (AllCarried' => Standing(node, Tail(queue)))
  BY <1>1, StandingSkipped DEF Goes
<1>3. Ready(node') /\ Asked(node', queue') /\ (AllCarried' => Standing(node', queue'))
  BY <1>1, <1>2
<1>4. Ready(node)' <=> Ready(node')
  BY DEF Ready, Served, Driven, Pending, Awaits, Done, NextStart
<1>5. (Asked(node, queue)' <=> Asked(node', queue'))
      /\ (Standing(node, queue)' <=> Standing(node', queue'))
  BY DEF Asked, Standing, AsksFor, KeyOf
<1> QED
  BY <1>3, <1>4, <1>5 DEF Goes

\* The stream of a blocked offer ends: its log covers all the peer held.
LEMMA ParkedGoes ==
  ASSUME IInv, Goes, Stays, DropParked
  PROVE  Goes'
<1> DEFINE h == Head(queue)
           k == KeyOf(h)
<1>1. /\ queue # <<>> /\ h.op = "offer" /\ Collect(k, h.start) = {} /\ Skip
      /\ budget' = budget
  BY DEF DropParked, OfferPage, NextOp
<1>2. h \in Effects /\ Waits(node, h) /\ NodeOK(node)
  BY <1>1, HeadWaits
<1>3. /\ k \in Keys /\ k \in DOMAIN node.logs /\ h.start = NextStart(node.logs[k])
      /\ node.logs[k].interval = node.logs[k].topmost /\ h.start \in BinIds
  BY <1>1, <1>2, EffectKeys DEF Effects, Waits
<1>4. reserve[k] \in Window
  BY <1>3 DEF IInv, TypeOK
<1>5. Sound(node.logs[k])
  BY <1>2, <1>3 DEF NodeOK
<1>6. AllCarried' => AllCarried
  BY <1>1 DEF AllCarried
<1> HIDE DEF h, k
<1>7. \A b \in DOMAIN reserve[k] : b \in Nat /\ b < h.start
  BY <1>1, <1>3, <1>4, EmptyPage
<1>8. h.start <= node.logs[k].topmost + 1 /\ h.start \in Nat /\ node.logs[k].topmost \in Nat
  BY <1>3, <1>5, NextStartSound, SoundFacts, LogTypes
<1>9. \A b \in DOMAIN reserve[k] : b <= node.logs[k].topmost
  BY <1>7, <1>8
<1>10. AllCarried => \A b \in DOMAIN Reserve0[k] : b <= node.logs[k].topmost
  BY <1>3, <1>9 DEF Stays, AllCarried
<1>11. \A l : AsksFor(h, l) => l = k
  BY DEF AsksFor, k
<1> QED
  BY <1>1, <1>6, <1>10, <1>11, SkipGoes DEF h

\* What lands comes on top of what is there.
LEMMA LandStays ==
  ASSUME IInv, Stays, NEW u \in landing, Land(u)
  PROVE  Stays'
<1> DEFINE k == <<u[1], u[2]>>
           b == HeadOf(k) + 1
           new == Put(reserve[k], b, u[3])
<1>1. reserve' = [reserve EXCEPT ![k] = new] /\ budget' = budget
  BY DEF Land
<1>2. k \in Keys /\ reserve[k] \in Window /\ reserve \in [Keys -> Window]
  BY DEF IInv, TypeOK, Keys
<1>3. \A x \in DOMAIN reserve[k] : x # b
  <2>1. /\ HeadOf(k) \in Nat /\ \A x \in DOMAIN reserve[k] : x \in Nat /\ x <= HeadOf(k)
    BY <1>2, HeadFacts
  <2> QED
    BY <2>1
<1> HIDE DEF b, k
<1>4. \A x \in DOMAIN reserve[k] : x \in DOMAIN new /\ new[x] = reserve[k][x]
  BY <1>3 DEF Put
<1> HIDE DEF new
<1>5. \A j \in Keys : reserve'[j] = IF j = k THEN new ELSE reserve[j]
  BY <1>1, <1>2
<1> QED
  BY <1>1, <1>4, <1>5 DEF Stays

LEMMA CInvInit == Init => CInv
<1> SUFFICES ASSUME Init PROVE CInv
  OBVIOUS
<1>1. Greeted(Announced) /\ node = Announced.node /\ queue = Announced.queue /\ reserve = Reserve0
  BY AnnouncedFacts DEF Init
<1>2. /\ DOMAIN node.logs = {} /\ node.offer_open = {}
      /\ \A i \in DOMAIN queue : queue[i].peer \in node.peers
  BY <1>1 DEF Greeted
<1>3. Stays
  BY <1>1 DEF Stays
<1>4. Ready(node) /\ Asked(node, queue) /\ Standing(node, queue)
  BY <1>2 DEF Ready, Served, Driven, Pending, Asked, Standing
<1> QED
  BY <1>3, <1>4 DEF CInv, Goes

LEMMA CInvNext == IInv /\ LInv /\ CInv /\ [Next]_vars => CInv'
<1> SUFFICES ASSUME IInv, LInv, CInv, [Next]_vars PROVE CInv'
  OBVIOUS
<1>0. BudgetOK /\ Stays /\ (Converging => Goes)
  BY DEF LInv, CInv
<1>a. UNCHANGED budget => Carries
  BY DEF AllCarried, Carries
<1>b. \A what \in {"fail", "under", "drop", "close", "abandon", "evict"} :
        Spend(what) => /\ Carries
                       /\ what \notin {"fail", "under"} => ~AllCarried'
                       /\ what = "evict" => budget'.evict # MaxEvict
  BY <1>0, SpendCarries
<1>c. Carries /\ UNCHANGED reserve => Stays'
  BY <1>0 DEF Carries, Stays
<1>d. Stays' /\ (Converging => Goes') => CInv'
  BY DEF CInv, Converging, OneClaim
<1>1. CASE TakeSettled
  <2>1. Carries /\ UNCHANGED reserve /\ queue # <<>> /\ Head(queue).op = "settled" /\ Skip
    BY <1>1, <1>a DEF TakeSettled, peersVars, NextOp
  <2>2. Goes => Goes'
    BY <2>1, SkipGoes DEF AsksFor, Carries
  <2> QED
    BY <1>0, <1>c, <1>d, <2>1, <2>2
<1>2. CASE RunCursors
  <2> DEFINE p == Head(queue).peer
             heads == [b \in Bins |-> HeadOf(<<p, b>>)]
  <2>1. NextOp("cursors") /\ Feed(CursorsResult(node, p, heads)) /\ Carries /\ UNCHANGED reserve
    BY <1>2, <1>a DEF RunCursors, peersVars
  <2>2. p \in Peers
    <3>1. Head(queue) \in Effects /\ Head(queue).op = "cursors"
      BY <2>1, HeadWaits DEF NextOp
    <3> QED
      BY <3>1 DEF Effects
  <2>3. heads \in [Bins -> BinIds]
    <3>1. \A b \in Bins : <<p, b>> \in Keys
      BY <2>2 DEF Keys
    <3>2. \A b \in Bins : reserve[<<p, b>>] \in Window
      BY <3>1 DEF IInv, TypeOK
    <3> QED
      BY <3>2, HeadFacts
  <2> HIDE DEF heads
  <2>4. Goes => Goes'
    BY <2>1, <2>3, AllHeads, CursorsGoes DEF Carries
  <2> QED
    BY <1>0, <1>c, <1>d, <2>1, <2>4
<1>3. CASE FailCursors
  <2>1. /\ NextOp("cursors") /\ Feed(CursorsResult(node, Head(queue).peer, <<>>))
        /\ Carries /\ UNCHANGED reserve
    BY <1>3, <1>b DEF FailCursors, peersVars
  <2>2. Goes => Goes'
    BY <2>1, NothingReported, CursorsGoes DEF Carries
  <2> QED
    BY <1>0, <1>c, <1>d, <2>1, <2>2
<1>4. CASE RunOffer \/ UnderstateOffer
  <2>1. Carries /\ UNCHANGED reserve
    BY <1>4, <1>a, <1>b DEF RunOffer, UnderstateOffer, peersVars
  <2>2. Converging /\ Goes => Goes'
    BY <1>4, <2>1, OfferRuns, OfferGoes DEF Carries
  <2> QED
    BY <1>0, <1>c, <1>d, <2>1, <2>2
<1>5. CASE DropOffer
  <2>1. Carries /\ ~AllCarried' /\ UNCHANGED reserve /\ queue # <<>> /\ Skip
    BY <1>5, <1>b DEF DropOffer, peersVars, NextOp
  <2>2. Goes => Goes'
    BY <2>1, SkipGoes
  <2> QED
    BY <1>0, <1>c, <1>d, <2>1, <2>2
<1>6. CASE DropParked
  <2>1. Carries /\ UNCHANGED reserve
    BY <1>6, <1>a DEF DropParked, peersVars
  <2>2. Goes => Goes'
    BY <1>0, <1>6, ParkedGoes
  <2> QED
    BY <1>0, <1>c, <1>d, <2>1, <2>2
<1>7. CASE RunFetch \/ CutFetch
  <2>1. /\ NextOp("fetch") /\ Carries /\ UNCHANGED reserve
        /\ \E named : Feed(FetchReport(named))
    BY <1>7, <1>a, <1>b DEF RunFetch, CutFetch, peersVars
  <2>2. Converging /\ Goes => Goes'
    BY <2>1, ReportGoes DEF Carries
  <2> QED
    BY <1>0, <1>c, <1>d, <2>1, <2>2
<1>8. CASE FailFetch
  <2>1. NextOp("fetch") /\ Carries /\ UNCHANGED reserve /\ Feed(FetchReport({}))
    BY <1>8, <1>b DEF FailFetch, peersVars
  <2>2. Converging /\ Goes => Goes'
    BY <2>1, ReportGoes DEF Carries
  <2> QED
    BY <1>0, <1>c, <1>d, <2>1, <2>2
<1>9. CASE CloseFetch
  <2>1. /\ NextOp("fetch") /\ Feed(FetchResult(node, Head(queue).peer, <<>>))
        /\ Carries /\ UNCHANGED reserve
    BY <1>9, <1>b DEF CloseFetch, peersVars
  <2>2. Converging /\ Goes => Goes'
    BY <2>1, NothingReported, FetchGoes DEF Carries
  <2> QED
    BY <1>0, <1>c, <1>d, <2>1, <2>2
<1>10. CASE AbandonOp
  <2>1. Carries /\ ~AllCarried' /\ UNCHANGED reserve /\ queue # <<>> /\ Skip
    BY <1>10, <1>b DEF AbandonOp, peersVars, NextOp
  <2>2. Goes => Goes'
    BY <2>1, SkipGoes
  <2> QED
    BY <1>0, <1>c, <1>d, <2>1, <2>2
<1>11. CASE \E u \in landing : Land(u)
  <2>1. UNCHANGED <<node, queue, budget>>
    BY <1>11 DEF Land
  <2>2. Goes => Goes'
    BY <2>1 DEF Goes, AllCarried, Ready, Served, Driven, Pending, Awaits, Done, NextStart,
                Asked, Standing, AsksFor, KeyOf
  <2>3. Stays'
    BY <1>0, <1>11, LandStays
  <2> QED
    BY <1>0, <1>d, <2>2, <2>3
<1>12. CASE \E k \in Keys : \E b \in DOMAIN reserve[k] : Evict(k, b)
  <2>1. UNCHANGED <<node, queue>> /\ ~AllCarried' /\ budget'.evict # MaxEvict
    BY <1>12, <1>b DEF Evict
  <2>2. Goes => Goes'
    BY <2>1 DEF Goes, Ready, Served, Driven, Pending, Awaits, Done, NextStart, Asked
  <2>3. Stays'
    BY <2>1 DEF Stays
  <2> QED
    BY <1>0, <1>d, <2>2, <2>3
<1>13. CASE UNCHANGED vars
  <2>1. UNCHANGED <<node, queue, reserve, budget>>
    BY <1>13 DEF vars
  <2>2. Goes => Goes'
    BY <2>1 DEF Goes, AllCarried, Ready, Served, Driven, Pending, Awaits, Done, NextStart,
                Asked, Standing, AsksFor, KeyOf
  <2> QED
    BY <1>0, <1>a, <1>c, <1>d, <2>1, <2>2
<1> QED
  BY <1>1, <1>2, <1>3, <1>4, <1>5, <1>6, <1>7, <1>8, <1>9, <1>10, <1>11, <1>12, <1>13 DEF Next

\* With an empty queue nothing is leased, so nothing in a window is open, so every
\* log has settled all it covers and has its offer open; no offer is queued, so the
\* log covers all its peer held.
LEMMA EmptyConverged == IInv /\ LInv /\ CInv => (Converging => QuiescentConverged)
<1> SUFFICES ASSUME IInv, LInv, CInv, Converging, queue = <<>>, AllCarried,
                    NEW k \in Heard, NEW b \in DOMAIN Reserve0[k]
             PROVE  Reserve0[k][b] \in Done(node)
  BY DEF QuiescentConverged
<1> DEFINE l == node.logs[k]
<1>1. k \in Keys /\ k \in DOMAIN node.logs
  BY DEF Heard
<1>2. Sound(l) /\ b \in Nat
  BY <1>1, Reserved DEF IInv, TypeOK, NodeOK
<1>3. DOMAIN queue = {}
  OBVIOUS
<1>4. \A d \in Chunks : node.m.want[d] = {}
  <2>1. Kept(node, queue)
    BY DEF LInv, AllCarried, NoneLost, Converging
  <2> QED
    BY <1>3, <2>1 DEF Kept
<1>5. Goes
  BY DEF CInv
<1>6. \A x \in DOMAIN l.entries : l.entries[x] \in Done(node)
  BY <1>1, <1>4, <1>5 DEF Goes, Ready, Pending, Awaits
<1>7. l.interval = l.topmost
  BY <1>1, <1>6, <1>5 DEF Goes, Ready, Driven, Awaits
<1>8. b \in DOMAIN reserve[k] /\ reserve[k][b] = Reserve0[k][b]
  BY <1>1 DEF CInv, Stays, AllCarried
<1>9. b <= l.topmost
  <2>1. l.topmost \in Nat /\ l.interval \in BinIds
    BY <1>2, SoundFacts
  <2>2. CASE k \in node.offer_open
    BY <1>3, <1>5, <2>2 DEF Goes, Standing
  <2>3. CASE k \notin node.offer_open
    <3>1. NextStart(l) <= l.topmost
      BY <1>1, <1>5, <2>3 DEF Goes, Ready, Driven
    <3> HIDE DEF l
    <3>2. l.interval = MaxBinId
      <4> SUFFICES ASSUME l.interval # MaxBinId PROVE FALSE
        OBVIOUS
      <4>1. NextStart(l) = l.interval + 1
        BY <1>2, NextStartUp
      <4> QED
        BY <1>7, <2>1, <3>1, <4>1
    <3>3. b \in BinIds
      BY <1>1, <1>8, LogTypes DEF IInv, TypeOK
    <3> QED
      BY <1>7, <3>2, <3>3, LogTypes DEF BinIds
  <2> QED
    BY <2>2, <2>3
<1>10. Accounted(l, reserve[k], Done(node))
  BY <1>1 DEF IInv, Covers
<1> QED
  BY <1>6, <1>8, <1>9, <1>10 DEF Accounted

\* With exhausted bars cleared and nothing that holds back an offered chunk: when
\* drive returns, and no operation was dropped, closed or abandoned and nothing
\* evicted, everything the heard neighbours held at the start is stored or rejected,
\* whatever uploads, refused streams and misses came in between.
THEOREM QuiescenceConverges == Spec => [](Converging => QuiescentConverged)
<1>1. Spec => [](IInv /\ LInv /\ CInv)
  <2>1. Init => IInv /\ LInv /\ CInv
    BY IInvInit, LInvInit, CInvInit
  <2>2. IInv /\ LInv /\ CInv /\ [Next]_vars => (IInv /\ LInv /\ CInv)'
    BY IInvNext, LInvNext, CInvNext
  <2> QED
    BY <2>1, <2>2, PTL DEF Spec
<1> QED
  BY <1>1, EmptyConverged, PTL
=============================================================================
