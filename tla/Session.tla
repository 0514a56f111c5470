------------------------------- MODULE Session -------------------------------
(***************************************************************************)
(* The session of crates/wire/src/session.rs over the legacy stream        *)
(* coupling of crates/wire/src/adapter.rs: a queue of the node's effects,  *)
(* and drive, which pops one, carries it to its peer and feeds the result  *)
(* back before it looks at the next.                                       *)
(*                                                                         *)
(* An operation is one step, since nothing else touches the session while  *)
(* drive awaits it.  The coupling is what the step is about: an offer      *)
(* carries no BinIDs, so its entries get positions counted from start, and *)
(* a fetch re-offers from the settled high-water and can only be served    *)
(* from that page.  The neighbours' reserves grow and shrink between steps.*)
(***************************************************************************)
EXTENDS Node, Sequences, FiniteSetsExt

CONSTANTS
  Reserve0,     \* initial reserve of each (peer, bin): BinID -> chunk
  Landing,      \* <<peer, bin, chunk>> uploads that land during the run
  Bad,          \* chunks whose stamp is invalid at every holder
  Page,         \* MAX_PAGE: entries per offer
  MaxFail,      \* cursors and fetch streams that break, or cannot be opened
  MaxUnder,     \* offers with an understated Topmost
  MaxDrop,      \* offer streams that end on a range that has entries
  MaxClose,     \* fetch streams that end before their offer
  MaxAbandon,   \* operations lost by a pull_from round that broke off
  MaxEvict,     \* evictions at a peer
  MaxAssigned   \* bound on a peer's cumulative assignments

ASSUME SessionConstants ==
  /\ IsFiniteSet(Bins)
  /\ Reserve0 \in [Keys -> Window]
  /\ \A k \in Keys : 0 \notin DOMAIN Reserve0[k]     \* BinIDs start at 1
  /\ Landing \subseteq Peers \X Bins \X Chunks
  /\ Bad \subseteq Chunks
  /\ Page \in Nat \ {0}
  /\ {MaxFail, MaxUnder, MaxDrop, MaxClose, MaxAbandon, MaxEvict, MaxAssigned} \subseteq Nat

VARIABLES
  node,      \* the puller
  queue,     \* its effects, oldest first
  settled,   \* settled[k]: the high-water last handed to the shell to persist
  reserve,   \* reserve[k]: what the peer of k serves in its bin
  landing,   \* uploads still to come
  budget     \* remaining faults

vars == <<node, queue, settled, reserve, landing, budget>>
peersVars == <<reserve, landing>>

KeyOf(eff) == <<eff.peer, eff.bin>>

\* The order of the Vec that handle returns: the settle pass before the batches,
\* each in BTreeMap order of its (peer, bin) keys, Settled before the re-offer.
FxBefore(e, f) ==
  LET fetch(x) == x.op = "fetch"
      before(k, l) == k[1] < l[1] \/ (k[1] = l[1] /\ k[2] < l[2])
  IN \/ ~fetch(e) /\ fetch(f)
     \/ /\ fetch(e) <=> fetch(f)
        /\ \/ before(KeyOf(e), KeyOf(f))
           \/ KeyOf(e) = KeyOf(f) /\ e.op = "settled" /\ f.op = "offer"

InOrder(fx) ==
  LET before(e) == {f \in fx \ {e} : FxBefore(f, e)}
  IN [i \in 1 .. Cardinality(fx) |->
        CHOOSE e \in fx : Cardinality(before(e)) = i - 1]

\* add_peer for every neighbour, in the order assemble_and_pull lists them.
Announced ==
  LET peer(i) == CHOOSE p \in Peers : Cardinality({q \in Peers : q < p}) = i - 1
      after[i \in 0 .. Cardinality(Peers)] ==
        IF i = 0 THEN [node |-> NewNode, queue |-> <<>>]
        ELSE LET seen == PeerSeen(after[i - 1].node, peer(i))
             IN [node |-> seen.node, queue |-> after[i - 1].queue \o InOrder(seen.fx)]
  IN after[Cardinality(Peers)]

Init ==
  /\ node = Announced.node
  /\ queue = Announced.queue
  /\ settled = [k \in Keys |-> 0]
  /\ reserve = Reserve0
  /\ landing = Landing
  /\ budget = [fail |-> MaxFail, under |-> MaxUnder, drop |-> MaxDrop,
               close |-> MaxClose, abandon |-> MaxAbandon, evict |-> MaxEvict]

Spend(what) == budget[what] > 0 /\ budget' = [budget EXCEPT ![what] = @ - 1]

\* The next effect is of this kind.
NextOp(op) == queue # <<>> /\ Head(queue).op = op

\* The event's effects join the queue behind the ones already there.
Feed(result) ==
  /\ node' = result.node
  /\ queue' = Tail(queue) \o InOrder(result.fx)

Skip == queue' = Tail(queue) /\ UNCHANGED node

-----------------------------------------------------------------------------
(* The serving side.                                                       *)

HeadOf(k) == Max({0} \cup DOMAIN reserve[k])

Stored(k) == {reserve[k][b] : b \in DOMAIN reserve[k]}

\* collect: the BinIDs of the first Page entries at or past start.
Collect(k, start) ==
  LET range == {b \in DOMAIN reserve[k] : b >= start}
  IN {b \in range : Cardinality({x \in range : x < b}) < Page}

\* Mutant of Positioned: positions are counted from one.
PositionedFromOne(k, start, page) ==
  LET at(i) == CHOOSE b \in page : Cardinality({x \in page : x < b}) = i - start - 1
  IN [i \in start + 1 .. start + Cardinality(page) |-> reserve[k][at(i)]]

\* Entry i of an offer for start gets position start + i.
Positioned(k, start, page) ==
  LET at(i) == CHOOSE b \in page : Cardinality({x \in page : x < b}) = i - start
  IN [i \in start .. start + Cardinality(page) - 1 |-> reserve[k][at(i)]]

-----------------------------------------------------------------------------
(* One turn of drive, by the effect at the head of the queue.              *)

\* Settled is no network operation: it is recorded for the shell to persist.
TakeSettled ==
  /\ NextOp("settled")
  /\ settled' = [settled EXCEPT ![KeyOf(Head(queue))] = Head(queue).upto]
  /\ Skip
  /\ UNCHANGED <<peersVars, budget>>

RunCursors ==
  /\ NextOp("cursors")
  /\ LET p == Head(queue).peer
     IN Feed(CursorsResult(node, p, [b \in Bins |-> HeadOf(<<p, b>>)]))
  /\ UNCHANGED <<settled, peersVars, budget>>

\* failure_event: no cursors, hence no offers.
FailCursors ==
  /\ NextOp("cursors")
  /\ Spend("fail")
  /\ Feed(CursorsResult(node, Head(queue).peer, <<>>))
  /\ UNCHANGED <<settled, peersVars>>

\* The page of the offer at the head of the queue.
OfferPage == Collect(KeyOf(Head(queue)), Head(queue).start)

\* Its entries are fed back under their positions, with the Topmost stated.
FeedOffer(topmost) ==
  LET k == KeyOf(Head(queue))
      start == Head(queue).start
  IN Feed(OfferResult(node, k, start, Positioned(k, start, OfferPage), topmost))

\* The server blocks on an empty range until something lands in it.
RunOffer ==
  /\ NextOp("offer")
  /\ OfferPage # {}
  /\ FeedOffer(Max(OfferPage))
  /\ UNCHANGED <<settled, peersVars, budget>>

\* A server that states less than its page covers, or than it was asked for.
UnderstateOffer ==
  /\ NextOp("offer")
  /\ OfferPage # {}
  /\ Spend("under")
  /\ \E topmost \in 0 .. Max(OfferPage) - 1 : FeedOffer(topmost)
  /\ UNCHANGED <<settled, peersVars>>

\* The runner returns None: drive drops a failed offer and feeds nothing.
DropOffer ==
  /\ NextOp("offer")
  /\ OfferPage # {}
  /\ Spend("drop")
  /\ Skip
  /\ UNCHANGED <<settled, peersVars>>

\* The stream of a blocked offer ends: the same drop.
DropParked ==
  /\ NextOp("offer")
  /\ OfferPage = {}
  /\ Skip
  /\ UNCHANGED <<settled, peersVars, budget>>

\* Mutant of FetchStart: every fetch re-offers from the beginning.
FetchStartZero(k) == 0

\* The resume point of a fetch, read when the effect is popped.
FetchStart(k) == IF k \in DOMAIN node.logs THEN node.logs[k].interval ELSE 0

\* The one report of a fetch that got this far: what arrived is verified or
\* rejected, the other wants are missed.
FetchReport(arrived) ==
  FetchResult(node, Head(queue).peer,
              [c \in Head(queue).want |-> CASE c \notin arrived -> "Missed"
                                           [] c \in arrived \cap Bad -> "Rejected"
                                           [] OTHER -> "Delivered"])

\* The page of the fetch at the head: a fresh offer from the high-water.
FetchPage == LET k == KeyOf(Head(queue)) IN Collect(k, FetchStart(k))

\* The wants it names, all that can arrive.
Named == {reserve[KeyOf(Head(queue))][b] : b \in FetchPage}

RunFetch ==
  /\ NextOp("fetch")
  /\ node.assigned[Head(queue).peer] < MaxAssigned
  /\ FetchPage # {}
  /\ Feed(FetchReport(Named))
  /\ UNCHANGED <<settled, peersVars, budget>>

\* The stream ends after the offer with only some of the deliveries: close
\* finalizes what is pending as missed.
CutFetch ==
  /\ NextOp("fetch")
  /\ FetchPage # {}
  /\ Spend("fail")
  /\ LET due == Named \cap Head(queue).want
     IN \E arrived \in SUBSET due \ {due} : Feed(FetchReport(arrived))
  /\ UNCHANGED <<settled, peersVars>>

\* The stream could not be opened: failure_event reports every want missed.
FailFetch ==
  /\ NextOp("fetch")
  /\ Spend("fail")
  /\ Feed(FetchReport({}))
  /\ UNCHANGED <<settled, peersVars>>

\* The stream ended while FetchClient awaited the offer: close has no pending
\* wants to finalize and reports no outcome at all.
CloseFetch ==
  /\ NextOp("fetch")
  /\ Spend("close")
  /\ Feed(FetchResult(node, Head(queue).peer, <<>>))
  /\ UNCHANGED <<settled, peersVars>>

\* pull_from, the single-peer loop, breaks off at the first operation it could
\* not carry; the next round starts behind it.
AbandonOp ==
  /\ \E op \in {"cursors", "offer", "fetch"} : NextOp(op)
  /\ Spend("abandon")
  /\ Skip
  /\ UNCHANGED <<settled, peersVars>>

Land(u) ==
  /\ landing' = landing \ {u}
  /\ LET k == <<u[1], u[2]>>
     IN /\ HeadOf(k) < MaxBinId
        /\ reserve' = [reserve EXCEPT ![k] = Put(@, HeadOf(k) + 1, u[3])]
  /\ UNCHANGED <<node, queue, settled, budget>>

\* An entry below the head leaves the peer's reserve, and a gap in its log.
Evict(k, b) ==
  /\ b < HeadOf(k)
  /\ Spend("evict")
  /\ reserve' = [reserve EXCEPT ![k] = Without(@, {b})]
  /\ UNCHANGED <<node, queue, settled, landing>>

Turn == TakeSettled \/ RunCursors \/ RunOffer \/ DropParked \/ RunFetch

Next ==
  \/ TakeSettled
  \/ RunCursors
  \/ FailCursors
  \/ RunOffer
  \/ UnderstateOffer
  \/ DropOffer
  \/ DropParked
  \/ RunFetch
  \/ CutFetch
  \/ FailFetch
  \/ CloseFetch
  \/ AbandonOp
  \/ \E u \in landing : Land(u)
  \/ \E k \in Keys : \E b \in DOMAIN reserve[k] : Evict(k, b)

\* A turn can be taken unless the fetch at the head finds an empty page, on
\* which its server blocks too.
TurnReady ==
  /\ queue # <<>>
  /\ Head(queue).op = "fetch" =>
       /\ FetchPage # {}
       /\ node.assigned[Head(queue).peer] < MaxAssigned

\* drive keeps turning: the runner's future resolves, and a parked stream is
\* answered or ends.  Faults, uploads and evictions are never owed.  This is
\* weak fairness of Turn, with TurnReady for ENABLED Turn.
Fairness == []<>~TurnReady \/ []<><<Turn>>_vars

Spec == Init /\ [][Next]_vars /\ Fairness

-----------------------------------------------------------------------------
(* Properties.                                                             *)

\* The durable high-water never skips unsettled ground, in the peer's own
\* BinIDs although the wire never carried them: what a shell persists covers
\* only chunks that are stored or rejected here.
DurableSettled ==
  \A k \in Keys : \A b \in DOMAIN reserve[k] :
    b <= settled[k] => reserve[k][b] \in Done(node)

QueuedFetches(c, p) ==
  {i \in DOMAIN queue : queue[i].op = "fetch" /\ queue[i].peer = p /\ c \in queue[i].want}

\* A lease is never lost: while a peer is leased a chunk, the fetch that will
\* end the lease is queued, once; unless a fetch was closed before its offer or
\* abandoned, which are the two ways to lose one.
LeaseQueued ==
  budget.close = MaxClose /\ budget.abandon = MaxAbandon =>
    \A c \in Chunks : \A p \in Peers :
      Cardinality(QueuedFetches(c, p)) = IF p \in node.m.want[c] THEN 1 ELSE 0

\* A fetch is queued only for leases that stand, each once: whatever fails, no
\* payload is asked for twice and none arrives unleased.
FetchesLeased ==
  /\ \A i \in DOMAIN queue : queue[i].op = "fetch" =>
       \A c \in queue[i].want : queue[i].peer \in node.m.want[c]
  /\ \A c \in Chunks : \A p \in Peers : Cardinality(QueuedFetches(c, p)) <= 1

\* Leases and queued fetches match, in both directions.
LeasesMatch == LeaseQueued /\ FetchesLeased

\* When drive returns after carrying every operation, or reporting its failure,
\* everything the heard neighbours held at the start is here or rejected.
Heard == {k \in Keys : k[2] >= Radius /\ k \in DOMAIN node.logs}

AllCarried ==
  /\ budget.close = MaxClose /\ budget.abandon = MaxAbandon
  /\ budget.drop = MaxDrop /\ budget.evict = MaxEvict

QuiescentConverged ==
  queue = <<>> /\ AllCarried =>
    \A k \in Heard : \A b \in DOMAIN Reserve0[k] : Reserve0[k][b] \in Done(node)

\* drive returns: with supply that stays, the queue runs empty, although every
\* result refills it and a bar on the last holder is cleared and tried again.
\* An evicted chunk without another holder is tried for ever.
Terminates == <>(queue = <<>> \/ budget.evict < MaxEvict)

\* Bars by behaviour: while every operation was carried and nothing was
\* evicted, no peer is barred.
HonestNeverBarred ==
  budget.fail = MaxFail /\ budget.evict = MaxEvict =>
    \A c \in Chunks : node.m.excluded[c] = {}

\* A standing offer stands: a (peer, bin) marked as having an open offer has
\* one that is still to be answered.
StandingOffer ==
  \A k \in node.offer_open :
    \E i \in DOMAIN queue : queue[i].op = "offer" /\ KeyOf(queue[i]) = k
=============================================================================
