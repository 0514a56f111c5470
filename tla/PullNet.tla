------------------------------- MODULE PullNet -------------------------------
(***************************************************************************)
(* One pulling node and its neighbours, with every effect and every answer *)
(* in flight at once and delivered in any order: the environment of        *)
(* crates/sim/src/lib.rs (Sim::step), and of the concurrent driver that    *)
(* docs/architecture.md plans.  A peer takes its snapshot when it serves a *)
(* request; the answer may arrive much later.                              *)
(*                                                                         *)
(* The neighbours' reserves, departures, refreshes and faults are the      *)
(* environment.  Each is bounded by a budget; an offer on an empty range   *)
(* that its bin has not reached parks until the bin grows.                 *)
(***************************************************************************)
EXTENDS Node, Bags, FiniteSetsExt

CONSTANTS
  Reserve0,     \* initial reserve of each (peer, bin): BinID -> chunk
  Landing,      \* <<peer, bin, chunk>> uploads that land during the run
  Bad,          \* chunks whose stamp is invalid at every holder
  Page,         \* entries per offer
  MaxMiss,      \* fetches that fail
  MaxUnder,     \* offers with an understated Topmost
  MaxGone,      \* departures
  MaxTick,      \* refresh signals
  MaxEvict,     \* evictions at a peer
  MaxAssigned   \* bound on a peer's cumulative assignments

ASSUME NetConstants ==
  /\ Reserve0 \in [Keys -> Window]
  /\ \A k \in Keys : 0 \notin DOMAIN Reserve0[k]     \* BinIDs start at 1
  /\ Landing \subseteq Peers \X Bins \X Chunks
  /\ Bad \subseteq Chunks
  /\ Page \in Nat \ {0}
  /\ {MaxMiss, MaxUnder, MaxGone, MaxTick, MaxEvict, MaxAssigned} \subseteq Nat

VARIABLES
  node,      \* the puller
  reserve,   \* reserve[k]: what the peer of k serves in its bin
  heads,     \* heads[k]: the last BinID its peer gave out, never given out again
  landing,   \* uploads still to come
  reqs,      \* bag of effects on their way to, or parked at, a peer
  resps,     \* bag of events on their way back
  budget     \* remaining faults, departures, refreshes and evictions

vars == <<node, reserve, heads, landing, reqs, resps, budget>>
stores == <<reserve, heads, landing>>

Event(e) == SetToBag({e})

\* Effects that are network operations; Settled is persistence.
NetFx(fx) == {e \in fx : e.op # "settled"}

AddFx(bag, fx) == bag (+) SetToBag(NetFx(fx))

Init ==
  /\ node = NewNode
  /\ reserve = Reserve0
  /\ heads = [k \in Keys |-> Max({0} \cup DOMAIN Reserve0[k])]
  /\ landing = Landing
  /\ reqs = EmptyBag
  /\ resps = EmptyBag
  /\ budget = [miss |-> MaxMiss, under |-> MaxUnder, gone |-> MaxGone, tick |-> MaxTick, evict |-> MaxEvict]

\* Feed one event: the node moves and its effects are dispatched.
Feed(result, pending) ==
  /\ node' = result.node
  /\ reqs' = AddFx(pending, result.fx)

Spend(what) == budget[what] > 0 /\ budget' = [budget EXCEPT ![what] = @ - 1]

-----------------------------------------------------------------------------
(* Topology and the shell's clock.                                         *)

SeePeer(p) ==
  /\ p \notin node.peers
  /\ Feed(PeerSeen(node, p), reqs)
  /\ UNCHANGED <<stores, resps, budget>>

LosePeer(p) ==
  /\ p \in node.peers
  /\ Spend("gone")
  /\ Feed(PeerGone(node, p), reqs)
  /\ UNCHANGED <<stores, resps>>

Refresh ==
  /\ Spend("tick")
  /\ Feed(Tick(node), reqs)
  /\ UNCHANGED <<stores, resps>>

-----------------------------------------------------------------------------
(* The neighbours.                                                         *)

Stored(k) == {reserve[k][b] : b \in DOMAIN reserve[k]}

Land(u) ==
  /\ u \in landing
  /\ landing' = landing \ {u}
  /\ LET k == <<u[1], u[2]>>
     IN /\ heads[k] < MaxBinId
        /\ heads' = [heads EXCEPT ![k] = @ + 1]
        /\ reserve' = [reserve EXCEPT ![k] = Put(@, heads[k] + 1, u[3])]
  /\ UNCHANGED <<node, reqs, resps, budget>>

Evict(k, b) ==
  /\ b \in DOMAIN reserve[k]
  /\ Spend("evict")
  /\ reserve' = [reserve EXCEPT ![k] = Without(@, {b})]
  /\ UNCHANGED <<node, heads, landing, reqs, resps>>

Answer(r, ev) ==
  /\ reqs' = reqs (-) Event(r)
  /\ resps' = resps (+) Event(ev)

ServeCursors(r) ==
  /\ r.op = "cursors"
  /\ Answer(r, [op |-> "cursors", peer |-> r.peer,
                heads |-> [b \in Bins |-> heads[<<r.peer, b>>]]])
  /\ UNCHANGED <<node, stores, budget>>

\* The first Page entries from start on.
PageFrom(k, start) ==
  LET range == {b \in DOMAIN reserve[k] : b >= start}
  IN {b \in range : Cardinality({x \in range : x <= b}) <= Page}

\* Topmost is the last entry of the page; if all that was there is evicted, the
\* last BinID that was given out, in an offer of nothing.
Topmost(k, start) ==
  IF PageFrom(k, start) = {} THEN heads[k] ELSE Max(PageFrom(k, start))

OfferAnswer(k, start, topmost) ==
  [op |-> "offer", key |-> k, start |-> start,
   refs |-> [b \in PageFrom(k, start) |-> reserve[k][b]], topmost |-> topmost]

\* An offer beyond the head of its bin stays parked.
OfferReady(r) == r.op = "offer" /\ r.start <= heads[<<r.peer, r.bin>>]

ServeOffer(r) ==
  /\ OfferReady(r)
  /\ LET k == <<r.peer, r.bin>>
     IN Answer(r, OfferAnswer(k, r.start, Topmost(k, r.start)))
  /\ UNCHANGED <<node, stores, budget>>

\* A peer that states less than its page covers, or less than it was asked for:
\* the case that the OfferResult arm guards against.
UnderstateOffer(r) ==
  /\ OfferReady(r)
  /\ Spend("under")
  /\ LET k == <<r.peer, r.bin>>
     IN \E top \in 0 .. Topmost(k, r.start) - 1 :
          Answer(r, OfferAnswer(k, r.start, top))
  /\ UNCHANGED <<node, stores>>

\* A peer serves what it holds in the requested bin, except the failed triples;
\* validation is the receiver's, and the same wherever the chunk came from.
FetchAnswer(r, failed) ==
  [op |-> "fetch", peer |-> r.peer,
   outcomes |-> [c \in r.want |->
     IF c \in failed \/ c \notin Stored(<<r.peer, r.bin>>) THEN "Missed"
     ELSE IF c \in Bad THEN "Rejected" ELSE "Delivered"]]

ServeFetch(r) ==
  /\ r.op = "fetch"
  /\ node.assigned[r.peer] < MaxAssigned
  /\ Answer(r, FetchAnswer(r, {}))
  /\ UNCHANGED <<node, stores, budget>>

\* Some of the wants, or all of them, time out.
MissFetch(r) ==
  /\ r.op = "fetch"
  /\ Spend("miss")
  /\ \E failed \in SUBSET r.want \ {{}} : Answer(r, FetchAnswer(r, failed))
  /\ UNCHANGED <<node, stores>>

-----------------------------------------------------------------------------
(* Answers reach the node in any order.                                    *)

Handle(e) ==
  CASE e.op = "cursors" -> CursorsResult(node, e.peer, e.heads)
    [] e.op = "offer" -> OfferResult(node, e.key, e.start, e.refs, e.topmost)
    [] e.op = "fetch" -> FetchResult(node, e.peer, e.outcomes)

Receive(e) ==
  /\ Feed(Handle(e), reqs)
  /\ resps' = resps (-) Event(e)
  /\ UNCHANGED <<stores, budget>>

Serve(r) == ServeCursors(r) \/ ServeOffer(r) \/ ServeFetch(r)

Next ==
  \/ \E p \in Peers : SeePeer(p)
  \/ \E p \in Peers : LosePeer(p)
  \/ Refresh
  \/ \E u \in landing : Land(u)
  \/ \E k \in Keys : \E b \in DOMAIN reserve[k] : Evict(k, b)
  \/ \E r \in BagToSet(reqs) : ServeCursors(r)
  \/ \E r \in BagToSet(reqs) : ServeOffer(r)
  \/ \E r \in BagToSet(reqs) : UnderstateOffer(r)
  \/ \E r \in BagToSet(reqs) : ServeFetch(r)
  \/ \E r \in BagToSet(reqs) : MissFetch(r)
  \/ \E e \in BagToSet(resps) : Receive(e)

\* Connected peers answer and answers arrive.  Departures, refreshes, faults
\* and evictions are never owed; uploads and first contact are.  The last
\* conjunct is weak fairness of Receive, which is enabled exactly while an
\* answer is in flight.
Fairness ==
  /\ \A p \in Peers : WF_vars(SeePeer(p))
  /\ WF_vars(\E u \in landing : Land(u))
  /\ WF_vars(\E r \in BagToSet(reqs) : Serve(r))
  /\ []<>(resps = EmptyBag) \/ []<><<\E e \in BagToSet(resps) : Receive(e)>>_vars

Spec == Init /\ [][Next]_vars /\ Fairness

-----------------------------------------------------------------------------
(* Properties.                                                             *)

CopiesOf(e, bag) == IF BagIn(e, bag) THEN bag[e] ELSE 0

Copies(e) == CopiesOf(e, reqs) + CopiesOf(e, resps)

OffersFor(k) ==
  {e \in BagToSet(reqs) : e.op = "offer" /\ e.peer = k[1] /\ e.bin = k[2]}
  \cup {e \in BagToSet(resps) : e.op = "offer" /\ e.key = k}

FetchesFor(c, p) ==
  {e \in BagToSet(reqs) : e.op = "fetch" /\ e.peer = p /\ c \in e.want}
  \cup {e \in BagToSet(resps) : e.op = "fetch" /\ e.peer = p /\ c \in DOMAIN e.outcomes}

\* The machine's own check_invariants, after every event of the node.
MachineSafe ==
  LET m == node.m
  IN /\ ~m.conflict
     /\ m.ndeliv + m.npre = Cardinality(m.got)
     /\ \A c \in Chunks : /\ Cardinality(m.want[c]) <= 1
                          /\ m.want[c] \subseteq m.holders[c] \ m.excluded[c]

\* Settle before you forget, end to end: whatever a peer still stores at or
\* below the interval this node holds for it is stored here or rejected.
SettleBeforeForget ==
  \A k \in DOMAIN node.logs : \A b \in DOMAIN reserve[k] :
    b <= node.logs[k].interval => reserve[k][b] \in Done(node)

\* Every lease is on its way to an end: some fetch for it is in flight, so its
\* result will deliver it, fail it over or reject it.
LeaseBacked ==
  \A c \in Chunks : \A p \in node.m.want[c] : FetchesFor(c, p) # {}

\* The assertion in the FetchResult arm: a payload that arrives is always one
\* the node is still leasing from that peer.
DeliveryLeased ==
  \A e \in BagToSet(resps) : e.op = "fetch" =>
    \A c \in DOMAIN e.outcomes :
      e.outcomes[c] = "Delivered" => e.peer \in node.m.want[c]

\* One open offer per (peer, bin): the flag is set exactly while one offer, and
\* only one, is in flight.
OneOffer ==
  \A k \in Keys :
    /\ k \in node.offer_open <=> OffersFor(k) # {}
    /\ Cardinality(OffersFor(k)) <= 1
    /\ \A e \in OffersFor(k) : Copies(e) = 1

\* The working set tracks the open windows.
WorkingSetWindowed == DOMAIN node.bin_of \subseteq Windowed(node)

\* Nothing is stored except out of a lease, once, whatever the order of events.
StatusOf(c) ==
  IF c \in node.m.got THEN <<"got">>
  ELSE IF c \in node.m.rejected THEN <<"rejected">>
  ELSE IF node.m.want[c] # {} THEN <<"leased", CHOOSE p \in node.m.want[c] : TRUE>>
  ELSE <<"idle">>

Abstract == INSTANCE ExactlyOnce
  WITH status <- [c \in Chunks |-> StatusOf(c)], deliveries <- node.m.ndeliv

ImplementsExactlyOnce == Abstract!Spec

\* Convergence, in every order of delivery: in the end every valid chunk of a
\* synced bin is stored, every invalid one rejected, and every interval stands
\* at its peer's head, for good.
Synced == {k \in Keys : k[2] >= Radius}

Converged ==
  /\ \A k \in Synced : Stored(k) \subseteq Done(node)
  /\ node.m.got \cap Bad = {}
  /\ \A k \in Synced : k \in DOMAIN node.logs /\ node.logs[k].interval = heads[k]

Converges == <>[]Converged
=============================================================================
