-------------------------------- MODULE Node --------------------------------
(***************************************************************************)
(* The pull-sync node core, crates/node/src/lib.rs and discovery.rs.       *)
(*                                                                         *)
(* Node::handle is a function from a node and an event to a node and the   *)
(* effects it emits, and so is Handle here: it yields a record             *)
(* [node |-> n, fx |-> effects].  Every arm except the three discovery     *)
(* ones ends in Round, as in the code.                                     *)
(*                                                                         *)
(* One event emits no effect twice, so the effects are a set; the order of *)
(* the Vec is Session's, whose queue it reaches.  Peers, bins and chunks   *)
(* are integers, because the policy breaks ties by their order.  A Vec of  *)
(* (key, value) pairs without repeated keys is a function; the order of    *)
(* triples inside one Fetch is left out.                                   *)
(***************************************************************************)
EXTENDS PullState

CONSTANTS
  Bins,         \* the wire bins peers report
  MaxBinId,     \* the largest BinID
  Cfg,          \* the machine configuration
  Radius,       \* bins below it are not synced
  Cumulative,   \* Policy::cumulative_routing
  WindowCap     \* Policy::window

INSTANCE PeerBinLog WITH Triples <- Chunks

ASSUME NodeConstants ==
  /\ Peers \subseteq Nat /\ Bins \subseteq Nat /\ Chunks \subseteq Nat
  /\ IsFiniteSet(Peers)
  /\ MaxBinId \in Nat
  /\ Cfg \in Config
  /\ Radius \in Nat
  /\ Cumulative \in BOOLEAN
  /\ WindowCap \in Nat \ {0}

Keys == Peers \X Bins

GetCursors(p) == [op |-> "cursors", peer |-> p]
Offer(k, start) == [op |-> "offer", peer |-> k[1], bin |-> k[2], start |-> start]
Fetch(k, want) == [op |-> "fetch", peer |-> k[1], bin |-> k[2], want |-> want]
SettledFx(k, upto) == [op |-> "settled", peer |-> k[1], bin |-> k[2], upto |-> upto]

Outcomes == {"Delivered", "Rejected", "Missed"}

Partial(D, R) == UNION {[S -> R] : S \in SUBSET D}

NodeState ==
  [m : State, peers : SUBSET Peers,
   cursors : [Keys -> BinIds],           \* an absent cursor reads as 0
   logs : Partial(Keys, Log),
   bin_of : Partial(Chunks, Bins),
   assigned : [Peers -> Nat],
   offer_open : SUBSET Keys]

NewNode ==
  [m |-> New(Cfg), peers |-> {},
   cursors |-> [k \in Keys |-> 0],
   logs |-> [k \in {} |-> NewLog],
   bin_of |-> [c \in {} |-> 0],
   assigned |-> [p \in Peers |-> 0],
   offer_open |-> {}]

\* Mutant of TryOpen: the flag is not consulted.
TryOpenAlways(n, k) == TRUE

\* Discovery::try_open: whether an offer for k would be newly opened.
TryOpen(n, k) == k \notin n.offer_open

Put(f, x, v) == [y \in DOMAIN f \cup {x} |-> IF y = x THEN v ELSE f[y]]

Without(f, S) == [y \in DOMAIN f \ S |-> f[y]]

-----------------------------------------------------------------------------
(* The round: settle, prune, reset, schedule.                              *)

Done(n) == n.m.got \cup n.m.rejected

\* 1. Advance every log; re-open the offer of a log whose coverage is used up.
Settle(n) ==
  LET logs == [k \in DOMAIN n.logs |-> Advance(n.logs[k], Done(n))]
      moved == {k \in DOMAIN logs : Advanced(n.logs[k], Done(n))}
      opens == {k \in DOMAIN logs : /\ NextStart(logs[k]) > logs[k].topmost
                                    /\ k[1] \in n.peers
                                    /\ TryOpen(n, k)}
  IN [node |-> [n EXCEPT !.logs = logs, !.offer_open = @ \cup opens],
      fx |-> {SettledFx(k, logs[k].interval) : k \in moved}
             \cup {Offer(k, NextStart(logs[k])) : k \in opens}]

WindowOf(log) == {log.entries[b] : b \in DOMAIN log.entries}

Windowed(n) == UNION {WindowOf(n.logs[k]) : k \in DOMAIN n.logs}

\* Mutant of Prune: settled ids stay in the working set.
PruneNothing(n) == n

\* 2. Settled ids that left every window leave the scheduling maps.
Prune(n) ==
  LET done == {c \in DOMAIN n.bin_of : c \in Done(n) /\ c \notin Windowed(n)}
  IN [n EXCEPT !.m = ForEach(@, done, Forget),
               !.bin_of = Without(@, done)]

\* Mutant of Reset: exhausted bars stay.
ResetNothing(n) == n

\* 3. Bars that cover every holder clear.
Reset(n) ==
  [n EXCEPT !.m = ForEach(@, DOMAIN n.bin_of, ResetExcluded)]

BinOf(n, c) == IF c \in DOMAIN n.bin_of THEN n.bin_of[c] ELSE 0

\* Mutant of Committed: leases of earlier rounds are fetched again.
CommittedEver(before, n, p, bin) ==
  {c \in Chunks : p \in n.m.want[c] /\ BinOf(n, c) = bin}

\* What this round has already handed to p in one bin.
Committed(before, n, p, bin) ==
  {c \in Chunks : p \in n.m.want[c] \ before.m.want[c] /\ BinOf(n, c) = bin}

RouteKey(n, p) ==
  <<IF Cumulative THEN n.assigned[p] ELSE 0, Load(n.m, p), p>>

RouteBefore(r, s) ==
  \/ r[1] < s[1]
  \/ r[1] = s[1] /\ r[2] < s[2]
  \/ r[1] = s[1] /\ r[2] = s[2] /\ r[3] < s[3]

\* One turn of the loop: the deepest, then lowest, chunk with a want that has
\* window budget left, on its least assigned holder.
ScheduleOne(before, n) ==
  LET enabled == {w \in EnabledWants(n.m) :
                    Cardinality(Committed(before, n, w[2], BinOf(n, w[1]))) < WindowCap}
      c == CHOOSE x \in {w[1] : w \in enabled} :
             \A y \in {w[1] : w \in enabled} :
               \/ BinOf(n, y) < BinOf(n, x)
               \/ BinOf(n, y) = BinOf(n, x) /\ x <= y
      holders == {w[2] : w \in {v \in enabled : v[1] = c}}
      p == CHOOSE q \in holders :
             \A r \in holders \ {q} : RouteBefore(RouteKey(n, q), RouteKey(n, r))
  IN IF enabled = {} THEN n
     ELSE [n EXCEPT !.m = Want(@, c, p), !.assigned[p] = @ + 1]

\* 4. Turns until no want is enabled: each one adds a lease, so there are at
\* most as many as there are (chunk, peer) pairs.
Turns == Cardinality(Chunks) * Cardinality(Peers)

Scheduled(n) ==
  LET after[t \in 0 .. Turns] == IF t = 0 THEN n ELSE ScheduleOne(n, after[t - 1])
  IN after[Turns]

Schedule(n) ==
  LET done == Scheduled(n)
      batch(k) == Committed(n, done, k[1], k[2])
  IN [node |-> done,
      fx |-> {Fetch(k, batch(k)) : k \in {l \in Keys : batch(l) # {}}}]

Round(n) ==
  LET settled == Settle(n)
      scheduled == Schedule(Reset(Prune(settled.node)))
  IN [node |-> scheduled.node, fx |-> settled.fx \cup scheduled.fx]

-----------------------------------------------------------------------------
(* The event arms of Node::handle.                                         *)

Quiet(n) == [node |-> n, fx |-> {}]

PeerSeen(n, p) ==
  IF p \in n.peers THEN Quiet(n)
  ELSE [node |-> [n EXCEPT !.peers = @ \cup {p}], fx |-> {GetCursors(p)}]

PeerGone(n, p) ==
  LET keys == {k \in Keys : k[1] = p}
      lost == HeldBy(n.m, p) \cup ClaimsOf(n.m, p)
  IN Round([n EXCEPT
       !.peers = @ \ {p},
       !.m = ForEach(@, lost, LAMBDA m, c : LoseHolder(m, c, p)),
       !.logs = Without(@, keys),
       !.cursors = [k \in Keys |-> IF k \in keys THEN 0 ELSE @[k]],
       !.offer_open = @ \ keys])

\* heads: the per-bin heads the peer reported, a function on some bins.
CursorsResult(n, p, heads) ==
  LET synced == {k \in Keys : k[1] = p /\ k[2] \in DOMAIN heads /\ k[2] >= Radius}
      logs == [k \in DOMAIN n.logs \cup synced |->
                 IF k \in DOMAIN n.logs THEN n.logs[k] ELSE NewLog]
      opens == {k \in synced : TryOpen(n, k)}
  IN [node |-> [n EXCEPT
        !.cursors = [k \in Keys |-> IF k \in synced THEN heads[k[2]] ELSE @[k]],
        !.logs = logs,
        !.offer_open = @ \cup opens],
      fx |-> {Offer(k, NextStart(logs[k])) : k \in opens}]

\* An offered chunk: holder, priority, arrival.  The first of its BinIDs tells
\* whether it is past the cursor.
Arrive(m, c, k, refs, cursor) ==
  LET seen == SetPrio(ObserveHolder(m, c, k[1]), c, k[2])
  IN IF \E b \in DOMAIN refs : refs[b] = c /\ b <= cursor
     THEN ArriveHist(seen, c) ELSE ArriveLive(seen, c)

\* The diff of an answer: covered, and without the entries it no longer names.
Diffed(n, k, start, refs, topmost) ==
  LET old == IF k \in DOMAIN n.logs THEN n.logs[k] ELSE NewLog
      covered == Cover(old, BinIdMax(topmost, start))
      lost == {b \in DOMAIN covered.entries :
                 b >= start /\ b <= topmost /\ b \notin DOMAIN refs}
  IN [n EXCEPT
        !.offer_open = @ \ {k},
        !.logs = Put(@, k, [covered EXCEPT !.entries = Without(@, lost)]),
        !.m = ForEach(@, {covered.entries[b] : b \in lost},
                      LAMBDA m, c : LoseHolder(m, c, k[1]))]

\* The ingest of its entries: windows, bins, holders and arrivals.
Ingested(n, k, refs) ==
  LET named == {refs[b] : b \in DOMAIN refs}
  IN [n EXCEPT
        !.logs[k] = ObserveAll(@, refs),
        !.bin_of = [c \in DOMAIN @ \cup named |-> IF c \in named THEN k[2] ELSE @[c]],
        !.m = ForEach(@, named, LAMBDA m, c : Arrive(m, c, k, refs, n.cursors[k]))]

\* refs: the offered entries, a function from BinIDs to chunks.
OfferResult(n, k, start, refs, topmost) ==
  Round(Ingested(Diffed(n, k, start, refs, topmost), k, refs))

Tick(n) ==
  LET opens == {k \in DOMAIN n.logs : k[1] \in n.peers /\ TryOpen(n, k)}
  IN [node |-> [n EXCEPT !.offer_open = @ \cup opens],
      fx |-> {Offer(k, NextStart(n.logs[k])) : k \in opens}]

\* Mutant of Apply: a miss is taken for no news.
ApplyMissIgnored(m, c, p, outcome) ==
  CASE outcome = "Delivered" -> Deliver(m, c, p)
    [] outcome = "Rejected" -> Reject(m, c)
    [] outcome = "Missed" -> m

Apply(m, c, p, outcome) ==
  CASE outcome = "Delivered" -> Deliver(m, c, p)
    [] outcome = "Rejected" -> Reject(m, c)
    [] outcome = "Missed" -> Stall(m, c, p)

\* outcomes: what the shell reports, a function on some of the wanted triples.
FetchResult(n, p, outcomes) ==
  Round([n EXCEPT
    !.m = ForEach(@, DOMAIN outcomes, LAMBDA m, c : Apply(m, c, p, outcomes[c]))])
=============================================================================
