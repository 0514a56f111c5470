# Melissi: a TLA+ verification of the pull-sync node

Melissi is a pull-sync client for Swarm: it learns what the peers of its
neighbourhood hold, fetches what it lacks, exactly once, and remembers per
(peer, bin) how far it has come. This directory models that core in TLA+, checks
it with TLC on small instances, and proves the parts that hold for every
instance with TLAPS. Paths below are relative to `src/crates/`.

## 1. The system

| Component | State | Operations | Talks to |
|---|---|---|---|
| Scheduling machine, `machine/src/lib.rs` | lease table `want`, `holders`, bars `excluded`, `arrived`, `live`, terminal `got` and `rejected`, `prio`, tripwires `conflict`, `ndeliv`, `npre` | observe/lose holder, arrive, want, deliver, stall, reject, reset, forget | called by the node only |
| Interval settlement, `settlement/src/lib.rs` | per (peer, bin): interval, topmost, window of offered entries | observe, cover, forget_entry, advance | called by the node only |
| Node core, `node/src/lib.rs`, `discovery.rs` | a machine, logs, cursors, `bin_of`, cumulative assignments, `offer_open` | `handle(event)` with seven arms, most of them ending in `round` | takes events, returns effects |
| Session and `drive`, `wire/src/session.rs` | node, queue of effects, settled high-waters | next_op, feed, take_settled, drive | one `OpRunner` |
| Wire adapter, `wire/src/adapter.rs` | FetchClient, OfferClient, CursorsClient, ServerStream | poll, close | byte streams |
| Carrier, `net/src/pullsync.rs`, `net/src/runtime.rs` | open streams, list of neighbours | run_op, pump, pull_from, assemble_and_pull | libp2p |
| Explorer, `machine/src/explore.rs`; simulation, `sim/src/lib.rs` | environments: budgets, reserves, messages in flight | | the machine; nodes |
| Handshake, `net/src/handshake.rs`, `net/src/transport.rs` | step, buffer, verified peer | poll, drive_handshake | one stream; called by the runtime |
| Runtime and command line, `net/src/runtime.rs`, `net/src/bin/pull.rs`, with `pricing.rs` and `underlay.rs` | tasks, acceptors, discovered and active peers, their numbers | run, pull_direct, serve, accept_hive_push, select_neighbours, pull, learn_peer_overlay | libp2p, bees, the session |
| Neighbourhood, `neighbourhood/src/lib.rs` | how many are known and connected | discover, connect | an abstract model of the assembly |
| Hive, `net/src/hive.rs` | buffer, verified peers | feed, receive_peers, broadcast_frames | runtime |
| dnsaddr, `net/src/dnsaddr.rs` | queue, visited, out | resolve_with, tcp_bootnodes | DNS; called by the command line |
| Codec, `wire/src/codec.rs`, `postage.rs`, `pb.rs` | the keeper's chunks | mint, triple_of_delivery, validate, bit vectors | adapter |
| Overlay, `overlay/src/lib.rs` | none | proximity, is_neighbour, in_reserve | runtime |
| Protobuf, crypto | none | pure functions | codec, handshake |

What is hard here:

- **Order.** The node's answers come back in any order. The shipped driver is
  sequential; `docs/architecture.md` plans a concurrent one and argues that no
  order can do harm. Departures and returns make the argument delicate: an
  answer may belong to an earlier life of its peer.
- **Partial failure.** Streams fail to open, end in the middle, or end before
  the first answer, and each of these takes another path through `run_op`,
  `failure_event` and `drive`.
- **Stale positions.** The wire carries no BinIDs. Offers are numbered by
  position and a fetch re-offers from the settled high-water, while the peer's
  reserve grows and is evicted.
- **Forgetting.** Logs forget settled entries, the machine forgets settled ids,
  and the high-water that is persisted must never skip what is unsettled.
- **Callbacks.** A bee that has just shaken hands announces its price, dials back
  and gossips, on streams of its own: what it finds depends on which tasks of the
  runtime have started.
- **Progress.** A bar on the last holder is cleared and tried again, a live
  offer blocks until something arrives, a window cap limits each round.

The properties that make each part correct: for the machine, exclusive leases on
current unbarred holders, exactly-once delivery, terminal verdicts, bars that
only misbehaviour earns, and no chunk stranded; for settlement, settle before you
forget, monotone and complete advance; for the node, those two end to end, one
offer per (peer, bin), every lease backed by a fetch, and convergence; for the
session, a durable high-water that never skips, leases matched by queued fetches,
and termination; for a stream, one outcome per want, and the right one; for the
handshake, a verified peer of the same network, and two ends that agree; for the
codec, a verdict that no holder can change; for the assembly, a supply that is
what a push named and a handshake proved, operations that reach the peer they are
for, and a run that ends.

`PROJECT.json` lists the hazards line by line with the properties aimed at them.

## 2. The modules

| Module | Models | Uses |
|---|---|---|
| `PullState` | `machine/src/lib.rs` as a data type: a record and one operator per method | |
| `PullMachine` | the machine under any sequence of calls, and its properties | `PullState`, `ExactlyOnce` |
| `ExactlyOnce` | abstract promise: idle, leased, got, rejected, and a count of deliveries | |
| `Explore` | the machine among honest and Byzantine peers, timeouts and churn | `PullMachine` |
| `PeerBinLog` | `settlement/src/lib.rs` as a data type | |
| `Settlement` | one log under any sequence of calls | `PeerBinLog` |
| `Node` | `Node::handle` as a function from node and event to node and effects | `PullState`, `PeerBinLog` |
| `PullNet` | one node, its peers, and all messages in flight at once | `Node`, `ExactlyOnce` |
| `Session` | the session, `drive`, and the legacy stream coupling | `Node` |
| `Codec` | minting, stamps, validation and bit vectors of the wire | |
| `FetchStream` | one delivery stream, frame by frame, client and server | `Codec` |
| `Overlay` | proximity, neighbours, reserve, the search for a nonce | |
| `Dnsaddr` | the resolution of names | |
| `Neighbourhood` | abstract: the crate of that name, counts of known and connected peers | |
| `Assembly` | a whole run of the command line and the bees it meets | `Dnsaddr`, `Overlay`, `Neighbourhood` |
| `Handshake` | both roles of the handshake over one stream, read in pieces | |
| `PullMachineProofs` | theorems about the machine, alone and among honest and Byzantine peers | `Explore` |
| `FetchStreamProofs` | theorems about what a fetch reports | `FetchStream` |
| `SettlementProofs` | theorems about the log, as a data type and under any sequence of calls | `Settlement` |
| `NodeProofs` | what each part of `Node` does, as lemmas | `Node` |
| `PullNetProofs` | theorems about the node among its peers | `PullNet`, `NodeProofs` |
| `SessionProofs` | theorems about the session and `drive` | `Session`, `NodeProofs` |
| `HandshakeProofs` | theorems about the handshake | `Handshake` |
| `AssemblyProofs` | theorems about locality, the resolution of names and a run of melissi-pull | `Assembly`, and with it `Overlay`, `Dnsaddr` and `Neighbourhood` |
| `MC...` | instances for TLC | |

**Correspondence.** Operators keep the names of the methods in CamelCase; the
fields of the records are the fields of the structs. Maps from ids to sets of
peers are total functions, because the code removes a key whose set became empty.
A method that returns `false` changes nothing, and so does its operator; in the
state machines it is then a stutter. `Node` composes the two data types without
rewriting them: `Round` is Settle, Prune, Reset, Schedule, in the code's order, and
`Schedule` resolves the choice of want by the code's policy (deepest bin, lowest
chunk, least assigned, least loaded, lowest peer), so there is no nondeterminism
in the node. The map in `PROJECT.json` gives the lines of every definition.

A loop of the code over ids, such as the one over the outcomes of a fetch, is
`ForEach`: each call of it reads and writes the entries of its own id and moves the
counters by its own share, so the order does not matter and the result can be
written down field by field, without a fold. `ObserveAll` does the same for the
entries of one offer. Where a loop builds something step by step, as the turns of
`Scheduled`, the bits of a Want or the filters of `Among`, it is a recursive function
of the number of turns.
One event emits no effect twice, so the effects of an event are a set; `Session`
puts them into the order of the code's Vec (`InOrder`) before they join the queue.
`heads` in `PullNet` is the last BinID a peer gave out: it survives the eviction of
the entry, as a counter in a peer's store does.

**Abstractions.** Chunks, peers and bins are small integers, since the policy
compares them; identities and payloads are opaque. In `PullNet` and `Session` a
chunk is valid or bad, the same at every holder: that validation of an address,
data and a stamp amounts to this is what `VerdictsGlobal` checks. The order of triples inside one Fetch is left out. In `FetchStream` a
frame is decoded whole. In `Session` one operation is one step, because nothing
else runs while `drive` awaits it; `FetchStream` is what happens inside such a
step. `Advance` is written in closed form; `AdvanceLoop` is the code's loop, and
`AdvanceIsLoop` compares the two on every reachable log. `NextStart` keeps the wrap of the u64
addition.

In `Handshake` a frame is a row of pieces, so that a read may end inside it. An
identity is reduced to two networks, the one a node runs on and the one its address
is signed for: verification recovers a key that derives the overlay only if the
signed network id is the one that is checked. The observed underlay is carried and
not examined by the code, so it is left out; `observed_of` makes sure that there
always is one, and a Syn without it would be dropped by the encoding. Any frame
reads as a Syn. An Ack is one or is not: two ends that run this code never send
anything else, which `Origin` in the proofs establishes.

In `Codec` hashes and signatures are free constructors: a digest is the record of
what was hashed, a signature of who signed what, and recovery from a signature that
does not parse gives nobody. Equal results thus have equal arguments, which is
collision resistance. A byte has `ByteBits` bits, so that small offers cross a byte
boundary. A rogue server may pair the address, data and stamp of any entries.

In `Assembly` an address is the sequence of its bits and a signed address verifies
if its signature is over its own overlay and underlay. Other nodes are willing, declining or down
for a whole run. `open_stream` may fail at any attempt, since the connection may
not be there yet. The runtime has several threads and spawning does not wait, so
tasks start in any order. Bees are external: after a handshake they open a pricing
stream and dial back, and drop a peer at which either finds no acceptor
(`pricing.rs` and the comments of `serve` and `pull_direct` say so); they push at any time, to
peers within their storage depth. We present ourselves as a full node. Our own
nonces are a fixed sequence of overlays.

**The environment.** `PullNet` takes the simulation's network: a peer takes its
snapshot when it serves a request, the answer may be delivered any time later, an
offer beyond the head of its bin parks until the bin grows, offers are paged. If all
that was left from the start of an offer on is evicted, the answer names nothing, as
`ServerStream` does (`adapter.rs:370`). And a server may state a smaller Topmost than
its page covers, or than it was asked for, which is what the OfferResult arm guards
against (`node/src/lib.rs:248`); `Session` has such a server too, and blocks on an
empty page. Departures,
refreshes, evictions and uploads come from it or from the node's test harness
(`node/tests/schedule.rs`). Fetches are served per bin, as the wire adapter serves
them; the simulation looks a chunk up in all bins. In `net_order` two peers file a
chunk in different bins, as peers with overlays of their own do: the node keeps one
bin per chunk, and a fetch from the other peer's bin is missed.

Definitions marked "Mutant of" are plausible bugs: each property has been seen to
fail with one of them in place of the definition it follows.

## 3. The runs

| Run | Instance | Shows |
|---|---|---|
| `machine` | 2 chunks, 2 peers, 2 depths, production configuration | every order of calls: exclusive live leases, exact delivery count, terminal verdicts, bars that stick, `forget` neutral for other ids, refinement of `ExactlyOnce` |
| `explore` | 3 chunks, 4 peers of which one Byzantine, 1 spurious timeout, 1 holder change, 1 late arrival, priorities | nobody is barred without a stall; no chunk is stranded; every chunk is stored |
| `settlement` | 2 triples, BinIDs 0 to 4, every numbering and every resume point, the largest BinID too | settle before forget, no obligation lost, monotone, the advance is what the loop computes |
| `net_order` | 2 peers that file a chunk in different bins, 3 bins (one below the radius), 3 chunks (one bad), an upload, page 1, 2 misses, an understated offer | in every order of answers: settle before forget end to end, the lease assertion, one offer per key, a bounded working set, convergence |
| `net_churn` | 2 peers, 1 bin, a departure (and return), a refresh, an eviction, an understated offer | the machine invariants, settlement, backed leases and refinement of `ExactlyOnce`, with answers from an earlier life of a peer |
| `session` | 2 peers, 3 bins, 4 chunks, page 2 with gaps, an upload, an understated offer, 2 failed or cut, 1 dropped, 1 closed, 1 abandoned operation, 1 eviction | what is persisted is settled; leases and queued fetches match; when `drive` returns everything is here; it returns |
| `fetch_stream` | both codecs, 4 entries of 3 payloads, 2 owners and 2 batches, page 3, bytes of 2 bits, evictions, an end at any frame, an honest server or one that mixes addresses, data and stamps | one outcome per want, the one every holder would earn; an honest fetch gets what it asked for, and ends |
| `handshake` | 2 networks, every pair of identities, frames of 3 pieces, a reset at any time | success only with a verified peer of the same network; a responder that is done has a partner that does not report failure; both sides return, with success if they are compatible and the stream holds |
| `assembly` | both modes, a bootnode and 2 peers in every state, 5 zones (a cycle, a shortcut, two names of one domain, a missing name, no usable address), 3 lists to push (names that come twice, forged, without an id), batches of 2, numbers up to 2, builds with and without overflow checks | resolution finds what the zone leads to; the supply is exact, in the order of the push; a direct pull whose tasks run is kept; operations reach their peers as far as the numbers go; every run ends; the assembly implements `Neighbourhood` |
| `session_dropped_offer` | one dropped offer | an offer is marked open that nothing will answer |
| `session_page_shift` | full pages, no faults at all | an honest peer is barred |
| `fetch_stream_closed` | an end before the offer | a fetch is over without outcomes |

**Bounds.** Two peers are enough for a failover, an offer by another peer and a
race of two answers; the third and fourth in `explore` make bars that cover some
holders only. Two chunks of different depth make the priority guard bite, a third
one makes a page overflow. `MaxBinId` leaves room for gaps at the bottom, inside and
at the end of a log. A fault has a budget of one or two, since most hazards need
one and the interesting races two. `MaxAssigned` bounds the cumulative routing
counter, which otherwise grows for ever when a chunk without a holder is tried
again; in `net_order` and, as long as nothing is evicted, in `session` it is out of
reach, so the liveness properties do not depend on it. Uploads and evictions are
not combined in one `PullNet` instance; `Session` combines them. In `assembly` the
longest push names the two peers of the tile twice each, so that it takes three
batches and, if all are met, has one entry more than there are numbers: a build that
checks overflows panics, and in one that does not the last entry aliases the first.
`MaxDepth` is 3, where the zone with the shortcut tells breadth-first from
depth-first. Deadlock is
checked where calls are always possible (`machine`, `settlement`) and not where
the system comes to rest: all chunks stored, only parked offers left, the queue
empty, or the stream over.

**Fairness.** `Explore`: the shell reschedules while a want is enabled, an honest
peer answers, a silent one is timed out, uploads land; spurious timeouts and churn
are never owed. These are the assumptions under which `machine/tests/parity.rs`
reads a cycle as a failure. `PullNet`: connected peers answer and answers arrive,
since streams are reliable or fail visibly; faults are not owed. `Session`: `drive`
keeps turning, and a parked stream is answered or ends. Nothing in `pump` bounds
the time it waits, so this last one is an assumption about the peers, not a
promise of the code. `FetchStream` and `Handshake`: both ends are polled while they have input; nobody
owes a break. `Assembly`: main is polled while it can go on, spawned tasks start,
and the caller's clock runs out, which covers `run` and `pull_direct`. Before them
there is no clock, and a lookup or a handshake that is neither answered nor fails
would hold up the program: that it ends is assumed of the network. Bees owe nothing.
Weak fairness is written out as a disjunction of infinitely-often formulas where
TLC's evaluation of ENABLED would be too slow; the comments say so.

**What the failing runs show.** They are places where a comment, a document or an
assertion says more than the code does; `findings` quotes both sides. None breaks
exactly-once delivery or the durable high-water: `net_churn` and `session` check
those with the same faults. The two with lasting effect are the closed fetch,
whose leases are never released, and the dropped offer, after which the bin is
never offered again in that session.

**Met while modelling, without a run of its own.**

- A payload in flight when its peer departs arrives without a lease and fails the
  assertion of `node/src/lib.rs:308` in a debug build. `net_churn` shows that
  ignoring it, as a release build does, is harmless.
- `run` has no pricing acceptor, so a bee it met drops it at the first
  announcement; only `pull_direct` spawns one. And `pull_direct` spawns it before the
  handshake without waiting for it to start ("Live before the handshake so the
  acceptor is ready", `net/src/runtime.rs:515`), so a bee that is quick enough drops
  it. `DirectKept` says that this is the only way: every loss happens while a task
  has not started.
- `run` takes one push. One that comes before `accept_hive_push` is lost, one that
  breaks off counts as complete, and the bootnode, although connected, is pulled
  from only if the push names it.
- `is_neighbour` leaves it to the caller to exclude its own overlay
  (`overlay/src/lib.rs:101`); neither `select_neighbours` nor `pull` does.
- The overlay that a push names is used to select a peer; the handshake's own
  result is not compared with it.
- The discovery mode validates with `MintedCodec` over its own secret, so chunks of
  other owners are rejected.

## 4. The proofs

All theorems are checked by TLAPS to the last leaf, for every value of the
constants that meets the named assumptions: finitely many chunks and peers, which
are naturals where the policy compares them, depths that are naturals,
configurations that are records of switches, a natural `MaxBinId`, a window and a
page of at least one, reserves numbered from 1, finitely many bins and natural fault
budgets in a session, an honest holder for every chunk of
the explorer's initial supply, frames of at least one piece, finitely many entries,
each minted from its data and a stamp that parses, whoever signed it, bytes of at
least one bit, pushes that are lists of addresses whose underlay is a peer or cannot
be dialed, and zones that give a list of records to some of the domains.

`PullMachineProofs` proves `TypeCorrect`, `NoConflict`, `FloorHolds`, `LeasesSound`,
`BarsOutliveChurn` and `ForgettingIsNeutral`. `LeaseSafe` is the conjunction of
`DedupInv`, `ClaimsLive`, `LeasedOpen` and `RejectedClosed`. Exactly-once is not
inductive alone: that `deliver` finds its id not stored yet needs that a lease is on
an open id (`LeasedOpen`); that needs leases to be exclusive (`DedupInv`), or another
lease would survive the delivery; and that `want` never finds a rejected id needs
`RejectedClosed`. `IInv` is the conjunction of these with the type invariant,
`ClaimsLive` and the delivery count, which follows from "one more stored id per
delivery" with the cardinality theorems. There is a lemma per group of actions. The
ablations are covered, since `dedup` is the only switch the argument needs and the
properties are conditional on it. That forgetting is neutral for other ids comes
from `SettledYields`: a settled id never holds back another one in the priority
guard, so dropping its holders changes no guard.

`Refinement`, in the same module, says that the machine implements `ExactlyOnce` if
all configurations have `dedup`. The mapping reads a chunk's status off `got`,
`rejected` and `want`; each action moves at most one chunk, from idle or from its
lease.

The same module takes these invariants into the explorer's world (`WorldSafe`) and
proves what its environment adds: churn leaves an honest holder (`SupplyHolds`),
nobody but a Byzantine peer is barred while no timeout was spurious
(`OnlyByzantineBarred`), honest peers carry no more bars than there were spurious
timeouts (`BlameBounded`), and an open id always has a way on (`AlwaysAWayOn`). The
last one is `SupplyHolds` and the exact guard of `reset_excluded`: if every holder
is barred, the bars may be cleared.

`NodeProofs` has no theorem of a specification; it states what `Settle`, `Prune`,
`Reset`, `Schedule` and every arm of `handle` do, in the shape the next module needs
(`Rounded`, `DiffedTo`, `IngestedTo`, `Lost`, `Offered`, `Reported`). The loop of
`Schedule` is handled by its least counterexample: were there a turn after which the
leases were wrong, there would be a first one.

`PullNetProofs` proves every invariant that the two `PullNet` runs check, for any
number of peers, bins and chunks, any page and window, and any budget of faults.

- *Settlement.* `SettledBeforeForgotten` is unconditional. Its invariant `NetInv`
  says for each log that whatever its peer stores in the covered range is settled or
  in the window under its own BinID (`Owes`), and for the messages in flight that an
  offer skips nothing that is still owed (`Asked`) and that its answer names all that
  the peer still stores in its range (`Answered`). The range of an answer reaches as
  far as it covers or names anything (`Spans`), so an understated Topmost and an offer
  of nothing are answers like any other. The messages are needed because an
  answer is applied long after it was taken, to a log that may be a new one of a
  returned peer: what makes it safe is that BinIDs are never reused and that settled
  ids stay settled.
- *Exactly once.* `MachineStaysSafe` and `NetImplementsExactlyOnce`, with `dedup`.
  The invariant is `Exclusive`, the node's counterpart of `IInv`. An event may move
  many chunks at once, which `ExactlyOnce` allows, and the count of deliveries moves
  by as many as become stored (`Delivers`).
- *Claims and carriers.* Open-offer flags and leases are the same thing to the
  proofs: claims that a message in flight will end. `Backed` says that every claim
  has a carrier, `Single` that every carrier is one copy of one message for a claim
  that is held. `BackedStep` and `SingleStep` are proved once for any claims, and
  each event says which claims it takes up, ends or drops. `Backed` survives
  everything: `LeasesAreBacked`, with `dedup` and `failover`. `Single` does not
  survive a dropped claim, since its carrier is then still on its way.
- *Until the first departure or eviction.* Hence `OneOfferOpen` holds until a peer
  departs (`NoneGone`), `DeliveriesAreLeased` and `WorkingSetIsWindowed` until a peer
  departs or evicts (`Untouched`). Refreshes, uploads, misses and bad chunks are all
  allowed. The hypotheses say what the code relies on: after a departure the peer's
  flags are forgotten while its offer is parked (a second one is opened when it
  returns), and an eviction is diffed out of the window while the lease's fetch is in
  flight. `MirrorsAlways` is the lemma behind the last two: without evictions the
  windows, and the answers on their way, agree with the reserves, so no answer drops
  an entry.

`SessionProofs` proves the invariants that the `session` run checks: for any number of
peers, bins and chunks, any reserves, uploads and page, and any budget of faults.

- *The durable high-water.* `SettledDurably` is unconditional. Its invariant `IInv`
  (`SessionInvariant`) says what must hold of the node while an operation waits
  (`Waits`): an offer asks on from a log that settled all it covers, the cursors of a
  peer are asked before it has a log, an interval to persist is not ahead of its log.
  Such operations never meet in the queue (`Apart`), so an answer never finds the
  state that it was asked in gone. The wire carries no BinIDs, so the positions of a
  log are not the peer's; `Accounted` says that an entry of the peer's is in the
  window at a position that does not exceed its BinID, which is what makes it safe
  to persist the peer's numbers, and `Within` that a log covers nothing that the peer
  has not numbered yet, so that a later upload is not skipped.
- *Leases and fetches.* `LeasesMatched`, with `dedup` and `failover`. One direction is
  in `Waits` and `Apart`; the other one (`Kept`) is an invariant as long as no fetch
  was closed before its offer or abandoned, the two ways to lose one.
- *Convergence at rest.* `QuiescenceConverges`, under the switches of `Converging`:
  those two, `reset_on_exhaust`, live offers on, and no restriction to a single source.
  These are what the code runs with; with one of the others off, a chunk may
  rightly be left waiting. This is the safety half of convergence: if `drive`
  returns, nothing is missing; that it returns is `Terminates`, for TLC. The
  invariant `CInv` says that an open entry of a window has arrived and has its peer as
  a holder (`Served`), that something is then leased (`Pending`), and that a log
  without open entries is settled and has its offer open (`Driven`), in the queue
  or beyond all that the peer held at the start (`Standing`). An empty queue has no
  fetch, so by `Kept` no lease, so no open entry, so every log is settled up to the
  peer's last BinID. The step that needs work is `RoundStarts`: a round that finds an
  open chunk with a holder leases something, since bars on all its holders are
  cleared first and the guard holds a chunk back only for another one that can start.

The ranks of the effects in one Vec and the logs announced by the cursors are
recursive functions; what they return is proved by the least counterexample, as
for `Scheduled`. The same argument carries every other recursive function below.

`FetchStreamProofs` proves `EachWantReportedOnce` and `VerdictsAreGlobal`, over
whatever is on the stream: the invariant `ClientInv` is about the client alone, so
no frame of a server and no end of the stream can break it. It says that the wants
that are not pending are listed, each once (`Lists`), with verdicts that an honest
holder earns (`Global`); `ListsConcat` says what appending does to a list. That a
verdict does not depend on the sender is `OneVerdict`: a delivery that answers for an
entry hashes to its stamp, so it carries that stamp, and with other content it is a
miss. This is where it matters that the client keys its wants by the whole triple
and not by the address. Keccak and the chunk address are free constructors there,
which is the assumption that hashes do not collide.

`HonestServerBelieved` is about both ends. Its invariant `HonestInv` says where a
stream with an honest server stands: asking, waiting for entries, offered, wanted or
answered. What matters is the step between the last two. `BitsRead` says that
a bit set in the client's vector, byte by byte, is the one that the server reads, and
no other; so the server goes over exactly the first positions of the pending triples,
and its answer has a genuine delivery for each one that it still holds and a
placeholder for each other one (`DeliveriesFacts`). The client counts frames and not
matches, so the invariant also says that no frame is on its way beyond those that it
counts, and that whoever is pending and not evicted still has its frame (`Answering`).

`HandshakeProofs` proves `IdentityVerified` and `HandshakeAgreement`, for any
networks and any number of pieces. Agreement is about two drivers and nothing
between them, so the invariant adds what may be on the stream (`Origin`): a side
has received only pieces of what the other sent, and an Ack only from an initiator
that has verified its peer and will not report failure. The last point needs
`FinishPolls`, that this initiator never reads again, since a failing read is the
only way left to fail. The converse is not claimed: the last Ack may be lost.

`SettlementProofs` proves `SettleBeforeForget`, `WindowSound`, `IntervalMonotone`,
`AdvanceIsLargest` and `AdvanceIsItsLoop`. The inductive invariant adds to `NoDrop` that an obligation
above the interval is still in the window with its own triple, which is where the
peer's fixed numbering enters: `observe` overwrites. `AdvanceFacts` says what
`advance` does to interval, coverage and window, and is all that the steps use. The
loop is read turn by turn: after i turns the window has lost a settled prefix, and
either only BinIDs from i on are left or the first one left is unsettled (`Turned`), so
after as many turns as there are BinIDs the loop has stopped where the closed form
says.

`AssemblyProofs` proves the locality that the runtime builds on, for addresses of any
length. Its one idea is `ProximityPrefix`: to be at proximity n is to agree on the
first n bits, up to the largest proximity a u8 holds; agreement on a prefix is an
equivalence, so two nodes that have to store one chunk are neighbours (`Locality`)
and neighbours have to store the same chunks (`SharedReserve`), if all have one
radius. `GrindIsBest` says what the nonce search returns. That the first differing
bit exists comes from the well-foundedness of the naturals.

Of a whole run it proves every safety property that the `assembly` run checks.
`DirectStaysKept` rests on `KeptInv`: what
main spawned runs or is about to start until it reports, so once the last task has
started a bootnode finds an acceptor for whatever it owes, at any time.
`NumbersRouteUpToMax` says that numbers route, always where overflows are checked and
elsewhere as long as there are no more peers than values of a u8: the i-th peer has
the i-th number, a checked build stops short of the wrap (`Numbered`), and the
numbering is injective up to the wrap back to 1. The bound is the code's own: where
overflows are not checked, a larger supply has two peers with one number.

`SupplyIsExact` follows the list through the program. `SupplyInv` says that what has
verified of a push and what is still to come are all of it, however it was cut into
batches (`Receiving`), that from then on everybody wanted is connected, refused or
still to dial, and nobody else is (`Dialed`), and that no second push is accepted
(`OneAcceptor`). `FramesCover` and `AmongFacts` say that the batches lose nothing and
what a filter keeps. That the supply keeps the order of the push, with nobody more
often than it names them, is `DrawnInv`: there is an increasing map from what was
received into the list up to some position (`Received`), the batches still to come
follow from that position on (`Framing`), and later who was met and then who is to
dial are placed one behind the other (`Dials`). Filters, batches and dials compose
such maps (`AmongPlaces`, `PlacesThrough`, `PlacesConcat`).

`NeighbourhoodRefined` shows the assembly to implement the abstract `Neighbourhood`.
Its counts are cardinalities of sets of peers, so each step needs that a set grew by
at most the peers it names; `HoodInv` adds that who was met is known and counts as willing, and
that nothing is discovered before the bootnode was met.

`ResolutionComplete` is the correctness of a breadth-first search with a depth cap.
`Resolver` says that the depths in the queue never fall and span at most two values
(`Layered`), and that there is an assignment of depths to the visited names
(`Measured`), kept existential since the code stores none: each name is at the
end of a chain of that length, nothing that waits is nearer, and what a name leads to
is visited or waits at most one further. When the queue is empty, visited is then
closed under chains shorter than the cap. Without the order of the queue a name might
be visited first along a detour, and what lies behind it be cut off: that is
`ResolveLookupDepthFirst`, for which TLC finds such a zone.

Only model-checked: liveness (`Completes`, `Converges`, `Terminates`, `Finishes`,
`BothReturn`, `Reports`), which rests on fairness and is out of the prover's reach.
Every other property of a passing run has a theorem.

## 5. Not modelled

The insides of cryptography (Keccak, secp256k1, the Merkle tree): free constructors
stand for them. Varints and field tags: no property tells their layouts apart.
Frames that do not decode, and data longer than a chunk: the client panics. The
rewriting of addresses for WebSockets and `AntUnderlay`: nothing in the repository
calls them. A light node, which no bee dials back. Construction of the swarm and the
browser binding: I/O without protocol state. Node::preload during a pull: every
shell calls it before. The stand-alone cursors probe. The test doubles.

## 6. Plan

1. Several nodes that pull from each other, as in the simulation: convergence of
   all of them, and the delivery floor of the network.
2. Epochs: a peer that renumbers its reserve announces it by one, which the code
   receives and drops.
