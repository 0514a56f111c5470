------------------------------ MODULE Assembly ------------------------------
(***************************************************************************)
(* A whole run of melissi-pull, from the name of a bootnode to the report: *)
(* crates/net/src/bin/pull.rs over crates/net/src/runtime.rs, with         *)
(* dnsaddr, hive, pricing and underlay.                                    *)
(*                                                                         *)
(* The program resolves a bootnode, learns its overlay, places itself next *)
(* to it, spawns its tasks, shakes hands, and then, by mode, takes the     *)
(* peers that a hive push names or the bootnode alone as its supply.       *)
(* Meanwhile the bees it met do what they do after a handshake: announce   *)
(* their price, dial back, gossip.  They are external, and modelled from   *)
(* what pricing.rs and runtime.rs say of them.  A stream a bee opens finds *)
(* an acceptor or fails.                                                   *)
(*                                                                         *)
(* The runtime has many threads: spawned tasks start in any order, at any  *)
(* time.  The pull itself is Session's matter: here it ends, or the clock  *)
(* ends it.                                                                *)
(***************************************************************************)
EXTENDS Dnsaddr, Overlay

CONSTANTS
  Peers,        \* libp2p ids of other nodes
  OverlayOf,    \* the overlay of each
  PeerAt,       \* the peer at a concrete address, None without a /p2p/ part
  None,         \* nobody
  Nonces,       \* the overlays that our nonces give, in order
  GrindBits,    \* MELISSI_GRIND
  Radius,       \* MELISSI_RADIUS
  Depths,       \* the storage depths a bee may have: it gossips to whom it covers
  Pushes,       \* the lists of signed addresses a bee may push
  MaxPushes,    \* bound: pushes
  MaxTries,     \* attempts of open_stream
  MaxBatch,     \* MAX_BATCH
  NodePeerMax   \* the largest number of a peer: u8::MAX

\* Every signed address that a push may name.
Addrs == UNION {ToSet(addrs) : addrs \in Pushes}

ASSUME AssemblyConstants ==
  /\ IsFiniteSet(Peers) /\ None \notin Peers
  /\ OverlayOf \in [Peers -> Address]
  /\ Nonces \in Seq(Address) /\ Nonces # <<>>
  /\ Pushes \subseteq Seq(Addrs) /\ None \notin Seq(Seq(Addrs))
  /\ \A a \in Addrs : a.underlay \in Peers \cup {None}
  /\ {GrindBits, Radius, MaxPushes} \subseteq Nat
  /\ Depths \subseteq Nat
  /\ {MaxTries, MaxBatch, NodePeerMax} \subseteq Nat \ {0}

VARIABLES
  mode,        \* "run" or "direct"
  checked,     \* the build checks overflows
  standing,    \* peers are willing, declining or down
  depth,       \* the bees' storage depth
  pc,          \* where main is
  boot,        \* the bootnode's libp2p id
  us,          \* our overlay
  tries,       \* failed attempts of the open_stream in progress
  spawned,     \* tasks not started yet
  live,        \* tasks that run, acceptors included
  met,         \* peers we completed a handshake with
  owed,        \* <<peer, what>>: what bees do after a handshake
  kept,        \* bees that have us registered
  pushes,      \* pushes so far
  incoming,    \* the frames of the accepted push still to come, or None
  pushed,      \* history: the list that was pushed
  cut,         \* history: the push broke off
  discovered,  \* verified addresses received
  todo,        \* neighbours still to dial
  refused,     \* history: neighbours that declined or were out of reach
  active,      \* the underlay's active peers
  numbers      \* <<number, peer>> as announced to the session

worldVars == <<mode, checked, standing, depth>>
hiveVars == <<incoming, pushed, cut, discovered>>
supplyVars == <<todo, refused, active, numbers>>
beeVars == <<met, owed, kept>>
vars == <<dnsVars, worldVars, pc, boot, us, tries, spawned, live, beeVars, pushes,
          hiveVars, supplyVars>>

Init ==
  /\ DnsInit
  /\ mode \in {"run", "direct"}
  /\ checked \in BOOLEAN
  /\ standing \in [Peers -> {"willing", "declining", "down"}]
  /\ depth \in Depths
  /\ pc = "resolve"
  /\ boot = None /\ us = None
  /\ tries = 0
  /\ spawned = {} /\ live = {}
  /\ met = {} /\ owed = {} /\ kept = {}
  /\ pushes = 0
  /\ incoming = None /\ pushed = <<>> /\ cut = FALSE /\ discovered = <<>>
  /\ todo = <<>> /\ refused = {} /\ active = <<>> /\ numbers = <<>>

-----------------------------------------------------------------------------
(* Before the run: resolve_bootnode, learn_peer_overlay.                   *)

Resolving ==
  /\ pc = "resolve"
  /\ DnsNext
  /\ UNCHANGED <<worldVars, pc, boot, us, tries, spawned, live, beeVars, pushes,
                 hiveVars, supplyVars>>

\* The first dialable bootnode, or a panic; the resolver's state is dropped.
ResolveBootnode ==
  /\ pc = "resolve" /\ resolved # "no"
  /\ IF resolved = "ok"
     THEN boot' = PeerAt[Head(TcpBootnodes(out))] /\ pc' = "learn"
     ELSE pc' = "panicked" /\ UNCHANGED boot
  /\ queue' = <<>> /\ visited' = {} /\ out' = <<>> /\ resolved' = "dropped"
  /\ UNCHANGED <<zone, worldVars, us, tries, spawned, live, beeVars, pushes,
                 hiveVars, supplyVars>>

\* MELISSI_BOOTNODE names the address: nothing is looked up.
ConfiguredBootnode(a) ==
  /\ pc = "resolve" /\ resolved = "no" /\ visited = {}
  /\ boot' = PeerAt[a] /\ pc' = "learn"
  /\ queue' = <<>> /\ resolved' = "dropped"
  /\ UNCHANGED <<zone, visited, out, worldVars, us, tries, spawned, live, beeVars, pushes,
                 hiveVars, supplyVars>>

Target == IF pc = "dial" THEN Head(todo).underlay ELSE boot

Dialing == pc \in {"learn", "hello"} \/ (pc = "dial" /\ todo # <<>>)

\* Without an id there is nothing to dial.
Standing(x) == IF x \in Peers THEN standing[x] ELSE "declining"

\* Mutant of TryAgain: the attempts are not counted.
TryForever ==
  /\ Dialing /\ Target # None
  /\ UNCHANGED <<dnsVars, worldVars, pc, boot, us, tries, spawned, live, beeVars, pushes,
                 hiveVars, supplyVars>>

\* open_stream: an attempt fails, not the last one.  The peer is down, or the
\* connection is not there yet.
TryAgain ==
  /\ Dialing /\ Target # None
  /\ tries + 1 < MaxTries
  /\ tries' = tries + 1
  /\ UNCHANGED <<dnsVars, worldVars, pc, boot, us, spawned, live, beeVars, pushes,
                 hiveVars, supplyVars>>

\* The stream opens and the peer completes the handshake on it.  Our own swarm
\* has to run; learn_peer_overlay brings one of its own.
Shakes == Standing(Target) = "willing" /\ (pc = "learn" \/ "swarm" \in live)

\* The last attempt fails, or the peer declines.
GivesUp == tries + 1 >= MaxTries \/ Standing(Target) = "declining"

\* The overlay is learned over a throwaway connection, and ours is placed.
LearnOverlay ==
  /\ pc = "learn"
  /\ \/ /\ Shakes
        /\ us' = Nonces[GrindOverlayNonce(Nonces, OverlayOf[boot], GrindBits)]
        /\ pc' = "spawn"
     \/ /\ GivesUp
        /\ pc' = "panicked"
        /\ UNCHANGED us
  /\ tries' = 0
  /\ UNCHANGED <<dnsVars, worldVars, boot, spawned, live, beeVars, pushes, hiveVars, supplyVars>>

-----------------------------------------------------------------------------
(* The run: run and pull_direct, under the caller's timeout.               *)

\* Mutant of Tasks: pull_direct spawns what run spawns.
TasksUnpriced == {"swarm", "handshake"}

\* What run and pull_direct spawn: drive_swarm, serve ("handshake"), and only in
\* pull_direct serve_pricing ("pricing").
Tasks == {"swarm", "handshake"} \cup (IF mode = "direct" THEN {"pricing"} ELSE {})

Spawn ==
  /\ pc = "spawn"
  /\ spawned' = Tasks
  /\ pc' = "hello"
  /\ UNCHANGED <<dnsVars, worldVars, boot, us, tries, live, beeVars, pushes, hiveVars, supplyVars>>

\* A task's first poll registers its acceptor.
StartTask(t) ==
  /\ t \in spawned
  /\ live' = live \cup {t}
  /\ spawned' = spawned \ {t}
  /\ UNCHANGED <<dnsVars, worldVars, pc, boot, us, tries, beeVars, pushes, hiveVars, supplyVars>>

\* A completed handshake, and what it has the bee do next.
Meet(p) ==
  /\ met' = met \cup {p}
  /\ kept' = kept \cup {p}
  /\ owed' = owed \cup {<<p, "pricing">>, <<p, "handshake">>}

\* Without its bootnode either one returns.  pull_direct pulls from it at once.
HandshakeBoot ==
  /\ pc = "hello"
  /\ \/ /\ Shakes
        /\ Meet(boot)
        /\ pc' = IF mode = "run" THEN "await" ELSE "pull"
        /\ numbers' = IF mode = "run" THEN numbers ELSE <<<<1, boot>>>>
     \/ /\ GivesUp
        /\ pc' = "report"
        /\ UNCHANGED <<beeVars, numbers>>
  /\ tries' = 0
  /\ UNCHANGED <<dnsVars, worldVars, boot, us, spawned, live, pushes, hiveVars,
                 todo, refused, active>>

\* accept_hive_push: the acceptor lives until it returns, for one push.
AcceptHive ==
  /\ pc = "await"
  /\ live' = live \cup {"hive"}
  /\ pc' = "accept"
  /\ UNCHANGED <<dnsVars, worldVars, boot, us, tries, spawned, beeVars, pushes, hiveVars, supplyVars>>

\* The signature binds the overlay to the underlay.
Verifies(a) == a.signed = <<a.overlay, a.underlay>>

\* The filter of a list: what is in S, in the list's order.
Among(list, S) ==
  LET upto[i \in 0 .. Len(list)] ==
        IF i = 0 THEN <<>>
        ELSE IF list[i] \in S THEN Append(upto[i - 1], list[i]) ELSE upto[i - 1]
  IN upto[Len(list)]

\* One Peers message: what does not verify does not appear.
Feed ==
  /\ pc = "accept" /\ incoming # None /\ incoming # <<>>
  /\ discovered' = discovered \o Among(Head(incoming), {a \in Addrs : Verifies(a)})
  /\ incoming' = Tail(incoming)
  /\ UNCHANGED <<dnsVars, worldVars, pc, boot, us, tries, spawned, live, beeVars, pushes,
                 pushed, cut, supplyVars>>

\* The verified peers in our tile that carry an id to dial.
SelectNeighbours(peers) ==
  Among(peers, {a \in Addrs : IsNeighbour(us, Radius, a.overlay) /\ a.underlay # None})

\* The stream closes, or breaks, which receive_peers does not tell apart.
FeedEnds ==
  /\ pc = "accept" /\ incoming # None
  /\ cut' = (incoming # <<>>)
  /\ todo' = SelectNeighbours(discovered)
  /\ live' = live \ {"hive"}
  /\ incoming' = None
  /\ pc' = "dial"
  /\ UNCHANGED <<dnsVars, worldVars, boot, us, tries, spawned, beeVars, pushes,
                 pushed, discovered, refused, active, numbers>>

\* What the underlay holds of a neighbour: the overlay that the push named.
ActivePeer(n) == [overlay |-> n.overlay, libp2p |-> n.underlay]

\* Mutant of DialNeighbour: the outcome of the handshake is not looked at.
DialNeighbourUnchecked ==
  /\ pc = "dial" /\ todo # <<>>
  /\ Shakes \/ GivesUp
  /\ Meet(Target)
  /\ active' = Append(active, ActivePeer(Head(todo)))
  /\ todo' = Tail(todo)
  /\ tries' = 0
  /\ UNCHANGED <<dnsVars, worldVars, pc, boot, us, spawned, live, pushes, hiveVars,
                 refused, numbers>>

\* Dial and handshake one neighbour after the other.
DialNeighbour ==
  /\ pc = "dial" /\ todo # <<>>
  /\ \/ /\ Shakes
        /\ Meet(Target)
        /\ active' = Append(active, ActivePeer(Head(todo)))
        /\ UNCHANGED refused
     \/ /\ GivesUp
        /\ refused' = refused \cup {Target}
        /\ UNCHANGED <<beeVars, active>>
  /\ todo' = Tail(todo)
  /\ tries' = 0
  /\ UNCHANGED <<dnsVars, worldVars, pc, boot, us, spawned, live, pushes, hiveVars, numbers>>

\* Mutant of NumberOf: peers are counted from 1 again after the largest number.
NumberOfSkipZero(i) == ((i - 1) % NodePeerMax) + 1

\* The number of the i-th peer: a u8 that starts at 1 and wraps.
NumberOf(i) == i % (NodePeerMax + 1)

\* pull: number the active peers of our tile.  The increment past the largest
\* number panics where overflows are checked.
Pull ==
  /\ pc = "dial" /\ todo = <<>>
  /\ LET tile == Among(active, {a \in ToSet(active) : IsNeighbour(us, Radius, a.overlay)})
     IN IF checked /\ Len(tile) >= NodePeerMax
        THEN pc' = "panicked" /\ UNCHANGED numbers
        ELSE pc' = "pull" /\ numbers' = [i \in DOMAIN tile |-> <<NumberOf(i), tile[i].libp2p>>]
  /\ UNCHANGED <<dnsVars, worldVars, boot, us, tries, spawned, live, beeVars, pushes,
                 hiveVars, todo, refused, active>>

\* assemble_and_pull: the session comes to rest.
PullEnds ==
  /\ pc = "pull"
  /\ pc' = "report"
  /\ UNCHANGED <<dnsVars, worldVars, boot, us, tries, spawned, live, beeVars, pushes,
                 hiveVars, supplyVars>>

\* The caller's clock, at any await of the run.
Timeout ==
  /\ pc \in {"hello", "await", "accept", "dial", "pull"}
  /\ pc' = "report"
  /\ UNCHANGED <<dnsVars, worldVars, boot, us, tries, spawned, live, beeVars, pushes,
                 hiveVars, supplyVars>>

\* main returns; the tasks and the connections go with it.
Report ==
  /\ pc = "report"
  /\ pc' = "reported"
  /\ spawned' = {} /\ live' = {}
  /\ kept' = {} /\ owed' = {}
  /\ UNCHANGED <<dnsVars, worldVars, boot, us, tries, met, pushes, hiveVars, supplyVars>>

-----------------------------------------------------------------------------
(* The bees.                                                               *)

\* A bee opens the stream it owes.  If nothing accepts it, the bee disconnects
\* us (pricing) or prunes us as unreachable (the dial-back), and forgets us.
BeeCalls(p, what) ==
  /\ <<p, what>> \in owed
  /\ IF what \in live
     THEN owed' = owed \ {<<p, what>>} /\ UNCHANGED kept
     ELSE kept' = kept \ {p} /\ owed' = {o \in owed : o[1] # p}
  /\ UNCHANGED <<dnsVars, worldVars, pc, boot, us, tries, spawned, live, met, pushes,
                 hiveVars, supplyVars>>

\* Mutant of BroadcastFrames: what does not fill a batch is left out.
BroadcastFramesFull(addrs) ==
  [k \in 1 .. Len(addrs) \div MaxBatch |-> SubSeq(addrs, (k - 1) * MaxBatch + 1, k * MaxBatch)]

\* The batches of a push.
BroadcastFrames(addrs) ==
  LET n == (Len(addrs) + MaxBatch - 1) \div MaxBatch
      end(k) == IF k * MaxBatch < Len(addrs) THEN k * MaxBatch ELSE Len(addrs)
  IN [k \in 1 .. n |-> SubSeq(addrs, (k - 1) * MaxBatch + 1, end(k))]

\* A bee gossips to a registered peer that its storage depth covers, whenever it
\* likes; a push that finds no acceptor is lost.
BeePush(p, addrs) ==
  /\ p \in kept /\ pushes < MaxPushes
  /\ Proximity(us, OverlayOf[p]) >= depth
  /\ pushes' = pushes + 1
  /\ IF "hive" \in live /\ incoming = None
     THEN incoming' = BroadcastFrames(addrs) /\ pushed' = addrs
     ELSE UNCHANGED <<incoming, pushed>>
  /\ UNCHANGED <<dnsVars, worldVars, pc, boot, us, tries, spawned, live, beeVars,
                 cut, discovered, supplyVars>>

-----------------------------------------------------------------------------

MainStep ==
  \/ Resolving
  \/ ResolveBootnode
  \/ \E a \in DOMAIN PeerAt : ConfiguredBootnode(a)
  \/ TryAgain
  \/ LearnOverlay
  \/ Spawn
  \/ HandshakeBoot
  \/ AcceptHive
  \/ Feed
  \/ FeedEnds
  \/ DialNeighbour
  \/ Pull
  \/ PullEnds
  \/ Report

Next ==
  \/ MainStep
  \/ \E t \in Tasks : StartTask(t)
  \/ Timeout
  \/ \E p \in Peers : \E what \in {"pricing", "handshake"} : BeeCalls(p, what)
  \/ \E p \in Peers : \E addrs \in Pushes : BeePush(p, addrs)

\* main is polled while it can go on, and the clock runs.  A lookup and a
\* handshake are answered or fail, which nothing but the network owes before the
\* run; during it the clock is enough.  Bees owe nothing.
Fairness == WF_vars(MainStep) /\ WF_vars(\E t \in Tasks : StartTask(t)) /\ WF_vars(Timeout)

Spec == Init /\ [][Next]_vars /\ Fairness

-----------------------------------------------------------------------------
(* Properties.                                                             *)

\* The addresses of a push that are to be dialed.
Wanted(addrs) ==
  {a.underlay : a \in {a \in ToSet(addrs) : /\ Verifies(a)
                                            /\ IsNeighbour(us, Radius, a.overlay)
                                            /\ a.underlay # None}}

\* The supply of a pull is exact: every peer in it proved itself in a handshake
\* and was named, with a valid signature and in our tile, by the push; if the
\* push did not break off nobody else who was is missing, in whatever batch the
\* name came, except who refused; and the peers come in the order of the push,
\* nobody more often than it names them, however the batches were cut.
SupplyExact ==
  mode = "run" /\ pc = "pull" =>
    LET supply == {a.libp2p : a \in ToSet(active)}
    IN /\ supply \subseteq met \cap Wanted(pushed)
       /\ ~cut => Wanted(pushed) \subseteq supply \cup refused
       /\ \E f \in [DOMAIN active -> DOMAIN pushed] :
            /\ \A i, j \in DOMAIN active : i < j => f[i] < f[j]
            /\ \A i \in DOMAIN active : active[i] = ActivePeer(pushed[f[i]])

\* pull_direct accepts all that a bee does after a handshake.  While it pulls, the
\* peer gives us up only if it opens a stream before all tasks have started:
\* afterwards never again, whatever it does and whenever.
DirectKept ==
  [][mode = "direct" /\ pc = "pull" /\ boot \in kept /\ boot \notin kept' => spawned # {}]_vars

\* The runner's find: the first entry with the number.
Routed(n) ==
  LET same == {i \in DOMAIN numbers : numbers[i][1] = n}
  IN numbers[CHOOSE i \in same : \A j \in same : i <= j][2]

\* An operation for a peer goes to that peer: no number stands for two, in a build
\* that checks overflows ever, in one that does not as long as the peers are no
\* more than the numbers, 0 included.
NumbersRoute ==
  checked \/ Len(numbers) <= NodePeerMax + 1 =>
    \A i \in DOMAIN numbers : Routed(numbers[i][1]) = numbers[i][2]

\* A run ends, with a report or with a panic, if no push ever comes, too.
Reports == <>(pc \in {"reported", "panicked"})

Known == {boot} \cup {a.underlay : a \in ToSet(todo)} \cup refused \cup {a.libp2p : a \in ToSet(active)}

Hood == INSTANCE Neighbourhood
          WITH Willing <- Cardinality(Peers), Declining <- Cardinality(Peers),
               known_w <- Cardinality({x \in Known : x = boot \/ Standing(x) = "willing"}),
               known_u <- Cardinality({x \in Known : x # boot /\ Standing(x) # "willing"}),
               conn <- Cardinality(met)

\* The assembly implements the neighbourhood crate: it discovers only once it is
\* connected, and connects only what it discovered.
ImplementsNeighbourhood == Hood!Spec
=============================================================================
