---------------------------- MODULE AssemblyProofs ----------------------------
(***************************************************************************)
(* Locality, for addresses of any length: what a node has to store is what *)
(* its neighbours have to store, and nobody else.  That is why             *)
(* select_neighbours and pull may drop every peer outside the tile.        *)
(*                                                                         *)
(* And of a run of melissi-pull, for any peers, pushes and zones: that the *)
(* bootnode keeps a direct pull, that a number stands for one peer, that   *)
(* the supply is exactly what a push named and a handshake proved, that    *)
(* the run is one of the neighbourhood crate's, and that the resolution of *)
(* names finds all that the depth cap allows.                              *)
(***************************************************************************)
EXTENDS Assembly, TLAPS, WellFoundedInduction, FiniteSetTheorems

-----------------------------------------------------------------------------
(* Prefixes.                                                               *)

\* Two addresses agree on their first n bits.
Agree(a, b, n) == \A i \in 1 .. n : a[i] = b[i]

\* A set of naturals that is not empty has a least member.
LEMMA LeastMember ==
  ASSUME NEW S \in SUBSET Nat, S # {}
  PROVE  \E f \in S : \A i \in S : f <= i
<1> DEFINE Less == OpToRel(<, Nat)
<1>1. PICK f \in S : \A i \in S : <<i, f>> \notin Less
  <2>1. IsWellFoundedOn(Less, Nat)
    BY NatLessThanWellFounded
  <2> HIDE DEF Less
  <2> QED
    BY <2>1, WFMin
<1>2. \A i \in S : ~(i < f)
  BY <1>1 DEF OpToRel
<1> QED
  BY <1>2

\* The loop of proximity stops in front of the first bit that differs.
LEMMA ProximityFirst ==
  ASSUME NEW a, NEW b, Differ(a, b) # {}
  PROVE  /\ Proximity(a, b) \in 0 .. AddressBits - 1
         /\ Proximity(a, b) + 1 \in Differ(a, b)
         /\ \A i \in Differ(a, b) : Proximity(a, b) + 1 <= i
<1> USE OverlayConstants
<1>1. PICK f \in Differ(a, b) : \A i \in Differ(a, b) : f <= i
  <2>1. Differ(a, b) \in SUBSET Nat
    BY DEF Differ
  <2> QED
    BY <2>1, LeastMember
<1>2. f - 1 \in 0 .. AddressBits - 1 /\ (f - 1) + 1 = f
  BY DEF Differ
<1>3. \E p \in 0 .. AddressBits - 1 :
        p + 1 \in Differ(a, b) /\ \A i \in Differ(a, b) : p + 1 <= i
  BY <1>1, <1>2
<1> QED
  BY <1>3 DEF Proximity

\* A proximity is a number of common leading bits.
LEMMA ProximityType ==
  ASSUME NEW a, NEW b
  PROVE  Proximity(a, b) \in 0 .. AddressBits - 1
<1>1. CASE Differ(a, b) = {}
  BY <1>1, OverlayConstants DEF Proximity
<1>2. CASE Differ(a, b) # {}
  BY <1>2, ProximityFirst
<1> QED
  BY <1>1, <1>2

\* To be close is to agree on a prefix, at every depth that a u8 can tell.
LEMMA ProximityPrefix ==
  ASSUME NEW a, NEW b, NEW n \in 0 .. AddressBits - 1
  PROVE  Proximity(a, b) >= n <=> Agree(a, b, n)
<1> USE OverlayConstants
<1>1. CASE Differ(a, b) = {}
  BY <1>1 DEF Proximity, Differ, Agree
<1>2. CASE Differ(a, b) # {}
  <2> DEFINE p == Proximity(a, b)
  <2>1. /\ p \in 0 .. AddressBits - 1
        /\ p + 1 \in Differ(a, b)
        /\ \A i \in Differ(a, b) : p + 1 <= i
    BY <1>2, ProximityFirst
  <2> HIDE DEF p
  <2>2. ASSUME p >= n PROVE Agree(a, b, n)
    <3> SUFFICES ASSUME NEW i \in 1 .. n PROVE a[i] = b[i]
      BY DEF Agree
    <3> QED
      BY <2>1, <2>2 DEF Differ
  <2>3. ASSUME Agree(a, b, n) PROVE p >= n
    BY <2>1, <2>3 DEF Differ, Agree
  <2> QED
    BY <2>2, <2>3 DEF p
<1> QED
  BY <1>1, <1>2

-----------------------------------------------------------------------------
(* The locality lemma.                                                     *)

\* A chunk that two nodes of one radius have to store makes them neighbours:
\* whom select_neighbours drops holds nothing of our reserve.
THEOREM Locality ==
  ASSUME NEW node \in Address, NEW peer \in Address, NEW chunk \in Address, NEW radius \in Nat,
         InReserve(node, radius, chunk), InReserve(peer, radius, chunk)
  PROVE  IsNeighbour(node, radius, peer)
<1>1. radius \in 0 .. AddressBits - 1
  BY ProximityType, OverlayConstants DEF InReserve
<1>2. Agree(chunk, node, radius) /\ Agree(chunk, peer, radius)
  BY <1>1, ProximityPrefix DEF InReserve
<1>3. Agree(peer, node, radius)
  BY <1>2 DEF Agree
<1> QED
  BY <1>1, <1>3, ProximityPrefix DEF IsNeighbour

\* Neighbours have one reserve: every neighbour is a source for all of it, so a
\* single willing one is supply enough.
THEOREM SharedReserve ==
  ASSUME NEW node \in Address, NEW peer \in Address, NEW chunk \in Address, NEW radius \in Nat,
         IsNeighbour(node, radius, peer)
  PROVE  InReserve(node, radius, chunk) <=> InReserve(peer, radius, chunk)
<1>1. radius \in 0 .. AddressBits - 1
  BY ProximityType, OverlayConstants DEF IsNeighbour
<1>2. Agree(peer, node, radius)
  BY <1>1, ProximityPrefix DEF IsNeighbour
<1>3. Agree(chunk, node, radius) <=> Agree(chunk, peer, radius)
  BY <1>2 DEF Agree
<1> QED
  BY <1>1, <1>3, ProximityPrefix DEF InReserve

-----------------------------------------------------------------------------
(* The search for a nonce.                                                 *)

\* If some nonce in the range comes close enough, the search returns one that
\* does; if none does it returns one that is as close as any.
THEOREM GrindIsBest ==
  ASSUME NEW overlays \in Seq(Address), overlays # <<>>, NEW target \in Address, NEW bits \in Nat
  PROVE  LET g == GrindOverlayNonce(overlays, target, bits)
         IN /\ g \in DOMAIN overlays
            /\ \A j \in DOMAIN overlays :
                 \/ Proximity(overlays[g], target) >= bits
                 \/ Proximity(overlays[g], target) >= Proximity(overlays[j], target)
<1> DEFINE po(i) == Proximity(overlays[i], target)
           Better == {i \in DOMAIN overlays : po(i) > 0}
           Enough == {i \in Better : po(i) >= bits}
           First(S) == CHOOSE i \in S : \A j \in S : i <= j
           Best == {i \in Better : \A j \in Better : po(i) >= po(j)}
           g == GrindOverlayNonce(overlays, target, bits)
<1>1. \A i \in DOMAIN overlays : po(i) \in 0 .. AddressBits - 1
  BY ProximityType
<1> HIDE DEF po
<1>2. g = IF Enough # {} THEN First(Enough) ELSE IF Better # {} THEN First(Best) ELSE 1
  BY DEF GrindOverlayNonce, po
<1>3. ASSUME NEW S \in SUBSET DOMAIN overlays, S # {}
      PROVE  First(S) \in S
  <2>1. S \in SUBSET Nat
    OBVIOUS
  <2>2. \E f \in S : \A i \in S : f <= i
    BY <1>3, <2>1, LeastMember
  <2> QED
    BY <2>2
<1>4. CASE Enough # {}
  <2>1. g \in Enough
    BY <1>2, <1>3, <1>4
  <2> QED
    BY <2>1 DEF po
<1>5. CASE Enough = {} /\ Better # {}
  <2> DEFINE Gaps == {AddressBits - po(i) : i \in Better}
  <2>1. Gaps \in SUBSET Nat /\ Gaps # {}
    BY <1>1, <1>5, OverlayConstants
  <2>2. PICK d \in Gaps : \A e \in Gaps : d <= e
    BY <2>1, LeastMember
  <2>3. PICK i \in Better : d = AddressBits - po(i)
    BY <2>2
  <2>4. \A j \in Better : po(i) >= po(j)
    <3> SUFFICES ASSUME NEW j \in Better PROVE po(i) >= po(j)
      OBVIOUS
    <3>1. AddressBits - po(i) <= AddressBits - po(j)
      BY <2>2, <2>3
    <3>2. po(i) \in Int /\ po(j) \in Int /\ AddressBits \in Int
      BY <1>1, OverlayConstants
    <3> QED
      BY <3>1, <3>2
  <2>5. g \in Best
    BY <1>2, <1>3, <1>5, <2>4
  <2>6. \A j \in DOMAIN overlays : po(g) >= po(j)
    BY <1>1, <2>5, OverlayConstants
  <2> QED
    BY <2>5, <2>6 DEF po
<1>6. CASE Enough = {} /\ Better = {}
  <2>1. g = 1 /\ 1 \in DOMAIN overlays
    BY <1>2, <1>6
  <2>2. \A j \in DOMAIN overlays : po(j) = 0
    BY <1>1, <1>6, OverlayConstants
  <2>3. po(g) >= 0
    BY <2>1, <2>2
  <2> QED
    BY <2>1, <2>2, <2>3 DEF po
<1> QED
  BY <1>4, <1>5, <1>6

-----------------------------------------------------------------------------
(* A direct pull is kept.                                                  *)

Running == {"hello", "await", "accept", "dial", "pull", "report"}

\* While main runs, what it spawned runs or is about to start; only run waits
\* for a push.
KeptInv ==
  /\ mode \in {"run", "direct"}
  /\ pc \in Running => Tasks \subseteq spawned \cup live
  /\ pc \in {"await", "accept", "dial"} => mode = "run"

LEMMA KeptInit == Init => KeptInv
BY DEF Init, KeptInv, Running

\* Neither main's place nor what KeptInv speaks of changes.
LEMMA KeptIdle ==
  ASSUME KeptInv, UNCHANGED <<mode, pc, spawned, live>>
  PROVE  KeptInv'
BY DEF KeptInv, Tasks

LEMMA KeptMain == KeptInv /\ MainStep => KeptInv'
<1> SUFFICES ASSUME KeptInv, MainStep PROVE KeptInv'
  OBVIOUS
<1> USE DEF worldVars, beeVars, supplyVars, hiveVars, dnsVars
<1>1. CASE Resolving
  BY <1>1, KeptIdle DEF Resolving
<1>2. CASE ResolveBootnode
  BY <1>2 DEF ResolveBootnode, KeptInv, Tasks, Running
<1>3. ASSUME NEW a \in DOMAIN PeerAt, ConfiguredBootnode(a) PROVE KeptInv'
  BY <1>3 DEF ConfiguredBootnode, KeptInv, Tasks, Running
<1>4. CASE TryAgain
  BY <1>4, KeptIdle DEF TryAgain
<1>5. CASE LearnOverlay
  BY <1>5 DEF LearnOverlay, KeptInv, Tasks, Running
<1>6. CASE Spawn
  BY <1>6 DEF Spawn, KeptInv, Tasks, Running
<1>7. CASE HandshakeBoot
  <2>1. /\ pc = "hello" /\ UNCHANGED <<mode, spawned, live>>
        /\ pc' \in {"await", "pull", "report"} /\ (pc' = "await" => mode = "run")
    BY <1>7 DEF HandshakeBoot
  <2>2. Tasks' = Tasks
    BY <2>1 DEF Tasks
  <2> HIDE DEF Tasks
  <2> QED
    BY <2>1, <2>2 DEF KeptInv, Running
<1>8. CASE AcceptHive
  BY <1>8 DEF AcceptHive, KeptInv, Tasks, Running
<1>9. CASE Feed
  BY <1>9, KeptIdle DEF Feed
<1>10. CASE FeedEnds
  BY <1>10 DEF FeedEnds, KeptInv, Tasks, Running
<1>11. CASE DialNeighbour
  <2>1. pc = "dial" /\ UNCHANGED <<mode, pc, boot, spawned, live>>
    BY <1>11 DEF DialNeighbour
  <2> QED
    BY <2>1 DEF KeptInv, Tasks, Running
<1>12. CASE Pull
  <2>1. pc = "dial" /\ pc' \in {"pull", "panicked"} /\ UNCHANGED <<mode, spawned, live>>
    BY <1>12 DEF Pull
  <2> QED
    BY <2>1 DEF KeptInv, Tasks, Running
<1>13. CASE PullEnds
  BY <1>13 DEF PullEnds, KeptInv, Tasks, Running
<1>14. CASE Report
  BY <1>14 DEF Report, KeptInv, Tasks, Running
<1> QED
  BY <1>1, <1>2, <1>3, <1>4, <1>5, <1>6, <1>7, <1>8, <1>9, <1>10, <1>11, <1>12, <1>13, <1>14
  DEF MainStep

LEMMA KeptNext == KeptInv /\ [Next]_vars => KeptInv'
<1> SUFFICES ASSUME KeptInv, [Next]_vars PROVE KeptInv'
  OBVIOUS
<1> USE DEF worldVars, beeVars, supplyVars
<1>1. CASE MainStep
  BY <1>1, KeptMain
<1>2. ASSUME NEW t \in Tasks, StartTask(t) PROVE KeptInv'
  BY <1>2 DEF StartTask, KeptInv, Tasks, Running
<1>3. CASE Timeout
  BY <1>3 DEF Timeout, KeptInv, Tasks, Running
<1>4. ASSUME NEW p \in Peers, NEW what \in {"pricing", "handshake"}, BeeCalls(p, what)
      PROVE  KeptInv'
  BY <1>4, KeptIdle DEF BeeCalls
<1>5. ASSUME NEW p \in Peers, NEW addrs \in Pushes, BeePush(p, addrs) PROVE KeptInv'
  BY <1>5, KeptIdle DEF BeePush
<1>6. CASE UNCHANGED vars
  BY <1>6, KeptIdle DEF vars
<1> QED
  BY <1>1, <1>2, <1>3, <1>4, <1>5, <1>6 DEF Next

\* A peer that pull_direct pulls from gives us up only if it opens a stream before
\* all tasks have started: serve and serve_pricing accept every stream that a bee
\* opens from then on, in any order and at any time.
THEOREM DirectStaysKept == Spec => DirectKept
<1> DEFINE A == mode = "direct" /\ pc = "pull" /\ boot \in kept /\ boot \notin kept' => spawned # {}
<1>1. KeptInv /\ [Next]_vars => [A]_vars
  <2> SUFFICES ASSUME KeptInv, Next, mode = "direct", pc = "pull", boot \in kept, boot \notin kept'
               PROVE  spawned # {}
    OBVIOUS
  <2> USE DEF beeVars
  <2>1. PICK p \in Peers, what \in {"pricing", "handshake"} : BeeCalls(p, what)
    BY DEF Next, MainStep, Resolving, ResolveBootnode, ConfiguredBootnode, TryAgain, LearnOverlay,
           Spawn, HandshakeBoot, AcceptHive, Feed, FeedEnds, DialNeighbour, Pull, PullEnds, Report,
           StartTask, Timeout, BeePush
  <2>2. what \notin live
    BY <2>1 DEF BeeCalls
  <2>3. what \in Tasks /\ Tasks \subseteq spawned \cup live
    BY DEF Tasks, KeptInv, Running
  <2> QED
    BY <2>2, <2>3
<1> QED
  BY <1>1, KeptInit, KeptNext, PTL DEF Spec, DirectKept

-----------------------------------------------------------------------------
(* Lists.                                                                  *)

\* One step of the filter.
Taken(list, S, kept_, i) == IF list[i] \in S THEN Append(kept_, list[i]) ELSE kept_

\* g[i] is the filter of the first i.
Filters(g, list, S, N) ==
  g = [i \in 0 .. N |-> IF i = 0 THEN <<>> ELSE Taken(list, S, g[i - 1], i)]

\* The recursion that filters a list has a solution.
LEMMA AmongRuns ==
  ASSUME NEW list, NEW S, NEW N \in Nat
  PROVE  \E g : Filters(g, list, S, N)
<1> DEFINE Run(g, M) == g = [i \in 0 .. M |-> IF i = 0 THEN <<>> ELSE Taken(list, S, g[i - 1], i)]
           bad == {M \in Nat : ~ \E g : Run(g, M)}
<1> SUFFICES ASSUME bad # {} PROVE FALSE
  BY DEF Filters
<1>1. PICK M \in bad : \A y \in bad : M <= y
  BY LeastMember
<1>2. M \in Nat /\ ~ \E g : Run(g, M)
  BY <1>1
<1>3. M # 0
  <2>1. Run([t \in 0 .. 0 |-> <<>>], 0)
    OBVIOUS
  <2> QED
    BY <1>2, <2>1
<1>4. PICK g : Run(g, M - 1)
  <2>1. M - 1 \in Nat /\ ~(M <= M - 1)
    BY <1>2, <1>3
  <2>2. M - 1 \notin bad
    BY <1>1, <2>1
  <2> QED
    BY <2>1, <2>2
<1> DEFINE h == [t \in 0 .. M |-> IF t = M THEN Taken(list, S, g[M - 1], M) ELSE g[t]]
<1>5. ASSUME NEW t \in 0 .. M
      PROVE  h[t] = IF t = 0 THEN <<>> ELSE Taken(list, S, h[t - 1], t)
  <2>1. CASE t = M
    <3>1. h[t] = Taken(list, S, g[M - 1], M)
      BY <2>1
    <3>2. h[t - 1] = g[M - 1]
      BY <1>2, <1>3, <2>1
    <3> QED
      BY <1>3, <2>1, <3>1, <3>2
  <2>2. CASE t # M
    <3>1. t \in 0 .. (M - 1)
      BY <1>2, <2>2
    <3>2. h[t] = g[t] /\ g[t] = IF t = 0 THEN <<>> ELSE Taken(list, S, g[t - 1], t)
      BY <1>4, <2>2, <3>1
    <3>3. t # 0 => h[t - 1] = g[t - 1]
      BY <1>2, <3>1
    <3> QED
      BY <3>2, <3>3
  <2> QED
    BY <2>1, <2>2
<1>6. Run(h, M)
  <2>1. h = [t \in 0 .. M |-> h[t]]
    OBVIOUS
  <2> HIDE DEF h
  <2> QED
    BY <1>5, <2>1
<1> QED
  BY <1>2, <1>6

\* Appending adds one member.
LEMMA ToSetAppend ==
  ASSUME NEW E, NEW s \in Seq(E), NEW x
  PROVE  ToSet(Append(s, x)) = ToSet(s) \cup {x}
<1> DEFINE t == Append(s, x)
<1>1. DOMAIN t = 1 .. Len(s) + 1 /\ DOMAIN s = 1 .. Len(s) /\ Len(s) \in Nat
  OBVIOUS
<1>2. t[Len(s) + 1] = x /\ \A i \in 1 .. Len(s) : t[i] = s[i]
  OBVIOUS
<1> HIDE DEF t
<1>3. \A i \in DOMAIN t : t[i] \in ToSet(s) \cup {x}
  BY <1>1, <1>2 DEF ToSet
<1>4. x \in ToSet(t) /\ \A i \in DOMAIN s : s[i] \in ToSet(t)
  BY <1>1, <1>2 DEF ToSet
<1>5. ToSet(t) = ToSet(s) \cup {x}
  BY <1>3, <1>4 DEF ToSet
<1> QED
  BY <1>5 DEF t

LEMMA ToSetConcat ==
  ASSUME NEW E, NEW s \in Seq(E), NEW t \in Seq(E)
  PROVE  ToSet(s \o t) = ToSet(s) \cup ToSet(t)
<1>1. s \o t \in Seq(E) /\ Len(s \o t) = Len(s) + Len(t)
  OBVIOUS
<1>2. \A i \in 1 .. Len(s) : (s \o t)[i] = s[i]
  OBVIOUS
<1>3. \A i \in 1 .. Len(t) : (s \o t)[Len(s) + i] = t[i]
  OBVIOUS
<1>4. ASSUME NEW i \in DOMAIN (s \o t) PROVE (s \o t)[i] \in ToSet(s) \cup ToSet(t)
  <2>1. CASE i <= Len(s)
    BY <1>2, <2>1 DEF ToSet
  <2>2. CASE ~(i <= Len(s))
    <3>1. i - Len(s) \in 1 .. Len(t) /\ i = Len(s) + (i - Len(s))
      BY <1>1, <2>2
    <3> QED
      BY <1>3, <3>1 DEF ToSet
  <2> QED
    BY <2>1, <2>2
<1>5. \A i \in DOMAIN s : s[i] \in ToSet(s \o t)
  BY <1>1, <1>2 DEF ToSet
<1>6. ASSUME NEW i \in DOMAIN t PROVE t[i] \in ToSet(s \o t)
  <2>1. Len(s) + i \in DOMAIN (s \o t)
    BY <1>1
  <2> QED
    BY <1>3, <2>1 DEF ToSet
<1>7. ToSet(s \o t) \subseteq ToSet(s) \cup ToSet(t)
  BY <1>4 DEF ToSet
<1>8. ToSet(s) \cup ToSet(t) \subseteq ToSet(s \o t)
  BY <1>5, <1>6 DEF ToSet
<1> QED
  BY <1>7, <1>8

LEMMA ToSetTail ==
  ASSUME NEW E, NEW s \in Seq(E), s # <<>>
  PROVE  /\ Head(s) \in E /\ Tail(s) \in Seq(E)
         /\ ToSet(s) = {Head(s)} \cup ToSet(Tail(s))
<1>1. Len(s) \in Nat /\ Len(s) > 0 /\ DOMAIN s = 1 .. Len(s)
  OBVIOUS
<1>2. Head(s) = s[1] /\ Tail(s) \in Seq(E) /\ Len(Tail(s)) = Len(s) - 1
  OBVIOUS
<1>3. \A i \in 1 .. Len(s) - 1 : Tail(s)[i] = s[i + 1]
  OBVIOUS
<1>4. DOMAIN Tail(s) = 1 .. Len(s) - 1
  BY <1>2
<1>5. ASSUME NEW i \in DOMAIN s PROVE s[i] \in {Head(s)} \cup ToSet(Tail(s))
  <2>1. CASE i = 1
    BY <1>2, <2>1
  <2>2. CASE i # 1
    <3>1. i - 1 \in 1 .. Len(s) - 1 /\ (i - 1) + 1 = i
      BY <1>1, <2>2
    <3> QED
      BY <1>3, <1>4, <3>1 DEF ToSet
  <2> QED
    BY <2>1, <2>2
<1>6. \A i \in DOMAIN Tail(s) : Tail(s)[i] \in ToSet(s)
  BY <1>1, <1>3, <1>4 DEF ToSet
<1>7. Head(s) \in ToSet(s) /\ Head(s) \in E
  BY <1>1, <1>2 DEF ToSet
<1>8. ToSet(s) \subseteq {Head(s)} \cup ToSet(Tail(s))
  BY <1>5 DEF ToSet
<1>9. {Head(s)} \cup ToSet(Tail(s)) \subseteq ToSet(s)
  BY <1>6, <1>7 DEF ToSet
<1> QED
  BY <1>2, <1>7, <1>8, <1>9

\* The filter keeps exactly the members that are in S.
LEMMA AmongFacts ==
  ASSUME NEW E, NEW list \in Seq(E), NEW S
  PROVE  Among(list, S) \in Seq(E) /\ ToSet(Among(list, S)) = ToSet(list) \cap S
<1> DEFINE N == Len(list)
           upto == CHOOSE g : Filters(g, list, S, N)
           Upto(i) == {list[j] : j \in 1 .. i}
           Good(i) == upto[i] \in Seq(E) /\ ToSet(upto[i]) = Upto(i) \cap S
<1>0. N \in Nat /\ DOMAIN list = 1 .. N
  OBVIOUS
<1>1. Filters(upto, list, S, N)
  BY <1>0, AmongRuns
<1>2. Among(list, S) = upto[N]
  BY DEF Among, Taken, Filters
<1> HIDE DEF upto, N
<1>3. ASSUME NEW i \in 0 .. N
      PROVE  upto[i] = IF i = 0 THEN <<>> ELSE Taken(list, S, upto[i - 1], i)
  BY <1>1 DEF Filters
<1>4. \A i \in 0 .. N : Good(i)
  <2> DEFINE bad == {i \in 0 .. N : ~Good(i)}
  <2> SUFFICES ASSUME bad # {} PROVE FALSE
    OBVIOUS
  <2>1. bad \in SUBSET Nat
    BY <1>0
  <2> HIDE DEF Good
  <2>2. PICK i \in bad : \A y \in bad : i <= y
    BY <2>1, LeastMember
  <2>3. i \in 0 .. N /\ ~Good(i)
    BY <2>2
  <2>4. i # 0
    <3>1. Good(0)
      <4>1. upto[0] = <<>>
        BY <1>0, <1>3
      <4>2. Upto(0) = {}
        OBVIOUS
      <4>3. ToSet(<<>>) = {}
        BY DEF ToSet
      <4> QED
        BY <4>1, <4>2, <4>3 DEF Good
    <3> QED
      BY <2>3, <3>1
  <2>5. i - 1 \in 0 .. N /\ ~(i <= i - 1) /\ i \in 1 .. N
    BY <1>0, <2>3, <2>4
  <2>6. Good(i - 1)
    BY <2>2, <2>5
  <2>7. upto[i] = Taken(list, S, upto[i - 1], i)
    BY <1>3, <2>3, <2>4
  <2>8. Upto(i) = Upto(i - 1) \cup {list[i]}
    BY <1>0, <2>5
  <2>9. list[i] \in E
    BY <1>0, <2>5
  <2> HIDE DEF Upto
  <2>10. upto[i - 1] \in Seq(E) /\ ToSet(upto[i - 1]) = Upto(i - 1) \cap S
    BY <2>6 DEF Good
  <2>11. CASE list[i] \in S
    <3>1. upto[i] = Append(upto[i - 1], list[i])
      BY <2>7, <2>11 DEF Taken
    <3>2. upto[i] \in Seq(E)
      BY <2>9, <2>10, <3>1
    <3>3. ToSet(upto[i]) = ToSet(upto[i - 1]) \cup {list[i]}
      BY <2>10, <3>1, ToSetAppend
    <3>4. ToSet(upto[i]) = Upto(i) \cap S
      BY <2>8, <2>10, <2>11, <3>3
    <3> QED
      BY <2>3, <3>2, <3>4 DEF Good
  <2>12. CASE list[i] \notin S
    <3>1. upto[i] = upto[i - 1]
      BY <2>7, <2>12 DEF Taken
    <3>2. ToSet(upto[i]) = Upto(i) \cap S
      BY <2>8, <2>10, <2>12, <3>1
    <3> QED
      BY <2>3, <2>10, <3>1, <3>2 DEF Good
  <2> QED
    BY <2>11, <2>12
<1>5. Good(N)
  BY <1>0, <1>4
<1>6. Upto(N) = ToSet(list)
  BY <1>0 DEF ToSet
<1> QED
  BY <1>2, <1>5, <1>6

-----------------------------------------------------------------------------
(* Batches.                                                                *)

LEMMA Division ==
  ASSUME NEW a \in Nat, NEW M \in Nat \ {0}
  PROVE  a \div M \in Nat /\ (a \div M) * M <= a /\ a < (a \div M) * M + M
OBVIOUS

\* Multiples of M that are less than M apart are in order.
LEMMA Multiples ==
  ASSUME NEW x \in Nat, NEW y \in Nat, NEW M \in Nat \ {0}, x * M < y * M + M
  PROVE  x <= y
<1> SUFFICES ASSUME y + 1 <= x PROVE FALSE
  OBVIOUS
<1>1. PICK d \in Nat : x = y + 1 + d
  <2>1. x - (y + 1) \in Nat /\ x = y + 1 + (x - (y + 1))
    OBVIOUS
  <2> QED
    BY <2>1
<1>2. x * M = y * M + M + d * M
  BY <1>1
<1>3. d * M \in Nat /\ y * M \in Nat /\ x * M \in Nat
  OBVIOUS
<1> QED
  BY <1>2, <1>3

\* All that is in some frame.
Framed(frames) == UNION {ToSet(f) : f \in ToSet(frames)}

\* The batches of a push hold exactly the addresses of the list.
LEMMA FramesCover ==
  ASSUME NEW E, NEW addrs \in Seq(E)
  PROVE  /\ BroadcastFrames(addrs) \in Seq(Seq(E))
         /\ Framed(BroadcastFrames(addrs)) = ToSet(addrs)
<1> DEFINE L == Len(addrs)
           M == MaxBatch
           n == (L + M - 1) \div M
           end(k) == IF k * M < L THEN k * M ELSE L
           batch(k) == SubSeq(addrs, (k - 1) * M + 1, end(k))
           frames == BroadcastFrames(addrs)
<1>0. L \in Nat /\ M \in Nat \ {0} /\ DOMAIN addrs = 1 .. L
  BY AssemblyConstants
<1>1. frames = [k \in 1 .. n |-> batch(k)]
  BY DEF BroadcastFrames
<1>2. n \in Nat /\ n * M <= L + M - 1 /\ L + M - 1 < n * M + M
  <2>1. L + M - 1 \in Nat
    BY <1>0
  <2> HIDE DEF L, M
  <2> QED
    BY <1>0, <2>1, Division
<1>3. ASSUME NEW k \in 1 .. n
      PROVE  /\ (k - 1) * M \in Nat /\ (k - 1) * M < end(k) /\ end(k) <= L /\ end(k) \in Nat
             /\ end(k) = k * M \/ end(k) = L
             /\ k * M = (k - 1) * M + M
  <2> HIDE DEF L, M, n
  <2>1. k \in Nat /\ k - 1 \in Nat /\ k * M \in Nat /\ (k - 1) * M \in Nat
    BY <1>0, <1>2
  <2>2. k * M = (k - 1) * M + M
    BY <1>0, <2>1
  <2>3. k * M <= n * M
    <3>1. n - k \in Nat /\ n = k + (n - k)
      BY <1>2
    <3>2. n * M = k * M + (n - k) * M /\ (n - k) * M \in Nat
      BY <1>0, <2>1, <3>1
    <3> QED
      BY <2>1, <3>2
  <2>4. n * M \in Nat
    BY <1>0, <1>2
  <2> QED
    BY <1>0, <1>2, <2>1, <2>2, <2>3, <2>4
<1>4. ASSUME NEW k \in 1 .. n
      PROVE  /\ batch(k) \in Seq(E)
             /\ ToSet(batch(k)) = {addrs[i] : i \in (k - 1) * M + 1 .. end(k)}
  <2> HIDE DEF n
  <2> DEFINE low == (k - 1) * M
             high == end(k)
  <2>1. low \in Nat /\ high \in Nat /\ low < high /\ high <= L
    BY <1>3
  <2> HIDE DEF low, high, L
  <2>2. SubSeq(addrs, low + 1, high) = [i \in 1 .. high - low |-> addrs[low + i]]
    BY <1>0, <2>1 DEF L
  <2>3. \A i \in 1 .. high - low : addrs[low + i] \in E /\ low + i \in low + 1 .. high
    BY <1>0, <2>1 DEF L
  <2>4. SubSeq(addrs, low + 1, high) \in Seq(E)
    BY <2>1, <2>2, <2>3
  <2>5. \A j \in low + 1 .. high : j - low \in 1 .. high - low /\ low + (j - low) = j
    BY <2>1
  <2>6. ToSet(SubSeq(addrs, low + 1, high)) = {addrs[low + i] : i \in 1 .. high - low}
    BY <2>2 DEF ToSet
  <2>7. {addrs[low + i] : i \in 1 .. high - low} = {addrs[i] : i \in low + 1 .. high}
    BY <2>3, <2>5
  <2> QED
    BY <2>4, <2>6, <2>7 DEF low, high
<1>5. frames \in Seq(Seq(E)) /\ DOMAIN frames = 1 .. n
  <2> HIDE DEF n, batch, frames
  <2> QED
    BY <1>1, <1>2, <1>4
<1>6. \A k \in 1 .. n : frames[k] = batch(k)
  BY <1>1
<1>7. ASSUME NEW x \in Framed(frames) PROVE x \in ToSet(addrs)
  <2>1. PICK k \in 1 .. n : x \in ToSet(frames[k])
    BY <1>5 DEF Framed, ToSet
  <2>2. x \in {addrs[i] : i \in (k - 1) * M + 1 .. end(k)}
    BY <1>4, <1>6, <2>1
  <2>3. PICK i \in (k - 1) * M + 1 .. end(k) : x = addrs[i]
    BY <2>2
  <2>4. i \in 1 .. L
    <3>1. (k - 1) * M \in Nat /\ end(k) <= L /\ end(k) \in Nat
      BY <1>3
    <3> HIDE DEF L, M, end
    <3> QED
      BY <1>0, <3>1
  <2> QED
    BY <1>0, <2>3, <2>4 DEF ToSet
<1>8. ASSUME NEW j \in 1 .. L PROVE addrs[j] \in Framed(frames)
  <2> DEFINE q == (j - 1) \div M
  <2>1. q \in Nat /\ q * M <= j - 1 /\ j - 1 < q * M + M
    <3>1. j - 1 \in Nat
      BY <1>0
    <3> QED
      BY <1>0, <3>1, Division
  <2> HIDE DEF q
  <2>2. q + 1 \in 1 .. n
    <3>1. (q + 1) * M = q * M + M /\ q * M \in Nat /\ n * M \in Nat
      BY <1>0, <1>2, <2>1
    <3>2. (q + 1) * M < n * M + M
      <4> HIDE DEF n, L, M
      <4> QED
        BY <1>0, <1>2, <2>1, <3>1
    <3>3. q + 1 <= n
      BY <1>0, <1>2, <2>1, <3>2, Multiples
    <3> QED
      BY <1>2, <2>1, <3>3
  <2>3. j \in ((q + 1) - 1) * M + 1 .. end(q + 1)
    <3>1. (q + 1) - 1 = q /\ (q + 1) * M = q * M + M
      BY <1>0, <2>1
    <3>2. end(q + 1) = (q + 1) * M \/ end(q + 1) = L
      BY <1>3, <2>2
    <3>3. end(q + 1) \in Nat /\ q * M \in Nat
      <4>1. end(q + 1) \in Nat
        BY <1>3, <2>2
      <4>2. q * M \in Nat
        BY <1>0, <2>1
      <4> QED
        BY <4>1, <4>2
    <3> HIDE DEF end, L, M
    <3> QED
      BY <1>0, <2>1, <3>1, <3>2, <3>3
  <2>4. addrs[j] \in ToSet(frames[q + 1])
    BY <1>4, <1>6, <2>2, <2>3
  <2> QED
    BY <1>5, <2>2, <2>4 DEF Framed, ToSet
<1>9. ToSet(addrs) \subseteq Framed(frames)
  BY <1>0, <1>8 DEF ToSet
<1>10. Framed(frames) = ToSet(addrs)
  BY <1>7, <1>9
<1> QED
  BY <1>5, <1>10 DEF frames

-----------------------------------------------------------------------------
(* The supply of a pull.                                                   *)

Verified(S) == {a \in S : Verifies(a)}

Before == {"resolve", "learn", "spawn", "hello", "await"}

\* The underlays of the addresses, and the peers in the underlay.
Underlays(s) == {a.underlay : a \in ToSet(s)}
Ids(s) == {a.libp2p : a \in ToSet(s)}

ListsOK ==
  /\ incoming = None \/ incoming \in Seq(Seq(Addrs))
  /\ discovered \in Seq(Addrs) /\ pushed \in Seq(Addrs) /\ todo \in Seq(Addrs)
  /\ active \in Seq({ActivePeer(a) : a \in Addrs})

\* Until an acceptor for a push is up there is nothing.
NothingYet ==
  pc \in Before => incoming = None /\ discovered = <<>> /\ todo = <<>> /\ active = <<>> /\ refused = {}

\* While a push comes in, what verified of it and what is still to come are all of it.
Receiving ==
  pc = "accept" =>
    /\ todo = <<>> /\ active = <<>> /\ refused = {}
    /\ incoming = None => discovered = <<>>
    /\ incoming # None =>
         ToSet(discovered) \cup Verified(Framed(incoming)) = Verified(ToSet(pushed))

\* From the end of the push on: who is to dial and who was dialed and met are
\* wanted, and nobody wanted is missing.
Dialed ==
  pc = "dial" \/ (pc = "pull" /\ mode = "run") =>
    /\ Underlays(todo) \subseteq Wanted(pushed)
    /\ Ids(active) \subseteq met \cap Wanted(pushed)
    /\ ~cut => Wanted(pushed) \subseteq Ids(active) \cup refused \cup Underlays(todo)
    /\ pc = "pull" => todo = <<>>

\* A push is accepted while main waits for one, and never again.
OneAcceptor == "hive" \in live => pc \in {"accept", "report"}

SupplyInv == ListsOK /\ NothingYet /\ Receiving /\ Dialed /\ OneAcceptor

LEMMA SupplyInit == Init => SupplyInv
BY DEF Init, SupplyInv, ListsOK, NothingYet, Receiving, Dialed, OneAcceptor, Before

\* Main moves on before the push, or ends; the lists stay as they are.
LEMMA SupplyIdle ==
  ASSUME SupplyInv, UNCHANGED <<mode, incoming, discovered, pushed, cut, todo, refused, active>>,
         us' = us \/ pc' \in Before, met \subseteq met', live' \subseteq live \cup Tasks,
         \/ pc' = pc
         \/ pc' \in Before /\ pc \in Before
         \/ pc' \in {"report", "reported", "panicked"} /\ (pc' = "report" \/ "hive" \notin live')
         \/ pc' = "pull" /\ mode # "run" /\ "hive" \notin live'
  PROVE  SupplyInv'
<1>1. "hive" \in live' => "hive" \in live
  BY DEF Tasks
<1>2. us' = us => Wanted(pushed)' = Wanted(pushed)
  BY DEF Wanted, Verifies
<1>3. ListsOK' /\ Underlays(todo)' = Underlays(todo) /\ Ids(active)' = Ids(active)
  BY DEF SupplyInv, ListsOK, Underlays, Ids, ActivePeer, Addrs
<1>4. NothingYet'
  BY DEF SupplyInv, NothingYet, Before
<1>5. Receiving'
  <2>1. Verified(Framed(incoming))' = Verified(Framed(incoming)) /\ Verified(ToSet(pushed))' = Verified(ToSet(pushed))
    BY DEF Verified, Framed, Verifies, ToSet
  <2> QED
    BY <2>1 DEF SupplyInv, Receiving, Before, ToSet
<1>6. Dialed'
  BY <1>2, <1>3 DEF SupplyInv, Dialed, Before
<1>7. OneAcceptor'
  BY <1>1 DEF SupplyInv, OneAcceptor, Before
<1> QED
  BY <1>3, <1>4, <1>5, <1>6, <1>7 DEF SupplyInv

\* The members of a list of frames, without its first.
LEMMA FramedTail ==
  ASSUME NEW E, NEW frames \in Seq(Seq(E)), frames # <<>>
  PROVE  /\ Head(frames) \in Seq(E) /\ Tail(frames) \in Seq(Seq(E))
         /\ Framed(frames) = ToSet(Head(frames)) \cup Framed(Tail(frames))
<1>1. /\ Head(frames) \in Seq(E) /\ Tail(frames) \in Seq(Seq(E))
      /\ ToSet(frames) = {Head(frames)} \cup ToSet(Tail(frames))
  BY ToSetTail
<1> QED
  BY <1>1 DEF Framed

LEMMA SupplyFeed ==
  ASSUME SupplyInv, Feed
  PROVE  SupplyInv'
<1> DEFINE batch == Head(incoming)
           good == Among(batch, {a \in Addrs : Verifies(a)})
<1>1. /\ pc = "accept" /\ incoming # None /\ incoming # <<>>
      /\ discovered' = discovered \o good
      /\ incoming' = Tail(incoming)
      /\ UNCHANGED <<mode, pc, us, live, met, pushed, cut, todo, refused, active>>
  BY DEF Feed, worldVars, beeVars, supplyVars
<1>2. incoming \in Seq(Seq(Addrs)) /\ discovered \in Seq(Addrs) /\ pushed \in Seq(Addrs)
  BY <1>1 DEF SupplyInv, ListsOK
<1>3. /\ batch \in Seq(Addrs) /\ Tail(incoming) \in Seq(Seq(Addrs))
      /\ Framed(incoming) = ToSet(batch) \cup Framed(Tail(incoming))
  BY <1>1, <1>2, FramedTail
<1> HIDE DEF batch
<1>4. good \in Seq(Addrs) /\ ToSet(good) = ToSet(batch) \cap {a \in Addrs : Verifies(a)}
  BY <1>3, AmongFacts
<1>5. ToSet(batch) \subseteq Addrs
  BY <1>3 DEF ToSet
<1>6. ToSet(good) = Verified(ToSet(batch))
  BY <1>4, <1>5 DEF Verified
<1> HIDE DEF good
<1>7. discovered' \in Seq(Addrs) /\ ToSet(discovered') = ToSet(discovered) \cup ToSet(good)
  BY <1>1, <1>2, <1>4, ToSetConcat
<1>8. Verified(Framed(incoming)) = Verified(ToSet(batch)) \cup Verified(Framed(Tail(incoming)))
  BY <1>3 DEF Verified
<1>9. incoming' # None
  BY <1>1, <1>3, AssemblyConstants
<1>10. ListsOK'
  BY <1>1, <1>3, <1>7 DEF SupplyInv, ListsOK, Addrs, ActivePeer
<1>11. Receiving'
  <2>1. ToSet(discovered) \cup Verified(Framed(incoming)) = Verified(ToSet(pushed))
    BY <1>1 DEF SupplyInv, Receiving
  <2>2. ToSet(discovered') \cup Verified(Framed(incoming')) = Verified(ToSet(pushed))
    BY <1>1, <1>6, <1>7, <1>8, <2>1
  <2>3. /\ ToSet(discovered)' = ToSet(discovered') /\ ToSet(pushed)' = ToSet(pushed)
        /\ Verified(ToSet(pushed))' = Verified(ToSet(pushed))
        /\ Verified(Framed(incoming))' = Verified(Framed(incoming'))
    BY <1>1 DEF ToSet, Verified, Framed, Verifies
  <2> QED
    BY <1>1, <1>9, <2>2, <2>3 DEF SupplyInv, Receiving
<1>12. NothingYet' /\ Dialed' /\ OneAcceptor'
  BY <1>1 DEF SupplyInv, NothingYet, Dialed, OneAcceptor, Before
<1> QED
  BY <1>10, <1>11, <1>12 DEF SupplyInv

\* The stream ended: the neighbours among what verified are dialed.
LEMMA SupplyFeedEnds ==
  ASSUME SupplyInv, FeedEnds
  PROVE  SupplyInv'
<1> DEFINE near == {a \in Addrs : IsNeighbour(us, Radius, a.overlay) /\ a.underlay # None}
<1>1. /\ pc = "accept" /\ incoming # None /\ cut' = (incoming # <<>>)
      /\ todo' = Among(discovered, near)
      /\ live' = live \ {"hive"} /\ incoming' = None /\ pc' = "dial"
      /\ UNCHANGED <<mode, us, met, pushed, discovered, refused, active>>
  BY DEF FeedEnds, SelectNeighbours, worldVars, beeVars
<1>2. /\ discovered \in Seq(Addrs) /\ pushed \in Seq(Addrs) /\ active = <<>> /\ refused = {}
      /\ ToSet(discovered) \cup Verified(Framed(incoming)) = Verified(ToSet(pushed))
  BY <1>1 DEF SupplyInv, ListsOK, Receiving
<1> HIDE DEF near
<1>3. todo' \in Seq(Addrs) /\ ToSet(todo') = ToSet(discovered) \cap near
  BY <1>1, <1>2, AmongFacts
<1>4. ToSet(pushed) \subseteq Addrs
  BY <1>2 DEF ToSet
<1>5. Wanted(pushed) = {a.underlay : a \in Verified(ToSet(pushed)) \cap near}
  BY <1>4 DEF Wanted, Verified, near
<1>6. {a.underlay : a \in ToSet(todo')} \subseteq Wanted(pushed)
  BY <1>2, <1>3, <1>5
<1>7. ASSUME ~cut' PROVE Wanted(pushed) \subseteq {a.underlay : a \in ToSet(todo')}
  <2>1. incoming = <<>>
    BY <1>1, <1>7
  <2>2. Framed(incoming) = {}
    BY <2>1 DEF Framed, ToSet
  <2>3. Verified(ToSet(pushed)) = ToSet(discovered)
    BY <1>2, <2>2 DEF Verified
  <2> QED
    BY <1>3, <1>5, <2>3
<1>8. Wanted(pushed)' = Wanted(pushed)
  BY <1>1 DEF Wanted, Verifies
<1>9. Underlays(todo)' = {a.underlay : a \in ToSet(todo')} /\ Ids(active)' = {}
  BY <1>1, <1>2 DEF Underlays, Ids, ToSet
<1>10. Dialed'
  BY <1>1, <1>6, <1>7, <1>8, <1>9 DEF Dialed
<1>11. ListsOK'
  BY <1>1, <1>3 DEF SupplyInv, ListsOK, Addrs, ActivePeer
<1>12. NothingYet' /\ Receiving' /\ OneAcceptor'
  BY <1>1 DEF NothingYet, Receiving, OneAcceptor, Before
<1> QED
  BY <1>10, <1>11, <1>12 DEF SupplyInv

LEMMA SupplyDial ==
  ASSUME SupplyInv, DialNeighbour
  PROVE  SupplyInv'
<1> DEFINE n == Head(todo)
<1>1. /\ pc = "dial" /\ todo # <<>> /\ todo' = Tail(todo)
      /\ UNCHANGED <<mode, pc, us, live, incoming, pushed, cut, discovered>>
      /\ \/ /\ met' = met \cup {n.underlay} /\ refused' = refused
            /\ active' = Append(active, ActivePeer(n))
         \/ met' = met /\ refused' = refused \cup {n.underlay} /\ active' = active
  BY DEF DialNeighbour, Meet, Target, worldVars, hiveVars, beeVars
<1>2. todo \in Seq(Addrs) /\ active \in Seq({ActivePeer(a) : a \in Addrs})
  BY DEF SupplyInv, ListsOK
<1>3. n \in Addrs /\ Tail(todo) \in Seq(Addrs) /\ ToSet(todo) = {n} \cup ToSet(Tail(todo))
  BY <1>1, <1>2, ToSetTail
<1> HIDE DEF n
<1>4. Underlays(todo) = {n.underlay} \cup Underlays(Tail(todo))
  BY <1>3 DEF Underlays
<1>5. ASSUME active' = Append(active, ActivePeer(n))
      PROVE  /\ active' \in Seq({ActivePeer(a) : a \in Addrs})
             /\ Ids(active') = Ids(active) \cup {n.underlay}
  <2>1. ToSet(active') = ToSet(active) \cup {ActivePeer(n)}
    BY <1>2, <1>5, ToSetAppend
  <2>2. ActivePeer(n).libp2p = n.underlay /\ ActivePeer(n) \in {ActivePeer(a) : a \in Addrs}
    BY <1>3 DEF ActivePeer
  <2>3. Ids(active') = Ids(active) \cup {n.underlay}
    BY <2>1, <2>2 DEF Ids
  <2> QED
    BY <1>2, <1>5, <2>2, <2>3
<1>6. /\ active' \in Seq({ActivePeer(a) : a \in Addrs})
      /\ Ids(active') \cup refused' = Ids(active) \cup refused \cup {n.underlay}
      /\ \/ Ids(active') = Ids(active) \cup {n.underlay} /\ met' = met \cup {n.underlay}
         \/ Ids(active') = Ids(active) /\ met' = met
  <2>1. CASE active' = Append(active, ActivePeer(n)) /\ met' = met \cup {n.underlay} /\ refused' = refused
    BY <1>5, <2>1
  <2>2. CASE met' = met /\ refused' = refused \cup {n.underlay} /\ active' = active
    BY <1>2, <2>2
  <2> QED
    BY <1>1, <2>1, <2>2
<1>7. /\ Underlays(todo) \subseteq Wanted(pushed)
      /\ Ids(active) \subseteq met \cap Wanted(pushed)
      /\ ~cut => Wanted(pushed) \subseteq Ids(active) \cup refused \cup Underlays(todo)
  BY <1>1 DEF SupplyInv, Dialed
<1>8. /\ Underlays(Tail(todo)) \subseteq Wanted(pushed)
      /\ Ids(active') \subseteq met' \cap Wanted(pushed)
      /\ ~cut => Wanted(pushed) \subseteq Ids(active') \cup refused' \cup Underlays(Tail(todo))
  BY <1>4, <1>6, <1>7
<1>9. /\ Wanted(pushed)' = Wanted(pushed)
      /\ Underlays(todo)' = Underlays(Tail(todo)) /\ Ids(active)' = Ids(active')
  BY <1>1 DEF Wanted, Verifies, Underlays, Ids, ToSet
<1>10. Dialed'
  BY <1>1, <1>8, <1>9 DEF Dialed
<1>11. ListsOK'
  BY <1>1, <1>3, <1>6 DEF SupplyInv, ListsOK, Addrs, ActivePeer
<1>12. NothingYet' /\ Receiving' /\ OneAcceptor'
  BY <1>1 DEF SupplyInv, NothingYet, Receiving, OneAcceptor, Before
<1> QED
  BY <1>10, <1>11, <1>12 DEF SupplyInv

LEMMA SupplyPull ==
  ASSUME SupplyInv, Pull
  PROVE  SupplyInv'
<1>1. /\ pc = "dial" /\ todo = <<>> /\ pc' \in {"panicked", "pull"}
      /\ UNCHANGED <<mode, us, live, met, incoming, pushed, cut, discovered, todo, refused, active>>
  BY DEF Pull, worldVars, hiveVars, beeVars
<1>2. Wanted(pushed)' = Wanted(pushed) /\ Underlays(todo)' = Underlays(todo) /\ Ids(active)' = Ids(active)
  BY <1>1 DEF Wanted, Verifies, Underlays, Ids, ToSet
<1>3. Dialed'
  BY <1>1, <1>2 DEF SupplyInv, Dialed
<1>4. ListsOK'
  BY <1>1 DEF SupplyInv, ListsOK, Addrs, ActivePeer
<1>5. NothingYet' /\ Receiving' /\ OneAcceptor'
  BY <1>1 DEF SupplyInv, NothingYet, Receiving, OneAcceptor, Before
<1> QED
  BY <1>3, <1>4, <1>5 DEF SupplyInv

LEMMA SupplyAccept ==
  ASSUME SupplyInv, AcceptHive
  PROVE  SupplyInv'
<1>1. /\ pc = "await" /\ pc' = "accept"
      /\ UNCHANGED <<mode, us, met, incoming, pushed, cut, discovered, todo, refused, active>>
  BY DEF AcceptHive, worldVars, hiveVars, beeVars, supplyVars
<1>2. ListsOK'
  BY <1>1 DEF SupplyInv, ListsOK, Addrs, ActivePeer
<1>3. NothingYet' /\ Receiving' /\ Dialed' /\ OneAcceptor'
  BY <1>1 DEF SupplyInv, NothingYet, Receiving, Dialed, OneAcceptor, Before
<1> QED
  BY <1>2, <1>3 DEF SupplyInv

\* A push that finds the acceptor is the first: nothing was received before.
LEMMA SupplyPush ==
  ASSUME SupplyInv, NEW p \in Peers, NEW addrs \in Pushes, BeePush(p, addrs)
  PROVE  SupplyInv'
<1>1. /\ UNCHANGED <<mode, pc, us, live, met, cut, discovered, todo, refused, active>>
      /\ \/ /\ "hive" \in live /\ incoming = None
            /\ incoming' = BroadcastFrames(addrs) /\ pushed' = addrs
         \/ UNCHANGED <<incoming, pushed>>
  BY DEF BeePush, worldVars, beeVars, supplyVars
<1>2. CASE UNCHANGED <<incoming, pushed>>
  BY <1>1, <1>2, SupplyIdle
<1>3. CASE "hive" \in live /\ incoming = None /\ incoming' = BroadcastFrames(addrs) /\ pushed' = addrs
  <2>1. addrs \in Seq(Addrs)
    BY AssemblyConstants
  <2>2. incoming' \in Seq(Seq(Addrs)) /\ Framed(incoming') = ToSet(addrs)
    BY <1>3, <2>1, FramesCover
  <2>3. pc \in {"accept", "report"}
    BY <1>3 DEF SupplyInv, OneAcceptor
  <2>4. ListsOK'
    BY <1>1, <1>3, <2>1, <2>2 DEF SupplyInv, ListsOK, Addrs, ActivePeer
  <2>5. Receiving'
    <3>1. SUFFICES ASSUME pc = "accept" PROVE Receiving'
      BY <1>1, <2>3 DEF Receiving
    <3>2. todo = <<>> /\ active = <<>> /\ refused = {} /\ discovered = <<>>
      BY <1>3, <3>1 DEF SupplyInv, Receiving
    <3>3. /\ ToSet(discovered)' = {}
          /\ Verified(Framed(incoming))' = Verified(ToSet(addrs))
          /\ Verified(ToSet(pushed))' = Verified(ToSet(addrs))
      <4>1. ToSet(discovered)' = {}
        BY <1>1, <3>2 DEF ToSet
      <4>2. Verified(Framed(incoming))' = Verified(Framed(incoming'))
        BY DEF Framed, Verified, Verifies, ToSet
      <4>3. Verified(ToSet(pushed))' = Verified(ToSet(addrs))
        BY <1>3 DEF Verified, Verifies, ToSet
      <4> QED
        BY <2>2, <4>1, <4>2, <4>3
    <3> QED
      BY <1>1, <3>2, <3>3 DEF Receiving
  <2>6. NothingYet' /\ Dialed' /\ OneAcceptor'
    BY <1>1, <2>3 DEF NothingYet, Dialed, OneAcceptor, Before
  <2> QED
    BY <2>4, <2>5, <2>6 DEF SupplyInv
<1> QED
  BY <1>1, <1>2, <1>3

LEMMA SupplyNext == SupplyInv /\ [Next]_vars => SupplyInv'
<1> SUFFICES ASSUME SupplyInv, [Next]_vars PROVE SupplyInv'
  OBVIOUS
<1> USE DEF worldVars, beeVars, supplyVars, hiveVars
<1>1. CASE Resolving
  BY <1>1, SupplyIdle DEF Resolving
<1>2. CASE ResolveBootnode
  <2>1. /\ pc = "resolve" /\ pc' \in {"learn", "panicked"}
        /\ UNCHANGED <<mode, us, live, met, incoming, discovered, pushed, cut, todo, refused, active>>
    BY <1>2 DEF ResolveBootnode
  <2>2. "hive" \notin live
    BY <2>1 DEF SupplyInv, OneAcceptor
  <2> QED
    BY <2>1, <2>2, SupplyIdle DEF Before
<1>3. ASSUME NEW a \in DOMAIN PeerAt, ConfiguredBootnode(a) PROVE SupplyInv'
  BY <1>3, SupplyIdle DEF ConfiguredBootnode, Before
<1>4. CASE TryAgain
  BY <1>4, SupplyIdle DEF TryAgain
<1>5. CASE LearnOverlay
  <2>1. /\ pc = "learn" /\ (pc' = "spawn" \/ (pc' = "panicked" /\ us' = us))
        /\ UNCHANGED <<mode, live, met, incoming, discovered, pushed, cut, todo, refused, active>>
    BY <1>5 DEF LearnOverlay
  <2>2. "hive" \notin live
    BY <2>1 DEF SupplyInv, OneAcceptor
  <2> QED
    BY <2>1, <2>2, SupplyIdle DEF Before
<1>6. CASE Spawn
  BY <1>6, SupplyIdle DEF Spawn, Before
<1>7. CASE HandshakeBoot
  <2>1. /\ pc = "hello" /\ (pc' = "await" \/ pc' = "report" \/ (pc' = "pull" /\ mode # "run"))
        /\ met \subseteq met'
        /\ UNCHANGED <<mode, us, live, incoming, discovered, pushed, cut, todo, refused, active>>
    BY <1>7 DEF HandshakeBoot, Meet
  <2>2. "hive" \notin live
    BY <2>1 DEF SupplyInv, OneAcceptor
  <2> QED
    BY <2>1, <2>2, SupplyIdle DEF Before
<1>8. CASE AcceptHive
  BY <1>8, SupplyAccept
<1>9. CASE Feed
  BY <1>9, SupplyFeed
<1>10. CASE FeedEnds
  BY <1>10, SupplyFeedEnds
<1>11. CASE DialNeighbour
  BY <1>11, SupplyDial
<1>12. CASE Pull
  BY <1>12, SupplyPull
<1>13. CASE PullEnds
  BY <1>13, SupplyIdle DEF PullEnds
<1>14. CASE Report
  BY <1>14, SupplyIdle DEF Report
<1>15. ASSUME NEW t \in Tasks, StartTask(t) PROVE SupplyInv'
  BY <1>15, SupplyIdle DEF StartTask
<1>16. CASE Timeout
  BY <1>16, SupplyIdle DEF Timeout
<1>17. ASSUME NEW p \in Peers, NEW what \in {"pricing", "handshake"}, BeeCalls(p, what)
       PROVE  SupplyInv'
  BY <1>17, SupplyIdle DEF BeeCalls
<1>18. ASSUME NEW p \in Peers, NEW addrs \in Pushes, BeePush(p, addrs) PROVE SupplyInv'
  BY <1>18, SupplyPush
<1>19. CASE UNCHANGED vars
  BY <1>19, SupplyIdle DEF vars
<1> QED
  BY <1>1, <1>2, <1>3, <1>4, <1>5, <1>6, <1>7, <1>8, <1>9, <1>10, <1>11, <1>12, <1>13, <1>14,
     <1>15, <1>16, <1>17, <1>18, <1>19
  DEF Next, MainStep

-----------------------------------------------------------------------------
(* The supply comes in the order of the push.                              *)

\* f places the members of s in t, in t's order.
Increasing(f) == \A i, j \in DOMAIN f : i < j => f[i] < f[j]
Places(f, s, t) ==
  /\ f \in [DOMAIN s -> DOMAIN t]
  /\ Increasing(f)
  /\ \A i \in DOMAIN s : s[i] = t[f[i]]

\* One more member, from further down.
LEMMA PlacesAppend ==
  ASSUME NEW E, NEW s \in Seq(E), NEW t \in Seq(E), NEW f, Places(f, s, t),
         NEW k \in DOMAIN t, \A i \in DOMAIN s : f[i] < k
  PROVE  Places([i \in 1 .. Len(s) + 1 |-> IF i <= Len(s) THEN f[i] ELSE k], Append(s, t[k]), t)
<1> DEFINE h == [i \in 1 .. Len(s) + 1 |-> IF i <= Len(s) THEN f[i] ELSE k]
           u == Append(s, t[k])
<1>1. Len(s) \in Nat /\ DOMAIN s = 1 .. Len(s) /\ Len(t) \in Nat /\ DOMAIN t = 1 .. Len(t)
  OBVIOUS
<1>2. DOMAIN u = 1 .. Len(s) + 1
  OBVIOUS
<1>3. u[Len(s) + 1] = t[k] /\ \A i \in 1 .. Len(s) : u[i] = s[i]
  OBVIOUS
<1> HIDE DEF u
<1>4. f \in [DOMAIN s -> DOMAIN t] /\ Increasing(f) /\ \A i \in DOMAIN s : s[i] = t[f[i]]
  BY DEF Places
<1>5. h \in [1 .. Len(s) + 1 -> DOMAIN t]
  BY <1>1, <1>4
<1>6. \A i \in 1 .. Len(s) : h[i] = f[i]
  BY <1>1
<1>7. h[Len(s) + 1] = k
  BY <1>1
<1> HIDE DEF h
<1>8. \A i \in 1 .. Len(s) + 1 : i \in 1 .. Len(s) \/ i = Len(s) + 1
  BY <1>1
<1>9. Increasing(h)
  <2> SUFFICES ASSUME NEW i \in 1 .. Len(s) + 1, NEW j \in 1 .. Len(s) + 1, i < j PROVE h[i] < h[j]
    BY <1>5 DEF Increasing
  <2>1. i \in 1 .. Len(s)
    BY <1>1
  <2>2. CASE j \in 1 .. Len(s)
    BY <1>1, <1>4, <1>6, <2>1, <2>2 DEF Increasing
  <2>3. CASE j = Len(s) + 1
    BY <1>1, <1>6, <1>7, <2>1, <2>3
  <2> QED
    BY <1>8, <2>2, <2>3
<1>10. \A i \in 1 .. Len(s) + 1 : u[i] = t[h[i]]
  BY <1>1, <1>3, <1>4, <1>6, <1>7, <1>8
<1> QED
  BY <1>2, <1>5, <1>9, <1>10 DEF Places, h, u

\* The filter of a list takes its members in order.
LEMMA AmongPlaces ==
  ASSUME NEW E, NEW list \in Seq(E), NEW S
  PROVE  \E f : Places(f, Among(list, S), list)
<1> DEFINE N == Len(list)
           upto == CHOOSE g : Filters(g, list, S, N)
           Good(i) == /\ upto[i] \in Seq(E)
                      /\ \E f : Places(f, upto[i], list) /\ \A k \in DOMAIN upto[i] : f[k] <= i
<1>0. N \in Nat /\ DOMAIN list = 1 .. N
  OBVIOUS
<1>1. Filters(upto, list, S, N)
  BY <1>0, AmongRuns
<1>2. Among(list, S) = upto[N]
  BY DEF Among, Taken, Filters
<1> HIDE DEF upto, N
<1>3. ASSUME NEW i \in 0 .. N
      PROVE  upto[i] = IF i = 0 THEN <<>> ELSE Taken(list, S, upto[i - 1], i)
  BY <1>1 DEF Filters
<1>4. \A i \in 0 .. N : Good(i)
  <2> DEFINE bad == {i \in 0 .. N : ~Good(i)}
  <2> SUFFICES ASSUME bad # {} PROVE FALSE
    OBVIOUS
  <2>1. bad \in SUBSET Nat
    BY <1>0
  <2> HIDE DEF Good
  <2>2. PICK i \in bad : \A y \in bad : i <= y
    BY <2>1, LeastMember
  <2>3. i \in 0 .. N /\ ~Good(i)
    BY <2>2
  <2>4. i # 0
    <3>1. upto[0] = <<>> /\ DOMAIN <<>> = {}
      BY <1>0, <1>3
    <3>2. Places(<<>>, <<>>, list)
      BY DEF Places, Increasing
    <3>3. Good(0)
      BY <3>1, <3>2 DEF Good
    <3> QED
      BY <2>3, <3>3
  <2>5. i - 1 \in 0 .. N /\ ~(i <= i - 1) /\ i \in 1 .. N
    BY <1>0, <2>3, <2>4
  <2>6. Good(i - 1)
    BY <2>2, <2>5
  <2>7. upto[i] = Taken(list, S, upto[i - 1], i)
    BY <1>3, <2>3, <2>4
  <2> DEFINE old == upto[i - 1]
  <2>8. /\ old \in Seq(E)
        /\ \E f : Places(f, old, list) /\ \A k \in DOMAIN old : f[k] <= i - 1
    BY <2>6 DEF Good
  <2> HIDE DEF old
  <2>9. PICK f : Places(f, old, list) /\ \A k \in DOMAIN old : f[k] <= i - 1
    BY <2>8
  <2>10. \A k \in DOMAIN old : f[k] \in 1 .. N
    BY <1>0, <2>9 DEF Places
  <2>11. \A k \in DOMAIN old : f[k] < i /\ f[k] <= i
    BY <1>0, <2>5, <2>9, <2>10
  <2>12. CASE list[i] \in S
    <3> DEFINE h == [k \in 1 .. Len(old) + 1 |-> IF k <= Len(old) THEN f[k] ELSE i]
    <3>1. upto[i] = Append(old, list[i]) /\ list[i] \in E
      BY <1>0, <2>5, <2>7, <2>12 DEF Taken, old
    <3>2. Places(h, upto[i], list)
      BY <1>0, <2>5, <2>8, <2>9, <2>11, <3>1, PlacesAppend
    <3>3. DOMAIN upto[i] = 1 .. Len(old) + 1 /\ upto[i] \in Seq(E) /\ DOMAIN old = 1 .. Len(old) /\ Len(old) \in Nat
      BY <2>8, <3>1
    <3>4. \A k \in DOMAIN upto[i] : h[k] <= i
      BY <2>5, <2>11, <3>3
    <3> HIDE DEF h
    <3> QED
      BY <2>3, <3>2, <3>3, <3>4 DEF Good
  <2>13. CASE list[i] \notin S
    <3>1. upto[i] = old
      BY <2>7, <2>13 DEF Taken, old
    <3> QED
      BY <2>3, <2>8, <2>9, <2>11, <3>1 DEF Good
  <2> QED
    BY <2>12, <2>13
<1>5. Good(N)
  BY <1>0, <1>4
<1> QED
  BY <1>2, <1>5

\* What is placed in a list that is placed in another is placed there.
LEMMA PlacesThrough ==
  ASSUME NEW E, NEW s \in Seq(E), NEW t \in Seq(E), NEW u \in Seq(E), NEW f, NEW g,
         Places(f, s, t), Places(g, t, u)
  PROVE  Places([i \in DOMAIN s |-> g[f[i]]], s, u)
<1>1. f \in [DOMAIN s -> DOMAIN t] /\ g \in [DOMAIN t -> DOMAIN u]
  BY DEF Places
<1>2. DOMAIN s \subseteq Int /\ DOMAIN t \subseteq Int
  OBVIOUS
<1> QED
  BY <1>1, <1>2 DEF Places, Increasing

\* One list after another, placed further down.
LEMMA PlacesConcat ==
  ASSUME NEW E, NEW s \in Seq(E), NEW t \in Seq(E), NEW u \in Seq(E), NEW f, NEW e,
         Places(f, s, u), Places(e, t, u),
         \A i \in DOMAIN s : \A j \in DOMAIN t : f[i] < e[j]
  PROVE  Places([i \in 1 .. Len(s) + Len(t) |-> IF i <= Len(s) THEN f[i] ELSE e[i - Len(s)]], s \o t, u)
<1> DEFINE n == Len(s)
           m == Len(t)
           h == [i \in 1 .. n + m |-> IF i <= n THEN f[i] ELSE e[i - n]]
           c == s \o t
<1>1. /\ n \in Nat /\ DOMAIN s = 1 .. n /\ m \in Nat /\ DOMAIN t = 1 .. m
      /\ Len(u) \in Nat /\ DOMAIN u = 1 .. Len(u)
  OBVIOUS
<1>2. DOMAIN c = 1 .. n + m
  OBVIOUS
<1>3. \A i \in 1 .. n : c[i] = s[i]
  OBVIOUS
<1>4. \A i \in 1 .. n + m : ~(i <= n) => c[i] = t[i - n]
  OBVIOUS
<1> HIDE DEF c, n, m
<1>5. /\ f \in [1 .. n -> DOMAIN u] /\ Increasing(f) /\ \A i \in 1 .. n : s[i] = u[f[i]]
      /\ e \in [1 .. m -> DOMAIN u] /\ Increasing(e) /\ \A i \in 1 .. m : t[i] = u[e[i]]
  BY <1>1 DEF Places
<1>6. \A i \in 1 .. n + m : ~(i <= n) => i - n \in 1 .. m
  BY <1>1
<1>7. \A i \in 1 .. n + m : i <= n => i \in 1 .. n
  BY <1>1
<1>8. h \in [1 .. n + m -> DOMAIN u]
  BY <1>5, <1>6, <1>7
<1>9. \A i \in 1 .. n + m : h[i] = IF i <= n THEN f[i] ELSE e[i - n]
  OBVIOUS
<1> HIDE DEF h
<1>10. Increasing(h)
  <2> SUFFICES ASSUME NEW i \in 1 .. n + m, NEW j \in 1 .. n + m, i < j PROVE h[i] < h[j]
    BY <1>8 DEF Increasing
  <2>1. CASE j <= n
    <3>1. i \in 1 .. n /\ j \in 1 .. n /\ i <= n
      BY <1>1, <2>1
    <3> QED
      BY <1>5, <1>9, <2>1, <3>1 DEF Increasing
  <2>2. CASE i <= n /\ ~(j <= n)
    BY <1>1, <1>6, <1>7, <1>9, <2>2
  <2>3. CASE ~(i <= n)
    <3>1. i - n \in 1 .. m /\ j - n \in 1 .. m /\ i - n < j - n /\ ~(j <= n)
      BY <1>1, <1>6, <2>3
    <3> QED
      BY <1>5, <1>9, <2>3, <3>1 DEF Increasing
  <2> QED
    BY <2>1, <2>2, <2>3
<1>11. \A i \in 1 .. n + m : c[i] = u[h[i]]
  BY <1>3, <1>4, <1>5, <1>6, <1>7, <1>9
<1> QED
  BY <1>2, <1>8, <1>10, <1>11 DEF Places, h, c, n, m

\* The frames hold the list in its order from behind pos on, a batch each.
Framing(frames, list, pos) ==
  \A k \in DOMAIN frames : \A i \in DOMAIN frames[k] :
    /\ i \in 1 .. MaxBatch
    /\ pos + (k - 1) * MaxBatch + i \in DOMAIN list
    /\ frames[k][i] = list[pos + (k - 1) * MaxBatch + i]

\* What was received of the list is in its order, up to pos.
Received(f, found, list, pos) ==
  Places(f, found, list) /\ \A i \in DOMAIN found : f[i] <= pos

\* Who was dialed and met, and behind them who is still to dial, are in the order
\* of the list.
Dials(f, g, met_, rest, list) ==
  /\ f \in [DOMAIN met_ -> DOMAIN list] /\ Increasing(f)
  /\ \A i \in DOMAIN met_ : met_[i] = ActivePeer(list[f[i]])
  /\ Places(g, rest, list)
  /\ \A i \in DOMAIN met_ : \A j \in DOMAIN rest : f[i] < g[j]

DrawnInv ==
  /\ pc = "accept" /\ incoming # None =>
       \E pos \in Nat : \E f : Received(f, discovered, pushed, pos) /\ Framing(incoming, pushed, pos)
  /\ pc = "dial" \/ (pc = "pull" /\ mode = "run") =>
       \E f, g : Dials(f, g, active, todo, pushed)

\* Priming acts on the lists.
LEMMA DrawnPrime ==
  /\ \A f, pos : Received(f, discovered, pushed, pos)' <=> Received(f, discovered', pushed', pos)
  /\ \A pos : Framing(incoming, pushed, pos)' <=> Framing(incoming', pushed', pos)
  /\ \A f, g : Dials(f, g, active, todo, pushed)' <=> Dials(f, g, active', todo', pushed')
BY DEF Received, Framing, Dials, Places, Increasing, ActivePeer

LEMMA DrawnIdle ==
  ASSUME DrawnInv, UNCHANGED <<mode, incoming, discovered, pushed, todo, active>>,
         pc' = pc \/ pc' \notin {"accept", "dial", "pull"} \/ (pc' = "pull" /\ mode # "run")
  PROVE  DrawnInv'
BY DEF DrawnInv, Received, Framing, Dials, Places, Increasing, ActivePeer

\* The first frame of a push is at its start.
LEMMA FramesPlace ==
  ASSUME NEW E, NEW addrs \in Seq(E)
  PROVE  Framing(BroadcastFrames(addrs), addrs, 0)
<1> DEFINE L == Len(addrs)
           M == MaxBatch
           n == (L + M - 1) \div M
           end(k) == IF k * M < L THEN k * M ELSE L
<1>0. L \in Nat /\ M \in Nat \ {0} /\ DOMAIN addrs = 1 .. L
  BY AssemblyConstants
<1>1. BroadcastFrames(addrs) = [k \in 1 .. n |-> SubSeq(addrs, (k - 1) * M + 1, end(k))]
  BY DEF BroadcastFrames
<1>2. n \in Nat /\ n * M <= L + M - 1 /\ L + M - 1 < n * M + M
  <2>1. L + M - 1 \in Nat
    BY <1>0
  <2> HIDE DEF L, M
  <2> QED
    BY <1>0, <2>1, Division
<1> HIDE DEF n
<1>3. ASSUME NEW k \in 1 .. n, NEW i \in DOMAIN BroadcastFrames(addrs)[k]
      PROVE  /\ i \in 1 .. MaxBatch
             /\ 0 + (k - 1) * MaxBatch + i \in DOMAIN addrs
             /\ BroadcastFrames(addrs)[k][i] = addrs[0 + (k - 1) * MaxBatch + i]
  <2> DEFINE low == (k - 1) * M
             high == end(k)
  <2>1. low \in Nat /\ k * M = low + M
    BY <1>0, <1>2
  <2>2. high \in Nat /\ high <= L /\ high <= low + M
    <3> HIDE DEF L, M, low
    <3> QED
      BY <1>0, <2>1
  <2>3. BroadcastFrames(addrs)[k] = SubSeq(addrs, low + 1, high)
    BY <1>1
  <2> HIDE DEF low, high, L
  <2>4. SubSeq(addrs, low + 1, high) = [j \in 1 .. high - low |-> addrs[low + j]]
    BY <1>0, <2>1, <2>2 DEF L
  <2>5. i \in 1 .. high - low /\ BroadcastFrames(addrs)[k][i] = addrs[low + i]
    BY <2>3, <2>4
  <2>6. i \in 1 .. M /\ low + i \in 1 .. L /\ 0 + low + i = low + i
    BY <1>0, <2>1, <2>2, <2>5
  <2> QED
    BY <1>0, <2>5, <2>6 DEF low
<1>4. DOMAIN BroadcastFrames(addrs) = 1 .. n
  BY <1>1
<1> QED
  BY <1>3, <1>4 DEF Framing

LEMMA DrawnPush ==
  ASSUME SupplyInv, DrawnInv, NEW p \in Peers, NEW addrs \in Pushes, BeePush(p, addrs)
  PROVE  DrawnInv'
<1>1. /\ UNCHANGED <<mode, pc, discovered, todo, active>>
      /\ \/ /\ "hive" \in live /\ incoming = None
            /\ incoming' = BroadcastFrames(addrs) /\ pushed' = addrs
         \/ UNCHANGED <<incoming, pushed>>
  BY DEF BeePush, worldVars, supplyVars
<1>2. CASE UNCHANGED <<incoming, pushed>>
  BY <1>1, <1>2, DrawnIdle
<1>3. CASE "hive" \in live /\ incoming = None /\ incoming' = BroadcastFrames(addrs) /\ pushed' = addrs
  <2>1. pc \in {"accept", "report"} /\ (pc = "accept" => discovered' = <<>>)
    BY <1>1, <1>3 DEF SupplyInv, OneAcceptor, Receiving
  <2>2. addrs \in Seq(Addrs)
    BY AssemblyConstants
  <2>3. Framing(incoming', pushed', 0)
    BY <1>3, <2>2, FramesPlace
  <2>4. Received(<<>>, <<>>, pushed', 0)
    BY DEF Received, Places, Increasing
  <2> QED
    BY <1>1, <2>1, <2>3, <2>4, DrawnPrime DEF DrawnInv
<1> QED
  BY <1>1, <1>2, <1>3

LEMMA DrawnFeed ==
  ASSUME SupplyInv, DrawnInv, Feed
  PROVE  DrawnInv'
<1> DEFINE batch == Head(incoming)
           good == Among(batch, {a \in Addrs : Verifies(a)})
           M == MaxBatch
<1>1. /\ pc = "accept" /\ incoming # None /\ incoming # <<>>
      /\ discovered' = discovered \o good
      /\ incoming' = Tail(incoming)
      /\ UNCHANGED <<pc, pushed>>
  BY DEF Feed
<1>2. incoming \in Seq(Seq(Addrs)) /\ discovered \in Seq(Addrs) /\ pushed \in Seq(Addrs) /\ M \in Nat \ {0}
  BY <1>1, AssemblyConstants DEF SupplyInv, ListsOK
<1>3. batch \in Seq(Addrs) /\ batch = incoming[1] /\ 1 \in DOMAIN incoming
  BY <1>1, <1>2
<1>4. \A k \in DOMAIN Tail(incoming) : k \in Nat /\ k + 1 \in DOMAIN incoming /\ Tail(incoming)[k] = incoming[k + 1]
  BY <1>1, <1>2
<1>0. PICK pos \in Nat : \E f : Received(f, discovered, pushed, pos) /\ Framing(incoming, pushed, pos)
  BY <1>1 DEF DrawnInv
<1>5. PICK f : Received(f, discovered, pushed, pos) /\ Framing(incoming, pushed, pos)
  BY <1>0
<1> HIDE DEF batch, M
<1>6. \A i \in DOMAIN batch : i \in 1 .. M /\ pos + i \in DOMAIN pushed /\ batch[i] = pushed[pos + i]
  <2>1. \A i \in DOMAIN batch : /\ i \in 1 .. M
                                /\ pos + (1 - 1) * M + i \in DOMAIN pushed
                                /\ batch[i] = pushed[pos + (1 - 1) * M + i]
    BY <1>3, <1>5 DEF Framing, M
  <2>2. pos + (1 - 1) * M = pos
    BY <1>2
  <2> QED
    BY <2>1, <2>2
<1>7. good \in Seq(Addrs)
  BY <1>3, AmongFacts
<1>8. PICK h : Places(h, good, batch)
  BY <1>3, AmongPlaces
<1> HIDE DEF good
<1> DEFINE e == [i \in DOMAIN good |-> pos + h[i]]
<1>9. Places(e, good, pushed) /\ \A i \in DOMAIN good : e[i] > pos /\ e[i] <= pos + M
  <2>1. h \in [DOMAIN good -> DOMAIN batch] /\ DOMAIN good \subseteq Int /\ DOMAIN batch \subseteq Int
    BY <1>3, <1>7, <1>8 DEF Places
  <2>2. \A i \in DOMAIN good : h[i] \in 1 .. M /\ good[i] = pushed[pos + h[i]] /\ pos + h[i] \in DOMAIN pushed
    BY <1>6, <1>8, <2>1 DEF Places
  <2>3. \A i, j \in DOMAIN good : i < j => h[i] < h[j]
    BY <1>8, <2>1 DEF Places, Increasing
  <2>4. e \in [DOMAIN good -> DOMAIN pushed] /\ \A i \in DOMAIN good : good[i] = pushed[e[i]]
    BY <2>2
  <2>5. \A i, j \in DOMAIN good : i < j => e[i] < e[j]
    BY <1>2, <2>2, <2>3
  <2>6. \A i \in DOMAIN good : e[i] > pos /\ e[i] <= pos + M
    BY <1>2, <2>2
  <2> QED
    BY <2>4, <2>5, <2>6 DEF Places, Increasing
<1> HIDE DEF e
<1> DEFINE c == [i \in 1 .. Len(discovered) + Len(good) |->
                   IF i <= Len(discovered) THEN f[i] ELSE e[i - Len(discovered)]]
<1>10. /\ f \in [DOMAIN discovered -> DOMAIN pushed] /\ e \in [DOMAIN good -> DOMAIN pushed]
       /\ DOMAIN pushed \subseteq Int
       /\ \A i \in DOMAIN discovered : f[i] <= pos
  BY <1>2, <1>5, <1>9 DEF Received, Places
<1>11. Places(c, discovered \o good, pushed)
  <2>1. \A i \in DOMAIN discovered : \A j \in DOMAIN good : f[i] < e[j]
    BY <1>9, <1>10
  <2> QED
    BY <1>2, <1>5, <1>7, <1>9, <2>1, PlacesConcat DEF Received
<1>12. \A i \in DOMAIN (discovered \o good) : c[i] <= pos + M
  <2> SUFFICES ASSUME NEW i \in 1 .. Len(discovered) + Len(good) PROVE c[i] <= pos + M
    BY <1>2, <1>7
  <2>0. /\ Len(discovered) \in Nat /\ DOMAIN discovered = 1 .. Len(discovered)
        /\ Len(good) \in Nat /\ DOMAIN good = 1 .. Len(good)
    BY <1>2, <1>7
  <2>1. CASE i <= Len(discovered)
    <3>1. i \in DOMAIN discovered /\ c[i] = f[i]
      BY <2>0, <2>1
    <3> HIDE DEF c
    <3> QED
      BY <1>2, <1>10, <3>1
  <2>2. CASE ~(i <= Len(discovered))
    <3>1. i - Len(discovered) \in DOMAIN good /\ c[i] = e[i - Len(discovered)]
      BY <2>0, <2>2
    <3> HIDE DEF c
    <3> QED
      BY <1>9, <3>1
  <2> QED
    BY <2>1, <2>2
<1>13. Received(c, discovered', pushed', pos + M)
  BY <1>1, <1>11, <1>12 DEF Received
<1>14. Framing(incoming', pushed', pos + M)
  <2> SUFFICES ASSUME NEW k \in DOMAIN Tail(incoming), NEW i \in DOMAIN Tail(incoming)[k]
               PROVE  /\ i \in 1 .. M
                      /\ (pos + M) + (k - 1) * M + i \in DOMAIN pushed
                      /\ Tail(incoming)[k][i] = pushed[(pos + M) + (k - 1) * M + i]
    BY <1>1 DEF Framing, M
  <2>1. /\ i \in 1 .. M
        /\ pos + ((k + 1) - 1) * M + i \in DOMAIN pushed
        /\ Tail(incoming)[k][i] = pushed[pos + ((k + 1) - 1) * M + i]
    BY <1>4, <1>5 DEF Framing, M
  <2>2. (k - 1) * M \in Int /\ ((k + 1) - 1) * M = (k - 1) * M + M
    <3>1. k \in Nat
      BY <1>4
    <3>2. \A x, y \in Int : (x - 1) * y \in Int /\ ((x + 1) - 1) * y = (x - 1) * y + y
      OBVIOUS
    <3> QED
      BY <1>2, <3>1, <3>2
  <2>3. pos + ((k + 1) - 1) * M + i = (pos + M) + (k - 1) * M + i
    BY <1>2, <2>1, <2>2
  <2> QED
    BY <2>1, <2>3
<1>15. pos + M \in Nat
  BY <1>2
<1> HIDE DEF c
<1> QED
  BY <1>1, <1>13, <1>14, <1>15, DrawnPrime DEF DrawnInv

LEMMA DrawnFeedEnds ==
  ASSUME SupplyInv, DrawnInv, FeedEnds
  PROVE  DrawnInv'
<1> DEFINE near == {a \in Addrs : IsNeighbour(us, Radius, a.overlay) /\ a.underlay # None}
<1>1. /\ pc = "accept" /\ incoming # None /\ pc' = "dial"
      /\ todo' = Among(discovered, near)
      /\ UNCHANGED <<pushed, active>>
  BY DEF FeedEnds, SelectNeighbours
<1>2. discovered \in Seq(Addrs) /\ pushed \in Seq(Addrs) /\ active = <<>>
  BY <1>1 DEF SupplyInv, ListsOK, Receiving
<1> HIDE DEF near
<1>3. todo' \in Seq(Addrs)
  BY <1>1, <1>2, AmongFacts
<1>4. PICK h : Places(h, todo', discovered)
  BY <1>1, <1>2, AmongPlaces
<1>5. PICK f : Places(f, discovered, pushed)
  BY <1>1 DEF DrawnInv, Received
<1>6. PICK g : Places(g, todo', pushed)
  BY <1>2, <1>3, <1>4, <1>5, PlacesThrough
<1>7. Dials(<<>>, g, active', todo', pushed')
  BY <1>1, <1>2, <1>6 DEF Dials, Increasing
<1> QED
  BY <1>1, <1>7, DrawnPrime DEF DrawnInv

LEMMA DrawnDial ==
  ASSUME SupplyInv, DrawnInv, DialNeighbour
  PROVE  DrawnInv'
<1> DEFINE n == Head(todo)
<1>1. /\ pc = "dial" /\ todo # <<>> /\ todo' = Tail(todo)
      /\ UNCHANGED <<pc, pushed>>
      /\ active' = Append(active, ActivePeer(n)) \/ active' = active
  BY DEF DialNeighbour, hiveVars
<1>2. /\ todo \in Seq(Addrs) /\ active \in Seq({ActivePeer(a) : a \in Addrs}) /\ pushed \in Seq(Addrs)
  BY DEF SupplyInv, ListsOK
<1>3. PICK f, g : Dials(f, g, active, todo, pushed)
  BY <1>1 DEF DrawnInv
<1>4. /\ f \in [DOMAIN active -> DOMAIN pushed] /\ Increasing(f)
      /\ \A i \in DOMAIN active : active[i] = ActivePeer(pushed[f[i]])
      /\ g \in [DOMAIN todo -> DOMAIN pushed] /\ Increasing(g)
      /\ \A j \in DOMAIN todo : todo[j] = pushed[g[j]]
      /\ \A i \in DOMAIN active : \A j \in DOMAIN todo : f[i] < g[j]
  BY <1>3 DEF Dials, Places
<1>5. /\ 1 \in DOMAIN todo /\ n = todo[1]
      /\ \A j \in DOMAIN Tail(todo) : j \in Nat \ {0} /\ j + 1 \in DOMAIN todo /\ Tail(todo)[j] = todo[j + 1]
      /\ DOMAIN pushed \subseteq Int
  BY <1>1, <1>2
<1> HIDE DEF n
<1> DEFINE h == [j \in DOMAIN Tail(todo) |-> g[j + 1]]
<1>6. Places(h, Tail(todo), pushed)
  BY <1>4, <1>5 DEF Places, Increasing
<1>7. \A j \in DOMAIN Tail(todo) : h[j] = g[j + 1] /\ h[j] > g[1]
  BY <1>4, <1>5 DEF Increasing
<1> HIDE DEF h
<1>8. CASE active' = active
  <2>1. \A i \in DOMAIN active : \A j \in DOMAIN Tail(todo) : f[i] < h[j]
    BY <1>4, <1>5, <1>7
  <2>2. Dials(f, h, active', todo', pushed')
    BY <1>1, <1>4, <1>6, <1>8, <2>1 DEF Dials
  <2> QED
    BY <1>1, <2>2, DrawnPrime DEF DrawnInv
<1>9. CASE active' = Append(active, ActivePeer(n))
  <2> DEFINE N == Len(active)
             e == [i \in 1 .. N + 1 |-> IF i <= N THEN f[i] ELSE g[1]]
  <2>1. N \in Nat /\ DOMAIN active = 1 .. N
    BY <1>2
  <2>2. /\ DOMAIN active' = 1 .. N + 1 /\ active'[N + 1] = ActivePeer(n)
        /\ \A i \in 1 .. N : active'[i] = active[i]
    BY <1>2, <1>9
  <2> HIDE DEF N
  <2>3. \A i \in 1 .. N + 1 : i \in 1 .. N \/ i = N + 1
    BY <2>1
  <2>4. e[N + 1] = g[1] /\ \A i \in 1 .. N : e[i] = f[i]
    BY <2>1
  <2>5. e \in [1 .. N + 1 -> DOMAIN pushed]
    BY <1>4, <1>5, <2>1, <2>3
  <2> HIDE DEF e
  <2>6. Increasing(e)
    <3> SUFFICES ASSUME NEW i \in 1 .. N + 1, NEW j \in 1 .. N + 1, i < j PROVE e[i] < e[j]
      BY <2>5 DEF Increasing
    <3>1. i \in 1 .. N
      BY <2>1
    <3>2. CASE j \in 1 .. N
      BY <1>4, <2>1, <2>4, <3>1, <3>2 DEF Increasing
    <3>3. CASE j = N + 1
      BY <1>4, <1>5, <2>1, <2>4, <3>1, <3>3
    <3> QED
      BY <2>3, <3>2, <3>3
  <2>7. \A i \in 1 .. N + 1 : active'[i] = ActivePeer(pushed[e[i]])
    BY <1>4, <1>5, <2>1, <2>2, <2>3, <2>4
  <2>8. \A i \in 1 .. N + 1 : \A j \in DOMAIN Tail(todo) : e[i] < h[j]
    <3>1. \A j \in DOMAIN Tail(todo) : h[j] \in Int /\ g[1] \in Int
      BY <1>4, <1>5, <1>7
    <3>2. \A i \in 1 .. N : f[i] < g[1] /\ f[i] \in Int
      BY <1>4, <1>5, <2>1
    <3> QED
      BY <1>7, <2>3, <2>4, <3>1, <3>2
  <2>9. Dials(e, h, active', todo', pushed')
    BY <1>1, <1>6, <2>2, <2>5, <2>6, <2>7, <2>8 DEF Dials
  <2> QED
    BY <1>1, <2>9, DrawnPrime DEF DrawnInv
<1> QED
  BY <1>1, <1>8, <1>9

LEMMA DrawnNext == SupplyInv /\ DrawnInv /\ [Next]_vars => DrawnInv'
<1> SUFFICES ASSUME SupplyInv, DrawnInv, [Next]_vars PROVE DrawnInv'
  OBVIOUS
<1> USE DEF worldVars, supplyVars, hiveVars
<1>1. CASE HandshakeBoot
  <2>1. /\ pc' \in {"await", "report"} \/ (pc' = "pull" /\ mode # "run")
        /\ UNCHANGED <<mode, incoming, discovered, pushed, todo, active>>
    BY <1>1 DEF HandshakeBoot
  <2> QED
    BY <2>1, DrawnIdle
<1>2. CASE AcceptHive
  <2>1. pc' = "accept" /\ incoming' = None
    BY <1>2 DEF AcceptHive, SupplyInv, NothingYet, Before
  <2> QED
    BY <2>1 DEF DrawnInv
<1>3. CASE Feed
  BY <1>3, DrawnFeed
<1>4. CASE FeedEnds
  BY <1>4, DrawnFeedEnds
<1>5. CASE DialNeighbour
  BY <1>5, DrawnDial
<1>6. CASE Pull
  <2>1. pc = "dial" /\ pc' \in {"panicked", "pull"} /\ UNCHANGED <<mode, pushed, todo, active>>
    BY <1>6 DEF Pull
  <2> QED
    BY <2>1, DrawnPrime DEF DrawnInv
<1>7. ASSUME NEW p \in Peers, NEW addrs \in Pushes, BeePush(p, addrs) PROVE DrawnInv'
  BY <1>7, DrawnPush
<1>8. CASE Resolving
  BY <1>8, DrawnIdle DEF Resolving
<1>9. CASE ResolveBootnode
  BY <1>9, DrawnIdle DEF ResolveBootnode
<1>10. ASSUME NEW a \in DOMAIN PeerAt, ConfiguredBootnode(a) PROVE DrawnInv'
  BY <1>10, DrawnIdle DEF ConfiguredBootnode
<1>11. CASE TryAgain
  BY <1>11, DrawnIdle DEF TryAgain
<1>12. CASE LearnOverlay
  BY <1>12, DrawnIdle DEF LearnOverlay
<1>13. CASE Spawn
  BY <1>13, DrawnIdle DEF Spawn
<1>14. CASE PullEnds
  BY <1>14, DrawnIdle DEF PullEnds
<1>15. CASE Report
  BY <1>15, DrawnIdle DEF Report
<1>16. ASSUME NEW t \in Tasks, StartTask(t) PROVE DrawnInv'
  BY <1>16, DrawnIdle DEF StartTask
<1>17. CASE Timeout
  BY <1>17, DrawnIdle DEF Timeout
<1>18. ASSUME NEW p \in Peers, NEW what \in {"pricing", "handshake"}, BeeCalls(p, what)
       PROVE  DrawnInv'
  BY <1>18, DrawnIdle DEF BeeCalls
<1>19. CASE UNCHANGED vars
  BY <1>19, DrawnIdle DEF vars
<1> QED
  BY <1>1, <1>2, <1>3, <1>4, <1>5, <1>6, <1>7, <1>8, <1>9, <1>10, <1>11, <1>12, <1>13, <1>14,
     <1>15, <1>16, <1>17, <1>18, <1>19
  DEF Next, MainStep

\* The peers that run pulls from were named, signed and in our tile, by the one
\* push it took, and proved themselves in a handshake; unless the push broke off
\* nobody else who was is missing, however the list was cut into batches, except
\* who refused; and they come in the order of the list, no one more often than it
\* names them.
THEOREM SupplyIsExact == Spec => []SupplyExact
<1>1. SupplyInv /\ DrawnInv => SupplyExact
  <2> SUFFICES ASSUME SupplyInv, DrawnInv, mode = "run", pc = "pull"
               PROVE  /\ Ids(active) \subseteq met \cap Wanted(pushed)
                      /\ ~cut => Wanted(pushed) \subseteq Ids(active) \cup refused
                      /\ \E f \in [DOMAIN active -> DOMAIN pushed] :
                           /\ \A i, j \in DOMAIN active : i < j => f[i] < f[j]
                           /\ \A i \in DOMAIN active : active[i] = ActivePeer(pushed[f[i]])
    BY DEF SupplyExact, Ids
  <2>1. Underlays(<<>>) = {}
    BY DEF Underlays, ToSet
  <2>2. PICK f, g : Dials(f, g, active, todo, pushed)
    BY DEF DrawnInv
  <2>3. /\ f \in [DOMAIN active -> DOMAIN pushed]
        /\ \A i, j \in DOMAIN active : i < j => f[i] < f[j]
        /\ \A i \in DOMAIN active : active[i] = ActivePeer(pushed[f[i]])
    BY <2>2 DEF Dials, Increasing
  <2> QED
    BY <2>1, <2>3 DEF SupplyInv, Dialed
<1>2. Init => DrawnInv
  BY DEF Init, DrawnInv
<1> QED
  BY <1>1, <1>2, SupplyInit, SupplyNext, DrawnNext, PTL DEF Spec

-----------------------------------------------------------------------------
(* Numbers.                                                                *)

\* The i-th peer is announced by the i-th number, and in a build that checks
\* overflows the largest number is never passed.
Numbered ==
  /\ Len(numbers) \in Nat /\ DOMAIN numbers = 1 .. Len(numbers)
  /\ \A i \in DOMAIN numbers : numbers[i][1] = NumberOf(i)
  /\ checked => Len(numbers) <= NodePeerMax

LEMMA NumberOfValue ==
  ASSUME NEW k \in 1 .. NodePeerMax + 1
  PROVE  NumberOf(k) = IF k = NodePeerMax + 1 THEN 0 ELSE k
<1> DEFINE m == NodePeerMax + 1
<1>1. m \in Nat /\ m > 1
  BY AssemblyConstants
<1>2. \A i \in 1 .. m : i % m = IF i = m THEN 0 ELSE i
  BY <1>1
<1> QED
  BY <1>2 DEF NumberOf

\* Up to the one after the largest, whose number is 0, no number comes twice.
LEMMA NumberOfInjective ==
  ASSUME NEW i \in 1 .. NodePeerMax + 1, NEW j \in 1 .. NodePeerMax + 1, NumberOf(i) = NumberOf(j)
  PROVE  i = j
BY NumberOfValue, AssemblyConstants

\* A list that is numbered.
LEMMA NumberedList ==
  ASSUME NEW n \in Nat, NEW id, numbers' = [i \in 1 .. n |-> <<NumberOf(i), id[i]>>],
         checked' => n <= NodePeerMax
  PROVE  Numbered'
<1>1. \A i \in 1 .. n : NumberOf(i) \in Nat /\ NumberOf(i)' = NumberOf(i)
  <2>1. NodePeerMax + 1 \in Nat \ {0}
    BY AssemblyConstants
  <2> QED
    BY <2>1 DEF NumberOf
<1>2. DOMAIN numbers' = 1 .. n /\ \A i \in 1 .. n : numbers'[i] = <<NumberOf(i), id[i]>>
  OBVIOUS
<1> HIDE DEF NumberOf
<1>3. DOMAIN numbers' = 1 .. Len(numbers') /\ Len(numbers') = n
  OBVIOUS
<1> QED
  BY <1>1, <1>2, <1>3 DEF Numbered

LEMMA NumberedNext == SupplyInv /\ Numbered /\ [Next]_vars => Numbered'
<1> SUFFICES ASSUME SupplyInv, Numbered, [Next]_vars PROVE Numbered'
  OBVIOUS
<1>0. checked' = checked
  BY DEF Next, MainStep, vars, worldVars, Resolving, ResolveBootnode, ConfiguredBootnode, TryAgain,
         LearnOverlay, Spawn, HandshakeBoot, AcceptHive, Feed, FeedEnds, DialNeighbour, Pull,
         PullEnds, Report, StartTask, Timeout, BeeCalls, BeePush
<1>1. CASE UNCHANGED numbers
  BY <1>0, <1>1 DEF Numbered, NumberOf
<1>2. CASE HandshakeBoot
  <2>1. CASE numbers' = <<<<1, boot>>>>
    <3>1. NumberOf(1) = 1 /\ 1 <= NodePeerMax
      BY NumberOfValue, AssemblyConstants
    <3> DEFINE id == <<boot>>
    <3>2. numbers' = [i \in 1 .. 1 |-> <<NumberOf(i), id[i]>>]
      BY <2>1, <3>1
    <3> HIDE DEF id
    <3> QED
      BY <3>1, <3>2, NumberedList
  <2> QED
    BY <1>1, <1>2, <2>1 DEF HandshakeBoot
<1>3. CASE Pull
  <2> DEFINE tile == Among(active, {a \in ToSet(active) : IsNeighbour(us, Radius, a.overlay)})
             id == [i \in DOMAIN tile |-> tile[i].libp2p]
  <2>1. \/ UNCHANGED numbers
        \/ /\ ~(checked /\ Len(tile) >= NodePeerMax)
           /\ numbers' = [i \in DOMAIN tile |-> <<NumberOf(i), id[i]>>]
    BY <1>3 DEF Pull
  <2>2. tile \in Seq({ActivePeer(a) : a \in Addrs})
    BY AmongFacts DEF SupplyInv, ListsOK
  <2> HIDE DEF tile
  <2>3. Len(tile) \in Nat /\ DOMAIN tile = 1 .. Len(tile)
    BY <2>2
  <2> HIDE DEF id
  <2>4. CASE ~(checked /\ Len(tile) >= NodePeerMax) /\ numbers' = [i \in DOMAIN tile |-> <<NumberOf(i), id[i]>>]
    <3>1. checked' => Len(tile) <= NodePeerMax
      BY <1>0, <2>3, <2>4, AssemblyConstants
    <3> QED
      BY <2>3, <2>4, <3>1, NumberedList
  <2> QED
    BY <1>1, <2>1, <2>4
<1> QED
  BY <1>1, <1>2, <1>3
  DEF Next, MainStep, vars, supplyVars, Resolving, ResolveBootnode, ConfiguredBootnode, TryAgain,
      LearnOverlay, Spawn, AcceptHive, Feed, FeedEnds, DialNeighbour, PullEnds, Report, StartTask,
      Timeout, BeeCalls, BeePush

\* An operation for a peer goes to that peer: always where overflows are checked, and
\* elsewhere as long as there are no more peers than numbers.  The u8 of pull starts
\* at 1, so it takes one more than its largest value before a number comes again.
THEOREM NumbersRouteUpToMax == Spec => []NumbersRoute
<1>1. Init => Numbered
  BY AssemblyConstants DEF Init, Numbered
<1>2. Numbered => NumbersRoute
  <2> SUFFICES ASSUME Numbered, checked \/ Len(numbers) <= NodePeerMax + 1, NEW i \in DOMAIN numbers
               PROVE  Routed(numbers[i][1]) = numbers[i][2]
    BY DEF NumbersRoute
  <2>1. DOMAIN numbers = 1 .. Len(numbers) /\ Len(numbers) \in Nat
    BY DEF Numbered
  <2>2. DOMAIN numbers \subseteq 1 .. NodePeerMax + 1
    BY <2>1, AssemblyConstants DEF Numbered
  <2> DEFINE same == {j \in DOMAIN numbers : numbers[j][1] = numbers[i][1]}
  <2>3. same = {i}
    BY <2>2, NumberOfInjective DEF Numbered
  <2>4. i \in Nat
    BY <2>1
  <2>5. (CHOOSE k \in same : \A j \in same : k <= j) = i
    BY <2>3, <2>4
  <2> QED
    BY <2>5 DEF Routed
<1> QED
  BY <1>1, <1>2, SupplyInit, SupplyNext, NumberedNext, PTL DEF Spec

-----------------------------------------------------------------------------
(* The assembly implements the neighbourhood crate.                        *)

\* Who is known apart from the bootnode.
Named == Underlays(todo) \cup refused \cup Ids(active)

\* The willing peers known, the bootnode among them, and the others.
KnownW == {x \in Known : x = boot \/ Standing(x) = "willing"}
KnownU == {x \in Known : x # boot /\ Standing(x) # "willing"}

\* Whoever is known is a peer, whoever was met is known and willing; main is
\* connected from the bootnode's handshake on, and not before.
HoodInv ==
  /\ Named \subseteq Peers
  /\ met \subseteq KnownW /\ met \subseteq Peers
  /\ pc \in Before \ {"await"} => met = {}
  /\ pc \in {"await", "accept", "dial"} => boot \in met

LEMMA KnownIs == Known = {boot} \cup Named
BY DEF Known, Named, Underlays, Ids

LEMMA HoodInit == Init => HoodInv /\ Hood!Init
<1> SUFFICES ASSUME Init PROVE HoodInv /\ Hood!Init
  OBVIOUS
<1>1. /\ pc = "resolve" /\ boot = None /\ met = {}
      /\ todo = <<>> /\ refused = {} /\ active = <<>>
  BY DEF Init
<1>2. Named = {}
  BY <1>1 DEF Named, Underlays, Ids, ToSet
<1>3. KnownW = {boot} /\ KnownU = {}
  BY <1>2, KnownIs DEF KnownW, KnownU
<1>4. HoodInv
  BY <1>1, <1>2 DEF HoodInv
<1>5. Cardinality(KnownW) = 1 /\ Cardinality(KnownU) = 0 /\ Cardinality(met) = 0
  BY <1>1, <1>3, FS_Singleton, FS_EmptySet
<1> QED
  BY <1>4, <1>5 DEF Hood!Init, KnownW, KnownU

\* Nobody is met and nobody new is known.
LEMMA HoodIdle ==
  ASSUME HoodInv, UNCHANGED <<standing, boot, met, todo, refused, active>>,
         pc' \in Before \ {"await"} => pc \in Before \ {"await"},
         pc' \in {"await", "accept", "dial"} => pc \in {"await", "accept", "dial"}
  PROVE  HoodInv' /\ UNCHANGED Hood!vars
<1>1. KnownW' = KnownW /\ KnownU' = KnownU /\ Named' = Named
  BY DEF KnownW, KnownU, Known, Named, Underlays, Ids, Standing, ToSet
<1>2. HoodInv'
  BY <1>1 DEF HoodInv
<1>3. UNCHANGED Hood!vars
  BY <1>1 DEF Hood!vars, KnownW, KnownU
<1> QED
  BY <1>2, <1>3

\* The bootnode is settled on, before anybody else is known.
LEMMA HoodBoot ==
  ASSUME SupplyInv, HoodInv, pc = "resolve", pc' \in {"learn", "panicked"},
         UNCHANGED <<standing, met, todo, refused, active>>
  PROVE  HoodInv' /\ UNCHANGED Hood!vars
<1>1. met = {} /\ todo = <<>> /\ refused = {} /\ active = <<>>
  BY DEF HoodInv, SupplyInv, NothingYet, Before
<1>2. Named = {} /\ Named' = {}
  BY <1>1 DEF Named, Underlays, Ids, ToSet
<1>3. KnownW = {boot} /\ KnownU = {} /\ KnownW' = {boot'} /\ KnownU' = {}
  <2>1. Known = {boot}
    BY <1>2, KnownIs
  <2>2. Known' = {boot'}
    BY <1>1 DEF Known, ToSet
  <2> QED
    BY <2>1, <2>2 DEF KnownW, KnownU
<1>4. HoodInv'
  BY <1>1, <1>2, <1>3 DEF HoodInv, Before
<1>5. Cardinality(KnownW) = Cardinality(KnownW') /\ Cardinality(KnownU) = Cardinality(KnownU')
  BY <1>3, FS_Singleton
<1>6. UNCHANGED Hood!vars
  BY <1>5 DEF Hood!vars, KnownW, KnownU
<1> QED
  BY <1>4, <1>6

\* A peer known and willing is met, for the first time or again.
LEMMA HoodMeets ==
  ASSUME HoodInv, NEW p \in KnownW, p \in Peers, met' = met \cup {p},
         KnownW' = KnownW, KnownU' = KnownU
  PROVE  Hood!Next \/ UNCHANGED Hood!vars
<1>1. IsFiniteSet(met) /\ Cardinality(met) \in Nat
  <2>1. met \subseteq Peers /\ IsFiniteSet(Peers)
    BY AssemblyConstants DEF HoodInv
  <2> QED
    BY <2>1, FS_Subset, FS_CardinalityType
<1>2. IsFiniteSet(KnownW) /\ Cardinality(KnownW) \in Nat
  <2>1. IsFiniteSet(Peers \cup {boot})
    BY AssemblyConstants, FS_AddElement
  <2>2. KnownW \subseteq Peers \cup {boot}
    BY KnownIs DEF KnownW, HoodInv
  <2> QED
    BY <2>1, <2>2, FS_Subset, FS_CardinalityType
<1>3. CASE p \in met
  <2>1. met' = met
    BY <1>3
  <2> QED
    BY <2>1 DEF Hood!vars, KnownW, KnownU
<1>4. CASE p \notin met
  <2>1. Cardinality(met') = Cardinality(met) + 1
    BY <1>1, <1>4, FS_AddElement
  <2>2. Cardinality(met) < Cardinality(KnownW)
    <3>1. met \in SUBSET KnownW /\ met # KnownW
      BY <1>4 DEF HoodInv
    <3>2. Cardinality(met) <= Cardinality(KnownW) /\ Cardinality(met) # Cardinality(KnownW)
      BY <1>2, <3>1, FS_Subset
    <3> QED
      BY <1>1, <1>2, <3>2
  <2>3. Cardinality(KnownW)' = Cardinality(KnownW) /\ Cardinality(KnownU)' = Cardinality(KnownU)
    OBVIOUS
  <2>4. Hood!Connect
    BY <2>1, <2>2, <2>3 DEF Hood!Connect, KnownW, KnownU
  <2> QED
    BY <2>4 DEF Hood!Next
<1> QED
  BY <1>3, <1>4

LEMMA HoodHello ==
  ASSUME SupplyInv, HoodInv, HandshakeBoot
  PROVE  HoodInv' /\ (Hood!Next \/ UNCHANGED Hood!vars)
<1>1. /\ pc = "hello" /\ pc' \in {"await", "pull", "report"}
      /\ UNCHANGED <<standing, boot, todo, refused, active>>
      /\ \/ Shakes /\ met' = met \cup {boot}
         \/ met' = met /\ pc' = "report"
  BY DEF HandshakeBoot, Meet, worldVars, beeVars
<1>2. CASE met' = met /\ pc' = "report"
  BY <1>1, <1>2, HoodIdle DEF Before
<1>3. CASE Shakes /\ met' = met \cup {boot}
  <2>1. boot \in Peers
    BY <1>1, <1>3 DEF Shakes, Target, Standing
  <2>2. boot \in KnownW
    BY KnownIs DEF KnownW
  <2>3. KnownW' = KnownW /\ KnownU' = KnownU /\ Named' = Named
    BY <1>1 DEF KnownW, KnownU, Known, Named, Underlays, Ids, Standing, ToSet
  <2>4. HoodInv'
    BY <1>1, <1>3, <2>1, <2>2, <2>3 DEF HoodInv, Before
  <2>5. Hood!Next \/ UNCHANGED Hood!vars
    BY <1>3, <2>1, <2>2, <2>3, HoodMeets
  <2> QED
    BY <2>4, <2>5
<1> QED
  BY <1>1, <1>2, <1>3

\* A neighbour to dial becomes an active peer or one that refused: nobody is
\* known that was not.
LEMMA HoodDial ==
  ASSUME SupplyInv, HoodInv, DialNeighbour
  PROVE  HoodInv' /\ (Hood!Next \/ UNCHANGED Hood!vars)
<1> DEFINE p == Head(todo).underlay
<1>1. /\ pc = "dial" /\ pc' = "dial" /\ todo # <<>> /\ todo' = Tail(todo)
      /\ UNCHANGED <<standing, boot>>
      /\ \/ /\ Shakes /\ met' = met \cup {p} /\ refused' = refused
            /\ active' = Append(active, ActivePeer(Head(todo)))
         \/ met' = met /\ refused' = refused \cup {p} /\ active' = active
  BY DEF DialNeighbour, Meet, Target, worldVars, beeVars
<1>2. todo \in Seq(Addrs) /\ active \in Seq({ActivePeer(a) : a \in Addrs})
  BY DEF SupplyInv, ListsOK
<1>3. ToSet(todo) = {Head(todo)} \cup ToSet(Tail(todo))
  BY <1>1, <1>2, ToSetTail
<1>4. Underlays(todo) = {p} \cup Underlays(Tail(todo))
  BY <1>3 DEF Underlays
<1>5. ASSUME active' = Append(active, ActivePeer(Head(todo)))
      PROVE  Ids(active') = Ids(active) \cup {p}
  <2>1. ToSet(active') = ToSet(active) \cup {ActivePeer(Head(todo))}
    BY <1>2, <1>5, ToSetAppend
  <2>2. ActivePeer(Head(todo)).libp2p = p
    BY DEF ActivePeer
  <2> QED
    BY <2>1, <2>2 DEF Ids
<1>6. p \in Named /\ p \in Peers
  BY <1>4 DEF Named, HoodInv
<1>7. Named' = Named
  <2>1. Named' = Underlays(Tail(todo)) \cup refused' \cup Ids(active')
    BY <1>1 DEF Named, Underlays, Ids, ToSet
  <2> HIDE DEF p
  <2> QED
    BY <1>1, <1>4, <1>5, <2>1 DEF Named
<1>8. KnownW' = KnownW /\ KnownU' = KnownU
  <2>1. Known' = {boot'} \cup Named'
    BY DEF Known, Named, Underlays, Ids, ToSet
  <2>2. Known' = Known
    BY <1>1, <1>7, <2>1, KnownIs
  <2> QED
    BY <1>1, <2>2 DEF KnownW, KnownU, Standing
<1>9. CASE met' = met
  <2>1. HoodInv'
    BY <1>1, <1>7, <1>8, <1>9 DEF HoodInv, Before
  <2>2. UNCHANGED Hood!vars
    BY <1>8, <1>9 DEF Hood!vars, KnownW, KnownU
  <2> QED
    BY <2>1, <2>2
<1>10. CASE Shakes /\ met' = met \cup {p}
  <2>1. Standing(p) = "willing"
    BY <1>1, <1>10 DEF Shakes, Target
  <2>2. p \in KnownW
    BY <1>6, <2>1, KnownIs DEF KnownW
  <2> HIDE DEF p
  <2>3. HoodInv'
    BY <1>1, <1>6, <1>7, <1>8, <1>10, <2>2 DEF HoodInv, Before
  <2>4. Hood!Next \/ UNCHANGED Hood!vars
    BY <1>6, <1>8, <1>10, <2>2, HoodMeets
  <2> QED
    BY <2>3, <2>4
<1> QED
  BY <1>1, <1>9, <1>10

\* A push is over: its neighbours are discovered, by a node that is connected.
LEMMA HoodFeedEnds ==
  ASSUME SupplyInv, SupplyInv', HoodInv, FeedEnds
  PROVE  HoodInv' /\ Hood!Next
<1>1. /\ pc = "accept" /\ pc' = "dial" /\ UNCHANGED <<standing, boot, us, met, pushed, refused, active>>
  BY DEF FeedEnds, worldVars, beeVars
<1>2. todo = <<>> /\ boot \in met /\ met \subseteq Peers /\ met \subseteq KnownW
  BY <1>1 DEF SupplyInv, Receiving, HoodInv
<1>3. Named' = Named \cup Underlays(todo')
  <2>1. Underlays(todo) = {}
    BY <1>2 DEF Underlays, ToSet
  <2>2. Named' = Underlays(todo') \cup refused \cup Ids(active)
    BY <1>1 DEF Named, Underlays, Ids, ToSet
  <2> QED
    BY <2>1, <2>2 DEF Named
<1>4. Underlays(todo') \subseteq Peers
  <2>1. Underlays(todo)' \subseteq Wanted(pushed)' /\ pushed' \in Seq(Addrs)
    BY <1>1 DEF SupplyInv, Dialed, ListsOK
  <2>2. ToSet(pushed) \subseteq Addrs
    BY <1>1, <2>1 DEF ToSet
  <2>3. Wanted(pushed) \subseteq Peers
    BY <2>2, AssemblyConstants DEF Wanted
  <2>4. Wanted(pushed)' = Wanted(pushed) /\ Underlays(todo)' = Underlays(todo')
    BY <1>1 DEF Wanted, Verifies, Underlays, ToSet
  <2> QED
    BY <2>1, <2>3, <2>4
<1>5. Known' = Known \cup Underlays(todo')
  <2>1. Known' = {boot'} \cup Named'
    BY DEF Known, Named, Underlays, Ids, ToSet
  <2> QED
    BY <1>1, <1>3, <2>1, KnownIs
<1>6. Known' \subseteq Peers
  BY <1>2, <1>4, <1>5, KnownIs DEF HoodInv
<1>7. KnownW \subseteq KnownW' /\ KnownU \subseteq KnownU' /\ KnownW' \subseteq Peers /\ KnownU' \subseteq Peers
  BY <1>1, <1>5, <1>6 DEF KnownW, KnownU, Standing
<1>8. HoodInv'
  BY <1>1, <1>2, <1>3, <1>4, <1>7 DEF HoodInv, Before
<1>9. IsFiniteSet(Peers) /\ Cardinality(Peers) \in Nat
  BY AssemblyConstants, FS_CardinalityType
<1>10. ASSUME NEW S, NEW T, S \subseteq T, T \subseteq Peers
       PROVE  /\ Cardinality(S) \in Nat /\ Cardinality(T) \in Nat
              /\ Cardinality(T) \in Cardinality(S) .. Cardinality(Peers)
  <2>1. IsFiniteSet(T) /\ Cardinality(T) <= Cardinality(Peers)
    BY <1>9, <1>10, FS_Subset
  <2>2. IsFiniteSet(S) /\ Cardinality(S) <= Cardinality(T)
    BY <1>10, <2>1, FS_Subset
  <2> QED
    BY <1>9, <2>1, <2>2, FS_CardinalityType
<1>11. /\ Cardinality(KnownW') \in Cardinality(KnownW) .. Cardinality(Peers)
       /\ Cardinality(KnownU') \in Cardinality(KnownU) .. Cardinality(Peers)
  BY <1>7, <1>10
<1>12. Cardinality(met) > 0
  <2>1. IsFiniteSet(met) /\ met # {}
    BY <1>2, <1>9, FS_Subset
  <2> QED
    BY <2>1, FS_EmptySet, FS_CardinalityType
<1>13. Hood!Discover
  BY <1>1, <1>11, <1>12 DEF Hood!Discover, Hood!Bootstrapped, KnownW, KnownU
<1> QED
  BY <1>8, <1>13 DEF Hood!Next

LEMMA HoodNext ==
  SupplyInv /\ SupplyInv' /\ HoodInv /\ [Next]_vars => HoodInv' /\ [Hood!Next]_(Hood!vars)
<1> SUFFICES ASSUME SupplyInv, SupplyInv', HoodInv, [Next]_vars
             PROVE  HoodInv' /\ (Hood!Next \/ UNCHANGED Hood!vars)
  OBVIOUS
<1> USE DEF worldVars, beeVars, supplyVars, Before
<1>1. CASE Resolving
  BY <1>1, HoodIdle DEF Resolving
<1>2. CASE ResolveBootnode
  <2>1. pc = "resolve" /\ pc' \in {"learn", "panicked"} /\ UNCHANGED <<standing, met, todo, refused, active>>
    BY <1>2 DEF ResolveBootnode
  <2> QED
    BY <2>1, HoodBoot
<1>3. ASSUME NEW a \in DOMAIN PeerAt, ConfiguredBootnode(a)
      PROVE  HoodInv' /\ (Hood!Next \/ UNCHANGED Hood!vars)
  <2>1. pc = "resolve" /\ pc' \in {"learn", "panicked"} /\ UNCHANGED <<standing, met, todo, refused, active>>
    BY <1>3 DEF ConfiguredBootnode
  <2> QED
    BY <2>1, HoodBoot
<1>4. CASE TryAgain
  BY <1>4, HoodIdle DEF TryAgain
<1>5. CASE LearnOverlay
  <2>1. pc = "learn" /\ pc' \in {"spawn", "panicked"} /\ UNCHANGED <<standing, boot, met, todo, refused, active>>
    BY <1>5 DEF LearnOverlay
  <2> QED
    BY <2>1, HoodIdle
<1>6. CASE Spawn
  BY <1>6, HoodIdle DEF Spawn
<1>7. CASE HandshakeBoot
  BY <1>7, HoodHello
<1>8. CASE AcceptHive
  BY <1>8, HoodIdle DEF AcceptHive
<1>9. CASE Feed
  BY <1>9, HoodIdle DEF Feed
<1>10. CASE FeedEnds
  BY <1>10, HoodFeedEnds
<1>11. CASE DialNeighbour
  BY <1>11, HoodDial
<1>12. CASE Pull
  <2>1. pc' \in {"panicked", "pull"} /\ UNCHANGED <<standing, boot, met, todo, refused, active>>
    BY <1>12 DEF Pull
  <2> QED
    BY <2>1, HoodIdle
<1>13. CASE PullEnds
  BY <1>13, HoodIdle DEF PullEnds
<1>14. CASE Report
  BY <1>14, HoodIdle DEF Report
<1>15. ASSUME NEW t \in Tasks, StartTask(t)
       PROVE  HoodInv' /\ (Hood!Next \/ UNCHANGED Hood!vars)
  BY <1>15, HoodIdle DEF StartTask
<1>16. CASE Timeout
  BY <1>16, HoodIdle DEF Timeout
<1>17. ASSUME NEW p \in Peers, NEW what \in {"pricing", "handshake"}, BeeCalls(p, what)
       PROVE  HoodInv' /\ (Hood!Next \/ UNCHANGED Hood!vars)
  BY <1>17, HoodIdle DEF BeeCalls
<1>18. ASSUME NEW p \in Peers, NEW addrs \in Pushes, BeePush(p, addrs)
       PROVE  HoodInv' /\ (Hood!Next \/ UNCHANGED Hood!vars)
  BY <1>18, HoodIdle DEF BeePush
<1>19. CASE UNCHANGED vars
  BY <1>19, HoodIdle DEF vars
<1> QED
  BY <1>1, <1>2, <1>3, <1>4, <1>5, <1>6, <1>7, <1>8, <1>9, <1>10, <1>11, <1>12, <1>13, <1>14,
     <1>15, <1>16, <1>17, <1>18, <1>19
  DEF Next, MainStep

\* A run of melissi-pull, in either mode, is a behaviour of the neighbourhood
\* crate's state machine: it discovers only once it is connected, and connects
\* one discovered and willing peer at a time.
THEOREM NeighbourhoodRefined == Spec => ImplementsNeighbourhood
BY HoodInit, HoodNext, SupplyInit, SupplyNext, PTL DEF Spec, ImplementsNeighbourhood, Hood!Spec

-----------------------------------------------------------------------------
(* Resolution, breadth first.                                              *)

\* What a set of names leads to: names and addresses.
Onward(names) == {r.name : r \in {r \in Records(names) : r.kind = "dnsaddr"}}
Concretes(names) == {r.addr : r \in {r \in Records(names) : r.kind = "concrete"}}

ZoneRecords == UNION {ToSet(zone[d]) : d \in DOMAIN zone}
Queued ==
  [name : {Apex} \cup {r.name : r \in {r \in ZoneRecords : r.kind = "dnsaddr"}}, depth : Nat]
Found == {r.addr : r \in {r \in ZoneRecords : r.kind = "concrete"}}

\* Along the queue depths do not fall, nor rise by more than one.
Layered(q) ==
  \A i \in 1 .. Len(q) :
    /\ q[i].depth <= q[1].depth + 1
    /\ \A j \in 1 .. i : q[j].depth <= q[i].depth

\* Name c is visited, or waits among Q, at depth n or before.
Reached(dist, V, Q, c, n) ==
  \/ c \in V /\ dist[c] <= n
  \/ \E q \in Q : q.name = c /\ q.depth <= n

\* dist is the depth at which a name was visited: it is the length of a chain that
\* leads to it, nothing that waits is nearer, and what it leads to is at most one
\* further.
Measured(dist, V, Q) ==
  /\ \A m \in V : dist[m] \in 0 .. MaxDepth - 1 /\ m \in Levels[dist[m]]
  /\ \A m \in V : \A q \in Q : dist[m] <= q.depth
  /\ \A q \in Q : q.depth < MaxDepth => q.name \in Levels[q.depth]
  /\ Reached(dist, V, Q, Apex, 0)
  /\ \A m \in V : \A c \in Onward({m}) :
       dist[m] + 1 < MaxDepth => Reached(dist, V, Q, c, dist[m] + 1)

\* Each address once.
Distinct(s) == \A i, j \in 1 .. Len(s) : s[i] = s[j] => i = j

\* The resolver, until its state is dropped.
Resolver ==
  /\ queue \in Seq(Queued) /\ Layered(queue)
  /\ \E dist : Measured(dist, visited, ToSet(queue))
  /\ out \in Seq(Found) /\ Distinct(out) /\ ToSet(out) = Concretes(visited)

NameInv ==
  /\ zone \in Zones
  /\ resolved \in {"no", "ok", "NoAddresses"} =>
       Resolver /\ (resolved # "no" => queue = <<>>)

LEMMA RecordsFacts ==
  ASSUME NEW S, NEW r
  PROVE  r \in Records(S) <=>
           \E m \in S : DomainOf(m) \in DOMAIN zone /\ r \in ToSet(zone[DomainOf(m)])
BY DEF Records

LEMMA OnwardUnion ==
  ASSUME NEW S
  PROVE  \A c : c \in Onward(S) <=> \E m \in S : c \in Onward({m})
<1>1. ASSUME NEW c \in Onward(S) PROVE \E m \in S : c \in Onward({m})
  <2>1. PICK r \in Records(S) : r.kind = "dnsaddr" /\ c = r.name
    BY DEF Onward
  <2>2. PICK m \in S : DomainOf(m) \in DOMAIN zone /\ r \in ToSet(zone[DomainOf(m)])
    BY <2>1, RecordsFacts
  <2>3. r \in Records({m})
    BY <2>2, RecordsFacts
  <2>4. c \in Onward({m})
    BY <2>1, <2>3 DEF Onward
  <2> QED
    BY <2>2, <2>4
<1>2. ASSUME NEW m \in S, NEW c \in Onward({m}) PROVE c \in Onward(S)
  <2>1. PICK r \in Records({m}) : r.kind = "dnsaddr" /\ c = r.name
    BY DEF Onward
  <2>2. r \in Records(S)
    BY <2>1, RecordsFacts
  <2> QED
    BY <2>1, <2>2 DEF Onward
<1> QED
  BY <1>1, <1>2

LEMMA ConcretesAdd ==
  ASSUME NEW S, NEW m
  PROVE  Concretes(S \cup {m}) = Concretes(S) \cup Concretes({m})
<1>1. Records(S \cup {m}) = Records(S) \cup Records({m})
  <2>1. \A r : r \in Records(S \cup {m}) <=> r \in Records(S) \/ r \in Records({m})
    BY RecordsFacts
  <2> QED
    BY <2>1
<1> QED
  BY <1>1 DEF Concretes

\* g[i] is the set of names at distance i from the apex.
LevelLoop(g, N) == g = [i \in 0 .. N |-> IF i = 0 THEN {Apex} ELSE Onward(g[i - 1])]

\* The levels exist.
LEMMA LevelRuns ==
  ASSUME NEW N \in Nat
  PROVE  \E g : LevelLoop(g, N)
<1> DEFINE first == {Apex}
           Run(g, M) == g = [i \in 0 .. M |-> IF i = 0 THEN first ELSE Onward(g[i - 1])]
           bad == {M \in Nat : ~ \E g : Run(g, M)}
<1> SUFFICES ASSUME bad # {} PROVE FALSE
  BY DEF LevelLoop
<1> HIDE DEF first
<1>1. PICK M \in bad : \A y \in bad : M <= y
  BY LeastMember
<1>2. M \in Nat /\ ~ \E g : Run(g, M)
  BY <1>1
<1>3. M # 0
  <2>1. Run([t \in 0 .. 0 |-> first], 0)
    OBVIOUS
  <2> QED
    BY <1>2, <2>1
<1>4. PICK g : Run(g, M - 1)
  <2>1. M - 1 \in Nat /\ ~(M <= M - 1)
    BY <1>2, <1>3
  <2>2. M - 1 \notin bad
    BY <1>1, <2>1
  <2> QED
    BY <2>1, <2>2
<1> DEFINE h == [t \in 0 .. M |-> IF t = M THEN Onward(g[M - 1]) ELSE g[t]]
<1>5. ASSUME NEW t \in 0 .. M
      PROVE  h[t] = IF t = 0 THEN first ELSE Onward(h[t - 1])
  <2>1. CASE t = M
    <3>1. h[t] = Onward(g[M - 1])
      BY <2>1
    <3>2. h[t - 1] = g[M - 1]
      BY <1>2, <1>3, <2>1
    <3> QED
      BY <1>3, <2>1, <3>1, <3>2
  <2>2. CASE t # M
    <3>1. t \in 0 .. (M - 1)
      BY <1>2, <2>2
    <3>2. h[t] = g[t] /\ g[t] = IF t = 0 THEN first ELSE Onward(g[t - 1])
      BY <1>4, <2>2, <3>1
    <3>3. t # 0 => h[t - 1] = g[t - 1]
      BY <1>2, <3>1
    <3> QED
      BY <3>2, <3>3
  <2> QED
    BY <2>1, <2>2
<1>6. Run(h, M)
  <2>1. h = [t \in 0 .. M |-> h[t]]
    OBVIOUS
  <2> HIDE DEF h
  <2> QED
    BY <1>5, <2>1
<1> QED
  BY <1>2, <1>6

LEMMA LevelsFacts ==
  /\ DOMAIN Levels = 0 .. MaxDepth - 1
  /\ Levels[0] = {Apex}
  /\ \A n \in 1 .. MaxDepth - 1 : Levels[n] = Onward(Levels[n - 1])
<1> DEFINE N == MaxDepth - 1
<1>1. N \in Nat
  BY DnsConstants
<1>2. Levels = CHOOSE g : LevelLoop(g, N)
  BY DEF Levels, LevelLoop, Onward
<1>3. LevelLoop(Levels, N)
  BY <1>1, <1>2, LevelRuns
<1> HIDE DEF N
<1>4. \A i \in 0 .. N : Levels[i] = IF i = 0 THEN {Apex} ELSE Onward(Levels[i - 1])
  BY <1>3 DEF LevelLoop
<1>5. DOMAIN Levels = 0 .. N
  BY <1>3 DEF LevelLoop
<1>6. Levels[0] = {Apex}
  BY <1>1, <1>4
<1>7. ASSUME NEW n \in 1 .. N PROVE Levels[n] = Onward(Levels[n - 1])
  <2>1. n \in 0 .. N /\ n # 0
    BY <1>1
  <2> QED
    BY <1>4, <2>1
<1> QED
  BY <1>5, <1>6, <1>7 DEF N

\* Zones do not change.
LEMMA ZoneFixed ==
  ASSUME zone' = zone
  PROVE  /\ ZoneRecords' = ZoneRecords /\ Queued' = Queued /\ Found' = Found
         /\ \A S : Onward(S)' = Onward(S) /\ Concretes(S)' = Concretes(S)
         /\ \A dist : Measured(dist, visited', ToSet(queue')) => Measured(dist, visited, ToSet(queue))'
<1>1. ZoneRecords' = ZoneRecords
  BY DEF ZoneRecords
<1>2. Queued' = Queued /\ Found' = Found
  BY <1>1 DEF Queued, Found
<1>3. \A S : Records(S)' = Records(S)
  BY DEF Records
<1>4. \A S : Onward(S)' = Onward(S) /\ Concretes(S)' = Concretes(S)
  BY <1>3 DEF Onward, Concretes
<1>5. Levels' = Levels
  BY <1>3 DEF Levels
<1>6. ASSUME NEW dist, Measured(dist, visited', ToSet(queue'))
      PROVE  Measured(dist, visited, ToSet(queue))'
  <2>1. ToSet(queue') = ToSet(queue)'
    BY DEF ToSet
  <2>2. \A m : Onward({m})' = Onward({m})
    BY <1>4
  <2>3. (\A m \in visited : dist[m] \in 0 .. MaxDepth - 1 /\ m \in Levels[dist[m]])'
    BY <1>5, <1>6 DEF Measured
  <2>4. (\A m \in visited : \A q \in ToSet(queue) : dist[m] <= q.depth)'
    BY <1>6, <2>1 DEF Measured
  <2>5. (\A q \in ToSet(queue) : q.depth < MaxDepth => q.name \in Levels[q.depth])'
    BY <1>5, <1>6, <2>1 DEF Measured
  <2>6. Reached(dist, visited, ToSet(queue), Apex, 0)'
    BY <1>6, <2>1 DEF Measured, Reached
  <2>7. (\A m \in visited : \A c \in Onward({m}) :
          dist[m] + 1 < MaxDepth => Reached(dist, visited, ToSet(queue), c, dist[m] + 1))'
    <3> SUFFICES ASSUME NEW m \in visited', NEW c \in Onward({m})', dist[m] + 1 < MaxDepth
                 PROVE  Reached(dist, visited, ToSet(queue), c, dist[m] + 1)'
      OBVIOUS
    <3>1. c \in Onward({m})
      BY <2>2
    <3>2. Reached(dist, visited', ToSet(queue'), c, dist[m] + 1)
      BY <1>6, <3>1 DEF Measured
    <3> QED
      BY <2>1, <3>2 DEF Reached
  <2> QED
    BY <2>3, <2>4, <2>5, <2>6, <2>7 DEF Measured
<1> QED
  BY <1>1, <1>2, <1>4, <1>6

\* One record on: a name joins the queue, an address those found.
NameStep(records, at, s, i) ==
  IF records[i].kind = "dnsaddr" THEN Append(s, [name |-> records[i].name, depth |-> at]) ELSE s

NameLoop(g, records, at, N) ==
  g = [i \in 0 .. N |-> IF i = 0 THEN <<>> ELSE NameStep(records, at, g[i - 1], i)]

AddrStep(records, s, i) ==
  IF records[i].kind = "concrete"
  THEN IF records[i].addr \in ToSet(s) THEN s ELSE Append(s, records[i].addr)
  ELSE s

AddrLoop(g, records, N) ==
  g = [i \in 0 .. N |-> IF i = 0 THEN out ELSE AddrStep(records, g[i - 1], i)]

\* The loop over the records has a result for the queue.
LEMMA NameRuns ==
  ASSUME NEW records, NEW at, NEW N \in Nat
  PROVE  \E g : NameLoop(g, records, at, N)
<1> DEFINE first == <<>>
           Run(g, M) == g = [i \in 0 .. M |-> IF i = 0 THEN first ELSE NameStep(records, at, g[i - 1], i)]
           bad == {M \in Nat : ~ \E g : Run(g, M)}
<1> SUFFICES ASSUME bad # {} PROVE FALSE
  BY DEF NameLoop
<1> HIDE DEF first
<1>1. PICK M \in bad : \A y \in bad : M <= y
  BY LeastMember
<1>2. M \in Nat /\ ~ \E g : Run(g, M)
  BY <1>1
<1>3. M # 0
  <2>1. Run([t \in 0 .. 0 |-> first], 0)
    OBVIOUS
  <2> QED
    BY <1>2, <2>1
<1>4. PICK g : Run(g, M - 1)
  <2>1. M - 1 \in Nat /\ ~(M <= M - 1)
    BY <1>2, <1>3
  <2>2. M - 1 \notin bad
    BY <1>1, <2>1
  <2> QED
    BY <2>1, <2>2
<1> DEFINE h == [t \in 0 .. M |-> IF t = M THEN NameStep(records, at, g[M - 1], M) ELSE g[t]]
<1>5. ASSUME NEW t \in 0 .. M
      PROVE  h[t] = IF t = 0 THEN first ELSE NameStep(records, at, h[t - 1], t)
  <2>1. CASE t = M
    <3>1. h[t] = NameStep(records, at, g[M - 1], M)
      BY <2>1
    <3>2. h[t - 1] = g[M - 1]
      BY <1>2, <1>3, <2>1
    <3> QED
      BY <1>3, <2>1, <3>1, <3>2
  <2>2. CASE t # M
    <3>1. t \in 0 .. (M - 1)
      BY <1>2, <2>2
    <3>2. h[t] = g[t] /\ g[t] = IF t = 0 THEN first ELSE NameStep(records, at, g[t - 1], t)
      BY <1>4, <2>2, <3>1
    <3>3. t # 0 => h[t - 1] = g[t - 1]
      BY <1>2, <3>1
    <3> QED
      BY <3>2, <3>3
  <2> QED
    BY <2>1, <2>2
<1>6. Run(h, M)
  <2>1. h = [t \in 0 .. M |-> h[t]]
    OBVIOUS
  <2> HIDE DEF h
  <2> QED
    BY <1>5, <2>1
<1> QED
  BY <1>2, <1>6

\* And one for the addresses.
LEMMA AddrRuns ==
  ASSUME NEW records, NEW N \in Nat
  PROVE  \E g : AddrLoop(g, records, N)
<1> DEFINE first == out
           Run(g, M) == g = [i \in 0 .. M |-> IF i = 0 THEN first ELSE AddrStep(records, g[i - 1], i)]
           bad == {M \in Nat : ~ \E g : Run(g, M)}
<1> SUFFICES ASSUME bad # {} PROVE FALSE
  BY DEF AddrLoop
<1> HIDE DEF first
<1>1. PICK M \in bad : \A y \in bad : M <= y
  BY LeastMember
<1>2. M \in Nat /\ ~ \E g : Run(g, M)
  BY <1>1
<1>3. M # 0
  <2>1. Run([t \in 0 .. 0 |-> first], 0)
    OBVIOUS
  <2> QED
    BY <1>2, <2>1
<1>4. PICK g : Run(g, M - 1)
  <2>1. M - 1 \in Nat /\ ~(M <= M - 1)
    BY <1>2, <1>3
  <2>2. M - 1 \notin bad
    BY <1>1, <2>1
  <2> QED
    BY <2>1, <2>2
<1> DEFINE h == [t \in 0 .. M |-> IF t = M THEN AddrStep(records, g[M - 1], M) ELSE g[t]]
<1>5. ASSUME NEW t \in 0 .. M
      PROVE  h[t] = IF t = 0 THEN first ELSE AddrStep(records, h[t - 1], t)
  <2>1. CASE t = M
    <3>1. h[t] = AddrStep(records, g[M - 1], M)
      BY <2>1
    <3>2. h[t - 1] = g[M - 1]
      BY <1>2, <1>3, <2>1
    <3> QED
      BY <1>3, <2>1, <3>1, <3>2
  <2>2. CASE t # M
    <3>1. t \in 0 .. (M - 1)
      BY <1>2, <2>2
    <3>2. h[t] = g[t] /\ g[t] = IF t = 0 THEN first ELSE AddrStep(records, g[t - 1], t)
      BY <1>4, <2>2, <3>1
    <3>3. t # 0 => h[t - 1] = g[t - 1]
      BY <1>2, <3>1
    <3> QED
      BY <3>2, <3>3
  <2> QED
    BY <2>1, <2>2
<1>6. Run(h, M)
  <2>1. h = [t \in 0 .. M |-> h[t]]
    OBVIOUS
  <2> HIDE DEF h
  <2> QED
    BY <1>5, <2>1
<1> QED
  BY <1>2, <1>6

\* The queue gets every name among the records, at the given depth.
LEMMA NamesFacts ==
  ASSUME NEW R, NEW records \in Seq(R), NEW at, NEW E,
         \A r \in R : r.kind = "dnsaddr" => [name |-> r.name, depth |-> at] \in E
  PROVE  /\ NamesIn(records, at) \in Seq(E)
         /\ ToSet(NamesIn(records, at)) =
              {[name |-> r.name, depth |-> at] :
                 r \in {r \in ToSet(records) : r.kind = "dnsaddr"}}
<1> DEFINE N == Len(records)
           upto == CHOOSE g : NameLoop(g, records, at, N)
           Item(r) == [name |-> r.name, depth |-> at]
           Upto(i) == {records[j] : j \in 1 .. i}
           Items(S) == {Item(r) : r \in {r \in S : r.kind = "dnsaddr"}}
           Good(i) == upto[i] \in Seq(E) /\ ToSet(upto[i]) = Items(Upto(i))
<1>0. N \in Nat /\ DOMAIN records = 1 .. N
  OBVIOUS
<1>1. NameLoop(upto, records, at, N)
  BY <1>0, NameRuns
<1>2. NamesIn(records, at) = upto[N]
  BY DEF NamesIn, NameStep, NameLoop
<1> HIDE DEF upto, N
<1>3. ASSUME NEW i \in 0 .. N
      PROVE  upto[i] = IF i = 0 THEN <<>> ELSE NameStep(records, at, upto[i - 1], i)
  BY <1>1 DEF NameLoop
<1>4. \A i \in 0 .. N : Good(i)
  <2> DEFINE bad == {i \in 0 .. N : ~Good(i)}
  <2> SUFFICES ASSUME bad # {} PROVE FALSE
    OBVIOUS
  <2>1. bad \in SUBSET Nat
    BY <1>0
  <2> HIDE DEF Good
  <2>2. PICK i \in bad : \A y \in bad : i <= y
    BY <2>1, LeastMember
  <2>3. i \in 0 .. N /\ ~Good(i)
    BY <2>2
  <2>4. i # 0
    <3>1. Good(0)
      <4>1. upto[0] = <<>>
        BY <1>0, <1>3
      <4>2. Items(Upto(0)) = {}
        OBVIOUS
      <4>3. ToSet(<<>>) = {}
        BY DEF ToSet
      <4> QED
        BY <4>1, <4>2, <4>3 DEF Good
    <3> QED
      BY <2>3, <3>1
  <2>5. i - 1 \in 0 .. N /\ ~(i <= i - 1) /\ i \in 1 .. N
    BY <1>0, <2>3, <2>4
  <2>6. Good(i - 1)
    BY <2>2, <2>5
  <2>7. upto[i] = NameStep(records, at, upto[i - 1], i)
    BY <1>3, <2>3, <2>4
  <2>8. Upto(i) = Upto(i - 1) \cup {records[i]}
    BY <1>0, <2>5
  <2>9. records[i] \in R
    BY <1>0, <2>5
  <2> HIDE DEF Upto
  <2>10. upto[i - 1] \in Seq(E) /\ ToSet(upto[i - 1]) = Items(Upto(i - 1))
    BY <2>6 DEF Good
  <2>11. CASE records[i].kind = "dnsaddr"
    <3>1. upto[i] = Append(upto[i - 1], Item(records[i]))
      BY <2>7, <2>11 DEF NameStep
    <3>2. Item(records[i]) \in E
      BY <2>9, <2>11
    <3>3. Items(Upto(i)) = Items(Upto(i - 1)) \cup {Item(records[i])}
      BY <2>8, <2>11
    <3> HIDE DEF Item, Items
    <3>4. upto[i] \in Seq(E)
      BY <2>10, <3>1, <3>2
    <3>5. ToSet(upto[i]) = ToSet(upto[i - 1]) \cup {Item(records[i])}
      BY <2>10, <3>1, ToSetAppend
    <3> QED
      BY <2>3, <2>10, <3>3, <3>4, <3>5 DEF Good
  <2>12. CASE records[i].kind # "dnsaddr"
    <3>1. upto[i] = upto[i - 1]
      BY <2>7, <2>12 DEF NameStep
    <3>2. Items(Upto(i)) = Items(Upto(i - 1))
      BY <2>8, <2>12
    <3> QED
      BY <2>3, <2>10, <3>1, <3>2 DEF Good
  <2> QED
    BY <2>11, <2>12
<1>5. Good(N)
  BY <1>0, <1>4
<1>6. Upto(N) = ToSet(records)
  BY <1>0 DEF ToSet
<1> QED
  BY <1>2, <1>5, <1>6

LEMMA DistinctAppend ==
  ASSUME NEW E, NEW s \in Seq(E), Distinct(s), NEW a \in E, a \notin ToSet(s)
  PROVE  Append(s, a) \in Seq(E) /\ Distinct(Append(s, a))
<1> DEFINE t == Append(s, a)
           n == Len(s)
<1>1. /\ t \in Seq(E) /\ Len(t) = n + 1 /\ n \in Nat /\ DOMAIN s = 1 .. n
      /\ t[n + 1] = a /\ \A i \in 1 .. n : t[i] = s[i]
  OBVIOUS
<1>2. \A i \in 1 .. n : s[i] # a
  BY <1>1 DEF ToSet
<1>3. \A i, j \in 1 .. n : s[i] = s[j] => i = j
  BY DEF Distinct
<1> HIDE DEF t, n
<1>4. ASSUME NEW i \in 1 .. Len(t), NEW j \in 1 .. Len(t), t[i] = t[j]
      PROVE  i = j
  <2>1. (i \in 1 .. n \/ i = n + 1) /\ (j \in 1 .. n \/ j = n + 1)
    BY <1>1
  <2>2. CASE i \in 1 .. n /\ j \in 1 .. n
    BY <1>1, <1>3, <1>4, <2>2
  <2>3. CASE i = n + 1 /\ j \in 1 .. n
    BY <1>1, <1>2, <1>4, <2>3
  <2>4. CASE i \in 1 .. n /\ j = n + 1
    BY <1>1, <1>2, <1>4, <2>4
  <2> QED
    BY <2>1, <2>2, <2>3, <2>4
<1> QED
  BY <1>1, <1>4 DEF Distinct, t

\* Every address among the records is found, and none twice.
LEMMA AddrsFacts ==
  ASSUME NEW R, NEW records \in Seq(R), NEW E, out \in Seq(E), Distinct(out),
         \A r \in R : r.kind = "concrete" => r.addr \in E
  PROVE  /\ NewIn(records) \in Seq(E) /\ Distinct(NewIn(records))
         /\ ToSet(NewIn(records)) =
              ToSet(out) \cup {r.addr : r \in {r \in ToSet(records) : r.kind = "concrete"}}
<1> DEFINE N == Len(records)
           upto == CHOOSE g : AddrLoop(g, records, N)
           Upto(i) == {records[j] : j \in 1 .. i}
           AddrsOf(S) == {r.addr : r \in {r \in S : r.kind = "concrete"}}
           Good(i) == /\ upto[i] \in Seq(E) /\ Distinct(upto[i])
                      /\ ToSet(upto[i]) = ToSet(out) \cup AddrsOf(Upto(i))
<1>0. N \in Nat /\ DOMAIN records = 1 .. N
  OBVIOUS
<1>1. AddrLoop(upto, records, N)
  BY <1>0, AddrRuns
<1>2. NewIn(records) = upto[N]
  BY DEF NewIn, AddrStep, AddrLoop
<1> HIDE DEF upto, N
<1>3. ASSUME NEW i \in 0 .. N
      PROVE  upto[i] = IF i = 0 THEN out ELSE AddrStep(records, upto[i - 1], i)
  BY <1>1 DEF AddrLoop
<1>4. \A i \in 0 .. N : Good(i)
  <2> DEFINE bad == {i \in 0 .. N : ~Good(i)}
  <2> SUFFICES ASSUME bad # {} PROVE FALSE
    OBVIOUS
  <2>1. bad \in SUBSET Nat
    BY <1>0
  <2> HIDE DEF Good
  <2>2. PICK i \in bad : \A y \in bad : i <= y
    BY <2>1, LeastMember
  <2>3. i \in 0 .. N /\ ~Good(i)
    BY <2>2
  <2>4. i # 0
    <3>1. Good(0)
      <4>1. upto[0] = out
        BY <1>0, <1>3
      <4>2. AddrsOf(Upto(0)) = {}
        OBVIOUS
      <4> HIDE DEF AddrsOf, Upto
      <4> QED
        BY <4>1, <4>2 DEF Good
    <3> QED
      BY <2>3, <3>1
  <2>5. i - 1 \in 0 .. N /\ ~(i <= i - 1) /\ i \in 1 .. N
    BY <1>0, <2>3, <2>4
  <2>6. Good(i - 1)
    BY <2>2, <2>5
  <2>7. upto[i] = AddrStep(records, upto[i - 1], i)
    BY <1>3, <2>3, <2>4
  <2>8. Upto(i) = Upto(i - 1) \cup {records[i]}
    BY <1>0, <2>5
  <2>9. records[i] \in R
    BY <1>0, <2>5
  <2> HIDE DEF Upto
  <2>10. /\ upto[i - 1] \in Seq(E) /\ Distinct(upto[i - 1])
         /\ ToSet(upto[i - 1]) = ToSet(out) \cup AddrsOf(Upto(i - 1))
    BY <2>6 DEF Good
  <2>11. CASE records[i].kind = "concrete"
    <3> DEFINE a == records[i].addr
    <3>1. a \in E
      BY <2>9, <2>11
    <3>2. AddrsOf(Upto(i)) = AddrsOf(Upto(i - 1)) \cup {a}
      BY <2>8, <2>11
    <3>3. upto[i] = IF a \in ToSet(upto[i - 1]) THEN upto[i - 1] ELSE Append(upto[i - 1], a)
      BY <2>7, <2>11 DEF AddrStep
    <3> HIDE DEF a, AddrsOf
    <3>4. CASE a \in ToSet(upto[i - 1])
      BY <2>3, <2>10, <3>2, <3>3, <3>4 DEF Good
    <3>5. CASE a \notin ToSet(upto[i - 1])
      <4>1. upto[i] \in Seq(E) /\ Distinct(upto[i])
        BY <2>10, <3>1, <3>3, <3>5, DistinctAppend
      <4>2. ToSet(upto[i]) = ToSet(upto[i - 1]) \cup {a}
        BY <2>10, <3>3, <3>5, ToSetAppend
      <4> QED
        BY <2>3, <2>10, <3>2, <4>1, <4>2 DEF Good
    <3> QED
      BY <3>4, <3>5
  <2>12. CASE records[i].kind # "concrete"
    <3>1. upto[i] = upto[i - 1]
      BY <2>7, <2>12 DEF AddrStep
    <3>2. AddrsOf(Upto(i)) = AddrsOf(Upto(i - 1))
      BY <2>8, <2>12
    <3> HIDE DEF AddrsOf
    <3> QED
      BY <2>3, <2>10, <3>1, <3>2 DEF Good
  <2> QED
    BY <2>11, <2>12
<1>5. Good(N)
  BY <1>0, <1>4
<1>6. Upto(N) = ToSet(records)
  BY <1>0 DEF ToSet
<1> QED
  BY <1>2, <1>5, <1>6

\* The head of a layered queue is as near as any, and one depth more may follow.
LEMMA LayeredStep ==
  ASSUME NEW N, NEW q, q \in Seq([name : N, depth : Nat]), q # <<>>, Layered(q),
         NEW s, s \in Seq([name : N, depth : Nat]),
         \A x \in ToSet(s) : x.depth = q[1].depth + 1
  PROVE  /\ \A x \in ToSet(q) : q[1].depth <= x.depth
         /\ Layered(Tail(q) \o s)
<1> DEFINE E == [name : N, depth : Nat]
           t == Tail(q)
           w == t \o s
           h == q[1].depth
<1>0. q \in Seq(E) /\ s \in Seq(E) /\ \A x \in E : x.depth \in Nat
  OBVIOUS
<1> HIDE DEF E
<1>1. /\ Len(q) \in Nat \ {0} /\ DOMAIN q = 1 .. Len(q) /\ \A i \in 1 .. Len(q) : q[i] \in E
      /\ Len(s) \in Nat /\ DOMAIN s = 1 .. Len(s) /\ \A i \in 1 .. Len(s) : s[i] \in E
  BY <1>0
<1>2. t \in Seq(E) /\ Len(t) = Len(q) - 1 /\ \A i \in 1 .. Len(q) - 1 : t[i] = q[i + 1]
  BY <1>0
<1>3. Len(w) = Len(t) + Len(s)
  BY <1>0, <1>2
<1>4. \A i \in 1 .. Len(w) : w[i] = IF i <= Len(t) THEN t[i] ELSE s[i - Len(t)]
  BY <1>0, <1>2
<1> HIDE DEF w, t
<1>5. h \in Nat /\ \A i \in 1 .. Len(q) : /\ q[i].depth \in Nat /\ h <= q[i].depth /\ q[i].depth <= h + 1
                                          /\ \A j \in 1 .. i : q[j].depth <= q[i].depth
  <2>1. \A i \in 1 .. Len(q) : q[i].depth \in Nat
    BY <1>0, <1>1
  <2>2. 1 \in 1 .. Len(q)
    BY <1>1
  <2>3. \A i \in 1 .. Len(q) : 1 \in 1 .. i
    OBVIOUS
  <2> QED
    BY <2>1, <2>2, <2>3 DEF Layered
<1>6. ASSUME NEW i \in 1 .. Len(w)
      PROVE  \/ i \in 1 .. Len(t) /\ i + 1 \in 1 .. Len(q) /\ w[i] = q[i + 1]
             \/ i > Len(t) /\ w[i].depth = h + 1
  <2>1. CASE i <= Len(t)
    <3>1. i \in 1 .. Len(t) /\ i + 1 \in 1 .. Len(q) /\ i \in 1 .. Len(q) - 1
      BY <1>1, <1>2, <2>1
    <3> QED
      BY <1>2, <1>4, <2>1, <3>1
  <2>2. CASE ~(i <= Len(t))
    <3>1. i - Len(t) \in 1 .. Len(s) /\ i > Len(t)
      BY <1>1, <1>2, <1>3, <2>2
    <3>2. w[i] = s[i - Len(t)]
      BY <1>4, <2>2
    <3>3. s[i - Len(t)] \in ToSet(s)
      BY <1>1, <3>1 DEF ToSet
    <3> QED
      BY <3>1, <3>2, <3>3
  <2> QED
    BY <2>1, <2>2
<1>7. \A i \in 1 .. Len(w) : w[i].depth \in Nat /\ h <= w[i].depth /\ w[i].depth <= h + 1
  <2> SUFFICES ASSUME NEW i \in 1 .. Len(w)
               PROVE  w[i].depth \in Nat /\ h <= w[i].depth /\ w[i].depth <= h + 1
    OBVIOUS
  <2>1. CASE i + 1 \in 1 .. Len(q) /\ w[i] = q[i + 1]
    BY <1>5, <2>1
  <2>2. CASE w[i].depth = h + 1
    BY <1>5, <2>2
  <2> QED
    BY <1>6, <2>1, <2>2
<1>8. ASSUME NEW i \in 1 .. Len(w), NEW j \in 1 .. i
      PROVE  w[j].depth <= w[i].depth
  <2>1. j \in 1 .. Len(w) /\ j <= i
    BY <1>1, <1>2, <1>3
  <2>2. CASE i > Len(t) /\ w[i].depth = h + 1
    BY <1>7, <2>1, <2>2
  <2>3. CASE i \in 1 .. Len(t) /\ i + 1 \in 1 .. Len(q) /\ w[i] = q[i + 1]
    <3>1. ~(j > Len(t))
      BY <1>2, <2>1, <2>3
    <3>2. w[j] = q[j + 1]
      BY <1>6, <2>1, <3>1
    <3>3. j + 1 \in 1 .. i + 1
      BY <2>1
    <3>4. q[j + 1].depth <= q[i + 1].depth
      BY <1>5, <2>3, <3>3
    <3> QED
      BY <2>3, <3>2, <3>4
  <2> QED
    BY <1>6, <2>2, <2>3
<1>9. ASSUME NEW i \in 1 .. Len(w)
      PROVE  w[i].depth <= w[1].depth + 1
  <2>1. 1 \in 1 .. Len(w)
    BY <1>1, <1>2, <1>3
  <2>2. w[i].depth \in Nat /\ w[i].depth <= h + 1 /\ w[1].depth \in Nat /\ h <= w[1].depth
    BY <1>7, <2>1
  <2> HIDE DEF h
  <2> QED
    BY <1>5, <2>2
<1>10. \A x \in ToSet(q) : h <= x.depth
  BY <1>1, <1>5 DEF ToSet
<1>11. Layered(w)
  BY <1>8, <1>9 DEF Layered
<1> QED
  BY <1>10, <1>11 DEF w, t

\* A name that lies too deep is dropped: nothing was owed through it.
LEMMA MeasuredDrop ==
  ASSUME NEW dist, NEW V, NEW Q, NEW q \in Q, NEW T, Q = {q} \cup T,
         Measured(dist, V, Q), q.depth \in Nat, q.depth >= MaxDepth
  PROVE  Measured(dist, V, T)
<1>0. MaxDepth \in Nat \ {0}
  BY DnsConstants
<1>1. \A x \in T : x \in Q
  OBVIOUS
<1>2. ASSUME NEW c, NEW n \in Nat, n < MaxDepth, Reached(dist, V, Q, c, n)
      PROVE  Reached(dist, V, T, c, n)
  <2>1. ~(q.depth <= n)
    BY <1>0, <1>2
  <2> QED
    BY <1>2, <2>1 DEF Reached
<1>3. Reached(dist, V, T, Apex, 0)
  <2>1. 0 \in Nat /\ 0 < MaxDepth
    BY <1>0
  <2>2. Reached(dist, V, Q, Apex, 0)
    BY DEF Measured
  <2> QED
    BY <1>2, <2>1, <2>2
<1>4. ASSUME NEW m \in V, NEW c \in Onward({m}), dist[m] + 1 < MaxDepth
      PROVE  Reached(dist, V, T, c, dist[m] + 1)
  <2>1. dist[m] \in 0 .. MaxDepth - 1
    BY DEF Measured
  <2>2. dist[m] + 1 \in Nat
    BY <2>1
  <2>3. Reached(dist, V, Q, c, dist[m] + 1)
    BY <1>4 DEF Measured
  <2> QED
    BY <1>2, <1>4, <2>2, <2>3
<1> QED
  BY <1>1, <1>3, <1>4 DEF Measured

\* A name is visited: what it leads to waits behind the rest, at the next depth.
LEMMA MeasuredVisit ==
  ASSUME NEW dist, NEW V, NEW Q, NEW q \in Q, NEW T, NEW S, Q = {q} \cup T,
         Measured(dist, V, Q), q.depth \in Nat, q.depth < MaxDepth,
         \A x \in Q : x.depth \in Nat /\ q.depth <= x.depth,
         \A x \in S : x.name \in Onward({q.name}) /\ x.depth = q.depth + 1,
         q.name \notin V => \A c \in Onward({q.name}) : \E x \in S : x.name = c
  PROVE  \E d : Measured(d, V \cup {q.name}, T \cup S)
<1> DEFINE W == V \cup {q.name}
           U == T \cup S
           d == [m \in W |-> IF m \in V THEN dist[m] ELSE q.depth]
<1>0. MaxDepth \in Nat \ {0} /\ q.depth \in 0 .. MaxDepth - 1
  BY DnsConstants
<1>1. /\ \A m \in V : d[m] = dist[m]
      /\ q.name \notin V => d[q.name] = q.depth
  OBVIOUS
<1>2. \A m \in V : dist[m] \in 0 .. MaxDepth - 1 /\ m \in Levels[dist[m]] /\ dist[m] <= q.depth
  BY DEF Measured
<1>3. d[q.name] <= q.depth
  BY <1>0, <1>1, <1>2
<1> HIDE DEF d
<1>4. q.name \in Levels[q.depth]
  BY DEF Measured
<1>5. \A m \in W : d[m] \in 0 .. MaxDepth - 1 /\ m \in Levels[d[m]] /\ d[m] <= q.depth
  <2>1. \A m \in V : d[m] \in 0 .. MaxDepth - 1 /\ m \in Levels[d[m]] /\ d[m] <= q.depth
    BY <1>1, <1>2
  <2>2. q.name \notin V => /\ d[q.name] \in 0 .. MaxDepth - 1 /\ d[q.name] <= q.depth
                           /\ q.name \in Levels[d[q.name]]
    BY <1>0, <1>1, <1>4
  <2> QED
    BY <2>1, <2>2
<1>6. ASSUME NEW m \in W, NEW x \in U PROVE d[m] <= x.depth
  <2>1. x.depth \in Nat /\ q.depth <= x.depth
    BY <1>0
  <2> QED
    BY <1>0, <1>5, <2>1
<1>7. ASSUME NEW x \in U, x.depth < MaxDepth PROVE x.name \in Levels[x.depth]
  <2>1. CASE x \in T
    BY <1>7, <2>1 DEF Measured
  <2>2. CASE x \in S
    <3>1. x.name \in Onward({q.name}) /\ x.depth = q.depth + 1
      BY <2>2
    <3>2. q.depth + 1 \in 1 .. MaxDepth - 1 /\ (q.depth + 1) - 1 = q.depth
      BY <1>0, <1>7, <3>1
    <3>3. Levels[q.depth + 1] = Onward(Levels[q.depth])
      <4>1. Levels[q.depth + 1] = Onward(Levels[(q.depth + 1) - 1])
        BY <3>2, LevelsFacts
      <4> QED
        BY <3>2, <4>1
    <3>4. x.name \in Onward(Levels[q.depth])
      BY <1>4, <3>1, OnwardUnion
    <3> QED
      BY <3>1, <3>3, <3>4
  <2> QED
    BY <2>1, <2>2
<1>8. ASSUME NEW c, NEW n \in Nat, Reached(dist, V, Q, c, n)
      PROVE  Reached(d, W, U, c, n)
  <2>1. CASE c \in V /\ dist[c] <= n
    BY <1>1, <2>1 DEF Reached
  <2>2. CASE \E x \in T : x.name = c /\ x.depth <= n
    BY <2>2 DEF Reached
  <2>3. CASE q.name = c /\ q.depth <= n
    <3>1. d[c] <= n
      BY <1>0, <1>3, <1>5, <1>8, <2>3
    <3> QED
      BY <2>3, <3>1 DEF Reached
  <2> QED
    BY <1>8, <2>1, <2>2, <2>3 DEF Reached
<1>9. Reached(d, W, U, Apex, 0)
  BY <1>8 DEF Measured
<1>10. ASSUME NEW m \in W, NEW c \in Onward({m}), d[m] + 1 < MaxDepth
       PROVE  Reached(d, W, U, c, d[m] + 1)
  <2>1. CASE m \in V
    <3>1. d[m] = dist[m] /\ d[m] + 1 \in Nat
      BY <1>1, <1>2, <2>1
    <3>2. Reached(dist, V, Q, c, dist[m] + 1)
      BY <1>10, <2>1, <3>1 DEF Measured
    <3> QED
      BY <1>8, <3>1, <3>2
  <2>2. CASE m \notin V
    <3>1. m = q.name /\ d[m] = q.depth
      BY <1>1, <2>2
    <3>2. PICK x \in S : x.name = c
      BY <2>2, <3>1
    <3>3. x.depth <= d[m] + 1
      BY <1>0, <3>1
    <3> QED
      BY <3>2, <3>3 DEF Reached
  <2> QED
    BY <2>1, <2>2
<1>11. Measured(d, W, U)
  <2> HIDE DEF W, U
  <2> QED
    BY <1>5, <1>6, <1>7, <1>9, <1>10 DEF Measured
<1> QED
  BY <1>11

\* When nothing waits, the names visited are the ones within the depth cap.
LEMMA MeasuredAll ==
  ASSUME NEW dist, NEW V, Measured(dist, V, {})
  PROVE  V = UNION {Levels[n] : n \in DOMAIN Levels}
<1>0. MaxDepth \in Nat \ {0} /\ DOMAIN Levels = 0 .. MaxDepth - 1
  BY DnsConstants, LevelsFacts
<1>1. \A c, n : Reached(dist, V, {}, c, n) <=> c \in V /\ dist[c] <= n
  BY DEF Reached
<1>2. \A m \in V : dist[m] \in 0 .. MaxDepth - 1 /\ m \in Levels[dist[m]]
  BY DEF Measured
<1> DEFINE Good(n) == \A m \in Levels[n] : m \in V /\ dist[m] <= n
           bad == {n \in 0 .. MaxDepth - 1 : ~Good(n)}
<1>3. bad = {}
  <2> SUFFICES ASSUME bad # {} PROVE FALSE
    OBVIOUS
  <2>1. bad \in SUBSET Nat
    BY <1>0
  <2> HIDE DEF Good
  <2>2. PICK n \in bad : \A y \in bad : n <= y
    BY <2>1, LeastMember
  <2>3. n \in 0 .. MaxDepth - 1 /\ ~Good(n)
    BY <2>2
  <2>4. n # 0
    <3>1. Good(0)
      BY <1>1, LevelsFacts DEF Measured, Good
    <3> QED
      BY <2>3, <3>1
  <2>5. n - 1 \in 0 .. MaxDepth - 1 /\ ~(n <= n - 1) /\ n \in 1 .. MaxDepth - 1
    BY <1>0, <2>3, <2>4
  <2>6. Good(n - 1)
    BY <2>2, <2>5
  <2>7. ASSUME NEW c \in Levels[n] PROVE c \in V /\ dist[c] <= n
    <3>1. c \in Onward(Levels[n - 1])
      BY <2>5, LevelsFacts
    <3>2. PICK m \in Levels[n - 1] : c \in Onward({m})
      BY <3>1, OnwardUnion
    <3>3. m \in V /\ dist[m] <= n - 1
      BY <2>6, <3>2 DEF Good
    <3>4. dist[m] \in 0 .. MaxDepth - 1 /\ dist[m] + 1 < MaxDepth /\ dist[m] + 1 <= n
      BY <1>0, <1>2, <2>5, <3>3
    <3>5. c \in V /\ dist[c] <= dist[m] + 1
      BY <1>1, <3>2, <3>3, <3>4 DEF Measured
    <3>6. dist[c] \in 0 .. MaxDepth - 1
      BY <1>2, <3>5
    <3> QED
      BY <2>5, <3>4, <3>5, <3>6
  <2> QED
    BY <2>3, <2>7 DEF Good
<1>4. \A n \in 0 .. MaxDepth - 1 : Levels[n] \subseteq V
  BY <1>3
<1> QED
  BY <1>0, <1>2, <1>4

LEMMA NameInit == Init => NameInv
<1> SUFFICES ASSUME Init PROVE NameInv
  OBVIOUS
<1> DEFINE first == [name |-> Apex, depth |-> 0]
<1>1. zone \in Zones /\ queue = <<first>> /\ visited = {} /\ out = <<>> /\ resolved = "no"
  BY DEF Init, DnsInit
<1>2. first \in Queued
  BY DEF Queued
<1>3. first.name = Apex /\ first.depth = 0
  OBVIOUS
<1> HIDE DEF first
<1>4. queue \in Seq(Queued) /\ Len(queue) = 1 /\ queue[1] = first /\ DOMAIN queue = 1 .. 1
  BY <1>1, <1>2
<1>5. ToSet(queue) = {first}
  BY <1>4 DEF ToSet
<1>6. Layered(queue)
  BY <1>3, <1>4 DEF Layered
<1>7. Measured(<<>>, {}, {first})
  BY <1>3, LevelsFacts DEF Measured, Reached
<1>8. Concretes({}) = {} /\ ToSet(<<>>) = {}
  BY RecordsFacts DEF Concretes, ToSet
<1>9. out \in Seq(Found) /\ Len(out) = 0
  BY <1>1
<1>10. Distinct(out)
  BY <1>9 DEF Distinct
<1> QED
  BY <1>1, <1>4, <1>5, <1>6, <1>7, <1>8, <1>9, <1>10 DEF NameInv, Resolver

\* The head of the queue and the rest of it.
LEMMA QueueHead ==
  ASSUME queue \in Seq(Queued), queue # <<>>, Layered(queue)
  PROVE  /\ Head(queue) = queue[1] /\ Head(queue) \in Queued /\ Tail(queue) \in Seq(Queued)
         /\ Head(queue) \in ToSet(queue)
         /\ ToSet(queue) = {Head(queue)} \cup ToSet(Tail(queue))
         /\ \A x \in ToSet(queue) : x.depth \in Nat /\ Head(queue).depth <= x.depth
         /\ Layered(Tail(queue))
<1>1. /\ Head(queue) \in Queued /\ Tail(queue) \in Seq(Queued)
      /\ ToSet(queue) = {Head(queue)} \cup ToSet(Tail(queue))
  BY ToSetTail
<1>2. Head(queue) = queue[1] /\ DOMAIN queue = 1 .. Len(queue) /\ \A i \in 1 .. Len(queue) : queue[i] \in Queued
  OBVIOUS
<1>3. \A x \in Queued : x.depth \in Nat
  BY DEF Queued
<1>4. \A x \in ToSet(queue) : x.depth \in Nat
  BY <1>2, <1>3 DEF ToSet
<1>5. <<>> \in Seq(Queued) /\ ToSet(<<>>) = {}
  BY DEF ToSet
<1>6. /\ \A x \in ToSet(queue) : queue[1].depth <= x.depth
      /\ Layered(Tail(queue) \o <<>>)
  <2>1. \A x \in ToSet(<<>>) : x.depth = queue[1].depth + 1
    BY <1>5
  <2> DEFINE N == {Apex} \cup {r.name : r \in {r \in ZoneRecords : r.kind = "dnsaddr"}}
  <2>2. Queued = [name : N, depth : Nat]
    BY DEF Queued
  <2> HIDE DEF N
  <2>3. queue \in Seq([name : N, depth : Nat]) /\ <<>> \in Seq([name : N, depth : Nat])
    BY <1>5, <2>2
  <2> QED
    BY <2>1, <2>3, LayeredStep
<1>7. Tail(queue) \o <<>> = Tail(queue)
  BY <1>1
<1> QED
  BY <1>1, <1>2, <1>4, <1>6, <1>7

LEMMA NameSkip ==
  ASSUME zone \in Zones, Resolver, ResolveSkip
  PROVE  Resolver'
<1> DEFINE q == Head(queue)
           Q == ToSet(queue)
           T == ToSet(Tail(queue))
<1>1. /\ queue # <<>> /\ queue' = Tail(queue) /\ UNCHANGED <<zone, out>>
      /\ visited' = IF q.depth >= MaxDepth THEN visited ELSE visited \cup {q.name}
      /\ q.depth >= MaxDepth \/ q.name \in visited \/ DomainOf(q.name) = NoDomain
  BY DEF ResolveSkip, Skipped
<1>2. queue \in Seq(Queued) /\ Layered(queue)
  BY DEF Resolver
<1>3. /\ q \in Q /\ Q = {q} \cup T /\ Tail(queue) \in Seq(Queued)
      /\ \A x \in Q : x.depth \in Nat /\ q.depth <= x.depth
      /\ Layered(Tail(queue))
  BY <1>1, <1>2, QueueHead
<1>4. PICK dist : Measured(dist, visited, Q)
  BY DEF Resolver
<1> HIDE DEF q, Q, T
<1>5. q.depth \in Nat /\ MaxDepth \in Nat
  BY <1>3, DnsConstants
<1>6. (\E d : Measured(d, visited', T)) /\ ToSet(out) = Concretes(visited')
  <2>1. CASE q.depth >= MaxDepth
    <3>1. Measured(dist, visited, T)
      BY <1>3, <1>4, <1>5, <2>1, MeasuredDrop
    <3> QED
      BY <1>1, <2>1, <3>1 DEF Resolver
  <2>2. CASE ~(q.depth >= MaxDepth)
    <3>1. visited' = visited \cup {q.name} /\ q.depth < MaxDepth
      BY <1>1, <1>5, <2>2
    <3>2. q.name \notin visited => Onward({q.name}) = {} /\ Concretes({q.name}) = {}
      <4> SUFFICES ASSUME q.name \notin visited
                   PROVE  Onward({q.name}) = {} /\ Concretes({q.name}) = {}
        OBVIOUS
      <4>1. DomainOf(q.name) \notin DOMAIN zone
        BY <1>1, <2>2, DnsConstants
      <4>2. Records({q.name}) = {}
        BY <4>1, RecordsFacts
      <4> QED
        BY <4>2 DEF Onward, Concretes
    <3>3. \E d : Measured(d, visited \cup {q.name}, T \cup {})
      BY <1>3, <1>4, <1>5, <3>1, <3>2, MeasuredVisit
    <3>4. Concretes(visited \cup {q.name}) = Concretes(visited)
      <4>1. CASE q.name \in visited
        <5>1. visited \cup {q.name} = visited
          BY <4>1
        <5> QED
          BY <5>1
      <4>2. CASE q.name \notin visited
        <5>1. Concretes(visited \cup {q.name}) = Concretes(visited) \cup Concretes({q.name})
          BY ConcretesAdd
        <5> QED
          BY <3>2, <4>2, <5>1
      <4> QED
        BY <4>1, <4>2
    <3>5. T \cup {} = T
      OBVIOUS
    <3> QED
      BY <3>1, <3>3, <3>4, <3>5 DEF Resolver
  <2> QED
    BY <2>1, <2>2
<1>7. PICK d : Measured(d, visited', T)
  BY <1>6
<1>8. T = ToSet(queue')
  BY <1>1 DEF T
<1>9. Measured(d, visited, ToSet(queue))'
  BY <1>1, <1>7, <1>8, ZoneFixed
<1>10. (queue \in Seq(Queued) /\ Layered(queue))'
  BY <1>1, <1>3, ZoneFixed DEF Layered
<1>11. (out \in Seq(Found) /\ Distinct(out))'
  BY <1>1, ZoneFixed DEF Resolver, Distinct
<1>12. (ToSet(out) = Concretes(visited))'
  BY <1>1, <1>6, ZoneFixed DEF ToSet
<1> QED
  BY <1>9, <1>10, <1>11, <1>12 DEF Resolver

LEMMA NameLookup ==
  ASSUME zone \in Zones, Resolver, ResolveLookup
  PROVE  Resolver'
<1> DEFINE q == Head(queue)
           Q == ToSet(queue)
           T == ToSet(Tail(queue))
           dom == DomainOf(q.name)
           records == zone[dom]
           R == ToSet(records)
           at == q.depth + 1
           new == NamesIn(records, at)
           S == ToSet(new)
<1>1. /\ queue # <<>> /\ UNCHANGED zone
      /\ queue' = Tail(queue) \o new /\ out' = NewIn(records)
      /\ visited' = visited \cup {q.name}
      /\ ~(q.depth >= MaxDepth) /\ dom \in DOMAIN zone
  BY DEF ResolveLookup, Skipped
<1>2. queue \in Seq(Queued) /\ Layered(queue)
  BY DEF Resolver
<1>3. /\ q = queue[1] /\ q \in Q /\ Q = {q} \cup T /\ Tail(queue) \in Seq(Queued)
      /\ \A x \in Q : x.depth \in Nat /\ q.depth <= x.depth
  BY <1>1, <1>2, QueueHead
<1>4. PICK dist : Measured(dist, visited, Q)
  BY DEF Resolver
<1>5. records \in Seq(R)
  BY <1>1, DnsConstants
<1>6. R \subseteq ZoneRecords
  BY <1>1 DEF ZoneRecords
<1>7. Records({q.name}) = R
  <2>1. \A r : r \in Records({q.name}) <=> r \in R
    BY <1>1, RecordsFacts
  <2> QED
    BY <2>1
<1> HIDE DEF q, Q, T, dom, records, R
<1>8. q.depth \in Nat /\ q.depth < MaxDepth /\ at \in Nat
  <2>1. q.depth \in Nat /\ MaxDepth \in Nat
    BY <1>3, DnsConstants
  <2> QED
    BY <1>1, <2>1
<1> HIDE DEF at
<1>9. \A r \in R : r.kind = "dnsaddr" => [name |-> r.name, depth |-> at] \in Queued
  BY <1>6, <1>8 DEF Queued
<1>10. /\ new \in Seq(Queued)
       /\ S = {[name |-> r.name, depth |-> at] : r \in {r \in R : r.kind = "dnsaddr"}}
  BY <1>5, <1>9, NamesFacts DEF R
<1> HIDE DEF new, S
<1>11. ASSUME NEW x \in S PROVE x.name \in Onward({q.name}) /\ x.depth = at
  <2>1. PICK r \in R : r.kind = "dnsaddr" /\ x = [name |-> r.name, depth |-> at]
    BY <1>10
  <2>2. r.name \in Onward({q.name})
    BY <1>7, <2>1 DEF Onward
  <2> QED
    BY <2>1, <2>2
<1>12. \A c \in Onward({q.name}) : \E x \in S : x.name = c
  <2> SUFFICES ASSUME NEW c \in Onward({q.name}) PROVE \E x \in S : x.name = c
    OBVIOUS
  <2>1. PICK r \in R : r.kind = "dnsaddr" /\ c = r.name
    BY <1>7 DEF Onward
  <2>2. [name |-> r.name, depth |-> at] \in S
    BY <1>10, <2>1
  <2>3. [name |-> r.name, depth |-> at].name = c
    BY <2>1
  <2> QED
    BY <2>2, <2>3
<1>13. \E d : Measured(d, visited \cup {q.name}, T \cup S)
  <2>1. \A x \in S : x.name \in Onward({q.name}) /\ x.depth = q.depth + 1
    BY <1>11 DEF at
  <2> QED
    BY <1>3, <1>4, <1>8, <1>12, <2>1, MeasuredVisit
<1>14. ToSet(queue') = T \cup S /\ queue' \in Seq(Queued)
  <2>1. queue' \in Seq(Queued)
    BY <1>1, <1>3, <1>10
  <2> QED
    BY <1>1, <1>3, <1>10, <2>1, ToSetConcat DEF T, S
<1>15. Layered(queue')
  <2> DEFINE N == {Apex} \cup {r.name : r \in {r \in ZoneRecords : r.kind = "dnsaddr"}}
  <2>1. Queued = [name : N, depth : Nat]
    BY DEF Queued
  <2> HIDE DEF N
  <2>2. queue \in Seq([name : N, depth : Nat]) /\ new \in Seq([name : N, depth : Nat])
    BY <1>2, <1>10, <2>1
  <2>3. \A x \in ToSet(new) : x.depth = queue[1].depth + 1
    BY <1>3, <1>11 DEF S, at
  <2> QED
    BY <1>1, <1>2, <2>2, <2>3, LayeredStep
<1>16. PICK d : Measured(d, visited', ToSet(queue'))
  BY <1>1, <1>13, <1>14
<1>17. /\ out' \in Seq(Found) /\ Distinct(out')
       /\ ToSet(out') = ToSet(out) \cup {r.addr : r \in {r \in R : r.kind = "concrete"}}
  <2>1. \A r \in R : r.kind = "concrete" => r.addr \in Found
    BY <1>6 DEF Found
  <2>2. out \in Seq(Found) /\ Distinct(out)
    BY DEF Resolver
  <2> QED
    BY <1>1, <1>5, <2>1, <2>2, AddrsFacts DEF R
<1>18. ToSet(out') = Concretes(visited')
  <2>1. Concretes({q.name}) = {r.addr : r \in {r \in R : r.kind = "concrete"}}
    BY <1>7 DEF Concretes
  <2>2. Concretes(visited \cup {q.name}) = Concretes(visited) \cup Concretes({q.name})
    BY ConcretesAdd
  <2>3. ToSet(out) = Concretes(visited)
    BY DEF Resolver
  <2> QED
    BY <1>1, <1>17, <2>1, <2>2, <2>3
<1>19. Measured(d, visited, ToSet(queue))'
  BY <1>1, <1>16, ZoneFixed
<1>20. (queue \in Seq(Queued) /\ Layered(queue))'
  BY <1>1, <1>14, <1>15, ZoneFixed DEF Layered
<1>21. (out \in Seq(Found) /\ Distinct(out))'
  BY <1>1, <1>17, ZoneFixed DEF Distinct
<1>22. (ToSet(out) = Concretes(visited))'
  BY <1>1, <1>18, ZoneFixed DEF ToSet
<1> QED
  BY <1>19, <1>20, <1>21, <1>22 DEF Resolver

LEMMA NameIdle ==
  ASSUME Resolver, UNCHANGED <<zone, queue, visited, out>>
  PROVE  Resolver'
<1>1. PICK d : Measured(d, visited, ToSet(queue))
  BY DEF Resolver
<1>2. Measured(d, visited', ToSet(queue'))
  BY <1>1
<1>3. Measured(d, visited, ToSet(queue))'
  BY <1>2, ZoneFixed
<1>4. (queue \in Seq(Queued) /\ Layered(queue))'
  BY ZoneFixed DEF Resolver, Layered
<1>5. (out \in Seq(Found) /\ Distinct(out))'
  BY ZoneFixed DEF Resolver, Distinct
<1>6. (ToSet(out) = Concretes(visited))'
  BY ZoneFixed DEF Resolver, ToSet
<1> QED
  BY <1>3, <1>4, <1>5, <1>6 DEF Resolver

LEMMA NameNext == NameInv /\ [Next]_vars => NameInv'
<1> SUFFICES ASSUME NameInv, [Next]_vars PROVE NameInv'
  OBVIOUS
<1>1. ASSUME UNCHANGED dnsVars PROVE NameInv'
  BY <1>1, NameIdle DEF NameInv, dnsVars
<1> USE DEF NameInv
<1>2. CASE Resolving
  <2>1. CASE ResolveSkip
    BY <2>1, NameSkip DEF ResolveSkip
  <2>2. CASE ResolveLookup
    BY <2>2, NameLookup DEF ResolveLookup
  <2>3. CASE ResolveLookupFails
    BY <2>3 DEF ResolveLookupFails
  <2>4. CASE ResolveDone
    <3>1. resolved = "no" /\ queue = <<>> /\ UNCHANGED <<zone, queue, visited, out>>
      BY <2>4 DEF ResolveDone
    <3> QED
      BY <3>1, NameIdle
  <2> QED
    BY <1>2, <2>1, <2>2, <2>3, <2>4 DEF Resolving, DnsNext
<1>3. CASE ResolveBootnode
  BY <1>3 DEF ResolveBootnode
<1>4. ASSUME NEW a \in DOMAIN PeerAt, ConfiguredBootnode(a) PROVE NameInv'
  BY <1>4 DEF ConfiguredBootnode
<1>5. CASE TryAgain
  BY <1>1, <1>5 DEF TryAgain
<1>6. CASE LearnOverlay
  BY <1>1, <1>6 DEF LearnOverlay
<1>7. CASE Spawn
  BY <1>1, <1>7 DEF Spawn
<1>8. CASE HandshakeBoot
  BY <1>1, <1>8 DEF HandshakeBoot
<1>9. CASE AcceptHive
  BY <1>1, <1>9 DEF AcceptHive
<1>10. CASE Feed
  BY <1>1, <1>10 DEF Feed
<1>11. CASE FeedEnds
  BY <1>1, <1>11 DEF FeedEnds
<1>12. CASE DialNeighbour
  BY <1>1, <1>12 DEF DialNeighbour
<1>13. CASE Pull
  BY <1>1, <1>13 DEF Pull
<1>14. CASE PullEnds
  BY <1>1, <1>14 DEF PullEnds
<1>15. CASE Report
  BY <1>1, <1>15 DEF Report
<1>16. ASSUME NEW t \in Tasks, StartTask(t) PROVE NameInv'
  BY <1>1, <1>16 DEF StartTask
<1>17. CASE Timeout
  BY <1>1, <1>17 DEF Timeout
<1>18. ASSUME NEW p \in Peers, NEW what \in {"pricing", "handshake"}, BeeCalls(p, what)
       PROVE  NameInv'
  BY <1>1, <1>18 DEF BeeCalls
<1>19. ASSUME NEW p \in Peers, NEW addrs \in Pushes, BeePush(p, addrs) PROVE NameInv'
  BY <1>1, <1>19 DEF BeePush
<1>20. CASE UNCHANGED vars
  BY <1>1, <1>20 DEF vars
<1> QED
  BY <1>2, <1>3, <1>4, <1>5, <1>6, <1>7, <1>8, <1>9, <1>10, <1>11, <1>12, <1>13, <1>14, <1>15,
     <1>16, <1>17, <1>18, <1>19, <1>20 DEF Next, MainStep

\* A resolution that succeeds finds exactly the addresses that a chain of fewer than
\* MaxDepth indirections leads to, each once, for any zone: visited is closed under
\* the chains that the depth cap allows because resolve_with goes breadth first, so a
\* name is first met along a shortest chain.
THEOREM ResolutionComplete == Spec => []ResolvesReachable
<1>1. NameInv => ResolvesReachable
  <2> SUFFICES ASSUME NameInv, resolved \in {"ok", "NoAddresses"}
               PROVE  /\ ToSet(out) = Concretes(UNION {Levels[n] : n \in DOMAIN Levels})
                      /\ Len(out) = Cardinality(ToSet(out))
    BY DEF ResolvesReachable, Concretes
  <2>1. queue = <<>> /\ Resolver
    BY DEF NameInv
  <2>2. ToSet(queue) = {}
    BY <2>1 DEF ToSet
  <2>3. visited = UNION {Levels[n] : n \in DOMAIN Levels}
    BY <2>1, <2>2, MeasuredAll DEF Resolver
  <2>4. ToSet(out) = Concretes(UNION {Levels[n] : n \in DOMAIN Levels})
    BY <2>1, <2>3 DEF Resolver
  <2> DEFINE n == Len(out)
             f == [i \in 1 .. n |-> out[i]]
  <2>5. out \in Seq(Found) /\ Distinct(out) /\ n \in Nat /\ DOMAIN out = 1 .. n
    BY <2>1 DEF Resolver
  <2>6. f \in Bijection(1 .. n, ToSet(out))
    <3>1. f \in [1 .. n -> ToSet(out)] /\ \A a \in ToSet(out) : \E i \in 1 .. n : f[i] = a
      BY <2>5 DEF ToSet
    <3>2. IsInjective(f)
      BY <2>5 DEF IsInjective, Distinct
    <3> QED
      BY <3>1, <3>2 DEF Bijection, Injection, Surjection
  <2>7. IsFiniteSet(1 .. n) /\ Cardinality(1 .. n) = n
    BY <2>5, FS_Interval
  <2> HIDE DEF f, n
  <2>8. Cardinality(ToSet(out)) = n
    BY <2>6, <2>7, FS_Bijection DEF ExistsBijection
  <2> QED
    BY <2>4, <2>8 DEF n
<1> QED
  BY <1>1, NameInit, NameNext, PTL DEF Spec
=============================================================================
