-------------------------- MODULE FetchStreamProofs --------------------------
(***************************************************************************)
(* What a fetch reports, for any entries, offers and frames of a server,   *)
(* honest or not, and for an end of the stream at any frame.               *)
(*                                                                         *)
(* ClientInv is about the client alone: nothing is assumed of what is on   *)
(* its way to it.  HonestInv says where a stream with an honest server     *)
(* stands, and what the two ends make of one bit vector.                   *)
(***************************************************************************)
EXTENDS FetchStream, FiniteSetTheorems, SequenceTheorems, WellFoundedInduction, TLAPS

Verdicts == {"Delivered", "Rejected", "Missed"}

-----------------------------------------------------------------------------
(* Lists of outcomes.                                                      *)

\* An outcome for each triple of S, and only one.
Lists(o, S) ==
  /\ o \in Seq(S \X Verdicts)
  /\ \A t \in S : \E i \in 1 .. Len(o) : o[i][1] = t
  /\ \A i, j \in 1 .. Len(o) : o[i][1] = o[j][1] => i = j

\* Every outcome but a miss is the verdict an honest holder earns.
Global(o) == \A i \in 1 .. Len(o) : o[i][2] # "Missed" => o[i][2] = Verdict(o[i][1])

LEMMA ListsConcat ==
  ASSUME NEW S, NEW T, S \cap T = {}, NEW o, NEW u, Lists(o, S), Lists(u, T)
  PROVE  /\ Lists(o \o u, S \cup T)
         /\ Global(o) /\ Global(u) => Global(o \o u)
<1> DEFINE U == (S \cup T) \X Verdicts
           n == Len(o)
           w == o \o u
<1>1. o \in Seq(S \X Verdicts) /\ u \in Seq(T \X Verdicts)
  BY DEF Lists
<1>2. o \in Seq(U) /\ u \in Seq(U)
  BY <1>1, SeqMonotonic
<1>3. n \in Nat /\ Len(u) \in Nat
  BY <1>1, LenProperties
<1>4. /\ w \in Seq(U) /\ Len(w) = n + Len(u)
      /\ \A i \in 1 .. n + Len(u) : w[i] = IF i <= n THEN o[i] ELSE u[i - n]
  BY <1>2, ConcatProperties
<1>5. /\ \A i \in 1 .. n : o[i][1] \in S
      /\ \A i \in 1 .. Len(u) : u[i][1] \in T
  BY <1>1, ElementOfSeq
<1> HIDE DEF w, n, U
<1>6. /\ \A i \in 1 .. n : i \in 1 .. Len(w) /\ w[i] = o[i]
      /\ \A i \in 1 .. Len(u) : i + n \in 1 .. Len(w) /\ w[i + n] = u[i]
  BY <1>3, <1>4
<1>7. \A i \in 1 .. Len(w) : i \in 1 .. n \/ \E j \in 1 .. Len(u) : i = j + n
  <2> SUFFICES ASSUME NEW i \in 1 .. Len(w), i \notin 1 .. n
               PROVE  \E j \in 1 .. Len(u) : i = j + n
    OBVIOUS
  <2>1. i - n \in 1 .. Len(u) /\ i = (i - n) + n
    BY <1>3, <1>4
  <2> QED
    BY <2>1
<1>8. \A t \in S \cup T : \E i \in 1 .. Len(w) : w[i][1] = t
  <2>1. ASSUME NEW t \in S
        PROVE  \E i \in 1 .. Len(w) : w[i][1] = t
    <3>1. PICK i \in 1 .. n : o[i][1] = t
      BY DEF Lists, n
    <3> QED
      BY <1>6, <3>1
  <2>2. ASSUME NEW t \in T
        PROVE  \E i \in 1 .. Len(w) : w[i][1] = t
    <3>1. PICK i \in 1 .. Len(u) : u[i][1] = t
      BY DEF Lists
    <3> QED
      BY <1>6, <3>1
  <2> QED
    BY <2>1, <2>2
<1>9. ASSUME NEW i \in 1 .. Len(w), NEW j \in 1 .. Len(w), w[i][1] = w[j][1]
      PROVE  i = j
  <2>1. CASE i \in 1 .. n /\ j \in 1 .. n
    BY <1>6, <1>9, <2>1 DEF Lists, n
  <2>2. ASSUME NEW x \in 1 .. Len(u), NEW y \in 1 .. Len(u), i = x + n, j = y + n
        PROVE  i = j
    BY <1>6, <1>9, <2>2 DEF Lists
  <2>3. ASSUME NEW x \in 1 .. n, NEW y \in 1 .. Len(u)
        PROVE  w[x][1] # w[y + n][1]
    BY <1>5, <1>6
  <2> QED
    BY <1>7, <1>9, <2>1, <2>2, <2>3
<1>10. ASSUME Global(o), Global(u)
       PROVE  Global(w)
  <2> SUFFICES ASSUME NEW i \in 1 .. Len(w), w[i][2] # "Missed"
               PROVE  w[i][2] = Verdict(w[i][1])
    BY DEF Global
  <2>1. CASE i \in 1 .. n
    BY <1>6, <1>10, <2>1 DEF Global, n
  <2>2. ASSUME NEW j \in 1 .. Len(u), i = j + n
        PROVE  w[i][2] = Verdict(w[i][1])
    BY <1>6, <1>10, <2>2 DEF Global
  <2> QED
    BY <1>7, <2>1, <2>2
<1> QED
  BY <1>4, <1>8, <1>9, <1>10 DEF Lists, w, U

LEMMA ListsNone == Lists(<<>>, {}) /\ Global(<<>>)
<1>1. <<>> \in Seq({} \X Verdicts) /\ Len(<<>>) = 0
  BY EmptySeq
<1> QED
  BY <1>1 DEF Lists, Global

LEMMA ListsOne ==
  ASSUME NEW t, NEW v \in Verdicts
  PROVE  /\ Lists(<<<<t, v>>>>, {t})
         /\ (v # "Missed" => v = Verdict(t)) => Global(<<<<t, v>>>>)
<1> DEFINE s == <<<<t, v>>>>
<1>1. s \in Seq({t} \X Verdicts) /\ Len(s) = 1 /\ s[1] = <<t, v>>
  OBVIOUS
<1> HIDE DEF s
<1> QED
  BY <1>1 DEF Lists, Global, s

\* The misses reported for S.
LEMMA ListsMissed ==
  ASSUME NEW S, IsFiniteSet(S)
  PROVE  /\ Lists(MissedAll(S), S) /\ Global(MissedAll(S))
         /\ \A i \in 1 .. Len(MissedAll(S)) : MissedAll(S)[i] \in S \X {"Missed"}
<1> DEFINE M == S \X {"Missed"}
           n == Cardinality(M)
           s == MissedAll(S)
<1>1. IsFiniteSet(M)
  <2> DEFINE f == [x \in S |-> <<x, "Missed">>]
  <2>1. f \in Surjection(S, M)
    BY DEF Surjection
  <2> HIDE DEF f
  <2> QED
    BY <2>1, FS_Surjection
<1>2. n \in Nat /\ ExistsBijection(1 .. n, M)
  BY <1>1, FS_CardinalityType
<1>3. PICK f : f \in Injection(1 .. n, M)
  BY <1>2 DEF ExistsBijection, Bijection
<1>4. s \in [1 .. n -> M] /\ IsInjective(s)
  <2>1. f \in [1 .. n -> M] /\ IsInjective(f)
    BY <1>3 DEF Injection
  <2> QED
    BY <2>1 DEF MissedAll, SetToSeq
<1> HIDE DEF n, s
<1>5. s \in Surjection(1 .. n, M)
  <2>1. s \in Injection(1 .. n, M)
    BY <1>4 DEF Injection
  <2>2. IsFiniteSet(1 .. n) /\ Cardinality(1 .. n) = n
    BY <1>2, FS_Interval
  <2> HIDE DEF M
  <2>3. Cardinality(1 .. n) = Cardinality(M)
    BY <2>2 DEF n
  <2> QED
    BY <1>1, <2>1, <2>3, FS_Injection
<1>6. s \in Seq(S \X Verdicts) /\ Len(s) = n
  <2>1. s \in [1 .. n -> S \X Verdicts]
    BY <1>4 DEF Verdicts
  <2> QED
    BY <1>2, <2>1
<1>7. \A i \in 1 .. n : s[i] \in M
  BY <1>4
<1>8. \A t \in S : \E i \in 1 .. Len(s) : s[i][1] = t
  <2> SUFFICES ASSUME NEW t \in S PROVE \E i \in 1 .. n : s[i] = <<t, "Missed">>
    BY <1>6
  <2> QED
    BY <1>5 DEF Surjection
<1>9. \A i, j \in 1 .. Len(s) : s[i][1] = s[j][1] => i = j
  <2> SUFFICES ASSUME NEW i \in 1 .. n, NEW j \in 1 .. n, s[i][1] = s[j][1] PROVE i = j
    BY <1>6
  <2>1. s[i] = <<s[i][1], "Missed">> /\ s[j] = <<s[j][1], "Missed">>
    BY <1>7
  <2>2. s[i] = s[j]
    BY <2>1
  <2> QED
    BY <1>4, <2>2 DEF IsInjective
<1>10. Global(s)
  BY <1>6, <1>7 DEF Global
<1> QED
  BY <1>6, <1>7, <1>8, <1>9, <1>10 DEF Lists, s

\* As many outcomes as triples.
LEMMA ListsCount ==
  ASSUME NEW S, NEW o, Lists(o, S)
  PROVE  Len(o) = Cardinality(S) /\ {o[i][1] : i \in DOMAIN o} = S
<1> DEFINE n == Len(o)
           f == [i \in 1 .. n |-> o[i][1]]
<1>1. /\ o \in Seq(S \X Verdicts) /\ n \in Nat /\ DOMAIN o = 1 .. n
      /\ \A i \in 1 .. n : o[i][1] \in S
  BY LenProperties, ElementOfSeq DEF Lists
<1>2. f \in Bijection(1 .. n, S)
  <2>1. f \in [1 .. n -> S]
    BY <1>1
  <2>2. IsInjective(f)
    BY <1>1 DEF Lists, IsInjective
  <2>3. \A t \in S : \E i \in 1 .. n : f[i] = t
    BY <1>1 DEF Lists
  <2> QED
    BY <2>1, <2>2, <2>3 DEF Bijection, Injection, Surjection
<1>3. IsFiniteSet(1 .. n) /\ Cardinality(1 .. n) = n
  BY <1>1, FS_Interval
<1>4. n = Cardinality(S)
  <2> HIDE DEF f, n
  <2> QED
    BY <1>2, <1>3, FS_Bijection DEF ExistsBijection
<1>5. {o[i][1] : i \in DOMAIN o} = S
  BY <1>1 DEF Lists
<1> QED
  BY <1>4, <1>5

-----------------------------------------------------------------------------
(* The verdict on an entry.                                                *)

LEMMA VerdictType ==
  ASSUME NEW t, NEW d
  PROVE  Validate(codec, t, d) \in Verdicts
BY DEF Validate, Verdicts

\* A delivery that answers for an entry carries its stamp, so content is all that
\* it can get wrong.
LEMMA OneVerdict ==
  ASSUME NEW t \in Triples, NEW d, t = Answered(d), Validate(codec, t, d) # "Missed"
  PROVE  Validate(codec, t, d) = Verdict(t)
<1> DEFINE e == EntryOf(t)
<1>1. e \in Entries /\ e.triple = t
  BY DEF Triples, EntryOf
<1>2. Parses(e.stamp) /\ t = Triple(ChunkAddress(e.data), e.stamp.batch_id, Keccak(e.stamp))
  BY <1>1, FetchConstants
<1>3. t # None
  BY FetchConstants
<1>4. Parses(d.stamp) /\ t = Triple(d.address, d.stamp.batch_id, Keccak(d.stamp))
  BY <1>3 DEF Answered, TripleOfDelivery
<1> HIDE DEF e
<1>5. e.stamp = d.stamp
  <2>1. Keccak(e.stamp) = Keccak(d.stamp)
    BY <1>2, <1>4 DEF Triple
  <2> QED
    BY <2>1 DEF Keccak
<1>6. ChunkAddress(e.data) = t.address
  BY <1>2 DEF Triple
<1>7. Genuine(t).data = e.data /\ Genuine(t).stamp = e.stamp
  BY DEF Genuine, Delivery, e
<1> QED
  BY <1>2, <1>4, <1>5, <1>6, <1>7 DEF Verdict, Validate

-----------------------------------------------------------------------------
(* The client.                                                             *)

\* The client's knowledge: nothing before the fresh offer; from then on the wants
\* that are not pending are listed with their outcomes.
ClientInv ==
  /\ want \subseteq Triples /\ IsFiniteSet(want)
  /\ Global(outcomes)
  /\ client \in {"SendGet", "AwaitOffer", "AwaitDeliveries", "Done"}
  /\ client \in {"SendGet", "AwaitOffer"} => ~heard
  /\ client = "AwaitDeliveries" => heard
  /\ ~heard => outcomes = <<>> /\ pending = {}
  /\ heard => pending \subseteq want /\ Lists(outcomes, want \ pending)

LEMMA ClientInit == Init => ClientInv
<1> SUFFICES ASSUME Init PROVE ClientInv
  OBVIOUS
<1>1. want \subseteq Triples
  BY FetchConstants DEF Init
<1>2. IsFiniteSet(Triples)
  <2> DEFINE f == [e \in Entries |-> e.triple]
  <2>1. f \in Surjection(Entries, Triples)
    BY DEF Surjection, Triples
  <2> HIDE DEF f
  <2> QED
    BY <2>1, FetchConstants, FS_Surjection
<1>3. IsFiniteSet(want)
  BY <1>1, <1>2, FS_Subset
<1> QED
  BY <1>1, <1>3, ListsNone DEF Init, ClientInv

\* What the client knows; remaining only counts frames.
known == <<codec, want, client, pending, outcomes, heard>>

\* Nothing the client knows changes.
LEMMA Idle ==
  ASSUME ClientInv, UNCHANGED known
  PROVE  ClientInv'
BY DEF ClientInv, known, Lists, Global, Verdict, Validate, Paid, Valid

LEMMA GotOffer == ClientInv /\ ClientOffer => ClientInv'
<1> SUFFICES ASSUME ClientInv, ClientOffer PROVE ClientInv'
  OBVIOUS
<1> DEFINE offer == Head(down).entries
           named == {TripleOf(offer[i + 1]) : i \in Matched(offer)}
           missed == MissedAll(want \ named)
<1>1. /\ client = "AwaitOffer" /\ heard' = TRUE /\ pending' = named
      /\ outcomes' = outcomes \o missed /\ want' = want /\ codec' = codec
      /\ client' \in {"Done", "AwaitDeliveries"}
  BY DEF ClientOffer
<1>2. named \subseteq want
  BY DEF Matched
<1> HIDE DEF named
<1>3. outcomes = <<>>
  BY <1>1 DEF ClientInv
<1>4. IsFiniteSet(want \ named)
  BY FS_Subset DEF ClientInv
<1>5. Lists(missed, want \ named) /\ Global(missed)
  BY <1>4, ListsMissed
<1> HIDE DEF missed
<1>6. outcomes' = missed
  BY <1>1, <1>3, <1>5, ConcatEmptySeq DEF Lists
<1> QED
  BY <1>1, <1>2, <1>5, <1>6
  DEF ClientInv, Lists, Global, Verdict, Validate, Paid, Valid

LEMMA GotDelivery == ClientInv /\ ClientDelivery => ClientInv'
<1> SUFFICES ASSUME ClientInv, ClientDelivery PROVE ClientInv'
  OBVIOUS
<1> DEFINE d == Head(down)
           t == Answered(d)
           v == Validate(codec, t, d)
<1>1. /\ client = "AwaitDeliveries" /\ client' = client /\ heard' = heard
      /\ want' = want /\ codec' = codec /\ pending' = pending \ {t}
      /\ outcomes' = IF t \in pending THEN Append(outcomes, <<t, v>>) ELSE outcomes
  BY DEF ClientDelivery
<1>2. v \in Verdicts
  BY VerdictType
<1>3. heard /\ pending \subseteq want /\ want \subseteq Triples /\ Lists(outcomes, want \ pending)
  BY <1>1 DEF ClientInv
<1>4. CASE t \in pending
  <2>1. v # "Missed" => v = Verdict(t)
    BY <1>3, <1>4, OneVerdict
  <2> HIDE DEF t, v, d
  <2> DEFINE one == <<<<t, v>>>>
  <2>2. Lists(one, {t}) /\ Global(one)
    BY <1>2, <2>1, ListsOne
  <2> HIDE DEF one
  <2>3. outcomes' = outcomes \o one
    <3>1. outcomes \in Seq((want \ pending) \X Verdicts)
      BY <1>3 DEF Lists
    <3>2. outcomes \in Seq(want \X Verdicts) /\ <<t, v>> \in want \X Verdicts
      BY <1>2, <1>3, <1>4, <3>1, SeqMonotonic
    <3> QED
      BY <1>1, <1>4, <3>2, AppendIsConcat DEF one
  <2>4. Lists(outcomes', (want \ pending) \cup {t}) /\ Global(outcomes')
    <3>1. (want \ pending) \cap {t} = {} /\ Global(outcomes)
      BY <1>4 DEF ClientInv
    <3> QED
      BY <1>3, <2>2, <2>3, <3>1, ListsConcat
  <2>5. (want \ pending) \cup {t} = want' \ pending'
    BY <1>1, <1>3, <1>4
  <2>6. Lists(outcomes, want \ pending)'
    BY <2>4, <2>5 DEF Lists
  <2>7. Global(outcomes)'
    BY <1>1, <2>4 DEF Global, Verdict, Validate, Paid, Valid
  <2>8. (want \subseteq Triples /\ IsFiniteSet(want) /\ pending \subseteq want)'
    BY <1>1, <1>3 DEF ClientInv
  <2> QED
    BY <1>1, <1>3, <2>6, <2>7, <2>8 DEF ClientInv
<1>5. CASE t \notin pending
  <2>1. pending' = pending /\ outcomes' = outcomes
    BY <1>1, <1>5
  <2> QED
    BY <1>1, <2>1, Idle DEF known
<1> QED
  BY <1>4, <1>5

LEMMA Closed == ClientInv /\ client # "Done" /\ Close => ClientInv'
<1> SUFFICES ASSUME ClientInv, client # "Done", Close PROVE ClientInv'
  OBVIOUS
<1>1. /\ client' = "Done" /\ pending' = {} /\ want' = want /\ codec' = codec /\ heard' = heard
  BY DEF Close
<1>2. CASE client = "AwaitDeliveries"
  <2> DEFINE missed == MissedAll(pending)
  <2>1. heard /\ pending \subseteq want /\ Lists(outcomes, want \ pending) /\ Global(outcomes)
    BY <1>2 DEF ClientInv
  <2>2. IsFiniteSet(pending)
    BY <2>1, FS_Subset DEF ClientInv
  <2>3. Lists(missed, pending) /\ Global(missed)
    BY <2>2, ListsMissed
  <2>4. outcomes' = outcomes \o missed
    BY <1>2 DEF Close
  <2> HIDE DEF missed
  <2>5. Lists(outcomes', (want \ pending) \cup pending) /\ Global(outcomes')
    BY <2>1, <2>3, <2>4, ListsConcat
  <2>6. (want \ pending) \cup pending = want' \ pending'
    BY <1>1, <2>1
  <2> QED
    BY <1>1, <2>1, <2>5, <2>6 DEF ClientInv, Lists, Global, Verdict, Validate, Paid, Valid
<1>3. CASE client # "AwaitDeliveries" /\ ~heard
  <2>1. outcomes' = outcomes
    BY <1>3 DEF Close
  <2> QED
    BY <1>1, <1>3, <2>1 DEF ClientInv, Global, Verdict, Validate, Paid, Valid
<1> QED
  BY <1>2, <1>3 DEF ClientInv

\* The server's frames, the world's faults and the end of the stream reach the
\* client only through the frames it reads.
LEMMA ClientNext == ClientInv /\ [Next]_vars => ClientInv'
<1> SUFFICES ASSUME ClientInv, [Next]_vars PROVE ClientInv'
  OBVIOUS
<1>1. CASE ClientSendGet
  <2>1. /\ client = "SendGet" /\ client' = "AwaitOffer"
        /\ UNCHANGED <<codec, want, pending, outcomes, heard>>
    BY <1>1 DEF ClientSendGet
  <2> QED
    BY <2>1 DEF ClientInv, Lists, Global, Verdict, Validate, Paid, Valid
<1>2. CASE ClientOffer
  BY <1>2, GotOffer
<1>3. CASE ClientDelivery
  BY <1>3, GotDelivery
<1>4. CASE ClientFinish
  BY <1>4, Closed DEF ClientFinish
<1>5. CASE ClientEnded
  BY <1>5, Closed DEF ClientEnded
<1>6. CASE ServerGet
  BY <1>6, Idle DEF ServerGet, clientVars, known
<1>7. ASSUME NEW offer \in RogueOffers, RogueOffer(offer) PROVE ClientInv'
  BY <1>7, Idle DEF RogueOffer, clientVars, known
<1>8. CASE ServerWant
  BY <1>8, Idle DEF ServerWant, clientVars, known
<1>9. ASSUME NEW d \in Forgeries, RogueDelivery(d) PROVE ClientInv'
  BY <1>9, Idle DEF RogueDelivery, clientVars, known
<1>10. ASSUME NEW t \in Triples, Evict(t) PROVE ClientInv'
  BY <1>10, Idle DEF Evict, clientVars, known
<1>11. CASE StreamEnds
  BY <1>11, Idle DEF StreamEnds, clientVars, known
<1>12. CASE UNCHANGED vars
  BY <1>12, Idle DEF vars, known
<1> QED
  BY <1>1, <1>2, <1>3, <1>4, <1>5, <1>6, <1>7, <1>8, <1>9, <1>10, <1>11, <1>12 DEF Next

\* Outcomes are a list.
LEMMA OutcomeList == ClientInv => outcomes \in Seq(want \X Verdicts)
<1> SUFFICES ASSUME ClientInv PROVE outcomes \in Seq(want \X Verdicts)
  OBVIOUS
<1>1. CASE ~heard
  <2>1. outcomes = <<>>
    BY <1>1 DEF ClientInv
  <2> QED
    BY <2>1
<1>2. CASE heard
  <2>1. outcomes \in Seq((want \ pending) \X Verdicts)
    BY <1>2 DEF ClientInv, Lists
  <2>2. (want \ pending) \X Verdicts \subseteq want \X Verdicts
    OBVIOUS
  <2> QED
    BY <2>1, <2>2, SeqMonotonic
<1> QED
  BY <1>1, <1>2

\* The client's invariant holds whatever the other end does.
THEOREM ClientInductive == Spec => []ClientInv
BY ClientInit, ClientNext, PTL DEF Spec

\* Whatever a server sends, and at whatever frame the stream ends, from the fresh
\* offer on each want is pending or has exactly one outcome (FetchClient keeps
\* pending as a set and drains it in close).
THEOREM EachWantReportedOnce == Spec => []EachWantOnce
<1>1. ClientInv => EachWantOnce
  <2> SUFFICES ASSUME ClientInv, heard PROVE EachWantOnce
    BY DEF EachWantOnce
  <2>1. pending \subseteq want /\ Lists(outcomes, want \ pending)
    BY DEF ClientInv
  <2>2. Len(outcomes) = Cardinality(want \ pending) /\ Reported = want \ pending
    BY <2>1, ListsCount DEF Reported
  <2> QED
    BY <2>1, <2>2 DEF EachWantOnce
<1> QED
  BY <1>1, ClientInductive, PTL

\* A verdict other than Missed is the one that any holder of the entry would have
\* got for it: a rogue server can withhold an entry, never have it rejected or a
\* bad one stored (validate checks the stamp and the address it has answered for).
THEOREM VerdictsAreGlobal == Spec => []VerdictsGlobal
<1>1. ClientInv => VerdictsGlobal
  <2> SUFFICES ASSUME ClientInv PROVE VerdictsGlobal
    OBVIOUS
  <2>1. DOMAIN outcomes = 1 .. Len(outcomes)
    BY OutcomeList, LenProperties
  <2> QED
    BY <2>1 DEF ClientInv, Global, VerdictsGlobal
<1> QED
  BY <1>1, ClientInductive, PTL

-----------------------------------------------------------------------------
(* Bit vectors.                                                            *)

\* A set of naturals that is not empty has a least member.
LEMMA LeastMember ==
  ASSUME NEW S \in SUBSET Nat, S # {}
  PROVE  \E f \in S : \A i \in S : f <= i
<1> DEFINE Less == OpToRel(<, Nat)
<1>1. PICK f \in S : \A i \in S : <<i, f>> \notin Less
  <2>1. IsWellFoundedOn(Less, Nat)
    BY NatLessThanWellFounded
  <2> HIDE DEF Less
  <2> QED
    BY <2>1, WFMin
<1>2. \A i \in S : ~(i < f)
  BY <1>1 DEF OpToRel
<1> QED
  BY <1>2

LEMMA BytePosition ==
  ASSUME NEW i \in Nat
  PROVE  /\ i \div ByteBits \in Nat
         /\ (i \div ByteBits) * ByteBits <= i
         /\ i < (i \div ByteBits) * ByteBits + ByteBits
<1>1. ASSUME NEW B \in Nat \ {0}
      PROVE  i \div B \in Nat /\ (i \div B) * B <= i /\ i < (i \div B) * B + B
  OBVIOUS
<1> QED
  BY <1>1, CodecConstants

\* A position is told by its byte and its place in it.
LEMMA BytePlace ==
  ASSUME NEW i \in Nat, NEW j \in Nat,
         i \div ByteBits = j \div ByteBits, i % ByteBits = j % ByteBits
  PROVE  i = j
<1>1. ASSUME NEW B \in Nat \ {0}, i \div B = j \div B, i % B = j % B
      PROVE  i = j
  BY <1>1
<1> QED
  BY <1>1, CodecConstants

\* Later positions are in no earlier byte.
LEMMA ByteOrder ==
  ASSUME NEW i \in Nat, NEW j \in Nat, i <= j
  PROVE  i \div ByteBits <= j \div ByteBits
<1> DEFINE x == i \div ByteBits
           y == j \div ByteBits
           B == ByteBits
<1>1. /\ x \in Nat /\ y \in Nat /\ B \in Nat \ {0}
      /\ x * B <= i /\ j < y * B + B
  <2>1. x \in Nat /\ y \in Nat /\ B \in Nat \ {0}
    BY BytePosition, CodecConstants
  <2> QED
    BY <2>1, BytePosition
<1> HIDE DEF x, y, B
<1> SUFFICES ASSUME y + 1 <= x PROVE FALSE
  BY <1>1 DEF x, y
<1>2. x - (y + 1) \in Nat /\ x = y + 1 + (x - (y + 1))
  BY <1>1
<1>3. PICK d \in Nat : x = y + 1 + d
  BY <1>2
<1>4. x * B = y * B + B + d * B
  BY <1>1, <1>3
<1>5. d * B \in Nat /\ y * B \in Nat /\ x * B \in Nat
  BY <1>1
<1> QED
  BY <1>1, <1>4, <1>5

BitStep(bv, P, i) == IF i - 1 \in P THEN BitvectorSet(bv, i - 1) ELSE bv

\* g[i] has the first i positions of P.
BitLoop(g, P, L, N) ==
  g = [i \in 0 .. N |->
         IF i = 0 THEN BitvectorNew(IF L = 0 THEN 1 ELSE L) ELSE BitStep(g[i - 1], P, i)]

\* The loop that sets the bits has a result.
LEMMA BitRuns ==
  ASSUME NEW P, NEW L, NEW N \in Nat
  PROVE  \E g : BitLoop(g, P, L, N)
<1> DEFINE first == BitvectorNew(IF L = 0 THEN 1 ELSE L)
           Run(g, M) == g = [i \in 0 .. M |-> IF i = 0 THEN first ELSE BitStep(g[i - 1], P, i)]
           bad == {M \in Nat : ~ \E g : Run(g, M)}
<1> SUFFICES ASSUME bad # {} PROVE FALSE
  BY DEF BitLoop
<1> HIDE DEF first
<1>1. PICK M \in bad : \A y \in bad : M <= y
  BY LeastMember
<1>2. M \in Nat /\ ~ \E g : Run(g, M)
  BY <1>1
<1>3. M # 0
  <2>1. Run([t \in 0 .. 0 |-> first], 0)
    OBVIOUS
  <2> QED
    BY <1>2, <2>1
<1>4. PICK g : Run(g, M - 1)
  <2>1. M - 1 \in Nat /\ ~(M <= M - 1)
    BY <1>2, <1>3
  <2>2. M - 1 \notin bad
    BY <1>1, <2>1
  <2> QED
    BY <2>1, <2>2
<1> DEFINE h == [t \in 0 .. M |-> IF t = M THEN BitStep(g[M - 1], P, M) ELSE g[t]]
<1>5. ASSUME NEW t \in 0 .. M
      PROVE  h[t] = IF t = 0 THEN first ELSE BitStep(h[t - 1], P, t)
  <2>1. CASE t = M
    <3>1. h[t] = BitStep(g[M - 1], P, M)
      BY <2>1
    <3>2. h[t - 1] = g[M - 1]
      BY <1>2, <1>3, <2>1
    <3> QED
      BY <1>3, <2>1, <3>1, <3>2
  <2>2. CASE t # M
    <3>1. t \in 0 .. (M - 1)
      BY <1>2, <2>2
    <3>2. h[t] = g[t] /\ g[t] = IF t = 0 THEN first ELSE BitStep(g[t - 1], P, t)
      BY <1>4, <2>2, <3>1
    <3>3. t # 0 => h[t - 1] = g[t - 1]
      BY <1>2, <3>1
    <3> QED
      BY <3>2, <3>3
  <2> QED
    BY <2>1, <2>2
<1>6. Run(h, M)
  <2>1. h = [t \in 0 .. M |-> h[t]]
    OBVIOUS
  <2> HIDE DEF h
  <2> QED
    BY <1>5, <2>1
<1> QED
  BY <1>2, <1>6

\* Of the positions of an offer of L entries, the ones of P below i are set.
HasBits(bv, P, i, L) ==
  /\ DOMAIN bv = 1 .. (IF L = 0 THEN 1 ELSE L) \div ByteBits + 1
  /\ \A j \in 0 .. L - 1 : j % ByteBits \in bv[j \div ByteBits + 1] <=> (j \in P /\ j < i)

LEMMA BitSet ==
  ASSUME NEW L \in Nat, NEW P, NEW i \in 1 .. L, NEW bv, HasBits(bv, P, i - 1, L)
  PROVE  HasBits(BitStep(bv, P, i), P, i, L)
<1> DEFINE n == BitStep(bv, P, i)
           k == i - 1
<1>1. k \in 0 .. L - 1 /\ k \in Nat /\ i = k + 1
  OBVIOUS
<1>2. CASE k \notin P
  <2>1. n = bv
    BY <1>2 DEF BitStep
  <2>2. \A j \in 0 .. L - 1 : (j \in P /\ j < i) <=> (j \in P /\ j < k)
    BY <1>1, <1>2
  <2> QED
    BY <2>1, <2>2 DEF HasBits
<1>3. CASE k \in P
  <2>1. n = [bv EXCEPT ![k \div ByteBits + 1] = bv[k \div ByteBits + 1] \cup {k % ByteBits}]
    BY <1>3 DEF BitStep, BitvectorSet
  <2>2. DOMAIN n = DOMAIN bv
    BY <2>1
  <2>3. ASSUME NEW j \in 0 .. L - 1
        PROVE  j % ByteBits \in n[j \div ByteBits + 1] <=> (j \in P /\ j < i)
    <3> DEFINE x == j \div ByteBits + 1
               y == k \div ByteBits + 1
    <3>1. j \in Nat /\ k \in Nat /\ L \in Nat \ {0}
      BY <1>1
    <3>2. j \div ByteBits \in Nat /\ k \div ByteBits \in Nat /\ L \div ByteBits \in Nat
      BY <3>1, BytePosition
    <3>3. x \in DOMAIN bv
      <4>1. j \div ByteBits <= L \div ByteBits
        BY <3>1, ByteOrder
      <4>2. DOMAIN bv = 1 .. L \div ByteBits + 1
        BY <3>1 DEF HasBits
      <4> QED
        BY <3>2, <4>1, <4>2
    <3>4. j % ByteBits \in bv[x] <=> (j \in P /\ j < k)
      BY DEF HasBits
    <3>5. CASE x # y
      <4>1. n[x] = bv[x]
        BY <2>1, <3>3, <3>5
      <4>2. j # k
        BY <3>5
      <4> QED
        BY <1>1, <3>1, <3>4, <4>1, <4>2
    <3>6. CASE x = y
      <4>1. n[x] = bv[x] \cup {k % ByteBits}
        BY <2>1, <3>3, <3>6
      <4>2. j \div ByteBits = k \div ByteBits
        BY <3>2, <3>6
      <4>3. j % ByteBits = k % ByteBits <=> j = k
        BY <3>1, <4>2, BytePlace
      <4> HIDE DEF n, x, y
      <4> QED
        BY <1>1, <1>3, <3>1, <3>4, <4>1, <4>3 DEF x
    <3> QED
      BY <3>5, <3>6
  <2> QED
    BY <2>2, <2>3 DEF HasBits
<1> QED
  BY <1>2, <1>3

\* What the client sets in a Want is what the server reads in it, across bytes.
LEMMA BitsRead ==
  ASSUME NEW L \in Nat, NEW P, NEW i \in 0 .. L - 1
  PROVE  BitvectorGet(WantBits(P, L), i) <=> i \in P
<1> DEFINE after == CHOOSE g : BitLoop(g, P, L, L)
<1>1. BitLoop(after, P, L, L)
  BY BitRuns
<1>2. WantBits(P, L) = after[L]
  BY DEF WantBits, BitLoop, BitStep
<1> HIDE DEF after
<1>3. ASSUME NEW j \in 0 .. L
      PROVE  after[j] = IF j = 0 THEN BitvectorNew(IF L = 0 THEN 1 ELSE L)
                        ELSE BitStep(after[j - 1], P, j)
  BY <1>1 DEF BitLoop
<1>4. \A j \in 0 .. L : HasBits(after[j], P, j, L)
  <2> DEFINE bad == {j \in 0 .. L : ~HasBits(after[j], P, j, L)}
  <2> SUFFICES ASSUME bad # {} PROVE FALSE
    OBVIOUS
  <2>0. bad \in SUBSET Nat
    OBVIOUS
  <2>1. PICK j \in bad : \A y \in bad : j <= y
    BY <2>0, LeastMember
  <2>2. j \in 0 .. L /\ ~HasBits(after[j], P, j, L)
    BY <2>1
  <2>3. j # 0
    <3>1. after[0] = BitvectorNew(IF L = 0 THEN 1 ELSE L)
      BY <1>3
    <3>2. \A x \in 0 .. L - 1 : x \div ByteBits + 1 \in 1 .. (IF L = 0 THEN 1 ELSE L) \div ByteBits + 1
      <4> SUFFICES ASSUME NEW x \in 0 .. L - 1
                   PROVE  x \div ByteBits + 1 \in 1 .. L \div ByteBits + 1
        OBVIOUS
      <4>1. x \div ByteBits <= L \div ByteBits /\ x \div ByteBits \in Nat /\ L \div ByteBits \in Nat
        BY ByteOrder, BytePosition
      <4> QED
        BY <4>1
    <3>3. HasBits(after[0], P, 0, L)
      BY <3>1, <3>2 DEF HasBits, BitvectorNew
    <3> QED
      BY <2>2, <3>3
  <2>4. j \in 1 .. L /\ j - 1 \in 0 .. L /\ ~(j <= j - 1)
    BY <2>2, <2>3
  <2>5. HasBits(after[j - 1], P, j - 1, L)
    BY <2>1, <2>4
  <2>6. after[j] = BitStep(after[j - 1], P, j)
    BY <1>3, <2>2, <2>3
  <2> QED
    BY <2>2, <2>4, <2>5, <2>6, BitSet
<1>5. HasBits(after[L], P, L, L)
  BY <1>4
<1>6. i \div ByteBits + 1 \in 1 .. L \div ByteBits + 1
  <2>1. i \div ByteBits <= L \div ByteBits /\ i \div ByteBits \in Nat /\ L \div ByteBits \in Nat
    BY ByteOrder, BytePosition
  <2> QED
    BY <2>1
<1> QED
  BY <1>2, <1>5, <1>6 DEF HasBits, BitvectorGet

-----------------------------------------------------------------------------
(* An honest server.                                                       *)

\* The frames of an honest server's answer.
Frames == {Genuine(t) : t \in Triples} \cup {Delivery(Zero, None, None)}

\* The wants that the page names.
Named == {TripleOf(offered[i + 1]) : i \in Matched(offered)}

\* A want is missed if the page does not name it, and only then or when its entry
\* was evicted.
Judged(o) ==
  \A i \in 1 .. Len(o) :
    /\ o[i][1] \notin ToSet(offered) => o[i][2] = "Missed"
    /\ o[i][2] = "Missed" => o[i][1] \notin ToSet(offered) \/ o[i][1] \in gone

Asking ==
  /\ client = "SendGet" /\ server = "AwaitGet"
  /\ up = <<>> /\ down = <<>>

Asked ==
  /\ client = "AwaitOffer" /\ server = "AwaitGet"
  /\ up = <<[op |-> "get"]>> /\ down = <<>>

Waiting ==
  /\ client = "AwaitOffer" /\ server = "Blocked"
  /\ up = <<>> /\ down = <<>>

Offering ==
  /\ client = "AwaitOffer" /\ server = "AwaitWant"
  /\ up = <<>> /\ down = <<[op |-> "offer", entries |-> offered]>>
  /\ offered # <<>>

\* The Want is for the first positions of the pending triples.
Wanting ==
  /\ client \in {"AwaitDeliveries", "Done"} /\ server = "AwaitWant"
  /\ up = <<[op |-> "want", bits |-> WantBits(Matched(offered), Len(offered))]>>
  /\ down = <<>>
  /\ client = "AwaitDeliveries" => pending = Named /\ remaining = Cardinality(Named)
  /\ Judged(outcomes)

\* Every pending entry that is still held is on its way, and no frame beyond those
\* the client counts.
Answering ==
  /\ client \in {"AwaitDeliveries", "Done"} /\ server = "Served"
  /\ up = <<>>
  /\ client = "AwaitDeliveries" =>
       /\ down \in Seq(Frames)
       /\ remaining \in Nat /\ Len(down) <= remaining
       /\ pending \subseteq ToSet(offered)
       /\ \A t \in pending \ gone : \E i \in 1 .. Len(down) : down[i] = Genuine(t)
  /\ Judged(outcomes)

\* Where a stream with an honest server stands until it ends.
Phase == Asking \/ Asked \/ Waiting \/ Offering \/ Wanting \/ Answering

HonestInv ==
  /\ held \in Seq(Triples)
  /\ ~rogue => offered \in Seq(Triples)
  /\ ~rogue /\ ~ended => Phase

-----------------------------------------------------------------------------
(* What an honest server sends and what the client makes of it.            *)

\* A genuine delivery answers for its entry and is never a miss.
LEMMA GenuineAnswers ==
  ASSUME NEW t \in Triples
  PROVE  /\ Answered(Genuine(t)) = t
         /\ Genuine(t).op = "delivery"
         /\ Verdict(t) # "Missed"
<1> DEFINE e == EntryOf(t)
<1>1. e \in Entries /\ e.triple = t
  BY DEF Triples, EntryOf
<1>2. Parses(e.stamp) /\ t = Triple(ChunkAddress(e.data), e.stamp.batch_id, Keccak(e.stamp))
  BY <1>1, FetchConstants
<1>3. t.address # Zero /\ t.address = ChunkAddress(e.data)
  <2>1. t.address # Zero
    BY FetchConstants
  <2> QED
    BY <1>2, <2>1 DEF Triple
<1> HIDE DEF e
<1>4. /\ Genuine(t).op = "delivery" /\ Genuine(t).address = t.address
      /\ Genuine(t).data = e.data /\ Genuine(t).stamp = e.stamp
  BY DEF Genuine, Delivery, e
<1>5. Answered(Genuine(t)) = t
  BY <1>2, <1>3, <1>4 DEF Answered, TripleOfDelivery
<1>6. Verdict(t) # "Missed"
  BY <1>3, <1>4 DEF Verdict, Validate
<1> QED
  BY <1>4, <1>5, <1>6

LEMMA PlaceholderAnswers ==
  /\ Answered(Delivery(Zero, None, None)) = None
  /\ Delivery(Zero, None, None).op = "delivery"
BY DEF Answered, Delivery

LEMMA ServedFrame ==
  ASSUME NEW t \in Triples
  PROVE  Served(t) \in Frames /\ (t \notin gone => Served(t) = Genuine(t))
BY DEF Served, Frames

\* The page names a want at its first position there, and once.
LEMMA NamedFacts ==
  ASSUME offered \in Seq(Triples)
  PROVE  /\ Named \subseteq want \cap ToSet(offered)
         /\ want \cap ToSet(offered) \subseteq Named
         /\ Named = {offered[i + 1] : i \in Matched(offered)}
         /\ Matched(offered) \subseteq 0 .. Len(offered) - 1
         /\ IsFiniteSet(Matched(offered)) /\ IsFiniteSet(Named)
         /\ Cardinality(Named) = Cardinality(Matched(offered))
<1> DEFINE L == Len(offered)
           P == Matched(offered)
<1>1. L \in Nat /\ DOMAIN offered = 1 .. L /\ \A i \in 1 .. L : offered[i] \in Triples
  BY LenProperties, ElementOfSeq
<1> HIDE DEF L
<1>2. \A i \in 0 .. L - 1 : i + 1 \in 1 .. L /\ TripleOf(offered[i + 1]) = offered[i + 1]
  <2> SUFFICES ASSUME NEW i \in 0 .. L - 1
               PROVE  i + 1 \in 1 .. L /\ TripleOf(offered[i + 1]) = offered[i + 1]
    OBVIOUS
  <2>1. i + 1 \in 1 .. L
    BY <1>1
  <2>2. offered[i + 1] # Garbled
    BY <1>1, <2>1, FetchConstants
  <2> QED
    BY <2>1, <2>2 DEF TripleOf
<1>3. P = {i \in 0 .. L - 1 : /\ TripleOf(offered[i + 1]) \in want
                              /\ \A j \in 0 .. i - 1 : offered[j + 1] # offered[i + 1]}
  BY DEF Matched, L
<1> HIDE DEF P
<1>4. Named = {TripleOf(offered[i + 1]) : i \in P}
  BY DEF Named, P
<1>5. Named = {offered[i + 1] : i \in P}
  BY <1>2, <1>3, <1>4
<1>6. Named \subseteq want \cap ToSet(offered)
  BY <1>1, <1>2, <1>3, <1>5 DEF ToSet
<1>7. ASSUME NEW t \in want \cap ToSet(offered)
      PROVE  t \in Named
  <2> DEFINE at == {i \in 0 .. L - 1 : offered[i + 1] = t}
  <2>1. at # {}
    <3>1. PICK k \in 1 .. L : offered[k] = t
      BY <1>1 DEF ToSet
    <3>2. k - 1 \in 0 .. L - 1 /\ (k - 1) + 1 = k
      BY <1>1
    <3> QED
      BY <3>1, <3>2
  <2>2. at \in SUBSET Nat
    OBVIOUS
  <2>3. PICK i \in at : \A j \in at : i <= j
    BY <2>1, <2>2, LeastMember
  <2>4. i \in 0 .. L - 1 /\ offered[i + 1] = t
    BY <2>3
  <2>5. ASSUME NEW j \in 0 .. i - 1
        PROVE  offered[j + 1] # offered[i + 1]
    <3>1. j \in 0 .. L - 1 /\ ~(i <= j)
      BY <1>1, <2>4
    <3>2. j \notin at
      BY <2>3, <3>1
    <3> QED
      BY <2>4, <3>1, <3>2
  <2>6. i \in P
    <3>1. TripleOf(offered[i + 1]) \in want
      BY <1>2, <2>4
    <3> QED
      BY <1>3, <2>4, <2>5, <3>1
  <2> QED
    BY <1>5, <2>4, <2>6
<1>8. P \subseteq 0 .. L - 1
  BY <1>3
<1>9. IsFiniteSet(P)
  <2>1. IsFiniteSet(0 .. L - 1)
    BY <1>1, FS_Interval
  <2> QED
    BY <1>8, <2>1, FS_Subset
<1> DEFINE f == [i \in P |-> offered[i + 1]]
<1>10. f \in Bijection(P, Named)
  <2>1. f \in [P -> Named] /\ \A t \in Named : \E i \in P : f[i] = t
    BY <1>5
  <2>2. ASSUME NEW i \in P, NEW j \in P, f[i] = f[j]
        PROVE  i = j
    <3>1. i \in 0 .. L - 1 /\ j \in 0 .. L - 1 /\ offered[i + 1] = offered[j + 1]
      BY <1>8, <2>2
    <3>2. ~(i < j)
      <4>1. i < j => i \in 0 .. j - 1
        BY <1>1, <3>1
      <4> QED
        BY <1>3, <3>1, <4>1
    <3>3. ~(j < i)
      <4>1. j < i => j \in 0 .. i - 1
        BY <1>1, <3>1
      <4> QED
        BY <1>3, <3>1, <4>1
    <3> QED
      BY <1>1, <3>1, <3>2, <3>3
  <2>3. IsInjective(f)
    BY <2>2 DEF IsInjective
  <2> QED
    BY <2>1, <2>3 DEF Bijection, Injection, Surjection
<1> HIDE DEF f
<1>11. IsFiniteSet(Named) /\ Cardinality(Named) = Cardinality(P)
  BY <1>9, <1>10, FS_Bijection DEF ExistsBijection
<1> QED
  BY <1>5, <1>6, <1>7, <1>8, <1>9, <1>11 DEF P, L

AnswerStep(s, bits, i) ==
  IF BitvectorGet(bits, i - 1) THEN Append(s, Served(offered[i])) ELSE s

\* g[i] answers the first i positions of the page.
AnswerLoop(g, bits, N) ==
  g = [i \in 0 .. N |-> IF i = 0 THEN <<>> ELSE AnswerStep(g[i - 1], bits, i)]

\* The loop that answers a Want has a result.
LEMMA AnswerRuns ==
  ASSUME NEW bits, NEW N \in Nat
  PROVE  \E g : AnswerLoop(g, bits, N)
<1> DEFINE first == <<>>
           Run(g, M) == g = [i \in 0 .. M |-> IF i = 0 THEN first ELSE AnswerStep(g[i - 1], bits, i)]
           bad == {M \in Nat : ~ \E g : Run(g, M)}
<1> SUFFICES ASSUME bad # {} PROVE FALSE
  BY DEF AnswerLoop
<1> HIDE DEF first
<1>1. PICK M \in bad : \A y \in bad : M <= y
  BY LeastMember
<1>2. M \in Nat /\ ~ \E g : Run(g, M)
  BY <1>1
<1>3. M # 0
  <2>1. Run([t \in 0 .. 0 |-> first], 0)
    OBVIOUS
  <2> QED
    BY <1>2, <2>1
<1>4. PICK g : Run(g, M - 1)
  <2>1. M - 1 \in Nat /\ ~(M <= M - 1)
    BY <1>2, <1>3
  <2>2. M - 1 \notin bad
    BY <1>1, <2>1
  <2> QED
    BY <2>1, <2>2
<1> DEFINE h == [t \in 0 .. M |-> IF t = M THEN AnswerStep(g[M - 1], bits, M) ELSE g[t]]
<1>5. ASSUME NEW t \in 0 .. M
      PROVE  h[t] = IF t = 0 THEN first ELSE AnswerStep(h[t - 1], bits, t)
  <2>1. CASE t = M
    <3>1. h[t] = AnswerStep(g[M - 1], bits, M)
      BY <2>1
    <3>2. h[t - 1] = g[M - 1]
      BY <1>2, <1>3, <2>1
    <3> QED
      BY <1>3, <2>1, <3>1, <3>2
  <2>2. CASE t # M
    <3>1. t \in 0 .. (M - 1)
      BY <1>2, <2>2
    <3>2. h[t] = g[t] /\ g[t] = IF t = 0 THEN first ELSE AnswerStep(g[t - 1], bits, t)
      BY <1>4, <2>2, <3>1
    <3>3. t # 0 => h[t - 1] = g[t - 1]
      BY <1>2, <3>1
    <3> QED
      BY <3>2, <3>3
  <2> QED
    BY <2>1, <2>2
<1>6. Run(h, M)
  <2>1. h = [t \in 0 .. M |-> h[t]]
    OBVIOUS
  <2> HIDE DEF h
  <2> QED
    BY <1>5, <2>1
<1> QED
  BY <1>2, <1>6

\* s answers the positions of P below i: a frame each, and their entries'.
Answers(s, P, i) ==
  /\ s \in Seq(Frames)
  /\ Len(s) = Cardinality({p \in P : p < i})
  /\ \A p \in P : p < i => \E k \in 1 .. Len(s) : s[k] = Served(offered[p + 1])

LEMMA AnswerOne ==
  ASSUME offered \in Seq(Triples), NEW P, P \subseteq 0 .. Len(offered) - 1, IsFiniteSet(P),
         NEW bits, NEW i \in 1 .. Len(offered), BitvectorGet(bits, i - 1) <=> i - 1 \in P,
         NEW s, Answers(s, P, i - 1)
  PROVE  Answers(AnswerStep(s, bits, i), P, i)
<1> DEFINE old == {p \in P : p < i - 1}
           new == {p \in P : p < i}
           k == i - 1
           n == AnswerStep(s, bits, i)
<1>1. Len(offered) \in Nat /\ offered[i] \in Triples /\ k \in Nat /\ i = k + 1
  BY LenProperties, ElementOfSeq
<1>2. \A p \in P : p \in Nat
  BY <1>1
<1>3. s \in Seq(Frames) /\ Len(s) = Cardinality(old) /\ Len(s) \in Nat
  BY LenProperties DEF Answers
<1>4. IsFiniteSet(old)
  BY FS_Subset
<1>5. CASE k \notin P
  <2>1. n = s
    BY <1>5 DEF AnswerStep
  <2>2. \A p \in P : p < i <=> p < k
    BY <1>1, <1>2, <1>5
  <2>3. new = old
    BY <2>2
  <2> HIDE DEF new, old, n
  <2> QED
    BY <2>1, <2>2, <2>3 DEF Answers, new, old, n
<1>6. CASE k \in P
  <2> DEFINE x == Served(offered[i])
  <2>1. n = Append(s, x)
    BY <1>6 DEF AnswerStep
  <2>2. x \in Frames
    BY <1>1, ServedFrame
  <2> HIDE DEF x, n
  <2>3. /\ n \in Seq(Frames) /\ Len(n) = Len(s) + 1 /\ n[Len(s) + 1] = x
        /\ \A j \in 1 .. Len(s) : n[j] = s[j]
    <3>1. s \in Seq(Frames)
      BY <1>3
    <3>2. /\ Append(s, x) \in Seq(Frames) /\ Len(Append(s, x)) = Len(s) + 1
          /\ Append(s, x)[Len(s) + 1] = x
          /\ \A j \in 1 .. Len(s) : Append(s, x)[j] = s[j]
      BY <2>2, <3>1, AppendProperties
    <3> QED
      BY <2>1, <3>2, Zenon
  <2>4. new = old \cup {k} /\ k \notin old
    <3>1. ~(k < k) /\ k < i /\ \A p \in P : p < i <=> p < k \/ p = k
      BY <1>1, <1>2
    <3> QED
      BY <1>6, <3>1
  <2>5. Cardinality(new) = Cardinality(old) + 1
    <3> HIDE DEF new, old
    <3> QED
      BY <1>4, <2>4, FS_AddElement
  <2>6. Len(n) = Cardinality(new)
    BY <1>3, <2>3, <2>5
  <2>7. ASSUME NEW p \in P, p < i
        PROVE  \E j \in 1 .. Len(n) : n[j] = Served(offered[p + 1])
    <3>1. CASE p = k
      <4>1. n[Len(s) + 1] = Served(offered[p + 1]) /\ Len(s) + 1 \in 1 .. Len(n)
        BY <1>1, <1>3, <2>3, <3>1 DEF x
      <4> QED
        BY <4>1
    <3>2. CASE p < k
      <4>1. PICK j \in 1 .. Len(s) : s[j] = Served(offered[p + 1])
        BY <3>2 DEF Answers
      <4>2. j \in 1 .. Len(n) /\ n[j] = s[j]
        BY <1>3, <2>3
      <4> QED
        BY <4>1, <4>2
    <3> QED
      BY <1>1, <1>2, <2>7, <3>1, <3>2
  <2> QED
    BY <2>3, <2>6, <2>7 DEF Answers, n, new
<1> QED
  BY <1>5, <1>6

\* The answer to a Want: a frame for each position it asks for, and the entry's own
\* where it is still held.
LEMMA DeliveriesFacts ==
  ASSUME offered \in Seq(Triples), NEW P, P \subseteq 0 .. Len(offered) - 1, IsFiniteSet(P)
  PROVE  LET s == Deliveries(WantBits(P, Len(offered)))
         IN /\ s \in Seq(Frames)
            /\ Len(s) = Cardinality(P)
            /\ \A p \in P : \E k \in 1 .. Len(s) : s[k] = Served(offered[p + 1])
<1> DEFINE L == Len(offered)
           bits == WantBits(P, L)
           after == CHOOSE g : AnswerLoop(g, bits, L)
<1>0. L \in Nat
  BY LenProperties
<1>1. AnswerLoop(after, bits, L)
  BY <1>0, AnswerRuns
<1>2. \A i \in 0 .. L - 1 : BitvectorGet(bits, i) <=> i \in P
  BY <1>0, BitsRead
<1> HIDE DEF bits
<1>3. Deliveries(bits) = after[L]
  BY DEF Deliveries, AnswerLoop, AnswerStep
<1> HIDE DEF after
<1>4. ASSUME NEW j \in 0 .. L
      PROVE  after[j] = IF j = 0 THEN <<>> ELSE AnswerStep(after[j - 1], bits, j)
  BY <1>1 DEF AnswerLoop
<1>5. \A j \in 0 .. L : Answers(after[j], P, j)
  <2> DEFINE bad == {j \in 0 .. L : ~Answers(after[j], P, j)}
  <2> SUFFICES ASSUME bad # {} PROVE FALSE
    OBVIOUS
  <2>0. bad \in SUBSET Nat
    BY <1>0
  <2>1. PICK j \in bad : \A y \in bad : j <= y
    BY <2>0, LeastMember
  <2>2. j \in 0 .. L /\ ~Answers(after[j], P, j)
    BY <2>1
  <2>3. j # 0
    <3>1. after[0] = <<>>
      BY <1>0, <1>4
    <3>2. \A p \in P : ~(p < 0)
      BY <1>0
    <3>3. {p \in P : p < 0} = {} /\ Cardinality({}) = 0
      BY <3>2, FS_EmptySet
    <3>4. Answers(<<>>, P, 0)
      BY <3>2, <3>3, EmptySeq DEF Answers
    <3> QED
      BY <2>2, <3>1, <3>4
  <2>4. j \in 1 .. L /\ j - 1 \in 0 .. L /\ ~(j <= j - 1) /\ j - 1 \in 0 .. L - 1
    BY <1>0, <2>2, <2>3
  <2>5. Answers(after[j - 1], P, j - 1)
    BY <2>1, <2>4
  <2>6. after[j] = AnswerStep(after[j - 1], bits, j)
    BY <1>4, <2>2, <2>3
  <2>7. BitvectorGet(bits, j - 1) <=> j - 1 \in P
    BY <1>2, <2>4
  <2> HIDE DEF bad
  <2> QED
    BY <2>2, <2>4, <2>5, <2>6, <2>7, AnswerOne
<1>6. Answers(after[L], P, L)
  BY <1>0, <1>5
<1>7. \A p \in P : p < L
  BY <1>0
<1>8. {p \in P : p < L} = P
  BY <1>7
<1> QED
  BY <1>3, <1>6, <1>7, <1>8 DEF Answers, bits

-----------------------------------------------------------------------------
(* The invariant of an honest stream.                                      *)

LEMMA JudgedConcat ==
  ASSUME NEW X, NEW o \in Seq(X), NEW u \in Seq(X), Judged(o), Judged(u)
  PROVE  Judged(o \o u)
<1> DEFINE w == o \o u
           n == Len(o)
<1>1. n \in Nat /\ Len(u) \in Nat
  BY LenProperties
<1>2. /\ Len(w) = n + Len(u)
      /\ \A i \in 1 .. n + Len(u) : w[i] = IF i <= n THEN o[i] ELSE u[i - n]
  BY ConcatProperties
<1> HIDE DEF w, n
<1>3. ASSUME NEW i \in 1 .. Len(w)
      PROVE  (\E j \in 1 .. n : w[i] = o[j]) \/ (\E j \in 1 .. Len(u) : w[i] = u[j])
  <2>1. CASE i <= n
    BY <1>1, <1>2, <2>1
  <2>2. CASE ~(i <= n)
    <3>1. i - n \in 1 .. Len(u) /\ w[i] = u[i - n]
      BY <1>1, <1>2, <2>2
    <3> QED
      BY <3>1
  <2> QED
    BY <2>1, <2>2
<1> SUFFICES ASSUME NEW i \in 1 .. Len(w)
             PROVE  /\ w[i][1] \notin ToSet(offered) => w[i][2] = "Missed"
                    /\ w[i][2] = "Missed" => w[i][1] \notin ToSet(offered) \/ w[i][1] \in gone
  BY DEF Judged, w
<1>4. CASE \E j \in 1 .. n : w[i] = o[j]
  BY <1>4 DEF Judged, n
<1>5. CASE \E j \in 1 .. Len(u) : w[i] = u[j]
  BY <1>5 DEF Judged
<1> QED
  BY <1>3, <1>4, <1>5

\* Misses are right for what the page does not name or what was evicted.
LEMMA JudgedMissed ==
  ASSUME NEW S, IsFiniteSet(S), \A t \in S : t \notin ToSet(offered) \/ t \in gone
  PROVE  Judged(MissedAll(S))
BY ListsMissed DEF Judged

\* Evictions and steps that leave the page alone keep the outcomes right.
LEMMA JudgedKept ==
  ASSUME Judged(outcomes), outcomes' = outcomes, offered' = offered, gone \subseteq gone'
  PROVE  Judged(outcomes)'
BY DEF Judged

LEMMA HonestInit == Init => HonestInv
<1> SUFFICES ASSUME Init PROVE HonestInv
  OBVIOUS
<1>1. held \in Seq(Triples)
  BY FetchConstants DEF Init
<1>2. offered \in Seq(Triples)
  BY EmptySeq DEF Init
<1>3. Asking
  BY DEF Init, Asking
<1> QED
  BY <1>1, <1>2, <1>3 DEF HonestInv, Phase

\* The phases tell the ends' states apart.
LEMMA Phases ==
  /\ Asking => client = "SendGet" /\ server = "AwaitGet"
  /\ Asked => client = "AwaitOffer" /\ server = "AwaitGet"
  /\ Waiting => client = "AwaitOffer" /\ server = "Blocked"
  /\ Offering => client = "AwaitOffer" /\ server = "AwaitWant"
  /\ Wanting => client \in {"AwaitDeliveries", "Done"} /\ server = "AwaitWant"
  /\ Answering => client \in {"AwaitDeliveries", "Done"} /\ server = "Served"
BY DEF Asking, Asked, Waiting, Offering, Wanting, Answering

\* A page of entries is a list of triples, empty only if nothing is held.
LEMMA PageType ==
  ASSUME held \in Seq(Triples), held # <<>>
  PROVE  PageOf(held) \in Seq(Triples) /\ PageOf(held) # <<>>
<1> DEFINE n == IF Len(held) < Page THEN Len(held) ELSE Page
<1>1. Len(held) \in Nat \ {0}
  BY EmptySeq, LenProperties
<1>2. n \in 1 .. Len(held)
  BY <1>1, FetchConstants
<1>3. \A i \in 1 .. n : held[i] \in Triples
  BY <1>1, <1>2, ElementOfSeq
<1> HIDE DEF n
<1>4. SubSeq(held, 1, n) \in Seq(Triples) /\ Len(SubSeq(held, 1, n)) = n
  BY <1>1, <1>2, <1>3, SubSeqProperties
<1>5. SubSeq(held, 1, n) # <<>>
  BY <1>1, <1>2, <1>4
<1>6. PageOf(held) = SubSeq(held, 1, n)
  BY DEF PageOf, n
<1> QED
  BY <1>4, <1>5, <1>6

LEMMA HonestGet ==
  ASSUME HonestInv, ~rogue, ~ended, ServerGet
  PROVE  Phase' /\ offered' \in Seq(Triples)
<1>1. server = "AwaitGet" /\ up # <<>> /\ UNCHANGED <<client, rogue, held, ended>>
  BY DEF ServerGet, clientVars
<1>2. Asked
  <2>1. Asking \/ Asked \/ Waiting \/ Offering \/ Wanting \/ Answering
    BY DEF HonestInv, Phase
  <2>2. ~Asking
    BY <1>1 DEF Asking
  <2> QED
    BY <1>1, <2>1, <2>2, Phases
<1>3. client = "AwaitOffer" /\ up = <<[op |-> "get"]>> /\ down = <<>>
  BY <1>2 DEF Asked
<1>4. up' = <<>>
  BY <1>3 DEF ServerGet
<1>5. CASE held = <<>>
  <2>1. server' = "Blocked" /\ offered' = offered /\ down' = down
    BY <1>5 DEF ServerGet
  <2>2. Waiting'
    BY <1>1, <1>3, <1>4, <2>1 DEF Waiting
  <2> QED
    BY <2>1, <2>2 DEF Phase, HonestInv
<1>6. CASE held # <<>>
  <2> DEFINE page == PageOf(held)
  <2>1. /\ server' = "AwaitWant" /\ offered' = page
        /\ down' = Append(down, [op |-> "offer", entries |-> page])
    BY <1>6 DEF ServerGet
  <2>2. page \in Seq(Triples) /\ page # <<>>
    BY <1>6, PageType DEF HonestInv
  <2> HIDE DEF page
  <2>3. down' = <<[op |-> "offer", entries |-> page]>>
    BY <1>3, <2>1
  <2>4. Offering'
    BY <1>1, <1>3, <1>4, <2>1, <2>2, <2>3 DEF Offering
  <2> QED
    BY <2>1, <2>2, <2>4 DEF Phase
<1> QED
  BY <1>5, <1>6

LEMMA HonestOffer ==
  ASSUME HonestInv, ClientInv, ~rogue, ~ended, ClientOffer
  PROVE  Phase'
<1>1. client = "AwaitOffer" /\ down # <<>> /\ UNCHANGED <<server, offered, gone, want>>
  BY DEF ClientOffer, serverVars
<1>2. Offering
  <2>1. Asking \/ Asked \/ Waiting \/ Offering \/ Wanting \/ Answering
    BY DEF HonestInv, Phase
  <2>2. ~Asked /\ ~Waiting
    BY <1>1 DEF Asked, Waiting
  <2> QED
    BY <1>1, <2>1, <2>2, Phases
<1>3. /\ server = "AwaitWant" /\ up = <<>> /\ offered # <<>>
      /\ down = <<[op |-> "offer", entries |-> offered]>>
  BY <1>2 DEF Offering
<1>4. Head(down).entries = offered /\ Tail(down) = <<>>
  BY <1>3
<1> DEFINE bits == WantBits(Matched(offered), Len(offered))
           missed == MissedAll(want \ Named)
<1>5. /\ outcomes' = outcomes \o missed
      /\ pending' = Named /\ remaining' = Cardinality(Named)
      /\ client' = "AwaitDeliveries"
      /\ up' = Append(up, [op |-> "want", bits |-> bits])
      /\ down' = <<>>
  BY <1>3, <1>4 DEF ClientOffer, Named
<1>6. up' = <<[op |-> "want", bits |-> bits]>>
  BY <1>3, <1>5
<1>7. Named' = Named /\ Matched(offered)' = Matched(offered)
  BY <1>1 DEF Named, Matched
<1>8. offered \in Seq(Triples)
  BY DEF HonestInv
<1>9. Judged(missed)
  <2>1. IsFiniteSet(want \ Named)
    BY FS_Subset DEF ClientInv
  <2>2. \A t \in want \ Named : t \notin ToSet(offered)
    BY <1>8, NamedFacts
  <2> QED
    BY <2>1, <2>2, JudgedMissed
<1>10. outcomes' = missed
  <2>1. outcomes = <<>>
    BY <1>1 DEF ClientInv
  <2>2. IsFiniteSet(want \ Named)
    BY FS_Subset DEF ClientInv
  <2>3. Lists(missed, want \ Named)
    BY <2>2, ListsMissed
  <2> HIDE DEF missed
  <2> QED
    BY <1>5, <2>1, <2>3, ConcatEmptySeq DEF Lists
<1> HIDE DEF missed
<1>11. Judged(outcomes)'
  BY <1>1, <1>9, <1>10 DEF Judged
<1>12. up' = <<[op |-> "want", bits |-> WantBits(Matched(offered)', Len(offered'))]>>
  BY <1>1, <1>6, <1>7
<1>13. Wanting'
  BY <1>1, <1>3, <1>5, <1>7, <1>11, <1>12 DEF Wanting
<1> QED
  BY <1>13 DEF Phase

\* What an entry's delivery is does not depend on the state.
LEMMA FramesFixed == Frames' = Frames /\ \A t : Genuine(t)' = Genuine(t)
BY DEF Frames, Genuine, EntryOf, Delivery

LEMMA HonestWant ==
  ASSUME HonestInv, ~rogue, ~ended, ServerWant
  PROVE  Phase'
<1>1. /\ server = "AwaitWant" /\ up # <<>>
      /\ UNCHANGED <<client, want, pending, remaining, outcomes, offered, gone>>
  BY DEF ServerWant, clientVars
<1>2. Wanting
  <2>1. Asking \/ Asked \/ Waiting \/ Offering \/ Wanting \/ Answering
    BY DEF HonestInv, Phase
  <2>2. ~Offering
    BY <1>1 DEF Offering
  <2> QED
    BY <1>1, <2>1, <2>2, Phases
<1> DEFINE P == Matched(offered)
           bits == WantBits(P, Len(offered))
           s == Deliveries(bits)
<1>3. /\ client \in {"AwaitDeliveries", "Done"} /\ down = <<>> /\ Judged(outcomes)
      /\ up = <<[op |-> "want", bits |-> bits]>>
      /\ client = "AwaitDeliveries" => pending = Named /\ remaining = Cardinality(Named)
  BY <1>2 DEF Wanting
<1>4. Head(up).bits = bits /\ Tail(up) = <<>>
  BY <1>3
<1>5. server' = "Served" /\ up' = <<>> /\ down' = down \o s
  BY <1>4 DEF ServerWant
<1>6. offered \in Seq(Triples)
  BY DEF HonestInv
<1>7. /\ P \subseteq 0 .. Len(offered) - 1 /\ IsFiniteSet(P) /\ Cardinality(P) = Cardinality(Named)
      /\ Named = {offered[i + 1] : i \in P} /\ Named \subseteq ToSet(offered) /\ Named \subseteq Triples
  <2>1. Named \subseteq ToSet(offered)
    BY <1>6, NamedFacts
  <2>2. ToSet(offered) \subseteq Triples
    BY <1>6, LenProperties, ElementOfSeq DEF ToSet
  <2> QED
    BY <1>6, <2>1, <2>2, NamedFacts
<1> HIDE DEF P
<1>8. /\ s \in Seq(Frames) /\ Len(s) = Cardinality(P)
      /\ \A p \in P : \E k \in 1 .. Len(s) : s[k] = Served(offered[p + 1])
  BY <1>6, <1>7, DeliveriesFacts
<1> HIDE DEF s, bits
<1>9. down' = s
  BY <1>3, <1>5, <1>8, ConcatEmptySeq
<1>10. Cardinality(P) \in Nat
  BY <1>7, FS_CardinalityType
<1>11. ASSUME NEW t \in Named \ gone
       PROVE  \E i \in 1 .. Len(s) : s[i] = Genuine(t)
  <2>1. PICK p \in P : t = offered[p + 1]
    BY <1>7
  <2>2. Served(t) = Genuine(t)
    BY <1>7, ServedFrame
  <2> QED
    BY <1>8, <2>1, <2>2
<1>12. Judged(outcomes)'
  BY <1>1, <1>3, JudgedKept
<1>13. ASSUME client' = "AwaitDeliveries"
       PROVE  /\ down' \in Seq(Frames')
              /\ remaining' \in Nat /\ Len(down') <= remaining'
              /\ pending' \subseteq ToSet(offered')
              /\ \A t \in pending' \ gone' : \E i \in 1 .. Len(down') : down'[i] = Genuine(t)'
  <2>1. pending' = Named /\ remaining' = Cardinality(P) /\ offered' = offered /\ gone' = gone
    BY <1>1, <1>3, <1>7, <1>13
  <2>2. Frames' = Frames
    BY FramesFixed
  <2>3. down' \in Seq(Frames')
    BY <1>8, <1>9, <2>2
  <2>4. remaining' \in Nat /\ Len(down') <= remaining'
    BY <1>8, <1>9, <1>10, <2>1
  <2>5. pending' \subseteq ToSet(offered')
    BY <1>7, <2>1
  <2>6. \A t \in pending' \ gone' : \E i \in 1 .. Len(down') : down'[i] = Genuine(t)'
    BY <1>9, <1>11, <2>1, FramesFixed
  <2> QED
    BY <2>3, <2>4, <2>5, <2>6
<1>14. Answering'
  BY <1>1, <1>3, <1>5, <1>12, <1>13 DEF Answering
<1> QED
  BY <1>14 DEF Phase

\* A client that still reads is in the phase whose frames it reads.
LEMMA HonestDelivery ==
  ASSUME HonestInv, ClientInv, ~rogue, ~ended, ClientDelivery
  PROVE  Phase'
<1> DEFINE d == Head(down)
           t == Answered(d)
           v == Validate(codec, t, d)
<1>1. /\ client = "AwaitDeliveries" /\ down # <<>>
      /\ UNCHANGED <<client, server, offered, gone, want, codec, up>>
      /\ remaining > 0 /\ remaining' = remaining - 1
      /\ down' = Tail(down) /\ pending' = pending \ {t}
      /\ outcomes' = IF t \in pending THEN Append(outcomes, <<t, v>>) ELSE outcomes
  BY DEF ClientDelivery, serverVars
<1>2. Answering
  <2>1. Asking \/ Asked \/ Waiting \/ Offering \/ Wanting \/ Answering
    BY DEF HonestInv, Phase
  <2>2. ~Wanting
    BY <1>1 DEF Wanting
  <2> QED
    BY <1>1, <2>1, <2>2, Phases
<1>3. /\ down \in Seq(Frames) /\ remaining \in Nat /\ Len(down) <= remaining
      /\ pending \subseteq ToSet(offered) /\ Judged(outcomes) /\ server = "Served" /\ up = <<>>
      /\ \A x \in pending \ gone : \E i \in 1 .. Len(down) : down[i] = Genuine(x)
  BY <1>1, <1>2 DEF Answering
<1>4. /\ d \in Frames /\ Tail(down) \in Seq(Frames) /\ Len(Tail(down)) = Len(down) - 1
      /\ \A i \in 1 .. Len(Tail(down)) : Tail(down)[i] = down[i + 1]
      /\ Len(down) \in Nat /\ d = down[1]
  BY <1>1, <1>3, HeadTailProperties, LenProperties
<1>5. pending \subseteq Triples /\ pending \subseteq want
  BY <1>1 DEF ClientInv
<1>6. \A x \in Triples : d = Genuine(x) => t = x
  BY GenuineAnswers
<1>7. t \in pending => v # "Missed"
  <2> SUFFICES ASSUME t \in pending PROVE v # "Missed"
    OBVIOUS
  <2>1. d # Delivery(Zero, None, None)
    <3>1. None \notin Triples
      BY FetchConstants
    <3> QED
      BY <1>5, <3>1, PlaceholderAnswers
  <2>2. PICK x \in Triples : d = Genuine(x)
    BY <1>4, <2>1 DEF Frames
  <2>3. t = x
    BY <1>6, <2>2
  <2> QED
    BY <2>2, <2>3, GenuineAnswers DEF Verdict
<1>8. v \in Verdicts
  BY VerdictType
<1> HIDE DEF d, t, v
<1>9. Judged(outcomes)'
  <2>1. Judged(outcomes')
    <3>1. CASE t \in pending
      <4> DEFINE one == <<<<t, v>>>>
      <4>1. one \in Seq(want \X Verdicts) /\ Len(one) = 1 /\ one[1] = <<t, v>>
        BY <1>5, <1>8, <3>1
      <4>2. Judged(one)
        <5>1. t \in ToSet(offered) /\ v # "Missed"
          BY <1>3, <1>7, <3>1
        <5> HIDE DEF one
        <5>2. \A i \in 1 .. Len(one) : one[i] = <<t, v>>
          BY <4>1
        <5> QED
          BY <5>1, <5>2 DEF Judged
      <4>3. outcomes \in Seq(want \X Verdicts)
        BY OutcomeList
      <4>4. outcomes' = outcomes \o one
        <5>1. <<t, v>> \in want \X Verdicts
          BY <1>5, <1>8, <3>1
        <5> QED
          BY <1>1, <3>1, <4>3, <5>1, AppendIsConcat
      <4> HIDE DEF one
      <4> QED
        BY <1>3, <4>1, <4>2, <4>3, <4>4, JudgedConcat
    <3>2. CASE t \notin pending
      BY <1>1, <1>3, <3>2
    <3> QED
      BY <3>1, <3>2
  <2> QED
    BY <1>1, <2>1 DEF Judged
<1>10. ASSUME NEW x \in pending' \ gone'
       PROVE  \E i \in 1 .. Len(down') : down'[i] = Genuine(x)
  <2>1. x \in pending \ gone /\ x # t /\ x \in Triples
    BY <1>1, <1>5
  <2>2. PICK i \in 1 .. Len(down) : down[i] = Genuine(x)
    BY <1>3, <2>1
  <2>3. i # 1
    BY <1>4, <1>6, <2>1, <2>2
  <2>4. i - 1 \in 1 .. Len(Tail(down)) /\ Tail(down)[i - 1] = down[i]
    <3>1. i - 1 \in 1 .. Len(Tail(down)) /\ (i - 1) + 1 = i
      BY <1>4, <2>3
    <3> QED
      BY <1>4, <3>1
  <2> QED
    BY <1>1, <2>2, <2>4
<1>11. /\ down' \in Seq(Frames')
       /\ remaining' \in Nat /\ Len(down') <= remaining'
       /\ pending' \subseteq ToSet(offered')
       /\ \A x \in pending' \ gone' : \E i \in 1 .. Len(down') : down'[i] = Genuine(x)'
  <2>1. down' \in Seq(Frames')
    BY <1>1, <1>4, FramesFixed
  <2>2. remaining' \in Nat /\ Len(down') <= remaining'
    BY <1>1, <1>3, <1>4
  <2>3. pending' \subseteq ToSet(offered')
    BY <1>1, <1>3
  <2>4. \A x \in pending' \ gone' : \E i \in 1 .. Len(down') : down'[i] = Genuine(x)'
    BY <1>10, FramesFixed
  <2> QED
    BY <2>1, <2>2, <2>3, <2>4
<1>12. Answering'
  BY <1>1, <1>3, <1>9, <1>11 DEF Answering
<1> QED
  BY <1>12 DEF Phase

\* A client that has counted its frames has missed only what was evicted.
LEMMA HonestFinish ==
  ASSUME HonestInv, ClientInv, ~rogue, ~ended, ClientFinish
  PROVE  Phase'
<1>1. /\ client = "AwaitDeliveries" /\ client' = "Done" /\ remaining = 0
      /\ UNCHANGED <<server, offered, gone, want, up, down>>
      /\ outcomes' = outcomes \o MissedAll(pending)
  BY DEF ClientFinish, Close, serverVars
<1>2. Wanting \/ Answering
  <2>1. Asking \/ Asked \/ Waiting \/ Offering \/ Wanting \/ Answering
    BY DEF HonestInv, Phase
  <2> QED
    BY <1>1, <2>1, Phases
<1>3. IsFiniteSet(pending)
  BY <1>1, FS_Subset DEF ClientInv
<1>4. \A t \in pending : t \in gone
  <2>1. CASE Wanting
    <3>1. pending = Named /\ Cardinality(Named) = 0
      BY <1>1, <2>1 DEF Wanting
    <3>2. pending = {}
      BY <1>3, <3>1, FS_EmptySet
    <3> QED
      BY <3>2
  <2>2. CASE Answering
    <3>1. /\ down \in Seq(Frames) /\ Len(down) <= 0
          /\ \A t \in pending \ gone : \E i \in 1 .. Len(down) : down[i] = Genuine(t)
      BY <1>1, <2>2 DEF Answering
    <3>2. 1 .. Len(down) = {}
      BY <3>1, LenProperties
    <3> QED
      BY <3>1, <3>2
  <2> QED
    BY <1>2, <2>1, <2>2
<1>5. Judged(MissedAll(pending))
  BY <1>3, <1>4, JudgedMissed
<1>6. Judged(outcomes)
  BY <1>2 DEF Wanting, Answering
<1>7. outcomes \in Seq(want \X Verdicts) /\ MissedAll(pending) \in Seq(want \X Verdicts)
  <2>1. outcomes \in Seq(want \X Verdicts)
    BY OutcomeList
  <2>2. pending \subseteq want
    BY <1>1 DEF ClientInv
  <2>3. MissedAll(pending) \in Seq(pending \X Verdicts)
    BY <1>3, ListsMissed DEF Lists
  <2>4. pending \X Verdicts \subseteq want \X Verdicts
    BY <2>2
  <2> QED
    BY <2>1, <2>3, <2>4, SeqMonotonic
<1>8. Judged(outcomes')
  BY <1>1, <1>5, <1>6, <1>7, JudgedConcat
<1>9. Judged(outcomes)'
  BY <1>1, <1>8 DEF Judged
<1>10. CASE Wanting
  <2>1. Matched(offered)' = Matched(offered)
    BY <1>1 DEF Matched
  <2>2. /\ server = "AwaitWant" /\ down = <<>>
        /\ up = <<[op |-> "want", bits |-> WantBits(Matched(offered), Len(offered))]>>
    BY <1>10 DEF Wanting
  <2>3. up' = <<[op |-> "want", bits |-> WantBits(Matched(offered)', Len(offered'))]>>
    BY <1>1, <2>1, <2>2
  <2>4. Wanting'
    BY <1>1, <1>9, <2>2, <2>3 DEF Wanting
  <2> QED
    BY <2>4 DEF Phase
<1>11. CASE Answering
  <2>1. Answering'
    BY <1>1, <1>9, <1>11 DEF Answering
  <2> QED
    BY <2>1 DEF Phase
<1> QED
  BY <1>2, <1>10, <1>11

\* An eviction only makes more misses right and fewer entries owed.
LEMMA HonestKept ==
  ASSUME HonestInv, ~rogue, ~ended, UNCHANGED <<clientVars, server, offered, up, down>>,
         gone \subseteq gone'
  PROVE  Phase'
<1>1. UNCHANGED <<client, server, offered, want, up, down, pending, remaining, outcomes>>
  BY DEF clientVars
<1>2. Asking \/ Asked \/ Waiting \/ Offering \/ Wanting \/ Answering
  BY DEF HonestInv, Phase
<1>3. CASE Asking \/ Asked \/ Waiting \/ Offering
  BY <1>1, <1>3 DEF Asking, Asked, Waiting, Offering, Phase
<1>4. CASE Wanting
  <2>1. Matched(offered)' = Matched(offered) /\ Named' = Named
    BY <1>1 DEF Matched, Named
  <2>2. Judged(outcomes)'
    BY <1>1, <1>4, JudgedKept DEF Wanting
  <2>3. /\ client' \in {"AwaitDeliveries", "Done"} /\ server' = "AwaitWant" /\ down' = <<>>
        /\ up' = <<[op |-> "want", bits |-> WantBits(Matched(offered)', Len(offered'))]>>
        /\ client' = "AwaitDeliveries" => pending' = Named' /\ remaining' = Cardinality(Named')
    BY <1>1, <1>4, <2>1 DEF Wanting
  <2>4. Wanting'
    BY <2>2, <2>3 DEF Wanting
  <2> QED
    BY <2>4 DEF Phase
<1>5. CASE Answering
  <2>1. Judged(outcomes)'
    BY <1>1, <1>5, JudgedKept DEF Answering
  <2>2. ASSUME client' = "AwaitDeliveries"
        PROVE  /\ down' \in Seq(Frames')
               /\ remaining' \in Nat /\ Len(down') <= remaining'
               /\ pending' \subseteq ToSet(offered')
               /\ \A t \in pending' \ gone' : \E i \in 1 .. Len(down') : down'[i] = Genuine(t)'
    BY <1>1, <1>5, <2>2, FramesFixed DEF Answering
  <2>3. Answering'
    BY <1>1, <1>5, <2>1, <2>2 DEF Answering
  <2> QED
    BY <2>3 DEF Phase
<1> QED
  BY <1>2, <1>3, <1>4, <1>5

LEMMA HonestNext == HonestInv /\ ClientInv /\ [Next]_vars => HonestInv'
<1> SUFFICES ASSUME HonestInv, ClientInv, [Next]_vars PROVE HonestInv'
  OBVIOUS
<1> USE DEF HonestInv
<1>1. CASE ClientSendGet
  <2>1. client = "SendGet" /\ client' = "AwaitOffer" /\ up' = Append(up, [op |-> "get"])
        /\ UNCHANGED <<server, held, offered, down, rogue, ended>>
    BY <1>1 DEF ClientSendGet, serverVars
  <2>2. ASSUME ~rogue, ~ended PROVE Asked'
    <3>1. Asking
      BY <2>1, <2>2, Phases DEF Phase
    <3>2. up = <<>> /\ down = <<>> /\ server = "AwaitGet"
      BY <3>1 DEF Asking
    <3>3. up' = <<[op |-> "get"]>>
      BY <2>1, <3>2
    <3> QED
      BY <2>1, <3>2, <3>3 DEF Asked
  <2> QED
    BY <2>1, <2>2 DEF Phase
<1>2. CASE ClientOffer
  <2>1. UNCHANGED <<held, offered, rogue, ended>>
    BY <1>2 DEF ClientOffer, serverVars
  <2>2. ~rogue /\ ~ended => Phase'
    BY <1>2, HonestOffer
  <2> QED
    BY <2>1, <2>2
<1>3. CASE ClientDelivery
  <2>1. UNCHANGED <<held, offered, rogue, ended>>
    BY <1>3 DEF ClientDelivery, serverVars
  <2>2. ~rogue /\ ~ended => Phase'
    BY <1>3, HonestDelivery
  <2> QED
    BY <2>1, <2>2
<1>4. CASE ClientFinish
  <2>1. UNCHANGED <<held, offered, rogue, ended>>
    BY <1>4 DEF ClientFinish, serverVars
  <2>2. ~rogue /\ ~ended => Phase'
    BY <1>4, HonestFinish
  <2> QED
    BY <2>1, <2>2
<1>5. CASE ClientEnded
  BY <1>5 DEF ClientEnded, serverVars
<1>6. CASE ServerGet
  <2>1. UNCHANGED <<held, rogue, ended>>
    BY <1>6 DEF ServerGet
  <2>2. ~rogue /\ ~ended => Phase' /\ offered' \in Seq(Triples)
    BY <1>6, HonestGet
  <2>3. ~rogue => offered' \in Seq(Triples)
    <3>1. ~rogue /\ ended => offered' \in Seq(Triples)
      BY <1>6, PageType DEF ServerGet
    <3> QED
      BY <2>2, <3>1
  <2> QED
    BY <2>1, <2>2, <2>3
<1>7. ASSUME NEW offer \in RogueOffers, RogueOffer(offer) PROVE HonestInv'
  BY <1>7 DEF RogueOffer
<1>8. CASE ServerWant
  <2>1. UNCHANGED <<held, offered, rogue, ended>>
    BY <1>8 DEF ServerWant
  <2>2. ~rogue /\ ~ended => Phase'
    BY <1>8, HonestWant
  <2> QED
    BY <2>1, <2>2
<1>9. ASSUME NEW d \in Forgeries, RogueDelivery(d) PROVE HonestInv'
  BY <1>9 DEF RogueDelivery, serverVars
<1>10. ASSUME NEW t \in Triples, Evict(t) PROVE HonestInv'
  <2>1. /\ UNCHANGED <<held, rogue, ended>> /\ gone \subseteq gone'
        /\ UNCHANGED <<clientVars, server, offered, up, down>>
    BY <1>10 DEF Evict
  <2>2. ~rogue /\ ~ended => Phase'
    BY <2>1, HonestKept
  <2> QED
    BY <2>1, <2>2
<1>11. CASE StreamEnds
  BY <1>11 DEF StreamEnds, serverVars
<1>12. CASE UNCHANGED vars
  <2>1. /\ UNCHANGED <<held, rogue, ended>> /\ gone \subseteq gone'
        /\ UNCHANGED <<clientVars, server, offered, up, down>>
    BY <1>12 DEF vars, clientVars
  <2>2. ~rogue /\ ~ended => Phase'
    BY <2>1, HonestKept
  <2> QED
    BY <2>1, <2>2
<1> QED
  BY <1>1, <1>2, <1>3, <1>4, <1>5, <1>6, <1>7, <1>8, <1>9, <1>10, <1>11, <1>12 DEF Next

\* An honest server is believed exactly, whatever it holds and evicts meanwhile: a
\* fetch that ran to its end got the codec's verdict on every want that was on the
\* page and not evicted and missed every other one, for positions in a Want mean the
\* same to both ends (matched positions, Bitvector and the serving loop).
THEOREM HonestServerBelieved == Spec => []HonestVerdicts
<1>1. HonestInv /\ ClientInv => HonestVerdicts
  <2> SUFFICES ASSUME HonestInv, ClientInv, ~rogue, client = "Done", ~ended,
                      NEW i \in DOMAIN outcomes
               PROVE  /\ outcomes[i][1] \notin ToSet(offered) => outcomes[i][2] = "Missed"
                      /\ outcomes[i][1] \in ToSet(offered) \ gone
                           => outcomes[i][2] = Verdict(outcomes[i][1])
                      /\ outcomes[i][2] = "Missed"
                           => outcomes[i][1] \notin ToSet(offered) \/ outcomes[i][1] \in gone
    BY DEF HonestVerdicts
  <2>1. Wanting \/ Answering
    BY Phases DEF HonestInv, Phase
  <2>2. Judged(outcomes)
    BY <2>1 DEF Wanting, Answering
  <2>3. i \in 1 .. Len(outcomes)
    BY OutcomeList, LenProperties
  <2>4. outcomes[i][2] # "Missed" => outcomes[i][2] = Verdict(outcomes[i][1])
    BY <2>3 DEF ClientInv, Global
  <2> QED
    BY <2>2, <2>3, <2>4 DEF Judged
<1> QED
  BY <1>1, ClientInductive, HonestInit, HonestNext, PTL DEF Spec
=============================================================================
