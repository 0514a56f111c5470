----------------------------- MODULE FetchStream -----------------------------
(***************************************************************************)
(* One delivery stream, Get -> Offer -> Want -> Delivery*, frame by frame: *)
(* FetchClient and ServerStream of crates/wire/src/adapter.rs, pumped over *)
(* two ordered byte streams by crates/net/src/pullsync.rs.                 *)
(*                                                                         *)
(* Want indexes positionally into the offer of the same stream, entries    *)
(* may be evicted between the offer and the want, and the stream may end   *)
(* at any frame.  A rogue server offers and delivers what it likes; what   *)
(* the client makes of it is the codec's business.  A frame is decoded     *)
(* whole: framing is below this model, an undecodable frame outside it.    *)
(***************************************************************************)
EXTENDS Codec, SequencesExt

CONSTANTS
  Entries,     \* the minted entries: triple, payload and stamp
  Codecs,      \* the codecs a client may use
  Wants,       \* the sets of triples a fetch may ask for
  Reserves,    \* the sequences of triples a server may hold from start on
  RogueOffers, \* the offers a rogue server may send
  Forgeries,   \* the delivery frames a rogue server may send
  Page,        \* MAX_PAGE
  Zero,        \* the zero address
  MaxAhead,    \* bound: frames a rogue server sends ahead of the client
  Faults       \* the stream may end early, entries may be evicted

Triples == {e.triple : e \in Entries}

ASSUME FetchConstants ==
  /\ Wants \subseteq SUBSET Triples
  /\ Reserves \subseteq Seq(Triples)
  /\ RogueOffers \subseteq Seq(Triples \cup {Garbled})
  /\ Page \in Nat \ {0}
  /\ MaxAhead \in Nat
  /\ Faults \in BOOLEAN
  /\ {None, Garbled} \cap Triples = {}
  /\ \A t \in Triples : t.address # Zero
  /\ IsFiniteSet(Entries)
  /\ \A e \in Entries : \* as Mint makes them, whoever signed
       /\ Parses(e.stamp)
       /\ e.triple = Triple(ChunkAddress(e.data), e.stamp.batch_id, Keccak(e.stamp))

VARIABLES
  codec,      \* the client's codec
  want,       \* what the node asked for
  client,     \* SendGet, AwaitOffer, AwaitDeliveries or Done
  pending,    \* wanted, offered and unanswered triples
  remaining,  \* delivery frames still expected
  outcomes,   \* the outcomes collected so far, in order
  heard,      \* history: the fresh offer arrived
  rogue,      \* the server may send any frames
  server,     \* AwaitGet, Blocked, AwaitWant or Served
  held,       \* the server's entries in BinID order
  gone,       \* entries evicted since
  offered,    \* the page the server last offered
  up, down,   \* frames to the server, frames to the client
  ended       \* the stream ended before the client was done

vars == <<codec, want, client, pending, remaining, outcomes, heard, rogue, server,
          held, gone, offered, up, down, ended>>
clientVars == <<codec, want, client, pending, remaining, outcomes, heard>>
serverVars == <<rogue, server, held, gone, offered>>

Init ==
  /\ codec \in Codecs
  /\ want \in Wants
  /\ held \in Reserves
  /\ client = "SendGet" /\ server = "AwaitGet"
  /\ pending = {} /\ remaining = 0 /\ outcomes = <<>>
  /\ heard = FALSE
  /\ rogue \in BOOLEAN
  /\ gone = {} /\ offered = <<>>
  /\ up = <<>> /\ down = <<>>
  /\ ended = FALSE

\* One Missed per triple, in some order.
MissedAll(S) == SetToSeq(S \X {"Missed"})

-----------------------------------------------------------------------------
(* The client.                                                             *)

ClientSendGet ==
  /\ ~ended /\ client = "SendGet"
  /\ client' = "AwaitOffer"
  /\ up' = Append(up, [op |-> "get"])
  /\ UNCHANGED <<codec, want, pending, remaining, outcomes, heard, serverVars, down, ended>>

\* The first position of each wanted triple in the fresh offer, from 0.
Matched(offer) ==
  {i \in 0 .. Len(offer) - 1 :
     /\ TripleOf(offer[i + 1]) \in want
     /\ \A j \in 0 .. i - 1 : offer[j + 1] # offer[i + 1]}

\* Wants the fresh offer does not name are missed at once.  An empty offer is
\* the end: the server does not read a Want after it.
ClientOffer ==
  /\ ~ended /\ client = "AwaitOffer"
  /\ down # <<>> /\ Head(down).op = "offer"
  /\ LET offer == Head(down).entries
         bits == Matched(offer)
         named == {TripleOf(offer[i + 1]) : i \in bits}
     IN /\ outcomes' = outcomes \o MissedAll(want \ named)
        /\ pending' = named
        /\ remaining' = Cardinality(named)
        /\ client' = IF offer = <<>> THEN "Done" ELSE "AwaitDeliveries"
        /\ up' = IF offer = <<>> THEN up
                 ELSE Append(up, [op |-> "want", bits |-> WantBits(bits, Len(offer))])
  /\ down' = Tail(down)
  /\ heard' = TRUE
  /\ UNCHANGED <<codec, want, serverVars, ended>>

\* What delivery d is an answer for.  The zero address says that the server has
\* the entry no more, not which one.
Answered(d) == IF d.address = Zero THEN None ELSE TripleOfDelivery(d)

\* Mutants of ClientDelivery: a frame that names nothing pending is not counted;
\* a repeated delivery is reported again; pending wants are keyed by the address.
ClientDeliveryUncounted ==
  /\ ~ended /\ client = "AwaitDeliveries" /\ remaining > 0
  /\ down # <<>> /\ Head(down).op = "delivery"
  /\ down' = Tail(down)
  /\ LET d == Head(down)
         t == Answered(d)
     IN /\ pending' = pending \ {t}
        /\ remaining' = IF t \in pending THEN remaining - 1 ELSE remaining
        /\ outcomes' = IF t \in pending THEN Append(outcomes, <<t, Validate(codec, t, d)>>)
                       ELSE outcomes
  /\ UNCHANGED <<codec, want, client, heard, serverVars, up, ended>>

ClientDeliveryTwice ==
  /\ ~ended /\ client = "AwaitDeliveries" /\ remaining > 0
  /\ down # <<>> /\ Head(down).op = "delivery"
  /\ remaining' = remaining - 1
  /\ down' = Tail(down)
  /\ LET d == Head(down)
         t == Answered(d)
     IN /\ pending' = pending \ {t}
        /\ outcomes' = IF t \in want THEN Append(outcomes, <<t, Validate(codec, t, d)>>)
                       ELSE outcomes
  /\ UNCHANGED <<codec, want, client, heard, serverVars, up, ended>>

ClientDeliveryByAddress ==
  /\ ~ended /\ client = "AwaitDeliveries" /\ remaining > 0
  /\ down # <<>> /\ Head(down).op = "delivery"
  /\ remaining' = remaining - 1
  /\ down' = Tail(down)
  /\ LET d == Head(down)
         same == {t \in pending : t.address = d.address}
         t == IF same = {} THEN None ELSE CHOOSE x \in same : TRUE
     IN /\ pending' = pending \ {t}
        /\ outcomes' = IF t \in pending THEN Append(outcomes, <<t, Validate(codec, t, d)>>)
                       ELSE outcomes
  /\ UNCHANGED <<codec, want, client, heard, serverVars, up, ended>>

\* A frame counts against remaining whatever it holds; only the first one that
\* answers a pending triple settles it, with the codec's verdict.
ClientDelivery ==
  /\ ~ended /\ client = "AwaitDeliveries" /\ remaining > 0
  /\ down # <<>> /\ Head(down).op = "delivery"
  /\ remaining' = remaining - 1
  /\ down' = Tail(down)
  /\ LET d == Head(down)
         t == Answered(d)
     IN /\ pending' = pending \ {t}
        /\ outcomes' = IF t \in pending THEN Append(outcomes, <<t, Validate(codec, t, d)>>)
                       ELSE outcomes
  /\ UNCHANGED <<codec, want, client, heard, serverVars, up, ended>>

\* close finalizes pending wants as missed, and does so only in this state.
Close ==
  /\ outcomes' = IF client = "AwaitDeliveries" THEN outcomes \o MissedAll(pending) ELSE outcomes
  /\ client' = "Done"
  /\ pending' = {}
  /\ remaining' = 0
  /\ UNCHANGED <<codec, want, heard>>

ClientFinish ==
  /\ ~ended /\ client = "AwaitDeliveries" /\ remaining = 0
  /\ Close
  /\ UNCHANGED <<serverVars, up, down, ended>>

\* The peer closed or the write failed: pump gives up and run_op calls close.
ClientEnded ==
  /\ ended /\ client # "Done"
  /\ Close
  /\ UNCHANGED <<serverVars, up, down, ended>>

-----------------------------------------------------------------------------
(* The server.                                                             *)

PageOf(entries) == SubSeq(entries, 1, IF Len(entries) < Page THEN Len(entries) ELSE Page)

ServerGet ==
  /\ server = "AwaitGet"
  /\ up # <<>> /\ Head(up).op = "get"
  /\ up' = Tail(up)
  /\ IF held = <<>>     \* a live subscription: nothing is sent
     THEN server' = "Blocked" /\ UNCHANGED <<offered, down>>
     ELSE /\ server' = "AwaitWant"
          /\ offered' = PageOf(held)
          /\ down' = Append(down, [op |-> "offer", entries |-> PageOf(held)])
  /\ UNCHANGED <<clientVars, rogue, held, gone, ended>>

\* A rogue server offers nothing instead of blocking, names an entry twice, or
\* names none.
RogueOffer(offer) ==
  /\ rogue /\ server = "AwaitGet"
  /\ up # <<>> /\ Head(up).op = "get"
  /\ up' = Tail(up)
  /\ server' = IF offer = <<>> THEN "Served" ELSE "AwaitWant"
  /\ offered' = offer
  /\ down' = Append(down, [op |-> "offer", entries |-> offer])
  /\ UNCHANGED <<clientVars, rogue, held, gone, ended>>

Delivery(address, data, stamp) ==
  [op |-> "delivery", address |-> address, data |-> data, stamp |-> stamp]

\* The store of the server's codec.
EntryOf(t) == CHOOSE e \in Entries : e.triple = t

\* What a holder of entry t sends for it.
Genuine(t) == Delivery(t.address, EntryOf(t).data, EntryOf(t).stamp)

\* Evicted since the offer: the zero-address placeholder.
Served(t) == IF t \in gone THEN Delivery(Zero, None, None) ELSE Genuine(t)

\* One delivery per set bit, in offer order.  Bits of garbled entries are unset.
Deliveries(bits) ==
  LET upto[i \in 0 .. Len(offered)] ==
        IF i = 0 THEN <<>>
        ELSE IF BitvectorGet(bits, i - 1) THEN Append(upto[i - 1], Served(offered[i]))
             ELSE upto[i - 1]
  IN upto[Len(offered)]

ServerWant ==
  /\ server = "AwaitWant"
  /\ up # <<>> /\ Head(up).op = "want"
  /\ down' = down \o Deliveries(Head(up).bits)
  /\ up' = Tail(up)
  /\ server' = "Served"
  /\ UNCHANGED <<clientVars, rogue, held, gone, offered, ended>>

\* A rogue server sends one frame after another: garbage under a genuine stamp,
\* another stamp over the same content, no stamp, duplicates.
RogueDelivery(d) ==
  /\ rogue
  /\ server = "AwaitWant"
  /\ up # <<>> /\ Head(up).op = "want"
  /\ Len(down) < MaxAhead
  /\ down' = Append(down, d)
  /\ UNCHANGED <<clientVars, serverVars, up, ended>>

-----------------------------------------------------------------------------
(* The world.                                                              *)

\* A rogue server's evictions change nothing: it sends what it likes anyway.
Evict(t) ==
  /\ Faults /\ ~rogue
  /\ t \in ToSet(held) \ gone
  /\ gone' = gone \cup {t}
  /\ UNCHANGED <<clientVars, rogue, server, held, offered, up, down, ended>>

StreamEnds ==
  /\ Faults
  /\ ~ended /\ client # "Done"
  /\ ended' = TRUE
  /\ UNCHANGED <<clientVars, serverVars, up, down>>

Next ==
  \/ ClientSendGet
  \/ ClientOffer
  \/ ClientDelivery
  \/ ClientFinish
  \/ ClientEnded
  \/ ServerGet
  \/ \E offer \in RogueOffers : RogueOffer(offer)
  \/ ServerWant
  \/ \E d \in Forgeries : RogueDelivery(d)
  \/ \E t \in Triples : Evict(t)
  \/ StreamEnds

\* Both ends are polled while they have input.  Nobody bounds the time a stream
\* may stay silent, so an end of the stream is never owed.
Fairness ==
  /\ WF_vars(ClientSendGet \/ ClientOffer \/ ClientDelivery \/ ClientFinish \/ ClientEnded)
  /\ WF_vars(ServerGet \/ ServerWant)

Spec == Init /\ [][Next]_vars /\ Fairness

-----------------------------------------------------------------------------
(* Properties.                                                             *)

Reported == {outcomes[i][1] : i \in DOMAIN outcomes}

\* Outcomes are never collapsed or doubled, whatever a server sends and at
\* whatever frame the stream ends once the offer is in: each wanted triple is
\* in exactly one of the pending set and the outcome list, and there once.
EachWantOnce ==
  heard =>
    /\ Reported \cup pending = want
    /\ Reported \cap pending = {}
    /\ Len(outcomes) = Cardinality(Reported)

\* The close contract, from any state: a fetch that is over reports an outcome
\* for everything it was asked for.
DoneReportsAll == client = "Done" => Reported = want

Verdict(t) == Validate(codec, t, Genuine(t))

\* An honest server is believed exactly: a triple that was on its page and not
\* evicted gets the codec's verdict on the entry, everything else is missed;
\* positions never attribute one entry's answer to another.
HonestVerdicts ==
  ~rogue /\ client = "Done" /\ ~ended =>
    \A i \in DOMAIN outcomes :
      LET t == outcomes[i][1]
          v == outcomes[i][2]
      IN /\ t \notin ToSet(offered) => v = "Missed"
         /\ t \in ToSet(offered) \ gone => v = Verdict(t)
         /\ v = "Missed" => t \notin ToSet(offered) \/ t \in gone

\* Rejected is a fault of the entry, "identical at every holder": whatever a
\* server sends, it can make the client miss an entry, never reject one that an
\* honest holder would have delivered, nor store one that is to be rejected.
VerdictsGlobal ==
  \A i \in DOMAIN outcomes :
    outcomes[i][2] # "Missed" => outcomes[i][2] = Verdict(outcomes[i][1])

\* A fetch from an honest server with entries ends, at the latest with the
\* stream.
Finishes == held # <<>> /\ ~rogue ~> client = "Done"
=============================================================================
