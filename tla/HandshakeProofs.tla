--------------------------- MODULE HandshakeProofs ---------------------------
(***************************************************************************)
(* Proofs about Handshake, for any networks and any fragmentation.         *)
(*                                                                         *)
(* Agreement is not inductive: it speaks of the two drivers and nothing of *)
(* the stream between them.  IInv adds what may be on the stream, Origin:  *)
(* only pieces of what the other side has sent, and an Ack only from an    *)
(* initiator that has verified its peer and will not report failure.       *)
(***************************************************************************)
EXTENDS Handshake, SequenceTheorems, TLAPS

\* The messages a side may have put on the stream.
Sent(s) ==
  IF s = "R" THEN {<<"SynAck", MyAck("R")>>}
  ELSE {<<"Syn">>} \cup {m \in {<<"Ack", MyAck("I")>>} :
                           step["I"] = "Finish" /\ result["I"] # "none"}

PiecesOf(msgs) == [msg : msgs, nr : 1..FrameLen]

Origin ==
  \A s \in Sides : /\ wire[s] \in Seq(PiecesOf(Sent(Peer(s))))
                   /\ input[s] \in Seq(PiecesOf(Sent(Peer(s))))
                   /\ buf[s] \in Seq(PiecesOf(Sent(Peer(s))))

Scalars ==
  /\ id \in [Sides -> Identities]
  /\ step \in [Sides -> Steps]
  /\ peer \in [Sides -> Sides \cup {Nobody}]
  /\ pc \in [Sides -> {"poll", "read"}]
  /\ result \in [Sides -> {"running", "done", "none"}]
  /\ broken \in BOOLEAN

\* Each side has its buffers.
Streams ==
  /\ buf = [s \in Sides |-> buf[s]]
  /\ input = [s \in Sides |-> input[s]]
  /\ wire = [s \in Sides |-> wire[s]]

\* The initiator never reads again once it has verified its peer.
FinishPolls == step["I"] = "Finish" => pc["I"] = "poll"

\* Agreement from the moment the responder has read the Ack.
Joined ==
  step["R"] = "Finish" => step["I"] = "Finish" /\ result["I"] # "none"

IInv == Scalars /\ Streams /\ Origin /\ VerifiedPeer /\ FinishPolls /\ Joined

-----------------------------------------------------------------------------

\* The other side of each of the two.
LEMMA Opposite ==
  /\ Peer("I") = "R" /\ Peer("R") = "I"
  /\ \A s \in Sides : Peer(s) \in Sides /\ Peer(Peer(s)) = s /\ Peer(s) # s
BY DEF Peer, Sides

\* A sequence over a set is one over any larger set.
LEMMA SeqMono ==
  ASSUME NEW S, NEW T, S \subseteq T, NEW q \in Seq(S)
  PROVE  q \in Seq(T)
OBVIOUS

\* frame cuts a message into pieces of that message.
LEMMA FramePieces ==
  ASSUME NEW msgs, NEW m \in msgs
  PROVE  Frame(m) \in Seq(PiecesOf(msgs))
<1>1. FrameLen \in Nat
  BY HandshakeConstants
<1>2. \A i \in 1..FrameLen : [msg |-> m, nr |-> i] \in PiecesOf(msgs)
  BY DEF PiecesOf
<1>3. QED
  BY <1>1, <1>2, SeqDef DEF Frame

\* What poll keeps of a buffer, and what a read takes, is a part of it.
LEMMA PartOf ==
  ASSUME NEW S, NEW q \in Seq(S), NEW m \in Nat \ {0}, NEW n \in 0..Len(q)
  PROVE  SubSeq(q, m, n) \in Seq(S)
BY SubSeqProperties

\* What a driver has buffered, what it keeps, and the frame it reads, were all
\* sent by its peer.
LEMMA BufferedOrigin ==
  ASSUME Origin, NEW s \in Sides
  PROVE  /\ Buffered(s) \in Seq(PiecesOf(Sent(Peer(s))))
         /\ Rest(s) \in Seq(PiecesOf(Sent(Peer(s))))
         /\ HasFrame(s) => Received(s) \in Sent(Peer(s))
<1> DEFINE S == PiecesOf(Sent(Peer(s)))
<1>1. Buffered(s) \in Seq(S)
  BY ConcatProperties DEF Origin, Buffered
<1>2. Rest(s) \in Seq(S)
  <2>1. FrameLen + 1 \in Nat \ {0} /\ Len(Buffered(s)) \in 0..Len(Buffered(s))
    BY <1>1, HandshakeConstants
  <2>2. QED
    BY <1>1, <2>1, PartOf DEF Rest
<1>3. ASSUME HasFrame(s) PROVE Received(s) \in Sent(Peer(s))
  <2>1. Buffered(s)[1] \in S
    BY <1>1, <1>3, HandshakeConstants DEF HasFrame
  <2>2. QED
    BY <2>1 DEF Received, PiecesOf
<1>4. QED
  BY <1>1, <1>2, <1>3

\* A verified SynAck is the responder's own, and of the initiator's network.
LEMMA SynAckGenuine ==
  ASSUME IInv, step["I"] = "AwaitSynAck", HasFrame("I"),
         NEW ack \in Verified("I")
  PROVE  /\ ack.owner = "R"
         /\ id["R"].net = id["I"].net
         /\ id["R"].signed = id["I"].net
<1>1. Received("I") = <<"SynAck", MyAck("R")>>
  BY BufferedOrigin, Opposite DEF IInv, Sides, Sent
<1>2. Received("I") = <<"SynAck", ack>> /\ Check("I", ack)
  BY DEF Verified, Decode, Expects
<1>3. ack = MyAck("R")
  BY <1>1, <1>2
<1>4. QED
  BY <1>2, <1>3 DEF MyAck, Check, Verifies

\* A verified Ack is the initiator's own, and the initiator stands by it.
LEMMA AckGenuine ==
  ASSUME IInv, step["R"] = "AwaitAck", HasFrame("R"),
         NEW ack \in Verified("R")
  PROVE  /\ ack.owner = "I"
         /\ id["I"].net = id["R"].net
         /\ id["I"].signed = id["R"].net
         /\ step["I"] = "Finish" /\ result["I"] # "none"
<1>1. Received("R") \in Sent("I")
  BY BufferedOrigin, Opposite DEF IInv, Sides
<1>2. Received("R") = <<"Ack", ack>> /\ Check("R", ack)
  BY DEF Verified, Decode, Expects
<1>3. Received("R") # <<"Syn">>
  BY <1>2
<1>4. /\ Received("R") = <<"Ack", MyAck("I")>>
      /\ step["I"] = "Finish" /\ result["I"] # "none"
  BY <1>1, <1>3 DEF Sent
<1>5. ack = MyAck("I")
  BY <1>2, <1>4
<1>6. QED
  BY <1>2, <1>4, <1>5 DEF MyAck, Check, Verifies

-----------------------------------------------------------------------------
(* How a step carries Origin over *)

\* No message is taken back.
Grown == \A t \in Sides : Sent(t) \subseteq Sent(t)'

\* What was sent by a peer stays so.
LEMMA StillSent ==
  ASSUME Grown, NEW t \in Sides, NEW q \in Seq(PiecesOf(Sent(Peer(t))))
  PROVE  q \in Seq(PiecesOf(Sent(Peer(t))'))
<1>1. Sent(Peer(t)) \subseteq Sent(Peer(t))'
  BY Opposite DEF Grown
<1>2. PiecesOf(Sent(Peer(t))) \subseteq PiecesOf(Sent(Peer(t))')
  BY <1>1 DEF PiecesOf
<1>3. QED
  BY <1>2, SeqMono

\* poll consumes its input and keeps a part of it.
LEMMA ConsumeOrigin ==
  ASSUME IInv, Grown, NEW s \in Sides,
         NEW rest \in Seq(PiecesOf(Sent(Peer(s)))), Consume(s, rest)
  PROVE  \A t \in Sides : /\ buf'[t] \in Seq(PiecesOf(Sent(Peer(t))'))
                          /\ input'[t] \in Seq(PiecesOf(Sent(Peer(t))'))
<1> TAKE t \in Sides
<1>1. buf'[t] \in Seq(PiecesOf(Sent(Peer(t))))
  BY DEF IInv, Streams, Origin, Consume
<1>2. input'[t] \in Seq(PiecesOf(Sent(Peer(t))))
  BY EmptySeq DEF IInv, Streams, Origin, Consume
<1>3. QED
  BY <1>1, <1>2, StillSent

\* A message is written only if it counts as sent afterwards.
LEMMA TransmitOrigin ==
  ASSUME IInv, Grown, NEW s \in Sides, NEW msg, Transmit(s, msg),
         result' = result => msg \in Sent(s)'
  PROVE  \A t \in Sides : wire'[t] \in Seq(PiecesOf(Sent(Peer(t))'))
<1> TAKE t \in Sides
<1>1. wire[t] \in Seq(PiecesOf(Sent(Peer(t))'))
  BY StillSent DEF IInv, Origin
<1>2. CASE wire' = wire
  BY <1>1, <1>2
<1>3. CASE /\ wire' = [wire EXCEPT ![Peer(s)] = @ \o Frame(msg)]
           /\ result' = result
  <2>1. CASE t = Peer(s)
    <3>1. Frame(msg) \in Seq(PiecesOf(Sent(Peer(t))'))
      BY <1>3, <2>1, FramePieces, Opposite
    <3>2. wire'[t] = wire[t] \o Frame(msg)
      BY <1>3, <2>1, Opposite DEF IInv, Streams
    <3>3. QED
      BY <1>1, <3>1, <3>2, ConcatProperties
  <2>2. CASE t # Peer(s)
    BY <1>1, <1>3, <2>2 DEF IInv, Streams
  <2>3. QED
    BY <2>1, <2>2
<1>4. QED
  BY <1>2, <1>3 DEF Transmit

\* An update leaves a function on the two sides one.
LEMMA UpdateShape ==
  ASSUME NEW f, f = [s \in Sides |-> f[s]], NEW k, NEW e
  PROVE  [f EXCEPT ![k] = e] = [s \in Sides |-> [f EXCEPT ![k] = e][s]]
OBVIOUS

LEMMA ConsumeShape ==
  ASSUME Streams, NEW s, NEW rest, Consume(s, rest)
  PROVE  buf' = [t \in Sides |-> buf'[t]] /\ input' = [t \in Sides |-> input'[t]]
BY UpdateShape DEF Streams, Consume

LEMMA TransmitShape ==
  ASSUME Streams, NEW s, NEW msg, Transmit(s, msg)
  PROVE  wire' = [t \in Sides |-> wire'[t]]
BY UpdateShape DEF Streams, Transmit

\* The identities are fixed, so only the initiator's state decides what counts
\* as sent.
LEMMA GrownIf ==
  ASSUME id' = id,
         step["I"] = "Finish" /\ result["I"] # "none"
           => step'["I"] = "Finish" /\ result'["I"] # "none"
  PROVE  Grown
BY DEF Grown, Sent, MyAck, Sides

-----------------------------------------------------------------------------
(* The invariant *)

LEMMA InitIInv == Init => IInv
<1> SUFFICES ASSUME Init PROVE IInv
  OBVIOUS
<1>1. Scalars
  BY DEF Init, Scalars, Steps
<1>2. Streams
  BY DEF Init, Streams
<1>3. Origin
  BY EmptySeq DEF Init, Origin
<1>4. VerifiedPeer /\ FinishPolls /\ Joined
  BY DEF Init, VerifiedPeer, FinishPolls, Joined, Sides
<1>5. QED
  BY <1>1, <1>3, <1>4, <1>2 DEF IInv

\* The polls that write to the stream.
LEMMA WritesKeep ==
  ASSUME IInv, InitiatorStart \/ ResponderSyn \/ InitiatorSynAck
  PROVE  IInv'
<1>1. CASE InitiatorStart
  <2>1. Grown
    BY <1>1, GrownIf DEF InitiatorStart, IInv, Scalars
  <2>2. \A t \in Sides : /\ buf'[t] \in Seq(PiecesOf(Sent(Peer(t))'))
                         /\ input'[t] \in Seq(PiecesOf(Sent(Peer(t))'))
    BY <1>1, <2>1, ConsumeOrigin, BufferedOrigin
       DEF InitiatorStart, IInv, Sides
  <2>3. <<"Syn">> \in Sent("I")'
    BY DEF Sent
  <2>4. \A t \in Sides : wire'[t] \in Seq(PiecesOf(Sent(Peer(t))'))
    BY <1>1, <2>1, <2>3, TransmitOrigin DEF InitiatorStart, Sides
  <2>5. Scalars'
    BY <1>1 DEF InitiatorStart, IInv, Scalars, Goto, Transmit, Return, Steps, Sides
  <2>6. Streams'
    BY <1>1, ConsumeShape, TransmitShape DEF InitiatorStart, IInv, Streams
  <2>7. VerifiedPeer' /\ FinishPolls' /\ Joined'
    BY <1>1 DEF InitiatorStart, IInv, Scalars, VerifiedPeer, FinishPolls, Joined,
                Goto, Transmit, Return, Steps, Sides, Peer
  <2>8. QED
    BY <2>2, <2>4, <2>5, <2>7, <2>6 DEF IInv, Origin
<1>2. CASE ResponderSyn
  <2>1. Grown
    BY <1>2, GrownIf DEF ResponderSyn, IInv, Scalars, Goto, Transmit,
       Return, Sides
  <2>2. \A t \in Sides : /\ buf'[t] \in Seq(PiecesOf(Sent(Peer(t))'))
                         /\ input'[t] \in Seq(PiecesOf(Sent(Peer(t))'))
    BY <1>2, <2>1, ConsumeOrigin, BufferedOrigin DEF ResponderSyn, IInv, Sides
  <2>3. <<"SynAck", MyAck("R")>> \in Sent("R")'
    BY <1>2 DEF Sent, MyAck, ResponderSyn
  <2>4. \A t \in Sides : wire'[t] \in Seq(PiecesOf(Sent(Peer(t))'))
    BY <1>2, <2>1, <2>3, TransmitOrigin DEF ResponderSyn, Sides
  <2>5. Scalars'
    BY <1>2 DEF ResponderSyn, IInv, Scalars, Goto, Transmit, Return, Steps, Sides
  <2>6. Streams'
    BY <1>2, ConsumeShape, TransmitShape DEF ResponderSyn, IInv, Streams
  <2>7. VerifiedPeer' /\ FinishPolls' /\ Joined'
    BY <1>2 DEF ResponderSyn, IInv, Scalars, VerifiedPeer, FinishPolls, Joined,
                Goto, Transmit, Return, Steps, Sides, Peer
  <2>8. QED
    BY <2>2, <2>4, <2>5, <2>7, <2>6 DEF IInv, Origin
<1>3. CASE InitiatorSynAck
  <2>1. Grown
    BY <1>3, GrownIf DEF InitiatorSynAck, IInv, Scalars
  <2>2. \A t \in Sides : /\ buf'[t] \in Seq(PiecesOf(Sent(Peer(t))'))
                         /\ input'[t] \in Seq(PiecesOf(Sent(Peer(t))'))
    BY <1>3, <2>1, ConsumeOrigin, BufferedOrigin
       DEF InitiatorSynAck, IInv, Sides
  <2>3. result' = result => <<"Ack", MyAck("I")>> \in Sent("I")'
    BY <1>3 DEF Sent, MyAck, InitiatorSynAck, Goto, Polls, IInv, Scalars, Sides
  <2>4. \A t \in Sides : wire'[t] \in Seq(PiecesOf(Sent(Peer(t))'))
    BY <1>3, <2>1, <2>3, TransmitOrigin DEF InitiatorSynAck, Sides
  <2>5. PICK ack \in Verified("I") : Know("I", ack)
    BY <1>3 DEF InitiatorSynAck
  <2>6. /\ ack.owner = "R"
        /\ id["R"].net = id["I"].net
        /\ id["R"].signed = id["I"].net
    BY <1>3, SynAckGenuine DEF InitiatorSynAck
  <2>7. Scalars'
    BY <1>3, <2>5, <2>6 DEF InitiatorSynAck, IInv, Scalars, Goto, Transmit,
       Return, Know, Steps, Sides
  <2>8. Streams'
    BY <1>3, ConsumeShape, TransmitShape DEF InitiatorSynAck, IInv, Streams
  <2>9. VerifiedPeer' /\ FinishPolls' /\ Joined'
    BY <1>3, <2>5, <2>6 DEF InitiatorSynAck, IInv, Scalars, VerifiedPeer,
       FinishPolls, Joined, Goto, Transmit, Return, Know, Polls, Steps, Sides,
       Peer
  <2>10. QED
    BY <2>2, <2>4, <2>7, <2>9, <2>8 DEF IInv, Origin
<1>4. QED
  BY <1>1, <1>2, <1>3

\* Steps that leave the stream alone keep what is on it.
LEMMA WireKept ==
  ASSUME IInv, Grown, wire' = wire
  PROVE  \A t \in Sides : wire'[t] \in Seq(PiecesOf(Sent(Peer(t))'))
BY StillSent DEF IInv, Origin

\* The polls that return or ask for more.
LEMMA PollsKeep ==
  ASSUME IInv, NEW s \in Sides,
         ResponderAck \/ Reject(s) \/ InitiatorDone \/ Need(s)
  PROVE  IInv'
<1>1. CASE ResponderAck
  <2>1. Grown
    BY <1>1, GrownIf DEF ResponderAck, IInv, Scalars, Goto, Return, Sides
  <2>2. \A t \in Sides : /\ buf'[t] \in Seq(PiecesOf(Sent(Peer(t))'))
                         /\ input'[t] \in Seq(PiecesOf(Sent(Peer(t))'))
    BY <1>1, <2>1, ConsumeOrigin, BufferedOrigin DEF ResponderAck, IInv, Sides
  <2>3. \A t \in Sides : wire'[t] \in Seq(PiecesOf(Sent(Peer(t))'))
    BY <1>1, <2>1, WireKept DEF ResponderAck
  <2>4. PICK ack \in Verified("R") : Know("R", ack)
    BY <1>1 DEF ResponderAck
  <2>5. /\ ack.owner = "I"
        /\ id["I"].net = id["R"].net
        /\ id["I"].signed = id["R"].net
        /\ step["I"] = "Finish" /\ result["I"] # "none"
    BY <1>1, AckGenuine DEF ResponderAck
  <2>6. Scalars'
    BY <1>1, <2>4, <2>5 DEF ResponderAck, IInv, Scalars, Goto, Return, Know,
       Steps, Sides
  <2>7. Streams'
    BY <1>1, ConsumeShape DEF ResponderAck, IInv, Streams
  <2>8. VerifiedPeer' /\ FinishPolls' /\ Joined'
    BY <1>1, <2>4, <2>5 DEF ResponderAck, IInv, Scalars, VerifiedPeer,
       FinishPolls, Joined, Goto, Return, Know, Steps, Sides, Peer
  <2>9. QED
    BY <2>2, <2>3, <2>6, <2>7, <2>8 DEF IInv, Origin
<1>2. CASE Reject(s)
  <2>1. Grown
    BY <1>2, GrownIf DEF Reject, IInv, Scalars, Goto, Return, Sides
  <2>2. \A t \in Sides : /\ buf'[t] \in Seq(PiecesOf(Sent(Peer(t))'))
                         /\ input'[t] \in Seq(PiecesOf(Sent(Peer(t))'))
    BY <1>2, <2>1, ConsumeOrigin, BufferedOrigin DEF Reject, IInv
  <2>3. \A t \in Sides : wire'[t] \in Seq(PiecesOf(Sent(Peer(t))'))
    BY <1>2, <2>1, WireKept DEF Reject
  <2>4. Scalars'
    BY <1>2 DEF Reject, IInv, Scalars, Goto, Return, Steps, Sides
  <2>5. Streams'
    BY <1>2, ConsumeShape DEF Reject, IInv, Streams
  <2>6. VerifiedPeer' /\ FinishPolls' /\ Joined'
    BY <1>2 DEF Reject, IInv, Scalars, VerifiedPeer, FinishPolls, Joined, Goto,
       Return, Steps, Sides, Peer
  <2>7. QED
    BY <2>2, <2>3, <2>4, <2>5, <2>6 DEF IInv, Origin
<1>3. CASE InitiatorDone
  <2>1. Grown
    BY <1>3, GrownIf DEF InitiatorDone, IInv, Scalars, Return, Sides
  <2>2. \A t \in Sides : /\ buf'[t] \in Seq(PiecesOf(Sent(Peer(t))'))
                         /\ input'[t] \in Seq(PiecesOf(Sent(Peer(t))'))
    BY <1>3, <2>1, ConsumeOrigin, BufferedOrigin DEF InitiatorDone, IInv, Sides
  <2>3. \A t \in Sides : wire'[t] \in Seq(PiecesOf(Sent(Peer(t))'))
    BY <1>3, <2>1, WireKept DEF InitiatorDone
  <2>4. Scalars'
    BY <1>3 DEF InitiatorDone, IInv, Scalars, Return, Sides
  <2>5. Streams'
    BY <1>3, ConsumeShape DEF InitiatorDone, IInv, Streams
  <2>6. VerifiedPeer' /\ FinishPolls' /\ Joined'
    BY <1>3 DEF InitiatorDone, IInv, Scalars, VerifiedPeer, FinishPolls, Joined,
       Return, Sides, Peer
  <2>7. QED
    BY <2>2, <2>3, <2>4, <2>5, <2>6 DEF IInv, Origin
<1>4. CASE Need(s)
  <2>1. Grown
    BY <1>4, GrownIf DEF Need, IInv, Scalars, Goto, Sides
  <2>2. \A t \in Sides : /\ buf'[t] \in Seq(PiecesOf(Sent(Peer(t))'))
                         /\ input'[t] \in Seq(PiecesOf(Sent(Peer(t))'))
    BY <1>4, <2>1, ConsumeOrigin, BufferedOrigin DEF Need, IInv
  <2>3. \A t \in Sides : wire'[t] \in Seq(PiecesOf(Sent(Peer(t))'))
    BY <1>4, <2>1, WireKept DEF Need
  <2>4. Scalars'
    BY <1>4 DEF Need, IInv, Scalars, Goto, Steps, Sides
  <2>5. Streams'
    BY <1>4, ConsumeShape DEF Need, IInv, Streams
  <2>6. VerifiedPeer' /\ FinishPolls' /\ Joined'
    BY <1>4 DEF Need, IInv, Scalars, VerifiedPeer, FinishPolls, Joined, Goto,
       Steps, Sides, Peer
  <2>7. QED
    BY <2>2, <2>3, <2>4, <2>5, <2>6 DEF IInv, Origin
<1>5. QED
  BY <1>1, <1>2, <1>3, <1>4

\* The steps between two polls, and the loss of the connection.
LEMMA StreamStepsKeep ==
  ASSUME IInv, NEW s \in Sides, Read(s) \/ ReadEnds(s) \/ Break \/ UNCHANGED vars
  PROVE  IInv'
<1>1. CASE Read(s)
  <2>1. Grown
    BY <1>1, GrownIf DEF Read
  <2>2. PICK n \in 1..Len(wire[s]) :
          /\ input' = [input EXCEPT ![s] = SubSeq(wire[s], 1, n)]
          /\ wire' = [wire EXCEPT ![s] = SubSeq(@, n + 1, Len(@))]
    BY <1>1 DEF Read
  <2>3. wire[s] \in Seq(PiecesOf(Sent(Peer(s))))
    BY DEF IInv, Origin
  <2>4. /\ SubSeq(wire[s], 1, n) \in Seq(PiecesOf(Sent(Peer(s))))
        /\ SubSeq(wire[s], n + 1, Len(wire[s])) \in Seq(PiecesOf(Sent(Peer(s))))
    <3>1. 1 \in Nat \ {0} /\ n \in 0..Len(wire[s])
      BY <2>3
    <3>2. n + 1 \in Nat \ {0} /\ Len(wire[s]) \in 0..Len(wire[s])
      BY <2>3
    <3>3. QED
      BY <2>3, <3>1, <3>2, PartOf
  <2>5. \A t \in Sides : /\ wire'[t] \in Seq(PiecesOf(Sent(Peer(t))))
                         /\ input'[t] \in Seq(PiecesOf(Sent(Peer(t))))
                         /\ buf'[t] \in Seq(PiecesOf(Sent(Peer(t))))
    BY <1>1, <2>2, <2>4 DEF Read, IInv, Origin, Streams
  <2>6. Origin'
    BY <2>1, <2>5, StillSent DEF Origin
  <2>7. Scalars' /\ VerifiedPeer' /\ FinishPolls' /\ Joined'
    BY <1>1 DEF Read, IInv, Scalars, VerifiedPeer, FinishPolls, Joined, Sides
  <2>8. Streams'
    BY <1>1, <2>2, UpdateShape DEF Read, IInv, Streams
  <2>9. QED
    BY <2>6, <2>7, <2>8 DEF IInv
<1>2. CASE ReadEnds(s)
  <2>1. Grown
    BY <1>2, GrownIf DEF ReadEnds, IInv, Scalars, FinishPolls, Return, driver,
       Sides
  <2>2. Origin'
    BY <1>2, <2>1, StillSent DEF ReadEnds, IInv, Origin, driver
  <2>3. Scalars' /\ Streams'
    BY <1>2 DEF ReadEnds, IInv, Scalars, Streams, Return, driver, Sides
  <2>4. VerifiedPeer' /\ FinishPolls' /\ Joined'
    BY <1>2 DEF ReadEnds, IInv, Scalars, VerifiedPeer, FinishPolls, Joined,
       Return, driver, Sides, Peer
  <2>5. QED
    BY <2>2, <2>3, <2>4 DEF IInv
<1>3. CASE Break \/ UNCHANGED vars
  <2>1. id' = id /\ UNCHANGED driver /\ wire' = wire /\ result' = result
    BY <1>3 DEF Break, vars, driver
  <2>2. Grown
    BY <2>1, GrownIf DEF driver
  <2>3. Origin'
    BY <2>1, <2>2, StillSent DEF IInv, Origin, driver
  <2>4. Scalars' /\ Streams' /\ VerifiedPeer' /\ FinishPolls' /\ Joined'
    BY <1>3, <2>1 DEF Break, vars, driver, IInv, Scalars, Streams, VerifiedPeer,
       FinishPolls, Joined
  <2>5. QED
    BY <2>3, <2>4 DEF IInv
<1>4. QED
  BY <1>1, <1>2, <1>3

\* Every step keeps the invariant.
LEMMA NextIInv ==
  ASSUME IInv, [Next]_vars
  PROVE  IInv'
<1>1. "I" \in Sides
  BY DEF Sides
<1>2. CASE Initiate \/ Respond
  BY <1>1, <1>2, WritesKeep, PollsKeep DEF Initiate, Respond
<1>3. CASE \E s \in Sides : SideStep(s)
  BY <1>3, PollsKeep, StreamStepsKeep DEF SideStep
<1>4. CASE Break \/ UNCHANGED vars
  BY <1>1, <1>4, StreamStepsKeep
<1>5. QED
  BY <1>2, <1>3, <1>4 DEF Next

\* The invariant gives the properties that the runs check.
LEMMA IInvImplies ==
  ASSUME IInv
  PROVE  TypeOK /\ VerifiedPeer /\ Agreement
<1>1. Agreement
  BY DEF IInv, Scalars, VerifiedPeer, Joined, Agreement, Sides
<1>2. \A s \in Sides : Sent(s) \subseteq Msgs
  BY DEF IInv, Scalars, Identities, Sent, MyAck, Msgs, Acks, Sides
<1>3. \A s \in Sides : PiecesOf(Sent(Peer(s))) \subseteq Pieces
  BY <1>2, Opposite DEF PiecesOf, Pieces
<1>4. \A s \in Sides : /\ wire[s] \in Seq(Pieces)
                       /\ input[s] \in Seq(Pieces)
                       /\ buf[s] \in Seq(Pieces)
  BY <1>3, SeqMono DEF IInv, Origin
<1>5. /\ wire \in [Sides -> Seq(Pieces)]
      /\ input \in [Sides -> Seq(Pieces)]
      /\ buf \in [Sides -> Seq(Pieces)]
  BY <1>4 DEF IInv, Streams
<1>6. QED
  BY <1>1, <1>5 DEF IInv, Scalars, TypeOK

\* IInv holds throughout any handshake.
THEOREM HandshakeInvariant == Spec => []IInv
<1>1. QED
  BY InitIInv, NextIInv, PTL DEF Spec

\* A stream carries nothing but pieces of the three messages, in states of
\* handshake.rs.
THEOREM HandshakeTyped == Spec => []TypeOK
BY HandshakeInvariant, IInvImplies, PTL

\* drive_handshake reports success only with the identity of the peer at the
\* other end, verified for the common network.
THEOREM IdentityVerified == Spec => []VerifiedPeer
BY HandshakeInvariant, IInvImplies, PTL

\* A responder that is done has an initiator that verified it and never
\* reports failure, wherever the connection breaks.
THEOREM HandshakeAgreement == Spec => []Agreement
BY HandshakeInvariant, IInvImplies, PTL
=============================================================================
