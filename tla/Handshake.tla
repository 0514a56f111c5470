------------------------------ MODULE Handshake ------------------------------
(***************************************************************************)
(* The Syn, SynAck, Ack exchange between two nodes: the Handshake driver   *)
(* of crates/net/src/handshake.rs in both roles, each pumped over one      *)
(* stream by drive_handshake of crates/net/src/transport.rs.               *)
(*                                                                         *)
(* Bytes are modelled as pieces of frames, so that a read may end inside a *)
(* frame.  An identity is the network a node runs on and the network its   *)
(* address is signed for; NoNet stands for a signature that verifies       *)
(* nowhere.  The observed underlay is carried and never examined; the      *)
(* shells always pass one, so a SynAck always carries its Syn.             *)
(***************************************************************************)
EXTENDS Integers, Sequences

CONSTANTS
  Nets,      \* network ids
  NoNet,     \* of an address whose signature does not verify
  FrameLen   \* pieces per frame

ASSUME HandshakeConstants ==
  /\ NoNet \notin Nets
  /\ FrameLen \in Nat \ {0}

VARIABLES
  id,      \* the identity each side presents
  step,    \* Handshake::step
  peer,    \* whom a side verified: the eth of Finish, and peer_overlay
  buf,     \* Handshake::buf
  pc,      \* drive_handshake: about to poll, or in stream.read
  input,   \* drive_handshake: the bytes of the last read
  wire,    \* pieces on their way to a side
  result,  \* of drive_handshake: running, done, or none
  broken   \* the stream was reset

vars == <<id, step, peer, buf, pc, input, wire, result, broken>>
driver == <<step, peer, buf, pc, input>>

Sides == {"I", "R"}
Peer(s) == IF s = "I" THEN "R" ELSE "I"
Nobody == "nobody"

Steps == {"Start", "AwaitSynAck", "AwaitSyn", "AwaitAck", "Finish", "Failed"}

\* A node's network id, and the one its address is signed for.
Identities == [net : Nets, signed : Nets \cup {NoNet}]

Acks == [owner : Sides, net : Nets, signed : Nets \cup {NoNet}]
Msgs == {<<"Syn">>} \cup ({"SynAck", "Ack"} \X Acks)
Pieces == [msg : Msgs, nr : 1..FrameLen]

MyAck(s) == [owner |-> s, net |-> id[s].net, signed |-> id[s].signed]
Frame(msg) == [i \in 1..FrameLen |-> [msg |-> msg, nr |-> i]]

Init ==
  /\ id \in [Sides -> Identities]
  /\ step = [s \in Sides |-> "Start"]
  /\ peer = [s \in Sides |-> Nobody]
  /\ pc = [s \in Sides |-> "poll"]
  /\ result = [s \in Sides |-> "running"]
  /\ buf = [s \in Sides |-> <<>>]
  /\ input = [s \in Sides |-> <<>>]
  /\ wire = [s \in Sides |-> <<>>]
  /\ broken = FALSE

-----------------------------------------------------------------------------
(* One turn of drive_handshake: poll with the last input, act on the answer *)

Polls(s) == result[s] = "running" /\ pc[s] = "poll"

\* What poll sees: it appends its input to the buffer first.
Buffered(s) == buf[s] \o input[s]

HasFrame(s) == Len(Buffered(s)) >= FrameLen
Received(s) == Buffered(s)[1].msg
Rest(s) == SubSeq(Buffered(s), FrameLen + 1, Len(Buffered(s)))

\* Mutant of Consume: the input is not cleared and is fed again.
ConsumeKeepsInput(s, rest) ==
  /\ buf' = [buf EXCEPT ![s] = rest]
  /\ UNCHANGED input

\* The buffer after the poll; every outcome that goes on clears the input.
Consume(s, rest) ==
  /\ buf' = [buf EXCEPT ![s] = rest]
  /\ input' = [input EXCEPT ![s] = <<>>]

Goto(s, to) == step' = [step EXCEPT ![s] = to]
Return(s, r) == result' = [result EXCEPT ![s] = r]

\* Mutant of Transmit: a failing flush counts as a failed handshake.
TransmitStrictFlush(s, msg) ==
  \/ /\ ~broken
     /\ wire' = [wire EXCEPT ![Peer(s)] = @ \o Frame(msg)]
     /\ UNCHANGED result \/ Return(s, "none")
  \/ /\ broken \/ result[Peer(s)] # "running"
     /\ UNCHANGED result \/ Return(s, "none")
     /\ UNCHANGED wire

\* write_all: on a stream that is gone it fails, or the bytes are lost.
Transmit(s, msg) ==
  \/ /\ ~broken
     /\ wire' = [wire EXCEPT ![Peer(s)] = @ \o Frame(msg)]
     /\ UNCHANGED result
  \/ /\ broken \/ result[Peer(s)] # "running"
     /\ UNCHANGED result \/ Return(s, "none")
     /\ UNCHANGED wire

\* The acks a frame holds for a side that expects a message of this kind: one,
\* or none when it is of another kind.
Decode(kind, msg) == {a \in Acks : msg = <<kind, a>>}

\* BzzAddress::verify: the signed bytes hold the network id, so the key that is
\* recovered derives the overlay only for the network the address was signed for.
Verifies(ack, net) == ack.signed = net

\* Mutant of Check: the network id is compared, the signature is not verified.
CheckNetworkOnly(s, ack) == ack.net = id[s].net

\* The network matches and the address verifies for it.
Check(s, ack) == ack.net = id[s].net /\ Verifies(ack, id[s].net)

Expects == [AwaitSynAck |-> "SynAck", AwaitAck |-> "Ack"]

Verified(s) ==
  {a \in Decode(Expects[step[s]], Received(s)) : Check(s, a)}

Know(s, ack) == peer' = [peer EXCEPT ![s] = ack.owner]

InitiatorStart ==
  /\ Polls("I") /\ step["I"] = "Start"
  /\ Goto("I", "AwaitSynAck")
  /\ Consume("I", Buffered("I"))
  /\ Transmit("I", <<"Syn">>)
  /\ UNCHANGED <<id, peer, pc, broken>>

\* drive_responder: whatever the frame holds reads as a Syn.
ResponderSyn ==
  /\ Polls("R") /\ step["R"] \in {"Start", "AwaitSyn"}
  /\ HasFrame("R")
  /\ Goto("R", "AwaitAck")
  /\ Consume("R", Rest("R"))
  /\ Transmit("R", <<"SynAck", MyAck("R")>>)
  /\ UNCHANGED <<id, peer, pc, broken>>

\* The initiator verified the responder, and sends its own Ack last.
InitiatorSynAck ==
  /\ Polls("I") /\ step["I"] = "AwaitSynAck"
  /\ HasFrame("I")
  /\ \E ack \in Verified("I") : Know("I", ack)
  /\ Goto("I", "Finish")
  /\ Consume("I", Rest("I"))
  /\ Transmit("I", <<"Ack", MyAck("I")>>)
  /\ UNCHANGED <<id, pc, broken>>

\* The responder reads the Ack last and is done with it.
ResponderAck ==
  /\ Polls("R") /\ step["R"] = "AwaitAck"
  /\ HasFrame("R")
  /\ \E ack \in Verified("R") : Know("R", ack)
  /\ Goto("R", "Finish")
  /\ Consume("R", Rest("R"))
  /\ Return("R", "done")
  /\ UNCHANGED <<id, pc, wire, broken>>

\* Another network, or an address that does not verify.
Reject(s) ==
  /\ Polls(s) /\ step[s] \in {"AwaitSynAck", "AwaitAck"}
  /\ HasFrame(s)
  /\ Verified(s) = {}
  /\ Goto(s, "Failed")
  /\ Consume(s, Rest(s))
  /\ Return(s, "none")
  /\ UNCHANGED <<id, peer, pc, wire, broken>>

\* The poll after the last Ack: close the stream and return.
InitiatorDone ==
  /\ Polls("I") /\ step["I"] = "Finish"
  /\ Consume("I", Buffered("I"))
  /\ Return("I", "done")
  /\ UNCHANGED <<id, step, peer, pc, wire, broken>>

\* HsOut::Need: no complete frame yet.
Need(s) ==
  /\ Polls(s)
  /\ \/ step[s] \in {"AwaitSynAck", "AwaitSyn", "AwaitAck"} /\ UNCHANGED step
     \/ s = "R" /\ step[s] = "Start" /\ Goto(s, "AwaitSyn")
  /\ ~HasFrame(s)
  /\ Consume(s, Buffered(s))
  /\ pc' = [pc EXCEPT ![s] = "read"]
  /\ UNCHANGED <<id, peer, wire, result, broken>>

\* A read returns some of the bytes that have arrived.
Read(s) ==
  /\ result[s] = "running" /\ pc[s] = "read"
  /\ \E n \in 1..Len(wire[s]) :
       /\ input' = [input EXCEPT ![s] = SubSeq(wire[s], 1, n)]
       /\ wire' = [wire EXCEPT ![s] = SubSeq(@, n + 1, Len(@))]
  /\ pc' = [pc EXCEPT ![s] = "poll"]
  /\ UNCHANGED <<id, step, peer, buf, result, broken>>

\* End of stream or an error: the peer closed after all it wrote was read, or
\* dropped the stream, or the stream was reset.
ReadEnds(s) ==
  /\ result[s] = "running" /\ pc[s] = "read"
  /\ \/ broken
     \/ result[Peer(s)] = "none"
     \/ result[Peer(s)] = "done" /\ wire[s] = <<>>
  /\ Return(s, "none")
  /\ UNCHANGED <<id, driver, wire, broken>>

\* The connection is lost.
Break ==
  /\ ~broken
  /\ broken' = TRUE
  /\ UNCHANGED <<id, driver, wire, result>>

SideStep(s) == Reject(s) \/ Need(s) \/ Read(s) \/ ReadEnds(s)
Initiate == InitiatorStart \/ InitiatorSynAck \/ InitiatorDone
Respond == ResponderSyn \/ ResponderAck

Next == Initiate \/ Respond \/ Break \/ \E s \in Sides : SideStep(s)

\* Both tasks are polled while they can run; nobody owes a reset.
Fairness ==
  /\ WF_vars(Initiate \/ SideStep("I"))
  /\ WF_vars(Respond \/ SideStep("R"))

Spec == Init /\ [][Next]_vars /\ Fairness

-----------------------------------------------------------------------------
(* Properties *)

\* The states of handshake.rs, and streams made of pieces of frames.
TypeOK ==
  /\ id \in [Sides -> Identities]
  /\ step \in [Sides -> Steps]
  /\ peer \in [Sides -> Sides \cup {Nobody}]
  /\ pc \in [Sides -> {"poll", "read"}]
  /\ result \in [Sides -> {"running", "done", "none"}]
  /\ buf \in [Sides -> Seq(Pieces)]
  /\ input \in [Sides -> Seq(Pieces)]
  /\ wire \in [Sides -> Seq(Pieces)]
  /\ broken \in BOOLEAN

\* Who reports success holds the other side's identity, on the same network
\* and with an address that verifies there; who failed holds none.  (check in
\* handshake.rs: "the network id must match, or the peer is rejected".)
VerifiedPeer ==
  \A s \in Sides :
    IF step[s] = "Finish"
      THEN /\ peer[s] = Peer(s)
           /\ id[Peer(s)].net = id[s].net
           /\ id[Peer(s)].signed = id[s].net
      ELSE peer[s] = Nobody /\ result[s] # "done"

\* A responder that is done has a partner that has verified it and does not
\* report failure.  (The Ack is written before the initiator is done, a flush
\* error after it is ignored in drive_handshake.)
Agreement ==
  result["R"] = "done" =>
    /\ step["I"] = "Finish"
    /\ result["I"] \in {"running", "done"}

\* Nodes of one network with addresses that verify.
Compatible ==
  \A s \in Sides : id[s].net = id["I"].net /\ id[s].signed = id[s].net

\* drive_handshake returns on both sides, however the frames are fragmented,
\* and with success when the nodes are compatible and the stream holds.
BothReturn ==
  /\ <>(\A s \in Sides : result[s] # "running")
  /\ Compatible => <>(broken \/ \A s \in Sides : result[s] = "done")
=============================================================================
