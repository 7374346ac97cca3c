--------------------------- MODULE KeepaliveProofs ---------------------------
(***************************************************************************)
(* Proofs about Keepalive.tla.  The keepalives of a loading client break   *)
(* ProtocolInv, so DatagramProofs.tla does not apply: a nop may replace a  *)
(* message that is still under way.  KeepaliveInv is the invariant that is *)
(* left.  Every call of the driver is first cut into what it does as the   *)
(* sender of one stream and what it does as the receiver of the other;     *)
(* then each stream is looked at alone.                                    *)
(***************************************************************************)
EXTENDS Keepalive, DatagramProofs

-----------------------------------------------------------------------------
\* What a call of end e does to the two streams.

SameSender(s, t) ==
    /\ s.canSend = t.canSend /\ s.sendNext = t.sendNext
    /\ s.sendMessage = t.sendMessage
    /\ s.sendSequence = t.sendSequence /\ s.ackSequence = t.ackSequence

SameReceiver(s, t) ==
    s.receiveSequence = t.receiveSequence /\ s.receiveMessage = t.receiveMessage

NewPackets(e) == net'[Peer(e)] \ net[Peer(e)]

\* If q is data, it is the first fragment of msg under number n.
Carries(q, msg, n) ==
    q.kind = "data" => q.seq = n /\ q.eom = (Len(msg) = 1) /\ q.data = Head(msg)

\* Only e moves, and only packets to e are lost.
OneEnd(e) ==
    /\ sock'[Peer(e)] = sock[Peer(e)]
    /\ net'[e] \subseteq net[e]
    /\ sent'[Peer(e)] = sent[Peer(e)] /\ delivered'[e] = delivered[e]

\* Nothing, or the fragment under way once more;
KeepsSending(e) ==
    /\ SameSender(sock'[e], sock[e]) /\ sent'[e] = sent[e]
    /\ \A q \in NewPackets(e) : q.kind = "data" =>
            /\ ~sock[e].canSend
            /\ Carries(q, sock[e].sendMessage, sock[e].sendSequence - 1)

\* a fragment that waited, under the number already acknowledged;
Strands(e) ==
    /\ sock[e].sendNext
    /\ sock'[e].canSend = sock[e].canSend /\ ~sock'[e].sendNext
    /\ sock'[e].sendMessage = sock[e].sendMessage
    /\ sock'[e].sendSequence = sock[e].sendSequence
    /\ sock'[e].ackSequence = sock[e].ackSequence
    /\ sent'[e] = sent[e]
    /\ \A q \in NewPackets(e) :
            Carries(q, sock[e].sendMessage, sock[e].sendSequence - 1)

\* the next fragment;
SendsNext(e) ==
    /\ sock[e].sendNext
    /\ sock'[e].canSend = sock[e].canSend /\ ~sock'[e].sendNext
    /\ sock'[e].sendMessage = sock[e].sendMessage
    /\ sock'[e].sendSequence = sock[e].sendSequence + 1
    /\ sock'[e].ackSequence = sock[e].ackSequence
    /\ sent'[e] = sent[e]
    /\ \A q \in NewPackets(e) : Carries(q, sock[e].sendMessage, sock[e].sendSequence)

\* the first one of message m;
Sends(e, m) ==
    /\ sock'[e].canSend = FALSE /\ sock'[e].sendNext = sock[e].sendNext
    /\ sock'[e].sendMessage = m
    /\ sock'[e].sendSequence = sock[e].sendSequence + 1
    /\ sock'[e].ackSequence = sock[e].ackSequence
    /\ sent'[e] = Append(sent[e], m)
    /\ \A q \in NewPackets(e) : Carries(q, m, sock[e].sendSequence)

\* or an acknowledgement is counted.
CountsAck(e) ==
    /\ \E p \in net[e] : IsCurrentAck(sock[e], p)
    /\ SameSender(sock'[e], Acknowledged(sock[e])) /\ sent'[e] = sent[e]
    /\ \A q \in NewPackets(e) : q.kind # "data"

AsSender(e) ==
    \/ KeepsSending(e) \/ Strands(e) \/ SendsNext(e) \/ CountsAck(e)
    \/ \E m \in Messages[e] : sock[e].canSend /\ Sends(e, m)

\* Nothing is counted, and what is acknowledged is data with another number;
KeepsReceiving(e) ==
    /\ SameReceiver(sock'[e], sock[e])
    /\ delivered'[Peer(e)] = delivered[Peer(e)]
    /\ \A q \in NewPackets(e) : q.kind = "ack" =>
            \E p \in net[e] : p.kind = "data" /\ p.seq # sock[e].receiveSequence
                              /\ q.seq = p.seq

\* or fragment p is.
CountsData(e, p) ==
    /\ p.kind = "data" /\ p.seq = sock[e].receiveSequence
    /\ sock'[e].receiveSequence = sock[e].receiveSequence + 1
    /\ \A q \in NewPackets(e) : q.kind = "ack" => q.seq = p.seq
    /\ p.eom => /\ sock'[e].receiveMessage = <<>>
                /\ delivered'[Peer(e)] = Append(delivered[Peer(e)],
                                                Append(sock[e].receiveMessage, p.data))
    /\ ~p.eom => /\ sock'[e].receiveMessage = Append(sock[e].receiveMessage, p.data)
                 /\ delivered'[Peer(e)] = delivered[Peer(e)]

AsReceiver(e) == KeepsReceiving(e) \/ \E p \in net[e] : CountsData(e, p)

-----------------------------------------------------------------------------
LEMMA DataOfCarries ==
    ASSUME NEW s, NEW n, NEW q, q = DataOf(s, n)
    PROVE  Carries(q, s.sendMessage, n) /\ q.kind = "data"
BY DEF DataOf, Carries

\* A call that ends with Write: s is the socket it leaves, out what it wrote.
LEMMA Written ==
    ASSUME TypeOK, NEW e \in Ends, NEW s \in QSocket, NEW out \in SUBSET Packet,
           Write(e, s, out)
    PROVE  /\ sock'[e] = s /\ sock'[Peer(e)] = sock[Peer(e)] /\ net'[e] = net[e]
           /\ NewPackets(e) \subseteq out
<1>1. /\ sock'[e] = s /\ sock'[Peer(e)] = sock[Peer(e)]
      /\ net'[Peer(e)] = net[Peer(e)] \cup out /\ net'[e] = net[e]
  BY WriteFacts
<1> QED BY <1>1 DEF NewPackets

\* A call that ends with FlushSendNext, and changed only what it received.
LEMMA Flushed ==
    ASSUME TypeOK, NEW e \in Ends, FragmentReady(e), NEW s \in QSocket,
           SameSender(s, sock[e]), NEW out \in SUBSET Packet,
           \A q \in out : q.kind = "ack", FlushSendNext(e, s, out), sent'[e] = sent[e]
    PROVE  /\ sock'[Peer(e)] = sock[Peer(e)] /\ net'[e] = net[e]
           /\ SameReceiver(sock'[e], s)
           /\ KeepsSending(e) \/ SendsNext(e)
           /\ \A q \in NewPackets(e) : q.kind = "ack" => q \in out
<1>1. s.sendNext = sock[e].sendNext /\ s.sendMessage = sock[e].sendMessage
      /\ s.sendSequence = sock[e].sendSequence
  BY DEF SameSender
<1>2. s.sendNext => s.sendMessage # <<>>
  BY <1>1 DEF FragmentReady
<1>3. sock'[Peer(e)] = sock[Peer(e)] /\ net'[e] = net[e]
  BY <1>2, FlushFacts
<1>4. CASE ~s.sendNext
  <2>1. sock'[e] = s /\ net'[Peer(e)] = net[Peer(e)] \cup out
    BY <1>2, <1>4, FlushFacts
  <2>2. \A q \in NewPackets(e) : q \in out /\ q.kind = "ack"
    BY <2>1 DEF NewPackets
  <2>3. KeepsSending(e)
    BY <1>1, <1>4, <2>1, <2>2 DEF KeepsSending, SameSender
  <2> QED BY <1>3, <2>1, <2>2, <2>3 DEF SameReceiver
<1>5. CASE s.sendNext
  <2> DEFINE d == DataOf(s, s.sendSequence)
  <2>1. /\ sock'[e] = SendMessageNext(s)
        /\ net'[Peer(e)] = net[Peer(e)] \cup out \cup {d}
    BY <1>2, <1>5, FlushFacts
  <2>2. Carries(d, sock[e].sendMessage, sock[e].sendSequence) /\ d.kind = "data"
    BY <1>1, DataOfCarries
  <2> HIDE DEF d
  <2>3. /\ sock'[e].canSend = s.canSend /\ ~sock'[e].sendNext
        /\ sock'[e].sendMessage = s.sendMessage
        /\ sock'[e].sendSequence = s.sendSequence + 1
        /\ sock'[e].ackSequence = s.ackSequence
        /\ SameReceiver(sock'[e], s)
    BY <2>1 DEF SendMessageNext, QSocket, SameReceiver
  <2>4. ASSUME NEW q \in NewPackets(e)
        PROVE  Carries(q, sock[e].sendMessage, sock[e].sendSequence)
               /\ (q.kind = "ack" => q \in out)
    <3>1. q \in out \/ q = d
      BY <2>1 DEF NewPackets
    <3> QED BY <3>1, <2>2 DEF Carries
  <2>5. SendsNext(e)
    BY <1>1, <1>5, <2>3, <2>4 DEF SendsNext, SameSender
  <2> QED BY <1>3, <2>3, <2>4, <2>5
<1> QED BY <1>4, <1>5

\* A call that changes no socket and writes nothing.
LEMMA Quiet ==
    ASSUME TypeOK, NEW e \in Ends, sock' = sock, sent' = sent, delivered' = delivered,
           \A d \in Ends : net'[d] \subseteq net[d]
    PROVE  OneEnd(e) /\ AsSender(e) /\ AsReceiver(e)
<1>1. NewPackets(e) = {}
  BY PeerFacts DEF NewPackets
<1>2. OneEnd(e) /\ KeepsSending(e) /\ KeepsReceiving(e)
  BY <1>1 DEF OneEnd, KeepsSending, KeepsReceiving, SameSender, SameReceiver
<1> QED BY <1>2 DEF AsSender, AsReceiver

\* Datagram_SendMessage, whether the stream is ready for it or not.
LEMMA SendEffect ==
    ASSUME TypeOK, NEW e \in Ends, NEW m \in Messages[e], Datagram_SendMessage(e, m)
    PROVE  /\ OneEnd(e) /\ Sends(e, m) /\ KeepsReceiving(e)
           /\ pc' \in [Ends -> {"idle", "reading", "closed"}] => TypeOK'
<1> DEFINE s == [sock[e] EXCEPT !.sendMessage = m, !.sendSequence = @ + 1,
                                !.canSend = FALSE]
           d == DataOf(s, sock[e].sendSequence)
           out == {d}
<1>1. /\ m \in Seq(Fragments) /\ m # <<>> /\ sock[e] \in QSocket
      /\ Peer(e) \in Ends /\ Peer(e) # e
      /\ sent \in [Ends -> Seq(Seq(Fragments))]
  BY MessagesAssumption, PeerFacts DEF TypeOK
<1>2. s \in QSocket
  BY <1>1, SenderTypes
<1>3. /\ s.canSend = FALSE /\ s.sendNext = sock[e].sendNext /\ s.sendMessage = m
      /\ s.sendSequence = sock[e].sendSequence + 1
      /\ s.ackSequence = sock[e].ackSequence /\ SameReceiver(s, sock[e])
      /\ sock[e].sendSequence \in Nat
  BY <1>1 DEF QSocket, SameReceiver
<1>4. /\ Write(e, s, out) /\ sent' = [sent EXCEPT ![e] = Append(@, m)]
      /\ delivered' = delivered /\ datagrams' = datagrams
  BY DEF Datagram_SendMessage
<1> HIDE DEF s
<1>5. d \in Packet /\ Carries(d, m, sock[e].sendSequence) /\ d.kind = "data"
  BY <1>1, <1>2, <1>3, DataOfType, DataOfCarries DEF Packet
<1> HIDE DEF d
<1>6. out \in SUBSET Packet /\ \A q \in out : Carries(q, m, sock[e].sendSequence)
                                             /\ q.kind = "data"
  BY <1>5
<1> HIDE DEF out
<1>7. /\ sock'[e] = s /\ sock'[Peer(e)] = sock[Peer(e)] /\ net'[e] = net[e]
      /\ NewPackets(e) \subseteq out
  BY <1>2, <1>4, <1>6, Written
<1>8. sent'[e] = Append(sent[e], m) /\ sent'[Peer(e)] = sent[Peer(e)]
  BY <1>1, <1>4
<1>9. OneEnd(e)
  BY <1>4, <1>7, <1>8 DEF OneEnd
<1>10. Sends(e, m)
  BY <1>3, <1>6, <1>7, <1>8 DEF Sends
<1>11. KeepsReceiving(e)
  BY <1>3, <1>4, <1>6, <1>7 DEF KeepsReceiving
<1>12. ASSUME pc' \in [Ends -> {"idle", "reading", "closed"}] PROVE TypeOK'
  <2>1. /\ sock' \in [Ends -> QSocket] /\ overdue' \in [Ends -> BOOLEAN]
        /\ net' \in [Ends -> SUBSET Packet]
    BY <1>2, <1>4, <1>6, WriteFacts
  <2>2. sent' \in [Ends -> Seq(Seq(Fragments))]
    BY <1>1, <1>4, AppendProperties
  <2> QED BY <1>4, <1>12, <2>1, <2>2 DEF TypeOK
<1> QED BY <1>9, <1>10, <1>11, <1>12

\* Every call of the driver is a step of e as the sender of its stream, and as the
\* receiver of the other one.
LEMMA Effects ==
    ASSUME TypeOK, NEW e \in Ends, FragmentReady(e), EndStep(e)
    PROVE  OneEnd(e) /\ AsSender(e) /\ AsReceiver(e)
<1>1. /\ sock[e] \in QSocket /\ Peer(e) \in Ends /\ Peer(e) # e
      /\ pc \in [Ends -> {"idle", "reading", "closed"}]
      /\ delivered \in [Ends -> Seq(Seq(Fragments))]
      /\ net \in [Ends -> SUBSET Packet]
  BY PeerFacts DEF TypeOK
<1>2. ~sock[e].canSend =>
            sock[e].sendMessage # <<>> /\ sock[e].sendSequence - 1 \in Nat
  BY DEF FragmentReady
<1> DEFINE Result == OneEnd(e) /\ AsSender(e) /\ AsReceiver(e)
           Others == sent' = sent
\* The calls that end with FlushSendNext and read no data, which change no field
\* of the reliable half before.
<1>3. ASSUME NEW s \in QSocket, SameSender(s, sock[e]), SameReceiver(s, sock[e]),
             FlushSendNext(e, s, {}), Others, delivered' = delivered
      PROVE  Result
  <2> DEFINE none == {}
  <2>1. none \in SUBSET Packet /\ FlushSendNext(e, s, none) /\ none = {}
    BY <1>3
  <2> HIDE DEF none
  <2>2. /\ sock'[Peer(e)] = sock[Peer(e)] /\ net'[e] = net[e]
        /\ SameReceiver(sock'[e], s)
        /\ KeepsSending(e) \/ SendsNext(e)
        /\ \A q \in NewPackets(e) : q.kind = "ack" => q \in none
    BY <1>3, <2>1, Flushed
  <2>3. OneEnd(e)
    BY <1>3, <2>2 DEF OneEnd
  <2>4. KeepsReceiving(e)
    BY <1>3, <2>1, <2>2 DEF KeepsReceiving, SameReceiver
  <2> QED BY <2>2, <2>3, <2>4 DEF AsSender, AsReceiver
<1>4. SameSender(sock[e], sock[e]) /\ SameReceiver(sock[e], sock[e])
  BY DEF SameSender, SameReceiver
<1>5. ASSUME FlushSendNext(e, sock[e], {}), Others, delivered' = delivered
      PROVE  Result
  BY <1>1, <1>3, <1>4, <1>5
<1>6. ASSUME sock' = sock, Others, delivered' = delivered,
             \A d \in Ends : net'[d] \subseteq net[d]
      PROVE  Result
  BY <1>6, Quiet
\* The calls that write no data and change no field of the sender.
<1>7. ASSUME NEW s \in QSocket, SameSender(s, sock[e]), NEW out \in SUBSET Packet,
             \A q \in out : q.kind # "data", Write(e, s, out), Others,
             delivered'[e] = delivered[e]
      PROVE  OneEnd(e) /\ AsSender(e) /\ sock'[e] = s /\ NewPackets(e) \subseteq out
  <2>1. /\ sock'[e] = s /\ sock'[Peer(e)] = sock[Peer(e)] /\ net'[e] = net[e]
        /\ NewPackets(e) \subseteq out
    BY <1>7, Written
  <2>2. OneEnd(e)
    BY <1>7, <2>1 DEF OneEnd
  <2>3. KeepsSending(e)
    BY <1>7, <2>1 DEF KeepsSending
  <2> QED BY <2>1, <2>2, <2>3 DEF AsSender
<1> SUFFICES Result
  OBVIOUS
<1> HIDE DEF Result
<1>8. ASSUME NEW m \in Messages[e], SendMessage(e, m) PROVE Result
  <2>1. Datagram_SendMessage(e, m) /\ pc' = pc /\ sock[e].canSend
    BY <1>8 DEF SendMessage
  <2>2. OneEnd(e) /\ Sends(e, m) /\ KeepsReceiving(e)
    BY <2>1, SendEffect
  <2> QED BY <2>1, <2>2 DEF Result, AsSender, AsReceiver
<1>9. CASE Datagram_CanSendMessage(e)
  BY <1>1, <1>5, <1>9 DEF Datagram_CanSendMessage
<1>10. CASE Datagram_SendUnreliableMessage(e)
  <2> DEFINE s == [sock[e] EXCEPT !.unreliableSendSequence = @ + 1]
             out == {[kind |-> "unreliable", seq |-> sock[e].unreliableSendSequence]}
  <2>1. s \in QSocket
    BY <1>1, EmptySeq, SenderTypes
  <2>2. SameSender(s, sock[e]) /\ SameReceiver(s, sock[e])
    BY <1>1 DEF SameSender, SameReceiver, QSocket
  <2>3. out \in SUBSET Packet /\ \A q \in out : q.kind = "unreliable"
    BY <1>1 DEF Packet, UnreliablePacket, QSocket
  <2>4. Write(e, s, out) /\ pc' = pc /\ sent' = sent /\ delivered' = delivered
    BY <1>10 DEF Datagram_SendUnreliableMessage
  <2> HIDE DEF s, out
  <2>5. \A q \in out : q.kind # "data"
    BY <2>3
  <2>6. OneEnd(e) /\ AsSender(e) /\ sock'[e] = s /\ NewPackets(e) \subseteq out
    BY <1>7, <2>1, <2>2, <2>3, <2>4, <2>5
  <2>7. KeepsReceiving(e)
    BY <2>2, <2>3, <2>4, <2>6 DEF KeepsReceiving
  <2> QED BY <2>6, <2>7 DEF Result, AsReceiver
<1>11. CASE TimerExpires(e)
  BY <1>6, <1>11 DEF TimerExpires
<1>12. CASE GetMessage(e)
  <2>1. sent' = sent /\ delivered' = delivered
    BY <1>12 DEF GetMessage
  <2>2. CASE ReSendMessage(e)
    <3> DEFINE s == [sock[e] EXCEPT !.sendNext = FALSE]
               d == DataOf(sock[e], sock[e].sendSequence - 1)
               out == {d}
    <3>1. ~sock[e].canSend /\ s \in QSocket
      BY <1>1, <2>2, EmptySeq, SenderTypes DEF ReSendMessage
    <3>2. /\ s.canSend = sock[e].canSend /\ s.sendNext = FALSE
          /\ s.sendMessage = sock[e].sendMessage
          /\ s.sendSequence = sock[e].sendSequence
          /\ s.ackSequence = sock[e].ackSequence
          /\ SameReceiver(s, sock[e]) /\ sock[e].sendNext \in BOOLEAN
      BY <1>1 DEF QSocket, SameReceiver
    <3>3. d \in Packet
      BY <1>1, <1>2, <3>1, DataOfType DEF Packet
    <3>4. Carries(d, sock[e].sendMessage, sock[e].sendSequence - 1) /\ d.kind = "data"
      BY DataOfCarries
    <3>5. Write(e, s, out)
      BY <2>2 DEF ReSendMessage
    <3> HIDE DEF d, s
    <3>6. out \in SUBSET Packet /\ \A q \in out : q = d
      BY <3>3
    <3> HIDE DEF out
    <3>7. /\ sock'[e] = s /\ sock'[Peer(e)] = sock[Peer(e)] /\ net'[e] = net[e]
          /\ NewPackets(e) \subseteq out
      BY <3>1, <3>5, <3>6, Written
    <3>8. OneEnd(e)
      BY <2>1, <3>7 DEF OneEnd
    <3>9. ASSUME ~sock[e].sendNext PROVE KeepsSending(e)
      <4>1. s.sendNext = sock[e].sendNext
        BY <3>2, <3>9
      <4> QED BY <2>1, <3>1, <3>2, <3>4, <3>6, <3>7, <4>1 DEF KeepsSending, SameSender
    <3>10. ASSUME sock[e].sendNext PROVE Strands(e)
      BY <2>1, <3>2, <3>4, <3>6, <3>7, <3>10 DEF Strands
    <3>11. KeepsReceiving(e)
      BY <2>1, <3>2, <3>4, <3>6, <3>7 DEF KeepsReceiving
    <3> QED BY <3>8, <3>9, <3>10, <3>11 DEF Result, AsSender, AsReceiver
  <2>3. CASE UNCHANGED <<sock, net, overdue>>
    BY <1>6, <2>1, <2>3
  <2> QED BY <1>12, <2>2, <2>3 DEF GetMessage
<1>13. ASSUME NEW p \in net[e], ReadStaleUnreliable(e, p) PROVE Result
  BY <1>1, <1>5, <1>13 DEF ReadStaleUnreliable
<1>14. ASSUME NEW p \in net[e], ReadUnreliable(e, p) PROVE Result
  <2> DEFINE s == [sock[e] EXCEPT !.unreliableReceiveSequence = p.seq + 1]
  <2>1. p.seq \in Nat
    BY <1>1, PacketTypes
  <2>2. s \in QSocket
    BY <1>1, <2>1, EmptySeq, SenderTypes
  <2>3. SameSender(s, sock[e]) /\ SameReceiver(s, sock[e])
    BY <1>1 DEF SameSender, SameReceiver, QSocket
  <2>4. FlushSendNext(e, s, {})
    BY <1>14 DEF ReadUnreliable
  <2> HIDE DEF s
  <2> QED BY <1>1, <1>3, <1>14, <2>2, <2>3, <2>4 DEF ReadUnreliable
<1>15. ASSUME NEW p \in net[e], pc[e] = "reading", ReadAck(e, p) PROVE Result
  <2> DEFINE s == Acknowledged(sock[e])
             none == {}
  <2>1. s \in QSocket
    BY <1>1, AcknowledgedType
  <2>2. SameReceiver(s, sock[e])
    BY <1>1 DEF Acknowledged, QSocket, SameReceiver
  <2>3. none \in SUBSET Packet /\ Write(e, s, none) /\ none = {}
    BY <1>15 DEF ReadAck
  <2>4. pc' = pc /\ sent' = sent /\ delivered' = delivered /\ IsCurrentAck(sock[e], p)
    BY <1>15 DEF ReadAck
  <2> HIDE DEF s, none
  <2>5. /\ sock'[e] = s /\ sock'[Peer(e)] = sock[Peer(e)] /\ net'[e] = net[e]
        /\ NewPackets(e) \subseteq none
    BY <2>1, <2>3, Written
  <2>6. OneEnd(e)
    BY <2>4, <2>5 DEF OneEnd
  <2>7. CountsAck(e)
    BY <1>15, <2>3, <2>4, <2>5 DEF CountsAck, SameSender, s
  <2>8. KeepsReceiving(e)
    BY <2>2, <2>3, <2>4, <2>5 DEF KeepsReceiving
  <2> QED BY <2>6, <2>7, <2>8 DEF Result, AsSender, AsReceiver
<1>16. ASSUME NEW p \in net[e], SkipAck(e, p) PROVE Result
  BY <1>6, <1>16 DEF SkipAck, vars
<1>17. ASSUME NEW p \in net[e], p.kind = "data"
       PROVE  /\ p.seq \in Nat /\ p.data \in Fragments /\ {AckOf(p.seq)} \in SUBSET Packet
              /\ \A q \in {AckOf(p.seq)} : q.kind = "ack" /\ q.seq = p.seq
  BY <1>1, <1>17, PacketTypes DEF AckOf
<1>18. ASSUME NEW p \in net[e], ReadDuplicateData(e, p) PROVE Result
  <2> DEFINE out == {AckOf(p.seq)}
  <2>1. /\ p.kind = "data" /\ p.seq # sock[e].receiveSequence /\ Write(e, sock[e], out)
        /\ pc' = pc /\ sent' = sent /\ delivered' = delivered
    BY <1>18 DEF ReadDuplicateData
  <2>2. out \in SUBSET Packet /\ \A q \in out : q.kind = "ack" /\ q.seq = p.seq
    BY <1>17, <2>1
  <2> HIDE DEF out
  <2>3. \A q \in out : q.kind # "data"
    BY <2>2
  <2>4. OneEnd(e) /\ AsSender(e) /\ sock'[e] = sock[e] /\ NewPackets(e) \subseteq out
    BY <1>1, <1>4, <1>7, <2>1, <2>2, <2>3
  <2>5. KeepsReceiving(e)
    BY <1>4, <2>1, <2>2, <2>4 DEF KeepsReceiving
  <2> QED BY <2>4, <2>5 DEF Result, AsReceiver
<1>19. ASSUME NEW p \in net[e], ReadFragment(e, p) PROVE Result
  <2> DEFINE out == {AckOf(p.seq)}
             s == [sock[e] EXCEPT !.receiveSequence = @ + 1,
                                  !.receiveMessage = Append(@, p.data)]
  <2>1. /\ p.kind = "data" /\ p.seq = sock[e].receiveSequence /\ ~p.eom
        /\ Write(e, s, out) /\ pc' = pc /\ sent' = sent /\ delivered' = delivered
    BY <1>19 DEF ReadFragment
  <2>2. out \in SUBSET Packet /\ (\A q \in out : q.kind = "ack" /\ q.seq = p.seq)
        /\ p.data \in Fragments
    BY <1>17, <2>1
  <2>3. s \in QSocket
    BY <1>1, <2>2, ReceiverTypes
  <2>4. /\ SameSender(s, sock[e]) /\ s.receiveSequence = sock[e].receiveSequence + 1
        /\ s.receiveMessage = Append(sock[e].receiveMessage, p.data)
    BY <1>1 DEF SameSender, QSocket
  <2> HIDE DEF out, s
  <2>5. \A q \in out : q.kind # "data"
    BY <2>2
  <2>6. OneEnd(e) /\ AsSender(e) /\ sock'[e] = s /\ NewPackets(e) \subseteq out
    BY <1>7, <2>1, <2>2, <2>3, <2>4, <2>5
  <2>7. CountsData(e, p)
    BY <2>1, <2>2, <2>4, <2>6 DEF CountsData
  <2> QED BY <2>6, <2>7 DEF Result, AsReceiver
<1>20. ASSUME NEW p \in net[e], ReadLastFragment(e, p) PROVE Result
  <2> DEFINE out == {AckOf(p.seq)}
             s == [sock[e] EXCEPT !.receiveSequence = @ + 1, !.receiveMessage = <<>>]
  <2>1. /\ p.kind = "data" /\ p.seq = sock[e].receiveSequence /\ p.eom
        /\ FlushSendNext(e, s, out) /\ sent' = sent
        /\ delivered' = [delivered EXCEPT
                ![Peer(e)] = Append(@, Append(sock[e].receiveMessage, p.data))]
        /\ pc' = [pc EXCEPT ![e] = "idle"]
    BY <1>20 DEF ReadLastFragment
  <2>2. out \in SUBSET Packet /\ (\A q \in out : q.kind = "ack" /\ q.seq = p.seq)
        /\ p.data \in Fragments
    BY <1>17, <2>1
  <2>3. s \in QSocket
    BY <1>1, <2>2, ReceiverTypes
  <2>4. /\ SameSender(s, sock[e]) /\ s.receiveSequence = sock[e].receiveSequence + 1
        /\ s.receiveMessage = <<>>
    BY <1>1 DEF SameSender, QSocket
  <2> HIDE DEF out, s
  <2>5. /\ sock'[Peer(e)] = sock[Peer(e)] /\ net'[e] = net[e]
        /\ SameReceiver(sock'[e], s)
        /\ KeepsSending(e) \/ SendsNext(e)
        /\ \A q \in NewPackets(e) : q.kind = "ack" => q \in out
    BY <2>1, <2>2, <2>3, <2>4, Flushed
  <2>6. OneEnd(e)
    BY <1>1, <2>1, <2>5 DEF OneEnd
  <2>7. CountsData(e, p)
    BY <1>1, <2>1, <2>2, <2>4, <2>5 DEF CountsData, SameReceiver
  <2> QED BY <2>5, <2>6, <2>7 DEF Result, AsSender, AsReceiver
<1>21. CASE ReadNothing(e)
  BY <1>1, <1>5, <1>21 DEF ReadNothing
<1>22. CASE ReadError(e)
  BY <1>1, <1>6, <1>22 DEF ReadError
<1>23. CASE Lose(e)
  <2>1. \A d \in Ends : net'[d] \subseteq net[d]
    BY <1>1, <1>23 DEF Lose
  <2> QED BY <1>6, <1>23, <2>1 DEF Lose
<1>24. CASE Close(e)
  BY <1>1, <1>6, <1>24 DEF Close
<1>25. CASE Read(e)
  BY <1>13, <1>14, <1>15, <1>16, <1>18, <1>19, <1>20, <1>21, <1>22, <1>25
     DEF Read, ReadPacket
<1> QED BY <1>8, <1>9, <1>10, <1>11, <1>12, <1>23, <1>24, <1>25 DEF EndStep

-----------------------------------------------------------------------------
LEMMA TwoEnds ==
    /\ Client \in Ends /\ Server \in Ends /\ Server # Client
    /\ Peer(Client) = Server /\ Peer(Server) = Client /\ Ends = {Client, Server}
BY ClientAssumption, PeerFacts DEF Server

LEMMA SocketTypes ==
    ASSUME TypeOK, NEW e \in Ends
    PROVE  /\ sock[e] \in QSocket
           /\ sock[e].sendSequence \in Nat /\ sock[e].ackSequence \in Nat
           /\ sock[e].receiveSequence \in Nat
           /\ sock[e].sendMessage \in Seq(Fragments)
           /\ sock[e].receiveMessage \in Seq(Fragments)
           /\ sock[e].canSend \in BOOLEAN /\ sock[e].sendNext \in BOOLEAN
           /\ sent[e] \in Seq(Seq(Fragments)) /\ delivered[e] \in Seq(Seq(Fragments))
           /\ net[e] \in SUBSET Packet
BY DEF TypeOK, QSocket

\* The packets of a sender stay as FromSender says when its counter does not go
\* back, and the fragment under way changes only with its number.
LEMMA DataKept ==
    ASSUME TypeOK, TypeOK', NEW e \in Ends,
           \A p \in net[Peer(e)] : p.kind = "data" => FromSender(e, p),
           \A q \in NewPackets(e) : q.kind = "data" => FromSender(e, q)',
           sock'[e].sendSequence >= sock[e].sendSequence,
           sock'[e].sendSequence = sock[e].sendSequence /\ Sending(e)'
             => Sending(e) /\ sock'[e].sendMessage = sock[e].sendMessage
    PROVE  \A p \in net'[Peer(e)] : p.kind = "data" => FromSender(e, p)'
<1>1. SUFFICES ASSUME NEW p \in net[Peer(e)], p.kind = "data" PROVE FromSender(e, p)'
  BY DEF NewPackets
<1>2. p.seq \in Nat
  BY <1>1, PeerFacts, PacketTypes DEF TypeOK
<1>3. sock[e].sendSequence \in Nat /\ sock'[e].sendSequence \in Nat
  BY DEF TypeOK, QSocket
<1>4. p.seq < sock[e].sendSequence /\ FromSender(e, p)
  BY <1>1 DEF FromSender
<1>5. p.seq < sock'[e].sendSequence
  BY <1>2, <1>3, <1>4
<1>6. ASSUME Sending(e)', p.seq + 1 = sock'[e].sendSequence
      PROVE  /\ Sending(e) /\ p.seq + 1 = sock[e].sendSequence
             /\ sock'[e].sendMessage = sock[e].sendMessage
  <2>1. sock'[e].sendSequence = sock[e].sendSequence
    BY <1>2, <1>3, <1>4, <1>6
  <2> QED BY <1>6, <2>1
<1> QED BY <1>1, <1>4, <1>5, <1>6 DEF FromSender

\* The packet of the last number carries what the sender keeps.
LEMMA CarriedData ==
    ASSUME NEW e \in Ends, NEW q, q.kind = "data", NEW n \in Nat,
           Carries(q, sock'[e].sendMessage, n), sock'[e].sendSequence = n + 1
    PROVE  FromSender(e, q)'
<1>1. q.seq = n /\ q.eom = (Len(sock'[e].sendMessage) = 1)
      /\ q.data = Head(sock'[e].sendMessage)
  BY DEF Carries
<1>2. n < n + 1
  OBVIOUS
<1> QED BY <1>1, <1>2 DEF FromSender

-----------------------------------------------------------------------------
(***************************************************************************)
(* The stream to the client.  Its sender asks before it sends, so it goes  *)
(* through the phases of Datagram.tla.                                     *)
(***************************************************************************)

\* A data packet in transit to the client, as in DatagramProofs!DataRead.
LEMMA ServerData ==
    ASSUME TypeOK, ServerStream, NEW p \in net[Client], p.kind = "data"
    PROVE  /\ p.seq \in Nat
           /\ p.seq # sock[Client].receiveSequence => p.seq < sock[Client].receiveSequence
           /\ p.seq = sock[Client].receiveSequence =>
                /\ Unread(Server)
                /\ p.eom = (Len(sock[Server].sendMessage) = 1)
                /\ p.data = Head(sock[Server].sendMessage)
<1>1. p.seq \in Nat
  BY TwoEnds, PacketTypes DEF TypeOK
<1>2. /\ sock[Server].sendSequence \in Nat /\ sock[Server].ackSequence \in Nat
      /\ sock[Client].receiveSequence \in Nat
  BY TwoEnds, SocketTypes
<1>3. FromSender(Server, p) /\ p.seq < sock[Server].sendSequence
  BY DEF ServerStream, FromSender
<1>4. \/ sock[Client].receiveSequence = sock[Server].sendSequence
      \/ /\ Unread(Server) /\ Sending(Server)
         /\ sock[Client].receiveSequence + 1 = sock[Server].sendSequence
  BY <1>2, TwoEnds
     DEF ServerStream, Phase, Resting, Unread, Unacknowledged, Pausing, Stranded, Sending
<1>5. p.seq # sock[Client].receiveSequence => p.seq < sock[Client].receiveSequence
  BY <1>1, <1>2, <1>3, <1>4
<1>6. ASSUME p.seq = sock[Client].receiveSequence
      PROVE  Unread(Server) /\ Sending(Server) /\ p.seq + 1 = sock[Server].sendSequence
  BY <1>1, <1>2, <1>3, <1>4, <1>6
<1> QED BY <1>1, <1>3, <1>5, <1>6 DEF FromSender

\* The server's next fragment, and a new message of the server.
LEMMA ServerSendsNext ==
    ASSUME TypeOK, ServerStream, OneEnd(Server), SendsNext(Server)
    PROVE  Phase(Server)'
<1>1. Pausing(Server) /\ sock[Server].sendSequence \in Nat
  BY TwoEnds, SocketTypes
     DEF ServerStream, SendsNext, Phase, Resting, Unread, Unacknowledged, Pausing,
         Stranded, Sending
<1>2. Unread(Server)'
  BY <1>1, TwoEnds DEF OneEnd, SendsNext, Pausing, Unread, Sending, UnderWay
<1> QED BY <1>2 DEF Phase

\* A sender that waits for something has sent something.
LEMMA ServerSent ==
    ASSUME TypeOK, ServerStream, ~sock[Server].canSend
    PROVE  sock[Server].sendMessage # <<>> /\ sock[Server].sendSequence > 0
<1>1. sock[Server].sendSequence \in Nat /\ sock[Server].ackSequence \in Nat
  BY TwoEnds, SocketTypes
<1> QED BY <1>1 DEF ServerStream, Phase, Resting, Unread, Unacknowledged, Pausing,
                    Stranded, Sending

\* The repeat after a read error: the waiting fragment is lost to the stream.
LEMMA ServerStrands ==
    ASSUME TypeOK, ServerStream, OneEnd(Server), Strands(Server)
    PROVE  Phase(Server)' /\ ~Sending(Server)' /\ sock[Server].sendSequence > 0
<1>1. /\ sock[Server].sendSequence \in Nat
      /\ Pausing(Server)
  BY TwoEnds, SocketTypes
     DEF ServerStream, Strands, Phase, Resting, Unread, Unacknowledged, Pausing,
         Stranded, Sending
<1>2. Stranded(Server)'
  BY <1>1, TwoEnds DEF OneEnd, Strands, Pausing, Stranded, UnderWay
<1>3. /\ sock'[Server].sendSequence = sock'[Server].ackSequence
      /\ sock'[Server].sendSequence \in Nat /\ sock[Server].sendSequence > 0
  BY <1>1 DEF Strands, Pausing
<1> QED BY <1>2, <1>3 DEF Phase, Sending

LEMMA ServerSends ==
    ASSUME TypeOK, ServerStream, OneEnd(Server), NEW m \in Messages[Server],
           sock[Server].canSend, Sends(Server, m)
    PROVE  Phase(Server)'
<1>1. m \in Seq(Fragments) /\ m # <<>>
  BY MessagesAssumption, TwoEnds
<1>2. Resting(Server)
  BY DEF ServerStream, Phase, Resting, Unread, Unacknowledged, Pausing, Stranded, Sending
<1>3. sock[Client].receiveMessage = <<>> /\ <<>> \o m = m
  BY <1>1, <1>2, TwoEnds, ConcatEmptySeq DEF Resting
<1>4. Sending(Server)'
  BY <1>1, <1>2 DEF Sends, Resting, Sending
<1>5. sock'[Client].receiveSequence = sock'[Server].ackSequence
  BY <1>2, TwoEnds DEF OneEnd, Sends, Resting
<1>6. /\ sent'[Server] = Append(delivered'[Server], m)
      /\ sock'[Client].receiveMessage \o sock'[Server].sendMessage = m
  BY ZenonT(60), <1>2, <1>3, TwoEnds DEF OneEnd, Sends, Resting
<1>7. Unread(Server)'
  BY <1>4, <1>5, <1>6, TwoEnds DEF Unread, UnderWay
<1> QED BY <1>7 DEF Phase

\* An acknowledgement the server counts is that of a fragment the client counted.
LEMMA ServerCountsAck ==
    ASSUME TypeOK, ServerStream, OneEnd(Server), CountsAck(Server)
    PROVE  Phase(Server)' /\ ~Sending(Server)'
           /\ sock'[Server].sendSequence = sock[Server].sendSequence
<1>1. PICK p \in net[Server] : IsCurrentAck(sock[Server], p)
  BY DEF CountsAck
<1>2. /\ sock[Server] \in QSocket
      /\ sock[Server].sendSequence \in Nat /\ sock[Server].ackSequence \in Nat
      /\ sock[Client].receiveSequence \in Nat /\ p.seq \in Nat
      /\ sock[Server].sendMessage \in Seq(Fragments)
  <2>1. p.seq \in Nat
    BY <1>1, TwoEnds, PacketTypes DEF TypeOK
  <2> QED BY <2>1, TwoEnds, SocketTypes
<1>3. p.kind = "ack" /\ p.seq = sock[Server].sendSequence - 1
      /\ p.seq = sock[Server].ackSequence /\ p.seq < sock[Client].receiveSequence
  BY <1>1 DEF IsCurrentAck, ServerStream
<1>4. Unacknowledged(Server)
  BY <1>2, <1>3, TwoEnds
     DEF ServerStream, Phase, Resting, Unread, Pausing, Stranded
<1>5. /\ sock[Server].sendMessage # <<>> /\ ~sock[Server].canSend
      /\ ~sock[Server].sendNext
      /\ sock[Server].sendSequence = sock[Server].ackSequence + 1
      /\ sock[Client].receiveSequence = sock[Server].sendSequence
  BY <1>4, TwoEnds DEF Unacknowledged, Sending
<1> DEFINE left == Tail(sock[Server].sendMessage)
           after == Acknowledged(sock[Server])
<1>6. /\ after.ackSequence = sock[Server].ackSequence + 1
      /\ after.sendSequence = sock[Server].sendSequence
      /\ after.sendMessage = left
      /\ after.sendNext <=> left # <<>>
      /\ after.canSend <=> left = <<>>
  BY <1>2, <1>5 DEF Acknowledged, QSocket
<1>7. SameSender(sock'[Server], after) /\ sent'[Server] = sent[Server]
  BY DEF CountsAck
<1>8. sock'[Client] = sock[Client] /\ delivered'[Server] = delivered[Server]
  BY TwoEnds DEF OneEnd
<1>9. Len(sock[Server].sendMessage) = 1 <=> left = <<>>
  BY <1>2, <1>5, MoveHead
<1>10. ASSUME left # <<>> PROVE UnderWay(Server, left)
  BY <1>4, <1>9, <1>10 DEF Unacknowledged
<1>11. left = <<>> => sock[Client].receiveMessage = <<>>
                      /\ delivered[Server] = sent[Server]
  BY <1>4, <1>9, TwoEnds DEF Unacknowledged
<1> HIDE DEF left, after
<1>12. /\ sock'[Server].ackSequence = sock[Server].ackSequence + 1
       /\ sock'[Server].sendSequence = sock[Server].sendSequence
       /\ sock'[Server].sendMessage = left
       /\ sock'[Server].sendNext <=> left # <<>>
       /\ sock'[Server].canSend <=> left = <<>>
  BY <1>6, <1>7 DEF SameSender
<1>13. ASSUME left = <<>> PROVE Resting(Server)'
  BY <1>5, <1>7, <1>8, <1>11, <1>12, <1>13, TwoEnds DEF Resting
<1>14. ASSUME left # <<>> PROVE Pausing(Server)'
  <2>1. sock'[Server].sendSequence > 0
    BY <1>2, <1>5, <1>12
  <2> QED BY ZenonT(60), <1>5, <1>7, <1>8, <1>10, <1>12, <1>14, <2>1, TwoEnds
          DEF Pausing, UnderWay
<1>15. ~Sending(Server)'
  BY <1>12 DEF Sending
<1> QED BY <1>12, <1>13, <1>14, <1>15 DEF Phase

\* Whatever the server does, its stream stays in a phase, and its packets stay
\* those of that phase.
LEMMA ServerOwn ==
    ASSUME TypeOK, TypeOK', ServerStream, OneEnd(Server), AsSender(Server)
    PROVE  ServerStream'
<1>1. /\ sock[Server].sendSequence \in Nat /\ sock[Server].ackSequence \in Nat
      /\ sock[Client].receiveSequence \in Nat
  BY TwoEnds, SocketTypes
<1> DEFINE New == \A q \in NewPackets(Server) : q.kind = "data" => FromSender(Server, q)'
           Kept == /\ sock'[Server].sendSequence >= sock[Server].sendSequence
                   /\ sock'[Server].sendSequence = sock[Server].sendSequence
                      /\ Sending(Server)' => Sending(Server)
                            /\ sock'[Server].sendMessage = sock[Server].sendMessage
<1>2. SUFFICES Phase(Server)' /\ New /\ Kept
  <2>1. \A p \in net[Peer(Server)] : p.kind = "data" => FromSender(Server, p)
    BY TwoEnds DEF ServerStream
  <2>2. ASSUME New, Kept
        PROVE  \A p \in net'[Peer(Server)] : p.kind = "data" => FromSender(Server, p)'
    BY <2>1, <2>2, TwoEnds, DataKept
  <2>3. \A p \in net'[Server] : p.kind = "ack" => p.seq < sock'[Client].receiveSequence
    BY TwoEnds DEF OneEnd, ServerStream
  <2> HIDE DEF New, Kept
  <2>4. ASSUME Phase(Server)', New, Kept PROVE ServerStream'
    BY <2>2, <2>3, <2>4, TwoEnds DEF ServerStream
  <2> QED BY <2>4
<1>3. CASE KeepsSending(Server)
  <2>1. /\ SameSender(sock'[Server], sock[Server]) /\ sent'[Server] = sent[Server]
    BY <1>3 DEF KeepsSending
  <2>2. sock'[Client] = sock[Client] /\ delivered'[Server] = delivered[Server]
    BY TwoEnds DEF OneEnd
  <2>3. Phase(Server)'
    BY <1>3, <2>2, PhaseUntouched, TwoEnds DEF KeepsSending, SameSender, ServerStream
  <2>4. ASSUME NEW q \in NewPackets(Server), q.kind = "data" PROVE FromSender(Server, q)'
    <3>1. /\ ~sock[Server].canSend
          /\ Carries(q, sock[Server].sendMessage, sock[Server].sendSequence - 1)
      BY <1>3, <2>4 DEF KeepsSending
    <3>2. sock[Server].sendSequence > 0
      BY <3>1, ServerSent
    <3>3. /\ sock[Server].sendSequence - 1 \in Nat
          /\ sock[Server].sendSequence = (sock[Server].sendSequence - 1) + 1
      BY <1>1, <3>2
    <3>4. /\ sock'[Server].sendMessage = sock[Server].sendMessage
          /\ sock'[Server].sendSequence = sock[Server].sendSequence
      BY <2>1 DEF SameSender
    <3> DEFINE n == sock[Server].sendSequence - 1
    <3>5. /\ n \in Nat /\ sock'[Server].sendSequence = n + 1
          /\ Carries(q, sock'[Server].sendMessage, n)
      BY <3>1, <3>3, <3>4
    <3> HIDE DEF n
    <3> QED BY <2>4, <3>5, TwoEnds, CarriedData
  <2>5. /\ sock'[Server].sendSequence = sock[Server].sendSequence
        /\ sock'[Server].sendMessage = sock[Server].sendMessage
        /\ Sending(Server)' => Sending(Server)
    BY <2>1 DEF SameSender, Sending
  <2>6. sock'[Server].sendSequence >= sock[Server].sendSequence
    BY <1>1, <2>5
  <2>7. Kept
    BY <2>5, <2>6
  <2> QED BY <2>3, <2>4, <2>7
<1>4. CASE SendsNext(Server)
  <2>1. /\ sock'[Server].sendMessage = sock[Server].sendMessage
        /\ sock'[Server].sendSequence = sock[Server].sendSequence + 1
        /\ \A q \in NewPackets(Server) :
                Carries(q, sock[Server].sendMessage, sock[Server].sendSequence)
    BY <1>4 DEF SendsNext
  <2>2. New
    BY <1>1, <2>1, TwoEnds, CarriedData
  <2>3. Kept
    BY <1>1, <2>1
  <2> QED BY <1>4, <2>2, <2>3, ServerSendsNext
<1>5. ASSUME NEW m \in Messages[Server], sock[Server].canSend, Sends(Server, m)
      PROVE  Phase(Server)' /\ New /\ Kept
  <2>1. /\ sock'[Server].sendMessage = m
        /\ sock'[Server].sendSequence = sock[Server].sendSequence + 1
        /\ \A q \in NewPackets(Server) : Carries(q, m, sock[Server].sendSequence)
    BY <1>5 DEF Sends
  <2>2. New
    BY <1>1, <2>1, TwoEnds, CarriedData
  <2>3. Kept
    BY <1>1, <2>1
  <2> QED BY <1>5, <2>2, <2>3, ServerSends
<1>6. CASE CountsAck(Server)
  <2>1. Phase(Server)' /\ Kept
    BY <1>1, <1>6, ServerCountsAck
  <2>2. New
    BY <1>6 DEF CountsAck
  <2> QED BY <2>1, <2>2
<1>7. CASE Strands(Server)
  <2>1. /\ sock'[Server].sendMessage = sock[Server].sendMessage
        /\ sock'[Server].sendSequence = sock[Server].sendSequence
        /\ \A q \in NewPackets(Server) :
                Carries(q, sock[Server].sendMessage, sock[Server].sendSequence - 1)
    BY <1>7 DEF Strands
  <2>2. Phase(Server)' /\ ~Sending(Server)' /\ sock[Server].sendSequence > 0
    BY <1>7, ServerStrands
  <2> DEFINE n == sock[Server].sendSequence - 1
  <2>3. /\ n \in Nat /\ sock'[Server].sendSequence = n + 1
        /\ \A q \in NewPackets(Server) : Carries(q, sock'[Server].sendMessage, n)
    BY <1>1, <2>1, <2>2
  <2> HIDE DEF n
  <2>4. New
    BY <2>3, TwoEnds, CarriedData
  <2>5. Kept
    BY <1>1, <2>1, <2>2
  <2> QED BY <2>2, <2>4, <2>5
<1> QED BY <1>3, <1>4, <1>5, <1>6, <1>7 DEF AsSender

\* Whatever the client reads, the server's stream stays in a phase: a fragment it
\* counts was unread.
LEMMA ServerPeer ==
    ASSUME TypeOK, ServerStream, OneEnd(Client), AsReceiver(Client)
    PROVE  ServerStream'
<1>1. /\ sock'[Server] = sock[Server]
      /\ net'[Client] \subseteq net[Client] /\ sent'[Server] = sent[Server]
  BY TwoEnds DEF OneEnd
<1>2. \A p \in net'[Client] : p.kind = "data" => FromSender(Server, p)'
  BY <1>1 DEF ServerStream, FromSender, Sending
<1>3. /\ sock[Client].receiveSequence \in Nat
      /\ sock[Client].receiveMessage \in Seq(Fragments)
      /\ sock[Server].sendMessage \in Seq(Fragments)
      /\ sock[Server].sendSequence \in Nat /\ sock[Server].ackSequence \in Nat
      /\ \A p \in net[Server] : p.seq \in Nat
      /\ \A p \in net[Client] : p.seq \in Nat
  BY TwoEnds, SocketTypes, PacketTypes
<1> DEFINE Acks == \A p \in net'[Server] : p.kind = "ack" =>
                        p.seq < sock'[Client].receiveSequence
<1>4. SUFFICES Phase(Server)' /\ Acks
  BY <1>2 DEF ServerStream
<1>5. CASE KeepsReceiving(Client)
  <2>1. SameReceiver(sock'[Client], sock[Client])
        /\ delivered'[Server] = delivered[Server]
    BY <1>5, TwoEnds DEF KeepsReceiving
  <2>3. Phase(Server)'
    BY <1>1, <2>1, PhaseUntouched, TwoEnds DEF ServerStream, SameReceiver
  <2>4. ASSUME NEW q \in NewPackets(Client), q.kind = "ack"
        PROVE  q.seq < sock[Client].receiveSequence
    BY <1>5, <2>4, ServerData DEF KeepsReceiving
  <2>5. Acks
    BY <2>1, <2>4, TwoEnds DEF NewPackets, SameReceiver, ServerStream
  <2> QED BY <2>3, <2>5
<1>6. ASSUME NEW p \in net[Client], CountsData(Client, p)
      PROVE  Phase(Server)' /\ Acks
  <2>1. /\ p.kind = "data" /\ p.seq = sock[Client].receiveSequence
        /\ sock'[Client].receiveSequence = sock[Client].receiveSequence + 1
        /\ \A q \in NewPackets(Client) : q.kind = "ack" => q.seq = p.seq
    BY <1>6 DEF CountsData
  <2>2. Acks
    <3>1. ASSUME NEW q \in net'[Server], q.kind = "ack"
          PROVE  q.seq < sock[Client].receiveSequence + 1
      <4>1. CASE q \in NewPackets(Client)
        BY <1>3, <2>1, <3>1, <4>1
      <4>2. CASE q \in net[Server]
        <5>1. q.seq < sock[Client].receiveSequence
          BY <3>1, <4>2 DEF ServerStream
        <5> QED BY <1>3, <4>2, <5>1
      <4> QED BY <4>1, <4>2, TwoEnds DEF NewPackets
    <3> QED BY <2>1, <3>1
  <2>3. /\ Unread(Server)
        /\ p.eom = (Len(sock[Server].sendMessage) = 1)
        /\ p.data = Head(sock[Server].sendMessage)
    BY <2>1, ServerData
  <2>4. PICK m \in Messages[Server] :
              /\ sent[Server] = Append(delivered[Server], m)
              /\ sock[Client].receiveMessage \o sock[Server].sendMessage = m
    BY <2>3, TwoEnds DEF Unread, UnderWay
  <2> DEFINE rest == sock[Server].sendMessage
             part == sock[Client].receiveMessage
  <2>5. part \in Seq(Fragments) /\ rest \in Seq(Fragments) /\ rest # <<>>
    BY <1>3, <2>3 DEF Unread, Sending
  <2>6. /\ Append(part, Head(rest)) \o Tail(rest) = part \o rest
        /\ Len(rest) = 1 => Append(part, Head(rest)) = part \o rest
    <3> HIDE DEF part, rest
    <3> QED BY <2>5, MoveHead
  <2>7. Sending(Server)' /\ sock'[Server].sendSequence = sock'[Client].receiveSequence
    BY <1>1, <2>1, <2>3, TwoEnds DEF Unread, Sending
  <2>8. CASE Len(rest) = 1
    <3>1. /\ sock'[Client].receiveMessage = <<>>
          /\ delivered'[Server] = Append(delivered[Server], Append(part, p.data))
      BY <1>6, <2>3, <2>8, TwoEnds DEF CountsData
    <3>2. delivered'[Server] = sent'[Server]
      BY <1>1, <2>3, <2>4, <2>6, <2>8, <3>1
    <3>3. Unacknowledged(Server)'
      BY <1>1, <2>7, <2>8, <3>1, <3>2, TwoEnds DEF Unacknowledged
    <3> QED BY <2>2, <3>3 DEF Phase
  <2>9. CASE Len(rest) # 1
    <3>1. /\ sock'[Client].receiveMessage = Append(part, p.data)
          /\ delivered'[Server] = delivered[Server]
      BY <1>6, <2>3, <2>9, TwoEnds DEF CountsData
    <3>2. /\ sent'[Server] = Append(delivered'[Server], m)
          /\ sock'[Client].receiveMessage \o Tail(sock'[Server].sendMessage) = m
      BY <1>1, <2>3, <2>4, <2>6, <3>1
    <3>3. UnderWay(Server, Tail(sock[Server].sendMessage))'
      BY <3>2, TwoEnds DEF UnderWay
    <3>4. Unacknowledged(Server)'
      BY <1>1, <2>7, <2>9, <3>3, TwoEnds DEF Unacknowledged
    <3> QED BY <2>2, <3>4 DEF Phase
  <2> QED BY <2>8, <2>9
<1> QED BY <1>5, <1>6 DEF AsReceiver

-----------------------------------------------------------------------------
(***************************************************************************)
(* The stream from the client, whose messages are one fragment each.       *)
(***************************************************************************)
ClientStream == ClientSocket /\ ClientReceiver /\ ClientPackets

\* The numbers of the client's stream.
LEMMA ClientTypes ==
    ASSUME TypeOK
    PROVE  /\ sock[Client] \in QSocket
           /\ sock[Client].sendSequence \in Nat /\ sock[Client].ackSequence \in Nat
           /\ sock[Client].sendMessage \in Seq(Fragments)
           /\ sock[Server].receiveSequence \in Nat
           /\ sent[Client] \in Seq(Seq(Fragments)) /\ Len(sent[Client]) \in Nat
           /\ delivered[Client] \in Seq(Seq(Fragments)) /\ Len(delivered[Client]) \in Nat
           /\ \A p \in net[Server] : p.seq \in Nat
           /\ \A p \in net[Client] : p.seq \in Nat
<1>1. /\ sock[Client] \in QSocket
      /\ sock[Client].sendSequence \in Nat /\ sock[Client].ackSequence \in Nat
      /\ sock[Client].sendMessage \in Seq(Fragments)
      /\ sock[Server].receiveSequence \in Nat
      /\ sent[Client] \in Seq(Seq(Fragments)) /\ delivered[Client] \in Seq(Seq(Fragments))
  BY TwoEnds, SocketTypes
<1>2. (\A p \in net[Server] : p.seq \in Nat) /\ (\A p \in net[Client] : p.seq \in Nat)
  BY TwoEnds, SocketTypes, PacketTypes
<1> QED BY <1>1, <1>2, LenProperties

\* A sequence of one element.
LEMMA OneElement ==
    ASSUME NEW S, NEW m \in Seq(S), Len(m) = 1
    PROVE  m # <<>> /\ m = <<Head(m)>>
<1>1. m # <<>>
  <2>1. Len(<<>>) = 0
    BY EmptySeq
  <2> QED BY <2>1
<1>2. Head(m) = m[1] /\ Head(m) \in S
  BY <1>1, HeadTailProperties
<1>3. Len(<<Head(m)>>) = 1 /\ <<Head(m)>>[1] = Head(m)
      /\ <<Head(m)>> \in Seq(S)
  BY <1>2
<1>4. \A i \in 1 .. Len(m) : m[i] = <<Head(m)>>[i]
  BY <1>2, <1>3
<1> QED BY <1>1, <1>3, <1>4, SeqEqual

\* A repeated fragment is that of the last message.
LEMMA ClientKeeps ==
    ASSUME TypeOK, ClientStream, OneEnd(Client), KeepsSending(Client)
    PROVE  ClientStream'
<1>1. SameSender(sock'[Client], sock[Client]) /\ sent'[Client] = sent[Client]
  BY DEF KeepsSending
<1>2. /\ sock'[Server] = sock[Server] /\ delivered'[Client] = delivered[Client]
      /\ net'[Client] \subseteq net[Client]
  BY TwoEnds DEF OneEnd
<1>3. ClientSocket'
  BY <1>1, <1>2 DEF ClientStream, ClientSocket, SameSender
<1>4. ClientReceiver'
  BY <1>1, <1>2 DEF ClientStream, ClientReceiver, SameSender
<1>5. ASSUME NEW q \in NewPackets(Client), q.kind = "data"
      PROVE  q.eom /\ q.seq < Len(sent[Client]) /\ sent[Client][q.seq + 1] = <<q.data>>
  <2>1. /\ ~sock[Client].canSend
        /\ Carries(q, sock[Client].sendMessage, sock[Client].sendSequence - 1)
    BY <1>5 DEF KeepsSending
  <2>2. /\ sock[Client].sendSequence = Len(sent[Client])
        /\ sock[Client].ackSequence < Len(sent[Client])
        /\ Len(sock[Client].sendMessage) = 1
        /\ sock[Client].sendMessage = sent[Client][Len(sent[Client])]
    BY <2>1 DEF ClientStream, ClientSocket
  <2>3. q.seq = Len(sent[Client]) - 1 /\ q.eom /\ q.data = Head(sock[Client].sendMessage)
    BY <1>5, <2>1, <2>2 DEF Carries
  <2>4. sock[Client].sendMessage = <<q.data>>
    BY <2>2, <2>3, ClientTypes, OneElement
  <2>5. q.seq + 1 = Len(sent[Client]) /\ q.seq < Len(sent[Client])
    BY <2>2, <2>3, ClientTypes
  <2> QED BY <2>2, <2>3, <2>4, <2>5
<1>6. \A q \in net'[Server] : q.kind = "data" =>
            q.eom /\ q.seq < Len(sent'[Client]) /\ sent'[Client][q.seq + 1] = <<q.data>>
  <2>1. ASSUME NEW q \in net[Server], q.kind = "data"
        PROVE  q.eom /\ q.seq < Len(sent[Client]) /\ sent[Client][q.seq + 1] = <<q.data>>
    BY <2>1 DEF ClientStream, ClientPackets
  <2> QED BY <1>1, <1>5, <2>1, TwoEnds DEF NewPackets
<1>7. Overtaken' <=> Overtaken
  BY <1>1 DEF Overtaken, SameSender
<1>8. ClientPackets'
  BY <1>1, <1>2, <1>6, <1>7 DEF ClientStream, ClientPackets
<1> QED BY <1>3, <1>4, <1>8 DEF ClientStream

\* A new message, or a nop that overtakes the one under way, goes out under the
\* next number.
LEMMA ClientSends ==
    ASSUME TypeOK, ClientStream, OneEnd(Client), NEW m \in Messages[Client],
           Sends(Client, m)
    PROVE  ClientStream'
<1> DEFINE k == Len(sent[Client])
<1>1. /\ sock'[Client].canSend = FALSE /\ sock'[Client].sendNext = sock[Client].sendNext
      /\ sock'[Client].sendMessage = m
      /\ sock'[Client].sendSequence = sock[Client].sendSequence + 1
      /\ sock'[Client].ackSequence = sock[Client].ackSequence
      /\ sent'[Client] = Append(sent[Client], m)
      /\ \A q \in NewPackets(Client) : Carries(q, m, sock[Client].sendSequence)
  BY DEF Sends
<1>2. /\ sock'[Server] = sock[Server] /\ delivered'[Client] = delivered[Client]
      /\ net'[Client] \subseteq net[Client]
  BY TwoEnds DEF OneEnd
<1>3. m \in Seq(Fragments) /\ Len(m) = 1 /\ m = <<Head(m)>>
  BY MessagesAssumption, ClientAssumption, OneElement
<1>4. /\ k \in Nat /\ Len(sent'[Client]) = k + 1 /\ sent'[Client][k + 1] = m
      /\ \A i \in 1 .. k : sent'[Client][i] = sent[Client][i]
  BY <1>1, <1>3, ClientTypes, AppendProperties
<1>5. /\ ~sock[Client].sendNext /\ sock[Client].sendSequence = k
      /\ sock[Client].ackSequence <= k
      /\ sock[Client].ackSequence = k =>
            delivered[Client] = sent[Client] /\ Len(delivered[Client]) = k
  BY ClientTypes DEF ClientStream, ClientSocket
<1>6. sock[Client].ackSequence \in Nat /\ Len(delivered[Client]) \in Nat
  BY ClientTypes
<1>7. /\ sock[Server].receiveSequence = Len(delivered[Client])
      /\ sock[Server].receiveMessage = <<>>
      /\ sock[Client].ackSequence <= Len(delivered[Client])
      /\ Len(delivered[Client]) <= k
      /\ \A i \in 1 .. Len(delivered[Client]) : delivered[Client][i] = sent[Client][i]
  BY DEF ClientStream, ClientReceiver
<1>8. ASSUME NEW q \in net[Server], q.kind = "data"
      PROVE  q.eom /\ q.seq < k /\ sent[Client][q.seq + 1] = <<q.data>> /\ q.seq \in Nat
  BY <1>8, ClientTypes DEF ClientStream, ClientPackets
<1>9. ASSUME NEW q \in net[Client], q.kind = "ack" PROVE q.seq < k /\ q.seq \in Nat
  BY <1>9, ClientTypes DEF ClientStream, ClientPackets
<1> HIDE DEF k
<1>10. ClientSocket'
  BY <1>1, <1>3, <1>4, <1>5, <1>6 DEF ClientSocket
<1>11. ClientReceiver'
  <2>1. \A i \in 1 .. Len(delivered[Client]) : delivered[Client][i] = sent'[Client][i]
    BY <1>4, <1>6, <1>7
  <2>2. Len(delivered[Client]) <= Len(sent'[Client])
    BY <1>4, <1>6, <1>7
  <2> QED BY <1>1, <1>2, <1>7, <2>1, <2>2 DEF ClientReceiver
<1>12. ASSUME NEW q \in net'[Server], q.kind = "data"
       PROVE  q.eom /\ q.seq < k + 1 /\ sent'[Client][q.seq + 1] = <<q.data>>
  <2>1. CASE q \in NewPackets(Client)
    <3>1. q.seq = k /\ q.eom /\ q.data = Head(m)
      BY <1>1, <1>3, <1>5, <1>12, <2>1 DEF Carries
    <3> QED BY <1>3, <1>4, <3>1
  <2>2. CASE q \in net[Server]
    <3>1. q.eom /\ q.seq < k /\ sent[Client][q.seq + 1] = <<q.data>> /\ q.seq \in Nat
      BY <1>8, <1>12, <2>2
    <3>2. q.seq + 1 \in 1 .. k /\ q.seq < k + 1
      BY <1>4, <3>1
    <3> QED BY <1>4, <3>1, <3>2
  <2> QED BY <2>1, <2>2, TwoEnds DEF NewPackets
<1>13. ASSUME NEW q \in net'[Client], q.kind = "ack"
       PROVE  q.seq < k + 1 /\ (~Overtaken' => q.seq < Len(delivered[Client]))
  <2>1. q.seq < k /\ q.seq \in Nat
    BY <1>2, <1>9, <1>13
  <2>2. ~Overtaken' => sock[Client].ackSequence = k
    BY <1>1, <1>4, <1>5, <1>6 DEF Overtaken
  <2> QED BY <1>4, <1>5, <2>1, <2>2
<1>14. ClientPackets'
  BY <1>2, <1>4, <1>7, <1>12, <1>13 DEF ClientPackets
<1> QED BY <1>10, <1>11, <1>14 DEF ClientStream

\* A counted acknowledgement is that of the last message, and the server was
\* given it.
LEMMA ClientCountsAck ==
    ASSUME TypeOK, ClientStream, OneEnd(Client), CountsAck(Client)
    PROVE  ClientStream'
<1> DEFINE k == Len(sent[Client])
           after == Acknowledged(sock[Client])
<1>1. PICK p \in net[Client] : IsCurrentAck(sock[Client], p)
  BY DEF CountsAck
<1>2. /\ sock[Client] \in QSocket /\ sock[Client].sendMessage \in Seq(Fragments)
      /\ k \in Nat /\ sock[Client].ackSequence \in Nat /\ p.seq \in Nat
      /\ sent[Client] \in Seq(Seq(Fragments))
      /\ delivered[Client] \in Seq(Seq(Fragments)) /\ Len(delivered[Client]) \in Nat
  BY ClientTypes
<1>3. /\ p.kind = "ack" /\ p.seq = sock[Client].sendSequence - 1
      /\ p.seq = sock[Client].ackSequence
  BY <1>1 DEF IsCurrentAck
<1>4. ~sock[Client].sendNext /\ sock[Client].sendSequence = k
      /\ sock[Client].ackSequence + 1 = k
  BY <1>2, <1>3 DEF ClientStream, ClientSocket
<1>5. /\ ~sock[Client].canSend /\ Len(sock[Client].sendMessage) = 1
  BY <1>2, <1>4 DEF ClientStream, ClientSocket
<1>6. sock[Client].sendMessage # <<>> /\ Tail(sock[Client].sendMessage) = <<>>
  BY <1>2, <1>5, OneElement, MoveHead
<1>7. ~Overtaken
  BY <1>2, <1>4 DEF Overtaken
<1>8. /\ sock[Server].receiveSequence = Len(delivered[Client])
      /\ Len(delivered[Client]) <= k
      /\ \A i \in 1 .. Len(delivered[Client]) : delivered[Client][i] = sent[Client][i]
  BY DEF ClientStream, ClientReceiver
<1>9. Len(delivered[Client]) = k
  <2>1. p.seq < Len(delivered[Client])
    BY <1>3, <1>7, <1>8 DEF ClientStream, ClientPackets
  <2> DEFINE n == Len(delivered[Client])
  <2>2. p.seq < n /\ n <= k /\ p.seq + 1 = k /\ n \in Nat
    BY <1>2, <1>3, <1>4, <1>8, <2>1
  <2> HIDE DEF n, k
  <2>3. n = k
    BY <1>2, <2>2
  <2> QED BY <2>3 DEF n
<1>10. delivered[Client] = sent[Client]
  BY <1>2, <1>8, <1>9, SeqEqual
<1>11. /\ after.ackSequence = sock[Client].ackSequence + 1
       /\ after.sendSequence = sock[Client].sendSequence
       /\ after.sendMessage = <<>> /\ after.sendNext = FALSE /\ after.canSend = TRUE
  BY <1>2, <1>4, <1>5, <1>6 DEF Acknowledged, QSocket
<1> HIDE DEF after
<1>12. SameSender(sock'[Client], after) /\ sent'[Client] = sent[Client]
       /\ \A q \in NewPackets(Client) : q.kind # "data"
  BY DEF CountsAck, after
<1>13. /\ sock'[Server] = sock[Server] /\ delivered'[Client] = delivered[Client]
       /\ net'[Client] \subseteq net[Client]
  BY TwoEnds DEF OneEnd
<1>14. /\ sock'[Client].ackSequence = k /\ sock'[Client].sendSequence = k
       /\ ~sock'[Client].sendNext /\ sock'[Client].canSend
  BY <1>4, <1>11, <1>12 DEF SameSender
<1>15. ClientSocket'
  BY <1>10, <1>12, <1>13, <1>14 DEF ClientSocket
<1>16. ClientReceiver'
  BY <1>2, <1>9, <1>12, <1>13, <1>14 DEF ClientStream, ClientReceiver
<1>17. ASSUME NEW q \in net'[Server], q.kind = "data"
       PROVE  q.eom /\ q.seq < k /\ sent[Client][q.seq + 1] = <<q.data>>
  BY <1>12, <1>17, TwoEnds DEF NewPackets, ClientStream, ClientPackets
<1>18. ASSUME NEW q \in net'[Client], q.kind = "ack" PROVE q.seq < k
  BY <1>13, <1>18 DEF ClientStream, ClientPackets
<1>19. ClientPackets'
  BY <1>8, <1>9, <1>12, <1>13, <1>17, <1>18 DEF ClientPackets
<1> QED BY <1>15, <1>16, <1>19 DEF ClientStream

LEMMA ClientOwn ==
    ASSUME TypeOK, ClientStream, OneEnd(Client), AsSender(Client)
    PROVE  ClientStream'
<1>1. ~SendsNext(Client) /\ ~Strands(Client)
  BY DEF SendsNext, Strands, ClientStream, ClientSocket
<1> QED BY <1>1, ClientKeeps, ClientSends, ClientCountsAck DEF AsSender

\* Whatever the server reads, it is given the client's next message or none.
LEMMA ClientPeer ==
    ASSUME TypeOK, ClientStream, OneEnd(Server), AsReceiver(Server)
    PROVE  ClientStream'
<1> DEFINE k == Len(sent[Client])
           n == Len(delivered[Client])
<1>1. /\ sock'[Client] = sock[Client] /\ sent'[Client] = sent[Client]
      /\ net'[Server] \subseteq net[Server]
  BY TwoEnds DEF OneEnd
<1>2. /\ k \in Nat /\ n \in Nat /\ sock[Client].ackSequence \in Nat
      /\ \A p \in net[Server] : p.seq \in Nat
      /\ \A p \in net[Client] : p.seq \in Nat
      /\ sent[Client] \in Seq(Seq(Fragments)) /\ delivered[Client] \in Seq(Seq(Fragments))
  BY ClientTypes
<1>3. /\ ~sock[Client].sendNext /\ sock[Client].sendSequence = k
      /\ sock[Client].canSend => n = k
      /\ sock[Server].receiveSequence = n /\ sock[Server].receiveMessage = <<>>
      /\ sock[Client].ackSequence <= n /\ n <= k
      /\ \A i \in 1 .. n : delivered[Client][i] = sent[Client][i]
  BY DEF ClientStream, ClientSocket, ClientReceiver
<1>4. \A q \in net'[Server] : q.kind = "data" =>
            q.eom /\ q.seq < Len(sent'[Client]) /\ sent'[Client][q.seq + 1] = <<q.data>>
  BY <1>1 DEF ClientStream, ClientPackets
<1>5. Overtaken' <=> Overtaken
  BY <1>1 DEF Overtaken
<1> DEFINE Acks == \A q \in net'[Client] : q.kind = "ack" =>
                        /\ q.seq < k
                        /\ ~Overtaken => q.seq < sock'[Server].receiveSequence
<1>6. SUFFICES ClientSocket' /\ ClientReceiver' /\ Acks
  BY <1>1, <1>4, <1>5 DEF ClientStream, ClientPackets
<1>7. CASE KeepsReceiving(Server)
  <2>1. SameReceiver(sock'[Server], sock[Server])
        /\ delivered'[Client] = delivered[Client]
    BY <1>7, TwoEnds DEF KeepsReceiving
  <2>2. ClientSocket' /\ ClientReceiver'
    BY <1>1, <2>1 DEF ClientStream, ClientSocket, ClientReceiver, SameReceiver
  <2>3. ASSUME NEW q \in NewPackets(Server), q.kind = "ack"
        PROVE  q.seq < k /\ (~Overtaken => q.seq < sock[Server].receiveSequence)
    <3>1. PICK p \in net[Server] : p.kind = "data" /\ p.seq # sock[Server].receiveSequence
                                   /\ q.seq = p.seq
      BY <1>7, <2>3 DEF KeepsReceiving
    <3>2. p.seq < k /\ p.seq \in Nat
      BY <1>2, <3>1 DEF ClientStream, ClientPackets
    <3>3. ~Overtaken => n + 1 >= k
      BY <1>2, <1>3 DEF Overtaken
    <3> HIDE DEF k, n
    <3> QED BY <1>2, <1>3, <3>1, <3>2, <3>3
  <2>4. ASSUME NEW q \in net[Client], q.kind = "ack"
        PROVE  q.seq < k /\ (~Overtaken => q.seq < sock[Server].receiveSequence)
    BY <2>4 DEF ClientStream, ClientPackets
  <2>5. Acks
    <3> HIDE DEF k
    <3> QED BY <2>1, <2>3, <2>4, TwoEnds DEF NewPackets, SameReceiver
  <2> QED BY <2>2, <2>5
<1>8. ASSUME NEW p \in net[Server], CountsData(Server, p)
      PROVE  ClientSocket' /\ ClientReceiver' /\ Acks
  <2>1. /\ p.kind = "data" /\ p.seq = n
        /\ sock'[Server].receiveSequence = n + 1
        /\ \A q \in NewPackets(Server) : q.kind = "ack" => q.seq = n
    BY <1>3, <1>8 DEF CountsData
  <2>2. p.eom /\ n < k /\ sent[Client][n + 1] = <<p.data>>
    BY <2>1 DEF ClientStream, ClientPackets
  <2>3. sock'[Server].receiveMessage = <<>>
        /\ delivered'[Client] = Append(delivered[Client], Append(<<>>, p.data))
    BY <1>3, <1>8, <2>2, TwoEnds DEF CountsData
  <2>4. p.data \in Fragments /\ Append(<<>>, p.data) = <<p.data>>
    <3>1. p.data \in Fragments
      BY <2>1, TwoEnds, PacketTypes DEF TypeOK
    <3> QED BY <3>1
  <2>5. /\ Len(delivered'[Client]) = n + 1
        /\ delivered'[Client][n + 1] = sent[Client][n + 1]
        /\ \A i \in 1 .. n : delivered'[Client][i] = delivered[Client][i]
    <3>1. <<p.data>> \in Seq(Fragments)
      BY <2>4
    <3> QED BY <1>2, <2>2, <2>3, <2>4, <3>1, AppendProperties
  <2>6. ~sock[Client].canSend
    BY <1>2, <1>3, <2>2
  <2>7. ClientSocket'
    BY <1>1, <2>6 DEF ClientStream, ClientSocket
  <2>8. ASSUME NEW q \in net'[Client], q.kind = "ack" 
        PROVE  q.seq < k /\ (~Overtaken => q.seq < n + 1)
    <3>1. CASE q \in NewPackets(Server)
      BY <1>2, <2>1, <2>2, <2>8, <3>1
    <3>2. CASE q \in net[Client]
      <4>1. q.seq < k /\ (~Overtaken => q.seq < n) /\ q.seq \in Nat
        BY <1>2, <1>3, <2>8, <3>2 DEF ClientStream, ClientPackets
      <4> HIDE DEF k, n
      <4> QED BY <1>2, <4>1
    <3> QED BY <3>1, <3>2, TwoEnds DEF NewPackets
  <2>9. Acks
    <3> HIDE DEF k, n
    <3> QED BY <2>1, <2>8
  <2> HIDE DEF k, n
  <2>10. ASSUME NEW i \in 1 .. n + 1 PROVE delivered'[Client][i] = sent[Client][i]
    <3>1. i \in 1 .. n \/ i = n + 1
      BY <1>2, <2>10
    <3> QED BY <1>3, <2>5, <3>1
  <2>11. sock[Client].ackSequence <= n + 1 /\ n + 1 <= k
    BY <1>2, <1>3, <2>2
  <2>12. ClientReceiver'
    BY <1>1, <2>1, <2>3, <2>5, <2>10, <2>11 DEF ClientReceiver, k
  <2> QED BY <2>7, <2>9, <2>12
<1> QED BY <1>7, <1>8 DEF AsReceiver

-----------------------------------------------------------------------------
\* KeepaliveInv holds at first, and every step preserves it.
Streams == TypeOK /\ ServerStream /\ ClientStream

LEMMA InvParts ==
    KeepaliveInv <=> Streams /\ stage \in {"playing", "loading", "failed"}
BY DEF KeepaliveInv, Streams, ClientStream

\* The invariant holds when both ends have just connected.
LEMMA KInitInv == KInit => KeepaliveInv
<1> SUFFICES ASSUME Init PROVE TypeOK /\ ServerStream /\ ClientStream
  BY InvParts DEF KInit, Streams
<1>1. TypeOK
  BY TypeInit
<1>2. /\ \A e \in Ends : sock[e] = NewQSocket /\ net[e] = {}
                        /\ sent[e] = <<>> /\ delivered[e] = <<>>
      /\ Len(<<>>) = 0
  BY EmptySeq DEF Init
<1>3. ServerStream
  BY <1>2, TwoEnds DEF ServerStream, Phase, Resting, NewQSocket
<1>4. ClientSocket
  BY <1>2, TwoEnds DEF ClientSocket, NewQSocket
<1>5. ClientReceiver /\ ClientPackets
  BY <1>2, TwoEnds DEF ClientReceiver, ClientPackets, NewQSocket
<1> QED BY <1>1, <1>3, <1>4, <1>5 DEF ClientStream

\* The driver always has the fragment it is about to send.
LEMMA BothReady ==
    ASSUME TypeOK, ServerStream, ClientStream, NEW e \in Ends
    PROVE  FragmentReady(e)
<1>1. CASE e = Server
  <2>1. sock[Server].sendNext => sock[Server].sendMessage # <<>>
    BY DEF ServerStream, Phase, Resting, Unread, Unacknowledged, Pausing, Stranded,
           Sending
  <2>2. ~sock[Server].canSend => /\ sock[Server].sendMessage # <<>>
                                 /\ sock[Server].sendSequence - 1 \in Nat
    <3>1. sock[Server].sendSequence \in Nat
      BY TwoEnds, SocketTypes
    <3> QED BY <3>1, ServerSent
  <2> QED BY <1>1, <2>1, <2>2 DEF FragmentReady
<1>2. CASE e = Client
  <2>1. /\ ~sock[Client].sendNext /\ sock[Client].sendSequence = Len(sent[Client])
        /\ ~sock[Client].canSend => /\ sock[Client].ackSequence < Len(sent[Client])
                                    /\ Len(sock[Client].sendMessage) = 1
    BY DEF ClientStream, ClientSocket
  <2>2. ASSUME ~sock[Client].canSend
        PROVE  sock[Client].sendMessage # <<>> /\ sock[Client].sendSequence - 1 \in Nat
    <3>1. sock[Client].sendMessage # <<>>
      BY <2>1, <2>2, ClientTypes, OneElement
    <3>2. sock[Client].sendSequence - 1 \in Nat
      BY <2>1, <2>2, ClientTypes
    <3> QED BY <3>1, <3>2
  <2> QED BY <1>2, <2>1, <2>2 DEF FragmentReady
<1> QED BY <1>1, <1>2, TwoEnds

\* A step of one end is its own part of one stream and the peer's of the other.
LEMMA OneEndKeeps ==
    ASSUME TypeOK, TypeOK', ServerStream, ClientStream, NEW e \in Ends,
           OneEnd(e), AsSender(e), AsReceiver(e)
    PROVE  ServerStream' /\ ClientStream'
<1>1. CASE e = Server
  BY <1>1, ServerOwn, ClientPeer
<1>2. CASE e = Client
  BY <1>2, ClientOwn, ServerPeer
<1> QED BY <1>1, <1>2, TwoEnds

LEMMA EndStepKeeps ==
    ASSUME Streams, NEW e \in Ends, EndStep(e)
    PROVE  Streams'
<1>1. TypeOK /\ ServerStream /\ ClientStream /\ FragmentReady(e)
  BY BothReady DEF Streams
<1>2. TypeOK' /\ OneEnd(e) /\ AsSender(e) /\ AsReceiver(e)
  BY <1>1, TypeStep, Effects
<1>3. ServerStream' /\ ClientStream'
  BY <1>1, <1>2, OneEndKeeps
<1> QED BY <1>2, <1>3 DEF Streams

\* The nop, sent whether the stream is ready for it or not (cl_parse.c).
LEMMA NopKeeps ==
    ASSUME Streams, CL_KeepaliveMessage
    PROVE  Streams'
<1>1. TypeOK /\ ServerStream /\ ClientStream
  BY DEF Streams
<1>2. /\ Datagram_SendMessage(Client, Nop) /\ Nop \in Messages[Client]
      /\ pc' \in [Ends -> {"idle", "reading", "closed"}]
  BY <1>1, ClientAssumption, PeerFacts DEF CL_KeepaliveMessage, TypeOK
<1>3. OneEnd(Client) /\ Sends(Client, Nop) /\ KeepsReceiving(Client) /\ TypeOK'
  BY <1>1, <1>2, TwoEnds, SendEffect
<1>4. ClientStream'
  BY <1>1, <1>2, <1>3, ClientSends
<1>5. ServerStream'
  BY <1>1, <1>3, ServerPeer DEF AsReceiver
<1> QED BY <1>3, <1>4, <1>5 DEF Streams

\* A step that leaves the driver alone.
LEMMA QuietKeeps ==
    ASSUME Streams, UNCHANGED vars
    PROVE  Streams'
BY DEF Streams, TypeOK, ServerStream, Phase, Resting, Unread, Unacknowledged, Pausing,
       Stranded, Sending, UnderWay, FromSender, ClientStream, ClientSocket,
       ClientReceiver, ClientPackets, Overtaken, vars

\* Every step of a playing, a loading or a failed client keeps it.
LEMMA KStepInv == KeepaliveInv /\ [KNext]_kvars => KeepaliveInv'
<1> SUFFICES ASSUME Streams, stage \in {"playing", "loading", "failed"}, [KNext]_kvars
             PROVE  Streams' /\ stage' \in {"playing", "loading", "failed"}
  BY DEF KeepaliveInv, Streams, ClientStream
<1>1. CASE BeginLoading
  BY <1>1, QuietKeeps DEF BeginLoading
<1>2. CASE CL_KeepaliveMessage
  BY <1>2, NopKeeps DEF CL_KeepaliveMessage
<1>3. CASE HostError
  <2>1. Read(Client)
    BY <1>3 DEF HostError, Read, ReadPacket
  <2> QED BY <1>3, <2>1, TwoEnds, EndStepKeeps DEF EndStep, HostError
<1>4. CASE EndLoading
  BY <1>4, QuietKeeps DEF EndLoading
<1>5. ASSUME NEW e \in Ends, EndStep(e), UNCHANGED stage
      PROVE  Streams' /\ stage' \in {"playing", "loading", "failed"}
  BY <1>5, EndStepKeeps
<1>6. LoadingClient => EndStep(Client)
  BY DEF LoadingClient, EndStep, Read
<1>7. FailedClient => EndStep(Client)
  BY DEF FailedClient, EndStep
<1>8. CASE UNCHANGED kvars
  BY <1>8, QuietKeeps DEF kvars
<1>9. ASSUME \/ Next /\ UNCHANGED stage
             \/ LoadingClient /\ UNCHANGED stage
             \/ FailedClient /\ UNCHANGED stage
             \/ EndStep(Peer(Client)) /\ UNCHANGED stage
      PROVE  \E e \in Ends : EndStep(e) /\ UNCHANGED stage
  BY <1>6, <1>7, <1>9, TwoEnds DEF Next
<1> QED BY <1>1, <1>2, <1>3, <1>4, <1>5, <1>8, <1>9 DEF KNext

-----------------------------------------------------------------------------
\* KeepaliveInv is an invariant of the connection of a client that loads: of what
\* the phases of net_dgrm.c promise, this much is left when CL_KeepaliveMessage
\* sends a nop without asking NET_CanSendMessage.
THEOREM KeepaliveInvariant == KSpec => []KeepaliveInv
<1>1. KInit => KeepaliveInv
  BY KInitInv
<1>2. KeepaliveInv /\ [KNext]_kvars => KeepaliveInv'
  BY KStepInv
<1> QED BY <1>1, <1>2, PTL DEF KSpec

\* A part of the delivered messages that agrees with the sent ones is a prefix.
LEMMA IsPrefix ==
    ASSUME NEW S, NEW s \in Seq(S), NEW t \in Seq(S), Len(s) <= Len(t),
           \A i \in 1 .. Len(s) : s[i] = t[i]
    PROVE  s = SubSeq(t, 1, Len(s))
<1> DEFINE u == SubSeq(t, 1, Len(s))
<1>1. Len(s) \in Nat /\ Len(t) \in Nat
  BY LenProperties
<1>2. /\ u \in Seq(S) /\ Len(u) = Len(s)
      /\ \A i \in 1 .. Len(s) : u[i] = t[i]
  BY <1>1, SubSeqProperties
<1> QED BY <1>2, SeqEqual

\* Neither end is ever given anything twice or out of order, however often the
\* client's nops replace a message that is under way.
THEOREM NothingOutOfOrderHolds == KSpec => []NothingOutOfOrder
<1>1. KeepaliveInv => NothingOutOfOrder
  <2> SUFFICES ASSUME TypeOK, ServerStream, ClientReceiver, NEW e \in Ends
               PROVE  /\ Len(delivered[e]) <= Len(sent[e])
                      /\ delivered[e] = SubSeq(sent[e], 1, Len(delivered[e]))
    BY DEF KeepaliveInv, NothingOutOfOrder
  <2>1. /\ sent[e] \in Seq(Seq(Fragments)) /\ delivered[e] \in Seq(Seq(Fragments))
        /\ Len(sent[e]) \in Nat /\ Len(delivered[e]) \in Nat
    BY SocketTypes, LenProperties
  <2>2. SUFFICES /\ Len(delivered[e]) <= Len(sent[e])
                 /\ \A i \in 1 .. Len(delivered[e]) : delivered[e][i] = sent[e][i]
    BY <2>1, IsPrefix
  <2>3. CASE e = Client
    BY <2>3 DEF ClientReceiver
  <2>4. CASE e = Server
    <3>1. delivered[e] = sent[e] \/ \E m \in Messages[e] : sent[e] = Append(delivered[e], m)
      BY <2>4 DEF ServerStream, Phase, Resting, Unread, Unacknowledged, Pausing, Stranded,
                      UnderWay
    <3>2. CASE delivered[e] = sent[e]
      BY <2>1, <3>2
    <3>3. ASSUME NEW m \in Messages[e], sent[e] = Append(delivered[e], m)
          PROVE  /\ Len(delivered[e]) <= Len(sent[e])
                 /\ \A i \in 1 .. Len(delivered[e]) : delivered[e][i] = sent[e][i]
      <4>1. m \in Seq(Fragments)
        BY MessagesAssumption
      <4> QED BY <2>1, <3>3, <4>1, AppendProperties
    <3> QED BY <3>1, <3>2, <3>3
  <2> QED BY <2>3, <2>4, TwoEnds
<1> QED BY <1>1, KeepaliveInvariant, PTL

\* NET_CanSendMessage still says yes only when the other end was given everything,
\* also to a client whose nop has overtaken a message.
THEOREM ReleaseAfterDeliveryWhileLoading == KSpec => []ReleasedOnlyWhenDelivered
<1>1. KeepaliveInv => ReleasedOnlyWhenDelivered
  <2> SUFFICES ASSUME ServerStream, ClientSocket, NEW e \in Ends, sock[e].canSend
               PROVE  delivered[e] = sent[e]
    BY DEF KeepaliveInv, ReleasedOnlyWhenDelivered
  <2>1. CASE e = Client
    BY <2>1 DEF ClientSocket
  <2>2. CASE e = Server
    BY <2>2 DEF ServerStream, Phase, Resting, Unread, Unacknowledged, Pausing, Stranded,
                Sending
  <2> QED BY <2>1, <2>2, TwoEnds
<1> QED BY <1>1, KeepaliveInvariant, PTL
=============================================================================
