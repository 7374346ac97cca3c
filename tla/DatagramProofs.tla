--------------------------- MODULE DatagramProofs ---------------------------
(***************************************************************************)
(* Proofs about Datagram.tla, for any messages, any number of them and any *)
(* network: ProtocolInv is inductive, and from it follow the properties    *)
(* the runs check on small instances.                                      *)
(***************************************************************************)
EXTENDS Datagram, SequenceTheorems, TLAPS

-----------------------------------------------------------------------------
\* The two ends are each other's peers.
LEMMA PeerFacts ==
    ASSUME NEW e \in Ends
    PROVE  /\ Peer(e) \in Ends
           /\ Peer(e) # e
           /\ Peer(Peer(e)) = e
           /\ Ends = {e, Peer(e)}
<1>1. PICK a \in Ends, b \in Ends : a # b /\ Ends = {a, b}
  BY EndsAssumption
<1>2. \A x \in Ends : Peer(x) \in Ends /\ Peer(x) # x
  BY <1>1 DEF Peer
<1>3. QED
  BY <1>1, <1>2

\* Moving the head of the rest to the end of the part leaves the message alone.
LEMMA MoveHead ==
    ASSUME NEW S, NEW part \in Seq(S), NEW rest \in Seq(S), rest # <<>>
    PROVE  /\ Append(part, Head(rest)) \o Tail(rest) = part \o rest
           /\ Len(rest) = 1 => Append(part, Head(rest)) = part \o rest
           /\ Len(rest) # 1 => Tail(rest) # <<>>
           /\ Len(rest) = 1 => Tail(rest) = <<>>
<1> DEFINE h == Head(rest)
           t == Tail(rest)
<1>1. h \in S /\ t \in Seq(S) /\ Len(t) = Len(rest) - 1
  BY HeadTailProperties
<1>2. rest = <<h>> \o t
  <2>1. Len(<<h>> \o t) = Len(rest)
    BY <1>1, ConcatProperties
  <2>2. \A i \in 1 .. Len(rest) : rest[i] = (<<h>> \o t)[i]
    BY <1>1, ConcatProperties, HeadTailProperties
  <2>3. <<h>> \o t \in Seq(S)
    BY <1>1, ConcatProperties
  <2>4. QED
    BY <2>1, <2>2, <2>3, SeqEqual
<1>3. Append(part, h) = part \o <<h>>
  BY <1>1, AppendIsConcat
<1>4. (part \o <<h>>) \o t = part \o (<<h>> \o t)
  BY <1>1, ConcatAssociative
<1> HIDE DEF h, t
<1>5. t = <<>> <=> Len(t) = 0
  BY <1>1, EmptySeq
<1>6. Len(rest) \in Nat
  BY LenProperties
<1>7. Len(rest) = 1 <=> t = <<>>
  BY <1>1, <1>5, <1>6
<1>8. t = <<>> => rest = <<h>>
  BY <1>1, <1>2, ConcatEmptySeq
<1>9. t = <<>> => Append(part, h) = part \o rest
  BY <1>3, <1>8
<1>10. QED
  BY <1>2, <1>3, <1>4, <1>7, <1>9 DEF h, t

-----------------------------------------------------------------------------
\* What writing packets does to the two sockets and the network.
LEMMA WriteFacts ==
    ASSUME TypeOK, NEW e \in Ends, NEW s \in QSocket,
           NEW out \in SUBSET Packet, Write(e, s, out)
    PROVE  /\ sock' \in [Ends -> QSocket]
           /\ overdue' \in [Ends -> BOOLEAN]
           /\ net' \in [Ends -> SUBSET Packet]
           /\ sock'[e] = s /\ sock'[Peer(e)] = sock[Peer(e)]
           /\ net'[Peer(e)] = net[Peer(e)] \cup out /\ net'[e] = net[e]
<1>1. overdue' \in [Ends -> BOOLEAN]
  BY DEF TypeOK, Write
<1>2. sock' \in [Ends -> QSocket] /\ sock'[e] = s /\ sock'[Peer(e)] = sock[Peer(e)]
  BY PeerFacts DEF TypeOK, Write
<1>3. /\ net' \in [Ends -> SUBSET Packet]
      /\ net'[Peer(e)] = net[Peer(e)] \cup out /\ net'[e] = net[e]
  BY PeerFacts DEF TypeOK, Write
<1>4. QED
  BY <1>1, <1>2, <1>3

\* A fragment under a sequence number is a packet.
LEMMA DataOfType ==
    ASSUME NEW s \in QSocket, s.sendMessage # <<>>, NEW n \in Nat
    PROVE  DataOf(s, n) \in DataPacket
<1>1. s.sendMessage \in Seq(Fragments)
  BY DEF QSocket
<1>2. Head(s.sendMessage) \in Fragments
  BY <1>1, HeadTailProperties
<1>3. QED
  BY <1>2 DEF DataOf, DataPacket

\* A counted acknowledgement leaves its socket a socket (net_dgrm.c:402-424).
LEMMA AcknowledgedType ==
    ASSUME NEW s \in QSocket
    PROVE  Acknowledged(s) \in QSocket
<1> DEFINE left == IF s.sendMessage = <<>> THEN <<>> ELSE Tail(s.sendMessage)
           more == s.sendNext \/ left # <<>>
           done == s.canSend \/ left = <<>>
<1>1. s.ackSequence + 1 \in Nat
  BY DEF QSocket
<1>2. left \in Seq(Fragments)
  BY EmptySeq, HeadTailProperties DEF QSocket
<1>3. Acknowledged(s) = [s EXCEPT !.ackSequence = @ + 1, !.sendMessage = left,
                                  !.sendNext = more, !.canSend = done]
  BY Zenon DEF Acknowledged
<1>4. more \in BOOLEAN /\ done \in BOOLEAN
  OBVIOUS
<1> HIDE DEF left, more, done
<1>5. [s EXCEPT !.ackSequence = @ + 1, !.sendMessage = left,
                !.sendNext = more, !.canSend = done] \in QSocket
  BY <1>1, <1>2, <1>4, Zenon DEF QSocket
<1>6. QED
  BY <1>3, <1>5

\* What reading a fragment and reading the last one make of a socket is a socket
\* again (net_dgrm.c:438-454).
LEMMA ReceiverTypes ==
    ASSUME NEW s \in QSocket, NEW d \in Fragments
    PROVE  /\ [s EXCEPT !.receiveSequence = @ + 1,
                        !.receiveMessage = Append(@, d)] \in QSocket
           /\ [s EXCEPT !.receiveSequence = @ + 1,
                        !.receiveMessage = <<>>] \in QSocket
<1>1. s.receiveSequence + 1 \in Nat
  BY DEF QSocket
<1>2. Append(s.receiveMessage, d) \in Seq(Fragments) /\ <<>> \in Seq(Fragments)
  BY AppendProperties, EmptySeq DEF QSocket
<1>3. [s EXCEPT !.receiveSequence = @ + 1,
                !.receiveMessage = Append(@, d)] \in QSocket
  BY <1>1, <1>2, Zenon DEF QSocket
<1>4. [s EXCEPT !.receiveSequence = @ + 1,
                !.receiveMessage = <<>>] \in QSocket
  BY <1>1, <1>2, Zenon DEF QSocket
<1>5. QED
  BY <1>3, <1>4

\* So is what sending and repeating a fragment, and sending and reading a datagram
\* make of it (net_dgrm.c:178-197, 227-230, 263, 304, 384).
LEMMA SenderTypes ==
    ASSUME NEW s \in QSocket, NEW n \in Nat, NEW m \in Seq(Fragments)
    PROVE  /\ [s EXCEPT !.sendMessage = m, !.sendSequence = @ + 1,
                        !.canSend = FALSE] \in QSocket
           /\ SendMessageNext(s) \in QSocket
           /\ [s EXCEPT !.unreliableSendSequence = @ + 1] \in QSocket
           /\ [s EXCEPT !.unreliableReceiveSequence = n + 1] \in QSocket
           /\ [s EXCEPT !.sendNext = FALSE] \in QSocket
<1>1. /\ s.sendSequence + 1 \in Nat /\ s.unreliableSendSequence + 1 \in Nat
      /\ n + 1 \in Nat
  BY DEF QSocket
<1>2. [s EXCEPT !.sendMessage = m, !.sendSequence = @ + 1,
                !.canSend = FALSE] \in QSocket
  BY <1>1, Zenon DEF QSocket
<1>3. SendMessageNext(s) \in QSocket
  BY <1>1, Zenon DEF QSocket, SendMessageNext
<1>4. /\ [s EXCEPT !.unreliableSendSequence = @ + 1] \in QSocket
      /\ [s EXCEPT !.unreliableReceiveSequence = n + 1] \in QSocket
      /\ [s EXCEPT !.sendNext = FALSE] \in QSocket
  BY <1>1, Zenon DEF QSocket
<1>5. QED
  BY <1>2, <1>3, <1>4

\* A call that ends with FlushSendNext (net_dgrm.c:459) keeps the types, and adds
\* to its packets at most the next fragment.
LEMMA FlushFacts ==
    ASSUME TypeOK, NEW e \in Ends, NEW s \in QSocket,
           s.sendNext => s.sendMessage # <<>>,
           NEW out \in SUBSET Packet, FlushSendNext(e, s, out)
    PROVE  /\ sock' \in [Ends -> QSocket]
           /\ overdue' \in [Ends -> BOOLEAN]
           /\ net' \in [Ends -> SUBSET Packet]
           /\ sock'[Peer(e)] = sock[Peer(e)] /\ net'[e] = net[e]
           /\ ~s.sendNext =>
                /\ sock'[e] = s
                /\ net'[Peer(e)] = net[Peer(e)] \cup out
           /\ s.sendNext =>
                /\ sock'[e] = SendMessageNext(s)
                /\ net'[Peer(e)] = net[Peer(e)] \cup out
                                    \cup {DataOf(s, s.sendSequence)}
<1>1. s.sendSequence + 1 \in Nat
  BY DEF QSocket
<1>2. CASE s.sendNext
  <2>1. SendMessageNext(s) \in QSocket
    BY SenderTypes, EmptySeq
  <2>2. DataOf(s, s.sendSequence) \in Packet
    BY <1>2, DataOfType DEF Packet, QSocket
  <2>3. out \cup {DataOf(s, s.sendSequence)} \in SUBSET Packet
    BY <2>2
  <2>4. Write(e, SendMessageNext(s), out \cup {DataOf(s, s.sendSequence)})
    BY <1>2 DEF FlushSendNext
  <2>5. QED
    BY <1>2, <2>1, <2>3, <2>4, WriteFacts
<1>3. CASE ~s.sendNext
  BY <1>3, WriteFacts DEF FlushSendNext
<1>4. QED
  BY <1>2, <1>3

-----------------------------------------------------------------------------
\* What the invariant says of one socket, without the case distinction.
LEMMA PhaseFacts ==
    ASSUME ProtocolInv, NEW e \in Ends
    PROVE  /\ sock[e] \in QSocket
           /\ sock[e].sendNext => Pausing(e) /\ sock[e].sendMessage # <<>>
           /\ ~sock[e].canSend => sock[e].sendMessage # <<>>
                                 /\ sock[e].sendSequence - 1 \in Nat
<1>1. sock[e] \in QSocket
  BY DEF ProtocolInv, TypeOK
<1>2. Phase(e)
  BY DEF ProtocolInv, PhaseInv
<1>3. Sending(e) => sock[e].sendSequence - 1 \in Nat
  BY <1>1 DEF Sending, QSocket
<1>4. Pausing(e) \/ Stranded(e) => sock[e].sendSequence - 1 \in Nat
  BY <1>1 DEF Pausing, Stranded, QSocket
<1>5. sock[e].sendNext => Pausing(e) /\ sock[e].sendMessage # <<>>
  BY <1>2 DEF Phase, Resting, Unread, Unacknowledged, Pausing, Stranded, Sending
<1>6. ~sock[e].canSend => \/ Sending(e) /\ sock[e].sendMessage # <<>>
                          \/ Pausing(e) /\ sock[e].sendMessage # <<>>
                          \/ Stranded(e) /\ sock[e].sendMessage # <<>>
  BY <1>2 DEF Phase, Resting, Unread, Unacknowledged, Pausing, Stranded, Sending
<1>7. QED
  BY <1>1, <1>3, <1>4, <1>5, <1>6

\* A packet in transit that is data has a fragment, and a number to acknowledge.
LEMMA PacketTypes ==
    ASSUME NEW p \in Packet
    PROVE  /\ p.seq \in Nat
           /\ AckOf(p.seq) \in Packet
           /\ p.kind = "data" => p \in DataPacket /\ p.data \in Fragments
BY DEF Packet, DataPacket, AckPacket, UnreliablePacket, AckOf

\* The sockets NET_NewQSocket hands out have the types.
LEMMA TypeInit == Init => TypeOK
<1> SUFFICES ASSUME Init PROVE TypeOK
  OBVIOUS
<1>1. NewQSocket \in QSocket
  BY DEF NewQSocket, QSocket
<1>2. QED
  BY <1>1 DEF Init, TypeOK

\* What the driver relies on when it sends the next fragment, or the last one
\* once more: there is one, and it has a number.
FragmentReady(e) ==
    /\ sock[e].sendNext => sock[e].sendMessage # <<>>
    /\ ~sock[e].canSend =>
            sock[e].sendMessage # <<>> /\ sock[e].sendSequence - 1 \in Nat

LEMMA AlwaysReady ==
    ASSUME ProtocolInv, NEW e \in Ends
    PROVE  TypeOK /\ FragmentReady(e)
BY PhaseFacts DEF ProtocolInv, FragmentReady

\* Every call of the driver keeps the types.
LEMMA TypeStep ==
    ASSUME TypeOK, NEW e \in Ends, FragmentReady(e), EndStep(e)
    PROVE  TypeOK'
<1> USE DEF TypeOK
<1>0. TypeOK /\ Peer(e) \in Ends
  BY PeerFacts
<1>1. /\ sock[e] \in QSocket
      /\ sock[e].sendNext => sock[e].sendMessage # <<>>
  BY DEF FragmentReady
<1>2. ASSUME NEW m \in Messages[e], SendMessage(e, m)
      PROVE  TypeOK'
  <2> DEFINE s == [sock[e] EXCEPT !.sendMessage = m, !.sendSequence = @ + 1,
                                  !.canSend = FALSE]
  <2>1. m \in Seq(Fragments) /\ m # <<>>
    BY MessagesAssumption
  <2>2. s \in QSocket /\ s.sendMessage = m
    BY <1>1, <2>1, SenderTypes DEF QSocket
  <2>3. DataOf(s, sock[e].sendSequence) \in Packet
    BY <1>1, <2>1, <2>2, DataOfType DEF Packet, QSocket
  <2>4. Write(e, s, {DataOf(s, sock[e].sendSequence)})
    BY <1>2 DEF SendMessage, Datagram_SendMessage
  <2>5. sock' \in [Ends -> QSocket] /\ overdue' \in [Ends -> BOOLEAN]
        /\ net' \in [Ends -> SUBSET Packet]
    BY <1>0, <2>2, <2>3, <2>4, WriteFacts
  <2>6. sent' \in [Ends -> Seq(Seq(Fragments))]
    BY <1>0, <1>2, <2>1, AppendProperties
       DEF SendMessage, Datagram_SendMessage
  <2>7. QED
    BY <1>0, <1>2, <2>5, <2>6 DEF SendMessage, Datagram_SendMessage
<1>3. CASE Datagram_CanSendMessage(e)
  <2>1. FlushSendNext(e, sock[e], {})
    BY <1>3 DEF Datagram_CanSendMessage
  <2>2. sock' \in [Ends -> QSocket] /\ overdue' \in [Ends -> BOOLEAN]
        /\ net' \in [Ends -> SUBSET Packet]
    BY <1>0, <1>1, <2>1, FlushFacts
  <2>3. QED
    BY <1>0, <1>3, <2>2 DEF Datagram_CanSendMessage
<1>4. CASE Datagram_SendUnreliableMessage(e)
  <2> DEFINE s == [sock[e] EXCEPT !.unreliableSendSequence = @ + 1]
             u == [kind |-> "unreliable", seq |-> sock[e].unreliableSendSequence]
  <2>1. s \in QSocket
    BY <1>1, EmptySeq, SenderTypes
  <2>2. u \in Packet
    BY <1>1 DEF Packet, UnreliablePacket, QSocket
  <2>3. Write(e, s, {u})
    BY <1>4 DEF Datagram_SendUnreliableMessage
  <2>4. sock' \in [Ends -> QSocket] /\ overdue' \in [Ends -> BOOLEAN]
        /\ net' \in [Ends -> SUBSET Packet]
    BY <1>0, <2>1, <2>2, <2>3, WriteFacts
  <2>5. QED
    BY <1>0, <1>4, <2>4 DEF Datagram_SendUnreliableMessage
<1>5. CASE TimerExpires(e)
  BY <1>0, <1>5 DEF TimerExpires
<1>6. CASE GetMessage(e)
  <2>1. CASE ReSendMessage(e)
    <3> DEFINE s == [sock[e] EXCEPT !.sendNext = FALSE]
               d == DataOf(sock[e], sock[e].sendSequence - 1)
    <3>1. s \in QSocket
      BY <1>1, Zenon DEF QSocket
    <3>2. sock[e].sendMessage # <<>> /\ sock[e].sendSequence - 1 \in Nat
      BY <2>1 DEF ReSendMessage, FragmentReady
    <3>3. d \in Packet
      BY <1>1, <3>2, DataOfType DEF Packet
    <3>4. Write(e, s, {d})
      BY <2>1 DEF ReSendMessage
    <3>5. sock' \in [Ends -> QSocket] /\ overdue' \in [Ends -> BOOLEAN]
          /\ net' \in [Ends -> SUBSET Packet]
      BY <1>0, <3>1, <3>3, <3>4, WriteFacts
    <3>6. QED
      BY <1>0, <1>6, <3>5 DEF GetMessage
  <2>2. CASE UNCHANGED <<sock, net, overdue>>
    BY <1>0, <1>6, <2>2 DEF GetMessage
  <2>3. QED
    BY <1>6, <2>1, <2>2 DEF GetMessage
<1>7. ASSUME NEW p \in net[e], ReadStaleUnreliable(e, p)
      PROVE  TypeOK'
  <2>1. FlushSendNext(e, sock[e], {})
    BY <1>7 DEF ReadStaleUnreliable
  <2>2. sock' \in [Ends -> QSocket] /\ overdue' \in [Ends -> BOOLEAN]
        /\ net' \in [Ends -> SUBSET Packet]
    BY <1>0, <1>1, <2>1, FlushFacts
  <2>3. QED
    BY <1>0, <1>7, <2>2 DEF ReadStaleUnreliable
<1>8. ASSUME NEW p \in net[e], ReadUnreliable(e, p)
      PROVE  TypeOK'
  <2> DEFINE s == [sock[e] EXCEPT !.unreliableReceiveSequence = p.seq + 1]
  <2>0. p \in Packet /\ p.seq \in Nat
    BY <1>0, PacketTypes
  <2>1. s \in QSocket
    BY <1>1, <2>0, EmptySeq, SenderTypes
  <2>2. s.sendNext => s.sendMessage # <<>>
    BY <1>1, Zenon DEF QSocket
  <2>3. FlushSendNext(e, s, {})
    BY <1>8 DEF ReadUnreliable
  <2> HIDE DEF s
  <2>4. sock' \in [Ends -> QSocket] /\ overdue' \in [Ends -> BOOLEAN]
        /\ net' \in [Ends -> SUBSET Packet]
    BY <1>0, <2>1, <2>2, <2>3, FlushFacts
  <2>5. datagrams' \in [Ends -> Seq(Nat)]
    BY <1>0, <1>8, <2>0, AppendProperties DEF ReadUnreliable
  <2>6. QED
    BY <1>0, <1>8, <2>4, <2>5 DEF ReadUnreliable
<1>9. ASSUME NEW p \in net[e], ReadAck(e, p)
      PROVE  TypeOK'
  <2>1. Acknowledged(sock[e]) \in QSocket
    BY <1>1, AcknowledgedType
  <2>2. Write(e, Acknowledged(sock[e]), {})
    BY <1>9 DEF ReadAck
  <2>3. sock' \in [Ends -> QSocket] /\ overdue' \in [Ends -> BOOLEAN]
        /\ net' \in [Ends -> SUBSET Packet]
    BY <1>0, <2>1, <2>2, WriteFacts
  <2>4. QED
    BY <1>0, <1>9, <2>3 DEF ReadAck
<1>10. ASSUME NEW p \in net[e], SkipAck(e, p)
       PROVE  TypeOK'
  BY <1>0, <1>10 DEF SkipAck, vars
<1>11. ASSUME NEW p \in net[e], ReadDuplicateData(e, p)
       PROVE  TypeOK'
  <2>1. AckOf(p.seq) \in Packet
    BY <1>0, PacketTypes
  <2>2. Write(e, sock[e], {AckOf(p.seq)})
    BY <1>11 DEF ReadDuplicateData
  <2>3. sock' \in [Ends -> QSocket] /\ overdue' \in [Ends -> BOOLEAN]
        /\ net' \in [Ends -> SUBSET Packet]
    BY <1>0, <1>1, <2>1, <2>2, WriteFacts
  <2>4. QED
    BY <1>0, <1>11, <2>3 DEF ReadDuplicateData
<1>12. ASSUME NEW p \in net[e], ReadFragment(e, p)
       PROVE  TypeOK'
  <2> DEFINE s == [sock[e] EXCEPT !.receiveSequence = @ + 1,
                                  !.receiveMessage = Append(@, p.data)]
  <2>1. AckOf(p.seq) \in Packet /\ p.data \in Fragments
    BY <1>0, <1>12, PacketTypes DEF ReadFragment
  <2>2. s \in QSocket
    BY <1>1, <2>1, ReceiverTypes
  <2>3. Write(e, s, {AckOf(p.seq)})
    BY <1>12 DEF ReadFragment
  <2>4. sock' \in [Ends -> QSocket] /\ overdue' \in [Ends -> BOOLEAN]
        /\ net' \in [Ends -> SUBSET Packet]
    BY <1>0, <2>1, <2>2, <2>3, WriteFacts
  <2>5. QED
    BY <1>0, <1>12, <2>4 DEF ReadFragment
<1>13. ASSUME NEW p \in net[e], ReadLastFragment(e, p)
       PROVE  TypeOK'
  <2> DEFINE s == [sock[e] EXCEPT !.receiveSequence = @ + 1,
                                  !.receiveMessage = <<>>]
  <2>1. AckOf(p.seq) \in Packet /\ p.data \in Fragments
    BY <1>0, <1>13, PacketTypes DEF ReadLastFragment
  <2>2. s \in QSocket
    BY <1>1, <2>1, ReceiverTypes
  <2>3. s.sendNext => s.sendMessage # <<>>
    BY <1>1, Zenon DEF QSocket
  <2>4. FlushSendNext(e, s, {AckOf(p.seq)})
    BY <1>13 DEF ReadLastFragment
  <2> HIDE DEF s
  <2>5. sock' \in [Ends -> QSocket] /\ overdue' \in [Ends -> BOOLEAN]
        /\ net' \in [Ends -> SUBSET Packet]
    BY <1>0, <2>1, <2>2, <2>3, <2>4, FlushFacts
  <2>6. Append(sock[e].receiveMessage, p.data) \in Seq(Fragments)
    BY <1>1, <2>1, AppendProperties DEF QSocket
  <2>7. delivered' \in [Ends -> Seq(Seq(Fragments))]
    BY <1>0, <1>13, <2>6, AppendProperties DEF ReadLastFragment
  <2>8. QED
    BY <1>0, <1>13, <2>5, <2>7 DEF ReadLastFragment
<1>14. ASSUME pc[e] = "reading", ReadNothing(e)
       PROVE  TypeOK'
  <2>1. FlushSendNext(e, sock[e], {})
    BY <1>14 DEF ReadNothing
  <2>2. sock' \in [Ends -> QSocket] /\ overdue' \in [Ends -> BOOLEAN]
        /\ net' \in [Ends -> SUBSET Packet]
    BY <1>0, <1>1, <2>1, FlushFacts
  <2>3. QED
    BY <1>0, <1>14, <2>2 DEF ReadNothing
<1>15. CASE ReadError(e)
  BY <1>0, <1>15 DEF ReadError
<1>16. CASE Lose(e)
  BY <1>0, <1>16 DEF Lose
<1>17. CASE Close(e)
  BY <1>0, <1>17 DEF Close
<1>18. QED
  BY <1>2, <1>3, <1>4, <1>5, <1>6, <1>7, <1>8, <1>9, <1>10, <1>11, <1>12,
     <1>13, <1>14, <1>15, <1>16, <1>17 DEF EndStep, Read, ReadPacket

-----------------------------------------------------------------------------
\* A direction whose sender and receiver keep the fields it is about keeps its
\* phase.
LEMMA PhaseUntouched ==
    ASSUME NEW e \in Ends, Phase(e),
           sock'[e].canSend = sock[e].canSend,
           sock'[e].sendNext = sock[e].sendNext,
           sock'[e].sendMessage = sock[e].sendMessage,
           sock'[e].sendSequence = sock[e].sendSequence,
           sock'[e].ackSequence = sock[e].ackSequence,
           sock'[Peer(e)].receiveSequence = sock[Peer(e)].receiveSequence,
           sock'[Peer(e)].receiveMessage = sock[Peer(e)].receiveMessage,
           sent'[e] = sent[e], delivered'[e] = delivered[e]
    PROVE  Phase(e)'
BY DEF Phase, Resting, Sending, Unread, Unacknowledged, Pausing, Stranded,
       UnderWay

\* A call that ends with FlushSendNext moves its own stream from pausing to a
\* new fragment, or not at all; s is the socket before the flush.
LEMMA PhaseFlushed ==
    ASSUME TypeOK, NEW e \in Ends, Phase(e),
           NEW s \in QSocket, NEW out \in SUBSET Packet,
           FlushSendNext(e, s, out),
           s.canSend = sock[e].canSend, s.sendNext = sock[e].sendNext,
           s.sendMessage = sock[e].sendMessage,
           s.sendSequence = sock[e].sendSequence,
           s.ackSequence = sock[e].ackSequence,
           sent'[e] = sent[e], delivered'[e] = delivered[e]
    PROVE  Phase(e)'
<1>1. s.sendNext => s.sendMessage # <<>>
  BY DEF Phase, Resting, Unread, Unacknowledged, Pausing, Stranded, Sending
<1>2. sock'[Peer(e)] = sock[Peer(e)]
  BY <1>1, FlushFacts
<1>3. CASE ~s.sendNext
  <2>1. sock'[e] = s
    BY <1>1, <1>3, FlushFacts
  <2>2. QED
    BY <1>2, <1>3, <2>1, PhaseUntouched
<1>4. CASE s.sendNext
  <2>1. sock'[e] = SendMessageNext(s)
    BY <1>1, <1>4, FlushFacts
  <2>2. /\ sock'[e].canSend = s.canSend /\ ~sock'[e].sendNext
        /\ sock'[e].sendMessage = s.sendMessage
        /\ sock'[e].sendSequence = s.sendSequence + 1
        /\ sock'[e].ackSequence = s.ackSequence
    BY <2>1 DEF SendMessageNext, QSocket
  <2>3. Pausing(e)
    BY <1>4 DEF Phase, Resting, Unread, Unacknowledged, Pausing, Stranded,
                Sending
  <2>4. Unread(e)'
    BY <1>2, <2>2, <2>3 DEF Pausing, Unread, Sending, UnderWay
  <2>5. QED
    BY <2>4 DEF Phase
<1>5. QED
  BY <1>3, <1>4

\* The packets of an end stay as PacketInv says when its counters do not go
\* back, and the fragment under way changes only with its sequence number.
LEMMA PacketsKept ==
    ASSUME TypeOK, TypeOK', NEW e \in Ends, NEW out,
           \A p \in net[Peer(e)] : FromSender(e, p),
           net'[Peer(e)] \subseteq net[Peer(e)] \cup out,
           \A p \in out : FromSender(e, p)',
           sock'[e].sendSequence >= sock[e].sendSequence,
           sock'[e].receiveSequence >= sock[e].receiveSequence,
           sock'[e].sendSequence = sock[e].sendSequence /\ Sending(e)'
             => Sending(e) /\ sock'[e].sendMessage = sock[e].sendMessage
    PROVE  \A p \in net'[Peer(e)] : FromSender(e, p)'
<1>1. SUFFICES ASSUME NEW p \in net'[Peer(e)], p \in net[Peer(e)]
               PROVE  FromSender(e, p)'
  OBVIOUS
<1>2. FromSender(e, p)
  BY <1>1
<1>3. p \in Packet /\ p.seq \in Nat
  BY <1>1, PeerFacts, PacketTypes DEF TypeOK
<1>4. /\ sock[e].sendSequence \in Nat /\ sock'[e].sendSequence \in Nat
      /\ sock[e].receiveSequence \in Nat /\ sock'[e].receiveSequence \in Nat
  BY DEF TypeOK, QSocket
<1>5. ASSUME p.kind = "data"
      PROVE  /\ p.seq < sock'[e].sendSequence
             /\ Sending(e)' /\ p.seq + 1 = sock'[e].sendSequence =>
                  /\ p.eom = (Len(sock'[e].sendMessage) = 1)
                  /\ p.data = Head(sock'[e].sendMessage)
  <2>1. p.seq < sock[e].sendSequence
    BY <1>2, <1>5 DEF FromSender
  <2>2. p.seq < sock'[e].sendSequence
    BY <1>3, <1>4, <2>1
  <2>3. ASSUME Sending(e)', p.seq + 1 = sock'[e].sendSequence
        PROVE  Sending(e) /\ p.seq + 1 = sock[e].sendSequence
               /\ sock'[e].sendMessage = sock[e].sendMessage
    <3>1. sock'[e].sendSequence = sock[e].sendSequence
      BY <1>3, <1>4, <2>1, <2>3
    <3>2. QED
      BY <2>3, <3>1
  <2>4. QED
    BY <1>2, <1>5, <2>2, <2>3 DEF FromSender
<1>6. p.kind = "ack" => p.seq < sock'[e].receiveSequence
  BY <1>2, <1>3, <1>4 DEF FromSender
<1>7. QED
  BY <1>5, <1>6 DEF FromSender

\* A step of one end, given the step's new packets and what it makes of the
\* phases of the two directions, preserves the invariant.
LEMMA StepPreserves ==
    ASSUME ProtocolInv, TypeOK', NEW e \in Ends, NEW out,
           Phase(e)', Phase(Peer(e))',
           sock'[Peer(e)] = sock[Peer(e)],
           net'[e] \subseteq net[e],
           net'[Peer(e)] \subseteq net[Peer(e)] \cup out,
           \A p \in out : FromSender(e, p)',
           sock'[e].sendSequence >= sock[e].sendSequence,
           sock'[e].receiveSequence >= sock[e].receiveSequence,
           sock'[e].sendSequence = sock[e].sendSequence /\ Sending(e)'
             => Sending(e) /\ sock'[e].sendMessage = sock[e].sendMessage
    PROVE  ProtocolInv'
<1>1. /\ Peer(e) \in Ends /\ Peer(Peer(e)) = e
      /\ Ends = {e, Peer(e)}
  BY PeerFacts
<1>2. TypeOK /\ PacketInv
  BY DEF ProtocolInv
<1>3. \A p \in net'[Peer(e)] : FromSender(e, p)'
  BY <1>2, PacketsKept DEF PacketInv
<1>4. \A p \in net'[e] : FromSender(Peer(e), p)'
  BY <1>1, <1>2 DEF PacketInv, FromSender, Sending
<1>5. PacketInv'
  BY <1>1, <1>3, <1>4 DEF PacketInv
<1>6. PhaseInv'
  BY <1>1 DEF PhaseInv
<1>7. QED
  BY <1>5, <1>6 DEF ProtocolInv

\* A step that touches no socket and adds no packet.
LEMMA QuietStep ==
    ASSUME ProtocolInv, TypeOK', NEW e \in Ends,
           sock' = sock, sent' = sent, delivered' = delivered,
           \A d \in Ends : net'[d] \subseteq net[d]
    PROVE  ProtocolInv'
<1>1. \A d \in Ends : Phase(d)
  BY DEF ProtocolInv, PhaseInv
<1>2. \A d \in Ends : Phase(d)'
  BY <1>1, PhaseUntouched
<1>3. \A d \in Ends : Peer(d) \in Ends
  BY PeerFacts
<1>4. PacketInv'
  BY <1>3 DEF ProtocolInv, PacketInv, FromSender, Sending
<1>5. QED
  BY <1>2, <1>4 DEF ProtocolInv, PhaseInv

\* A fragment sent under the last sequence number is as PacketInv says.
LEMMA FragmentSent ==
    ASSUME TypeOK', NEW e \in Ends, NEW s \in QSocket, NEW n \in Nat,
           NEW d, d = DataOf(s, n),
           sock'[e].sendMessage = s.sendMessage,
           sock'[e].sendSequence = n + 1
    PROVE  FromSender(e, d)'
<1>1. /\ d.kind = "data" /\ d.seq = n
      /\ d.eom = (Len(s.sendMessage) = 1) /\ d.data = Head(s.sendMessage)
  BY Zenon DEF DataOf
<1>2. n < n + 1
  OBVIOUS
<1>3. QED
  BY <1>1, <1>2 DEF FromSender

\* A step that ends GetMessage, or CanSendMessage: s is the socket before the
\* flush, out holds the acknowledgement of what was read, if anything.
LEMMA FlushStep ==
    ASSUME ProtocolInv, TypeOK', NEW e \in Ends,
           NEW s \in QSocket, NEW out \in SUBSET Packet,
           FlushSendNext(e, s, out),
           s.canSend = sock[e].canSend, s.sendNext = sock[e].sendNext,
           s.sendMessage = sock[e].sendMessage,
           s.sendSequence = sock[e].sendSequence,
           s.ackSequence = sock[e].ackSequence,
           s.receiveSequence >= sock[e].receiveSequence,
           \A p \in out : p.kind = "ack" /\ p.seq < s.receiveSequence,
           Phase(Peer(e))',
           sent'[e] = sent[e], delivered'[e] = delivered[e]
    PROVE  ProtocolInv'
<1>1. TypeOK /\ Phase(e) /\ Peer(e) \in Ends
  BY PeerFacts DEF ProtocolInv, PhaseInv
<1>2. s.sendNext => s.sendMessage # <<>>
  BY PhaseFacts
<1>3. Phase(e)'
  BY <1>1, PhaseFlushed
<1>4. sock'[Peer(e)] = sock[Peer(e)] /\ net'[e] = net[e]
  BY <1>1, <1>2, FlushFacts
<1>5. CASE ~s.sendNext
  <2>1. sock'[e] = s /\ net'[Peer(e)] = net[Peer(e)] \cup out
    BY <1>1, <1>2, <1>5, FlushFacts
  <2>2. \A p \in out : FromSender(e, p)'
    BY <2>1 DEF FromSender
  <2>3. Sending(e)' => Sending(e)
    BY <2>1 DEF Sending
  <2>4. sock'[e].sendSequence >= sock[e].sendSequence
    BY <2>1 DEF QSocket
  <2>5. QED
    BY <1>3, <1>4, <2>1, <2>2, <2>3, <2>4, StepPreserves
<1>6. CASE s.sendNext
  <2> DEFINE d == DataOf(s, s.sendSequence)
  <2>1. /\ sock'[e] = SendMessageNext(s)
        /\ net'[Peer(e)] = net[Peer(e)] \cup out \cup {d}
    BY <1>1, <1>2, <1>6, FlushFacts
  <2>2. /\ sock'[e].sendSequence = s.sendSequence + 1
        /\ sock'[e].sendMessage = s.sendMessage
        /\ sock'[e].receiveSequence = s.receiveSequence
        /\ s.sendSequence \in Nat
    BY <2>1 DEF SendMessageNext, QSocket
  <2>3. FromSender(e, d)'
    BY <2>2, FragmentSent
  <2>4. \A p \in out : FromSender(e, p)'
    BY <2>2 DEF FromSender
  <2>5. /\ sock'[e].sendSequence >= sock[e].sendSequence
        /\ sock'[e].sendSequence # sock[e].sendSequence
        /\ sock'[e].receiveSequence >= sock[e].receiveSequence
    BY <2>2
  <2> HIDE DEF d
  <2>6. /\ net'[Peer(e)] \subseteq net[Peer(e)] \cup (out \cup {d})
        /\ \A p \in out \cup {d} : FromSender(e, p)'
        /\ net'[e] \subseteq net[e]
    BY <1>4, <2>1, <2>3, <2>4
  <2>7. QED
    BY <1>3, <1>4, <2>5, <2>6, StepPreserves
<1>7. QED
  BY <1>5, <1>6

-----------------------------------------------------------------------------
\* One lemma per step that moves a stream to another phase.

\* A new message (161-205) starts from a resting stream, and sends its first fragment.
LEMMA SendStep ==
    ASSUME ProtocolInv, TypeOK', NEW e \in Ends, NEW m \in Messages[e],
           SendMessage(e, m)
    PROVE  ProtocolInv'
<1> DEFINE s == [sock[e] EXCEPT !.sendMessage = m, !.sendSequence = @ + 1,
                                !.canSend = FALSE]
           d == DataOf(s, sock[e].sendSequence)
<1>1. /\ TypeOK /\ Phase(e) /\ Phase(Peer(e)) /\ Peer(e) \in Ends
      /\ Peer(e) # e /\ Peer(Peer(e)) = e
  BY PeerFacts DEF ProtocolInv, PhaseInv
<1>2. m \in Seq(Fragments) /\ m # <<>>
  BY MessagesAssumption
<1>3. sock[e] \in QSocket
  BY <1>1 DEF TypeOK
<1>4. s \in QSocket
  BY <1>2, <1>3, SenderTypes
<1>5. /\ s.sendMessage = m /\ s.sendSequence = sock[e].sendSequence + 1
      /\ s.canSend = FALSE /\ s.sendNext = sock[e].sendNext
      /\ s.ackSequence = sock[e].ackSequence
      /\ s.receiveSequence = sock[e].receiveSequence
      /\ s.receiveMessage = sock[e].receiveMessage
      /\ sock[e].sendSequence \in Nat /\ sock[e].receiveSequence \in Nat
  BY <1>3 DEF QSocket
<1>6. Write(e, s, {d})
  BY DEF SendMessage, Datagram_SendMessage
<1> HIDE DEF s
<1>7. d \in Packet
  BY <1>2, <1>4, <1>5, DataOfType DEF Packet
<1>8. sock'[e] = s => \A p \in {d} : FromSender(e, p)'
  BY <1>4, <1>5, FragmentSent
<1> HIDE DEF d
<1>9. /\ sock'[e] = s /\ sock'[Peer(e)] = sock[Peer(e)]
      /\ net'[Peer(e)] = net[Peer(e)] \cup {d} /\ net'[e] = net[e]
  BY <1>1, <1>4, <1>6, <1>7, WriteFacts
<1>10. /\ sent'[e] = Append(sent[e], m) /\ sent'[Peer(e)] = sent[Peer(e)]
       /\ delivered' = delivered /\ pc' = pc
  BY <1>1 DEF SendMessage, Datagram_SendMessage, TypeOK
<1>11. Phase(e)'
  <2>1. Resting(e)
    BY <1>1 DEF SendMessage, Phase, Unread, Unacknowledged, Pausing, Stranded,
                Sending
  <2>2. <<>> \o m = m
    BY <1>2, ConcatEmptySeq
  <2>3. Unread(e)'
    BY <1>2, <1>5, <1>9, <1>10, <2>1, <2>2 DEF Resting, Unread, Sending, UnderWay
  <2>4. QED
    BY <2>3 DEF Phase
<1>12. Phase(Peer(e))'
  BY <1>1, <1>5, <1>9, <1>10, PhaseUntouched
<1>13. /\ sock'[e].sendSequence >= sock[e].sendSequence
       /\ sock'[e].receiveSequence >= sock[e].receiveSequence
       /\ sock'[e].sendSequence # sock[e].sendSequence
  BY <1>5, <1>9
<1>14. \A p \in {d} : FromSender(e, p)'
  BY <1>8, <1>9
<1>15. QED
  BY <1>9, <1>11, <1>12, <1>13, <1>14, StepPreserves

\* Repeating a fragment (net_dgrm.c:241-271) keeps the invariant: it sends what is
\* under way, under the number it was sent with, or strands a pausing stream.
LEMMA ReSendStep ==
    ASSUME ProtocolInv, TypeOK', NEW e \in Ends,
           GetMessage(e), ReSendMessage(e)
    PROVE  ProtocolInv'
<1> DEFINE s == [sock[e] EXCEPT !.sendNext = FALSE]
           d == DataOf(sock[e], sock[e].sendSequence - 1)
<1>1. /\ TypeOK /\ Phase(e) /\ Phase(Peer(e)) /\ Peer(e) \in Ends
      /\ Peer(e) # e /\ Peer(Peer(e)) = e
  BY PeerFacts DEF ProtocolInv, PhaseInv
<1>2. sock[e] \in QSocket /\ ~sock[e].canSend
  BY PhaseFacts DEF ReSendMessage
<1>3. s \in QSocket
  BY <1>2, EmptySeq, SenderTypes
<1>4. /\ s.canSend = sock[e].canSend /\ s.sendNext = FALSE
      /\ s.sendMessage = sock[e].sendMessage
      /\ s.sendSequence = sock[e].sendSequence
      /\ s.ackSequence = sock[e].ackSequence
      /\ s.receiveSequence = sock[e].receiveSequence
      /\ s.receiveMessage = sock[e].receiveMessage
  BY <1>2 DEF QSocket
<1>5. sock[e].sendMessage # <<>> /\ sock[e].sendSequence - 1 \in Nat
      /\ sock[e].sendSequence \in Nat /\ sock[e].receiveSequence \in Nat
  BY <1>2, PhaseFacts DEF QSocket
<1>6. Write(e, s, {d})
  BY DEF ReSendMessage
<1> HIDE DEF s
<1>7. d \in Packet
  BY <1>2, <1>5, DataOfType DEF Packet
<1>8. sock'[e] = s => \A p \in {d} : FromSender(e, p)'
  BY <1>2, <1>4, <1>5, FragmentSent
<1> HIDE DEF d
<1>9. /\ sock'[e] = s /\ sock'[Peer(e)] = sock[Peer(e)]
      /\ net'[Peer(e)] = net[Peer(e)] \cup {d} /\ net'[e] = net[e]
  BY <1>1, <1>3, <1>6, <1>7, WriteFacts
<1>10. sent' = sent /\ delivered' = delivered
  BY DEF GetMessage
<1>11. ASSUME sock[e].sendNext PROVE Phase(e)' /\ ~Sending(e)'
  <2>1. Pausing(e)
    BY <1>11, PhaseFacts
  <2>2. Stranded(e)'
    BY <1>4, <1>9, <1>10, <2>1 DEF Pausing, Stranded, UnderWay
  <2>3. sock'[e].sendSequence = sock'[e].ackSequence
        /\ sock'[e].sendSequence \in Nat
    BY <1>4, <1>5, <1>9, <2>1 DEF Pausing
  <2>4. QED
    BY <2>2, <2>3 DEF Phase, Sending
<1>12. ASSUME ~sock[e].sendNext PROVE Phase(e)' /\ (Sending(e)' => Sending(e))
  <2>1. s.sendNext = sock[e].sendNext
    BY <1>2, <1>4, <1>12 DEF QSocket
  <2>2. Phase(e)'
    BY <1>1, <1>4, <1>9, <1>10, <2>1, PhaseUntouched
  <2>3. Sending(e)' => Sending(e)
    BY <1>4, <1>9, <1>12 DEF Sending
  <2>4. QED
    BY <2>2, <2>3
<1>13. Phase(e)' /\ (Sending(e)' => Sending(e))
  BY <1>11, <1>12
<1>14. Phase(Peer(e))'
  BY <1>1, <1>4, <1>9, <1>10, PhaseUntouched
<1>15. /\ sock'[e].sendSequence >= sock[e].sendSequence
       /\ sock'[e].receiveSequence >= sock[e].receiveSequence
       /\ sock'[e].sendSequence = sock[e].sendSequence /\ Sending(e)'
            => Sending(e) /\ sock'[e].sendMessage = sock[e].sendMessage
  BY <1>4, <1>5, <1>9, <1>13
<1> DEFINE out == {d}
<1>16. /\ net'[e] \subseteq net[e]
       /\ net'[Peer(e)] \subseteq net[Peer(e)] \cup out
       /\ \A p \in out : FromSender(e, p)'
       /\ sock'[Peer(e)] = sock[Peer(e)]
  BY <1>8, <1>9
<1> HIDE DEF out
<1>17. QED
  BY <1>13, <1>14, <1>15, <1>16, StepPreserves

\* Only a fragment that was read has a current acknowledgement in transit.
LEMMA AckIsCurrent ==
    ASSUME ProtocolInv, NEW e \in Ends, NEW p \in net[e], ReadAck(e, p)
    PROVE  Unacknowledged(e)
<1>1. /\ TypeOK /\ Phase(e) /\ Peer(e) \in Ends /\ Peer(Peer(e)) = e
  BY PeerFacts DEF ProtocolInv, PhaseInv
<1>2. p.kind = "ack" /\ p.seq = sock[e].sendSequence - 1
      /\ p.seq = sock[e].ackSequence
  BY DEF ReadAck, IsCurrentAck
<1>3. p.seq < sock[Peer(e)].receiveSequence
  BY <1>1, <1>2 DEF ProtocolInv, PacketInv, FromSender
<1>4. /\ sock[e].sendSequence \in Nat /\ sock[e].ackSequence \in Nat
      /\ sock[Peer(e)].receiveSequence \in Nat
  BY <1>1 DEF TypeOK, QSocket
<1>5. QED
  BY <1>1, <1>2, <1>3, <1>4 DEF Phase, Resting, Unread, Pausing, Stranded

\* A counted acknowledgement (net_dgrm.c:402-424) ends a fragment, or the message.
LEMMA AckStep ==
    ASSUME ProtocolInv, TypeOK', NEW e \in Ends, NEW p \in net[e],
           pc[e] = "reading", ReadAck(e, p)
    PROVE  ProtocolInv'
<1>1. /\ TypeOK /\ Phase(e) /\ Phase(Peer(e)) /\ Peer(e) \in Ends
      /\ Peer(e) # e /\ Peer(Peer(e)) = e
  BY PeerFacts DEF ProtocolInv, PhaseInv
<1>2. sock[e] \in QSocket /\ Acknowledged(sock[e]) \in QSocket
  BY <1>1, AcknowledgedType DEF TypeOK
<1>3. /\ sock'[e] = Acknowledged(sock[e]) /\ sock'[Peer(e)] = sock[Peer(e)]
      /\ net'[Peer(e)] = net[Peer(e)] /\ net'[e] = net[e]
  <2> DEFINE none == {}
             s == Acknowledged(sock[e])
  <2>1. Write(e, s, none) /\ none \in SUBSET Packet /\ none = {}
    BY DEF ReadAck
  <2> HIDE DEF none, s
  <2>2. /\ sock'[e] = s /\ sock'[Peer(e)] = sock[Peer(e)]
        /\ net'[Peer(e)] = net[Peer(e)] \cup none /\ net'[e] = net[e]
    BY <1>1, <1>2, <2>1, WriteFacts DEF s
  <2>3. QED
    BY <2>1, <2>2 DEF s
<1>4. sent' = sent /\ delivered' = delivered /\ pc' = pc
  BY DEF ReadAck
<1>7. /\ sock[e].sendSequence \in Nat /\ sock[e].ackSequence \in Nat
      /\ sock[e].receiveSequence \in Nat
      /\ sock[e].sendMessage \in Seq(Fragments)
      /\ sock[e].canSend \in BOOLEAN /\ sock[e].sendNext \in BOOLEAN
  BY <1>1 DEF TypeOK, QSocket
<1>8. Unacknowledged(e)
  BY AckIsCurrent
<1>9. /\ sock[e].sendMessage # <<>> /\ ~sock[e].canSend /\ ~sock[e].sendNext
      /\ sock[e].sendSequence = sock[e].ackSequence + 1
      /\ sock[Peer(e)].receiveSequence = sock[e].sendSequence
  BY <1>8 DEF Unacknowledged, Sending
<1> DEFINE left == Tail(sock[e].sendMessage)
<1>10. /\ sock'[e].ackSequence = sock[e].ackSequence + 1
       /\ sock'[e].sendSequence = sock[e].sendSequence
       /\ sock'[e].receiveSequence = sock[e].receiveSequence
       /\ sock'[e].receiveMessage = sock[e].receiveMessage
       /\ sock'[e].sendMessage = left
  BY <1>2, <1>3, <1>9 DEF Acknowledged, QSocket
<1>11. /\ sock'[e].sendNext <=> left # <<>>
       /\ sock'[e].canSend <=> left = <<>>
  BY <1>2, <1>3, <1>9 DEF Acknowledged, QSocket
<1>12. Len(sock[e].sendMessage) = 1 <=> left = <<>>
  BY <1>7, <1>9, MoveHead
<1> HIDE DEF left
<1>13. ASSUME left = <<>> PROVE Phase(e)'
  <2>1. Resting(e)'
    BY <1>3, <1>4, <1>8, <1>9, <1>10, <1>11, <1>12, <1>13
       DEF Resting, Unacknowledged
  <2>2. QED
    BY <2>1 DEF Phase
<1>14. ASSUME left # <<>> PROVE Phase(e)'
  <2>1. UnderWay(e, Tail(sock[e].sendMessage))
    BY <1>8, <1>12, <1>14 DEF Unacknowledged
  <2>2. UnderWay(e, left)
    BY <2>1 DEF left
  <2>3. Pausing(e)'
    BY <1>3, <1>4, <1>7, <1>9, <1>10, <1>11, <1>14, <2>2 DEF Pausing, UnderWay
  <2>4. QED
    BY <2>3 DEF Phase
<1>15. Phase(Peer(e))'
  BY <1>1, <1>3, <1>4, <1>10, PhaseUntouched
<1>16. Phase(e)'
  BY <1>13, <1>14
<1>17. ~Sending(e)'
  BY <1>11 DEF Sending
<1>18. /\ sock'[e].sendSequence >= sock[e].sendSequence
       /\ sock'[e].receiveSequence >= sock[e].receiveSequence
       /\ sock'[e].sendSequence = sock[e].sendSequence /\ Sending(e)'
            => Sending(e) /\ sock'[e].sendMessage = sock[e].sendMessage
  BY <1>7, <1>10, <1>17
<1> DEFINE out == {}
<1>19. /\ \A q \in out : FromSender(e, q)'
       /\ net'[e] \subseteq net[e]
       /\ net'[Peer(e)] \subseteq net[Peer(e)] \cup out
  BY <1>3
<1> HIDE DEF out
<1>20. QED
  BY <1>3, <1>15, <1>16, <1>18, <1>19, StepPreserves

\* The acknowledgement of a packet is as PacketInv says once its fragment has
\* been counted, by this step or before.
LEMMA AckSent ==
    ASSUME TypeOK', NEW e \in Ends, NEW n \in Nat,
           n < sock'[e].receiveSequence, NEW a, a = AckOf(n)
    PROVE  FromSender(e, a)'
<1>1. a.kind = "ack" /\ a.seq = n
  BY DEF AckOf
<1>2. QED
  BY <1>1 DEF FromSender

\* What a data packet in transit to e says about the stream to e.
LEMMA DataRead ==
    ASSUME ProtocolInv, NEW e \in Ends, NEW p \in net[e], p.kind = "data"
    PROVE  /\ p.seq \in Nat /\ p.data \in Fragments /\ AckOf(p.seq) \in Packet
           /\ p.seq < sock[Peer(e)].sendSequence
           /\ p.seq # sock[e].receiveSequence => p.seq < sock[e].receiveSequence
           /\ p.seq = sock[e].receiveSequence =>
                /\ Unread(Peer(e))
                /\ p.eom = (Len(sock[Peer(e)].sendMessage) = 1)
                /\ p.data = Head(sock[Peer(e)].sendMessage)
<1>1. /\ TypeOK /\ Peer(e) \in Ends /\ Peer(Peer(e)) = e /\ Phase(Peer(e))
  BY PeerFacts DEF ProtocolInv, PhaseInv
<1>2. p \in Packet
  BY <1>1 DEF TypeOK
<1>3. p.seq \in Nat /\ p.data \in Fragments /\ AckOf(p.seq) \in Packet
  BY <1>2, PacketTypes
<1>4. FromSender(Peer(e), p)
  BY <1>1 DEF ProtocolInv, PacketInv
<1>5. p.seq < sock[Peer(e)].sendSequence
  BY <1>4 DEF FromSender
<1>6. /\ sock[Peer(e)].sendSequence \in Nat
      /\ sock[Peer(e)].ackSequence \in Nat /\ sock[e].receiveSequence \in Nat
  BY <1>1 DEF TypeOK, QSocket
<1>7. \/ sock[e].receiveSequence = sock[Peer(e)].sendSequence
      \/ /\ Unread(Peer(e)) /\ Sending(Peer(e))
         /\ sock[e].receiveSequence + 1 = sock[Peer(e)].sendSequence
  BY <1>1, <1>6 DEF Phase, Resting, Unread, Unacknowledged, Pausing, Stranded,
                    Sending
<1>8. p.seq # sock[e].receiveSequence => p.seq < sock[e].receiveSequence
  BY <1>3, <1>5, <1>6, <1>7
<1>9. ASSUME p.seq = sock[e].receiveSequence
      PROVE  /\ Unread(Peer(e))
             /\ p.eom = (Len(sock[Peer(e)].sendMessage) = 1)
             /\ p.data = Head(sock[Peer(e)].sendMessage)
  BY <1>3, <1>4, <1>5, <1>6, <1>7, <1>9 DEF FromSender
<1>10. QED
  BY <1>3, <1>5, <1>8, <1>9

\* Data under another number than the one expected is acknowledged (429-437), and
\* its acknowledgement cannot be taken for that of the fragment under way.
LEMMA DuplicateStep ==
    ASSUME ProtocolInv, TypeOK', NEW e \in Ends, NEW p \in net[e],
           pc[e] = "reading", ReadDuplicateData(e, p)
    PROVE  ProtocolInv'
<1>1. /\ TypeOK /\ Phase(e) /\ Phase(Peer(e)) /\ Peer(e) \in Ends
      /\ Peer(Peer(e)) = e
  BY PeerFacts DEF ProtocolInv, PhaseInv
<1>2. sock[e] \in QSocket /\ sock[e].sendSequence \in Nat
      /\ sock[e].receiveSequence \in Nat
  BY <1>1 DEF TypeOK, QSocket
<1>3. /\ p.seq \in Nat /\ AckOf(p.seq) \in Packet
      /\ p.seq < sock[e].receiveSequence
  BY DataRead DEF ReadDuplicateData
<1> DEFINE out == {AckOf(p.seq)}
           s == sock[e]
<1>4. Write(e, s, out) /\ out \in SUBSET Packet /\ s \in QSocket
  BY <1>2, <1>3 DEF ReadDuplicateData
<1>5. sock'[e] = s => \A a \in out : FromSender(e, a)'
  BY <1>3, AckSent
<1> HIDE DEF out, s
<1>6. /\ sock'[e] = s /\ sock'[Peer(e)] = sock[Peer(e)]
      /\ net'[Peer(e)] = net[Peer(e)] \cup out /\ net'[e] = net[e]
  BY <1>1, <1>4, WriteFacts
<1>7. sent' = sent /\ delivered' = delivered /\ pc' = pc
  BY DEF ReadDuplicateData
<1>8. sock'[e] = sock[e]
  BY <1>6 DEF s
<1>9. Phase(e)' /\ Phase(Peer(e))'
  BY <1>1, <1>6, <1>7, <1>8, PhaseUntouched
<1>10. /\ sock'[e].sendSequence >= sock[e].sendSequence
       /\ sock'[e].receiveSequence >= sock[e].receiveSequence
       /\ sock'[e].sendSequence = sock[e].sendSequence /\ Sending(e)'
            => Sending(e) /\ sock'[e].sendMessage = sock[e].sendMessage
  BY <1>2, <1>8 DEF Sending
<1>11. /\ net'[e] \subseteq net[e]
       /\ net'[Peer(e)] \subseteq net[Peer(e)] \cup out
       /\ \A a \in out : FromSender(e, a)'
  BY <1>5, <1>6
<1>12. QED
  BY <1>6, <1>9, <1>10, <1>11, StepPreserves

\* A fragment under the expected number (453-454) moves from the part to be sent to
\* the part the receiver holds.
LEMMA FragmentStep ==
    ASSUME ProtocolInv, TypeOK', NEW e \in Ends, NEW p \in net[e],
           pc[e] = "reading", ReadFragment(e, p)
    PROVE  ProtocolInv'
<1>1. /\ TypeOK /\ Phase(e) /\ Phase(Peer(e)) /\ Peer(e) \in Ends
      /\ Peer(Peer(e)) = e
  BY PeerFacts DEF ProtocolInv, PhaseInv
<1>2. sock[e] \in QSocket /\ sock[e].sendSequence \in Nat
      /\ sock[e].receiveSequence \in Nat
      /\ sock[e].receiveMessage \in Seq(Fragments)
      /\ sock[Peer(e)].sendMessage \in Seq(Fragments)
  BY <1>1 DEF TypeOK, QSocket
<1>3. /\ p.seq \in Nat /\ p.data \in Fragments /\ AckOf(p.seq) \in Packet
      /\ Unread(Peer(e)) /\ p.data = Head(sock[Peer(e)].sendMessage)
      /\ Len(sock[Peer(e)].sendMessage) # 1
      /\ p.seq = sock[e].receiveSequence
  BY DataRead DEF ReadFragment
<1> DEFINE out == {AckOf(p.seq)}
           s == [sock[e] EXCEPT !.receiveSequence = @ + 1,
                                !.receiveMessage = Append(@, p.data)]
<1>4. Write(e, s, out) /\ out \in SUBSET Packet /\ s \in QSocket
  BY <1>2, <1>3, ReceiverTypes DEF ReadFragment
<1>5. /\ s.canSend = sock[e].canSend /\ s.sendNext = sock[e].sendNext
      /\ s.sendMessage = sock[e].sendMessage
      /\ s.sendSequence = sock[e].sendSequence
      /\ s.ackSequence = sock[e].ackSequence
      /\ s.receiveSequence = sock[e].receiveSequence + 1
      /\ s.receiveMessage = Append(sock[e].receiveMessage, p.data)
  BY <1>2 DEF QSocket
<1> HIDE DEF s
<1>6. sock'[e] = s => \A a \in out : FromSender(e, a)'
  <2>1. p.seq < s.receiveSequence
    BY <1>3, <1>5
  <2>2. QED
    BY <1>3, <2>1, AckSent
<1> HIDE DEF out
<1>7. /\ sock'[e] = s /\ sock'[Peer(e)] = sock[Peer(e)]
      /\ net'[Peer(e)] = net[Peer(e)] \cup out /\ net'[e] = net[e]
  BY <1>1, <1>4, WriteFacts
<1>8. sent' = sent /\ delivered' = delivered /\ pc' = pc
  BY DEF ReadFragment
<1>9. Phase(e)'
  BY <1>1, <1>5, <1>7, <1>8, PhaseUntouched
\* The stream read from was unread and is now unacknowledged: the head of what
\* the sender holds has moved to the part the receiver holds.
<1>10. Phase(Peer(e))'
  <2>1. PICK m \in Messages[Peer(e)] :
              /\ sent[Peer(e)] = Append(delivered[Peer(e)], m)
              /\ sock[e].receiveMessage \o sock[Peer(e)].sendMessage = m
    BY <1>1, <1>3 DEF Unread, UnderWay
  <2>2. sock[Peer(e)].sendMessage # <<>>
    BY <1>3 DEF Unread, Sending
  <2> DEFINE rest == sock[Peer(e)].sendMessage
             part == sock[e].receiveMessage
  <2>3. s.receiveMessage \o Tail(rest) = m
    <3>1. part \in Seq(Fragments) /\ rest \in Seq(Fragments) /\ rest # <<>>
      BY <1>2, <2>2
    <3>2. s.receiveMessage = Append(part, Head(rest)) /\ part \o rest = m
      BY <1>3, <1>5, <2>1
    <3> HIDE DEF part, rest
    <3>3. Append(part, Head(rest)) \o Tail(rest) = part \o rest
      BY <3>1, MoveHead
    <3>4. QED
      BY <3>2, <3>3
  <2>4. UnderWay(Peer(e), Tail(sock[Peer(e)].sendMessage))'
    BY <1>1, <1>7, <1>8, <2>1, <2>3 DEF UnderWay
  <2>5. Unacknowledged(Peer(e))'
    BY <1>1, <1>3, <1>5, <1>7, <1>8, <2>4 DEF Unacknowledged, Unread, Sending
  <2>6. QED
    BY <2>5 DEF Phase
<1>11. /\ sock'[e].sendSequence >= sock[e].sendSequence
       /\ sock'[e].receiveSequence >= sock[e].receiveSequence
       /\ sock'[e].sendSequence = sock[e].sendSequence /\ Sending(e)'
            => Sending(e) /\ sock'[e].sendMessage = sock[e].sendMessage
  BY <1>2, <1>5, <1>7 DEF Sending
<1>12. /\ net'[e] \subseteq net[e]
       /\ net'[Peer(e)] \subseteq net[Peer(e)] \cup out
       /\ \A a \in out : FromSender(e, a)'
  BY <1>6, <1>7
<1>13. QED
  BY <1>7, <1>9, <1>10, <1>11, <1>12, StepPreserves

\* The last fragment is delivered with the part the receiver holds, and what
\* is delivered is the message under way.
LEMMA LastFragmentStep ==
    ASSUME ProtocolInv, TypeOK', NEW e \in Ends, NEW p \in net[e],
           pc[e] = "reading", ReadLastFragment(e, p)
    PROVE  /\ ProtocolInv'
           /\ delivered'[Peer(e)] = sent[Peer(e)]
           /\ ~sock[Peer(e)].canSend
           /\ \E m \in Messages[Peer(e)] :
                    sent[Peer(e)] = Append(delivered[Peer(e)], m)
<1>1. /\ TypeOK /\ Phase(e) /\ Phase(Peer(e)) /\ Peer(e) \in Ends
      /\ Peer(e) # e /\ Peer(Peer(e)) = e
  BY PeerFacts DEF ProtocolInv, PhaseInv
<1>2. sock[e] \in QSocket /\ sock[e].receiveSequence \in Nat
      /\ sock[e].receiveMessage \in Seq(Fragments)
      /\ sock[Peer(e)].sendMessage \in Seq(Fragments)
  BY <1>1 DEF TypeOK, QSocket
<1>3. /\ p.seq \in Nat /\ p.data \in Fragments /\ AckOf(p.seq) \in Packet
      /\ Unread(Peer(e)) /\ p.data = Head(sock[Peer(e)].sendMessage)
      /\ Len(sock[Peer(e)].sendMessage) = 1
      /\ p.seq = sock[e].receiveSequence
  BY DataRead DEF ReadLastFragment
<1> DEFINE out == {AckOf(p.seq)}
           s == [sock[e] EXCEPT !.receiveSequence = @ + 1,
                                !.receiveMessage = <<>>]
<1>4. FlushSendNext(e, s, out) /\ out \in SUBSET Packet /\ s \in QSocket
  BY <1>2, <1>3, ReceiverTypes DEF ReadLastFragment
<1>5. /\ s.canSend = sock[e].canSend /\ s.sendNext = sock[e].sendNext
      /\ s.sendMessage = sock[e].sendMessage
      /\ s.sendSequence = sock[e].sendSequence
      /\ s.ackSequence = sock[e].ackSequence
      /\ s.receiveSequence = sock[e].receiveSequence + 1
      /\ s.receiveMessage = <<>>
  BY <1>2 DEF QSocket
<1> HIDE DEF s
<1>6. \A a \in out : a.kind = "ack" /\ a.seq < s.receiveSequence
  BY <1>2, <1>3, <1>5 DEF AckOf
<1> HIDE DEF out
<1>7. s.sendNext => s.sendMessage # <<>>
  BY <1>5, PhaseFacts
<1>8. /\ sock'[Peer(e)] = sock[Peer(e)]
      /\ sock'[e].receiveSequence = sock[e].receiveSequence + 1
      /\ sock'[e].receiveMessage = <<>>
  <2>1. /\ sock'[Peer(e)] = sock[Peer(e)]
        /\ sock'[e] = s \/ sock'[e] = SendMessageNext(s)
    BY <1>1, <1>4, <1>7, FlushFacts
  <2>2. QED
    BY <1>4, <1>5, <2>1 DEF SendMessageNext, QSocket
<1>9. /\ sent' = sent /\ delivered'[e] = delivered[e]
      /\ pc'[Peer(e)] = pc[Peer(e)]
      /\ delivered'[Peer(e)] = Append(delivered[Peer(e)],
                                     Append(sock[e].receiveMessage, p.data))
  BY <1>1 DEF ReadLastFragment, TypeOK
<1>10. PICK m \in Messages[Peer(e)] :
              /\ sent[Peer(e)] = Append(delivered[Peer(e)], m)
              /\ sock[e].receiveMessage \o sock[Peer(e)].sendMessage = m
  BY <1>1, <1>3 DEF Unread, UnderWay
<1>11. ~sock[Peer(e)].canSend /\ sock[Peer(e)].sendMessage # <<>>
  BY <1>3 DEF Unread, Sending
<1>12. Append(sock[e].receiveMessage, p.data) = m
  BY ZenonT(60), <1>2, <1>3, <1>10, <1>11, MoveHead
<1>13. delivered'[Peer(e)] = sent[Peer(e)]
  BY <1>9, <1>10, <1>12
<1>14. Phase(Peer(e))'
  <2>1. Unacknowledged(Peer(e))'
    BY <1>1, <1>3, <1>8, <1>9, <1>13 DEF Unacknowledged, Unread, Sending
  <2>2. QED
    BY <2>1 DEF Phase
<1>15. s.receiveSequence >= sock[e].receiveSequence
  BY <1>2, <1>5
<1>16. sent'[e] = sent[e]
  BY <1>9
<1>17. ProtocolInv'
  BY <1>4, <1>5, <1>6, <1>9, <1>14, <1>15, <1>16, FlushStep
<1>18. QED
  BY <1>10, <1>11, <1>13, <1>17

-----------------------------------------------------------------------------
\* The invariant holds at first, and every step of an end preserves it.
LEMMA InitInv == Init => ProtocolInv
<1> SUFFICES ASSUME Init PROVE ProtocolInv
  OBVIOUS
<1>1. TypeOK
  BY TypeInit
<1>2. \A e \in Ends : Resting(e)
  BY PeerFacts DEF Init, NewQSocket, Resting
<1>3. PacketInv
  BY PeerFacts DEF Init, PacketInv
<1>4. QED
  BY <1>1, <1>2, <1>3 DEF ProtocolInv, PhaseInv, Phase

\* Every call of the driver, whatever packet it reads, preserves the invariant.
LEMMA EndStepInv ==
    ASSUME ProtocolInv, NEW e \in Ends, EndStep(e)
    PROVE  ProtocolInv'
<1>1. /\ TypeOK' /\ TypeOK /\ sock[e] \in QSocket /\ Phase(Peer(e))
      /\ Peer(e) \in Ends /\ Peer(e) # e /\ Peer(Peer(e)) = e
      /\ sock[e].receiveSequence \in Nat
  BY TypeStep, AlwaysReady, PeerFacts DEF ProtocolInv, TypeOK, QSocket, PhaseInv
\* The actions that end with FlushSendNext and read no data.
<1> DEFINE Flushes == \E s \in QSocket :
                /\ FlushSendNext(e, s, {})
                /\ s.canSend = sock[e].canSend /\ s.sendNext = sock[e].sendNext
                /\ s.sendMessage = sock[e].sendMessage
                /\ s.sendSequence = sock[e].sendSequence
                /\ s.ackSequence = sock[e].ackSequence
                /\ s.receiveSequence = sock[e].receiveSequence
                /\ s.receiveMessage = sock[e].receiveMessage
<1>2. ASSUME Flushes, sent' = sent, delivered' = delivered
      PROVE  ProtocolInv'
  <2>1. PICK s \in QSocket :
                /\ FlushSendNext(e, s, {})
                /\ s.canSend = sock[e].canSend /\ s.sendNext = sock[e].sendNext
                /\ s.sendMessage = sock[e].sendMessage
                /\ s.sendSequence = sock[e].sendSequence
                /\ s.ackSequence = sock[e].ackSequence
                /\ s.receiveSequence = sock[e].receiveSequence
                /\ s.receiveMessage = sock[e].receiveMessage
    BY <1>2
  <2> DEFINE out == {}
  <2>2. /\ FlushSendNext(e, s, out) /\ out \in SUBSET Packet
        /\ \A p \in out : p.kind = "ack" /\ p.seq < s.receiveSequence
    BY <2>1
  <2> HIDE DEF out
  <2>3. s.sendNext => s.sendMessage # <<>>
    BY <2>1, PhaseFacts
  <2>4. /\ sock'[Peer(e)] = sock[Peer(e)]
        /\ sock'[e].receiveSequence = sock[e].receiveSequence
        /\ sock'[e].receiveMessage = sock[e].receiveMessage
    <3>1. /\ sock'[Peer(e)] = sock[Peer(e)]
          /\ sock'[e] = s \/ sock'[e] = SendMessageNext(s)
      BY <1>1, <2>2, <2>3, FlushFacts
    <3>2. QED
      BY <2>1, <3>1 DEF SendMessageNext, QSocket
  <2>5. Phase(Peer(e))'
    BY <1>1, <1>2, <2>4, PhaseUntouched
  <2>6. s.receiveSequence >= sock[e].receiveSequence
    BY <1>1, <2>1
  <2>7. sent'[e] = sent[e] /\ delivered'[e] = delivered[e]
    BY <1>2
  <2>8. QED
    BY <1>1, <2>1, <2>2, <2>5, <2>6, <2>7, FlushStep
<1>3. FlushSendNext(e, sock[e], {}) => Flushes
  BY <1>1
<1> HIDE DEF Flushes
<1>4. ASSUME NEW m \in Messages[e], SendMessage(e, m)
      PROVE  ProtocolInv'
  BY <1>1, <1>4, SendStep
<1>5. CASE Datagram_CanSendMessage(e)
  BY <1>1, <1>2, <1>3, <1>5 DEF Datagram_CanSendMessage, TypeOK
<1>6. CASE Datagram_SendUnreliableMessage(e)
  <2> DEFINE s == [sock[e] EXCEPT !.unreliableSendSequence = @ + 1]
             u == [kind |-> "unreliable", seq |-> sock[e].unreliableSendSequence]
             out == {u}
  <2>1. s \in QSocket
    BY <1>1, EmptySeq, SenderTypes
  <2>2. /\ s.canSend = sock[e].canSend /\ s.sendNext = sock[e].sendNext
        /\ s.sendMessage = sock[e].sendMessage
        /\ s.sendSequence = sock[e].sendSequence
        /\ s.ackSequence = sock[e].ackSequence
        /\ s.receiveSequence = sock[e].receiveSequence
        /\ s.receiveMessage = sock[e].receiveMessage
    BY <1>1 DEF QSocket
  <2>3. out \in SUBSET Packet /\ \A p \in out : p.kind = "unreliable"
    BY <1>1 DEF Packet, UnreliablePacket, QSocket
  <2>4. Write(e, s, out)
    BY <1>6 DEF Datagram_SendUnreliableMessage
  <2> HIDE DEF s, out
  <2>5. /\ sock'[e] = s /\ sock'[Peer(e)] = sock[Peer(e)]
        /\ net'[Peer(e)] = net[Peer(e)] \cup out /\ net'[e] = net[e]
    BY <1>1, <2>1, <2>3, <2>4, WriteFacts
  <2>6. sent' = sent /\ delivered' = delivered /\ pc' = pc
    BY <1>6 DEF Datagram_SendUnreliableMessage
  <2>7. Phase(e)' /\ Phase(Peer(e))'
    BY <1>1, <2>2, <2>5, <2>6, PhaseUntouched DEF ProtocolInv, PhaseInv
  <2>8. /\ sock'[e].sendSequence >= sock[e].sendSequence
        /\ sock'[e].receiveSequence >= sock[e].receiveSequence
        /\ sock'[e].sendSequence = sock[e].sendSequence /\ Sending(e)'
             => Sending(e) /\ sock'[e].sendMessage = sock[e].sendMessage
    BY <1>1, <2>2, <2>5 DEF Sending, QSocket
  <2>9. /\ net'[e] \subseteq net[e]
        /\ net'[Peer(e)] \subseteq net[Peer(e)] \cup out
        /\ \A p \in out : FromSender(e, p)'
    BY <2>3, <2>5 DEF FromSender
  <2>10. QED
    BY <1>1, <2>5, <2>7, <2>8, <2>9, StepPreserves
<1>7. CASE TimerExpires(e)
  BY <1>1, <1>7, QuietStep DEF TimerExpires
<1>8. CASE GetMessage(e)
  <2>1. CASE ReSendMessage(e)
    BY <1>1, <1>8, <2>1, ReSendStep
  <2>2. CASE UNCHANGED <<sock, net, overdue>>
    BY <1>1, <1>8, <2>2, QuietStep DEF GetMessage
  <2>3. QED
    BY <1>8, <2>1, <2>2 DEF GetMessage
<1>9. ASSUME NEW p \in net[e], ReadStaleUnreliable(e, p)
       PROVE  ProtocolInv'
  BY <1>1, <1>2, <1>3, <1>9 DEF ReadStaleUnreliable, TypeOK
<1>10. ASSUME NEW p \in net[e], ReadUnreliable(e, p)
       PROVE  ProtocolInv'
  <2> DEFINE s == [sock[e] EXCEPT !.unreliableReceiveSequence = p.seq + 1]
  <2>1. p.seq \in Nat
    BY <1>1, PacketTypes DEF TypeOK
  <2>2. s \in QSocket
    BY <1>1, <2>1, EmptySeq, SenderTypes
  <2>3. /\ s.canSend = sock[e].canSend /\ s.sendNext = sock[e].sendNext
        /\ s.sendMessage = sock[e].sendMessage
        /\ s.sendSequence = sock[e].sendSequence
        /\ s.ackSequence = sock[e].ackSequence
        /\ s.receiveSequence = sock[e].receiveSequence
        /\ s.receiveMessage = sock[e].receiveMessage
    BY <1>1 DEF QSocket
  <2>4. FlushSendNext(e, s, {})
    BY <1>10 DEF ReadUnreliable
  <2> HIDE DEF s
  <2>5. Flushes
    BY <2>2, <2>3, <2>4 DEF Flushes
  <2>6. QED
    BY <1>1, <1>2, <1>10, <2>5 DEF ReadUnreliable, TypeOK
<1>11. ASSUME pc[e] = "reading", ReadNothing(e)
       PROVE  ProtocolInv'
  BY <1>1, <1>2, <1>3, <1>11 DEF ReadNothing, TypeOK
<1>12. ASSUME NEW p \in net[e], SkipAck(e, p)
       PROVE  ProtocolInv'
  BY <1>1, <1>12, QuietStep DEF SkipAck, vars
<1>13. ASSUME ReadError(e)
       PROVE  ProtocolInv'
  BY <1>1, <1>13, QuietStep DEF ReadError
<1>14. CASE Lose(e)
  <2>1. \A d \in Ends : net'[d] \subseteq net[d]
    BY <1>1, <1>14 DEF Lose, TypeOK
  <2>2. QED
    BY <1>1, <1>14, <2>1, QuietStep DEF Lose
<1>15. CASE Close(e)
  BY <1>1, <1>15, QuietStep DEF Close
<1>16. CASE Read(e)
  BY <1>1, <1>9, <1>10, <1>11, <1>12, <1>13, <1>16, AckStep, DuplicateStep,
     FragmentStep, LastFragmentStep DEF Read, ReadPacket
<1>17. QED
  BY <1>4, <1>5, <1>6, <1>7, <1>8, <1>14, <1>15, <1>16 DEF EndStep

-----------------------------------------------------------------------------
\* The sequence numbers of the two ends, the partly sent message and the partly
\* received one fit in every reachable state (net_dgrm.c).
THEOREM ProtocolInvariant == Spec => []ProtocolInv
<1>1. ASSUME ProtocolInv, [Next]_vars
      PROVE  ProtocolInv'
  <2>1. CASE Next
    BY <1>1, <2>1, EndStepInv DEF Next
  <2>2. CASE UNCHANGED vars
    <3>1. TypeOK'
      BY <1>1, <2>2 DEF ProtocolInv, TypeOK, vars
    <3>2. PICK e \in Ends : TRUE
      BY EndsAssumption
    <3>3. QED
      BY <1>1, <2>2, <3>1, <3>2, QuietStep DEF vars
  <2>3. QED
    BY <1>1, <2>1, <2>2
<1>2. QED
  BY InitInv, <1>1, PTL DEF Spec

\* Every reliable message arrives whole, once and in order: the other end has
\* been given all of them, or all but the one under way.
THEOREM DeliveryInOrder == Spec => []DeliveredInOrder
<1>1. ProtocolInv => DeliveredInOrder
  BY DEF ProtocolInv, PhaseInv, Phase, Resting, Unread, Unacknowledged, Pausing,
         Stranded, UnderWay, DeliveredInOrder
<1>2. QED
  BY ProtocolInvariant, <1>1, PTL

\* NET_CanSendMessage answers yes only when everything sent was delivered.
THEOREM ReleaseAfterDelivery == Spec => []ReleasedOnlyWhenDelivered
<1>1. ProtocolInv => ReleasedOnlyWhenDelivered
  BY DEF ProtocolInv, PhaseInv, Phase, Resting, Unread, Unacknowledged, Pausing,
         Stranded, Sending, ReleasedOnlyWhenDelivered
<1>2. QED
  BY ProtocolInvariant, <1>1, PTL

-----------------------------------------------------------------------------
\* The refinement.  Only three steps are visible in the stream.

\* A step that keeps the histories and the canSend flags is none of the stream's.
LEMMA StreamStutters ==
    ASSUME sent' = sent, delivered' = delivered,
           \A d \in Ends : sock'[d].canSend = sock[d].canSend
    PROVE  UNCHANGED Stream!vars
BY DEF Stream!vars

\* FlushSendNext never changes the answer of NET_CanSendMessage.
LEMMA CanSendKept ==
    ASSUME TypeOK, NEW e \in Ends, NEW s \in QSocket, NEW out,
           s.canSend = sock[e].canSend,
           Write(e, s, out) \/ FlushSendNext(e, s, out)
    PROVE  \A d \in Ends : sock'[d].canSend = sock[d].canSend
<1>1. PICK t : t \in {s, SendMessageNext(s)} /\ sock' = [sock EXCEPT ![e] = t]
  BY DEF FlushSendNext, Write
<1>2. t.canSend = sock[e].canSend
  BY <1>1 DEF SendMessageNext, QSocket
<1>3. QED
  BY <1>1, <1>2 DEF TypeOK

\* Every call of the driver is one step of the stream, or none: SendMessage sends,
\* the last fragment delivers, the last acknowledgement confirms.
LEMMA StreamStep ==
    ASSUME ProtocolInv, NEW e \in Ends, EndStep(e)
    PROVE  Stream!Next \/ UNCHANGED Stream!vars
<1>1. /\ TypeOK /\ sock[e] \in QSocket /\ Peer(e) \in Ends /\ Peer(e) # e
      /\ Phase(e) /\ Ends = {e, Peer(e)}
  BY PeerFacts DEF ProtocolInv, TypeOK, PhaseInv
<1>2. ASSUME NEW m \in Messages[e], SendMessage(e, m)
      PROVE  Stream!Send(e, m)
  <2> DEFINE s == [sock[e] EXCEPT !.sendMessage = m, !.sendSequence = @ + 1,
                                  !.canSend = FALSE]
  <2>1. /\ sock' = [sock EXCEPT ![e] = s] /\ sock[e].canSend
        /\ sent' = [sent EXCEPT ![e] = Append(@, m)] /\ delivered' = delivered
    BY <1>2 DEF SendMessage, Datagram_SendMessage, Write
  <2>2. s.canSend = FALSE
    BY <1>1 DEF QSocket
  <2> HIDE DEF s
  <2>3. [d \in Ends |-> sock'[d].canSend]
          = [[d \in Ends |-> sock[d].canSend] EXCEPT ![e] = FALSE]
    BY <1>1, <2>1, <2>2 DEF TypeOK
  <2>4. QED
    BY <2>1, <2>3 DEF Stream!Send
<1>3. ASSUME NEW p \in net[e], pc[e] = "reading", ReadLastFragment(e, p)
      PROVE  Stream!Deliver(Peer(e))
  <2>1. /\ delivered'[Peer(e)] = sent[Peer(e)] /\ ~sock[Peer(e)].canSend
        /\ \E m \in Messages[Peer(e)] :
                 sent[Peer(e)] = Append(delivered[Peer(e)], m)
    BY <1>1, <1>3, TypeStep, AlwaysReady, LastFragmentStep
  <2>2. delivered' = [delivered EXCEPT ![Peer(e)] = sent[Peer(e)]]
    BY <1>1, <1>3, <2>1 DEF ReadLastFragment, TypeOK
  <2> DEFINE s == [sock[e] EXCEPT !.receiveSequence = @ + 1,
                                  !.receiveMessage = <<>>]
             out == {AckOf(p.seq)}
  <2>3. s \in QSocket /\ s.canSend = sock[e].canSend
    <3>1. PICK d \in Fragments : TRUE
      BY <1>1, <1>3, PacketTypes DEF ReadLastFragment, TypeOK
    <3>2. s \in QSocket
      BY <1>1, <3>1, ReceiverTypes
    <3>3. QED
      BY <1>1, <3>2 DEF QSocket
  <2>4. FlushSendNext(e, s, out) /\ sent' = sent
    BY <1>3 DEF ReadLastFragment
  <2> HIDE DEF s, out
  <2>5. \A d \in Ends : sock'[d].canSend = sock[d].canSend
    BY <1>1, <2>3, <2>4, CanSendKept
  <2>6. QED
    BY <1>1, <2>1, <2>2, <2>4, <2>5 DEF Stream!Deliver
\* An acknowledgement is visible when it is the one of the last fragment.
<1>4. ASSUME NEW p \in net[e], pc[e] = "reading", ReadAck(e, p)
      PROVE  Stream!Confirm(e) \/ UNCHANGED Stream!vars
  <2> DEFINE s == Acknowledged(sock[e])
  <2>1. /\ sock' = [sock EXCEPT ![e] = s]
        /\ sent' = sent /\ delivered' = delivered
    BY <1>4 DEF ReadAck, Write
  <2>2. s \in QSocket
    BY <1>1, AcknowledgedType
  <2>3. Unacknowledged(e)
    BY <1>1, <1>4, AckIsCurrent
  <2>4. CASE Len(sock[e].sendMessage) = 1
    <3>1. ~sock[e].canSend /\ delivered[e] = sent[e]
      BY <2>3, <2>4 DEF Unacknowledged, Sending
    <3>2. Tail(sock[e].sendMessage) = <<>>
      BY <1>1, <2>3, <2>4, MoveHead DEF QSocket, Unacknowledged, Sending
    <3>3. s.canSend = TRUE
      BY <1>1, <3>2 DEF Acknowledged, QSocket
    <3> HIDE DEF s
    <3>4. [d \in Ends |-> sock'[d].canSend]
            = [[d \in Ends |-> sock[d].canSend] EXCEPT ![e] = TRUE]
      BY <1>1, <2>1, <3>3 DEF TypeOK
    <3>5. QED
      BY <2>1, <3>1, <3>4 DEF Stream!Confirm
  <2>5. CASE Len(sock[e].sendMessage) # 1
    <3>1. sock[e].sendMessage # <<>>
      BY <2>3 DEF Unacknowledged, Sending
    <3>2. Tail(sock[e].sendMessage) # <<>>
      BY <1>1, <2>5, <3>1, MoveHead DEF QSocket
    <3>3. s.canSend = sock[e].canSend
      BY <1>1, <3>1, <3>2 DEF Acknowledged, QSocket
    <3> HIDE DEF s
    <3>4. \A d \in Ends : sock'[d].canSend = sock[d].canSend
      BY <1>1, <2>1, <3>3 DEF TypeOK
    <3>5. QED
      BY <2>1, <3>4, StreamStutters
  <2>6. QED
    BY <2>4, <2>5
\* All other steps keep canSend and the two histories.
<1>5. ASSUME sent' = sent, delivered' = delivered,
             \E s \in QSocket : \E out : /\ s.canSend = sock[e].canSend
                                       /\ \/ Write(e, s, out)
                                          \/ FlushSendNext(e, s, out)
      PROVE  UNCHANGED Stream!vars
  BY <1>1, <1>5, CanSendKept, StreamStutters
<1>6. ASSUME sent' = sent, delivered' = delivered, sock' = sock
      PROVE  UNCHANGED Stream!vars
  BY <1>6, StreamStutters
<1>7. CASE Datagram_CanSendMessage(e)
  BY <1>1, <1>5, <1>7 DEF Datagram_CanSendMessage
<1>8. CASE Datagram_SendUnreliableMessage(e)
  <2> DEFINE s == [sock[e] EXCEPT !.unreliableSendSequence = @ + 1]
             out == {[kind |-> "unreliable",
                      seq |-> sock[e].unreliableSendSequence]}
  <2>1. s \in QSocket /\ s.canSend = sock[e].canSend
    BY <1>1, EmptySeq, SenderTypes DEF QSocket
  <2>2. Write(e, s, out) /\ sent' = sent /\ delivered' = delivered
    BY <1>8 DEF Datagram_SendUnreliableMessage
  <2> HIDE DEF s, out
  <2>3. QED
    BY <1>5, <2>1, <2>2
<1>9. CASE TimerExpires(e)
  BY <1>6, <1>9 DEF TimerExpires
<1>10. CASE GetMessage(e)
  <2>1. CASE ReSendMessage(e)
    <3> DEFINE s == [sock[e] EXCEPT !.sendNext = FALSE]
               out == {DataOf(sock[e], sock[e].sendSequence - 1)}
    <3>1. s \in QSocket /\ s.canSend = sock[e].canSend
      BY <1>1, EmptySeq, SenderTypes DEF QSocket
    <3>2. Write(e, s, out) /\ sent' = sent /\ delivered' = delivered
      BY <1>10, <2>1 DEF GetMessage, ReSendMessage
    <3> HIDE DEF s, out
    <3>3. QED
      BY <1>5, <3>1, <3>2
  <2>2. CASE UNCHANGED <<sock, net, overdue>>
    BY <1>6, <1>10, <2>2 DEF GetMessage
  <2>3. QED
    BY <1>10, <2>1, <2>2 DEF GetMessage
<1>11. ASSUME NEW p \in net[e], ReadStaleUnreliable(e, p)
       PROVE  UNCHANGED Stream!vars
  BY <1>1, <1>5, <1>11 DEF ReadStaleUnreliable
<1>12. ASSUME NEW p \in net[e], ReadUnreliable(e, p)
       PROVE  UNCHANGED Stream!vars
  <2> DEFINE s == [sock[e] EXCEPT !.unreliableReceiveSequence = p.seq + 1]
  <2>1. p.seq \in Nat
    BY <1>1, PacketTypes DEF TypeOK
  <2>2. s \in QSocket /\ s.canSend = sock[e].canSend
    BY <1>1, <2>1, EmptySeq, SenderTypes DEF QSocket
  <2>3. FlushSendNext(e, s, {}) /\ sent' = sent /\ delivered' = delivered
    BY <1>12 DEF ReadUnreliable
  <2> HIDE DEF s
  <2>4. QED
    BY <1>5, <2>2, <2>3
<1>13. ASSUME NEW p \in net[e], SkipAck(e, p)
       PROVE  UNCHANGED Stream!vars
  BY <1>6, <1>13 DEF SkipAck, vars
<1>14. ASSUME NEW p \in net[e], ReadDuplicateData(e, p)
       PROVE  UNCHANGED Stream!vars
  BY <1>1, <1>5, <1>14 DEF ReadDuplicateData
<1>15. ASSUME NEW p \in net[e], ReadFragment(e, p)
       PROVE  UNCHANGED Stream!vars
  <2> DEFINE s == [sock[e] EXCEPT !.receiveSequence = @ + 1,
                                  !.receiveMessage = Append(@, p.data)]
             out == {AckOf(p.seq)}
  <2>1. p.data \in Fragments
    BY <1>1, <1>15, PacketTypes DEF ReadFragment, TypeOK
  <2>2. s \in QSocket
    BY <1>1, <2>1, ReceiverTypes
  <2>3. s.canSend = sock[e].canSend
    BY <1>1 DEF QSocket
  <2>4. Write(e, s, out) /\ sent' = sent /\ delivered' = delivered
    BY <1>15 DEF ReadFragment
  <2> HIDE DEF s, out
  <2>5. QED
    BY <1>5, <2>2, <2>3, <2>4
<1>16. ASSUME ReadNothing(e)
       PROVE  UNCHANGED Stream!vars
  BY <1>1, <1>5, <1>16 DEF ReadNothing
<1>17. ASSUME ReadError(e)
       PROVE  UNCHANGED Stream!vars
  BY <1>6, <1>17 DEF ReadError
<1>18. CASE Read(e)
  <2>1. (\E p \in net[e] : ReadLastFragment(e, p)) => Stream!Deliver(Peer(e))
    BY <1>3, <1>18 DEF Read
  <2>2. (\E p \in net[e] : ReadAck(e, p))
          => Stream!Confirm(e) \/ UNCHANGED Stream!vars
    BY <1>4, <1>18 DEF Read
  <2>3. \/ Stream!Deliver(Peer(e)) \/ Stream!Confirm(e)
        \/ UNCHANGED Stream!vars
    BY <1>11, <1>12, <1>13, <1>14, <1>15, <1>16, <1>17, <1>18, <2>1, <2>2
       DEF Read, ReadPacket
  <2>4. QED
    BY <1>1, <2>3 DEF Stream!Next
<1>19. CASE Lose(e)
  BY <1>6, <1>19 DEF Lose
<1>20. CASE Close(e)
  BY <1>6, <1>20 DEF Close
<1>21. ASSUME NEW m \in Messages[e], SendMessage(e, m)
       PROVE  Stream!Next
  BY <1>2, <1>21 DEF Stream!Next
<1>22. QED
  BY <1>7, <1>8, <1>9, <1>10, <1>18, <1>19, <1>20, <1>21 DEF EndStep

\* The driver implements the stream the engine relies on: net_dgrm.c over any
\* network is a specification of ReliableStream.tla.
THEOREM Refinement == Spec => ImplementsStream
<1>1. Init => Stream!Init
  BY DEF Init, NewQSocket, Stream!Init
<1>2. ProtocolInv /\ [Next]_vars => [Stream!Next]_(Stream!vars)
  <2>1. ASSUME ProtocolInv, Next
        PROVE  [Stream!Next]_(Stream!vars)
    BY <2>1, StreamStep DEF Next
  <2>2. ASSUME UNCHANGED vars
        PROVE  UNCHANGED Stream!vars
    BY <2>2 DEF vars, Stream!vars
  <2>3. QED
    BY <2>1, <2>2
<1>3. QED
  BY <1>1, <1>2, ProtocolInvariant, PTL DEF Spec, Stream!Spec, ImplementsStream

-----------------------------------------------------------------------------
\* The unreliable half: an end is never given a datagram that is older than, or
\* the same as, one it was given before (the test of unreliableReceiveSequence).
LEMMA NewerStep ==
    ASSUME TypeOK, NEW e \in Ends, NEW p \in net[e], ReadUnreliable(e, p),
           DatagramsNewer
    PROVE  DatagramsNewer'
<1>1. /\ sock[e] \in QSocket /\ p.seq \in Nat /\ datagrams[e] \in Seq(Nat)
      /\ sock[e].unreliableReceiveSequence \in Nat
  BY PacketTypes DEF TypeOK, QSocket
<1> DEFINE s == [sock[e] EXCEPT !.unreliableReceiveSequence = p.seq + 1]
<1>2. s \in QSocket /\ s.unreliableReceiveSequence = p.seq + 1
  BY <1>1, EmptySeq, SenderTypes DEF QSocket
<1>3. FlushSendNext(e, s, {})
  BY DEF ReadUnreliable
<1> HIDE DEF s
<1>4. /\ sock'[e].unreliableReceiveSequence = p.seq + 1
      /\ \A d \in Ends : d # e => sock'[d] = sock[d]
  <2>1. PICK t : t \in {s, SendMessageNext(s)} /\ sock' = [sock EXCEPT ![e] = t]
    BY <1>3 DEF FlushSendNext, Write
  <2>2. t.unreliableReceiveSequence = p.seq + 1
    BY <1>2, <2>1 DEF SendMessageNext, QSocket
  <2>3. QED
    BY <2>1, <2>2 DEF TypeOK
<1>5. /\ datagrams'[e] = Append(datagrams[e], p.seq)
      /\ \A d \in Ends : d # e => datagrams'[d] = datagrams[d]
      /\ sock[e].unreliableReceiveSequence <= p.seq
  BY <1>1 DEF ReadUnreliable, TypeOK
<1> DEFINE n == Len(datagrams[e])
<1>6. /\ Len(datagrams'[e]) = n + 1 /\ datagrams'[e][n + 1] = p.seq
      /\ \A i \in 1 .. n : datagrams'[e][i] = datagrams[e][i]
      /\ n \in Nat /\ \A i \in 1 .. n : datagrams[e][i] \in Nat
  BY <1>1, <1>5, AppendProperties, LenProperties, ElementOfSeq
<1> HIDE DEF n
<1>7. /\ \A i, j \in 1 .. n : i < j => datagrams[e][i] < datagrams[e][j]
      /\ \A i \in 1 .. n : datagrams[e][i] < sock[e].unreliableReceiveSequence
  BY DEF DatagramsNewer, n
<1>8. \A i \in 1 .. n : datagrams'[e][i] < p.seq
  <2>1. TAKE i \in 1 .. n
  <2>2. /\ datagrams'[e][i] \in Nat
        /\ datagrams'[e][i] < sock[e].unreliableReceiveSequence
    BY <1>6, <1>7
  <2>3. /\ sock[e].unreliableReceiveSequence \in Nat /\ p.seq \in Nat
        /\ sock[e].unreliableReceiveSequence <= p.seq
    BY <1>1, <1>5
  <2>4. QED
    BY <2>2, <2>3
<1>9. \A i, j \in 1 .. n + 1 :
          i < j => datagrams'[e][i] < datagrams'[e][j]
  <2>1. SUFFICES ASSUME NEW i \in 1 .. n + 1, NEW j \in 1 .. n + 1, i < j
                 PROVE  datagrams'[e][i] < datagrams'[e][j]
    OBVIOUS
  <2>2. i \in 1 .. n
    BY <1>6, <2>1
  <2>3. CASE j = n + 1
    BY <1>6, <1>8, <2>2, <2>3
  <2>4. CASE j \in 1 .. n
    BY <1>6, <1>7, <2>1, <2>2, <2>4
  <2>5. QED
    BY <1>6, <2>3, <2>4
<1>10. \A i \in 1 .. n + 1 : datagrams'[e][i] < p.seq + 1
  <2>1. TAKE i \in 1 .. n + 1
  <2>2. CASE i = n + 1
    BY <1>1, <1>6, <2>2
  <2>3. CASE i \in 1 .. n
    <3>1. datagrams'[e][i] \in Nat /\ datagrams'[e][i] < p.seq
      BY <1>6, <1>8, <2>3
    <3>2. QED
      BY <1>1, <3>1
  <2>4. QED
    BY <1>6, <2>2, <2>3
<1>11. QED
  BY ZenonT(60), <1>4, <1>5, <1>6, <1>9, <1>10 DEF DatagramsNewer

\* Every other step leaves the two fields the property relates alone.
LEMMA NewerKept ==
    ASSUME TypeOK, NEW e \in Ends, NEW s \in QSocket, NEW out,
           s.unreliableReceiveSequence = sock[e].unreliableReceiveSequence,
           Write(e, s, out) \/ FlushSendNext(e, s, out),
           datagrams' = datagrams, DatagramsNewer
    PROVE  DatagramsNewer'
<1>1. PICK t : t \in {s, SendMessageNext(s)} /\ sock' = [sock EXCEPT ![e] = t]
  BY DEF FlushSendNext, Write
<1>2. t.unreliableReceiveSequence = sock[e].unreliableReceiveSequence
  BY <1>1 DEF SendMessageNext, QSocket
<1>3. \A d \in Ends : sock'[d].unreliableReceiveSequence
                        = sock[d].unreliableReceiveSequence
  BY <1>1, <1>2 DEF TypeOK
<1>4. QED
  BY <1>3 DEF DatagramsNewer

\* Every call of the driver keeps the datagrams newer.
LEMMA NewerEndStep ==
    ASSUME ProtocolInv, NEW e \in Ends, EndStep(e), DatagramsNewer
    PROVE  DatagramsNewer'
<1>1. TypeOK /\ sock[e] \in QSocket
  BY DEF ProtocolInv, TypeOK
<1>2. ASSUME datagrams' = datagrams, sock' = sock
      PROVE  DatagramsNewer'
  BY <1>2 DEF DatagramsNewer
<1>3. ASSUME datagrams' = datagrams,
             \E s \in QSocket : \E out :
                /\ s.unreliableReceiveSequence
                      = sock[e].unreliableReceiveSequence
                /\ Write(e, s, out) \/ FlushSendNext(e, s, out)
      PROVE  DatagramsNewer'
  BY <1>1, <1>3, NewerKept
<1>4. ASSUME NEW m \in Messages[e], SendMessage(e, m)
      PROVE  DatagramsNewer'
  <2> DEFINE s == [sock[e] EXCEPT !.sendMessage = m, !.sendSequence = @ + 1,
                                  !.canSend = FALSE]
             out == {DataOf(s, sock[e].sendSequence)}
  <2>1. m \in Seq(Fragments)
    BY MessagesAssumption
  <2>2. s \in QSocket
    BY <1>1, <2>1, SenderTypes
  <2>3. s.unreliableReceiveSequence = sock[e].unreliableReceiveSequence
    BY <1>1 DEF QSocket
  <2>4. Write(e, s, out) /\ datagrams' = datagrams
    BY <1>4 DEF SendMessage, Datagram_SendMessage
  <2> HIDE DEF s, out
  <2>5. QED
    BY <1>3, <2>2, <2>3, <2>4
<1>5. CASE Datagram_CanSendMessage(e)
  BY <1>1, <1>3, <1>5 DEF Datagram_CanSendMessage
<1>6. CASE Datagram_SendUnreliableMessage(e)
  <2> DEFINE s == [sock[e] EXCEPT !.unreliableSendSequence = @ + 1]
             out == {[kind |-> "unreliable",
                      seq |-> sock[e].unreliableSendSequence]}
  <2>1. s \in QSocket
    BY <1>1, EmptySeq, SenderTypes
  <2>2. s.unreliableReceiveSequence = sock[e].unreliableReceiveSequence
    BY <1>1 DEF QSocket
  <2>3. Write(e, s, out) /\ datagrams' = datagrams
    BY <1>6 DEF Datagram_SendUnreliableMessage
  <2> HIDE DEF s, out
  <2>4. QED
    BY <1>3, <2>1, <2>2, <2>3
<1>7. CASE TimerExpires(e)
  BY <1>2, <1>7 DEF TimerExpires
<1>8. CASE GetMessage(e)
  <2>1. CASE ReSendMessage(e)
    <3> DEFINE s == [sock[e] EXCEPT !.sendNext = FALSE]
               out == {DataOf(sock[e], sock[e].sendSequence - 1)}
    <3>1. s \in QSocket
      BY <1>1, EmptySeq, SenderTypes
    <3>2. s.unreliableReceiveSequence = sock[e].unreliableReceiveSequence
      BY <1>1 DEF QSocket
    <3>3. Write(e, s, out) /\ datagrams' = datagrams
      BY <1>8, <2>1 DEF GetMessage, ReSendMessage
    <3> HIDE DEF s, out
    <3>4. QED
      BY <1>3, <3>1, <3>2, <3>3
  <2>2. CASE UNCHANGED <<sock, net, overdue>>
    BY <1>2, <1>8, <2>2 DEF GetMessage
  <2>3. QED
    BY <1>8, <2>1, <2>2 DEF GetMessage
<1>9. ASSUME NEW p \in net[e], ReadStaleUnreliable(e, p)
      PROVE  DatagramsNewer'
  BY <1>1, <1>3, <1>9 DEF ReadStaleUnreliable
<1>10. ASSUME NEW p \in net[e], ReadUnreliable(e, p)
       PROVE  DatagramsNewer'
  BY <1>1, <1>10, NewerStep
<1>11. ASSUME NEW p \in net[e], ReadAck(e, p)
       PROVE  DatagramsNewer'
  <2> DEFINE s == Acknowledged(sock[e])
  <2>1. s \in QSocket
    BY <1>1, AcknowledgedType
  <2>2. s.unreliableReceiveSequence = sock[e].unreliableReceiveSequence
    BY <1>1 DEF Acknowledged, QSocket
  <2>3. Write(e, s, {}) /\ datagrams' = datagrams
    BY <1>11 DEF ReadAck
  <2> HIDE DEF s
  <2>4. QED
    BY <1>3, <2>1, <2>2, <2>3
<1>12. ASSUME NEW p \in net[e], SkipAck(e, p)
       PROVE  DatagramsNewer'
  BY <1>2, <1>12 DEF SkipAck, vars
<1>13. ASSUME NEW p \in net[e], ReadDuplicateData(e, p)
       PROVE  DatagramsNewer'
  BY <1>1, <1>3, <1>13 DEF ReadDuplicateData
<1>14. ASSUME NEW p \in net[e], ReadFragment(e, p)
       PROVE  DatagramsNewer'
  <2> DEFINE s == [sock[e] EXCEPT !.receiveSequence = @ + 1,
                                  !.receiveMessage = Append(@, p.data)]
             out == {AckOf(p.seq)}
  <2>1. p.data \in Fragments
    BY <1>1, <1>14, PacketTypes DEF ReadFragment, TypeOK
  <2>2. s \in QSocket
    BY <1>1, <2>1, ReceiverTypes
  <2>3. s.unreliableReceiveSequence = sock[e].unreliableReceiveSequence
    BY <1>1 DEF QSocket
  <2>4. Write(e, s, out) /\ datagrams' = datagrams
    BY <1>14 DEF ReadFragment
  <2> HIDE DEF s, out
  <2>5. QED
    BY <1>3, <2>2, <2>3, <2>4
<1>15. ASSUME NEW p \in net[e], ReadLastFragment(e, p)
       PROVE  DatagramsNewer'
  <2> DEFINE s == [sock[e] EXCEPT !.receiveSequence = @ + 1,
                                  !.receiveMessage = <<>>]
             out == {AckOf(p.seq)}
  <2>1. p.data \in Fragments
    BY <1>1, <1>15, PacketTypes DEF ReadLastFragment, TypeOK
  <2>2. s \in QSocket
    BY <1>1, <2>1, ReceiverTypes
  <2>3. s.unreliableReceiveSequence = sock[e].unreliableReceiveSequence
    BY <1>1 DEF QSocket
  <2>4. FlushSendNext(e, s, out) /\ datagrams' = datagrams
    BY <1>15 DEF ReadLastFragment
  <2> HIDE DEF s, out
  <2>5. QED
    BY <1>3, <2>2, <2>3, <2>4
<1>16. ASSUME ReadNothing(e)
       PROVE  DatagramsNewer'
  BY <1>1, <1>3, <1>16 DEF ReadNothing
<1>17. ASSUME ReadError(e)
       PROVE  DatagramsNewer'
  BY <1>2, <1>17 DEF ReadError
<1>18. CASE Lose(e)
  BY <1>2, <1>18 DEF Lose
<1>19. CASE Close(e)
  BY <1>2, <1>19 DEF Close
<1>20. CASE Read(e)
  BY <1>9, <1>10, <1>11, <1>12, <1>13, <1>14, <1>15, <1>16, <1>17, <1>20
     DEF Read, ReadPacket
<1>21. QED
  BY <1>4, <1>5, <1>6, <1>7, <1>8, <1>18, <1>19, <1>20 DEF EndStep

\* The engine is never given a datagram that is not newer than all it was given
\* before, although the network reorders and duplicates them.
THEOREM DatagramsInOrder == Spec => []DatagramsNewer
<1>1. Init => DatagramsNewer
  <2>1. ASSUME Init, NEW e \in Ends
        PROVE  1 .. Len(datagrams[e]) = {}
    BY <2>1, EmptySeq DEF Init
  <2>2. ASSUME Init
        PROVE  \A e \in Ends : 1 .. Len(datagrams[e]) = {}
    BY <2>1, <2>2
  <2>3. QED
    BY <2>2 DEF DatagramsNewer
<1>2. ProtocolInv /\ DatagramsNewer /\ [Next]_vars => DatagramsNewer'
  <2>1. ASSUME ProtocolInv, DatagramsNewer, Next
        PROVE  DatagramsNewer'
    BY <2>1, NewerEndStep DEF Next
  <2>2. ASSUME DatagramsNewer, UNCHANGED vars
        PROVE  DatagramsNewer'
    BY <2>2 DEF DatagramsNewer, vars
  <2>3. QED
    BY <2>1, <2>2
<1>3. QED
  BY <1>1, <1>2, ProtocolInvariant, PTL DEF Spec
=============================================================================
