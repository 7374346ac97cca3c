------------------------------ MODULE Datagram ------------------------------
(***************************************************************************)
(* The datagram driver of the network layer (net_dgrm.c) between the two   *)
(* ends of an accepted connection.  A reliable message travels as          *)
(* fragments of at most MAX_DATAGRAM bytes, one at a time: a fragment is   *)
(* repeated until its acknowledgement comes back, and only then the next   *)
(* one is sent.  Unreliable messages are numbered and may be lost, but an  *)
(* older one never follows a newer one.  The network loses, delays,        *)
(* reorders and duplicates packets.                                        *)
(*                                                                         *)
(* Each end is one thread.  Datagram_GetMessage reads packet after packet  *)
(* until the socket is empty or a message is complete, so between two      *)
(* reads the network and the other end may move: pc[e] = "reading" is an   *)
(* end inside that loop.  A failed Write is the loss of its packet.        *)
(***************************************************************************)
EXTENDS Naturals, Sequences

CONSTANTS
    Ends,           \* the two ends, the client and the server
    Fragments,      \* the contents a fragment may have
    Messages,       \* Messages[e]: the reliable messages e may send, each the
                    \* sequence of its fragments
    MaxMessages,    \* MaxMessages[e]: bound on the reliable messages of e
    MaxDatagrams,   \* MaxDatagrams[e]: bound on the unreliable messages of e
    LossyEnds       \* the ends whose network drops packets (a packet that is
                    \* never read is as good as lost: safety needs none)

ASSUME EndsAssumption == \E a, b \in Ends : a # b /\ Ends = {a, b}
ASSUME MessagesAssumption ==
    Messages \in [Ends -> SUBSET (Seq(Fragments) \ {<<>>})]
ASSUME BoundsAssumption ==
    MaxMessages \in [Ends -> Nat] /\ MaxDatagrams \in [Ends -> Nat]

VARIABLES
    sock,       \* sock[e]: the fields of e's qsocket_t
    overdue,    \* overdue[e]: more than a second since e's lastSendTime
    pc,         \* pc[e]: where e is in its calls of the driver
    net,        \* net[e]: the packets in transit to e
    sent,       \* history: the reliable messages e handed to the driver
    delivered,  \* history: the reliable messages of e the other end was given
    datagrams   \* history: the numbers of the datagrams e was given

vars == <<sock, overdue, pc, net, sent, delivered, datagrams>>

Peer(e) == CHOOSE p \in Ends : p # e

-----------------------------------------------------------------------------
\* Packets.  The flags of the header tell the three kinds apart.

DataPacket == [kind : {"data"}, seq : Nat, eom : BOOLEAN, data : Fragments]
AckPacket == [kind : {"ack"}, seq : Nat]
UnreliablePacket == [kind : {"unreliable"}, seq : Nat]
Packet == DataPacket \cup AckPacket \cup UnreliablePacket

\* The first fragment of what is left of the message, under sequence number n.
DataOf(s, n) ==
    [kind |-> "data", seq |-> n,
     eom |-> Len(s.sendMessage) = 1, data |-> Head(s.sendMessage)]

AckOf(n) == [kind |-> "ack", seq |-> n]

-----------------------------------------------------------------------------
\* The socket, and the pieces of the handlers that change it.

QSocket == [canSend : BOOLEAN, sendNext : BOOLEAN,
            sendSequence : Nat, ackSequence : Nat,
            sendMessage : Seq(Fragments),
            receiveSequence : Nat, receiveMessage : Seq(Fragments),
            unreliableSendSequence : Nat, unreliableReceiveSequence : Nat]

NewQSocket == [canSend |-> TRUE, sendNext |-> FALSE,
               sendSequence |-> 0, ackSequence |-> 0,
               sendMessage |-> <<>>,
               receiveSequence |-> 0, receiveMessage |-> <<>>,
               unreliableSendSequence |-> 0, unreliableReceiveSequence |-> 0]

Init ==
    /\ sock = [e \in Ends |-> NewQSocket]
    /\ overdue = [e \in Ends |-> FALSE]
    /\ pc = [e \in Ends |-> "idle"]
    /\ net = [e \in Ends |-> {}]
    /\ sent = [e \in Ends |-> <<>>]
    /\ delivered = [e \in Ends |-> <<>>]
    /\ datagrams = [e \in Ends |-> <<>>]

\* Every function below leaves its socket in state s and writes the packets in
\* out, which restarts the one second timer when one of them is data.
Write(e, s, out) ==
    /\ sock' = [sock EXCEPT ![e] = s]
    /\ net' = [net EXCEPT ![Peer(e)] = @ \cup out]
    /\ overdue' = [overdue EXCEPT
                     ![e] = @ /\ ~\E p \in out : p.kind = "data"]

\* Mutant: every fragment goes out under the number of the first.
SameNumberNext(s) ==
    [s EXCEPT !.sendNext = FALSE]

SendMessageNext(s) ==
    [s EXCEPT !.sendSequence = @ + 1, !.sendNext = FALSE]

\* if (sock->sendNext) SendMessageNext (sock), after writing out already
FlushSendNext(e, s, out) ==
    IF s.sendNext
    THEN Write(e, SendMessageNext(s), out \cup {DataOf(s, s.sendSequence)})
    ELSE Write(e, s, out)

-----------------------------------------------------------------------------
\* Sending.

Datagram_SendMessage(e, m) ==
    LET s == [sock[e] EXCEPT !.sendMessage = m,
                             !.sendSequence = @ + 1,
                             !.canSend = FALSE]
    IN  /\ Write(e, s, {DataOf(s, sock[e].sendSequence)})
        /\ sent' = [sent EXCEPT ![e] = Append(@, m)]
        /\ UNCHANGED <<delivered, datagrams>>

\* The engine asks NET_CanSendMessage, and sends in the same breath.
SendMessage(e, m) ==
    /\ pc[e] = "idle"
    /\ sock[e].canSend
    /\ Len(sent[e]) < MaxMessages[e]
    /\ Datagram_SendMessage(e, m)
    /\ UNCHANGED pc

Datagram_CanSendMessage(e) ==
    /\ pc[e] = "idle"
    /\ FlushSendNext(e, sock[e], {})
    /\ UNCHANGED <<pc, sent, delivered, datagrams>>

Datagram_SendUnreliableMessage(e) ==
    /\ pc[e] = "idle"
    /\ sock[e].unreliableSendSequence < MaxDatagrams[e]
    /\ Write(e, [sock[e] EXCEPT !.unreliableSendSequence = @ + 1],
             {[kind |-> "unreliable", seq |-> sock[e].unreliableSendSequence]})
    /\ UNCHANGED <<pc, sent, delivered, datagrams>>

\* More than a second has passed since the last data packet.
TimerExpires(e) ==
    /\ ~sock[e].canSend
    /\ ~overdue[e]
    /\ overdue' = [overdue EXCEPT ![e] = TRUE]
    /\ UNCHANGED <<sock, pc, net, sent, delivered, datagrams>>

-----------------------------------------------------------------------------
\* Datagram_GetMessage.

\* Mutant: the fragment is repeated under the number of the next one.
ResentAsNext(e) ==
    /\ ~sock[e].canSend
    /\ overdue[e]
    /\ Write(e, [sock[e] EXCEPT !.sendNext = FALSE],
             {DataOf(sock[e], sock[e].sendSequence)})

\* The call begins: a fragment not acknowledged in time is sent again.
ReSendMessage(e) ==
    /\ ~sock[e].canSend
    /\ overdue[e]
    /\ Write(e, [sock[e] EXCEPT !.sendNext = FALSE],
             {DataOf(sock[e], sock[e].sendSequence - 1)})

GetMessage(e) ==
    /\ pc[e] = "idle"
    /\ pc' = [pc EXCEPT ![e] = "reading"]
    /\ \/ ReSendMessage(e)
       \/ /\ sock[e].canSend \/ ~overdue[e]
          /\ UNCHANGED <<sock, net, overdue>>
    /\ UNCHANGED <<sent, delivered, datagrams>>

\* An older datagram than the last one ends the call without a message.
ReadStaleUnreliable(e, p) ==
    /\ p.kind = "unreliable"
    /\ p.seq < sock[e].unreliableReceiveSequence
    /\ FlushSendNext(e, sock[e], {})
    /\ pc' = [pc EXCEPT ![e] = "idle"]
    /\ UNCHANGED <<sent, delivered, datagrams>>

\* Mutant: the number of a datagram is stored and never compared.
ReadAnyUnreliable(e, p) ==
    /\ p.kind = "unreliable"
    /\ FlushSendNext(e, [sock[e] EXCEPT
                           !.unreliableReceiveSequence = p.seq + 1], {})
    /\ pc' = [pc EXCEPT ![e] = "idle"]
    /\ datagrams' = [datagrams EXCEPT ![e] = Append(@, p.seq)]
    /\ UNCHANGED <<sent, delivered>>

ReadUnreliable(e, p) ==
    /\ p.kind = "unreliable"
    /\ p.seq >= sock[e].unreliableReceiveSequence
    /\ FlushSendNext(e, [sock[e] EXCEPT
                           !.unreliableReceiveSequence = p.seq + 1], {})
    /\ pc' = [pc EXCEPT ![e] = "idle"]
    /\ datagrams' = [datagrams EXCEPT ![e] = Append(@, p.seq)]
    /\ UNCHANGED <<sent, delivered>>

\* Mutant: stale and duplicate acknowledgements are not told apart.
IsAck(s, p) ==
    /\ p.kind = "ack"
    /\ s.sendMessage # <<>>

\* The acknowledgement of the fragment under way; what is left of the message
\* goes out when the call ends.
IsCurrentAck(s, p) ==
    /\ p.kind = "ack"
    /\ p.seq = s.sendSequence - 1
    /\ p.seq = s.ackSequence

\* Mutant: the first acknowledgement of a message releases the sender.
ReleasedByFirst(s) ==
    LET left == IF s.sendMessage = <<>> THEN <<>> ELSE Tail(s.sendMessage)
    IN  [s EXCEPT !.ackSequence = @ + 1,
                  !.sendMessage = left,
                  !.sendNext = @ \/ left # <<>>,
                  !.canSend = TRUE]

Acknowledged(s) ==
    LET left == IF s.sendMessage = <<>> THEN <<>> ELSE Tail(s.sendMessage)
    IN  [s EXCEPT !.ackSequence = @ + 1,
                  !.sendMessage = left,
                  !.sendNext = @ \/ left # <<>>,
                  !.canSend = @ \/ left = <<>>]

ReadAck(e, p) ==
    /\ IsCurrentAck(sock[e], p)
    /\ Write(e, Acknowledged(sock[e]), {})
    /\ UNCHANGED <<pc, sent, delivered, datagrams>>

\* Stale and duplicate acknowledgements are skipped.
SkipAck(e, p) ==
    /\ p.kind = "ack"
    /\ ~IsCurrentAck(sock[e], p)
    /\ UNCHANGED vars

\* Data is acknowledged before it is looked at, so a repeated fragment is
\* acknowledged again and otherwise ignored.
ReadDuplicateData(e, p) ==
    /\ p.kind = "data"
    /\ p.seq # sock[e].receiveSequence
    /\ Write(e, sock[e], {AckOf(p.seq)})
    /\ UNCHANGED <<pc, sent, delivered, datagrams>>

ReadFragment(e, p) ==
    /\ p.kind = "data"
    /\ p.seq = sock[e].receiveSequence
    /\ ~p.eom
    /\ Write(e, [sock[e] EXCEPT !.receiveSequence = @ + 1,
                                !.receiveMessage = Append(@, p.data)],
             {AckOf(p.seq)})
    /\ UNCHANGED <<pc, sent, delivered, datagrams>>

\* Mutant: the last fragment is taken under any number.
ReadLastAgain(e, p) ==
    /\ p.kind = "data"
    /\ p.eom
    /\ FlushSendNext(e, [sock[e] EXCEPT !.receiveSequence = @ + 1,
                                        !.receiveMessage = <<>>],
                     {AckOf(p.seq)})
    /\ delivered' = [delivered EXCEPT
                       ![Peer(e)] = Append(@, Append(sock[e].receiveMessage,
                                                     p.data))]
    /\ pc' = [pc EXCEPT ![e] = "idle"]
    /\ UNCHANGED <<sent, datagrams>>

\* The last fragment completes the message and ends the call.
ReadLastFragment(e, p) ==
    /\ p.kind = "data"
    /\ p.seq = sock[e].receiveSequence
    /\ p.eom
    /\ FlushSendNext(e, [sock[e] EXCEPT !.receiveSequence = @ + 1,
                                        !.receiveMessage = <<>>],
                     {AckOf(p.seq)})
    /\ delivered' = [delivered EXCEPT
                       ![Peer(e)] = Append(@, Append(sock[e].receiveMessage,
                                                     p.data))]
    /\ pc' = [pc EXCEPT ![e] = "idle"]
    /\ UNCHANGED <<sent, datagrams>>

\* length == 0: nothing (more) has arrived
ReadNothing(e) ==
    /\ FlushSendNext(e, sock[e], {})
    /\ pc' = [pc EXCEPT ![e] = "idle"]
    /\ UNCHANGED <<sent, delivered, datagrams>>

\* length == -1 returns at once, and leaves sendNext as it is.  Most callers
\* close the connection then; NET_SendToAll and Host_ShutdownServer go on as if
\* nothing had arrived, and what they call next may be GetMessage again.
ReadError(e) ==
    /\ pc' = [pc EXCEPT ![e] = "idle"]
    /\ UNCHANGED <<sock, overdue, net, sent, delivered, datagrams>>

ReadPacket(e) == \E p \in net[e] :
    \/ ReadStaleUnreliable(e, p)
    \/ ReadUnreliable(e, p)
    \/ ReadAck(e, p)
    \/ SkipAck(e, p)
    \/ ReadDuplicateData(e, p)
    \/ ReadFragment(e, p)
    \/ ReadLastFragment(e, p)

Read(e) ==
    /\ pc[e] = "reading"
    /\ ReadPacket(e) \/ ReadNothing(e) \/ ReadError(e)

\* A packet stays in transit after it was read, a duplicate on its way, until
\* the network drops it.
Lose(e) ==
    /\ e \in LossyEnds
    /\ \E p \in net[e] : net' = [net EXCEPT ![e] = @ \ {p}]
    /\ UNCHANGED <<sock, overdue, pc, sent, delivered, datagrams>>

\* NET_Close: the end makes no further call, its peer is not told.
Close(e) ==
    /\ pc[e] = "idle"
    /\ pc' = [pc EXCEPT ![e] = "closed"]
    /\ UNCHANGED <<sock, overdue, net, sent, delivered, datagrams>>

EndStep(e) ==
    \/ \E m \in Messages[e] : SendMessage(e, m)
    \/ Datagram_CanSendMessage(e)
    \/ Datagram_SendUnreliableMessage(e)
    \/ TimerExpires(e)
    \/ GetMessage(e)
    \/ Read(e)
    \/ Lose(e)
    \/ Close(e)

Next == \E e \in Ends : EndStep(e)

Spec == Init /\ [][Next]_vars
-----------------------------------------------------------------------------
(***************************************************************************)
(* Why the protocol works.  In one direction it is always in one of five   *)
(* phases, told apart by the two flags of the sender, by its two counters  *)
(* and by whether the receiver has counted the fragment under way.         *)
(***************************************************************************)

\* The message under way is the part the receiver holds, then rest.
UnderWay(e, rest) ==
    \E m \in Messages[e] :
        /\ sent[e] = Append(delivered[e], m)
        /\ sock[Peer(e)].receiveMessage \o rest = m

\* Nothing is under way.
Resting(e) ==
    /\ sock[e].canSend
    /\ ~sock[e].sendNext
    /\ sock[e].sendMessage = <<>>
    /\ sock[e].ackSequence = sock[e].sendSequence
    /\ sock[Peer(e)].receiveSequence = sock[e].sendSequence
    /\ sock[Peer(e)].receiveMessage = <<>>
    /\ delivered[e] = sent[e]

Sending(e) ==
    /\ ~sock[e].canSend
    /\ ~sock[e].sendNext
    /\ sock[e].sendMessage # <<>>
    /\ sock[e].sendSequence = sock[e].ackSequence + 1

\* The fragment under way was sent and not yet read.
Unread(e) ==
    /\ Sending(e)
    /\ sock[Peer(e)].receiveSequence = sock[e].ackSequence
    /\ UnderWay(e, sock[e].sendMessage)

\* It was read, and the sender does not know.
Unacknowledged(e) ==
    /\ Sending(e)
    /\ sock[Peer(e)].receiveSequence = sock[e].sendSequence
    /\ IF Len(sock[e].sendMessage) = 1
       THEN /\ sock[Peer(e)].receiveMessage = <<>>
            /\ delivered[e] = sent[e]
       ELSE UnderWay(e, Tail(sock[e].sendMessage))

\* It was acknowledged, and the next one waits for a call that sends it.
Pausing(e) ==
    /\ ~sock[e].canSend
    /\ sock[e].sendNext
    /\ sock[e].sendMessage # <<>>
    /\ sock[e].ackSequence = sock[e].sendSequence
    /\ sock[Peer(e)].receiveSequence = sock[e].sendSequence
    /\ sock[e].sendSequence > 0
    /\ UnderWay(e, sock[e].sendMessage)

\* A read error cut GetMessage short while the next fragment waited, and the
\* next call was GetMessage again: ReSendMessage sent the fragment under the
\* number already acknowledged.  The receiver takes it for a repetition, the
\* sender its acknowledgement for a stale one: nothing leads out of here.
Stranded(e) ==
    /\ ~sock[e].canSend
    /\ ~sock[e].sendNext
    /\ sock[e].sendMessage # <<>>
    /\ sock[e].ackSequence = sock[e].sendSequence
    /\ sock[Peer(e)].receiveSequence = sock[e].sendSequence
    /\ sock[e].sendSequence > 0
    /\ UnderWay(e, sock[e].sendMessage)

Phase(e) ==
    \/ Resting(e)
    \/ Unread(e)
    \/ Unacknowledged(e)
    \/ Pausing(e)
    \/ Stranded(e)

PhaseInv == \A e \in Ends : Phase(e)

\* A data packet that may still be counted carries the fragment under way;
\* nobody acknowledges what he did not count.
FromSender(e, p) ==
    /\ p.kind = "data" =>
         /\ p.seq < sock[e].sendSequence
         /\ Sending(e) /\ p.seq + 1 = sock[e].sendSequence =>
                /\ p.eom = (Len(sock[e].sendMessage) = 1)
                /\ p.data = Head(sock[e].sendMessage)
    /\ p.kind = "ack" => p.seq < sock[e].receiveSequence

PacketInv == \A e \in Ends : \A p \in net[Peer(e)] : FromSender(e, p)

-----------------------------------------------------------------------------
\* Properties.

TypeOK ==
    /\ sock \in [Ends -> QSocket]
    /\ overdue \in [Ends -> BOOLEAN]
    /\ pc \in [Ends -> {"idle", "reading", "closed"}]
    /\ net \in [Ends -> SUBSET Packet]
    /\ sent \in [Ends -> Seq(Seq(Fragments))]
    /\ delivered \in [Ends -> Seq(Seq(Fragments))]
    /\ datagrams \in [Ends -> Seq(Nat)]

\* The inductive invariant of the reliable half: the sequence numbers of the
\* two ends, the partly sent and the partly received message always fit.
ProtocolInv == TypeOK /\ PhaseInv /\ PacketInv

\* Reliable messages arrive whole, once, in the order they were sent, whatever
\* the network does (Datagram_GetMessage reassembles and drops duplicates).
DeliveredInOrder == \A e \in Ends :
    \/ delivered[e] = sent[e]
    \/ \E m \in Messages[e] : sent[e] = Append(delivered[e], m)

\* NET_CanSendMessage says yes only when the other end was given everything:
\* an old or repeated acknowledgement never releases the sender early.
ReleasedOnlyWhenDelivered == \A e \in Ends :
    sock[e].canSend => delivered[e] = sent[e]

\* The engine is never given a datagram older than one it was given before.
DatagramsNewer == \A e \in Ends :
    /\ \A i, j \in 1 .. Len(datagrams[e]) :
            i < j => datagrams[e][i] < datagrams[e][j]
    /\ \A i \in 1 .. Len(datagrams[e]) :
            datagrams[e][i] < sock[e].unreliableReceiveSequence

\* The driver implements the stream the engine relies on.
Stream == INSTANCE ReliableStream
            WITH canSend <- [e \in Ends |-> sock[e].canSend]
ImplementsStream == Stream!Spec

-----------------------------------------------------------------------------
(***************************************************************************)
(* Fairness.  Host_Frame polls every open connection each frame, the loop  *)
(* of GetMessage ends when the socket is empty, the clock moves on.  The   *)
(* network may lose any packet, but not all of them for ever: what is      *)
(* under way to an open end again and again is read in the end.            *)
(***************************************************************************)
NewData(e, p) == p.kind = "data" /\ p.seq = sock[e].receiveSequence

\* The fragment read last, sent again because its acknowledgement was lost.
RepeatedData(e, p) ==
    /\ p.kind = "data"
    /\ p.seq + 1 = sock[e].receiveSequence
    /\ AckOf(p.seq) \notin net[Peer(e)]

ReadNewData(e) == pc[e] = "reading" /\ \E p \in net[e] :
    ReadFragment(e, p) \/ ReadLastFragment(e, p)

ReadRepeatedData(e) == pc[e] = "reading" /\ \E p \in net[e] :
    RepeatedData(e, p) /\ ReadDuplicateData(e, p)

ReadCurrentAck(e) == pc[e] = "reading" /\ \E p \in net[e] : ReadAck(e, p)

Open(e) == pc[e] # "closed"

FairNetwork == \A e \in Ends :
    /\ []<>(Open(e) /\ \E p \in net[e] : NewData(e, p))
         => []<><<ReadNewData(e)>>_vars
    /\ []<>(Open(e) /\ \E p \in net[e] : RepeatedData(e, p))
         => []<><<ReadRepeatedData(e)>>_vars
    /\ []<>(Open(e) /\ \E p \in net[e] : IsCurrentAck(sock[e], p))
         => []<><<ReadCurrentAck(e)>>_vars

FairEnds == \A e \in Ends :
    /\ WF_vars(TimerExpires(e))
    /\ WF_vars(GetMessage(e))
    /\ WF_vars(pc[e] = "reading" /\ ReadNothing(e))

FairSpec == Spec /\ FairEnds /\ FairNetwork

\* A reliable message stays under way for ever only if an end closes the
\* connection or a read error strands the sender: otherwise it is released.
MessageGetsThrough == \A e \in Ends :
    ~sock[e].canSend ~>
        sock[e].canSend \/ Stranded(e) \/ \E q \in Ends : ~Open(q)

=============================================================================
