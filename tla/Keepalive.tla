----------------------------- MODULE Keepalive ------------------------------
(***************************************************************************)
(* The client while it loads a level.  CL_ParseServerInfo, called in the   *)
(* middle of a server message, calls CL_KeepaliveMessage for every model   *)
(* and sound it loads: the client reads what has arrived, and every five   *)
(* seconds sends a clc_nop so that the server does not time it out.  The   *)
(* nop is the one reliable message that is sent without asking             *)
(* NET_CanSendMessage first.                                               *)
(***************************************************************************)
EXTENDS Datagram

CONSTANTS
    Client,     \* the end that loads
    Nop         \* the message that holds clc_nop

\* The client collects its messages in a buffer of MAX_DATAGRAM bytes: each is
\* one fragment.
ASSUME ClientAssumption ==
    /\ Client \in Ends /\ Nop \in Messages[Client]
    /\ \A m \in Messages[Client] : Len(m) = 1

VARIABLE
    stage   \* "loading" inside CL_ParseServerInfo, "failed" after a Host_Error
            \* there, "playing" otherwise

kvars == <<vars, stage>>

KInit == Init /\ stage = "playing"

\* CL_GetMessage returned 0, and the last nop is five seconds old: send one.
CL_KeepaliveMessage ==
    /\ stage = "loading"
    /\ pc[Client] = "reading"
    /\ ~sock[Client].sendNext
    /\ Len(sent[Client]) < MaxMessages[Client]
    /\ Datagram_SendMessage(Client, Nop)
    /\ pc' = [pc EXCEPT ![Client] = "idle"]
    /\ UNCHANGED stage

\* CL_ParseServerMessage comes to a svc_serverinfo and starts to load.
BeginLoading ==
    /\ stage = "playing"
    /\ pc[Client] = "idle"
    /\ delivered[Peer(Client)] # <<>>
    /\ stage' = "loading"
    /\ UNCHANGED vars

EndLoading ==
    /\ stage = "loading"
    /\ pc[Client] = "idle"
    /\ stage' = "playing"
    /\ UNCHANGED vars

\* A read error, a reliable message or an unexpected datagram is a Host_Error.
\* The driver has counted and acknowledged what it returns before that.
HostError ==
    /\ stage = "loading"
    /\ pc[Client] = "reading"
    /\ \/ \E p \in net[Client] : \/ ReadLastFragment(Client, p)
                               \/ ReadUnreliable(Client, p)
       \/ ReadError(Client)
    /\ stage' = "failed"

\* What the client does of Datagram.tla while it loads: every message that
\* would end in HostError is left to it.
LoadingClient ==
    \/ GetMessage(Client)
    \/ /\ pc[Client] = "reading"
       /\ ReadPacket(Client) \/ ReadNothing(Client)
       /\ UNCHANGED delivered
    \/ TimerExpires(Client)
    \/ Lose(Client)

\* Host_Error comes to CL_Disconnect: a clc_disconnect that may get lost, and
\* the end of the connection.
FailedClient ==
    \/ Datagram_SendUnreliableMessage(Client)
    \/ Close(Client)
    \/ Lose(Client)

KNext ==
    \/ BeginLoading
    \/ CL_KeepaliveMessage
    \/ HostError
    \/ EndLoading
    \/ stage = "playing" /\ Next /\ UNCHANGED stage
    \/ stage = "loading" /\ LoadingClient /\ UNCHANGED stage
    \/ stage = "failed" /\ FailedClient /\ UNCHANGED stage
    \/ stage # "playing" /\ EndStep(Peer(Client)) /\ UNCHANGED stage

KSpec == KInit /\ [][KNext]_kvars

-----------------------------------------------------------------------------
(***************************************************************************)
(* Why a nop in the wrong moment does no more harm than to stop a stream.  *)
(* The stream to the client is in one of the phases of Datagram.tla.  In   *)
(* the one from the client every message is one fragment, so the number of *)
(* a packet is the number of its message, whatever was sent in between.    *)
(***************************************************************************)
Server == Peer(Client)

ServerStream ==
    /\ Phase(Server)
    /\ \A p \in net[Client] : p.kind = "data" => FromSender(Server, p)
    /\ \A p \in net[Server] : p.kind = "ack" => p.seq < sock[Client].receiveSequence

\* A message was sent while another was under way.  The server acknowledges a
\* number it does not expect without counting it, but the client then waits for
\* an acknowledgement that it will not take for the current one.
Overtaken == sock[Client].ackSequence + 1 < sock[Client].sendSequence

ClientSocket ==
    /\ ~sock[Client].sendNext
    /\ sock[Client].sendSequence = Len(sent[Client])
    /\ IF sock[Client].canSend
       THEN /\ sock[Client].ackSequence = Len(sent[Client])
            /\ delivered[Client] = sent[Client]
       ELSE /\ sock[Client].ackSequence < Len(sent[Client])
            /\ Len(sock[Client].sendMessage) = 1
            /\ sock[Client].sendMessage = sent[Client][Len(sent[Client])]

ClientReceiver ==
    /\ sock[Server].receiveSequence = Len(delivered[Client])
    /\ sock[Server].receiveMessage = <<>>
    /\ sock[Client].ackSequence <= Len(delivered[Client])
    /\ Len(delivered[Client]) <= Len(sent[Client])
    /\ \A i \in 1 .. Len(delivered[Client]) : delivered[Client][i] = sent[Client][i]

ClientPackets ==
    /\ \A p \in net[Server] : p.kind = "data" =>
            p.eom /\ p.seq < Len(sent[Client]) /\ sent[Client][p.seq + 1] = <<p.data>>
    /\ \A p \in net[Client] : p.kind = "ack" =>
            /\ p.seq < Len(sent[Client])
            /\ ~Overtaken => p.seq < sock[Server].receiveSequence

KeepaliveInv ==
    /\ TypeOK
    /\ stage \in {"playing", "loading", "failed"}
    /\ ServerStream /\ ClientSocket /\ ClientReceiver /\ ClientPackets

\* Even when a nop replaces a message that is still under way, the receiver is
\* never given anything twice or out of order (receiveSequence admits one
\* number at a time): its side of the stream stops, it is never corrupted.
NothingOutOfOrder == \A e \in Ends :
    /\ Len(delivered[e]) <= Len(sent[e])
    /\ delivered[e] = SubSeq(sent[e], 1, Len(delivered[e]))

\* The assertion of Datagram_SendMessage's debug build:
\* "SendMessage: called with canSend == false".
SendsOnlyWhenItCan ==
    [][\A e \in Ends : sent'[e] # sent[e] => sock[e].canSend]_kvars
=============================================================================
