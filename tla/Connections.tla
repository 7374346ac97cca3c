---------------------------- MODULE Connections ----------------------------
(***************************************************************************)
(* The pool of qsockets (net_main.c), the datagram driver's answers to     *)
(* connection requests (net_dgrm.c) and the client slots of a dedicated    *)
(* server (sv_main.c, sv_user.c, host.c), which hold pointers to qsockets. *)
(*                                                                         *)
(* The server is one thread.  A frame checks for new clients, one LAN      *)
(* driver after the other, then runs the clients slot by slot, then sends  *)
(* to them slot by slot.  What console commands do happens between frames. *)
(* A qsocket is closed by the server, which drops its slot, but also by    *)
(* the network layer itself, which knows nothing of the slots.             *)
(***************************************************************************)
EXTENDS Integers, Sequences, FiniteSets

CONSTANTS
    NumLanDrivers,  \* net_numlandrivers
    NumSockets,     \* net_numsockets, svs.maxclientslimit when dedicated
    MaxClients,     \* svs.maxclients
    Addrs,          \* the addresses requests come from: [lan, host, port]
    NULL            \* no qsocket

ASSUME DriversAssumption == NumLanDrivers \in Nat \ {0}
ASSUME ClientsAssumption ==
    NumSockets \in Nat /\ MaxClients \in 1..NumSockets
ASSUME AddrsAssumption == \A a \in Addrs : a.lan \in 1..NumLanDrivers

QSockets == 1..NumSockets
ASSUME NullAssumption == NULL \notin QSockets
Slots == 1..MaxClients

VARIABLES
    freeSockets,    \* net_freeSockets, the head first
    activeSockets,  \* net_activeSockets; at most one of them can match a
                    \* request, so their order does not matter
    sock,           \* sock[q]: what is read of q's qsocket_t
    clients,        \* svs.clients: active and netconnection of each slot
    net_activeconnections,
    phase,          \* what the server is doing
    at,             \* the LAN driver or the slot the phase has come to
    fatal,          \* Sys_Error was called: the program has exited
    exposed         \* history: the network layer has closed a qsocket where a
                    \* request may be accepted before its slot is run

pool == <<freeSockets, activeSockets, sock>>
server == <<clients, net_activeconnections>>
vars == <<pool, server, phase, at, fatal, exposed>>

-----------------------------------------------------------------------------
\* The pool.

Init ==
    /\ freeSockets = [n \in QSockets |-> n]
    /\ activeSockets = {}
    /\ sock = [q \in QSockets |->
                 [disconnected |-> TRUE, addr |-> NULL, recent |-> FALSE]]
    /\ clients = [i \in Slots |-> [active |-> FALSE, netconnection |-> NULL]]
    /\ net_activeconnections = 0
    /\ phase = "between"
    /\ at = 1
    /\ fatal = FALSE
    /\ exposed = FALSE

\* NET_NewQSocket has one to give.
HasRoom ==
    /\ freeSockets # <<>>
    /\ net_activeconnections < MaxClients

NET_NewQSocket(a) ==
    LET q == Head(freeSockets)
    IN  /\ freeSockets' = Tail(freeSockets)
        /\ activeSockets' = activeSockets \cup {q}
        /\ sock' = [sock EXCEPT ![q] =
                      [disconnected |-> FALSE, addr |-> a, recent |-> TRUE]]

\* Mutant: the freed qsocket is not marked disconnected.
FreeStillConnected(q) ==
    IF q \in activeSockets
    THEN /\ activeSockets' = activeSockets \ {q}
         /\ freeSockets' = <<q>> \o freeSockets
         /\ UNCHANGED <<sock, fatal>>
    ELSE fatal' = TRUE /\ UNCHANGED pool

NET_FreeQSocket(q) ==
    IF q \in activeSockets
    THEN /\ activeSockets' = activeSockets \ {q}
         /\ freeSockets' = <<q>> \o freeSockets
         /\ sock' = [sock EXCEPT ![q].disconnected = TRUE]
         /\ UNCHANGED fatal
    ELSE fatal' = TRUE /\ UNCHANGED pool

\* Mutant: NET_Close does not ask whether the qsocket is closed already.
ClosedNever(q) == q = NULL

Closed(q) == q = NULL \/ sock[q].disconnected

NET_Close(q) ==
    IF Closed(q) THEN UNCHANGED <<pool, fatal>> ELSE NET_FreeQSocket(q)

\* Two seconds pass since q was accepted.
Age(q) ==
    /\ q \in activeSockets /\ sock[q].recent
    /\ sock' = [sock EXCEPT ![q].recent = FALSE]
    /\ UNCHANGED <<freeSockets, activeSockets, server, phase, at, fatal, exposed>>

-----------------------------------------------------------------------------
\* The slots.

\* Mutants: the slot keeps its pointer; the qsocket is not closed; a slot whose
\* qsocket the network layer closed is not counted.
DropKeepsPointer(i) ==
    /\ NET_Close(clients[i].netconnection)
    /\ clients' = [clients EXCEPT ![i].active = FALSE]
    /\ net_activeconnections' = net_activeconnections - 1
DropWithoutClose(i) ==
    /\ clients' = [clients EXCEPT ![i] = [active |-> FALSE,
                                          netconnection |-> NULL]]
    /\ net_activeconnections' = net_activeconnections - 1
    /\ UNCHANGED <<pool, fatal>>
DropCountsOpen(i) ==
    /\ NET_Close(clients[i].netconnection)
    /\ clients' = [clients EXCEPT ![i] = [active |-> FALSE,
                                          netconnection |-> NULL]]
    /\ net_activeconnections' =
         IF Closed(clients[i].netconnection) THEN net_activeconnections
                                             ELSE net_activeconnections - 1

SV_DropClient(i) ==
    /\ NET_Close(clients[i].netconnection)
    /\ clients' = [clients EXCEPT ![i] = [active |-> FALSE,
                                          netconnection |-> NULL]]
    /\ net_activeconnections' = net_activeconnections - 1

\* The first slot that is not active takes the connection q.
SV_ConnectClient(q) ==
    IF \A i \in Slots : clients[i].active
    THEN fatal' = TRUE /\ UNCHANGED server  \* "no free clients"
    ELSE LET i == CHOOSE i \in Slots :
                    /\ ~clients[i].active
                    /\ \A j \in 1..(i - 1) : clients[j].active
         IN  /\ clients' = [clients EXCEPT ![i] = [active |-> TRUE,
                                                   netconnection |-> q]]
             /\ net_activeconnections' = net_activeconnections + 1
             /\ UNCHANGED fatal

During(p) == phase = p /\ ~fatal

Goto(p, n) == phase' = p /\ at' = n

NextSlot(after) ==
    IF at < MaxClients THEN Goto(phase, at + 1) ELSE Goto(after, 1)

-----------------------------------------------------------------------------
\* SV_CheckForNewClients: the LAN drivers are asked in turn, and from the first
\* again after each new connection, until none has one.

NextLan == IF at < NumLanDrivers THEN Goto(phase, at + 1) ELSE Goto("run", 1)

\* 0 for the same address, 1 for another port of the same host, else -1
AddrCompare(a, b) ==
    IF a.lan # b.lan \/ a.host # b.host THEN -1
    ELSE IF a.port # b.port THEN 1 ELSE 0

\* Mutant: only the very same address is known.
KnownExactly(a) ==
    {q \in activeSockets : AddrCompare(a, sock[q].addr) = 0}

Known(a) == {q \in activeSockets : AddrCompare(a, sock[q].addr) >= 0}

IsDuplicate(a, q) == AddrCompare(a, sock[q].addr) = 0 /\ sock[q].recent

\* Nothing that is answered with a qsocket: no packet, another command, a wrong
\* version, or a connection that cannot get a network socket (its qsocket goes
\* back to the head of the free list it came from).
NoRequest ==
    /\ During("check")
    /\ NextLan
    /\ UNCHANGED <<pool, server, fatal, exposed>>

\* A CCREQ_CONNECT from a is read by the LAN driver the server has come to.
Request(a) == During("check") /\ a.lan = at

RepeatReply(a) ==
    /\ Request(a)
    /\ \E q \in Known(a) : IsDuplicate(a, q)
    /\ NextLan
    /\ UNCHANGED <<pool, server, fatal, exposed>>

\* Mutant: the server is asked again, as after a new connection, at once.
CloseOldAndAskAgain(a) ==
    /\ Request(a)
    /\ \E q \in Known(a) : ~IsDuplicate(a, q) /\ NET_Close(q)
    /\ Goto("check", 1)
    /\ exposed' = (exposed \/ at < NumLanDrivers)
    /\ UNCHANGED server

\* "close the old qsocket and let their retry get them back in".  Unless this is
\* the last LAN driver, the next one may accept a request in the same check.
CloseOld(a) ==
    /\ Request(a)
    /\ \E q \in Known(a) : ~IsDuplicate(a, q) /\ NET_Close(q)
    /\ NextLan
    /\ exposed' = (exposed \/ at < NumLanDrivers)
    /\ UNCHANGED server

RejectFull(a) ==
    /\ Request(a)
    /\ Known(a) = {} /\ ~HasRoom
    /\ NextLan
    /\ UNCHANGED <<pool, server, fatal, exposed>>

Accept(a) ==
    /\ Request(a)
    /\ Known(a) = {} /\ HasRoom
    /\ NET_NewQSocket(a)
    /\ SV_ConnectClient(Head(freeSockets))
    /\ Goto("check", 1)
    /\ UNCHANGED exposed

-----------------------------------------------------------------------------
\* SV_RunClients and SV_SendClientMessages.

\* Mutant: a closed qsocket is one with nothing to read.
RunClosedClient ==
    /\ During("run")
    /\ NextSlot("send")
    /\ UNCHANGED <<pool, server, fatal, exposed>>

\* An empty slot, or a client whose messages are read to the last.
RunClient ==
    /\ During("run")
    /\ clients[at].active => ~Closed(clients[at].netconnection)
    /\ NextSlot("send")
    /\ UNCHANGED <<pool, server, fatal, exposed>>

\* NET_GetMessage returns -1 (on a closed qsocket it always does; a client that
\* was silent for too long it closes), or the client says or does something that
\* ends it.
RunDrop ==
    /\ During("run")
    /\ clients[at].active
    /\ SV_DropClient(at)
    /\ NextSlot("send")
    /\ UNCHANGED exposed

\* The message asks for another client to be kicked; no one kicks himself.
RunKick(i) ==
    /\ During("run")
    /\ clients[at].active /\ ~Closed(clients[at].netconnection)
    /\ clients[i].active /\ i # at
    /\ SV_DropClient(i)
    /\ UNCHANGED <<phase, at, exposed>>

SendClient ==
    /\ During("send")
    /\ NextSlot("between")
    /\ UNCHANGED <<pool, server, fatal, exposed>>

\* A datagram or a message that cannot be sent, or an overflowed message.
SendDrop ==
    /\ During("send")
    /\ clients[at].active
    /\ SV_DropClient(at)
    /\ NextSlot("between")
    /\ UNCHANGED exposed

-----------------------------------------------------------------------------
\* Between frames.

BeginFrame ==
    /\ During("between")
    /\ Goto("check", 1)
    /\ UNCHANGED <<pool, server, fatal, exposed>>

ConsoleKick(i) ==
    /\ During("between")
    /\ clients[i].active
    /\ SV_DropClient(i)
    /\ UNCHANGED <<phase, at, exposed>>

\* Before a level change and a shutdown NET_SendToAll waits up to 5 seconds; the
\* NET_GetMessage in its loop may find that the client of slot i timed out, and
\* its result is thrown away.
TimeOutInSendToAll(i) ==
    /\ During("between")
    /\ clients[i].active /\ ~Closed(clients[i].netconnection)
    /\ NET_Close(clients[i].netconnection)
    /\ exposed' = TRUE
    /\ UNCHANGED <<server, phase, at>>

Host_ShutdownServer ==
    /\ During("between")
    /\ Goto("shutdown", 1)
    /\ UNCHANGED <<pool, server, fatal, exposed>>

ShutdownSlot ==
    /\ During("shutdown")
    /\ IF clients[at].active
       THEN SV_DropClient(at)
       ELSE UNCHANGED <<pool, server, fatal>>
    /\ NextSlot("between")
    /\ UNCHANGED exposed

-----------------------------------------------------------------------------
Next ==
    \/ NoRequest
    \/ \E a \in Addrs : RepeatReply(a) \/ CloseOld(a) \/ RejectFull(a) \/ Accept(a)
    \/ RunClient \/ RunDrop \/ SendClient \/ SendDrop
    \/ BeginFrame \/ Host_ShutdownServer \/ ShutdownSlot
    \/ \E i \in Slots : RunKick(i) \/ ConsoleKick(i) \/ TimeOutInSendToAll(i)
    \/ \E q \in QSockets : Age(q)

Spec == Init /\ [][Next]_vars

-----------------------------------------------------------------------------
\* Properties.

Active(i) == clients[i].active

\* The types, and that a slot has a connection exactly while it is active.
TypeOK ==
    /\ freeSockets \in Seq(QSockets)
    /\ activeSockets \subseteq QSockets
    /\ sock \in [QSockets -> [disconnected : BOOLEAN, addr : Addrs \cup {NULL},
                              recent : BOOLEAN]]
    /\ clients \in [Slots -> [active : BOOLEAN,
                              netconnection : QSockets \cup {NULL}]]
    /\ \A i \in Slots : Active(i) <=> clients[i].netconnection # NULL
    /\ net_activeconnections \in Int
    /\ \/ phase \in {"run", "send", "between", "shutdown"} /\ at \in Slots
       \/ phase = "check" /\ at \in 1..NumLanDrivers
    /\ fatal \in BOOLEAN
    /\ exposed \in BOOLEAN

\* No qsocket is lost and none is in use twice: each is either once on the free
\* list and marked disconnected, or active and not.
PoolConserved ==
    /\ \A m, n \in DOMAIN freeSockets :
         freeSockets[m] = freeSockets[n] => m = n
    /\ \A q \in QSockets :
         (q \in activeSockets) <=> (\A n \in DOMAIN freeSockets : freeSockets[n] # q)
    /\ \A q \in QSockets : sock[q].disconnected <=> q \notin activeSockets

\* net_activeconnections, which NET_NewQSocket compares with svs.maxclients, is
\* the number of active slots, whoever closed the qsockets.
CountMatches == net_activeconnections = Cardinality({i \in Slots : Active(i)})

\* Neither "no free clients" nor "NET_FreeQSocket: not active".
NoFatalError == ~fatal

\* An active qsocket belongs to an active slot: none is leaked, since only its
\* slot can give it back.
NoOrphan ==
    \A q \in activeSockets :
        \E i \in Slots : Active(i) /\ clients[i].netconnection = q

\* Of one host at most one connection is accepted at a time: a request that finds
\* another closes that one first.
OneConnectionPerHost ==
    \A p, q \in activeSockets :
        AddrCompare(sock[p].addr, sock[q].addr) >= 0 => p = q

\* Two slots never hold the same qsocket: what one client sends would be taken for
\* another's, and dropping either closes the connection of both.  (net.h:308: "A
\* netcon_t number will not be reused until this function is called for it".)
NoSharedConnection ==
    \A i, j \in Slots :
        /\ Active(i) /\ Active(j)
        /\ clients[i].netconnection = clients[j].netconnection
        => i = j

\* The order of a frame (check, run, send) keeps it so, whoever asks again and
\* however the server drops its clients, as long as no qsocket was closed where
\* another request may come before SV_RunClients: by a LAN driver that is not the
\* last one asked, or by a time-out inside NET_SendToAll.
SharedOnlyIfExposed == ~exposed => NoSharedConnection

\* And as long, a connection that a request closed has cost its slot by the time
\* the server sends: SV_SendClientMessages meets no slot whose qsocket is closed.
ClosedIsDropped ==
    ~exposed /\ phase = "send" =>
        \A i \in Slots : Active(i) => ~Closed(clients[i].netconnection)
=============================================================================
