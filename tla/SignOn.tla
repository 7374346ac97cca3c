------------------------------- MODULE SignOn -------------------------------
(***************************************************************************)
(* How a client comes into a level, and into the next one.  The server     *)
(* sends serverinfo, the precache data and the state of the game, each     *)
(* ended by a svc_signonnum (1, 2, 3); the client answers prespawn, spawn  *)
(* and begin; the first entity update is stage 4.  At a level change the   *)
(* server stuffs a "reconnect", waits until it is acknowledged, loads, and *)
(* starts again with serverinfo.                                           *)
(*                                                                         *)
(* Both programs write into a buffer of their own, which is sent as one    *)
(* reliable message when the one before it was acknowledged.  A direction  *)
(* of the connection is a channel that behaves as ReliableStream says.     *)
(* Stages and answers carry the level they belong to as a history: the     *)
(* program cannot tell.                                                    *)
(***************************************************************************)
EXTENDS Naturals, Sequences, Functions

CONSTANT MaxLevel       \* the bound of the level changes
ASSUME LevelAssumption == MaxLevel \in Nat \ {0}

VARIABLES
    server,     \* the server's slot for the client, and the level it runs
    phase,      \* the point of the frame the server has come to
    client,     \* cls and what the client knows of the level
    reading,    \* the client is in the loop of CL_ReadFromServer
    down, up,   \* the channels to the client and to the server
    updates,    \* levels of which entity updates may be in transit
    answered,   \* history: the stages of this level that were answered
    overtaken   \* history: a level was changed with a stage or answer under way

vars == <<server, phase, client, reading, down, up, updates, answered, overtaken>>

Levels == 1..MaxLevel
Reconnect == [stage |-> 0, level |-> 0]
Stage(n, l) == [stage |-> n, level |-> l]
Stages == {Reconnect} \cup {Stage(n, l) : n \in 1..3, l \in Levels}
Answers == {Stage(n, l) : n \in 1..3, l \in Levels}

\* A direction of the reliable connection: at most one message is under way,
\* not yet read, or read and not yet known to be.
Free == [message |-> <<>>, state |-> "free"]
Carrying(m) == [message |-> m, state |-> "unread"]
Taken == [message |-> <<>>, state |-> "read"]
CanSend(channel) == channel.state = "free"
Arrived(channel) == channel.state = "unread"

Init ==
    /\ server = [active |-> TRUE, level |-> 1, spawned |-> FALSE,
                 sendsignon |-> TRUE, message |-> <<Stage(1, 1)>>]
    /\ phase = "commands"
    /\ client = [connected |-> TRUE, signon |-> 0, message |-> <<>>,
                 stuffed |-> FALSE, base |-> 0, update |-> 0]
    /\ reading = FALSE
    /\ down = Free /\ up = Free
    /\ updates = {}
    /\ answered = {}
    /\ overtaken = FALSE

-----------------------------------------------------------------------------
\* The server.

SendServerinfoOnly(s, l) ==                 \* Mutant: spawned is not reset
    [s EXCEPT !.level = l, !.message = Append(@, Stage(1, l)), !.sendsignon = TRUE]

SV_SendServerinfo(s, l) ==
    [s EXCEPT !.level = l, !.message = Append(@, Stage(1, l)),
              !.sendsignon = TRUE, !.spawned = FALSE]

\* A console command changes the level: SV_SpawnServer, SV_SendReconnect.
Changelevel ==
    /\ phase = "commands"
    /\ server.level < MaxLevel
    /\ phase' = IF server.active THEN "reconnect" ELSE "run"
    /\ server' = IF server.active THEN server
                                  ELSE [server EXCEPT !.level = @ + 1]
    /\ answered' = IF server.active THEN answered ELSE {}
    /\ UNCHANGED <<client, reading, down, up, updates, overtaken>>

\* NET_SendToAll: the message is sent when the one before it is acknowledged,
\* and whatever the client sends meanwhile is read and thrown away.
SendReconnect ==
    /\ phase = "reconnect"
    /\ CanSend(down)
    /\ down' = Carrying(<<Reconnect>>)
    /\ phase' = "acknowledge"
    /\ UNCHANGED <<server, client, reading, up, updates, answered, overtaken>>

Discard ==
    /\ phase \in {"reconnect", "acknowledge"}
    /\ ~CanSend(down)
    /\ Arrived(up)
    /\ up' = Taken
    /\ UNCHANGED <<server, phase, client, reading, down, updates, answered, overtaken>>

\* Something of the old level's sign-on is still to be read by either side.
OldStageUnderWay == Arrived(down) /\ down.message # <<Reconnect>>
OldAnswerUnderWay == client.message # <<>> \/ Arrived(up)

\* The reconnect is acknowledged, or five seconds are over: load the level.
SV_SpawnServer ==
    /\ \/ phase = "acknowledge"             \* CanSend(down), or time is over
       \/ phase = "reconnect"               \* time is over
    /\ server' = SV_SendServerinfo(server, server.level + 1)
    /\ phase' = "run"
    /\ answered' = {}
    /\ overtaken' = (overtaken \/ OldStageUnderWay \/ OldAnswerUnderWay)
    /\ UNCHANGED <<client, reading, down, up, updates>>

\* The commands prespawn, spawn and begin of a client: what they make of the
\* slot, <<slot, answered>>.
PreSpawnAsFirst(s) ==                       \* Mutant: the wrong stage number
    IF s.spawned THEN s
    ELSE [s EXCEPT !.message = Append(@, Stage(1, s.level)), !.sendsignon = TRUE]

Host_PreSpawn(s) ==
    IF s.spawned THEN s
    ELSE [s EXCEPT !.message = Append(@, Stage(2, s.level)), !.sendsignon = TRUE]

SpawnBegins(s) ==                           \* Mutant: spawned before begin
    IF s.spawned THEN s
    ELSE [s EXCEPT !.message = <<Stage(3, s.level)>>, !.sendsignon = TRUE,
                   !.spawned = TRUE]

Host_Spawn(s) ==
    IF s.spawned THEN s
    ELSE [s EXCEPT !.message = <<Stage(3, s.level)>>, !.sendsignon = TRUE]

Host_Begin(s) == [s EXCEPT !.spawned = TRUE]

Execute(s, answer) ==
    CASE answer.stage = 1 -> Host_PreSpawn(s)
      [] answer.stage = 2 -> Host_Spawn(s)
      [] answer.stage = 3 -> Host_Begin(s)

\* SV_ReadClientMessage: one message, all its commands in order.
ExecuteAll(s, answers) ==
    LET after[i \in 0 .. Len(answers)] ==
            IF i = 0 THEN s ELSE Execute(after[i - 1], answers[i])
    IN  after[Len(answers)]

ReadClientMessage ==
    /\ phase = "run" /\ server.active
    /\ Arrived(up)
    /\ up' = Taken
    /\ server' = ExecuteAll(server, up.message)
    /\ answered' = answered \cup
            {a.stage : a \in {b \in Range(up.message) : b.level = server.level}}
    /\ UNCHANGED <<phase, client, reading, down, updates, overtaken>>

\* A client that left is dropped when its channel is read.
SV_DropClient ==
    /\ phase = "run" /\ server.active
    /\ ~client.connected
    /\ server' = [server EXCEPT !.active = FALSE, !.spawned = FALSE, !.message = <<>>]
    /\ UNCHANGED <<phase, client, reading, down, up, updates, answered, overtaken>>

\* SV_SendClientMessages for this client; a client that is not spawned gets
\* its buffer only when the next stage is in it.
WantsMessage(s) == s.active /\ (s.spawned \/ s.sendsignon) /\ s.message # <<>>

SendAndClear ==                             \* Mutant: cleared though not sent
    /\ phase = "send"
    /\ phase' = "commands"
    /\ updates' = IF server.active /\ server.spawned
                  THEN updates \cup {server.level} ELSE updates
    /\ IF WantsMessage(server)
       THEN /\ down' = IF CanSend(down) THEN Carrying(server.message) ELSE down
            /\ server' = [server EXCEPT !.message = <<>>, !.sendsignon = FALSE]
       ELSE UNCHANGED <<server, down>>
    /\ UNCHANGED <<client, reading, up, answered, overtaken>>

SV_SendClientMessages ==
    /\ phase = "send"
    /\ phase' = "commands"
    /\ updates' = IF server.active /\ server.spawned
                  THEN updates \cup {server.level} ELSE updates
    /\ IF WantsMessage(server) /\ CanSend(down)
       THEN /\ down' = Carrying(server.message)
            /\ server' = [server EXCEPT !.message = <<>>, !.sendsignon = FALSE]
       ELSE UNCHANGED <<server, down>>
    /\ UNCHANGED <<client, reading, up, answered, overtaken>>

\* Between its parts, the server's frame goes on.
NextPhase ==
    /\ \/ phase = "commands" /\ phase' = "run"
       \/ phase = "run" /\ phase' = "send"
    /\ UNCHANGED <<server, client, reading, down, up, updates, answered, overtaken>>

\* NET_GetMessage of the server finds the acknowledgement.
ServerConfirmed ==
    /\ phase \in {"reconnect", "acknowledge", "run"}
    /\ down.state = "read"
    /\ down' = Free
    /\ UNCHANGED <<server, phase, client, reading, up, updates, answered, overtaken>>

-----------------------------------------------------------------------------
\* The client.

\* CL_ParseServerInfo clears the client's state, its unsent answers included;
\* the baselines come with stage 2.
CL_ClearState(c) == [c EXCEPT !.message = <<>>, !.base = 0]

ReplyTwice(c, s) ==                         \* Mutant: the answer is doubled
    IF s.stage <= c.signon
    THEN [c EXCEPT !.connected = FALSE, !.signon = 0, !.message = <<>>]
    ELSE [c EXCEPT !.signon = s.stage, !.message = @ \o <<s, s>>]

\* svc_signonnum: a stage that does not go up is a Host_Error, which
\* disconnects the client.
SignonNum(c, s) ==
    IF s.stage <= c.signon
    THEN [c EXCEPT !.connected = FALSE, !.signon = 0, !.message = <<>>]
    ELSE [c EXCEPT !.signon = s.stage, !.message = Append(@, s)]

Parse(c, s) ==
    IF ~c.connected THEN c
    ELSE CASE s = Reconnect -> [c EXCEPT !.stuffed = TRUE]
           [] s.stage = 1 -> SignonNum(CL_ClearState(c), s)
           [] s.stage = 2 -> SignonNum([c EXCEPT !.base = s.level], s)
           [] s.stage = 3 -> SignonNum(c, s)

SendCmdAndClear ==                          \* Mutant: cleared though not sent
    /\ client.connected /\ ~reading
    /\ reading' = TRUE
    /\ up' = IF client.message # <<>> /\ CanSend(up) THEN Carrying(client.message) ELSE up
    /\ client' = [client EXCEPT !.message = <<>>, !.stuffed = FALSE,
                                !.signon = IF client.stuffed THEN 0 ELSE @]
    /\ UNCHANGED <<server, phase, down, updates, answered, overtaken>>

\* CL_ParseServerMessage: one message, all its stages in order.
ParseAll(c, stages) ==
    LET after[i \in 0 .. Len(stages)] ==
            IF i = 0 THEN c ELSE Parse(after[i - 1], stages[i])
    IN  after[Len(stages)]

\* The beginning of a frame: a stuffed reconnect is executed (Cbuf_Execute),
\* CL_SendCmd sends the answers when it can.
ClientFrame ==
    /\ client.connected /\ ~reading
    /\ reading' = TRUE
    /\ LET c == IF client.stuffed
                THEN [client EXCEPT !.signon = 0, !.stuffed = FALSE]   \* Host_Reconnect_f
                ELSE client
       IN  IF c.message # <<>> /\ CanSend(up)
           THEN /\ up' = Carrying(c.message)
                /\ client' = [c EXCEPT !.message = <<>>]
           ELSE /\ client' = c
                /\ UNCHANGED up
    /\ UNCHANGED <<server, phase, down, updates, answered, overtaken>>

\* CL_ReadFromServer, one turn of its loop: a reliable message,
ReadMessage ==
    /\ client.connected /\ reading
    /\ Arrived(down)
    /\ down' = Taken
    /\ client' = ParseAll(client, down.message)
    /\ UNCHANGED <<server, phase, reading, up, updates, answered, overtaken>>

\* or a datagram, never an older one than the last (CL_ParseUpdate).
ReadUpdate(l) ==
    /\ client.connected /\ reading
    /\ l >= client.update
    /\ client' = [client EXCEPT !.update = l, !.signon = IF @ = 3 THEN 4 ELSE @]
    /\ UNCHANGED <<server, phase, reading, down, up, updates, answered, overtaken>>

\* Nothing more has arrived.
EndReading ==
    /\ client.connected /\ reading
    /\ reading' = FALSE
    /\ UNCHANGED <<server, phase, client, down, up, updates, answered, overtaken>>

\* NET_GetMessage of the client finds the acknowledgement.
ClientConfirmed ==
    /\ client.connected /\ reading
    /\ up.state = "read"
    /\ up' = Free
    /\ UNCHANGED <<server, phase, client, reading, down, updates, answered, overtaken>>

-----------------------------------------------------------------------------
ServerStep ==
    \/ SendReconnect \/ Discard \/ SV_SpawnServer
    \/ ReadClientMessage \/ SV_DropClient \/ SV_SendClientMessages
    \/ NextPhase \/ ServerConfirmed

ClientStep ==
    \/ ClientFrame \/ ReadMessage \/ EndReading \/ ClientConfirmed
    \/ \E l \in updates : ReadUpdate(l)

Next == Changelevel \/ ServerStep \/ ClientStep

Spec == Init /\ [][Next]_vars

\* Both programs run frame after frame; a frame reads what has arrived, and
\* the network lets some of what is repeated through.
Fairness ==
    /\ WF_vars(SV_SpawnServer) /\ WF_vars(NextPhase) /\ WF_vars(SV_SendClientMessages)
    /\ SF_vars(ReadClientMessage) /\ SF_vars(ServerConfirmed)
    /\ WF_vars(ClientFrame) /\ WF_vars(EndReading)
    /\ SF_vars(ReadMessage) /\ SF_vars(ClientConfirmed)
    /\ SF_vars(ReadUpdate(server.level) /\ server.level \in updates)

FairSpec == Spec /\ Fairness

-----------------------------------------------------------------------------
Channel(messages) ==
    [message : {<<>>}, state : {"free", "read"}]
        \cup [message : Seq(messages), state : {"unread"}]

\* The state of both programs, their buffers and the channels has its type.
TypeOK ==
    /\ server \in [active : BOOLEAN, level : Levels, spawned : BOOLEAN,
                   sendsignon : BOOLEAN, message : Seq(Stages \ {Reconnect})]
    /\ phase \in {"commands", "reconnect", "acknowledge", "run", "send"}
    /\ client \in [connected : BOOLEAN, signon : 0..4, message : Seq(Answers),
                   stuffed : BOOLEAN, base : Levels \cup {0}, update : Levels \cup {0}]
    /\ reading \in BOOLEAN /\ overtaken \in BOOLEAN
    /\ down \in Channel(Stages) /\ up \in Channel(Answers)
    /\ updates \subseteq Levels
    /\ answered \subseteq 1..3

-----------------------------------------------------------------------------
(***************************************************************************)
(* Why the sign-on works.  As long as no level change overtakes anything,  *)
(* a stage of the present level or its answer is in at most one place: the *)
(* buffer of the server, the channel to the client, the buffer of the      *)
(* client, the channel to the server, and so on with the next stage.       *)
(***************************************************************************)

\* Message m ends with stage n.  Only a serverinfo may have stages before it,
\* those an older level has left unsent; they make the client give up.
EndsWith(m, n) ==
    /\ m # <<>> /\ m[Len(m)] = Stage(n, server.level)
    /\ Len(m) > 1 => n = 1 /\ server.level > 1
    /\ \A i \in 1 .. Len(m) : m[i] # Reconnect

NoAnswer == client.message = <<>> /\ ~Arrived(up)
NoStage == server.message = <<>> /\ ~OldStageUnderWay

\* Stage n is on its way to the client, which will take it for a new one (in a
\* later level the client may still be in its old stage, and give up);
Offered(n) ==
    /\ NoAnswer
    /\ \/ EndsWith(server.message, n) /\ ~OldStageUnderWay
       \/ server.message = <<>> /\ Arrived(down) /\ EndsWith(down.message, n)
    /\ n > 1 \/ server.level = 1 => client.signon < n
    /\ n > 2 => client.base = server.level

\* or its answer to the server.
Replied(n) ==
    /\ NoStage
    /\ \/ client.message = <<Stage(n, server.level)>> /\ ~Arrived(up)
       \/ client.message = <<>> /\ up = Carrying(<<Stage(n, server.level)>>)
    /\ n < 3 => client.signon <= n
    /\ n > 1 => client.base = server.level

SigningOn(n) ==
    /\ Offered(n) \/ Replied(n)
    /\ ~server.spawned /\ server.level \notin updates
    /\ answered = 1 .. n - 1

SignedOn ==
    /\ NoStage /\ NoAnswer
    /\ server.spawned /\ client.base = server.level
    /\ answered = 1..3

\* NET_SendToAll has thrown the answer away: only a new level helps.
Interrupted ==
    /\ NoStage /\ NoAnswer
    /\ ~server.spawned /\ server.level \notin updates
    /\ phase \in {"reconnect", "acknowledge"}

\* The client has given up, which in the first level it never does.
GivenUp == ~client.connected /\ ~server.spawned /\ NoAnswer /\ server.level # 1

\* The levels of what is in the server's buffer go up, so nothing is in it twice.
BufferOrdered ==
    /\ \A i \in 1 .. Len(server.message) : server.message[i].level <= server.level
    /\ \A i, j \in 1 .. Len(server.message) :
            i < j => server.message[i].level < server.message[j].level

Orderly ==
    /\ \/ GivenUp
       \/ client.connected /\ (SignedOn \/ Interrupted \/ \E n \in 1..3 : SigningOn(n))
    /\ BufferOrdered

\* Until a level change overtakes a stage or an answer, the two programs are in
\* step; in the first level there is none to overtake.
SignOnInv ==
    /\ TypeOK
    /\ phase \in {"reconnect", "acknowledge"} => server.active /\ server.level < MaxLevel
    /\ ~server.active => ~client.connected
    /\ \A l \in updates : l <= server.level
    /\ server.level = 1 => ~overtaken
    /\ ~overtaken => Orderly

\* What SV_SendServerinfo says where it resets spawned: "need prespawn, spawn,
\* etc".  An answer that a level change overtook breaks it.
NeedsPrespawnSpawn == server.spawned => {1, 2} \subseteq answered

\* If no answer was under way at a level change, a spawned client has answered
\* each of the three stages of this very level.
SignedOnInOrder == ~overtaken /\ server.spawned => answered = 1..3

\* Within the first level, whatever the network and the frames do, the client
\* never sees a stage twice or out of order, which would be a Host_Error.
NoErrorInFirstLevel == server.level = 1 => client.connected

\* An entity update is relative to the baselines of its level: the first one of
\* the level the server runs is not read before them.  (One of the level before
\* may still come late, and is then taken for one of this level.)
BaselineBeforeUpdate ==
    [][client'.update > client.update /\ client'.update = server.level =>
            client.base = server.level \/ overtaken]_vars

\* A stage of the present level leaves the slot's buffer only by being sent: the
\* SZ_Clear of Host_Spawn_f never throws a serverinfo or the baselines away.
NoStageLost ==
    [][\A s \in Range(server.message) :
            \/ s.level # server'.level
            \/ s \in Range(server'.message)
            \/ down' = Carrying(server.message)
            \/ ~server'.active
            \/ overtaken]_vars

\* In the end the client is in the level the server runs, or has left with an
\* error; unless an answer was overtaken, after which it may hang for ever.
InGame == server.spawned /\ client.signon = 4
ComesIn == <>[](InGame \/ ~client.connected \/ overtaken)
=============================================================================
