# A verification of 486quake

Quake (1996) is a client and a server in one program, one thread each, which talk
over a network that loses, repeats and reorders packets. 486quake is that program,
built for slow PCs. This directory holds TLA+ models of its core logic, the TLC runs
that check them on small instances, and proofs that the TLA+ proof system TLAPS
checks for every instance. File names below are those of `src/`.

| file | content |
|------|---------|
| `ReliableStream.tla` | what a connection promises the engine |
| `Datagram.tla` | the datagram driver, `net_dgrm.c`, between two ends |
| `DatagramProofs.tla` | its invariant, its safety and the refinement, proved |
| `Keepalive.tla` | the client that loads a level, on top of `Datagram` |
| `KeepaliveProofs.tla` | the invariant it leaves of the channel, and its safety, proved |
| `Connections.tla` | the qsocket pool, connection requests, the server's client slots |
| `ConnectionProofs.tla` | its safety, proved |
| `Heap.tla` | what callers of the zone allocator rely on |
| `Zone.tla` | the zone allocator, `zone.c` |
| `ZoneProofs.tla` | its invariant, the justified refusal and the refinement, proved |
| `SignOn.tla` | how a client comes into a level and into the next one |
| `SignOnProofs.tla` | its invariant, its safety and its action properties, proved |
| `HunkCache.tla` | the hunk and the cache between its ends, `zone.c` |
| `HunkCacheProofs.tla` | its layout, its lists, its contents and its order of use, proved |
| `Programs.tla` | calls, saved locals and errors of the game's programs, `pr_exec.c` and `host.c` |
| `ProgramsProofs.tla` | its invariant, the callers' locals and the end of errors, proved |
| `MC*.tla`, `MC*.cfg` | the instances TLC checks |
| `PROJECT.json` | components, runs, mutants, source map, findings, hazards, theorems |

Parse with SANY, check with TLC (`tlc -config MCDatagram_safety.cfg MCDatagram`), prove
with `tlapm DatagramProofs.tla`, and so for the other `*Proofs.tla`.

## Inventory

### Network layer

**Datagram driver** (`net_dgrm.c`). State: per connection a `qsocket_t` with the flags
`canSend` and `sendNext`, the message being sent and the part already received, and six
sequence counters. Operations: send, can-send, send unreliable, get message. Reliable
messages of up to 8 kB go out as fragments, stop and wait: one is repeated each second
until it is acknowledged. Unreliable ones are numbered, an old one is never given to the
engine. Hard: everything the network may do, in both directions at once, while the
engine may make any call between two reads. Correct when: messages arrive whole, once,
in order; `canSend` tells the truth; a message under way gets through.

**Pool and network interface** (`net_main.c`). State: the free and the active list of
qsockets, `net_activeconnections`, the poll procedures. Operations: allocate, free,
close, get, send, send to all, check for connections, poll. The server's slots and the
client's `cls.netcon` point into the pool. Hard: both the engine and the network layer
close connections; a closed qsocket is at once the next to be handed out. Correct when:
no qsocket is lost or held twice, the count agrees with the slots.

**Handshake and server browser** (`net_dgrm.c` 518-1390, `net_main.c` 294-450). A client
asks up to three times, 2.5 s apart; the server accepts, repeats its answer within 2 s,
or closes the host's old connection and waits for the next request. The host cache has
8 entries. Hard: repeated and late answers, two players behind one address.

**Loop driver** (`net_loop.c`): the local client of a listen server, one buffer each way.
**Serial driver** (`dos/net_ser.c`, `dos/net_comx.c`): stop and wait with one-byte numbers
over queues shared with an interrupt handler. **VCR** (`net_vcr.c`): record and playback.
**LAN drivers** (`net_udp.c`, `dos/net_ipx.c`, ...): wrappers of system calls.

### Server

**Slots and frame** (`sv_main.c`, `sv_user.c`, `host.c`). State: per slot `active`,
`spawned`, `sendsignon`, the message buffer, `netconnection`. A frame checks for new
clients, reads every client, moves the world, sends to every client; console commands run
between frames and may change the level or shut the server down. Correct when: a slot
never holds another's connection, and a closed connection costs its slot.

**Sign-on** (`sv_main.c`, `host_cmd.c`, `client/cl_main.c`): serverinfo, prespawn, spawn,
begin, and all of it again at a level change. Hard: replies to the old level that arrive
in the new one. Correct when: every client reaches `spawned` in the level it is in.

**QuakeC** (`pr_exec.c`, `pr_edict.c`, `pr_cmds.c`): a call stack, a stack of saved locals,
nested executions, and errors that unwind with `longjmp`. **Edicts and areas**
(`pr_edict.c`, `world.c`): reuse after half a second, lists that change under a walk.
**Physics** (`sv_phys.c`, `sv_move.c`): geometry, and the roll-back of `SV_PushMove`.

### Client and engine

**Memory** (`zone.c`): the zone (a list of blocks with a rover), the hunk (two stacks in
one arena), the cache (LRU blocks between them that move and vanish). Correct when: the
blocks tile the arena, no two allocations overlap, a request fails only when nothing fits,
no user sees a moved block.
**Commands** (`cmd.c`): a text buffer that commands insert into while it is executed.
**Client** (`client/`): parsing, interpolation, input buttons, demos; it reads the network
while it loads a level. **Surface cache** (`r_std/d_surf.c`): a ring allocator.
**Renderers, sound, menus, platform layers, assembler**: arithmetic, drawing and hardware.

How they interact: everything is a direct call within one thread, except the packets
between two programs and the interrupt handlers of the serial and sound drivers. The
shared state that matters is the pool (network layer and slots), `net_message` (one buffer
for all reads), the command buffer and the hunk.

`PROJECT.json` lists every component with its status and every hazard with its line.

## What is modelled

### Datagram.tla

Two ends, each one thread with one qsocket. `sock[e]` has the fields of `qsocket_t` the
driver uses; a message is the sequence of its fragments, so `sendMessageLength >
MAX_DATAGRAM` is "more than one fragment left". Time is only the question
`net_time - lastSendTime > 1.0`, the flag `overdue[e]`, which the clock may set at any
moment. `net[e]` is the set of packets in transit to `e`; a packet stays there after it was
read, so it may be read again, in any order, or never: duplication, reordering and loss.
`Lose` removes packets; safety does not need it, as an unread packet is a lost one.

One action per call, except `Datagram_GetMessage`, whose loop reads packet after packet
while the other end goes on: `GetMessage` is its beginning (with the resend), each `Read`
action one turn of the loop (`pc[e] = "reading"`), and the turn that ends the call also
flushes `sendNext`. A read error (`ReadError`) leaves without the flush, and any call may
follow it: most callers close, but `NET_SendToAll` and `Host_ShutdownServer` throw the result
away and go on. When the call that follows is `GetMessage`, its resend sends the waiting
fragment under the number already acknowledged; `Stranded` is the state that comes of it. A
failed write is a lost packet. `sent`, `delivered` and `datagrams` are histories.

Abstracted: contents (a small set of fragments), lengths, short, foreign and control
packets (the loop skips them), statistics, the 32-bit width of the counters.

### ReliableStream.tla

Per end a stream: `Send` when nothing is under way, `Deliver` once, `Confirm` afterwards.
`Datagram` implements it with `canSend` read from the sockets and the histories mapped to
themselves; only sending, the last fragment and the last acknowledgement are visible.

### Keepalive.tla

Extends `Datagram` with `CL_KeepaliveMessage`: a client that loads reads what arrives and
now and then sends a `clc_nop`, without `NET_CanSendMessage`. `stage` says where the client
is. A reliable message, a datagram that is no nop, or a read error is a `Host_Error`
(`stage = "failed"`): the driver has counted, acknowledged and handed over the message by
then, so `HostError` contains those steps of `Datagram` whole. `FailedClient` is the
`CL_Disconnect` that follows, a last datagram and `NET_Close`.

### Connections.tla

The server program: `freeSockets` is the free list (its order decides what is reused),
`activeSockets` the set of active qsockets, `clients` the slots, `phase` and `at` the point
of the frame the server has come to. In `"check"` every LAN driver may hold one request per
turn, and after each accepted one the drivers are asked again from the first. In `"run"`
and `"send"` one step is one slot: its messages are read to the end, or it is dropped.
`"between"` is the rest of `Host_Frame`, where console commands act; `"shutdown"` is
`Host_ShutdownServer`. `fatal` is `Sys_Error`: nothing follows it.

An address is a LAN driver, a host and a port. `recent` is `net_time - connecttime < 2.0`.
Why a client is dropped (time-out, bad message, disconnect, overflow) is left open; that a
closed qsocket makes `NET_GetMessage` return -1 is not. `RunKick` and `ConsoleKick` are
`Host_Kick_f`. `exposed` is a history: it turns TRUE when the network layer closes a qsocket
where a request may be accepted before `SV_RunClients` comes to its slot, which is in a LAN
driver that is not the last one asked (`CloseOld`), or inside `NET_SendToAll`
(`TimeOutInSendToAll`).

The server is dedicated: its slots are all remote, and an error of the game code ends the
program, so no step starts in the middle of another.

### Zone.tla and Heap.tla

`block` maps the offset of each header in the list to its `memblock_t`; what is no header
any more is not in its domain, so a stale link or rover would be seen. The list head lies
in front of all blocks and counts as offset 0, which makes the order of the list the order
of the offsets. `Z_TagMalloc` is one action per turn of its search loop (`BeginSearch`,
`KeepSearching`, then `Found` or `Refuse`), because whether the loop ends, and with the
right answer, is what is hard about it; `Z_Free` with both merges is one action. The
program is one thread: nothing else happens during a search. `Z_Malloc` is the only caller
of `Z_TagMalloc`, and ends the program when it gets NULL (`pc = "exited"`). `live` is a
history: who holds which bytes. Callers free what they hold, once; freed pointers and the
contents are left out. `Heap` is the promise: memory is handed out inside the zone,
overlaps nothing that is held, and stays until it is freed.

### SignOn.tla

One server slot and one remote client. `server` has the fields of `client_t` that decide
about the sequence (`active`, `spawned`, `sendsignon`, `message`) and the level; `client`
has `cls.signon`, `cls.message`, a `reconnect` that was stuffed and not yet executed, and
which level's baselines and updates it has. A buffer is a sequence of stages or answers
(`svc_signonnum` 1 to 3; prespawn, spawn, begin); what else is in it is left out. `down` and
`up` are the two directions of the connection as `ReliableStream` describes one: a message
is unread, or read and not yet acknowledged, or the channel is free. `updates` are the entity
datagrams that may still arrive, by level; an older one is never read after a newer one,
which is `DatagramsNewer` of `Datagram`.

The server's frame has the phases `"commands"` (`Changelevel`), `"run"` (each message that
has arrived is executed whole, `ExecuteAll`) and `"send"`. A level change is
`SV_SendReconnect` with the loop of `NET_SendToAll` (`"reconnect"`: not sent yet,
`"acknowledge"`: sent), which throws away what the client sends, then `SV_SpawnServer`; that
five seconds are over is a choice at any time. The client's frame is `ClientFrame`
(`Cbuf_Execute`, `CL_SendCmd`) and then the loop of `CL_ReadFromServer` turn by turn.
`answered` and `overtaken` are histories, and so are the levels of stages and answers: the
program cannot tell a stale `begin` from a new one, which is what the last disagreement
below is about. The properties say what holds when nothing was overtaken.

### HunkCache.tla

`hunkLow`, `hunkHigh`, `tempActive`, `tempMark` are the globals; `cache` is the list from
`cache_head.next`, `lru` the one from `cache_head.lru_next`, `data[u]` the pointer in the
`cache_user_t` of `u`. `call` is the call the program is in: `Cache_FreeLow`,
`Cache_FreeHigh` and the loop of `Cache_Alloc` are one action per turn, everything else is
one action per call. `memory` is a history of whose contents each unit of the hunk holds,
moved by `Cache_Move` as `Q_memcpy` does: `Intact` compares it with what the lists claim.
`used` and `moved` are histories of the order of use. `Cache_Move` counts the moved block as
just used, so "least recently used" is true only of blocks that were not moved since. The
branch of `Cache_FreeHigh` for a block "that didn't move out of the way" is in the model and
never taken: a move always ends at another address, or frees the block.

### Programs.tla

`locals[f]` are the cells of the globals that function `f` uses; `stack` is `pr_stack` up to
`pr_depth`, `saved` is `localstack` up to `localstack_used`, `runs` the activations of
`PR_ExecuteProgram` that are on the C stack, each with its `exitdepth` and what is left of
its `runaway` count. A statement calls a function, returns, stores into a local, does
something else, fails (`BadStatement`, `Runaway`, `PF_error`), or calls a built-in that runs
another program (`Touch`, as `SV_TouchLinks` does). Each stack entry carries a history: what
the caller's locals were and how high `saved` was.

`Host_Error` abandons all runs. If the server is active it shuts it down, which runs
`ClientDisconnect` for each spawned client (`phase = "shutdown"`, `ShutdownDrop`); an error
there finds `inerror` set and ends the program. The host's other calls into programs are
`RunProgram` (physics, client commands, the spawn functions while a level loads),
`SV_ConnectClient` and `SV_DropClient`. A program that runs while the host is in some
operation leaves the host where it was when it returns; only `SV_DropClient` goes on by
freeing its slot (`slot` of the run).

`PR_RunError` dumps the call stack and not the saved locals, `PF_error` and a NULL function
dump neither, so entries of dead calls stay below those of the next program, also over a
level change: `Balanced` and `Kept` are therefore about the entries above the exit depth of
the oldest run. The saved locals that stay are never given back. When they fill `localstack`
every function with locals fails until the program is restarted; the run reaches that state.
That a level can be loaded with clients in the slots and `sv.active` FALSE (no such map, or an
error while it loads) is in the model too.

`PF_objerror` is one of the ways to fail like `PF_error`: the comment over it
(`pr_cmds.c:75-76`) says that "the level can continue", but it ends in `Host_Error`, which
shuts the server down.

Abstracted: what is computed, the parameters' way through the globals, the edicts. Programs
store only into their own locals, as the compiler's code does. The stack trace that is
printed at an error is left out; after a stack overflow it writes one entry past `pr_stack`
(`pr_exec.c:201`, with `pr_depth` equal to `MAX_STACK_DEPTH`), where the model's overflow is
a clean error.

## Runs

| run | asks | instance | shows |
|-----|------|----------|-------|
| `datagram_safety` | invariant, order, release, datagrams, refinement | 2 messages of 1 or 2 fragments from the server, 2 of one from the client, datagrams both ways | holds, 0.15 M states |
| `datagram_liveness` | a message under way gets through, unless a read error strands it | one message of 2 fragments, a datagram each way, every packet may be lost | holds, 26 k states |
| `datagram_send` | a message that was taken is delivered, or the connection dies | the same | **violated** |
| `keepalive_safety` | invariant, order and release with keepalives | 3 client messages, 2 of the server of two fragments, a datagram each way | holds, 0.72 M states |
| `keepalive_assert` | the driver's debug assertion | the same | **violated** |
| `connections` | pool, count, leaks, errors, one per host, slots kept apart until exposed | 3 slots, 4 qsockets, 2 LAN drivers, 4 addresses of 3 hosts, time-outs | holds, 1.5 M states |
| `connections_reuse` | no shared qsocket | the same | **violated** |
| `zone` | tiling, justified refusal, refinement, the search ends | 240 bytes of blocks, requests of 1, 40 and 100 bytes | holds, 34 k states |
| `signon_levels` | invariant, sign-on in order, no error, baselines first, no stage lost, the client comes in | three levels | holds, 42 k states |
| `signon_stale` | "need prespawn, spawn, etc" | two levels | **violated** |
| `hunk_cache` | layout, both lists, contents, exits, LRU, the loops end | 6 units, 3 users, blocks of 2 and 3, hunk allocations of 1 and 2 | holds, 65 k states |
| `programs` | balanced stacks, callers' locals, errors end, the host comes back | 2 functions, one with a local, depth 3, 2 saved cells, 4 statements, 2 clients | holds, 0.27 M states |

*Bounds.* `MaxMessages`, `MaxDatagrams`: two messages are enough for an old packet of one
to meet the next, two fragments for a message that is partly acknowledged. Two datagrams
can be reordered. Three slots and four qsockets (the least `svs.maxclientslimit`) leave a
free qsocket when all slots are taken; three hosts, one with two ports, fill the slots and
come back. The zone is small: seven of the smallest blocks and 16 bytes more, so that a
block is sometimes larger than what it was asked for; the three sizes make blocks of 32, 64
and 128 bytes, below and above `MINFRAGMENT`. With three levels the second
change meets what the first one left. Three blocks of two units fill the hunk of six; two
leave gaps that fit a third or do not, and an allocation of either stack meets none, one or
two of them. Two saved cells hold the locals of two recursive calls and overflow at the
third, the depth overflows at the fourth; four statements are enough for a call, a nested
program and a failure in it. The remaining state is finite by itself.

*Deadlock* is checked in the connection and sign-on runs: a server never stops. The datagram
instances stop when the bounds are used up and both ends have closed, the zone and the
hunk when an allocation failed (`Sys_Error`), the programs when an error ended the program.

*Fairness.* `zone`, `hunk_cache`: the program runs on while it is inside `Z_TagMalloc`, or
in the loops of the hunk and the cache. `programs`: a program is run on to its end, and so
is the loop of `Host_ShutdownServer`; that nested runs, errors and shutdowns come to one is
what `ComesBack` says. `signon_levels`: both programs run their frames, a wait for the
reconnect ends (five seconds), and what a channel carries is read in the end though a frame
may come too early for it (strong fairness; this is `MessageGetsThrough` of `Datagram`,
so `ComesIn` is about connections that no read error has stranded).
`datagram_liveness`: `FairEnds`: the clock runs, an open end polls
(`Host_Frame` reads every connection each frame), and a read loop ends; nothing is asked of
an end that got a read error but to poll again. `FairNetwork`: a packet that is in transit to an open end
again and again, because its sender repeats it, is read in the end; any single packet, and
any finite number of them, may be lost. The code justifies no more than that, and with less
nothing can get through.

*Mutants.* For every property a definition is exchanged for one with a plausible fault
(an acknowledgement not compared, a fragment repeated under the wrong number, a close that does not ask
whether it is closed, ...), named `Mutant` in the modules; TLC must find the property broken.

### Four disagreements with the source's own statements

`datagram_send`: `net.h:292-296` says that `NET_SendMessage` returns 1 "if the message was
sent properly" and -1 "if the connection died", and `net.h:298` calls `NET_SendToAll` a
reliable send. When a client has acknowledged one of several fragments and the read fails in
the same call of `Datagram_GetMessage` (`net_dgrm.c:338-342`), the next fragment is still to
be sent. `NET_SendToAll` ignores the -1 (`net_main.c:769`, `783`); if its time is over then, the
next call is the `NET_GetMessage` of the new level (`sv_user.c:491`), more than a second later.
`ReSendMessage` (`net_dgrm.c:260-268`) clears `sendNext` and sends the fragment under the number
of the one before. The receiver acknowledges and ignores it, the sender ignores the
acknowledgement, and so on for ever: the connection stays open, datagrams keep it from timing
out, and no reliable message passes again. `ProtocolInv` has this state as its phase
`Stranded`; `datagram_safety` shows that nothing is delivered twice, out of order or in part
even so, and `datagram_liveness` that it is the only way to get stuck.

`keepalive_assert`: `net_dgrm.c:174` asserts, in debug builds, that nobody sends while
`canSend` is false. `client/cl_parse.c:195` does. In other builds the nop takes the place
of the unacknowledged message under the next number; the server still waits for the old
number, which nobody sends any more, and the client's reliable channel is stuck until the
connection times out. `keepalive_safety` shows that the harm stops there: nothing is
delivered twice or out of order, and the sender is never told that something arrived that
did not.

`connections_reuse`: `net.h:301-308` promises that a connection is not reused until
`NET_Close` is called for it by its user. The network layer calls it itself
(`net_dgrm.c:1033`, `net_main.c:562`). If a request is accepted before `SV_RunClients` drops
the old slot, two slots share one qsocket. That takes a second LAN driver in the same
check, or a time-out inside `NET_SendToAll` at a level change; that without these the order of
the frame prevents it is `SharedOnlyIfExposed`, checked in `connections` and proved.

`signon_stale`: `sv_main.c:232` resets `spawned` because the client will "need prespawn,
spawn, etc". `Host_Begin_f` (`host_cmd.c:1411`) sets it at any stage. A client whose answer
to the old level is under way when the level changes (it is read too late to be thrown away
by `NET_SendToAll`) has its `begin` executed in the new level; it is then spawned, its
`prespawn` is refused, and it waits for stage 2 for ever. A stale `spawn` does the same one
stage earlier.

## Proofs

`DatagramProofs.tla` proves, for any contents, message lengths and numbers of messages:

* `ProtocolInvariant`: `Spec => []ProtocolInv`. `ProtocolInv` is the type invariant and two
  parts. `PhaseInv`: each direction is in one of five phases, `Resting` (all delivered),
  `Unread` (a fragment was sent, the receiver has not counted it), `Unacknowledged` (it has),
  `Pausing` (the sender knows, and the next fragment waits for a call that sends it), and
  `Stranded` (it was sent under the old number after a read error; nothing leads out).
  Each fixes how the four counters, the sender's rest and the receiver's part fit together.
  `PacketInv`: a data packet that the receiver would still count carries the fragment under
  way, and no acknowledgement exists of what was not counted. The safety properties are not
  inductive alone: that a release is honest rests on which acknowledgements are in transit,
  and that on the counters of the other end.
* `DeliveryInOrder`, `ReleaseAfterDelivery`: consequences of the phases.
* `Refinement`: `Spec => Stream!Spec`; each call is one step of the stream or none.
* `DatagramsInOrder`: from the invariant and the receiver's counter.

There is one lemma per action that moves a stream to another phase (`SendStep`, `AckStep`,
`FragmentStep`, ...); `StepPreserves` and `PacketsKept` say once what all of them need about
the two directions and the packets. Assumptions: there are exactly two ends, a message has
at least one fragment, bounds are numbers.

`ZoneProofs.tla` proves, for any size of the zone and of the structures, any fragment limit
and any requests:

* `ZoneInvariant`: `Spec => []ZoneInv`: the blocks tile the zone and the links agree
  (`Tiled`, what `Z_CheckHeap` tests at run time), no two free blocks meet (`Merged`), the
  blocks in use are those that callers hold (`Held`), and the loop invariant of the search
  (`SearchInv`): walking from the rover, every block that was passed does not fit.
* `RefusalJustified`: NULL means that nothing fits. The search never compares the block
  before the rover as a candidate of its own; that it is either reached as `base`, or in use
  because the one before it is free, needs `Merged`.
* `HeapRefinement`: the zone implements `Heap`.

The lemmas are about lists as values (`JoinKeepsList`, `SplitKeepsList`, `MarkKeepsList`,
then `ReleaseWorks` for both merges) and about the ring (`PassedNext`, `PassedAll`); each
action then has one lemma. Assumptions: the sizes are positive, the zone is larger than its
own header, requests are not negative.

`ConnectionProofs.tla` proves, for any number of LAN drivers, qsockets and slots, and any
addresses:

* `ConnectionInvariant`: `Spec => []ConnInv`; `ConnInv` is `TypeOK`, `PoolConserved`,
  `CountMatches`, `NoFatalError`, `NoOrphan` and `OneConnectionPerHost` together, each of
  which is then a theorem of its own (`PoolIsConserved`, `CountIsRight`, ...). They are
  inductive only together: `SV_ConnectClient` finds a slot because the count is that of the
  active slots, `NET_FreeQSocket` finds its qsocket because `disconnected` is kept in step.
* `ConnectionsApart`, `ClosedAreDropped`: until a LAN driver that is not the last closes a
  qsocket, or a client times out inside `NET_SendToAll` (`exposed`), slots never share a qsocket
  and the server never sends on a closed one. Their invariant adds `StaleAhead`: a slot whose
  qsocket the network layer closed is one that `SV_RunClients` has still to come to.
  `connections_reuse` is the counterexample once `exposed` is TRUE.

`CloseKeepsPool` and `NewKeepsPool` say what happens to the pool, `DropKeeps`, `CloseKeeps`
and `AcceptKeeps` what the slots make of it; `StepInv` and `OrderStep` go through the
actions. Assumptions: between one slot and as many as there are qsockets, at least one LAN
driver.

`ProgramsProofs.tla` proves, for any functions with any numbers of locals and parameters,
and any sizes of the two stacks:

* `ProgramsInOrder`: `Spec => []ProgramsInv`. `Balanced` is what makes returns safe: nested
  runs begin at rising depths and every live call owns exactly its function's locals on the
  other stack, at rising heights, so neither stack underflows. `Kept` is the strengthening
  for the callers' locals, which are overwritten while a function recurses: from a live entry
  upwards, the first call of the caller's own function has saved them, and if there is none
  they are still in place.
* `CallersGetTheirLocals`: at a return the range of `Kept` is one entry, which is the claim.
* `ErrorsShutDown`: `inerror` is set only while the server is down (`ErrorsEnd`), and only
  the end of the shutdown, with no client left, clears it.

`EnterKeeps`, `LeaveKeeps`, `StatementKeeps` and `ErrorStops` are about the machine alone;
`OldestBase` and `Heights` restate the invariant in terms of the depth the oldest run began
at, which no step inside a run changes. `StatementStep`, `ShutdownStep` and `FrameStep` go
through the actions. Assumptions: parameters are among the locals, the stack has room for
one entry, client numbers are positive.

`HunkCacheProofs.tla` proves, for a hunk of any size, any users and any requests:

* `HunkInvariant`: `Spec => []HunkInv`, which is `CacheInv`, `ListsAgree`, `Intact` and
  `ExitsOnlyWhenTooLarge` together; `HunkLayout`, `LruListAgrees`, `ContentsKept` and
  `GivesUpOnlyWhenTooLarge` are its parts. They are inductive together: that a move overwrites
  nothing needs the layout, that the pointers agree after it needs the lists.
* `LeastRecentlyUsedGoes`: the action property, from `HunkInvariant`.

The lemmas go from lists (`WithList`, `WithoutList`, `MadeFirstList`: linking and unlinking
one element) to what freeing, linking and moving a block does to the layout and to the
contents (`FreedLayout`, `LinkedLayout`, `FreedHold`, `LinkedHold`, `MovedList`), to the order
of use (`FreedUse`, `MovedUse`, `AskedUse`), and then action by action. `FirstIsOne` proves
that the place `Cache_TryAlloc` takes is a fitting one: the least element of a set of places
exists because `<` is well-founded (`WFMin`). Assumptions: sizes are positive and no user has
the name of a stack.

`KeepaliveProofs.tla` proves, for any contents, any numbers of messages and server messages
of any length:

* `KeepaliveInvariant`: `KSpec => []KeepaliveInv`. A nop may replace a message under way, so
  `ProtocolInv` does not hold. What is left: the stream from the server keeps its five phases
  (`ServerStream`); on the one from the client a message is one fragment, so the number of a
  packet is the number of its message (`ClientSocket`, `ClientReceiver`, `ClientPackets`). A
  first version claimed that an acknowledgement exists only of what the server has counted;
  TLC refuted it: the server acknowledges a number it does not expect without counting it.
  That the client is not misled by this rests on `Overtaken`: such an acknowledgement is never
  the one it waits for.
* `NothingOutOfOrderHolds`, `ReleaseAfterDeliveryWhileLoading`: consequences.

`Effects` cuts each call into what it does as the sender of one stream and the receiver of the
other; `ServerOwn`, `ServerPeer`, `ClientOwn` and `ClientPeer` then look at one stream each.
Assumptions: those of `Datagram`, and that what the client sends fits into one fragment:
`cls.message` has `MAX_DATAGRAM` bytes (`client/cl_main.c:719`), and only longer messages are
cut (`net_dgrm.c:181`).

`SignOnProofs.tla` proves, for any number of levels and messages of any length:

* `InStep`: `Spec => []SignOnInv`. `SignOnInv` says why the sign-on works. As long as no level
  change overtakes anything, one stage or answer of the present level is under way and in one
  place: offered in the server's buffer or in the channel, or replied in the client's buffer or
  in the channel back (`SigningOn(n)`); or the client is `SignedOn`, or `Interrupted` (its
  answer was thrown away by `NET_SendToAll`, and only the new level helps), or it has
  `GivenUp`. The baselines, the level's updates and the answered stages go with each case.
* `SignOnTypes`, `AnsweredAllStages`, `NoErrorAtFirst`: consequences.
* `BaselinesFirst`, `NoStageThrownAway`: the two action properties. An update of the level
  exists only in `SignedOn`; `Host_Spawn_f` clears its buffer only while the client has
  replied, and then there is nothing in it.

In a later level a serverinfo may come in one message behind what the level before left
unsent; the client then meets stage 1 where it does not go up and gives up (`LateServerinfo`).
The loops that read a message are the recursive functions `ExecuteAll` and `ParseAll`. That
they exist, and what they keep for messages of any length, is proved by induction over the
number of commands read: the library's induction theorems cannot be instantiated, but
`SetInduction` and `RoundsExist` follow from the well-foundedness of `<` and state the same
about a set. With four levels TLC refuted an earlier claim that no two answers in the client's
buffer are ever equal: after two overtaken changes they may be. It holds, by `SignOnInv`, where
nothing was overtaken, and is claimed only there. Assumption: there is at least one level.

Only model-checked: liveness under fairness (`MessageGetsThrough`, `SearchEnds`, `ComesIn`,
`CallsEnd`, `ComesBack`), as the prover does not treat fairness and `ENABLED`. Every invariant,
action property and refinement of the passing runs is proved. The four runs that expect a
violation show counterexamples, so there is nothing to prove about them. `RECURSIVE` operators
are out of the prover's reach too; the modules avoid them.

## Plan

Modelled so far: the network core, the server's connections, sign-on, all of `zone.c`, the
machine of the game's programs. Worth proving next: the variants behind the liveness
properties, as action properties: each turn of the search of `Z_TagMalloc` passes one more
block, each turn of `Cache_FreeLow`, `Cache_FreeHigh` and `Cache_Alloc` leaves fewer blocks to
deal with; and that what the sign-on assumes of its channels is what `ReliableStream` says.

Worth modelling next: `Connections` for a listen server (the loop driver's two qsockets,
`Host_Error` in the middle of an operation, `NET_Shutdown`); the poll procedures of
`net_main.c`; edicts and the area tree, with the touch programs of `Programs`; the surface
cache's ring; the serial line with its interrupt handler; the client's side of the handshake.

## Not modelled

Of the modelled parts: the listen server's local client, the contents of messages, the
statements' effects on the edicts, the width of the sequence numbers, and the entries for
empty slots that `NET_SendToAll` reads uninitialized (`net_main.c:766`), which cost it time
only; `PROJECT.json` says for each component what is left out.

Rendering, mixing, physics and movement are arithmetic on floating point numbers and
pixels: nothing a state machine of this size can say. File loaders, menus, the console and
the platform layers are input and output. The assembler sources repeat C code. `gas2masm`
is a tool of the build. `PROJECT.json` gives the reason for each.
