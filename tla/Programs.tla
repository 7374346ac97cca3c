------------------------------ MODULE Programs ------------------------------
(***************************************************************************)
(* The machine that runs the game's programs (pr_exec.c), and what becomes *)
(* of the server when one of them fails (Host_Error).                      *)
(*                                                                         *)
(* A function's locals lie at a fixed place among the globals, so a call   *)
(* saves them on a stack of their own and the return puts them back.  A    *)
(* built-in function of the host may run another program inside the first. *)
(* An error abandons them all with a longjmp, after the server was shut    *)
(* down, which runs a program for each client that leaves, and may fail    *)
(* again.                                                                  *)
(*                                                                         *)
(* What the programs compute is abstracted to values stored in the running *)
(* function's locals; which function runs, and where it calls or fails, is *)
(* any choice.                                                             *)
(***************************************************************************)
EXTENDS Integers, Sequences

CONSTANTS
    Functions,      \* the functions of progs.dat
    Locals,         \* Locals[f]: how many cells of the globals f uses
    Parms,          \* Parms[f]: how many of them, the first, are parameters
    Values,         \* what a cell may hold
    Blank,          \* what it holds when the programs are loaded
    MaxDepth,       \* MAX_STACK_DEPTH
    LocalStackSize, \* LOCALSTACK_SIZE
    MaxStatements,  \* the statements after which a program is taken to run away
    Clients,        \* the slots, in the order they are shut down
    NULL

ASSUME FunctionAssumption ==
    /\ Locals \in [Functions -> Nat] /\ Parms \in [Functions -> Nat]
    /\ \A f \in Functions : Parms[f] <= Locals[f]
    /\ NULL \notin Functions
ASSUME ValueAssumption == Blank \in Values
ASSUME SizeAssumption ==
    /\ MaxDepth \in Nat \ {0} /\ LocalStackSize \in Nat /\ MaxStatements \in Nat \ {0}
ASSUME ClientAssumption == Clients \subseteq Nat \ {0}

VARIABLES
    locals,     \* the cells of each function, in pr_globals
    xfunction,  \* pr_xfunction
    stack,      \* pr_stack up to pr_depth; a history says what the caller had
    saved,      \* localstack up to localstack_used
    runs,       \* the activations of PR_ExecuteProgram
    phase,      \* where the host is: in a frame, loading, shutting down, gone
    active,     \* sv.active
    inerror,    \* inerror of Host_Error
    clients,    \* the active slots
    spawned,    \* those of them that are spawned
    dedicated   \* cls.state = ca_dedicated

machine == <<locals, xfunction, stack, saved, runs>>
slots == <<clients, spawned>>
host == <<phase, active, inerror>>
vars == <<machine, host, slots, dedicated>>

Cells(f) == 1..Locals[f]
Loaded == [f \in Functions |-> [i \in Cells(f) |-> Blank]]

Init ==
    /\ locals = Loaded
    /\ xfunction = NULL
    /\ stack = <<>> /\ saved = <<>> /\ runs = <<>>
    /\ phase = "frame"
    /\ active = FALSE /\ inerror = FALSE
    /\ clients = {} /\ spawned = {}
    /\ dedicated \in BOOLEAN

-----------------------------------------------------------------------------
\* Errors.

\* The longjmp to the next frame; a dedicated server exits instead.
Aborted == IF dedicated THEN "exited" ELSE "frame"

ErrorAgain(depth) ==                        \* Mutant: inerror is not looked at
    /\ stack' = SubSeq(stack, 1, depth)
    /\ runs' = <<>>
    /\ active' = FALSE
    /\ inerror' = active
    /\ phase' = IF active THEN "shutdown" ELSE Aborted
    /\ UNCHANGED <<locals, xfunction, saved, dedicated>>

\* Host_Error with the call stack cut to a depth.  The programs that were
\* running never go on.  A second error while the first one shuts the server
\* down is a Sys_Error.
Host_Error(depth) ==
    /\ stack' = SubSeq(stack, 1, depth)
    /\ runs' = <<>>
    /\ active' = FALSE
    /\ inerror' = (inerror \/ active)
    /\ phase' = CASE inerror -> "exited"
                  [] ~inerror /\ active -> "shutdown"
                  [] OTHER -> Aborted
    /\ UNCHANGED <<locals, xfunction, saved, dedicated>>

\* PR_RunError dumps the call stack; the saved locals stay.
PR_RunError == Host_Error(0)

-----------------------------------------------------------------------------
\* Calls.

Running == runs # <<>>
Run == runs[Len(runs)]
WithRun(r) == [runs EXCEPT ![Len(runs)] = r]

\* A run ends at the depth it began; slot is the one SV_DropClient will free
\* then, or 0.
NewRun(slot) == [exit |-> Len(stack), left |-> MaxStatements, slot |-> slot]

\* One more statement is executed.
Counted == [Run EXCEPT !.left = @ - 1]

\* The history of a stack entry: the caller's locals, if the caller is a
\* program that goes on, and the height of the other stack.
Entry == [fun |-> xfunction,
          kept |-> IF Running THEN locals[xfunction] ELSE <<>>,
          used |-> Len(saved)]

OverflowLate(f) ==                          \* Mutant: f's locals not counted
    Len(stack) + 1 >= MaxDepth \/ Len(saved) > LocalStackSize

Overflow(f) ==
    Len(stack) + 1 >= MaxDepth \/ Len(saved) + Locals[f] > LocalStackSize

Entered(f, args) ==
    [locals EXCEPT ![f] = [i \in Cells(f) |-> IF i <= Parms[f] THEN args[i] ELSE @[i]]]

Saved(f) == saved \o locals[f]

PR_EnterFunction(f, args, rs) ==
    IF Overflow(f) THEN PR_RunError
    ELSE /\ stack' = Append(stack, Entry)
         /\ saved' = Saved(f)
         /\ locals' = Entered(f, args)
         /\ xfunction' = f
         /\ runs' = rs
         /\ UNCHANGED <<host, dedicated>>

\* PR_ExecuteProgram, from the host (outer is <<>>) or from a built-in function.
PR_ExecuteProgram(f, args, outer, slot) ==
    IF f = NULL THEN Host_Error(Len(stack))
    ELSE PR_EnterFunction(f, args, Append(outer, NewRun(slot)))

RestoredBehindParms ==                      \* Mutant: the parameters stay
    [locals EXCEPT ![xfunction] =
        [i \in Cells(xfunction) |-> IF i <= Parms[xfunction] THEN @[i]
                                    ELSE saved[Len(saved) - Locals[xfunction] + i]]]

Restored ==
    [locals EXCEPT ![xfunction] =
        [i \in Cells(xfunction) |-> saved[Len(saved) - Locals[xfunction] + i]]]

\* The return of a function; one at the depth where its run began ends the run,
\* and then SV_DropClient goes on, if the run was on its behalf.
PR_LeaveFunction ==
    IF stack = <<>>
    THEN /\ phase' = "exited"               \* Sys_Error
         /\ UNCHANGED <<machine, active, inerror, slots, dedicated>>
    ELSE IF Len(saved) < Locals[xfunction] THEN PR_RunError /\ UNCHANGED slots
    ELSE LET ends == Len(stack) - 1 = Run.exit
             freed == IF ends THEN {Run.slot} ELSE {}
         IN  /\ locals' = Restored
             /\ saved' = SubSeq(saved, 1, Len(saved) - Locals[xfunction])
             /\ xfunction' = stack[Len(stack)].fun
             /\ stack' = SubSeq(stack, 1, Len(stack) - 1)
             /\ runs' = IF ends THEN SubSeq(runs, 1, Len(runs) - 1)
                                ELSE WithRun(Counted)
             /\ clients' = clients \ freed /\ spawned' = spawned \ freed
             /\ UNCHANGED <<host, dedicated>>

-----------------------------------------------------------------------------
\* The statements of the running program.

CanRun == phase # "exited" /\ Running /\ Run.left > 1

Runaway ==
    /\ phase # "exited" /\ Running /\ Run.left <= 1
    /\ PR_RunError
    /\ UNCHANGED slots

AssignUncounted(v) ==                       \* Mutant: a loop that does not count
    /\ CanRun
    /\ \E i \in Cells(xfunction) :
            locals' = [locals EXCEPT ![xfunction] = [@ EXCEPT ![i] = v]]
    /\ UNCHANGED <<xfunction, stack, saved, runs, host, slots, dedicated>>

Assign(v) ==
    /\ CanRun
    /\ \E i \in Cells(xfunction) :
            locals' = [locals EXCEPT ![xfunction] = [@ EXCEPT ![i] = v]]
    /\ runs' = WithRun(Counted)
    /\ UNCHANGED <<xfunction, stack, saved, host, slots, dedicated>>

\* What else the statements compute: the globals, the fields of the entities.
Compute ==
    /\ CanRun
    /\ runs' = WithRun(Counted)
    /\ UNCHANGED <<locals, xfunction, stack, saved, host, slots, dedicated>>

Call(f, args) ==
    /\ CanRun
    /\ PR_EnterFunction(f, args, WithRun(Counted))
    /\ UNCHANGED slots

\* A function that is NULL, an unknown built-in, a bad opcode.
BadStatement == CanRun /\ PR_RunError /\ UNCHANGED slots

\* The built-in functions error and objerror.
PF_error == CanRun /\ Host_Error(Len(stack)) /\ UNCHANGED slots

\* A built-in function that moves an entity runs what it touches.
Touch(f, args) ==
    /\ CanRun
    /\ PR_ExecuteProgram(f, args, WithRun(Counted), 0)
    /\ UNCHANGED slots

Return == CanRun /\ PR_LeaveFunction

-----------------------------------------------------------------------------
\* The host, when no program runs.

InHost(p) == phase = p /\ ~Running

\* The frame of an active server, or the spawn functions of a level's entities.
RunProgram(f, args) ==
    /\ \/ InHost("frame") /\ active
       \/ InHost("loading")
    /\ PR_ExecuteProgram(f, args, <<>>, 0)
    /\ UNCHANGED slots

\* An error of the host itself: of the client's part of a frame, or of the
\* parser of the level's entities.
HostFails ==
    /\ InHost("frame") \/ InHost("loading")
    /\ Host_Error(Len(stack))
    /\ UNCHANGED slots

\* SV_SpawnServer.  Without the map there is no server, whoever is connected.
SV_SpawnServer ==
    /\ InHost("frame")
    /\ phase' \in {"frame", "loading"}
    /\ active' = FALSE
    /\ locals' = Loaded                     \* PR_LoadProgs
    /\ UNCHANGED <<xfunction, stack, saved, runs, inerror, slots, dedicated>>

\* The entities are spawned; two frames are run,
Settle ==
    /\ InHost("loading") /\ ~active
    /\ active' = TRUE
    /\ UNCHANGED <<machine, phase, inerror, slots, dedicated>>

\* and the clients start again.
LevelSpawned ==
    /\ InHost("loading") /\ active
    /\ phase' = "frame"
    /\ spawned' = {}                        \* SV_SendServerinfo
    /\ UNCHANGED <<machine, active, inerror, clients, dedicated>>

\* SV_ConnectClient runs SetNewParms for a client that is active already.
SV_ConnectClient(c, f, args) ==
    /\ InHost("frame") /\ active
    /\ c \notin clients
    /\ PR_ExecuteProgram(f, args, <<>>, 0)
    /\ clients' = clients \cup {c}
    /\ UNCHANGED spawned

Host_Begin(c) ==
    /\ InHost("frame") /\ active
    /\ c \in clients \ spawned
    /\ spawned' = spawned \cup {c}
    /\ UNCHANGED <<machine, host, clients, dedicated>>

\* SV_DropClient runs ClientDisconnect for a spawned client before it frees the
\* slot.
FreeSlot(c) ==
    /\ clients' = clients \ {c} /\ spawned' = spawned \ {c}
    /\ UNCHANGED <<machine, host, dedicated>>

SV_DropClient(c, f, args) ==
    IF c \in spawned
    THEN PR_ExecuteProgram(f, args, <<>>, c) /\ UNCHANGED slots
    ELSE FreeSlot(c)

\* In a frame: a client that left, or (crash) one whose connection failed.
Drop(c, f, args) ==
    /\ InHost("frame") /\ active
    /\ c \in clients
    /\ SV_DropClient(c, f, args) \/ FreeSlot(c)

-----------------------------------------------------------------------------
\* Host_ShutdownServer: of a command,
Host_ShutdownServer ==
    /\ InHost("frame") /\ active
    /\ active' = FALSE
    /\ phase' = "shutdown"
    /\ UNCHANGED <<machine, inerror, slots, dedicated>>

\* or of an error; slot after slot,
ShutdownDrop(f, args) ==
    /\ InHost("shutdown")
    /\ \E c \in clients :
            /\ \A d \in clients : c <= d
            /\ SV_DropClient(c, f, args)

\* until all are free.
ShutdownEnds ==
    /\ InHost("shutdown") /\ clients = {}
    /\ phase' = IF inerror THEN Aborted ELSE "frame"
    /\ inerror' = FALSE
    /\ UNCHANGED <<machine, active, slots, dedicated>>

-----------------------------------------------------------------------------
Arguments(f) == [1..(IF f = NULL THEN 0 ELSE Parms[f]) -> Values]
Called == Functions \cup {NULL}

Statement ==
    \/ Runaway \/ Compute \/ BadStatement \/ PF_error \/ Return
    \/ \E v \in Values : Assign(v)
    \/ \E f \in Functions : \E args \in Arguments(f) : Call(f, args)
    \/ \E f \in Called : \E args \in Arguments(f) : Touch(f, args)

Shutdown ==
    \/ \E f \in Called : \E args \in Arguments(f) : ShutdownDrop(f, args)
    \/ ShutdownEnds

Frame ==
    \/ HostFails \/ SV_SpawnServer \/ Settle \/ LevelSpawned \/ Host_ShutdownServer
    \/ \E c \in Clients : Host_Begin(c)
    \/ \E f \in Called : \E args \in Arguments(f) :
            \/ RunProgram(f, args)
            \/ \E c \in Clients : SV_ConnectClient(c, f, args) \/ Drop(c, f, args)

Next == Statement \/ Shutdown \/ Frame

Spec == Init /\ [][Next]_vars

\* A program is run to its end, and so is the loop of Host_ShutdownServer.
FairSpec == Spec /\ WF_vars(Statement) /\ WF_vars(Shutdown)

-----------------------------------------------------------------------------
\* The entries of the stack that belong to programs that go on are those above
\* the exit of the oldest run; an error outside PR_RunError leaves dead ones below.
Oldest == IF Running THEN runs[1].exit + 1 ELSE Len(stack) + 1
Live == Oldest..Len(stack)

\* The function that was entered with an entry, and the height of the stack of
\* saved locals when it had been.
FunOf(i) == IF i = Len(stack) THEN xfunction ELSE stack[i + 1].fun
HeightOf(i) == IF i = Len(stack) THEN Len(saved) ELSE stack[i + 1].used

Entries == [fun : Functions \cup {NULL}, kept : Seq(Values), used : Nat]
Runs == [exit : Nat, left : Nat, slot : Clients \cup {0}]

TypeOK ==
    /\ DOMAIN locals = Functions
    /\ \A f \in Functions : locals[f] \in [Cells(f) -> Values]
    /\ xfunction \in Functions \cup {NULL}
    /\ stack \in Seq(Entries) /\ Len(stack) < MaxDepth
    /\ saved \in Seq(Values) /\ Len(saved) <= LocalStackSize
    /\ runs \in Seq(Runs)
    /\ phase \in {"frame", "loading", "shutdown", "exited"}
    /\ active \in BOOLEAN /\ inerror \in BOOLEAN /\ dedicated \in BOOLEAN
    /\ clients \subseteq Clients /\ spawned \subseteq clients

\* Nested runs begin at rising depths, and each live call has exactly its own
\* function's locals on the other stack: no return, in whatever program and after
\* whatever errors, finds either stack short.
Balanced ==
    /\ \A i, j \in 1..Len(runs) : i < j => runs[i].exit < runs[j].exit
    /\ \A i \in 1..Len(runs) : runs[i].exit < Len(stack)
    /\ \A i \in Live :
            /\ FunOf(i) \in Functions
            /\ HeightOf(i) = stack[i].used + Locals[FunOf(i)]
    /\ \A i, j \in Live : i <= j => HeightOf(i) <= HeightOf(j)

\* What a live call's return, and the returns before it, will put back into the
\* caller's locals: the first call of the caller's own function, if there is one
\* since, has saved them; otherwise they are still in place.
Kept ==
    \A i \in Oldest + 1..Len(stack) :
        LET f == stack[i].fun
        IN  /\ stack[i].kept \in [Cells(f) -> Values]
            /\ \A j \in i..Len(stack) :
                    (FunOf(j) = f /\ \A k \in i..j - 1 : FunOf(k) # f) =>
                        \A c \in Cells(f) : saved[stack[j].used + c] = stack[i].kept[c]
            /\ (\A j \in i..Len(stack) : FunOf(j) # f) => locals[f] = stack[i].kept

\* The host is in an error only while it shuts the server down.
ErrorsEnd == inerror => phase \in {"shutdown", "exited"} /\ ~active

\* The state of the machine and of the host between any two steps.
ProgramsInv == TypeOK /\ Balanced /\ Kept /\ ErrorsEnd

\* A function that returns to a program, be it through a built-in function and
\* however deep the recursion was, leaves the caller's locals as they were when
\* it was called, and the stack of saved locals as high.
CallerRestored ==
    [][Len(stack') < Len(stack) /\ runs' # <<>> =>
            LET caller == stack[Len(stack)]
            IN  /\ xfunction' = caller.fun
                /\ locals'[caller.fun] = caller.kept
                /\ Len(saved') = caller.used]_vars

\* "This shuts down both the client and server": when the program survives an
\* error that found the server active, no client is left in a slot.
ErrorShutsDown ==
    [][inerror /\ ~inerror' => ~active' /\ clients' = {}]_vars

\* Whatever the game's programs do, each run of them and each shutdown ends, and
\* the host's frames go on (or it exits).
ComesBack == (Running \/ phase = "shutdown") ~>
                (phase = "exited" \/ (~Running /\ phase # "shutdown"))
=============================================================================
