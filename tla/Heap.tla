-------------------------------- MODULE Heap --------------------------------
(***************************************************************************)
(* What the callers of the zone allocator rely on: the bytes they asked    *)
(* for are theirs alone until they give them back.  An allocation that     *)
(* cannot be met ends the program (Z_Malloc calls Sys_Error).              *)
(***************************************************************************)
EXTENDS Naturals

CONSTANTS
    First, Last,    \* the memory: the bytes First .. Last - 1
    Requests        \* the sizes that may be asked for

VARIABLES
    live,       \* live[p]: the bytes asked for at the pointer p
    exited      \* the program has ended

vars == <<live, exited>>

Init == live = [p \in {} |-> 0] /\ exited = FALSE

Malloc(n, p) ==
    /\ First <= p /\ p + n <= Last
    /\ p \notin DOMAIN live
    /\ \A q \in DOMAIN live : p + n <= q \/ q + live[q] <= p
    /\ live' = [q \in DOMAIN live \cup {p} |-> IF q = p THEN n ELSE live[q]]

Free(p) == live' = [q \in DOMAIN live \ {p} |-> live[q]]

Next ==
    /\ ~exited
    /\ \/ \E n \in Requests, p \in First .. Last :
             Malloc(n, p) /\ UNCHANGED exited
       \/ \E p \in DOMAIN live : Free(p) /\ UNCHANGED exited
       \/ exited' = TRUE /\ UNCHANGED live

Spec == Init /\ [][Next]_vars
=============================================================================
