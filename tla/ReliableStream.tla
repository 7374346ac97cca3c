--------------------------- MODULE ReliableStream ---------------------------
(***************************************************************************)
(* What the reliable half of a Quake connection promises to the engine:    *)
(* every end owns one outgoing stream of messages.  At most one message is *)
(* under way at a time; it reaches the other end whole, once and in order, *)
(* and the sender is told so before it may send the next.  Datagram.tla,   *)
(* the protocol of net_dgrm.c, implements this specification.              *)
(***************************************************************************)
EXTENDS Sequences

CONSTANTS
    Ends,       \* the two ends of the connection
    Messages    \* Messages[e]: the messages end e may send

VARIABLES
    sent,       \* sent[e]: the messages e handed to the connection
    delivered,  \* delivered[e]: those of sent[e] that the other end was given
    canSend     \* canSend[e]: e has no message under way

vars == <<sent, delivered, canSend>>

Init ==
    /\ sent = [e \in Ends |-> <<>>]
    /\ delivered = [e \in Ends |-> <<>>]
    /\ canSend = [e \in Ends |-> TRUE]

Send(e, m) ==
    /\ canSend[e]
    /\ sent' = [sent EXCEPT ![e] = Append(@, m)]
    /\ canSend' = [canSend EXCEPT ![e] = FALSE]
    /\ UNCHANGED delivered

\* The message under way is the last one sent; it is delivered at most once.
Deliver(e) ==
    /\ ~canSend[e]
    /\ \E m \in Messages[e] : sent[e] = Append(delivered[e], m)
    /\ delivered' = [delivered EXCEPT ![e] = sent[e]]
    /\ UNCHANGED <<sent, canSend>>

\* The sender learns of the delivery, never before it happened.
Confirm(e) ==
    /\ ~canSend[e]
    /\ delivered[e] = sent[e]
    /\ canSend' = [canSend EXCEPT ![e] = TRUE]
    /\ UNCHANGED <<sent, delivered>>

Next == \E e \in Ends :
    \/ \E m \in Messages[e] : Send(e, m)
    \/ Deliver(e)
    \/ Confirm(e)

Spec == Init /\ [][Next]_vars
=============================================================================
