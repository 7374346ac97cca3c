--------------------------- MODULE MCConnections ---------------------------
(***************************************************************************)
(* A small instance of Connections.tla: three slots, four qsockets and two *)
(* LAN drivers.  One host asks from two ports, another from one; the third *)
(* host is reached through the second LAN driver.                          *)
(***************************************************************************)
EXTENDS Connections

MCAddrs ==
    {[lan |-> 1, host |-> "a", port |-> 1], [lan |-> 1, host |-> "a", port |-> 2],
     [lan |-> 1, host |-> "b", port |-> 1], [lan |-> 2, host |-> "c", port |-> 1]}
=============================================================================
