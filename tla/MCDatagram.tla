----------------------------- MODULE MCDatagram -----------------------------
(***************************************************************************)
(* Small instances of Datagram.tla.  A client's reliable messages fit into *)
(* one fragment (cls.message holds 1024 bytes); the server's may be longer *)
(* (client->message holds 8000), here two fragments.                       *)
(***************************************************************************)
EXTENDS Datagram

MCEnds == {"client", "server"}
MCFragments == {"x", "y"}
MCMessages == [client |-> {<<"x">>}, server |-> {<<"x">>, <<"y", "x">>}]
MCMaxMessages == [client |-> 2, server |-> 2]
MCMaxDatagrams == [client |-> 1, server |-> 2]

\* For liveness: one message of two fragments, and a datagram each way.
LiveMessages == [client |-> {<<"x">>}, server |-> {<<"y", "x">>}]
LiveMaxMessages == [client |-> 0, server |-> 1]
LiveMaxDatagrams == [client |-> 1, server |-> 1]
=============================================================================
