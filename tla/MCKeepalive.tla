---------------------------- MODULE MCKeepalive -----------------------------
(* A client that loads a level, and the server that waits for it. *)
EXTENDS Keepalive

MCEnds == {"client", "server"}
MCFragments == {"x", "nop"}
MCNop == <<"nop">>
MCMessages == [client |-> {<<"nop">>, <<"x">>}, server |-> {<<"x", "x">>}]
MCMaxMessages == [client |-> 3, server |-> 2]
MCMaxDatagrams == [client |-> 1, server |-> 1]
=============================================================================
