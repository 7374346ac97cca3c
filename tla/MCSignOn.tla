------------------------------ MODULE MCSignOn ------------------------------
(* One client, a server that changes its level now and then. *)
EXTENDS SignOn
=============================================================================
