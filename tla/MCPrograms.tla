---------------------------- MODULE MCPrograms ----------------------------
EXTENDS Programs

MCLocals == [f |-> 1, g |-> 0]
MCParms == [f |-> 1, g |-> 0]
=============================================================================
