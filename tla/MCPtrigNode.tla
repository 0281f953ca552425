---------------------------- MODULE MCPtrigNode ----------------------------
(* A node of three blocks: one created before its trigger, one after.  The  *)
(* chain triggers both, the second twice.                                   *)
EXTENDS PtrigNode

MCOrder    == <<"early", "ptrig", "late">>
MCTriggees == <<"late", "early", "late">>

=============================================================================
