---------------------------- MODULE MCPullMachine ----------------------------
(* The machine for TLC, in the configuration the node runs it with. *)
EXTENDS PullMachine

ProductionOnly == {PRODUCTION}
=============================================================================
