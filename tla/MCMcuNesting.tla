---------------------------- MODULE MCMcuNesting ----------------------------
(* The guest machines of MCMcu with the history of unreturned traps.        *)
EXTENDS MCMcu, McuNesting
=============================================================================
