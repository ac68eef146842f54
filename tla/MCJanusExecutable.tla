-------------------------- MODULE MCJanusExecutable --------------------------
(***************************************************************************)
(* Instances of JanusExecutable for TLC.                                   *)
(***************************************************************************)
EXTENDS JanusExecutable

CONSTANT first   \* the one client

OneClient == {first}
=============================================================================
