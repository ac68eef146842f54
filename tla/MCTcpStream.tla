----------------------------- MODULE MCTcpStream -----------------------------
(***************************************************************************)
(* Instances of TcpStream for TLC: which thread calls what.                *)
(***************************************************************************)
EXTENDS TcpStream

CONSTANTS listener, main,   \* txLoop()'s thread and main() of janus_executable
          first, second     \* two clients, one after the other or at once

Threads == {listener, main}
Clients == {first, second}

\* As in the program: txLoop() receives, main() transmits and quits.
ProgramUses == [t \in Threads |-> IF t = main THEN {"tx", "quit"} ELSE {"rx"}]

\* Besides, main() receives: alone at first, then beside the other thread.
SharedUses == [ProgramUses EXCEPT ![main] = @ \cup {"rx"}]
=============================================================================
