----------------------------- MODULE MCConcQueue -----------------------------
(***************************************************************************)
(* Instances of ConcQueue for TLC: which thread calls what.                *)
(***************************************************************************)
EXTENDS ConcQueue

CONSTANTS demod, main, handler   \* the three threads of janus_executable

ThreeThreads == {demod, main, handler}

\* Every operation of the class, each made by some thread, two of them waiting.
AllUses == [t \in ThreeThreads |->
    CASE t = demod -> {"push", "clear", "wPop"}
      [] t = main -> {"wPop", "wTFront", "pop", "front"}
      [] OTHER -> {"wTPop", "wFront", "clearForce", "forceExit"}]

\* Several removers and several wakers, no peeking waiters.
RemoverUses == [t \in ThreeThreads |->
    CASE t = demod -> {"push", "wTPop"}
      [] t = main -> {"wPop", "clearForce"}
      [] OTHER -> {"push", "wTPop", "pop"}]

\* No push: a waiter, and a thread that forces it out.
StopUses == [t \in ThreeThreads |->
    CASE t = demod -> {} [] t = main -> {"wPop", "wFront"} [] OTHER -> {"forceExit"}]
=============================================================================
