---------------------------- MODULE MCWorkerPool ----------------------------
(* WorkerPool for TLC: clients are interchangeable, and so are the workers *)
(* and the newer versions that do not die.                                 *)
EXTENDS WorkerPool, TLC

Symmetry == Permutations(Conns) \cup Permutations(Updaters \ MayExit)
              \cup Permutations(Workers \ MayExit)
=============================================================================
