------------------------ MODULE MCCompiledGenerator ---------------------------
(***************************************************************************)
(* Interchangeable generators and threads.                                 *)
(***************************************************************************)
EXTENDS CompiledGenerator, TLC

Symmetry == Permutations(Generators) \cup Permutations(Threads)
===============================================================================
