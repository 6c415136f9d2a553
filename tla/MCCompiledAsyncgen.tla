------------------------- MODULE MCCompiledAsyncgen --------------------------
(***************************************************************************)
(* Interchangeable operations and tasks.                                   *)
(***************************************************************************)
EXTENDS CompiledAsyncgen, TLC

Symmetry == Permutations(Ops) \cup Permutations(Tasks)
===============================================================================
