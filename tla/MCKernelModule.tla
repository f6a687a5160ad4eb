--------------------------- MODULE MCKernelModule ----------------------------
(* An instance of KernelModule for TLC: no slot, one, two and too many.     *)
EXTENDS KernelModule, TLC

CONSTANTS a, b

MCSchemes == {<<>>, <<a>>, <<b, b>>, <<a, a, a>>}

Symmetry == Permutations(Files) \cup Permutations(Threads) \cup Permutations(Objs)
=============================================================================
