----------------------------- MODULE MCPoolData ------------------------------
(* Instances of PoolData for TLC.  Disks are interchangeable; files are not *)
(* once only some of them may be converted.                                 *)
EXTENDS PoolData, TLC

Symmetry == Permutations(Disks)
=============================================================================
