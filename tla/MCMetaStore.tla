----------------------------- MODULE MCMetaStore -----------------------------
(* Instances of MetaStore for TLC.  Names are interchangeable, and so long  *)
(* that an entry's frame is as large as that of an inode with one replica.  *)
EXTENDS MetaStore, TLC

Symmetry  == Permutations(Names)

(* Nothing is claimed of a log a part of which could not be read: what the  *)
(* store does from there on is not followed.                                *)
UpToReadError == AllRead

MCNameLen == [n \in Names |-> 28]
=============================================================================
