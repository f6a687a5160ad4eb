------------------------------ MODULE MCMetaWal ------------------------------
(* Instances of MetaWal for TLC.                                            *)
EXTENDS MetaWal
=============================================================================
