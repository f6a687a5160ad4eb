------------------------------- MODULE MCMount -------------------------------
(* An instance of Mount for TLC.  Names are numbers, with 1 first.          *)
EXTENDS Mount, TLC

MCNames == 1 .. 2
=============================================================================
