------------------------------- MODULE FixedLog -------------------------------
(***************************************************************************)
(* neg_log2_q16 of tartine-kcore/placement.rs: the logarithm to the base 2 *)
(* of a hash value taken as a fraction of one, in fixed point, by repeated *)
(* squaring.  The widths are parameters: the code has hashes of 64 bits, a *)
(* mantissa with 32 and a result with 16 binary places.  Its mantissa has  *)
(* twice the places of the result.                                         *)
(***************************************************************************)
EXTENDS Integers

CONSTANTS HashBits, MantBits, FracBits

ASSUME FixedLogAssumption ==
    /\ HashBits \in Nat \ {0} /\ FracBits \in Nat
    /\ MantBits = 2 * FracBits

(* 63 - leading_zeros.                                                      *)
IntPart(x) == CHOOSE i \in 0 .. HashBits : 2^i <= x /\ x < 2^(i + 1)

(* x scaled into [1, 2), truncated.                                         *)
Mantissa(x) ==
    IF IntPart(x) >= MantBits THEN x \div 2^(IntPart(x) - MantBits)
                              ELSE x * 2^(MantBits - IntPart(x))

(* One round of the loop: the next binary place.                            *)
Squared(r) ==
    LET sq == r.m * r.m
    IN IF sq >= 2^(2 * MantBits + 1)
       THEN [m |-> sq \div 2^(MantBits + 1), frac |-> 2 * r.frac + 1]
       ELSE [m |-> sq \div 2^MantBits, frac |-> 2 * r.frac]

Frac(x) ==
    LET round[k \in 0 .. FracBits] ==
            IF k = 0 THEN [m |-> Mantissa(x), frac |-> 0] ELSE Squared(round[k - 1])
    IN round[FracBits].frac

NegLog2Fixed(h) ==
    IF h + 1 = 2^HashBits THEN 0
    ELSE HashBits * 2^FracBits - (IntPart(h + 1) * 2^FracBits + Frac(h + 1))
=============================================================================
