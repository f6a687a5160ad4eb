----------------------------- MODULE MCPlacement ------------------------------
(* Three disks, two of them of one class.  The hash values have five bits:  *)
(* two whose scores tie with the weights given, and the highest.            *)
EXTENDS Placement, FixedLog

CONSTANTS d1, d2, d3, hdd, ssd

MCDisks == {d1, d2, d3}
MCId == [d \in MCDisks |-> CASE d = d1 -> 1 [] d = d2 -> 2 [] d = d3 -> 3]
MCClass == [d \in MCDisks |-> IF d = d1 THEN ssd ELSE hdd]
MCSlotSpecs ==
    [pin : {NoPin}, class : {AnyClass, hdd}] \cup [pin : {d2}, class : {AnyClass}]
MCNegLog2 == [r \in Raws |-> NegLog2Fixed(r)]
=============================================================================
