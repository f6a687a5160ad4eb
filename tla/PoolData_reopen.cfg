\* A converted file and one restart without any fault.
CONSTANTS
    Disks = {d1}
    Files = {f1, f2}
    Convertible = {f1}
    Replicas = 1
    SegmentCells = 10
    MaxCells = 10
    MaxWrites = 3
    MaxPayload = 1
    MaxSize = 2
    MaxKills = 1
    MaxPowerLosses = 0
    MaxFaults = 0
    MaxReadFaults = 0
SPECIFICATION Spec
INVARIANTS ReadsBack
CHECK_DEADLOCK FALSE
