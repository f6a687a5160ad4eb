\* Append-only and converted files: a failing disk call, a kill, a power loss and
\* a failing read at the restart.
CONSTANTS
    Disks = {d1, d2}
    Files = {f1, f2}
    Convertible = {f1}
    Replicas = 2
    SegmentCells = 7
    MaxCells = 7
    MaxWrites = 2
    MaxPayload = 2
    MaxSize = 2
    MaxKills = 1
    MaxPowerLosses = 1
    MaxFaults = 1
    MaxReadFaults = 1
SYMMETRY Symmetry
SPECIFICATION Spec
INVARIANTS TypeOK CommittedReadable ReplicasHold CursorIsFree
CHECK_DEADLOCK FALSE
