\* One kill between the two disks of a commit, no disk fault.
CONSTANTS
    Primary = p
    ConfiguredBackup = b
    Spares = {}
    NoDisk = none
    WalCapacity = 4
    MaxOps = 4
    MaxSlots = 4
    MaxKills = 1
    MaxPowerLosses = 0
    MaxFaults = 0
    MaxReadFaults = 0
    MaxPromotes = 0
SPECIFICATION Spec
INVARIANTS EitherDiskSuffices
CHECK_DEADLOCK FALSE
