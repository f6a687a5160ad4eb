\* MAKE_WRITABLE on a file that is not append-only, then a restart.
CONSTANTS
    Primary = p
    ConfiguredBackup = none
    Spares = {}
    NoDisk = none
    WalCapacity = 6
    MaxOps = 6
    MaxSlots = 6
    MaxKills = 1
    MaxPowerLosses = 0
    MaxFaults = 0
    MaxReadFaults = 0
    MaxPromotes = 0
    Names = {n1}
    Schemes = {s1}
    DefaultScheme = s1
    MaxInodes = 2
    MaxSize = 1
    NameLen <- MCNameLen
    Replicas = 1
SPECIFICATION StoreSpec
INVARIANTS ReplayAlwaysWorks
CHECK_DEADLOCK FALSE
