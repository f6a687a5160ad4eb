\* One power loss in the middle of a commit.
CONSTANTS
    Primary = p
    ConfiguredBackup = none
    Spares = {}
    NoDisk = none
    WalCapacity = 6
    MaxOps = 6
    MaxSlots = 6
    MaxKills = 0
    MaxPowerLosses = 1
    MaxFaults = 0
    MaxReadFaults = 0
    MaxPromotes = 0
    Names = {n1}
    Schemes = {s1}
    DefaultScheme = s1
    MaxInodes = 2
    MaxSize = 1
    NameLen <- MCNameLen
    Replicas = 1
SPECIFICATION StoreSpec
INVARIANTS TornIsAbsent
CHECK_DEADLOCK FALSE
