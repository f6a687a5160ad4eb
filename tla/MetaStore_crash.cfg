\* Two names, one metadata disk, a crash of each kind and a failing disk call.
CONSTANTS
    Primary = p
    ConfiguredBackup = none
    Spares = {}
    NoDisk = none
    WalCapacity = 6
    MaxOps = 6
    MaxSlots = 6
    MaxKills = 1
    MaxPowerLosses = 1
    MaxFaults = 1
    MaxReadFaults = 1
    MaxPromotes = 0
    Names = {n1, n2}
    Schemes = {s1}
    DefaultScheme = s1
    MaxInodes = 3
    MaxSize = 1
    NameLen <- MCNameLen
    Replicas = 1
SPECIFICATION StoreSpec
INVARIANTS StoreTypeOK OneNamePerFile PromisesKept NoDanglingEntry SizeIsStored OpenFailsForAReason
PROPERTIES FilesOnlyGrow
SYMMETRY Symmetry
CONSTRAINT UpToReadError
CHECK_DEADLOCK FALSE
