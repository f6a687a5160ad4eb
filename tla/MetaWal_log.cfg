\* Two metadata disks, one of which may be promoted again after a fence; a kill,
\* two power losses, failing writes, syncs and one failing read, and a log that
\* grows beyond its region.
CONSTANTS
    Primary = p
    ConfiguredBackup = b
    Spares = {}
    NoDisk = none
    WalCapacity = 3
    MaxOps = 4
    MaxSlots = 4
    MaxKills = 1
    MaxPowerLosses = 2
    MaxFaults = 2
    MaxReadFaults = 1
    MaxPromotes = 1
SPECIFICATION FairSpec
INVARIANTS AckedSurvives MembersHoldAck ReplicaBehindPrimary AckedVisible VisibleIsDurable GroupComplete RestartReplaysView
PROPERTIES RefinesDurableLog CallsReturn
CHECK_DEADLOCK FALSE
