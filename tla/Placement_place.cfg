\* All pools of three disks and all schemes of up to three slots.
CONSTANTS
    d1 = d1
    d2 = d2
    d3 = d3
    hdd = hdd
    ssd = ssd
    Disks <- MCDisks
    NoDisk = NoDisk
    Id <- MCId
    Class <- MCClass
    AnyClass = AnyClass
    NoPin = NoPin
    SlotSpecs <- MCSlotSpecs
    MaxSlots = 3
    MaxSelect = 2
    Raws = {13, 26, 31}
    NegLog2 <- MCNegLog2
    Weights = {0, 2}
    Scale = 32
    HashBits = 5
    MantBits = 4
    FracBits = 2
SPECIFICATION Spec
INVARIANTS ReplicasDistinct SlotsGetBest LeavingMovesNothing OthersKeepTheirOrder HigherHashWins
CHECK_DEADLOCK FALSE
