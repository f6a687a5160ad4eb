\* Four operations on one file, two slots in an ioctl buffer.
CONSTANTS
    MaxSelect = 2
    MaxOps = 4
    Specs <- MCSpecs
    Record <- MCRecord
    Others <- MCOthers
    Orders <- MCOrders
SPECIFICATION Spec
INVARIANTS LogDecodes NoShorterReading PolicyKept ShownParses
CHECK_DEADLOCK FALSE
