SPECIFICATION Spec
CONSTANTS
    Slots <- MCSlots
    Devices <- MCDevices
    Trees <- MCTrees
    NoDevice = NoDevice
    Prefix <- MCPrefix
    MaxSick = 1
    None = None
INVARIANTS TypeOK RightUntilMoved DeadPathNoticed
