SPECIFICATION Spec
CONSTANTS
    Slots <- MCSlots
    Devices <- MCDevices
    Trees <- MCRenumberings
    NoDevice = NoDevice
    Prefix <- MCPrefix
    MaxSick = 0
    None = None
INVARIANTS FollowsRenumbering
