SPECIFICATION Spec
CONSTANTS
    Switches <- MCSwitches
    Codes <- MCCodes
    Legal <- MCLegalInterlock
    Valid <- MCValid
    Zero <- MCZero
    Fans <- MCFans
    Junk = "plaid"
    PowerSources = {"ac", "battery"}
    Machines <- MCMachines
    SlowTTL = 1
    MaxBroken = 1
    None = None
PROPERTIES SilentLocksFans
