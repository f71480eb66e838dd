\* Torn saves, restarts, faults, and the boot against the event loop.
SPECIFICATION NetFairSpec
CONSTANTS
    Statics <- MCStatics
    Lease <- MCLease
    Absent = Absent
    MaxSaves = 3
    MaxFaults = 1
INVARIANTS
    NetTypeOK
    SavedIsStored
    AcceptedSurvives
    DhcpNeverMixes
    StaticStaysStatic
PROPERTY AcceptedApplied
