SPECIFICATION FairSpec
CONSTANTS
    i1 = i1
    i2 = i2
    i3 = i3
    i4 = i4
    o1 = o1
    o2 = o2
    o3 = o3
    Invocations <- MCInvocations
    Owners <- MCOwners
    Keys = {k1, k2}
    OwnerOf <- MCOwnerOf
    OrdinalOf <- MCOrdinalOf
    NoOwner = NoOwner
    NoLease = NoLease
CHECK_DEADLOCK FALSE
INVARIANTS
    MutualExclusion
    NoOrphanedState
PROPERTIES
    AdmittedInCreationOrder
    NoOvertaking
    WaitersAdmitted
