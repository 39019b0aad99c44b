SPECIFICATION FairSpec
CONSTANTS
    Invocations <- MCInvocations
    Owners <- MCOwners
    OwnerOf <- MCOwnerOf
    OrdinalOf <- MCOrdinalOf
    KeyOf <- MCKeyOf
    PolicyOf <- MCPolicyOf
    SessionOf <- MCSessionOf
    ContextOf <- MCContextOf
    BodyOf <- MCBodyOf
    ChecksOf <- MCChecksOf
    Keys = {"w", "w2"}
    Sessions = {"s1", "s2", "s3"}
    Contexts = {"run", "child"}
    GraphAdmitted = {"flowP"}
    Uncertain = {"taskA", "taskC"}
    NoOwner = NoOwner
    NoLease = NoLease
    NoSession = NoSession
INVARIANTS
    AdmissionSound
PROPERTIES
    AdmissionEnds
CHECK_DEADLOCK FALSE
