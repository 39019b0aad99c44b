SPECIFICATION FairSpec
CONSTANTS
    Invocations <- DeepInvocations
    Owners <- DeepOwners
    OwnerOf <- DeepOwnerOf
    OrdinalOf <- DeepOrdinalOf
    KeyOf <- DeepKeyOf
    PolicyOf <- DeepPolicyOf
    SessionOf <- DeepSessionOf
    ContextOf <- DeepContextOf
    BodyOf <- DeepBodyOf
    ChecksOf <- DeepChecksOf
    Keys = {"w"}
    Sessions = {}
    Contexts = {"run", "child", "grandchild"}
    GraphAdmitted = {"flowP", "flowQ"}
    Uncertain = {}
    NoOwner = NoOwner
    NoLease = NoLease
    NoSession = NoSession
PROPERTIES
    AdmissionEnds
CHECK_DEADLOCK FALSE
