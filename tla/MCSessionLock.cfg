SPECIFICATION FairSpec
CONSTANTS
    u1 = u1
    u2 = u2
    u3 = u3
    u4 = u4
    s1 = s1
    s2 = s2
    Users <- MCUsers
    Sessions <- MCSessions
    SessionOf <- MCSessionOf
    RankOf <- MCRankOf
INVARIANTS
    OneHolder
    SessionAccounted
PROPERTIES
    QuarantineIsFinal
    WaitEnds
CHECK_DEADLOCK FALSE
