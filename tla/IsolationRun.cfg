SPECIFICATION FairSpec
CONSTANTS
    Items = 2
    Identity <- TwoClients
    ChildStatuses <- MildAndSevere
    Invocations = 2
    MaxKills = 1
    MaxCancels = 1
    MayRaise = TRUE
INVARIANTS MergedIsFresh SuccessIsWhole ValidityIsKept ChildrenEndFirst
PROPERTY InvocationEnds
CHECK_DEADLOCK FALSE
