SPECIFICATION FairSpec
CONSTANTS
    Requests = {"get", "post", "throwing", "unknown"}
    MaxCrashes = 2
INVARIANT AlwaysTimed
PROPERTIES  KeepsPromise SessionsEnd
CHECK_DEADLOCK FALSE
