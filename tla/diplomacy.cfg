SPECIFICATION MCSpec
CONSTANTS
    Operators = {o1}
    Groups = {g1}
    Deeds = {"capture"}
    Weight <- MCWeight
    BorderWeight = 20
    Tolerance = 1
    Wanted = {"peace", "ceasefire"}
    None = None
    MaxMissions = 2
    MaxTime = 2
    MaxEvents = 2
    MaxStays = 2
    MaxSessions = 3
    MaxRestarts = 1
    MaxHappenings = 5
CHECK_DEADLOCK FALSE
INVARIANTS
    TypeOK
    ScoredOnce
    PendingIsCurrent
    ReportedIsRecorded
    OnePerStay
    NoStaleIncident
    CollectedIsKept
