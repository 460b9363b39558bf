\* Digest jobs, a manual request, restarts and midnights.
SPECIFICATION FairDailySpec
CONSTANTS
    Users <- MCUsers
    OptIns <- MCOptIns
    Requests = {r1}
    MaxBoots = 2
    Idle = Idle
INVARIANTS
    DailyTypeOK
    CatchUpOncePerDay
    UnservedHasReason
PROPERTIES
    JobsEnd
