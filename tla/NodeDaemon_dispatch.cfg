SPECIFICATION FairDaemon
CONSTANTS
    Jobs = {j1, j2}
    NoJob = NoJob
    Reporting = {}
    MaxFailed = 1
    MaxTorn = 1
    Schedules = {s1, s2}
    Recurring = {s1}
    NoOccurrence = NoOccurrence
    MaxTime = 1
    MaxFaults = 2
    Managed = {s1}
CONSTRAINT OneAppendGoesWrong
INVARIANTS
    BegunAtMostOnce
    PassedIsRecorded
    ExtraJobsCostFaults
    OpenJobsAreTended
    OffStaysOff
PROPERTIES
    AcceptedJobsEnd
    StatusOnlyAdvances
CHECK_DEADLOCK FALSE
