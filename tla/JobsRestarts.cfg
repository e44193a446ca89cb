SPECIFICATION FairSpec
CONSTANTS
    MaxJobs = 2
    Requests = {r1}
    Timed = TRUE
    MaxCrashes = 2
    MaxFaults = 1
CONSTRAINT Within
INVARIANTS TypeOK SingleFlight RunsOnce NoDebris RunningIsCancelable RefusedMeansOver Truthful
PROPERTIES ImplementsQueue JobsTaken JobsEnd
CHECK_DEADLOCK FALSE
