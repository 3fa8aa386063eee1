\* One request, two runs that overlap.
CONSTANTS
    None = None
    Lead = {1}
    Run = {r1, r2}
    Number = {hers}
    CALLS_PER_RUN = 1
    DAILY_PEOPLE_CAP = 2
    MAX_ATTEMPTS = 2
    VAPI_DOWN_RETRY = 3
    LOST_AFTER = 2
    STUCK_AFTER = 3
    RETRY_AFTER = 4
    MaxRun = 1
    MaxFailures = 2
    MaxOutside = 2
SPECIFICATION Spec
SYMMETRY Interchangeable
INVARIANTS
    RetriedOnlyAfterNoAnswer
    NoAnswerMeansTwice
    KamvaIsTold
