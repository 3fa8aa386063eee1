\* Two requests, perhaps from one number, runs that do not overlap, liveness.
CONSTANTS
    None = None
    Lead = {1, 2}
    Run = {r1}
    Number = {hers}
    CALLS_PER_RUN = 2
    DAILY_PEOPLE_CAP = 1
    MAX_ATTEMPTS = 2
    VAPI_DOWN_RETRY = 1
    LOST_AFTER = 1
    STUCK_AFTER = 1
    RETRY_AFTER = 1
    MaxRun = 0
    MaxFailures = 1
    MaxOutside = 0
SPECIFICATION FairSpec
PROPERTY AllSettled
