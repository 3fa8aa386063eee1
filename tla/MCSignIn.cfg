SPECIFICATION Spec
CONSTANTS
    MaxRequests = 3
    MaxStep = 1
    MAX_CHALLENGE_ATTEMPTS = 2
    None = None
INVARIANTS
    CodesAreSpentOnce
    OldPasswordsEnd
    AttemptsAreCounted
    FactorIsProven
CHECK_DEADLOCK FALSE
