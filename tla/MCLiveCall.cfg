\* Two webhook deliveries handled at once with one member of staff, and liveness.
CONSTANTS
    None = None
    greeting = greeting
    ended = ended
    report = report
    hello = hello
    bye = bye
    Worker = {w1, w2}
    Staff = {s1}
    Message = {greeting, ended, report}
    Event <- MCEvent
    Utterance = {hello, bye}
    MaxDeliveries = 2
    MaxFailures = 1
SPECIFICATION FairSpec
\* Once the call is over and every delivery is used up, nothing is left to do.
CHECK_DEADLOCK FALSE
INVARIANTS
    AnsweredIsApplied
    NoRetryDuplicatesLines
    EndedIsSettled
    StatsVersionFollowsData
PROPERTIES
    ImplementsCallRecord TransferringOnlyEnds OverIsRecorded
