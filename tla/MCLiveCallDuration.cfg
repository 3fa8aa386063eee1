\* Two webhook deliveries handled at once with one member of staff.
CONSTANTS
    None = None
    greeting = greeting
    ended = ended
    report = report
    hello = hello
    bye = bye
    Worker = {w1, w2}
    Staff = {s1}
    Message = {greeting, ended, report}
    Event <- MCEvent
    Utterance = {hello, bye}
    MaxDeliveries = 2
    MaxFailures = 1
SPECIFICATION Spec
SYMMETRY Interchangeable
CHECK_DEADLOCK FALSE
INVARIANT
    DurationMatchesEnd
