----------------------------- MODULE MCLiveCall -----------------------------
(***************************************************************************)
(* A short call for TLC: the greeting is said, the call ends, the report   *)
(* follows.  The status update about the end carries no length, no verdict *)
(* and no assistant; the report has all three and the whole conversation.  *)
(***************************************************************************)
EXTENDS LiveCall, TLC

CONSTANTS greeting, ended, report       \* messages
CONSTANTS hello, bye                    \* utterances

Ev(type, status, outcome, placed, lines) ==
    [type |-> type, status |-> status, outcome |-> outcome, placed |-> placed,
     controlUrl |-> type # "end-of-call-report", endedAt |-> FALSE,
     durationS |-> type = "end-of-call-report", lines |-> lines]

MCEvent ==
    [m \in Message |->
        CASE m = greeting -> Ev("transcript", "in-progress", "inquiry", TRUE, <<hello>>)
          [] m = ended    -> Ev("status-update", "ended", "inquiry", FALSE, <<>>)
          [] m = report   -> Ev("end-of-call-report", None, "booked", TRUE, <<hello, bye>>)]

Interchangeable == Permutations(Worker) \cup Permutations(Staff)
=============================================================================
