----------------------------- MODULE CallRecord -----------------------------
(***************************************************************************)
(* What the platform promises about one telephone call, apart from how     *)
(* webhooks and staff requests are interleaved (calls.ts, webhook.ts): a   *)
(* call becomes known, its transcript only ever gains lines, and it closes *)
(* once, at an end time that is never replaced and with an outcome that is *)
(* never missing.                                                          *)
(***************************************************************************)
EXTENDS Sequences

CONSTANTS
    Stamp,      \* end times a writer may record
    Outcome,    \* calls.outcome
    Entry,      \* transcript entries
    None

VARIABLES
    life,       \* "unknown", "open" or "closed"
    end,        \* calls.ended_at
    outcome,    \* calls.outcome
    log         \* transcript_lines in seq order

vars == <<life, end, outcome, log>>

Init ==
    /\ life = "unknown"
    /\ end = None
    /\ outcome = None
    /\ log = <<>>

Appear ==
    /\ life = "unknown"
    /\ life' = "open"
    /\ UNCHANGED <<end, outcome, log>>

Close(t, o) ==
    /\ life = "open"
    /\ life' = "closed"
    /\ end' = t
    /\ outcome' = o
    /\ UNCHANGED log

\* A later report may correct the outcome, never the end time.
Correct(o) ==
    /\ life = "closed"
    /\ outcome' = o
    /\ UNCHANGED <<life, end, log>>

Hear(e) ==
    /\ life # "unknown"
    /\ log' = Append(log, e)
    /\ UNCHANGED <<life, end, outcome>>

Next ==
    \/ Appear
    \/ \E t \in Stamp, o \in Outcome : Close(t, o)
    \/ \E o \in Outcome : Correct(o)
    \/ \E e \in Entry : Hear(e)

Spec == Init /\ [][Next]_vars
=============================================================================
