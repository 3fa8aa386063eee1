----------------------------- MODULE Statistics -----------------------------
(***************************************************************************)
(* What the dashboard's statistics promise, cached or not: an answer is    *)
(* put together from Queries readings of the calls, and each reading       *)
(* contains every change that had been announced (its stats_version bump   *)
(* had happened) when the question was asked, and nothing that had not     *)
(* been written when it was answered.                                      *)
(***************************************************************************)
EXTENDS Naturals

CONSTANTS Change, Request, Queries

VARIABLES
    written,    \* changes in the database
    announced,  \* changes whose bump has happened
    asked,      \* requests waiting for an answer
    mustSee,    \* what had been announced when each waiting request was asked
    answer      \* the latest answer that was given

vars == <<written, announced, asked, mustSee, answer>>

Init ==
    /\ written = {}
    /\ announced = {}
    /\ asked = {}
    /\ mustSee = [r \in Request |-> {}]
    /\ answer = [q \in 1..Queries |-> {}]

Write(c) ==
    /\ written' = written \cup {c}
    /\ UNCHANGED <<announced, asked, mustSee, answer>>

Announce(c) ==
    /\ c \in written
    /\ announced' = announced \cup {c}
    /\ UNCHANGED <<written, asked, mustSee, answer>>

Ask(r) ==
    /\ r \notin asked
    /\ asked' = asked \cup {r}
    /\ mustSee' = [mustSee EXCEPT ![r] = announced]
    /\ UNCHANGED <<written, announced, answer>>

Answer(r) ==
    /\ r \in asked
    /\ asked' = asked \ {r}
    /\ \E a \in [1..Queries -> SUBSET written] :
        /\ \A q \in 1..Queries : mustSee[r] \subseteq a[q]
        /\ answer' = a
    /\ mustSee' = [mustSee EXCEPT ![r] = {}]
    /\ UNCHANGED <<written, announced>>

\* The database cannot be read: the request ends in an error.
Fail(r) ==
    /\ r \in asked
    /\ asked' = asked \ {r}
    /\ mustSee' = [mustSee EXCEPT ![r] = {}]
    /\ UNCHANGED <<written, announced, answer>>

Next ==
    \/ \E c \in Change : Write(c) \/ Announce(c)
    \/ \E r \in Request : Ask(r) \/ Answer(r) \/ Fail(r)

Spec == Init /\ [][Next]_vars
=============================================================================
