----------------------------- MODULE Callbacks -----------------------------
(***************************************************************************)
(* Hope's callback queue: the table leads, the cron runs that work through *)
(* it, and the telephone calls Vapi places for them.                       *)
(*                                                                         *)
(* A run is one execution of runCallbacks.  Cron starts one every five     *)
(* minutes whether or not the one before has finished, so runs overlap;    *)
(* each works from rows it read earlier and relies on updateLead, which    *)
(* changes a row only while it has the status it was read with.  Every     *)
(* request to Supabase, Vapi or the mail service is one action.            *)
(*                                                                         *)
(* Time is counted in cron intervals.  A run keeps the `now` it started    *)
(* with, so ages are relative to it: late is how long ago that was.        *)
(***************************************************************************)
EXTENDS Integers, Sequences, FiniteSets

CONSTANTS
    Lead,                       \* rows of leads, numbered in order of created_at
    Run,                        \* runs that may be in progress at once
    Number,                     \* South African telephone numbers
    None,                       \* SQL NULL; a number Hope does not dial
    CALLS_PER_RUN,
    DAILY_PEOPLE_CAP,
    MAX_ATTEMPTS,
    RETRY_AFTER,                \* RETRY_AFTER_MINUTES
    VAPI_DOWN_RETRY,            \* VAPI_DOWN_RETRY_MINUTES
    LOST_AFTER,                 \* the 10 minutes of callbacks.ts:313
    STUCK_AFTER,                \* STUCK_AFTER_MINUTES
    MaxRun,                     \* bound: intervals a run takes at most
    MaxFailures,                \* bound: requests that fail, runs that die
    MaxOutside                  \* bound: leads the team contacts, or that grow old

ASSUME CallbacksAssumption ==
    /\ Lead \subseteq Nat /\ IsFiniteSet(Lead)
    /\ None \notin Number
    /\ {CALLS_PER_RUN, DAILY_PEOPLE_CAP, MAX_ATTEMPTS, RETRY_AFTER,
        VAPI_DOWN_RETRY, LOST_AFTER, STUCK_AFTER, MaxRun, MaxFailures,
        MaxOutside} \subseteq Nat

(* No answer is retried in an hour, a scheduled Worker may run for fifteen *)
(* minutes: when the retry is due, no run remembers the attempt before.    *)
ASSUME RetryOutlastsRuns == RETRY_AFTER > 2 * MaxRun

VARIABLES
    lead,       \* table leads
    number,     \* southAfricanNumber(phone) of each lead, None if it has none
    contacted,  \* external: leads whose contacted_at the team has set
    old,        \* external: leads more than MAX_LEAD_AGE_DAYS old
    calls,      \* external: the telephone calls Vapi placed for each lead
    fired,      \* cron has started a run in this interval
    run,        \* what each run holds in memory
    told,       \* emails sent to Kamva about each lead
    failures,   \* bound counter
    unmailed    \* history: leads whose email a failure cost

world == <<number, contacted, old>>
history == <<failures, unmailed>>
vars  == <<lead, world, calls, fired, run, told, history>>

Settled == {"completed", "no_answer", "failed", "skipped"}
LeadStatus == {"pending", "calling"} \cup Settled

(* live: still going on.  spoke: ended, the customer spoke, no summary yet;*)
(* noted: the same, and the summary is there or no longer waited for.      *)
(* silent and broken: ended, and outcomeOf says no_answer or failed.       *)
CallState == {"live", "spoke", "noted", "silent", "broken"}

(* Ages are exact up to Ages - 1, "some time within the last day"; Ages is *)
(* more than a day, or a callback_attempted_at that is null.               *)
Ages == STUCK_AFTER + MaxRun + 2

LeadRow ==
    [status   : LeadStatus,
     attempts : Nat,
     callId   : Nat,                            \* 0: null
     age      : 0..Ages,                        \* of callback_attempted_at
     nextIn   : Int]                            \* callback_next_at, from now

(* A row as a run read it, its age counted to the run's own now.           *)
Copy == [lead: Lead, attempts: Nat, callId: Nat, age: Int, contacted: BOOLEAN]

Phase == {"off", "following", "stale", "due", "calling"}
Step  == {"loop", "patch", "tell", "claim", "post", "save"}
Verdict == Settled \cup {"giveUp", "requeue", "backOff", "failStart", "none"}

RunState ==
    [phase   : Phase,
     step    : Step,
     late    : 0..MaxRun,
     todo    : SUBSET Copy,
     row     : Copy \cup {None},
     verdict : Verdict,
     callId  : Nat,
     budget  : 0..DAILY_PEOPLE_CAP,
     seen    : BOOLEAN]     \* a later run has started while this one calls

Off == [phase |-> "off", step |-> "loop", late |-> 0, todo |-> {}, row |-> None,
        verdict |-> "none", callId |-> 0, budget |-> 0, seen |-> FALSE]

TypeOK ==
    /\ lead \in [Lead -> LeadRow]
    /\ number \in [Lead -> Number \cup {None}]
    /\ contacted \subseteq Lead
    /\ old \subseteq Lead
    /\ calls \in [Lead -> Seq(CallState)]
    /\ fired \in BOOLEAN
    /\ run \in [Run -> RunState]
    /\ \A r \in Run : run[r].step # "loop" => run[r].row \in Copy
    /\ told \in [Lead -> Nat]
    /\ failures \in 0..MaxFailures
    /\ unmailed \subseteq Lead
    /\ \A l \in Lead : lead[l].callId \in 0..Len(calls[l])

Init ==
    /\ lead = [l \in Lead |-> [status |-> "pending", attempts |-> 0, callId |-> 0,
                               age |-> Ages, nextIn |-> -MaxRun]]
    /\ number \in [Lead -> Number \cup {None}]
    /\ contacted = {}
    /\ old = {}
    /\ calls = [l \in Lead |-> <<>>]
    /\ fired = FALSE
    /\ run = [r \in Run |-> Off]
    /\ told = [l \in Lead |-> 0]
    /\ failures = 0
    /\ unmailed = {}

-----------------------------------------------------------------------------
(* One run                                                                 *)

At(r, phase, step) == run[r].phase = phase /\ run[r].step = step

(* SELECT ... of the leads in S, as run with lateness `late` sees them.    *)
Read(S, late) ==
    {[lead |-> l, attempts |-> lead[l].attempts, callId |-> lead[l].callId,
      age |-> lead[l].age - late, contacted |-> l \in contacted] : l \in S}

WithStatus(s) == {l \in Lead : lead[l].status = s}

Goes(r, fields) == run' = [run EXCEPT ![r] = fields]

(* The run goes on to the next row of the list it is working through.      *)
Looping(r) == [run[r] EXCEPT !.step = "loop", !.row = None, !.verdict = "none",
                             !.callId = 0]

Deciding(r, row, verdict) ==
    [run[r] EXCEPT !.todo = @ \ {row}, !.row = row, !.verdict = verdict,
                   !.step = "patch"]

(* updateLead: the PATCH applies only while the row has the status it was  *)
(* read with.                                                              *)
updateLead(l, from, new) ==
    lead' = IF lead[l].status = from THEN [lead EXCEPT ![l] = new] ELSE lead

(* The fields each verdict writes; the others keep what is in the table.   *)
Patched(r) ==
    LET l == run[r].row.lead
        attempt == run[r].row.attempts + 1
        due(wait) == wait - run[r].late
    IN CASE run[r].verdict = "giveUp"    -> [lead[l] EXCEPT !.status = "failed"]
         [] run[r].verdict = "failStart" -> [lead[l] EXCEPT !.status = "failed",
                                                            !.attempts = attempt]
         [] run[r].verdict = "requeue"   -> [lead[l] EXCEPT !.status = "pending",
                                                            !.nextIn = due(RETRY_AFTER),
                                                            !.callId = 0]
         [] run[r].verdict = "backOff"   -> [lead[l] EXCEPT !.status = "pending",
                                                            !.nextIn = due(VAPI_DOWN_RETRY)]
         [] OTHER                        -> [lead[l] EXCEPT !.status = run[r].verdict]

ReadWith(r) == IF run[r].verdict = "skipped" THEN "pending" ELSE "calling"

Fail == failures < MaxFailures /\ failures' = failures + 1

(* Cron starts a run, which takes its now and reads the calls in progress. *)
(* Starts are five minutes apart, and a run that has read the due rows is  *)
(* done with them in half of that (three rows, five requests for each, ten *)
(* seconds at most for a request): at most one start falls into that time. *)
StartRun(r) ==
    /\ run[r].phase = "off"
    /\ ~fired
    /\ \A s \in Run : ~run[s].seen
    /\ fired' = TRUE
    /\ run' = [s \in Run |->
                  IF s = r THEN [Off EXCEPT !.phase = "following",
                                            !.todo = Read(WithStatus("calling"), 0)]
                  ELSE [run[s] EXCEPT !.seen = run[s].phase = "calling"]]
    /\ UNCHANGED <<lead, world, calls, told, history>>

\* Mutant: the attempt that has just been made is counted a second time.
HeardTooFew(row, state) ==
    CASE state = "live"   -> IF row.age > STUCK_AFTER THEN "giveUp" ELSE "none"
      [] state = "spoke"  -> "none"
      [] state = "noted"  -> "completed"
      [] state = "silent" -> IF row.attempts + 1 < MAX_ATTEMPTS THEN "requeue" ELSE "no_answer"
      [] state = "broken" -> "giveUp"

(* What followUp concludes from Vapi's report of the call in row.          *)
Heard(row, state) ==
    CASE state = "live"   -> IF row.age > STUCK_AFTER THEN "giveUp" ELSE "none"
      [] state = "spoke"  -> "none"
      [] state = "noted"  -> "completed"
      [] state = "silent" -> IF row.attempts < MAX_ATTEMPTS THEN "requeue" ELSE "no_answer"
      [] state = "broken" -> "giveUp"

\* Mutant: a claim whose call id was never saved is left alone.
UnrecordedForever(row) == "none"

(* Claimed, but the call's id was never saved: lost after ten minutes.     *)
Unrecorded(row) == IF row.age > LOST_AFTER THEN "giveUp" ELSE "none"

(* followUp up to its updateLead: GET /call, which may fail or answer 404. *)
FollowUp(r) ==
    /\ At(r, "following", "loop")
    /\ \E row \in run[r].todo, verdict \in Verdict :
        /\ IF row.callId = 0
           THEN /\ verdict = Unrecorded(row)
                /\ UNCHANGED failures
           ELSE \/ /\ verdict = Heard(row, calls[row.lead][row.callId])
                   /\ UNCHANGED failures
                \/ /\ Fail
                   /\ \/ verdict = "giveUp"
                      \/ row.age <= STUCK_AFTER /\ verdict = "none"
        /\ Goes(r, IF verdict = "none" THEN [run[r] EXCEPT !.todo = @ \ {row}]
                   ELSE Deciding(r, row, verdict))
    /\ UNCHANGED <<lead, world, calls, fired, told, unmailed>>

(* isCallingTime(now) is false: the run is over.                           *)
OutsideHours(r) ==
    /\ At(r, "following", "loop")
    /\ run[r].todo = {}
    /\ Goes(r, Off)
    /\ UNCHANGED <<lead, world, calls, fired, told, history>>

(* startCalls reads the rows that are too old to call.                     *)
ReadStale(r) ==
    /\ At(r, "following", "loop")
    /\ run[r].todo = {}
    /\ Goes(r, [run[r] EXCEPT !.phase = "stale",
                              !.todo = Read(WithStatus("pending") \cap old, run[r].late)])
    /\ UNCHANGED <<lead, world, calls, fired, told, history>>

SkipStale(r) ==
    /\ At(r, "stale", "loop")
    /\ \E row \in run[r].todo : Goes(r, Deciding(r, row, "skipped"))
    /\ UNCHANGED <<lead, world, calls, fired, told, history>>

(* The people called in the last 24 hours, counted up to the cap.          *)
ReadBudget(r) ==
    LET called == Cardinality({l \in Lead : lead[l].age < Ages})
        budget == IF called >= DAILY_PEOPLE_CAP THEN 0 ELSE DAILY_PEOPLE_CAP - called
    IN
    /\ At(r, "stale", "loop")
    /\ run[r].todo = {}
    /\ Goes(r, IF budget = 0 THEN Off
               ELSE [run[r] EXCEPT !.phase = "due", !.budget = budget])
    /\ UNCHANGED <<lead, world, calls, fired, told, history>>

(* The first CALLS_PER_RUN rows that are due.                              *)
ReadDue(r) ==
    LET due == {l \in WithStatus("pending") \ old : lead[l].nextIn + run[r].late <= 0}
        first == {l \in due : Cardinality({k \in due : k < l}) < CALLS_PER_RUN}
    IN
    /\ At(r, "due", "loop")
    /\ Goes(r, [run[r] EXCEPT !.phase = "calling", !.todo = Read(first, run[r].late)])
    /\ UNCHANGED <<lead, world, calls, fired, told, history>>

NoMoreCalls(r) ==
    /\ At(r, "calling", "loop")
    /\ run[r].todo = {} \/ run[r].budget = 0
    /\ Goes(r, Off)
    /\ UNCHANGED <<lead, world, calls, fired, told, history>>

SpokeRecently(l) ==
    \E k \in Lead \ {l} : number[k] = number[l] /\ lead[k].status = "completed"

FirstOf(rows) == {row \in rows : \A other \in rows : row.lead <= other.lead}

(* startCall up to the claim: the three reasons not to call.               *)
StartCall(r) ==
    /\ At(r, "calling", "loop")
    /\ run[r].budget > 0
    /\ \E row \in FirstOf(run[r].todo) :
       Goes(r, IF row.contacted \/ number[row.lead] = None \/ SpokeRecently(row.lead)
               THEN Deciding(r, row, "skipped")
               ELSE [Deciding(r, row, "none") EXCEPT !.step = "claim"])
    /\ UNCHANGED <<lead, world, calls, fired, told, history>>

(* The query behind SpokeRecently fails: caught, and on to the next lead.  *)
StartCallFails(r) ==
    /\ At(r, "calling", "loop")
    /\ run[r].budget > 0
    /\ run[r].todo # {}
    /\ Fail
    /\ Goes(r, [run[r] EXCEPT !.todo = @ \ FirstOf(run[r].todo)])
    /\ UNCHANGED <<lead, world, calls, fired, told, unmailed>>

ClaimedRow(r) == [lead[run[r].row.lead] EXCEPT !.status = "calling",
                                               !.age = run[r].late,
                                               !.callId = 0]

Claim(r) ==
    /\ run[r].step = "claim"
    /\ updateLead(run[r].row.lead, "pending", ClaimedRow(r))
    /\ Goes(r, IF lead[run[r].row.lead].status = "pending"
               THEN [run[r] EXCEPT !.step = "post"] ELSE Looping(r))
    /\ UNCHANGED <<world, calls, fired, told, history>>

Dialled(l) == [calls EXCEPT ![l] = Append(@, "live")]

(* POST /call is answered with a call id.                                  *)
PostCall(r) ==
    LET l == run[r].row.lead IN
    /\ run[r].step = "post"
    /\ calls' = Dialled(l)
    /\ Goes(r, [run[r] EXCEPT !.step = "save", !.callId = Len(calls[l]) + 1])
    /\ UNCHANGED <<lead, world, fired, told, history>>

(* It is refused: 5xx or 429, back in the queue; another 4xx, given up.    *)
CallRefused(r) ==
    /\ run[r].step = "post"
    /\ Fail
    /\ \E verdict \in {"backOff", "failStart"} :
           Goes(r, [run[r] EXCEPT !.step = "patch", !.verdict = verdict])
    /\ UNCHANGED <<lead, world, calls, fired, told, unmailed>>

\* Mutant: no answer from Vapi is taken for a refusal.
CallUnansweredRequeues(r) ==
    /\ run[r].step = "post"
    /\ Fail
    /\ calls' \in {calls, Dialled(run[r].row.lead)}
    /\ Goes(r, [run[r] EXCEPT !.step = "patch", !.verdict = "backOff"])
    /\ UNCHANGED <<lead, world, fired, told, unmailed>>

(* It is not answered in time: the call may have gone out.                 *)
CallUnanswered(r) ==
    /\ run[r].step = "post"
    /\ Fail
    /\ calls' \in {calls, Dialled(run[r].row.lead)}
    /\ Goes(r, [run[r] EXCEPT !.step = "patch", !.verdict = "failStart"])
    /\ UNCHANGED <<lead, world, fired, told, unmailed>>

SavedRow(r) == [lead[run[r].row.lead] EXCEPT !.callId = run[r].callId,
                                             !.attempts = run[r].row.attempts + 1]

SaveCall(r) ==
    /\ run[r].step = "save"
    /\ updateLead(run[r].row.lead, "calling", SavedRow(r))
    /\ Goes(r, [Looping(r) EXCEPT !.budget = @ - 1])
    /\ UNCHANGED <<world, calls, fired, told, history>>

(* Verdicts Kamva hears of, if their PATCH changed the row.                *)
Mailed(r) ==
    /\ run[r].verdict \notin {"requeue", "backOff"}
    /\ ~(run[r].verdict = "skipped" /\ run[r].row.contacted)

Owed(r) == lead[run[r].row.lead].status = ReadWith(r) /\ Mailed(r)

\* Mutant: the email goes out whether or not the PATCH changed the row.
PatchAndMail(r) ==
    /\ run[r].step = "patch"
    /\ updateLead(run[r].row.lead, ReadWith(r), Patched(r))
    /\ Goes(r, IF Mailed(r) THEN [run[r] EXCEPT !.step = "tell"] ELSE Looping(r))
    /\ UNCHANGED <<world, calls, fired, told, history>>

Patch(r) ==
    /\ run[r].step = "patch"
    /\ updateLead(run[r].row.lead, ReadWith(r), Patched(r))
    /\ Goes(r, IF Owed(r) THEN [run[r] EXCEPT !.step = "tell"] ELSE Looping(r))
    /\ UNCHANGED <<world, calls, fired, told, history>>

(* tellKamva never throws.                                                 *)
TellKamva(r) ==
    /\ run[r].step = "tell"
    /\ \/ /\ told' = [told EXCEPT ![run[r].row.lead] = @ + 1]
          /\ UNCHANGED history
       \/ /\ Fail
          /\ unmailed' = unmailed \cup {run[r].row.lead}
          /\ UNCHANGED told
    /\ Goes(r, Looping(r))
    /\ UNCHANGED <<lead, world, calls, fired>>

(* A PATCH fails, or is applied and its answer lost.  Either way it throws:*)
(* caught for the lead, except among the stale rows, where it ends the run.*)
PatchFails(r) ==
    LET l == run[r].row.lead IN
    /\ run[r].step \in {"claim", "patch", "save"}
    /\ Fail
    /\ \/ UNCHANGED <<lead, unmailed>>
       \/ /\ run[r].step = "claim"
          /\ updateLead(l, "pending", ClaimedRow(r))
          /\ UNCHANGED unmailed
       \/ /\ run[r].step = "save"
          /\ updateLead(l, "calling", SavedRow(r))
          /\ UNCHANGED unmailed
       \/ /\ run[r].step = "patch"
          /\ updateLead(l, ReadWith(r), Patched(r))
          /\ unmailed' = IF Owed(r) THEN unmailed \cup {l} ELSE unmailed
    /\ Goes(r, IF run[r].phase = "stale" THEN Off ELSE Looping(r))
    /\ UNCHANGED <<world, calls, fired, told>>

(* A SELECT fails, or the Worker is stopped.                               *)
RunDies(r) ==
    /\ run[r].phase # "off"
    /\ Fail
    /\ unmailed' = IF run[r].step = "tell" THEN unmailed \cup {run[r].row.lead}
                   ELSE unmailed
    /\ Goes(r, Off)
    /\ UNCHANGED <<lead, world, calls, fired, told>>

-----------------------------------------------------------------------------
(* The world around the runs                                               *)

(* A cron interval passes.  Timestamps in the table grow older, except the *)
(* oldest age that still counts as today (see DayPasses).                  *)
Tick ==
    /\ \A r \in Run : run[r].phase # "off" => run[r].late < MaxRun
    /\ fired' = FALSE
    /\ run' = [r \in Run |-> IF run[r].phase = "off" THEN run[r]
                             ELSE [run[r] EXCEPT !.late = @ + 1]]
    /\ lead' = [l \in Lead |->
                   [lead[l] EXCEPT !.age = IF @ < Ages - 1 THEN @ + 1 ELSE @,
                                   !.nextIn = IF @ > -MaxRun THEN @ - 1 ELSE @]]
    /\ UNCHANGED <<world, calls, told, history>>

DayPasses(l) ==
    /\ lead[l].age = Ages - 1
    /\ lead' = [lead EXCEPT ![l].age = Ages]
    /\ UNCHANGED <<world, calls, fired, run, told, history>>

CallEnds(l) ==
    /\ \E i \in DOMAIN calls[l], s \in {"spoke", "silent", "broken"} :
           calls[l][i] = "live" /\ calls' = [calls EXCEPT ![l][i] = s]
    /\ UNCHANGED <<lead, world, fired, run, told, history>>

(* Vapi writes the summary, or SUMMARY_WAIT_MINUTES are over.              *)
SummaryComes(l) ==
    /\ \E i \in DOMAIN calls[l] :
           calls[l][i] = "spoke" /\ calls' = [calls EXCEPT ![l][i] = "noted"]
    /\ UNCHANGED <<lead, world, fired, run, told, history>>

OutsideBound == Cardinality(contacted) + Cardinality(old) < MaxOutside

(* The team calls the person themselves and sets contacted_at.             *)
Contact(l) ==
    /\ OutsideBound
    /\ contacted' = contacted \cup {l}
    /\ UNCHANGED <<lead, number, old, calls, fired, run, told, history>>

GrowOld(l) ==
    /\ OutsideBound
    /\ old' = old \cup {l}
    /\ UNCHANGED <<lead, number, contacted, calls, fired, run, told, history>>

RunStep(r) ==
    \/ FollowUp(r)   \/ OutsideHours(r) \/ ReadStale(r)   \/ SkipStale(r)
    \/ ReadBudget(r) \/ ReadDue(r)      \/ NoMoreCalls(r) \/ StartCall(r)
    \/ Claim(r)      \/ PostCall(r)     \/ CallRefused(r) \/ CallUnanswered(r)
    \/ SaveCall(r)   \/ Patch(r)        \/ TellKamva(r)

Next ==
    \/ \E r \in Run : StartRun(r) \/ RunStep(r) \/ StartCallFails(r)
                      \/ PatchFails(r) \/ RunDies(r)
    \/ Tick
    \/ \E l \in Lead : \/ DayPasses(l) \/ CallEnds(l) \/ SummaryComes(l)
                       \/ Contact(l)   \/ GrowOld(l)

Spec == Init /\ [][Next]_vars

(* Cron goes on, a run that has started goes on, calls end (the assistant  *)
(* caps them), and calling hours come round again.                         *)
Fairness ==
    /\ WF_vars(Tick)
    /\ WF_vars(\E r \in Run : StartRun(r))
    /\ \A r \in Run : WF_vars(RunStep(r)) /\ SF_vars(ReadStale(r))
    /\ \A l \in Lead : /\ WF_vars(DayPasses(l))
                       /\ WF_vars(CallEnds(l))
                       /\ WF_vars(SummaryComes(l))

FairSpec == Spec /\ Fairness
-----------------------------------------------------------------------------
(* What the queue promises                                                 *)

(* Hope telephones a lead again only after a call nobody answered: never   *)
(* while a call is still going on or may be, never after one that broke    *)
(* off or in which they spoke.  Claims by stale rows, lost answers and     *)
(* runs that die are what could break this (callbacks.ts:19-20, 486-488).  *)
RetriedOnlyAfterNoAnswer ==
    \A l \in Lead : \A i \in 1 .. Len(calls[l]) - 1 : calls[l][i] = "silent"

(* "no answer twice" (callbacks.ts:15): Kamva is only told so after        *)
(* MAX_ATTEMPTS calls that really went unanswered.                         *)
NoAnswerMeansTwice ==
    \A l \in Lead : lead[l].status = "no_answer" =>
        Cardinality({i \in DOMAIN calls[l] : calls[l][i] = "silent"}) >= MAX_ATTEMPTS

(* A lead that is settled has been emailed about once, or is about to be,  *)
(* or the team had called them already, however many runs decide about it  *)
(* at the same time: the PATCH decides which of them sends it.  Unless the *)
(* answer to the PATCH or the email itself was lost, or the run died       *)
(* between the two (245-249).                                              *)
KamvaIsTold ==
    \A l \in Lead :
        /\ told[l] <= 1
        /\ lead[l].status \in Settled /\ told[l] = 0 =>
            \/ l \in unmailed
            \/ lead[l].status = "skipped" /\ l \in contacted
            \/ \E r \in Run : run[r].step = "tell" /\ run[r].row.lead = l

(* "Nobody is left waiting" (callbacks.ts:8): every request is settled in  *)
(* the end, whatever run died on the way.                                  *)
AllSettled == \A l \in Lead : <>(lead[l].status \in Settled)

=============================================================================
