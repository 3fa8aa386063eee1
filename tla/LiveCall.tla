------------------------------ MODULE LiveCall ------------------------------
(***************************************************************************)
(* One telephone call as the control platform keeps it in D1: the row in   *)
(* calls, its transcript_lines, the organization's stats_version and the   *)
(* webhook_events that make ingestion idempotent.                          *)
(*                                                                         *)
(* Three kinds of process write them.  Every webhook delivery runs         *)
(* handleVapiWebhook in a Worker of its own; every takeover or hang-up     *)
(* runs handleTakeover or handleEndCall for a member of staff; the         *)
(* telephone call itself goes on at Vapi, which also decides how often and *)
(* in which order it delivers its messages.  Each D1 statement is atomic   *)
(* and is one action; everything between two statements interleaves.       *)
(***************************************************************************)
EXTENDS Integers, Sequences, FiniteSets

CONSTANTS
    Worker,         \* webhook requests being handled at once
    Staff,          \* members of staff with permission calls:control
    Message,        \* the messages Vapi sends about this call
    Event,          \* Event[m]: what normalizeEvent makes of message m
    Utterance,      \* transcript texts
    None,           \* SQL NULL
    MaxDeliveries,  \* bound: deliveries of one message, retries included
    MaxFailures     \* bound: handlers that die half way, and failed bumps

Status == {"ringing", "in-progress", "transferring", "ended"}

Outcome == {"booked", "inquiry", "escalated", "missed", "resolved"}

MessageType == {"status-update", "transcript", "end-of-call-report"}

(***************************************************************************)
(* The fields of a NormalizedEvent the handler branches on.  status is     *)
(* already mapped by mapStatus, None when Vapi's word is not one of the    *)
(* four; outcome is what deriveOutcome concludes from the event itself.    *)
(***************************************************************************)
NormalizedEvent ==
    [type      : MessageType,
     status    : Status \cup {None},
     outcome   : Outcome,
     placed    : BOOLEAN,           \* names an assistant or phone number
     controlUrl: BOOLEAN,           \* carries call.monitor.controlUrl
     endedAt   : BOOLEAN,           \* carries call.endedAt
     durationS : BOOLEAN,           \* carries durationSeconds
     lines     : Seq(Utterance)]    \* final utterances, oldest first

ASSUME LiveCallAssumption ==
    /\ Event \in [Message -> NormalizedEvent]
    /\ MaxDeliveries \in Nat
    /\ MaxFailures \in Nat
    /\ None \notin Status \cup Outcome \cup Message \cup Staff
                   \cup {"vapi", "measured"}
    /\ Worker \cap Staff = {}
    /\ Message \cap Staff = {}

VARIABLES
    onLine,         \* external: the caller is still on the telephone
    deliveries,     \* external: how often Vapi has delivered each message
    answered,       \* messages some delivery of which was answered 200
    webhookEvents,  \* table webhook_events
    call,           \* the row of table calls
    transcript,     \* table transcript_lines, by seq
    statsVersion,   \* organizations.stats_version
    pc,             \* where each handler is
    job,            \* what the handler of each worker holds in memory
    failures,       \* bound counter: handlers died and bumps failed so far
    failed,         \* history: messages a handler of which died half way
    unbumped        \* history: counted data changed since the last bump

external == <<onLine, deliveries>>
tables   == <<webhookEvents, call, transcript, statsVersion>>
history  == <<failures, failed, unbumped>>
vars     == <<external, answered, tables, pc, job, history>>

(* The end time of an event without call.endedAt is the reading of the     *)
(* clock of whoever wrote it, so a stamp is named after its writer.        *)
Stamp == Message \cup Staff \cup {"vapi"}

Entry == [from : Message, line : Utterance]
           \cup [from : Staff, line : {"took over", "ended"}]

CallRow ==
    [status      : Status \cup {None},       \* None: no such row
     controlUrl  : BOOLEAN,
     endedAt     : Stamp \cup {None},
     duration    : Stamp \cup {"measured", None},  \* which end it counts to
     outcome     : Outcome \cup {None},
     takenOverBy : Staff \cup {None}]

(* sawTakeover is taken_over_by as the worker's finalizeCall read it.      *)
Job ==
    [msg         : Message \cup {None},
     pending     : Seq(Utterance),      \* lines still to append
     sawTakeover : BOOLEAN]

NoJob == [msg |-> None, pending |-> <<>>, sawTakeover |-> FALSE]

WorkerPc == {"idle", "upsert", "bumpNew", "count", "append",
             "finalize", "end", "bumpEnd"}
StaffPc  == {"idle", "transfer", "mark", "noteTakeover",
             "hangUp", "markEnded", "bumpEnded", "noteEnded"}

TypeOK ==
    /\ onLine \in BOOLEAN
    /\ deliveries \in [Message -> 0..MaxDeliveries]
    /\ answered \subseteq Message
    /\ webhookEvents \subseteq Message
    /\ call \in CallRow
    /\ transcript \in Seq(Entry)
    /\ statsVersion \in Nat
    /\ pc \in [Worker \cup Staff -> WorkerPc \cup StaffPc]
    /\ job \in [Worker -> Job]
    /\ \A w \in Worker : pc[w] \in WorkerPc /\ (pc[w] # "idle" => job[w].msg \in Message)
    /\ \A s \in Staff : pc[s] \in StaffPc
    /\ failures \in 0..MaxFailures
    /\ failed \subseteq Message
    /\ unbumped \in BOOLEAN

Init ==
    /\ onLine = TRUE
    /\ deliveries = [m \in Message |-> 0]
    /\ answered = {}
    /\ webhookEvents = {}
    /\ call = [status |-> None, controlUrl |-> FALSE, endedAt |-> None,
               duration |-> None, outcome |-> None, takenOverBy |-> None]
    /\ transcript = <<>>
    /\ statsVersion = 0
    /\ pc = [p \in Worker \cup Staff |-> "idle"]
    /\ job = [w \in Worker |-> NoJob]
    /\ failures = 0
    /\ failed = {}
    /\ unbumped = FALSE

-----------------------------------------------------------------------------
(* handleVapiWebhook                                                       *)

Known == call.status # None

\* const finished = ...
Finished(m) ==
    \/ Event[m].type = "end-of-call-report"
    \/ Event[m].status = "ended"

(* Where the handler goes next: bump for a new row, then the lines, then   *)
(* finalizeCall, then the answer.                                          *)
AfterLines(m) == IF Finished(m) THEN "finalize" ELSE "idle"

AfterUpsert(m) ==
    IF Event[m].lines = <<>> THEN AfterLines(m)
    ELSE IF Event[m].type = "transcript" THEN "append" ELSE "count"

(* Worker w goes on to step `next` with j in memory; "idle" is the 200 at  *)
(* the end.                                                                *)
Continue(w, next, j) ==
    /\ pc' = [pc EXCEPT ![w] = next]
    /\ job' = [job EXCEPT ![w] = IF next = "idle" THEN NoJob ELSE j]
    /\ answered' = IF next = "idle" THEN answered \cup {job[w].msg} ELSE answered

\* Mutant: every delivery is processed, seen before or not.
RecordEventTwice(w, m) ==
    /\ pc[w] = "idle"
    /\ deliveries[m] < MaxDeliveries
    /\ Finished(m) => ~onLine
    /\ deliveries' = [deliveries EXCEPT ![m] = @ + 1]
    /\ webhookEvents' = webhookEvents \cup {m}
    /\ pc' = [pc EXCEPT ![w] = "upsert"]
    /\ job' = [job EXCEPT ![w] = [NoJob EXCEPT !.msg = m, !.pending = Event[m].lines]]
    /\ UNCHANGED <<onLine, answered, call, transcript, statsVersion, history>>

(* INSERT OR IGNORE INTO webhook_events: the first statement of every      *)
(* delivery.  Vapi delivers late, again after anything but a 2xx, and now  *)
(* and then twice; a message about the end is only sent once there is one. *)
RecordEvent(w, m) ==
    /\ pc[w] = "idle"
    /\ deliveries[m] < MaxDeliveries
    /\ Finished(m) => ~onLine
    /\ deliveries' = [deliveries EXCEPT ![m] = @ + 1]
    /\ IF m \in webhookEvents
       THEN /\ answered' = answered \cup {m}     \* 'duplicate'
            /\ UNCHANGED <<webhookEvents, pc, job>>
       ELSE /\ webhookEvents' = webhookEvents \cup {m}
            /\ pc' = [pc EXCEPT ![w] = "upsert"]
            /\ job' = [job EXCEPT ![w] = [NoJob EXCEPT !.msg = m,
                                                       !.pending = Event[m].lines]]
            /\ UNCHANGED answered
    /\ UNCHANGED <<onLine, call, transcript, statsVersion, history>>

(* resolveOrg: a message without assistant or number finds the client only *)
(* through a row already there; otherwise it is answered 'unknown_org'.    *)
IgnoreUnknownOrg(w) ==
    /\ pc[w] = "upsert"
    /\ ~Event[job[w].msg].placed
    /\ ~Known
    /\ Continue(w, "idle", job[w])
    /\ UNCHANGED <<external, tables, history>>

\* Mutant: without the 'transferring' branch of the CASE.
MergedStatusForgetsTakeover(new) ==
    IF ~Known \/ new = "ended" THEN new
    ELSE IF call.status = "ended" THEN call.status
    ELSE new

(* The INSERT ... ON CONFLICT of upsertCall and the SELECT after it.       *)
MergedStatus(new) ==
    IF ~Known \/ new = "ended" THEN new
    ELSE IF call.status \in {"ended", "transferring"} THEN call.status
    ELSE new

UpsertCall(w) ==
    LET e == Event[job[w].msg]
        new == IF e.status = None THEN "in-progress" ELSE e.status
    IN
    /\ pc[w] = "upsert"
    /\ e.placed \/ Known
    /\ call' = [call EXCEPT !.status = MergedStatus(new),
                            !.controlUrl = @ \/ e.controlUrl]
    /\ unbumped' = (unbumped \/ ~Known)
    /\ Continue(w, IF Known THEN AfterUpsert(job[w].msg) ELSE "bumpNew", job[w])
    /\ UNCHANGED <<external, webhookEvents, transcript, statsVersion,
                   failures, failed>>

(* bumpStatsVersion never throws: a failed UPDATE is logged and forgotten. *)
Bump ==
    \/ /\ statsVersion' = statsVersion + 1
       /\ unbumped' = FALSE
       /\ UNCHANGED failures
    \/ /\ failures < MaxFailures
       /\ failures' = failures + 1
       /\ UNCHANGED <<statsVersion, unbumped>>

BumpStats(w) ==
    /\ \/ pc[w] = "bumpNew" /\ Continue(w, AfterUpsert(job[w].msg), job[w])
       \/ pc[w] = "bumpEnd" /\ Continue(w, "idle", job[w])
    /\ Bump
    /\ UNCHANGED <<external, webhookEvents, call, transcript, failed>>

(* persistTranscript of a message that is not a live line: its lines are   *)
(* used only when the table holds none from the conversation.              *)
HasSpokenLines == \E i \in DOMAIN transcript : transcript[i].from \in Message

\* Mutant: lines already there end the whole delivery, not only the backfill.
CountLinesAndAnswer(w) ==
    /\ pc[w] = "count"
    /\ Continue(w, IF HasSpokenLines THEN "idle" ELSE "append", job[w])
    /\ UNCHANGED <<external, tables, history>>

CountLines(w) ==
    /\ pc[w] = "count"
    /\ Continue(w, IF HasSpokenLines THEN AfterLines(job[w].msg) ELSE "append", job[w])
    /\ UNCHANGED <<external, tables, history>>

(* One appendTranscriptLine: seq = MAX + 1 inside the INSERT itself.       *)
AppendLine(w) ==
    LET rest == Tail(job[w].pending) IN
    /\ pc[w] = "append"
    /\ transcript' = Append(transcript, [from |-> job[w].msg,
                                         line |-> Head(job[w].pending)])
    /\ Continue(w, IF rest = <<>> THEN AfterLines(job[w].msg) ELSE "append",
                   [job[w] EXCEPT !.pending = rest])
    /\ UNCHANGED <<external, webhookEvents, call, statsVersion, history>>

(* finalizeCall reads the row, decides the outcome, and writes it back.    *)
ReadForFinalize(w) ==
    /\ pc[w] = "finalize"
    /\ Continue(w, "end", [job[w] EXCEPT !.sawTakeover = (call.takenOverBy # None)])
    /\ UNCHANGED <<external, tables, history>>

deriveOutcome(e, wasTakenOver) ==
    IF wasTakenOver /\ e.outcome # "booked" THEN "resolved" ELSE e.outcome

Coalesce(a, b) == IF a # None THEN a ELSE b

EndStamp(m) == IF Event[m].endedAt THEN "vapi" ELSE m

\* Mutant: ended_at without COALESCE.
FinalizedLastEndWins(m, wasTakenOver) ==
    [call EXCEPT !.status = "ended",
                 !.controlUrl = FALSE,
                 !.endedAt = EndStamp(m),
                 !.duration = IF Event[m].durationS THEN "measured" ELSE EndStamp(m),
                 !.outcome = deriveOutcome(Event[m], wasTakenOver)]

Finalized(m, wasTakenOver) ==
    [call EXCEPT !.status = "ended",
                 !.controlUrl = FALSE,
                 !.endedAt = Coalesce(@, EndStamp(m)),
                 !.duration = IF Event[m].durationS THEN "measured" ELSE EndStamp(m),
                 !.outcome = deriveOutcome(Event[m], wasTakenOver)]

FinalizeCall(w) ==
    /\ pc[w] = "end"
    /\ call' = Finalized(job[w].msg, job[w].sawTakeover)
    /\ unbumped' = TRUE
    /\ Continue(w, "bumpEnd", job[w])
    /\ UNCHANGED <<external, webhookEvents, transcript, statsVersion,
                   failures, failed>>

(* The handler dies between two statements: D1 throws, the isolate goes,   *)
(* or the answer is lost.  Vapi sees a 5xx or nothing and delivers again.  *)
HandlerDies(w) ==
    /\ pc[w] # "idle"
    /\ failures < MaxFailures
    /\ failures' = failures + 1
    /\ failed' = failed \cup {job[w].msg}
    /\ pc' = [pc EXCEPT ![w] = "idle"]
    /\ job' = [job EXCEPT ![w] = NoJob]
    /\ UNCHANGED <<external, answered, tables, unbumped>>

-----------------------------------------------------------------------------
(* handleTakeover and handleEndCall                                        *)

StaffGoesTo(s, next) == pc' = [pc EXCEPT ![s] = next]

(* loadCall and the three refusals.  A refused request changes nothing.    *)
StartTakeover(s) ==
    /\ pc[s] = "idle"
    /\ Known
    /\ call.status \notin {"ended", "transferring"}
    /\ call.controlUrl
    /\ StaffGoesTo(s, "transfer")
    /\ UNCHANGED <<external, answered, tables, job, history>>

(* transferCall: Vapi rings the colleague and says so; or refuses, is not  *)
(* reached, or does not answer within CONTROL_TIMEOUT_MS.                  *)
TransferCall(s) ==
    /\ pc[s] = "transfer"
    /\ \/ onLine /\ StaffGoesTo(s, "mark")
       \/ StaffGoesTo(s, "idle")
    /\ UNCHANGED <<external, answered, tables, job, history>>

MarkTransferring(s) ==
    /\ pc[s] = "mark"
    /\ call' = [call EXCEPT !.status = "transferring", !.takenOverBy = s]
    /\ StaffGoesTo(s, "noteTakeover")
    /\ UNCHANGED <<external, answered, webhookEvents, transcript, statsVersion,
                   job, history>>

StartEndCall(s) ==
    /\ pc[s] = "idle"
    /\ Known
    /\ call.status # "ended"
    /\ StaffGoesTo(s, "hangUp")
    /\ UNCHANGED <<external, answered, tables, job, history>>

(* endCall: the control URL, then the REST API; a call already gone counts *)
(* as ended, and after a timeout it may or may not be.                     *)
HangUp(s) ==
    /\ pc[s] = "hangUp"
    /\ \/ onLine' = FALSE /\ StaffGoesTo(s, "markEnded")
       \/ onLine' \in {onLine, FALSE} /\ StaffGoesTo(s, "idle")
    /\ UNCHANGED <<deliveries, answered, tables, job, history>>

\* Mutant: the hang-up only changes the status.
EndedByStaffWithoutTime(s) == [call EXCEPT !.status = "ended", !.controlUrl = FALSE]

(* Expressions in an UPDATE's SET read the row as it was.                  *)
EndedByStaff(s) ==
    [call EXCEPT !.status = "ended",
                 !.endedAt = Coalesce(@, s),
                 !.duration = Coalesce(@, Coalesce(call.endedAt, s)),
                 !.outcome = Coalesce(@, IF call.takenOverBy # None
                                         THEN "resolved" ELSE "inquiry"),
                 !.controlUrl = FALSE]

\* Mutant: the hang-up forgets bumpStatsVersion.
MarkEndedWithoutBump(s) ==
    /\ pc[s] = "markEnded"
    /\ call' = EndedByStaff(s)
    /\ unbumped' = TRUE
    /\ StaffGoesTo(s, "noteEnded")
    /\ UNCHANGED <<external, answered, webhookEvents, transcript, statsVersion,
                   job, failures, failed>>

MarkEnded(s) ==
    /\ pc[s] = "markEnded"
    /\ call' = EndedByStaff(s)
    /\ unbumped' = TRUE
    /\ StaffGoesTo(s, "bumpEnded")
    /\ UNCHANGED <<external, answered, webhookEvents, transcript, statsVersion,
                   job, failures, failed>>

BumpEnded(s) ==
    /\ pc[s] = "bumpEnded"
    /\ Bump
    /\ StaffGoesTo(s, "noteEnded")
    /\ UNCHANGED <<external, answered, webhookEvents, call, transcript, job,
                   failed>>

(* The system line both handlers append last.                              *)
NoteInTranscript(s) ==
    /\ pc[s] \in {"noteTakeover", "noteEnded"}
    /\ transcript' = Append(transcript,
           [from |-> s, line |-> IF pc[s] = "noteEnded" THEN "ended" ELSE "took over"])
    /\ StaffGoesTo(s, "idle")
    /\ UNCHANGED <<external, answered, webhookEvents, call, statsVersion, job, history>>

RequestDies(s) ==
    /\ pc[s] # "idle"
    /\ failures < MaxFailures
    /\ failures' = failures + 1
    /\ StaffGoesTo(s, "idle")
    /\ UNCHANGED <<external, answered, tables, job, failed, unbumped>>

-----------------------------------------------------------------------------
(* The caller, the colleague or Vapi's ten-minute cap ends the call.       *)
CallerHangsUp ==
    /\ onLine
    /\ onLine' = FALSE
    /\ UNCHANGED <<deliveries, answered, tables, pc, job, history>>

WorkerStep(w) ==
    \/ IgnoreUnknownOrg(w)
    \/ UpsertCall(w)
    \/ BumpStats(w)
    \/ CountLines(w)
    \/ AppendLine(w)
    \/ ReadForFinalize(w)
    \/ FinalizeCall(w)

StaffStep(s) ==
    \/ TransferCall(s)
    \/ MarkTransferring(s)
    \/ HangUp(s)
    \/ MarkEnded(s)
    \/ BumpEnded(s)
    \/ NoteInTranscript(s)

Next ==
    \/ CallerHangsUp
    \/ \E w \in Worker, m \in Message : RecordEvent(w, m)
    \/ \E w \in Worker : WorkerStep(w) \/ HandlerDies(w)
    \/ \E s \in Staff : StartTakeover(s) \/ StartEndCall(s)
                        \/ StaffStep(s) \/ RequestDies(s)

Spec == Init /\ [][Next]_vars

(* A handler that has started runs on (the runtime keeps executing it),    *)
(* every telephone call ends, and Vapi delivers every message at least     *)
(* once.  Nobody is obliged to take a call over or to hang it up.          *)
Fairness ==
    /\ WF_vars(CallerHangsUp)
    /\ \A w \in Worker : WF_vars(WorkerStep(w))
    /\ \A m \in Message :
           WF_vars(deliveries[m] = 0 /\ \E w \in Worker : RecordEvent(w, m))

FairSpec == Spec /\ Fairness
-----------------------------------------------------------------------------
(* What the platform promises                                              *)

Closed == call.endedAt # None

Handling(m) == \E w \in Worker : pc[w] # "idle" /\ job[w].msg = m

(* A message that was answered 200, that names the client, and that is     *)
(* neither still in hand nor was dropped by a handler that died, has had   *)
(* its whole effect: the row is there, its lines are in the transcript, a  *)
(* message about the end has closed the call.  It is the duplicate check   *)
(* coming before the work (webhook.ts:49-56) that puts this at risk.       *)
AnsweredIsApplied ==
    \A m \in answered : Event[m].placed /\ m \notin failed /\ ~Handling(m) =>
        /\ Known
        /\ Finished(m) => Closed
        /\ Event[m].type = "transcript" =>
               Cardinality({i \in DOMAIN transcript : transcript[i].from = m})
                   = Len(Event[m].lines)

(* However often and however concurrently Vapi delivers a message, its     *)
(* lines are written at most once ("a retry cannot duplicate transcript    *)
(* lines", 0001_init.sql:113).                                             *)
NoRetryDuplicatesLines ==
    \A m \in Message :
        Cardinality({i \in DOMAIN transcript : transcript[i].from = m})
            <= Len(Event[m].lines)

(* A row says 'ended' without an end time only between a webhook's upsert  *)
(* and its finalizeCall, or for good when the handler died there.          *)
EndedIsSettled ==
    call.status = "ended" /\ ~Closed =>
        \E m \in Message : Finished(m) /\ (Handling(m) \/ m \in failed)

(* When data the statistics count has changed since stats_version last     *)
(* moved, somebody is still on the way to moving it, or died or failed on  *)
(* that way (statsCache.ts:54 "Called after the change is written").       *)
StatsVersionFollowsData ==
    unbumped =>
        \/ failures > 0
        \/ \E p \in Worker \cup Staff : pc[p] \in {"bumpNew", "bumpEnd", "bumpEnded"}

(* Only an end moves a call out of 'transferring' (webhook.ts:133).        *)
TransferringOnlyEnds ==
    [][call.status = "transferring" => call'.status \in {"transferring", "ended"}]_vars

(* Read as a record of one call, the row and its transcript behave as      *)
(* CallRecord promises: in particular the first end time stands            *)
(* (calls.ts:271) and no line is ever lost or reordered.                   *)
Record == INSTANCE CallRecord WITH
    life    <- IF ~Known THEN "unknown" ELSE IF Closed THEN "closed" ELSE "open",
    end     <- call.endedAt,
    outcome <- call.outcome,
    log     <- transcript

ImplementsCallRecord == Record!Spec

(* A call that is over is closed in the database in the end, unless a      *)
(* handler died or every message about it was for a client not yet set up. *)
OverIsRecorded ==
    ~onLine ~> (Closed \/ failures > 0)

(* calls.ts:271: "a race between this request and Vapi's status-update     *)
(* cannot skew duration": a length that was not measured by Vapi counts to *)
(* the end time the row shows.                                             *)
DurationMatchesEnd ==
    call.duration \in {None, "measured", call.endedAt}
=============================================================================
