--------------------------- MODULE LiveCallProofs ---------------------------
(***************************************************************************)
(* Proofs about LiveCall for any messages, any number of webhook requests  *)
(* and staff at once, and any bounds.                                      *)
(***************************************************************************)
EXTENDS LiveCall, FiniteSetTheorems, TLAPS

USE LiveCallAssumption

(* What a worker's place in handleVapiWebhook says about the rest of the   *)
(* state: which lines it still holds, and that the row exists.             *)
PlaceInv ==
    /\ \A w \in Worker :
        /\ pc[w] \in {"upsert", "bumpNew", "count"} =>
               job[w].pending = Event[job[w].msg].lines
        /\ pc[w] = "count" => job[w].pending # <<>>
        /\ pc[w] = "append" => job[w].pending # <<>>
        /\ pc[w] \in {"bumpNew", "count", "append", "finalize", "end", "bumpEnd"}
               => Known
        /\ pc[w] \in {"finalize", "end", "bumpEnd"} => Finished(job[w].msg)
    /\ \A s \in Staff : pc[s] # "idle" => Known

(* An end time and an outcome are recorded together, on an existing row.   *)
ClosedInv ==
    /\ Closed => Known
    /\ Closed <=> call.outcome # None

(* EndedIsSettled with the worker's place made explicit: it still has      *)
(* finalizeCall's UPDATE before it.                                        *)
SettlingInv ==
    call.status = "ended" /\ ~Closed =>
        \/ \E m \in failed : Finished(m)
        \/ \E w \in Worker : /\ pc[w] \in {"bumpNew", "count", "append", "finalize", "end"}
                             /\ Finished(job[w].msg)

IInv == TypeOK /\ PlaceInv /\ ClosedInv

LEMMA NoneIsNull ==
    None \notin Status /\ None \notin Outcome /\ None \notin Stamp /\ None \notin Message
BY DEF Stamp

LEMMA InitIInv == Init => IInv /\ SettlingInv
<1> SUFFICES ASSUME Init PROVE IInv /\ SettlingInv
    OBVIOUS
<1>1. call \in CallRow /\ call.status = None /\ call.endedAt = None /\ call.outcome = None
    BY DEF Init, CallRow
<1>2. job \in [Worker -> Job]
    BY DEF Init, Job, NoJob
<1>3. pc = [p \in Worker \cup Staff |-> "idle"]
    BY DEF Init
<1>4. TypeOK
    <2>1. pc \in [Worker \cup Staff -> WorkerPc \cup StaffPc]
        BY <1>3 DEF WorkerPc
    <2>2. /\ \A w \in Worker : pc[w] = "idle" /\ pc[w] \in WorkerPc
          /\ \A s \in Staff : pc[s] \in StaffPc
        BY <1>3 DEF WorkerPc, StaffPc
    <2>3. deliveries \in [Message -> 0..MaxDeliveries] /\ failures \in 0..MaxFailures
        BY DEF Init
    <2>4. transcript \in Seq(Entry)
        BY DEF Init
    <2>5. /\ onLine \in BOOLEAN /\ answered \subseteq Message /\ webhookEvents \subseteq Message
          /\ statsVersion \in Nat /\ failed \subseteq Message /\ unbumped \in BOOLEAN
        BY DEF Init
    <2>. QED
        BY <1>1, <1>2, <2>1, <2>2, <2>3, <2>4, <2>5 DEF TypeOK
<1>5. PlaceInv
    BY <1>3 DEF PlaceInv
<1>6. ClosedInv /\ SettlingInv
    BY <1>1, NoneIsNull DEF ClosedInv, SettlingInv, Closed, Known, Status
<1>. QED
    BY <1>4, <1>5, <1>6 DEF IInv

-----------------------------------------------------------------------------
(* Facts about the operators the handlers are built from.                  *)

LEMMA EventFields ==
    ASSUME NEW m \in Message
    PROVE  /\ Event[m].status \in Status \cup {None}
           /\ Event[m].outcome \in Outcome
           /\ Event[m].type \in MessageType
           /\ Event[m].placed \in BOOLEAN
           /\ Event[m].controlUrl \in BOOLEAN
           /\ Event[m].lines \in Seq(Utterance)
BY DEF NormalizedEvent

LEMMA NextPlace ==
    ASSUME NEW m \in Message
    PROVE  /\ AfterLines(m) \in {"idle", "finalize"}
           /\ AfterLines(m) = "finalize" => Finished(m)
           /\ AfterUpsert(m) \in {"idle", "finalize", "append", "count"}
           /\ AfterUpsert(m) \in {"append", "count"} => Event[m].lines # <<>>
           /\ AfterUpsert(m) = "finalize" => Finished(m)
           /\ Finished(m) => AfterUpsert(m) # "idle" /\ AfterLines(m) = "finalize"
BY DEF AfterLines, AfterUpsert

LEMMA EndStampType == ASSUME NEW m \in Message PROVE EndStamp(m) \in Stamp /\ EndStamp(m) # None
BY DEF EndStamp, Stamp

LEMMA DeriveOutcomeType ==
    ASSUME NEW m \in Message, NEW b \in BOOLEAN
    PROVE  deriveOutcome(Event[m], b) \in Outcome /\ deriveOutcome(Event[m], b) # None
BY EventFields DEF deriveOutcome, Outcome

LEMMA FinalizedType ==
    ASSUME NEW m \in Message, NEW b \in BOOLEAN, call \in CallRow
    PROVE  /\ Finalized(m, b) \in CallRow
           /\ Finalized(m, b).status = "ended"
           /\ Finalized(m, b).endedAt = IF Closed THEN call.endedAt ELSE EndStamp(m)
           /\ Finalized(m, b).endedAt # None
           /\ Finalized(m, b).outcome \in Outcome
           /\ Finalized(m, b).outcome # None
<1> DEFINE t == EndStamp(m)
           d == IF Event[m].durationS THEN "measured" ELSE t
           o == deriveOutcome(Event[m], b)
           e == Coalesce(call.endedAt, t)
<1>1. Finalized(m, b) = [call EXCEPT !.status = "ended", !.controlUrl = FALSE,
                                     !.endedAt = e, !.duration = d, !.outcome = o]
    BY DEF Finalized
<1>2. t \in Stamp /\ t # None /\ d \in Stamp \cup {"measured", None}
    BY EndStampType
<1>3. o \in Outcome /\ o # None
    BY DeriveOutcomeType
<1>4. e = IF Closed THEN call.endedAt ELSE t
    BY DEF Coalesce, Closed
<1>5. e \in Stamp \cup {None} /\ e # None
    BY <1>2, <1>4 DEF Closed, CallRow
<1> HIDE DEF t, d, o, e
<1>6. Finalized(m, b) \in CallRow
    BY <1>1, <1>2, <1>3, <1>5 DEF CallRow, Status
<1>7. /\ Finalized(m, b).status = "ended"
      /\ Finalized(m, b).endedAt = e
      /\ Finalized(m, b).outcome = o
    BY <1>1 DEF CallRow
<1>. QED
    BY <1>3, <1>4, <1>5, <1>6, <1>7 DEF t

LEMMA EndedByStaffType ==
    ASSUME NEW s \in Staff, call \in CallRow
    PROVE  /\ EndedByStaff(s) \in CallRow
           /\ EndedByStaff(s).status = "ended"
           /\ EndedByStaff(s).endedAt = IF Closed THEN call.endedAt ELSE s
           /\ EndedByStaff(s).endedAt # None
           /\ call.outcome # None => EndedByStaff(s).outcome = call.outcome
           /\ EndedByStaff(s).outcome \in Outcome
           /\ EndedByStaff(s).outcome # None
<1> DEFINE e == Coalesce(call.endedAt, s)
           d == Coalesce(call.duration, Coalesce(call.endedAt, s))
           o == Coalesce(call.outcome, IF call.takenOverBy # None
                                       THEN "resolved" ELSE "inquiry")
<1>1. EndedByStaff(s) = [call EXCEPT !.status = "ended", !.endedAt = e, !.duration = d,
                                     !.outcome = o, !.controlUrl = FALSE]
    BY DEF EndedByStaff
<1>2. s \in Stamp /\ s # None
    BY NoneIsNull DEF Stamp
<1>3. e = IF Closed THEN call.endedAt ELSE s
    BY DEF Coalesce, Closed
<1>4. e \in Stamp \cup {None} /\ e # None
    BY <1>2, <1>3 DEF Closed, CallRow
<1>5. d \in Stamp \cup {"measured", None}
    BY <1>4 DEF Coalesce, CallRow
<1>6. o \in Outcome /\ o # None /\ (call.outcome # None => o = call.outcome)
    BY NoneIsNull DEF Coalesce, CallRow, Outcome
<1> HIDE DEF d, o, e
<1>7. EndedByStaff(s) \in CallRow
    BY <1>1, <1>4, <1>5, <1>6 DEF CallRow, Status
<1>8. /\ EndedByStaff(s).status = "ended"
      /\ EndedByStaff(s).endedAt = e
      /\ EndedByStaff(s).outcome = o
    BY <1>1 DEF CallRow
<1>. QED
    BY <1>3, <1>4, <1>6, <1>7, <1>8

LEMMA MergedStatusType ==
    ASSUME NEW new \in Status, call \in CallRow
    PROVE  MergedStatus(new) \in Status /\ MergedStatus(new) # None
BY DEF MergedStatus, CallRow, Known, Status

-----------------------------------------------------------------------------
(* The inductive step of IInv, one lemma per kind of move.                 *)

LocalType ==
    /\ pc \in [Worker \cup Staff -> WorkerPc \cup StaffPc]
    /\ job \in [Worker -> Job]
    /\ \A w \in Worker : pc[w] \in WorkerPc /\ (pc[w] # "idle" => job[w].msg \in Message)
    /\ \A s \in Staff : pc[s] \in StaffPc

SharedType ==
    /\ onLine \in BOOLEAN
    /\ deliveries \in [Message -> 0..MaxDeliveries]
    /\ answered \subseteq Message
    /\ webhookEvents \subseteq Message
    /\ call \in CallRow
    /\ transcript \in Seq(Entry)
    /\ statsVersion \in Nat
    /\ failures \in 0..MaxFailures
    /\ failed \subseteq Message
    /\ unbumped \in BOOLEAN

LEMMA TypeParts ==
    /\ TypeOK <=> LocalType /\ SharedType
    /\ TypeOK' <=> LocalType' /\ SharedType'
BY DEF TypeOK, LocalType, SharedType

(* What a worker may hold in memory at its next place.                     *)
Fits(w, next, j) ==
    /\ next \in WorkerPc
    /\ j \in Job
    /\ next # "idle" => j.msg \in Message
    /\ next \in {"upsert", "bumpNew", "count"} => j.pending = Event[j.msg].lines
    /\ next \in {"count", "append"} => j.pending # <<>>
    /\ next \in {"bumpNew", "count", "append", "finalize", "end", "bumpEnd"} => Known'
    /\ next \in {"finalize", "end", "bumpEnd"} => Finished(j.msg)

LEMMA WorkerMoves ==
    ASSUME LocalType, PlaceInv, Known => Known',
           NEW w \in Worker, NEW next, NEW j, Fits(w, next, j),
           pc' = [pc EXCEPT ![w] = next], job' = [job EXCEPT ![w] = j]
    PROVE  LocalType' /\ PlaceInv'
<1>1. LocalType'
    BY DEF LocalType, Fits
<1>2. ASSUME NEW v \in Worker
      PROVE /\ pc'[v] \in {"upsert", "bumpNew", "count"} =>
                   job'[v].pending = Event[job'[v].msg].lines
            /\ pc'[v] = "count" => job'[v].pending # <<>>
            /\ pc'[v] = "append" => job'[v].pending # <<>>
            /\ pc'[v] \in {"bumpNew", "count", "append", "finalize", "end", "bumpEnd"}
                   => Known'
            /\ pc'[v] \in {"finalize", "end", "bumpEnd"} => Finished(job'[v].msg)
    <2>1. CASE v = w
        BY <2>1 DEF LocalType, Fits
    <2>2. CASE v # w
        <3>1. pc'[v] = pc[v] /\ job'[v] = job[v]
            BY <2>2 DEF LocalType
        <3>. QED
            BY <3>1 DEF PlaceInv
    <2>. QED
        BY <2>1, <2>2
<1>3. ASSUME NEW s \in Staff PROVE pc'[s] # "idle" => Known'
    BY DEF PlaceInv, LocalType
<1>4. \A m \in Message : Finished(m)' <=> Finished(m)
    BY DEF Finished
<1>. QED
    BY <1>1, <1>2, <1>3, <1>4 DEF PlaceInv, Finished

LEMMA ContinueMoves ==
    ASSUME LocalType, PlaceInv, Known => Known', answered \subseteq Message,
           NEW w \in Worker, pc[w] # "idle", NEW next, NEW j, Fits(w, next, j),
           Continue(w, next, j)
    PROVE  LocalType' /\ PlaceInv' /\ answered' \subseteq Message
<1>1. job[w].msg \in Message
    BY DEF LocalType
<1>2. NoJob \in Job
    BY DEF NoJob, Job
<1>3. CASE next = "idle"
    <2>1. Fits(w, next, NoJob)
        BY <1>2, <1>3 DEF Fits
    <2>. QED
        BY <1>1, <1>3, <2>1, WorkerMoves DEF Continue
<1>4. CASE next # "idle"
    BY <1>4, WorkerMoves DEF Continue
<1>. QED
    BY <1>3, <1>4

LEMMA StaffMoves ==
    ASSUME LocalType, PlaceInv, Known => Known',
           NEW s \in Staff, NEW next \in StaffPc, next # "idle" => Known',
           StaffGoesTo(s, next), UNCHANGED job
    PROVE  LocalType' /\ PlaceInv'
<1>1. LocalType'
    BY DEF LocalType, StaffGoesTo
<1>2. ASSUME NEW w \in Worker PROVE pc'[w] = pc[w]
    BY DEF LocalType, StaffGoesTo
<1>3. ASSUME NEW r \in Staff PROVE pc'[r] # "idle" => Known'
    BY DEF LocalType, StaffGoesTo, PlaceInv
<1>. QED
    BY <1>1, <1>2, <1>3 DEF PlaceInv, Finished

(* An action that leaves call alone leaves Known and ClosedInv alone.      *)
LEMMA SameRow == ASSUME ClosedInv, UNCHANGED call PROVE ClosedInv' /\ (Known => Known')
BY DEF ClosedInv, Closed, Known

LEMMA RecordEventIInv ==
    ASSUME IInv, NEW w \in Worker, NEW m \in Message, RecordEvent(w, m)
    PROVE  IInv'
<1> USE DEF IInv
<1>1. LocalType /\ SharedType
    BY TypeParts
<1>2. ClosedInv' /\ (Known => Known')
    BY SameRow DEF RecordEvent
<1>3. SharedType'
    BY <1>1 DEF SharedType, RecordEvent, history
<1>4. LocalType' /\ PlaceInv'
    <2>1. CASE m \in webhookEvents
        BY <1>1, <1>2, <2>1 DEF RecordEvent, LocalType, PlaceInv, Finished
    <2>2. CASE m \notin webhookEvents
        <3> DEFINE j == [NoJob EXCEPT !.msg = m, !.pending = Event[m].lines]
        <3>1. j \in Job /\ j.msg = m /\ j.pending = Event[m].lines
            BY EventFields DEF NoJob, Job
        <3> HIDE DEF j
        <3>2. Fits(w, "upsert", j)
            BY <3>1 DEF Fits, WorkerPc
        <3>3. pc' = [pc EXCEPT ![w] = "upsert"] /\ job' = [job EXCEPT ![w] = j]
            BY <2>2 DEF RecordEvent, j
        <3>. QED
            BY <1>1, <1>2, <3>2, <3>3, WorkerMoves
    <2>. QED
        BY <2>1, <2>2
<1>. QED
    BY <1>2, <1>3, <1>4, TypeParts

LEMMA UpsertCallIInv ==
    ASSUME IInv, NEW w \in Worker, UpsertCall(w)
    PROVE  IInv'
<1> USE DEF IInv
<1> DEFINE m == job[w].msg
           new == IF Event[m].status = None THEN "in-progress" ELSE Event[m].status
           next == IF Known THEN AfterUpsert(m) ELSE "bumpNew"
<1>1. LocalType /\ SharedType /\ pc[w] = "upsert"
    BY TypeParts DEF UpsertCall
<1>2. m \in Message /\ job[w] \in Job /\ job[w].pending = Event[m].lines
    BY <1>1 DEF LocalType, PlaceInv
<1>3. new \in Status
    BY <1>2, EventFields DEF Status
<1>4. call' = [call EXCEPT !.status = MergedStatus(new),
                           !.controlUrl = @ \/ Event[m].controlUrl]
    BY DEF UpsertCall
<1>5. call' \in CallRow /\ call'.status # None /\ call'.endedAt = call.endedAt
        /\ call'.outcome = call.outcome
    BY <1>1, <1>2, <1>3, <1>4, MergedStatusType, EventFields DEF SharedType, CallRow
<1>6. Known' /\ ClosedInv'
    BY <1>5 DEF Known, ClosedInv, Closed
<1>7. Fits(w, next, job[w])
    BY <1>2, <1>6, NextPlace DEF Fits, WorkerPc
<1>8. LocalType' /\ PlaceInv' /\ answered' \subseteq Message
    <2>1. Continue(w, next, job[w])
        BY DEF UpsertCall
    <2>. QED
        BY <1>1, <1>6, <1>7, <2>1, ContinueMoves DEF SharedType
<1>9. SharedType'
    BY <1>1, <1>5, <1>8 DEF SharedType, UpsertCall, external
<1>. QED
    BY <1>6, <1>8, <1>9, TypeParts

LEMMA BumpType ==
    ASSUME statsVersion \in Nat, failures \in 0..MaxFailures, unbumped \in BOOLEAN, Bump
    PROVE  statsVersion' \in Nat /\ failures' \in 0..MaxFailures /\ unbumped' \in BOOLEAN
<1>1. statsVersion' \in Nat /\ failures' \in 0..MaxFailures
    <2>1. MaxFailures \in Nat
        BY LiveCallAssumption
    <2>. QED
        BY <2>1 DEF Bump
<1>2. unbumped' \in BOOLEAN
    BY DEF Bump
<1>. QED
    BY <1>1, <1>2

LEMMA BumpStatsIInv ==
    ASSUME IInv, NEW w \in Worker, BumpStats(w)
    PROVE  IInv'
<1> USE DEF IInv
<1>1. LocalType /\ SharedType
    BY TypeParts
<1>2. ClosedInv' /\ (Known => Known')
    BY SameRow DEF BumpStats
<1>3. LocalType' /\ PlaceInv' /\ answered' \subseteq Message
    <2>1. CASE pc[w] = "bumpNew" /\ Continue(w, AfterUpsert(job[w].msg), job[w])
        <3>1. Fits(w, AfterUpsert(job[w].msg), job[w])
            BY <1>1, <1>2, <2>1, NextPlace DEF Fits, LocalType, PlaceInv, WorkerPc
        <3>. QED
            BY <1>1, <1>2, <2>1, <3>1, ContinueMoves DEF SharedType
    <2>2. CASE pc[w] = "bumpEnd" /\ Continue(w, "idle", job[w])
        <3>1. Fits(w, "idle", job[w])
            BY <1>1 DEF Fits, LocalType, WorkerPc
        <3>. QED
            BY <1>1, <1>2, <2>2, <3>1, ContinueMoves DEF SharedType
    <2>. QED
        BY <2>1, <2>2 DEF BumpStats
<1>4. SharedType'
    BY <1>1, <1>3, BumpType DEF SharedType, BumpStats, external
<1>. QED
    BY <1>2, <1>3, <1>4, TypeParts

(* The worker's steps that touch neither the row nor the counters.         *)
LEMMA QuietWorkerIInv ==
    ASSUME IInv, NEW w \in Worker,
           \/ IgnoreUnknownOrg(w) \/ CountLines(w) \/ AppendLine(w) \/ ReadForFinalize(w)
    PROVE  IInv'
<1> USE DEF IInv
<1> DEFINE m == job[w].msg
<1>1. LocalType /\ SharedType /\ pc[w] # "idle"
    BY TypeParts DEF IgnoreUnknownOrg, CountLines, AppendLine, ReadForFinalize
<1>2. m \in Message /\ job[w] \in Job
    BY <1>1 DEF LocalType
<1>3. ClosedInv' /\ (Known => Known')
    BY SameRow DEF IgnoreUnknownOrg, CountLines, AppendLine, ReadForFinalize, tables
<1>4. LocalType' /\ PlaceInv' /\ SharedType'
    <2>1. CASE IgnoreUnknownOrg(w)
        <3>1. Fits(w, "idle", job[w])
            BY <1>2 DEF Fits, WorkerPc
        <3>2. LocalType' /\ PlaceInv' /\ answered' \subseteq Message
            BY <1>1, <1>3, <2>1, <3>1, ContinueMoves DEF IgnoreUnknownOrg, SharedType
        <3>. QED
            BY <1>1, <2>1, <3>2 DEF SharedType, IgnoreUnknownOrg, external, tables, history
    <2>2. CASE CountLines(w)
        <3> DEFINE next == IF HasSpokenLines THEN AfterLines(m) ELSE "append"
        <3>1. Fits(w, next, job[w])
            BY <1>2, <1>3, <2>2, NextPlace DEF Fits, WorkerPc, CountLines, PlaceInv
        <3>2. Continue(w, next, job[w])
            BY <2>2 DEF CountLines
        <3> HIDE DEF next
        <3>3. LocalType' /\ PlaceInv' /\ answered' \subseteq Message
            BY <1>1, <1>3, <3>1, <3>2, ContinueMoves DEF SharedType
        <3>. QED
            BY <1>1, <2>2, <3>3 DEF SharedType, CountLines, external, tables, history
    <2>3. CASE AppendLine(w)
        <3> DEFINE rest == Tail(job[w].pending)
                   next == IF rest = <<>> THEN AfterLines(m) ELSE "append"
                   j == [job[w] EXCEPT !.pending = rest]
        <3>1. job[w].pending \in Seq(Utterance) /\ job[w].pending # <<>>
            BY <1>2, <2>3 DEF Job, AppendLine, PlaceInv
        <3>2. rest \in Seq(Utterance) /\ Head(job[w].pending) \in Utterance
            BY <3>1
        <3>3. j \in Job /\ j.msg = m /\ j.pending = rest
            BY <1>2, <3>2 DEF Job
        <3>4. Continue(w, next, j)
            BY <2>3 DEF AppendLine
        <3>5. transcript' \in Seq(Entry)
            <4>1. [from |-> m, line |-> Head(job[w].pending)] \in Entry
                BY <1>2, <3>2 DEF Entry
            <4>. QED
                BY <1>1, <2>3, <4>1 DEF AppendLine, SharedType
        <3>6. pc[w] = "append" => Known
            BY DEF PlaceInv
        <3>7. pc[w] = "append"
            BY <2>3 DEF AppendLine
        <3> HIDE DEF j, rest
        <3>8. Fits(w, next, j)
            BY <1>2, <1>3, <3>3, <3>6, <3>7, NextPlace DEF Fits, WorkerPc
        <3> HIDE DEF next
        <3>9. LocalType' /\ PlaceInv' /\ answered' \subseteq Message
            BY <1>1, <1>3, <3>4, <3>8, ContinueMoves DEF SharedType
        <3>. QED
            BY <1>1, <2>3, <3>5, <3>9 DEF SharedType, AppendLine, external, history
    <2>4. CASE ReadForFinalize(w)
        <3> DEFINE j == [job[w] EXCEPT !.sawTakeover = (call.takenOverBy # None)]
        <3>1. j \in Job /\ j.msg = m
            BY <1>2 DEF Job
        <3>2. Continue(w, "end", j)
            BY <2>4 DEF ReadForFinalize
        <3> HIDE DEF j
        <3>3. Fits(w, "end", j)
            BY <1>2, <1>3, <2>4, <3>1 DEF Fits, WorkerPc, ReadForFinalize, PlaceInv
        <3>4. LocalType' /\ PlaceInv' /\ answered' \subseteq Message
            BY <1>1, <1>3, <3>2, <3>3, ContinueMoves DEF SharedType
        <3>. QED
            BY <1>1, <2>4, <3>4 DEF SharedType, ReadForFinalize, external, tables, history
    <2>. QED
        BY <2>1, <2>2, <2>3, <2>4
<1>. QED
    BY <1>3, <1>4, TypeParts

LEMMA FinalizeCallIInv ==
    ASSUME IInv, NEW w \in Worker, FinalizeCall(w)
    PROVE  IInv'
<1> USE DEF IInv
<1> DEFINE m == job[w].msg
<1>1. LocalType /\ SharedType /\ pc[w] = "end"
    BY TypeParts DEF FinalizeCall
<1>2. m \in Message /\ job[w] \in Job /\ job[w].sawTakeover \in BOOLEAN /\ Finished(m)
    BY <1>1 DEF LocalType, Job, PlaceInv
<1>3. call' = Finalized(m, job[w].sawTakeover)
    BY DEF FinalizeCall
<1>4. call' \in CallRow /\ call'.status = "ended" /\ call'.endedAt # None
        /\ call'.outcome # None
    BY <1>1, <1>2, <1>3, FinalizedType DEF SharedType
<1>5. Known' /\ ClosedInv'
    BY <1>4, NoneIsNull DEF Known, ClosedInv, Closed, Status
<1>6. Fits(w, "bumpEnd", job[w])
    BY <1>2, <1>5 DEF Fits, WorkerPc
<1>7. LocalType' /\ PlaceInv' /\ answered' \subseteq Message
    BY <1>1, <1>5, <1>6, ContinueMoves DEF SharedType, FinalizeCall
<1>8. SharedType'
    BY <1>1, <1>4, <1>7 DEF SharedType, FinalizeCall, external
<1>. QED
    BY <1>5, <1>7, <1>8, TypeParts

LEMMA HandlerDiesIInv ==
    ASSUME IInv, NEW w \in Worker, HandlerDies(w)
    PROVE  IInv'
<1> USE DEF IInv
<1>1. LocalType /\ SharedType /\ pc[w] # "idle" /\ MaxFailures \in Nat
    BY TypeParts, LiveCallAssumption DEF HandlerDies
<1>2. ClosedInv' /\ (Known => Known')
    BY SameRow DEF HandlerDies, tables
<1>3. Fits(w, "idle", NoJob)
    BY DEF Fits, WorkerPc, Job, NoJob
<1>4. LocalType' /\ PlaceInv'
    BY <1>1, <1>2, <1>3, WorkerMoves DEF HandlerDies
<1>5. failures' \in 0..MaxFailures /\ failed' \subseteq Message
    BY <1>1 DEF HandlerDies, SharedType, LocalType
<1>6. SharedType'
    BY <1>1, <1>5 DEF SharedType, HandlerDies, external, tables
<1>. QED
    BY <1>2, <1>4, <1>6, TypeParts

(* The staff requests' steps that leave the row and the counters alone.    *)
LEMMA QuietStaffIInv ==
    ASSUME IInv, NEW s \in Staff,
           \/ StartTakeover(s) \/ TransferCall(s) \/ StartEndCall(s) \/ HangUp(s)
    PROVE  IInv'
<1> USE DEF IInv
<1>1. LocalType /\ SharedType
    BY TypeParts
<1>2. ClosedInv' /\ (Known => Known')
    BY SameRow DEF StartTakeover, TransferCall, StartEndCall, HangUp, tables
<1>3. Known' /\ UNCHANGED job
    BY <1>2 DEF PlaceInv, StartTakeover, TransferCall, StartEndCall, HangUp
<1>4. PICK next \in StaffPc : StaffGoesTo(s, next)
    BY DEF StartTakeover, TransferCall, StartEndCall, HangUp, StaffPc
<1>5. LocalType' /\ PlaceInv'
    BY <1>1, <1>3, <1>4, StaffMoves
<1>6. onLine' \in BOOLEAN
    BY <1>1 DEF SharedType, StartTakeover, TransferCall, StartEndCall, HangUp, external
<1>7. SharedType'
    BY <1>1, <1>6 DEF SharedType, StartTakeover, TransferCall, StartEndCall, HangUp,
       external, tables, history
<1>. QED
    BY <1>2, <1>5, <1>7, TypeParts

LEMMA MarkTransferringIInv ==
    ASSUME IInv, NEW s \in Staff, MarkTransferring(s)
    PROVE  IInv'
<1> USE DEF IInv
<1>1. LocalType /\ SharedType
    BY TypeParts
<1>2. call' = [call EXCEPT !.status = "transferring", !.takenOverBy = s]
    BY DEF MarkTransferring
<1>3. /\ call' \in CallRow
      /\ call'.status = "transferring"
      /\ call'.endedAt = call.endedAt
      /\ call'.outcome = call.outcome
    BY <1>1, <1>2 DEF SharedType, CallRow, Status
<1>4. Known' /\ ClosedInv'
    BY <1>3, NoneIsNull DEF Known, ClosedInv, Closed, Status
<1>5. LocalType' /\ PlaceInv'
    BY <1>1, <1>4, StaffMoves DEF MarkTransferring, StaffPc
<1>6. SharedType'
    BY <1>1, <1>3 DEF SharedType, MarkTransferring, external, history
<1>. QED
    BY <1>4, <1>5, <1>6, TypeParts

LEMMA MarkEndedIInv ==
    ASSUME IInv, NEW s \in Staff, MarkEnded(s)
    PROVE  IInv'
<1> USE DEF IInv
<1>1. LocalType /\ SharedType
    BY TypeParts
<1>2. /\ call' \in CallRow
      /\ call'.status = "ended"
      /\ call'.endedAt # None
      /\ call'.outcome # None
    BY <1>1, EndedByStaffType DEF SharedType, MarkEnded
<1>3. Known' /\ ClosedInv'
    BY <1>2, NoneIsNull DEF Known, ClosedInv, Closed, Status
<1>4. LocalType' /\ PlaceInv'
    BY <1>1, <1>3, StaffMoves DEF MarkEnded, StaffPc
<1>5. SharedType'
    BY <1>1, <1>2 DEF SharedType, MarkEnded, external
<1>. QED
    BY <1>3, <1>4, <1>5, TypeParts

LEMMA LastStaffStepsIInv ==
    ASSUME IInv, NEW s \in Staff, BumpEnded(s) \/ NoteInTranscript(s) \/ RequestDies(s)
    PROVE  IInv'
<1> USE DEF IInv
<1>1. LocalType /\ SharedType /\ MaxFailures \in Nat
    BY TypeParts, LiveCallAssumption
<1>2. ClosedInv' /\ (Known => Known')
    BY SameRow DEF BumpEnded, NoteInTranscript, RequestDies, tables
<1>3. pc[s] # "idle"
    BY DEF BumpEnded, NoteInTranscript, RequestDies
<1>4. Known' /\ UNCHANGED job
    BY <1>2, <1>3 DEF PlaceInv, BumpEnded, NoteInTranscript, RequestDies
<1>5. PICK next \in StaffPc : StaffGoesTo(s, next)
    BY DEF BumpEnded, NoteInTranscript, RequestDies, StaffPc
<1>6. LocalType' /\ PlaceInv'
    BY <1>1, <1>4, <1>5, StaffMoves
<1>7. SharedType'
    <2>1. CASE BumpEnded(s)
        BY <1>1, <2>1, BumpType DEF SharedType, BumpEnded, external
    <2>2. CASE NoteInTranscript(s)
        <3> DEFINE note == [from |-> s,
                            line |-> IF pc[s] = "noteEnded" THEN "ended" ELSE "took over"]
        <3>1. note \in Entry /\ transcript' = Append(transcript, note)
            BY <2>2 DEF Entry, NoteInTranscript
        <3> HIDE DEF note
        <3>2. transcript' \in Seq(Entry)
            BY <1>1, <3>1 DEF SharedType
        <3>. QED
            BY <1>1, <2>2, <3>2 DEF SharedType, NoteInTranscript, external, history
    <2>3. CASE RequestDies(s)
        <3>1. failures' \in 0..MaxFailures
            BY <1>1, <2>3 DEF RequestDies, SharedType
        <3>. QED
            BY <1>1, <2>3, <3>1 DEF SharedType, RequestDies, external, tables
    <2>. QED
        BY <2>1, <2>2, <2>3
<1>. QED
    BY <1>2, <1>6, <1>7, TypeParts

LEMMA NextIInv == IInv /\ [Next]_vars => IInv'
<1> SUFFICES ASSUME IInv, [Next]_vars PROVE IInv'
    OBVIOUS
<1>1. CASE CallerHangsUp
    <2>1. ClosedInv' /\ LocalType' /\ PlaceInv'
        BY <1>1, TypeParts, SameRow
        DEF CallerHangsUp, IInv, LocalType, PlaceInv, tables, Known, Finished
    <2>2. SharedType'
        BY <1>1, TypeParts DEF CallerHangsUp, IInv, SharedType, tables, history
    <2>. QED
        BY <2>1, <2>2, TypeParts DEF IInv
<1>2. ASSUME NEW w \in Worker, NEW m \in Message, RecordEvent(w, m) PROVE IInv'
    BY <1>2, RecordEventIInv
<1>3. ASSUME NEW w \in Worker, WorkerStep(w) \/ HandlerDies(w) PROVE IInv'
    BY <1>3, UpsertCallIInv, BumpStatsIInv, QuietWorkerIInv, FinalizeCallIInv,
       HandlerDiesIInv DEF WorkerStep
<1>4. ASSUME NEW s \in Staff,
             StartTakeover(s) \/ StartEndCall(s) \/ StaffStep(s) \/ RequestDies(s)
      PROVE  IInv'
    BY <1>4, QuietStaffIInv, MarkTransferringIInv, MarkEndedIInv, LastStaffStepsIInv
    DEF StaffStep
<1>5. CASE UNCHANGED vars
    <2>1. ClosedInv' /\ LocalType' /\ PlaceInv'
        BY <1>5, TypeParts, SameRow
        DEF vars, IInv, LocalType, PlaceInv, tables, Known, Finished
    <2>2. SharedType'
        BY <1>5, TypeParts DEF vars, IInv, SharedType, tables, history, external
    <2>. QED
        BY <2>1, <2>2, TypeParts DEF IInv
<1>. QED
    BY <1>1, <1>2, <1>3, <1>4, <1>5 DEF Next

(* Every reachable state satisfies the inductive invariant.                *)
THEOREM Invariance == Spec => []IInv
BY InitIInv, NextIInv, PTL DEF Spec

(* The tables and handlers always hold values of their declared types.     *)
THEOREM TypeCorrect == Spec => []TypeOK
BY Invariance, PTL DEF IInv

-----------------------------------------------------------------------------
(* EndedIsSettled: an end written without its time is somebody's duty.     *)

Dropped == \E m \in failed : Finished(m)

(* Worker w still has finalizeCall's UPDATE before it.                     *)
SettlingPlace == {"bumpNew", "count", "append", "finalize", "end"}

Settling(w) ==
    /\ pc[w] \in SettlingPlace
    /\ Finished(job[w].msg)

LEMMA OthersStillSettle ==
    ASSUME NEW w \in Worker, NEW v \in Worker, v # w, Settling(v), LocalType,
           \E next, j : pc' = [pc EXCEPT ![w] = next] /\ job' = [job EXCEPT ![w] = j]
    PROVE  Settling(v)'
BY DEF Settling, LocalType, Finished

(* A worker that leaves the row alone stays on its way to the end, or dies *)
(* and leaves its message among the dropped ones.                          *)
LEMMA StillSettles ==
    ASSUME IInv, NEW w \in Worker, Settling(w),
           \/ IgnoreUnknownOrg(w) \/ CountLines(w) \/ AppendLine(w)
           \/ ReadForFinalize(w) \/ BumpStats(w) \/ HandlerDies(w)
    PROVE  Settling(w)' \/ Dropped'
<1> DEFINE m == job[w].msg
<1>1. LocalType /\ m \in Message /\ Finished(m)
    BY TypeParts DEF IInv, LocalType, Settling, SettlingPlace
<1>2. ASSUME NEW next \in SettlingPlace, NEW j, j.msg = m, Continue(w, next, j)
      PROVE  Settling(w)'
    <2>1. pc'[w] = next /\ job'[w] = j /\ next # "idle"
        BY <1>1, <1>2 DEF Continue, LocalType, SettlingPlace
    <2>. QED
        BY <1>1, <1>2, <2>1 DEF Settling, SettlingPlace, Finished
<1>3. CASE IgnoreUnknownOrg(w)
    BY <1>3 DEF IgnoreUnknownOrg, Settling, SettlingPlace
<1>4. CASE CountLines(w)
    BY <1>1, <1>2, <1>4, NextPlace DEF CountLines, SettlingPlace
<1>5. CASE AppendLine(w)
    <2> DEFINE j == [job[w] EXCEPT !.pending = Tail(job[w].pending)]
    <2>1. j.msg = m
        BY <1>1 DEF LocalType, Job
    <2>2. PICK next \in SettlingPlace : Continue(w, next, j)
        BY <1>1, <1>5, NextPlace DEF AppendLine, SettlingPlace
    <2>. QED
        BY <1>2, <2>1, <2>2
<1>6. CASE ReadForFinalize(w)
    <2> DEFINE j == [job[w] EXCEPT !.sawTakeover = (call.takenOverBy # None)]
    <2>1. j.msg = m
        BY <1>1 DEF LocalType, Job
    <2>2. Continue(w, "end", j)
        BY <1>6 DEF ReadForFinalize
    <2>. QED
        BY <1>2, <2>1, <2>2 DEF SettlingPlace
<1>7. CASE BumpStats(w)
    BY <1>1, <1>2, <1>7, NextPlace DEF BumpStats, Settling, SettlingPlace
<1>8. CASE HandlerDies(w)
    BY <1>1, <1>8 DEF HandlerDies, Dropped, Finished
<1>. QED
    BY <1>3, <1>4, <1>5, <1>6, <1>7, <1>8

LEMMA SettlingStep ==
    ASSUME IInv, IInv', SettlingInv, [Next]_vars
    PROVE  SettlingInv'
<1> SUFFICES ASSUME call'.status = "ended", ~Closed'
             PROVE  Dropped' \/ \E v \in Worker : Settling(v)'
    BY DEF SettlingInv, Dropped, Settling, SettlingPlace
<1>1. LocalType /\ SharedType
    BY TypeParts DEF IInv
<1>2. ASSUME call.status = "ended", ~Closed
      PROVE  Dropped \/ \E v \in Worker : Settling(v)
    BY <1>2 DEF SettlingInv, Dropped, Settling, SettlingPlace
<1>3. ASSUME UNCHANGED <<call, failed, pc, job>>
      PROVE  Dropped' \/ \E v \in Worker : Settling(v)'
    BY <1>2, <1>3 DEF Closed, Dropped, Settling, Finished
<1>4. ASSUME NEW w \in Worker, NEW m \in Message, RecordEvent(w, m)
      PROVE  Dropped' \/ \E v \in Worker : Settling(v)'
    <2>1. UNCHANGED <<call, failed>> /\ pc[w] = "idle"
        BY <1>4 DEF RecordEvent, history
    <2>2. CASE Dropped
        BY <2>1, <2>2 DEF Dropped, Finished
    <2>3. ASSUME NEW v \in Worker, Settling(v)
          PROVE  Settling(v)'
        <3>1. v # w
            BY <2>1, <2>3 DEF Settling, SettlingPlace
        <3>2. CASE UNCHANGED <<pc, job>>
            BY <2>3, <3>2 DEF Settling, Finished
        <3>3. CASE ~UNCHANGED <<pc, job>>
            BY <1>1, <1>4, <2>3, <3>1, <3>3, OthersStillSettle DEF RecordEvent
        <3>. QED
            BY <3>2, <3>3
    <2>. QED
        BY <1>2, <2>1, <2>2, <2>3 DEF Closed
<1>5. ASSUME NEW w \in Worker, WorkerStep(w) \/ HandlerDies(w)
      PROVE  Dropped' \/ \E v \in Worker : Settling(v)'
    <2>1. \E next, j : pc' = [pc EXCEPT ![w] = next] /\ job' = [job EXCEPT ![w] = j]
        BY <1>5 DEF WorkerStep, HandlerDies, IgnoreUnknownOrg, UpsertCall, BumpStats,
           CountLines, AppendLine, ReadForFinalize, FinalizeCall, Continue
    <2>2. Dropped => Dropped'
        BY <1>5 DEF Dropped, Finished, WorkerStep, HandlerDies, IgnoreUnknownOrg,
           UpsertCall, BumpStats, CountLines, AppendLine, ReadForFinalize,
           FinalizeCall, history
    <2>3. ASSUME NEW v \in Worker, v # w, Settling(v) PROVE Settling(v)'
        BY <1>1, <2>1, <2>3, OthersStillSettle
    <2>4. CASE UpsertCall(w)
        <3> DEFINE m == job[w].msg
        <3>1. pc[w] = "upsert" /\ m \in Message
            BY <1>1, <2>4 DEF UpsertCall, LocalType
        <3>2. ~Closed /\ ~Settling(w)
            BY <1>1, <2>4, <3>1 DEF UpsertCall, Closed, SharedType, CallRow,
               Settling, SettlingPlace
        <3>3. CASE call.status = "ended"
            BY <1>2, <2>2, <2>3, <3>2, <3>3
        <3>4. CASE call.status # "ended"
            <4>1. Finished(m)
                <5>1. call'.status = MergedStatus(IF Event[m].status = None THEN "in-progress"
                                                  ELSE Event[m].status)
                    BY <1>1, <2>4 DEF UpsertCall, SharedType, CallRow
                <5>. QED
                    BY <3>4, <5>1 DEF MergedStatus, Finished
            <4>2. PICK next \in SettlingPlace : Continue(w, next, job[w])
                BY <2>4, <3>1, <4>1, NextPlace DEF UpsertCall, SettlingPlace
            <4>3. pc'[w] \in SettlingPlace /\ job'[w].msg = m
                BY <1>1, <4>2 DEF Continue, LocalType, SettlingPlace
            <4>. QED
                BY <4>1, <4>3 DEF Settling, Finished
        <3>. QED
            BY <3>3, <3>4
    <2>5. CASE FinalizeCall(w)
        <3>1. job[w].msg \in Message /\ job[w].sawTakeover \in BOOLEAN
            BY <1>1, <2>5 DEF LocalType, FinalizeCall, Job
        <3>2. Closed'
            BY <1>1, <2>5, <3>1, FinalizedType DEF SharedType, FinalizeCall, Closed
        <3>. QED
            BY <3>2
    <2>6. CASE \/ IgnoreUnknownOrg(w) \/ CountLines(w) \/ AppendLine(w)
               \/ ReadForFinalize(w) \/ BumpStats(w) \/ HandlerDies(w)
        <3>1. UNCHANGED call
            BY <2>6 DEF IgnoreUnknownOrg, CountLines, AppendLine, ReadForFinalize,
               BumpStats, HandlerDies, tables
        <3>2. Settling(w) => Settling(w)' \/ Dropped'
            BY <2>6, StillSettles
        <3>. QED
            BY <1>2, <2>2, <2>3, <3>1, <3>2 DEF Closed
    <2>. QED
        BY <1>5, <2>4, <2>5, <2>6 DEF WorkerStep
<1>6. ASSUME NEW s \in Staff,
             StartTakeover(s) \/ StartEndCall(s) \/ StaffStep(s) \/ RequestDies(s)
      PROVE  Dropped' \/ \E v \in Worker : Settling(v)'
    <2>1. /\ UNCHANGED <<job, failed>>
          /\ \E next : StaffGoesTo(s, next)
        BY <1>6 DEF StaffStep, StartTakeover, StartEndCall, TransferCall, HangUp,
           MarkTransferring, MarkEnded, BumpEnded, NoteInTranscript, RequestDies, history
    <2>2. \A v \in Worker : pc'[v] = pc[v]
        BY <1>1, <2>1, LiveCallAssumption DEF StaffGoesTo, LocalType
    <2>3. ~MarkTransferring(s)
        BY <1>1 DEF MarkTransferring, SharedType, CallRow
    <2>4. ~MarkEnded(s)
        BY <1>1, EndedByStaffType DEF MarkEnded, SharedType, Closed
    <2>5. UNCHANGED call
        BY <1>6, <2>3, <2>4 DEF StaffStep, StartTakeover, StartEndCall, TransferCall,
           HangUp, BumpEnded, NoteInTranscript, RequestDies, tables
    <2>. QED
        BY <1>2, <2>1, <2>2, <2>5 DEF Closed, Dropped, Settling, Finished
<1>7. CASE CallerHangsUp \/ UNCHANGED vars
    BY <1>3, <1>7 DEF CallerHangsUp, vars, tables, history
<1>. QED
    BY <1>4, <1>5, <1>6, <1>7 DEF Next

(* A row says 'ended' without an end time only while a handler that will   *)
(* write it is running, or after one died on the way.                      *)
THEOREM EndedIsAlwaysSettled == Spec => []EndedIsSettled
<1>1. Init => IInv /\ SettlingInv
    BY InitIInv
<1>2. IInv /\ SettlingInv /\ [Next]_vars => IInv' /\ SettlingInv'
    BY NextIInv, SettlingStep
<1>3. IInv /\ SettlingInv => EndedIsSettled
    <2> SUFFICES ASSUME IInv, SettlingInv, call.status = "ended", ~Closed
                 PROVE  \E m \in Message : Finished(m) /\ (Handling(m) \/ m \in failed)
        BY DEF EndedIsSettled
    <2>1. LocalType /\ SharedType
        BY TypeParts DEF IInv
    <2>2. CASE \E m \in failed : Finished(m)
        BY <2>1, <2>2 DEF SharedType
    <2>3. ASSUME NEW w \in Worker, Settling(w)
          PROVE  \E m \in Message : Finished(m) /\ (Handling(m) \/ m \in failed)
        BY <2>1, <2>3 DEF Settling, SettlingPlace, LocalType, Handling
    <2>. QED
        BY <2>2, <2>3 DEF SettlingInv, Settling, SettlingPlace
<1>. QED
    BY <1>1, <1>2, <1>3, PTL DEF Spec

-----------------------------------------------------------------------------
(* StatsVersionFollowsData.                                                *)

Process == Worker \cup Staff
BumpPlace == {"bumpNew", "bumpEnd", "bumpEnded"}

(* A process that is not about to bump, and whose step either leaves       *)
(* unbumped alone or takes the process to a bump, keeps the promise.       *)
LEMMA StepTowardsBump ==
    ASSUME LocalType, StatsVersionFollowsData, NEW p \in Process, NEW next,
           pc' = [pc EXCEPT ![p] = next], UNCHANGED failures,
           pc[p] \notin BumpPlace,
           UNCHANGED unbumped \/ next \in BumpPlace
    PROVE  StatsVersionFollowsData'
<1>1. ASSUME NEW q \in Process, pc[q] \in BumpPlace
      PROVE  pc'[q] \in BumpPlace
    BY <1>1 DEF LocalType, Process
<1>2. CASE next \in BumpPlace
    BY <1>2 DEF StatsVersionFollowsData, LocalType, Process, BumpPlace
<1>3. CASE UNCHANGED unbumped
    BY <1>1, <1>3 DEF StatsVersionFollowsData, Process, BumpPlace
<1>. QED
    BY <1>2, <1>3

LEMMA BumpOrFail ==
    ASSUME SharedType, Bump
    PROVE  StatsVersionFollowsData'
<1>1. CASE unbumped' = FALSE
    BY <1>1 DEF StatsVersionFollowsData
<1>2. CASE failures' = failures + 1
    <2>1. failures' > 0
        BY <1>2, LiveCallAssumption DEF SharedType
    <2>. QED
        BY <2>1 DEF StatsVersionFollowsData
<1>. QED
    BY <1>1, <1>2 DEF Bump

LEMMA BumpStep ==
    ASSUME IInv, StatsVersionFollowsData, [Next]_vars
    PROVE  StatsVersionFollowsData'
<1>1. LocalType /\ SharedType
    BY TypeParts DEF IInv
<1>2. ASSUME UNCHANGED <<pc, failures, unbumped>> PROVE StatsVersionFollowsData'
    BY <1>2 DEF StatsVersionFollowsData
<1>3. ASSUME NEW p, failures' = failures + 1 PROVE StatsVersionFollowsData'
    <2>1. failures' > 0
        BY <1>1, <1>3, LiveCallAssumption DEF SharedType
    <2>. QED
        BY <2>1 DEF StatsVersionFollowsData
<1>4. ASSUME NEW w \in Worker, NEW m \in Message, RecordEvent(w, m)
      PROVE  StatsVersionFollowsData'
    <2>1. UNCHANGED <<failures, unbumped>> /\ pc[w] \notin BumpPlace /\ w \in Process
        BY <1>4 DEF RecordEvent, history, BumpPlace, Process
    <2>2. UNCHANGED pc \/ pc' = [pc EXCEPT ![w] = "upsert"]
        BY <1>4 DEF RecordEvent
    <2>. QED
        BY <1>1, <1>2, <2>1, <2>2, StepTowardsBump
<1>5. ASSUME NEW w \in Worker, WorkerStep(w) PROVE StatsVersionFollowsData'
    <2>1. w \in Process /\ \E next : pc' = [pc EXCEPT ![w] = next]
        BY <1>5 DEF Process, WorkerStep, IgnoreUnknownOrg, UpsertCall, BumpStats,
           CountLines, AppendLine, ReadForFinalize, FinalizeCall, Continue
    <2>2. CASE IgnoreUnknownOrg(w) \/ CountLines(w) \/ AppendLine(w) \/ ReadForFinalize(w)
        <3>1. UNCHANGED <<failures, unbumped>> /\ pc[w] \notin BumpPlace
            BY <2>2 DEF IgnoreUnknownOrg, CountLines, AppendLine, ReadForFinalize,
               history, BumpPlace
        <3>. QED
            BY <1>1, <2>1, <3>1, StepTowardsBump
    <2>3. CASE UpsertCall(w)
        <3>1. UNCHANGED failures /\ pc[w] \notin BumpPlace
            BY <2>3 DEF UpsertCall, BumpPlace
        <3>2. CASE Known
            <4>1. unbumped' = unbumped
                BY <1>1, <2>3, <3>2 DEF UpsertCall, SharedType
            <4>. QED
                BY <1>1, <2>1, <3>1, <4>1, StepTowardsBump
        <3>3. CASE ~Known
            <4>1. pc' = [pc EXCEPT ![w] = "bumpNew"]
                BY <2>3, <3>3 DEF UpsertCall, Continue
            <4>. QED
                BY <1>1, <2>1, <3>1, <4>1, StepTowardsBump DEF BumpPlace
        <3>. QED
            BY <3>2, <3>3
    <2>4. CASE BumpStats(w)
        BY <1>1, <2>4, BumpOrFail DEF BumpStats
    <2>5. CASE FinalizeCall(w)
        <3>1. pc' = [pc EXCEPT ![w] = "bumpEnd"] /\ UNCHANGED failures
                /\ pc[w] \notin BumpPlace
            BY <2>5 DEF FinalizeCall, Continue, BumpPlace
        <3>. QED
            BY <1>1, <2>1, <3>1, StepTowardsBump DEF BumpPlace
    <2>. QED
        BY <1>5, <2>2, <2>3, <2>4, <2>5 DEF WorkerStep
<1>6. ASSUME NEW w \in Worker, HandlerDies(w) PROVE StatsVersionFollowsData'
    BY <1>3, <1>6 DEF HandlerDies
<1>7. ASSUME NEW s \in Staff, StartTakeover(s) \/ StartEndCall(s) \/ StaffStep(s)
      PROVE  StatsVersionFollowsData'
    <2>1. s \in Process /\ \E next : pc' = [pc EXCEPT ![s] = next]
        BY <1>7 DEF Process, StaffStep, StartTakeover, StartEndCall, TransferCall, HangUp,
           MarkTransferring, MarkEnded, BumpEnded, NoteInTranscript, StaffGoesTo
    <2>2. CASE BumpEnded(s)
        BY <1>1, <2>2, BumpOrFail DEF BumpEnded
    <2>3. CASE MarkEnded(s)
        <3>1. pc' = [pc EXCEPT ![s] = "bumpEnded"] /\ UNCHANGED failures
                /\ pc[s] \notin BumpPlace
            BY <2>3 DEF MarkEnded, StaffGoesTo, BumpPlace
        <3>. QED
            BY <1>1, <2>1, <3>1, StepTowardsBump DEF BumpPlace
    <2>4. CASE ~BumpEnded(s) /\ ~MarkEnded(s)
        <3>1. UNCHANGED <<failures, unbumped>> /\ pc[s] \notin BumpPlace
            BY <1>7, <2>4 DEF StaffStep, StartTakeover, StartEndCall, TransferCall, HangUp,
               MarkTransferring, NoteInTranscript, history, BumpPlace
        <3>. QED
            BY <1>1, <2>1, <3>1, StepTowardsBump
    <2>. QED
        BY <2>2, <2>3, <2>4
<1>8. ASSUME NEW s \in Staff, RequestDies(s) PROVE StatsVersionFollowsData'
    BY <1>3, <1>8 DEF RequestDies
<1>9. CASE CallerHangsUp \/ UNCHANGED vars
    BY <1>2, <1>9 DEF CallerHangsUp, vars, history
<1>. QED
    BY <1>4, <1>5, <1>6, <1>7, <1>8, <1>9 DEF Next

(* Data the statistics count never changes without a bump of stats_version *)
(* on its way, unless a handler died or the bump itself failed.            *)
THEOREM StatsVersionAlwaysFollows == Spec => []StatsVersionFollowsData
<1>1. Init => StatsVersionFollowsData
    BY DEF Init, StatsVersionFollowsData
<1>2. IInv /\ StatsVersionFollowsData /\ [Next]_vars => StatsVersionFollowsData'
    BY BumpStep
<1>. QED
    BY <1>1, <1>2, Invariance, PTL DEF Spec

-----------------------------------------------------------------------------
(* The row and its transcript implement CallRecord.                        *)

LEMMA RecordInit == Init => Record!Init
BY DEF Init, Record!Init, Known, Closed

RecordVars == <<call, transcript>>

LEMMA RecordStutters ==
    ASSUME UNCHANGED RecordVars
    PROVE  UNCHANGED Record!vars
BY DEF RecordVars, Record!vars, Known, Closed

LEMMA RecordStep ==
    ASSUME IInv, [Next]_vars
    PROVE  [Record!Next]_(Record!vars)
<1>1. LocalType /\ SharedType /\ PlaceInv /\ ClosedInv
    BY TypeParts DEF IInv
<1>2. ASSUME NEW w \in Worker, UpsertCall(w) PROVE [Record!Next]_(Record!vars)
    <2> DEFINE m == job[w].msg
               new == IF Event[m].status = None THEN "in-progress" ELSE Event[m].status
    <2>1. m \in Message
        BY <1>1, <1>2 DEF UpsertCall, LocalType
    <2>2. new \in Status
        BY <2>1, EventFields DEF Status
    <2>3. /\ call'.status = MergedStatus(new)
          /\ call'.endedAt = call.endedAt /\ call'.outcome = call.outcome
          /\ UNCHANGED transcript
        BY <1>1, <1>2 DEF UpsertCall, SharedType, CallRow
    <2>4. Known' /\ (Closed' <=> Closed)
        BY <1>1, <2>2, <2>3, MergedStatusType DEF SharedType, Known, Closed
    <2>5. CASE Known
        BY <2>3, <2>4, <2>5 DEF Record!vars
    <2>6. CASE ~Known
        <3>1. Record!Appear
            BY <1>1, <2>3, <2>4, <2>6 DEF Record!Appear, ClosedInv
        <3>. QED
            BY <3>1 DEF Record!Next
    <2>. QED
        BY <2>5, <2>6
<1>3. ASSUME NEW t \in Stamp, NEW o \in Outcome, Known, Known',
             call'.endedAt = IF Closed THEN call.endedAt ELSE t, call'.endedAt # None,
             call'.outcome = o, UNCHANGED transcript
      PROVE  [Record!Next]_(Record!vars)
    <2>1. CASE Closed
        <3>1. Record!Correct(o)
            BY <1>3, <2>1 DEF Record!Correct, Closed
        <3>. QED
            BY <3>1 DEF Record!Next
    <2>2. CASE ~Closed
        <3>1. Record!Close(t, o)
            BY <1>3, <2>2 DEF Record!Close, Closed
        <3>. QED
            BY <3>1 DEF Record!Next
    <2>. QED
        BY <2>1, <2>2
<1>4. ASSUME NEW w \in Worker, FinalizeCall(w) PROVE [Record!Next]_(Record!vars)
    <2> DEFINE m == job[w].msg
               b == job[w].sawTakeover
    <2>1. m \in Message /\ b \in BOOLEAN /\ Known
        BY <1>1, <1>4 DEF FinalizeCall, LocalType, Job, PlaceInv
    <2>2. call' = Finalized(m, b) /\ UNCHANGED transcript
        BY <1>4 DEF FinalizeCall
    <2>3. /\ call'.status = "ended" /\ call'.endedAt # None /\ call'.outcome \in Outcome
          /\ call'.endedAt = IF Closed THEN call.endedAt ELSE EndStamp(m)
        BY <1>1, <2>1, <2>2, FinalizedType DEF SharedType
    <2>4. Known' /\ EndStamp(m) \in Stamp
        BY <2>1, <2>3, NoneIsNull, EndStampType DEF Known, Status
    <2>. QED
        BY <1>3, <2>1, <2>2, <2>3, <2>4
<1>5. ASSUME NEW s \in Staff, MarkEnded(s) PROVE [Record!Next]_(Record!vars)
    <2>1. Known /\ s \in Stamp
        BY <1>1, <1>5 DEF PlaceInv, MarkEnded, Stamp
    <2>2. call' = EndedByStaff(s) /\ UNCHANGED transcript
        BY <1>5 DEF MarkEnded
    <2>3. /\ call'.status = "ended" /\ call'.endedAt # None /\ call'.outcome \in Outcome
          /\ call'.endedAt = IF Closed THEN call.endedAt ELSE s
        BY <1>1, <2>2, EndedByStaffType DEF SharedType
    <2>4. Known'
        BY <2>3, NoneIsNull DEF Known, Status
    <2>. QED
        BY <1>3, <2>1, <2>2, <2>3, <2>4
<1>6. ASSUME NEW s \in Staff, MarkTransferring(s) PROVE [Record!Next]_(Record!vars)
    <2>1. Known
        BY <1>1, <1>6 DEF PlaceInv, MarkTransferring
    <2>2. /\ call'.status = "transferring"
          /\ call'.endedAt = call.endedAt /\ call'.outcome = call.outcome
          /\ UNCHANGED transcript
        BY <1>1, <1>6 DEF MarkTransferring, SharedType, CallRow
    <2>3. Known'
        BY <2>2, NoneIsNull DEF Known, Status
    <2>. QED
        BY <2>1, <2>2, <2>3 DEF Record!vars, Closed
<1>7. ASSUME NEW e \in Entry, Known, UNCHANGED call, transcript' = Append(transcript, e)
      PROVE  [Record!Next]_(Record!vars)
    <2>1. Record!Hear(e)
        BY <1>7 DEF Record!Hear, Known, Closed
    <2>. QED
        BY <2>1 DEF Record!Next
<1>8. ASSUME NEW w \in Worker, AppendLine(w) PROVE [Record!Next]_(Record!vars)
    <2> DEFINE e == [from |-> job[w].msg, line |-> Head(job[w].pending)]
    <2>1. job[w].pending \in Seq(Utterance) /\ job[w].pending # <<>>
            /\ job[w].msg \in Message /\ Known
        BY <1>1, <1>8 DEF AppendLine, LocalType, Job, PlaceInv
    <2>2. Head(job[w].pending) \in Utterance
        BY <2>1
    <2>3. e \in Entry
        BY <2>1, <2>2 DEF Entry
    <2>4. UNCHANGED call /\ transcript' = Append(transcript, e)
        BY <1>8 DEF AppendLine
    <2> HIDE DEF e
    <2>. QED
        BY <1>7, <2>1, <2>3, <2>4
<1>9. ASSUME NEW s \in Staff, NoteInTranscript(s) PROVE [Record!Next]_(Record!vars)
    <2> DEFINE e == [from |-> s,
                     line |-> IF pc[s] = "noteEnded" THEN "ended" ELSE "took over"]
    <2>1. e \in Entry /\ UNCHANGED call /\ transcript' = Append(transcript, e)
        BY <1>9 DEF NoteInTranscript, Entry
    <2>2. Known
        BY <1>1, <1>9 DEF NoteInTranscript, PlaceInv
    <2> HIDE DEF e
    <2>. QED
        BY <1>7, <2>1, <2>2
<1>10. ASSUME NEW w \in Worker, NEW m \in Message, RecordEvent(w, m)
       PROVE  [Record!Next]_(Record!vars)
    BY <1>10, RecordStutters DEF RecordEvent, RecordVars
<1>11. ASSUME NEW w \in Worker, WorkerStep(w) \/ HandlerDies(w)
       PROVE  [Record!Next]_(Record!vars)
    <2>1. ASSUME \/ IgnoreUnknownOrg(w) \/ BumpStats(w) \/ CountLines(w)
                 \/ ReadForFinalize(w) \/ HandlerDies(w)
          PROVE  UNCHANGED RecordVars
        BY <2>1 DEF RecordVars, IgnoreUnknownOrg, BumpStats, CountLines,
           ReadForFinalize, HandlerDies, tables
    <2>. QED
        BY <1>2, <1>4, <1>8, <1>11, <2>1, RecordStutters DEF WorkerStep
<1>12. ASSUME NEW s \in Staff,
              StartTakeover(s) \/ StartEndCall(s) \/ StaffStep(s) \/ RequestDies(s)
       PROVE  [Record!Next]_(Record!vars)
    <2>1. ASSUME \/ StartTakeover(s) \/ StartEndCall(s) \/ TransferCall(s) \/ HangUp(s)
                 \/ BumpEnded(s) \/ RequestDies(s)
          PROVE  UNCHANGED RecordVars
        BY <2>1 DEF RecordVars, StartTakeover, StartEndCall, TransferCall, HangUp,
           BumpEnded, RequestDies, tables
    <2>. QED
        BY <1>5, <1>6, <1>9, <1>12, <2>1, RecordStutters DEF StaffStep
<1>13. CASE CallerHangsUp \/ UNCHANGED vars
    BY <1>13, RecordStutters DEF CallerHangsUp, vars, tables, RecordVars
<1>. QED
    BY <1>10, <1>11, <1>12, <1>13 DEF Next

(* For every message load and every number of handlers at once, the row    *)
(* and transcript behave as CallRecord promises.                           *)
THEOREM Refinement == Spec => ImplementsCallRecord
<1>1. IInv /\ [Next]_vars => [Record!Next]_(Record!vars)
    BY RecordStep
<1>. QED
    BY <1>1, RecordInit, Invariance, PTL DEF Spec, ImplementsCallRecord, Record!Spec

-----------------------------------------------------------------------------
(* What a step can do to the row and to the number of lines.               *)

(* The row is written by four statements; none of them takes away the row  *)
(* or its end time, and only an end leaves 'transferring'.                 *)
LEMMA RowOnlyAdvances ==
    ASSUME IInv, [Next]_vars
    PROVE  /\ Known => Known'
           /\ Closed => Closed'
           /\ call.status = "transferring" => call'.status \in {"transferring", "ended"}
<1>1. LocalType /\ SharedType /\ ClosedInv
    BY TypeParts DEF IInv
<1>2. CASE UNCHANGED call
    BY <1>2 DEF Known, Closed
<1>3. ASSUME call'.status = "ended", call'.endedAt # None
      PROVE  /\ Known' /\ Closed' /\ call'.status \in {"transferring", "ended"}
    BY <1>3, NoneIsNull DEF Known, Closed, Status
<1>4. ASSUME NEW w \in Worker, UpsertCall(w)
      PROVE  /\ Known'
             /\ Closed => Closed'
             /\ call.status = "transferring" => call'.status \in {"transferring", "ended"}
    <2> DEFINE e == Event[job[w].msg]
               new == IF e.status = None THEN "in-progress" ELSE e.status
    <2>1. job[w].msg \in Message
        BY <1>1, <1>4 DEF UpsertCall, LocalType
    <2>2. new \in Status
        BY <2>1, EventFields DEF Status
    <2>3. call'.status = MergedStatus(new) /\ call'.endedAt = call.endedAt
        BY <1>1, <1>4 DEF UpsertCall, SharedType, CallRow
    <2> HIDE DEF new
    <2>4. MergedStatus(new) # None
        BY <1>1, <2>2, MergedStatusType DEF SharedType
    <2>5. call.status = "transferring" => MergedStatus(new) \in {"transferring", "ended"}
        BY NoneIsNull DEF MergedStatus, Known, Status
    <2>. QED
        BY <2>3, <2>4, <2>5 DEF Known, Closed
<1>5. ASSUME NEW w \in Worker, FinalizeCall(w)
      PROVE  call'.status = "ended" /\ call'.endedAt # None
    <2>1. job[w].msg \in Message /\ job[w].sawTakeover \in BOOLEAN
        BY <1>1, <1>5 DEF LocalType, FinalizeCall, Job
    <2>. QED
        BY <1>1, <1>5, <2>1, FinalizedType DEF SharedType, FinalizeCall
<1>6. ASSUME NEW s \in Staff, MarkTransferring(s)
      PROVE  call'.status = "transferring" /\ call'.endedAt = call.endedAt
    BY <1>1, <1>6 DEF MarkTransferring, SharedType, CallRow
<1>7. ASSUME NEW s \in Staff, MarkEnded(s)
      PROVE  call'.status = "ended" /\ call'.endedAt # None
    BY <1>1, <1>7, EndedByStaffType DEF SharedType, MarkEnded
<1>8. ASSUME NEW w \in Worker, WorkerStep(w) \/ HandlerDies(w)
      PROVE  UNCHANGED call \/ UpsertCall(w) \/ FinalizeCall(w)
    BY <1>8 DEF WorkerStep, HandlerDies, IgnoreUnknownOrg, BumpStats, CountLines,
       AppendLine, ReadForFinalize, tables
<1>9. ASSUME NEW s \in Staff,
             StartTakeover(s) \/ StartEndCall(s) \/ StaffStep(s) \/ RequestDies(s)
      PROVE  UNCHANGED call \/ MarkTransferring(s) \/ MarkEnded(s)
    BY <1>9 DEF StaffStep, StartTakeover, StartEndCall, TransferCall, HangUp, BumpEnded,
       NoteInTranscript, RequestDies, tables
<1>10. ASSUME NEW s \in Staff, MarkTransferring(s)
       PROVE  Known' /\ (Closed => Closed') /\ call'.status \in {"transferring", "ended"}
    BY <1>6, <1>10, NoneIsNull DEF Known, Closed, Status
<1>11. CASE \E w \in Worker, m \in Message : RecordEvent(w, m)
    BY <1>2, <1>11 DEF RecordEvent
<1>12. CASE CallerHangsUp \/ UNCHANGED vars
    BY <1>2, <1>12 DEF CallerHangsUp, vars, tables
<1>. QED
    BY <1>2, <1>3, <1>4, <1>5, <1>7, <1>8, <1>9, <1>10, <1>11, <1>12 DEF Next

(* A call being taken over stays so until it ends, whatever Vapi still     *)
(* sends about it (webhook.ts:133).                                        *)
THEOREM TransferringOnlyEverEnds == Spec => TransferringOnlyEnds
<1>1. IInv /\ [Next]_vars
        => [call.status = "transferring" => call'.status \in {"transferring", "ended"}]_vars
    BY RowOnlyAdvances
<1>. QED
    BY <1>1, Invariance, PTL DEF Spec, TransferringOnlyEnds

(* The lines of the transcript that come from message m.                   *)
LinesOf(m) == {i \in DOMAIN transcript : transcript[i].from = m}
Written(m) == Cardinality(LinesOf(m))

LEMMA WrittenType ==
    ASSUME transcript \in Seq(Entry), NEW m
    PROVE  IsFiniteSet(LinesOf(m)) /\ Written(m) \in Nat
<1>1. IsFiniteSet(1..Len(transcript))
    BY FS_Interval
<1>2. LinesOf(m) \subseteq 1..Len(transcript)
    BY DEF LinesOf
<1>. QED
    BY <1>1, <1>2, FS_Subset, FS_CardinalityType DEF Written

(* A line more, from e.from, and no other message's number of lines moves. *)
LEMMA AppendCounts ==
    ASSUME transcript \in Seq(Entry), NEW e \in Entry,
           transcript' = Append(transcript, e), NEW m
    PROVE  Written(m)' = IF e.from = m THEN Written(m) + 1 ELSE Written(m)
<1> DEFINE n == Len(transcript) + 1
<1>1. /\ DOMAIN transcript' = DOMAIN transcript \cup {n}
      /\ n \notin DOMAIN transcript
      /\ transcript'[n] = e
      /\ \A i \in DOMAIN transcript : transcript'[i] = transcript[i]
    OBVIOUS
<1>2. LinesOf(m)' = {i \in DOMAIN transcript' : transcript'[i].from = m}
    BY DEF LinesOf
<1>3. n \notin LinesOf(m)
    BY <1>1 DEF LinesOf
<1>4. IsFiniteSet(LinesOf(m))
    BY WrittenType
<1> HIDE DEF n
<1>5. CASE e.from = m
    <2>1. LinesOf(m)' = LinesOf(m) \cup {n}
        BY <1>1, <1>2, <1>5 DEF LinesOf
    <2>2. Cardinality(LinesOf(m) \cup {n}) = Cardinality(LinesOf(m)) + 1
        BY <1>3, <1>4, FS_AddElement
    <2>. QED
        BY <1>5, <2>1, <2>2 DEF Written
<1>6. CASE e.from # m
    <2>1. LinesOf(m)' = LinesOf(m)
        BY <1>1, <1>2, <1>6 DEF LinesOf
    <2>. QED
        BY <1>6, <2>1 DEF Written
<1>. QED
    BY <1>5, <1>6

(* The whole effect of a message that names the client.                    *)
Whole(m) ==
    /\ Known
    /\ Finished(m) => Closed
    /\ Event[m].type = "transcript" => Written(m) = Len(Event[m].lines)

(* How much of its message's effect a busy worker has had by its place.    *)
Progress(w) ==
    /\ job[w].msg \in webhookEvents
    /\ pc[w] \in {"upsert", "bumpNew", "count"} => Written(job[w].msg) = 0
    /\ pc[w] = "count" => Event[job[w].msg].type # "transcript"
    /\ pc[w] = "append" =>
           Written(job[w].msg) + Len(job[w].pending) = Len(Event[job[w].msg].lines)
    /\ pc[w] \in {"finalize", "end", "bumpEnd"} /\ Event[job[w].msg].type = "transcript" =>
           Written(job[w].msg) = Len(Event[job[w].msg].lines)
    /\ pc[w] = "bumpEnd" => Closed

(* Each message is in the hands of one worker at most, which has done what *)
(* lies behind its place; one that is in nobody's hands any more and was   *)
(* not dropped has had its whole effect; one never seen has had none.      *)
AppliedInv ==
    /\ \A w \in Worker : pc[w] # "idle" => Progress(w)
    /\ \A v, w \in Worker :
           pc[v] # "idle" /\ pc[w] # "idle" /\ job[v].msg = job[w].msg => v = w
    /\ \A m \in Message : Written(m) <= Len(Event[m].lines)
    /\ \A m \in Message \ webhookEvents : Written(m) = 0
    /\ \A m \in webhookEvents :
           Event[m].placed /\ m \notin failed /\ ~Handling(m) => Whole(m)
    /\ answered \subseteq webhookEvents

LEMMA InitApplied == Init => AppliedInv
<1> SUFFICES ASSUME Init PROVE AppliedInv
    OBVIOUS
<1>1. \A w \in Worker : pc[w] = "idle"
    BY DEF Init
<1>2. ASSUME NEW m \in Message PROVE Written(m) = 0 /\ Written(m) <= Len(Event[m].lines)
    <2>1. LinesOf(m) = {}
        BY DEF Init, LinesOf
    <2>2. Written(m) = 0
        BY <2>1, FS_EmptySet DEF Written
    <2>. QED
        BY <2>2, EventFields
<1>3. webhookEvents = {} /\ answered = {}
    BY DEF Init
<1>. QED
    BY <1>1, <1>2, <1>3 DEF AppliedInv

(* Worker w goes on: every other message is where it was.                  *)
LEMMA WorkerApplies ==
    ASSUME LocalType, LocalType', AppliedInv, webhookEvents \subseteq Message,
           NEW w \in Worker, pc[w] # "idle", NEW m \in Message, job[w].msg = m,
           NEW next, NEW j,
           pc' = [pc EXCEPT ![w] = next], job' = [job EXCEPT ![w] = j],
           next # "idle" => j.msg = m /\ Progress(w)',
           UNCHANGED webhookEvents, failed \subseteq failed',
           answered' \subseteq answered \cup {m},
           Known => Known', Closed => Closed',
           \A n \in Message \ {m} : Written(n)' = Written(n),
           Written(m)' <= Len(Event[m].lines),
           next = "idle" => m \in failed' \/ ~Event[m].placed \/ Whole(m)'
    PROVE  AppliedInv'
<1>1. m \in webhookEvents
    BY DEF LocalType, AppliedInv, Progress
<1>2. pc'[w] = next /\ job'[w] = j
    BY DEF LocalType
<1>3. ASSUME NEW v \in Worker, v # w PROVE pc'[v] = pc[v] /\ job'[v] = job[v]
    BY <1>3 DEF LocalType
<1>4. ASSUME NEW v \in Worker, v # w, pc[v] # "idle"
      PROVE  job[v].msg \in Message /\ job[v].msg # m
    BY <1>4 DEF LocalType, AppliedInv
<1>5. ASSUME NEW v \in Worker, pc'[v] # "idle" PROVE Progress(v)'
    <2>1. CASE v = w
        BY <1>2, <1>5, <2>1
    <2>2. CASE v # w
        <3>1. pc[v] # "idle" /\ pc'[v] = pc[v] /\ job'[v] = job[v]
            BY <1>3, <1>5, <2>2
        <3>2. PICK n \in Message \ {m} : n = job[v].msg
            BY <1>4, <2>2, <3>1
        <3>3. Written(n)' = Written(n)
            BY <3>2
        <3>4. Progress(v)
            BY <3>1 DEF AppliedInv
        <3>. QED
            BY <3>1, <3>2, <3>3, <3>4 DEF Progress
    <2>. QED
        BY <2>1, <2>2
<1>6. ASSUME NEW u \in Worker, NEW v \in Worker, pc'[u] # "idle", pc'[v] # "idle",
             job'[u].msg = job'[v].msg
      PROVE  u = v
    <2>1. CASE u # w /\ v # w
        BY <1>3, <1>6, <2>1 DEF AppliedInv
    <2>2. CASE u = w /\ v # w
        BY <1>2, <1>3, <1>4, <1>6, <2>2
    <2>3. CASE u # w /\ v = w
        BY <1>2, <1>3, <1>4, <1>6, <2>3
    <2>. QED
        BY <2>1, <2>2, <2>3
<1>7. \A n \in Message : Written(n)' <= Len(Event[n].lines)
    BY DEF AppliedInv
<1>8. \A n \in Message \ webhookEvents' : Written(n)' = 0
    BY <1>1 DEF AppliedInv
<1>9. ASSUME NEW n \in webhookEvents', Event[n].placed, n \notin failed', ~Handling(n)'
      PROVE  Whole(n)'
    <2>1. CASE n = m
        <3>1. next = "idle"
            BY <1>2, <1>9, <2>1 DEF Handling
        <3>. QED
            BY <1>9, <2>1, <3>1
    <2>2. CASE n # m
        <3>1. ~Handling(n)
            BY <1>3, <1>9, <2>2 DEF Handling
        <3>2. Whole(n)
            BY <1>9, <3>1 DEF AppliedInv
        <3>3. CASE n \in Message
            BY <2>2, <3>2, <3>3 DEF Whole, Finished
        <3>. QED
            BY <3>3
    <2>. QED
        BY <2>1, <2>2
<1>10. answered' \subseteq webhookEvents'
    BY <1>1 DEF AppliedInv
<1>. QED
    BY <1>5, <1>6, <1>7, <1>8, <1>9, <1>10 DEF AppliedInv

(* A step that moves no worker and writes no message's line.               *)
LEMMA OthersApply ==
    ASSUME AppliedInv, webhookEvents \subseteq Message,
           UNCHANGED <<webhookEvents, job, failed>>,
           \A w \in Worker : pc'[w] = pc[w],
           answered' \subseteq webhookEvents,
           Known => Known', Closed => Closed',
           \A n \in Message : Written(n)' = Written(n)
    PROVE  AppliedInv'
<1>1. ASSUME NEW w \in Worker, pc'[w] # "idle", job[w].msg \in Message PROVE Progress(w)'
    <2>1. PICK n \in Message : n = job[w].msg
        BY <1>1
    <2>2. Written(n)' = Written(n) /\ Progress(w)
        BY <1>1, <2>1 DEF AppliedInv
    <2>. QED
        BY <1>1, <2>1, <2>2 DEF Progress
<1>2. \A w \in Worker : pc'[w] # "idle" => job[w].msg \in Message
    BY DEF AppliedInv, Progress
<1>3. \A v, w \in Worker :
          pc'[v] # "idle" /\ pc'[w] # "idle" /\ job'[v].msg = job'[w].msg => v = w
    BY DEF AppliedInv
<1>4. /\ \A n \in Message : Written(n)' <= Len(Event[n].lines)
      /\ \A n \in Message \ webhookEvents' : Written(n)' = 0
    BY DEF AppliedInv
<1>5. ASSUME NEW n \in webhookEvents', Event[n].placed, n \notin failed', ~Handling(n)'
      PROVE  Whole(n)'
    <2>1. Whole(n) /\ n \in Message
        BY <1>5 DEF AppliedInv, Handling
    <2>. QED
        BY <2>1 DEF Whole, Finished
<1>. QED
    BY <1>1, <1>2, <1>3, <1>4, <1>5 DEF AppliedInv

LEMMA RecordEventApplied ==
    ASSUME IInv, AppliedInv, NEW w \in Worker, NEW m \in Message, RecordEvent(w, m)
    PROVE  AppliedInv'
<1>1. LocalType /\ SharedType /\ pc[w] = "idle"
    BY TypeParts DEF IInv, RecordEvent
<1>2. UNCHANGED <<call, transcript, failed>>
    BY DEF RecordEvent, history
<1>3. /\ Known => Known'
      /\ Closed => Closed'
      /\ \A n \in Message : Written(n)' = Written(n)
    BY <1>2 DEF Known, Closed, Written, LinesOf
<1>4. CASE m \in webhookEvents
    <2>1. UNCHANGED <<webhookEvents, pc, job>> /\ answered' \subseteq webhookEvents
        BY <1>4 DEF RecordEvent, AppliedInv
    <2>. QED
        BY <1>1, <1>2, <1>3, <2>1, OthersApply DEF SharedType
<1>5. CASE m \notin webhookEvents
    <2> DEFINE j == [NoJob EXCEPT !.msg = m, !.pending = Event[m].lines]
    <2>1. j.msg = m
        BY DEF NoJob
    <2>2. pc' = [pc EXCEPT ![w] = "upsert"] /\ job' = [job EXCEPT ![w] = j]
            /\ webhookEvents' = webhookEvents \cup {m} /\ UNCHANGED answered
        BY <1>5 DEF RecordEvent
    <2> HIDE DEF j
    <2>3. pc'[w] = "upsert" /\ job'[w].msg = m
        BY <1>1, <2>1, <2>2 DEF LocalType
    <2>4. ASSUME NEW v \in Worker, v # w PROVE pc'[v] = pc[v] /\ job'[v] = job[v]
        BY <1>1, <2>2, <2>4 DEF LocalType
    <2>5. ASSUME NEW v \in Worker, v # w, pc[v] # "idle"
          PROVE  job[v].msg \in Message \ {m} /\ Progress(v)
        BY <1>1, <1>5, <2>5 DEF LocalType, AppliedInv, Progress
    <2>6. ASSUME NEW v \in Worker, pc'[v] # "idle" PROVE Progress(v)'
        <3>1. CASE v = w
            <4>1. Written(m)' = 0
                BY <1>3, <1>5 DEF AppliedInv
            <4>. QED
                BY <2>2, <2>3, <3>1, <4>1 DEF Progress
        <3>2. CASE v # w
            <4>1. PICK n \in Message : n = job[v].msg
                BY <2>4, <2>5, <2>6, <3>2
            <4>2. pc'[v] = pc[v] /\ job'[v] = job[v] /\ Written(n)' = Written(n)
                BY <1>3, <2>4, <3>2
            <4>3. Progress(v)
                BY <2>5, <2>6, <3>2, <4>2
            <4>. QED
                BY <1>3, <2>2, <4>1, <4>2, <4>3 DEF Progress
        <3>. QED
            BY <3>1, <3>2
    <2>7. \A u, v \in Worker :
              pc'[u] # "idle" /\ pc'[v] # "idle" /\ job'[u].msg = job'[v].msg => u = v
        BY <2>3, <2>4, <2>5 DEF AppliedInv
    <2>8. \A n \in Message : Written(n)' <= Len(Event[n].lines)
        BY <1>3 DEF AppliedInv
    <2>9. \A n \in Message \ webhookEvents' : Written(n)' = 0
        BY <1>3, <2>2 DEF AppliedInv
    <2>10. ASSUME NEW n \in webhookEvents', Event[n].placed, n \notin failed', ~Handling(n)'
           PROVE  Whole(n)'
        <3>1. n # m
            BY <2>3, <2>10 DEF Handling
        <3>2. n \in webhookEvents /\ n \in Message
            BY <1>1, <2>2, <2>10, <3>1 DEF SharedType
        <3>3. ~Handling(n)
            BY <1>1, <2>4, <2>10 DEF Handling
        <3>4. Whole(n)
            BY <1>2, <2>10, <3>2, <3>3 DEF AppliedInv
        <3>. QED
            BY <1>3, <3>2, <3>4 DEF Whole, Finished
    <2>11. answered' \subseteq webhookEvents'
        BY <2>2 DEF AppliedInv
    <2>. QED
        BY <2>6, <2>7, <2>8, <2>9, <2>10, <2>11 DEF AppliedInv
<1>. QED
    BY <1>4, <1>5

LEMMA WorkerStepApplied ==
    ASSUME IInv, IInv', AppliedInv, [Next]_vars,
           NEW w \in Worker, WorkerStep(w) \/ HandlerDies(w)
    PROVE  AppliedInv'
<1>1. LocalType /\ SharedType /\ LocalType' /\ PlaceInv
    BY TypeParts DEF IInv
<1>2. pc[w] # "idle" /\ pc[w] \in WorkerPc
    BY <1>1 DEF LocalType, WorkerStep, HandlerDies, IgnoreUnknownOrg, UpsertCall, BumpStats,
       CountLines, AppendLine, ReadForFinalize, FinalizeCall
<1>3. PICK m \in Message : job[w].msg = m
    BY <1>1, <1>2 DEF LocalType
<1>4. /\ Known => Known'
      /\ Closed => Closed'
    BY RowOnlyAdvances
<1>5. Progress(w) /\ Written(m) <= Len(Event[m].lines) /\ Written(m) \in Nat
        /\ Len(Event[m].lines) \in Nat /\ job[w] \in Job /\ webhookEvents \subseteq Message
    BY <1>1, <1>2, <1>3, WrittenType, EventFields DEF AppliedInv, SharedType, LocalType
<1>6. ASSUME UNCHANGED transcript PROVE \A n \in Message : Written(n)' = Written(n)
    BY <1>6 DEF Written, LinesOf
(* Every step but a line's: the counts stand, and the worker goes on with  *)
(* the same message, or has answered.                                      *)
<1>7. ASSUME NEW next \in WorkerPc, NEW j \in Job, j.msg = m, j.pending = job[w].pending,
             Continue(w, next, j), UNCHANGED <<webhookEvents, failed, transcript>>,
             next \in {"bumpNew", "count"} => Written(m) = 0,
             next = "count" => Event[m].type # "transcript",
             next = "append" => Written(m) + Len(job[w].pending) = Len(Event[m].lines),
             next \in {"finalize", "end", "bumpEnd"} /\ Event[m].type = "transcript" =>
                 Written(m) = Len(Event[m].lines),
             next = "bumpEnd" => Closed',
             next # "upsert",
             next = "idle" => ~Event[m].placed \/
                 /\ Known
                 /\ Finished(m) => Closed
                 /\ Event[m].type = "transcript" => Written(m) = Len(Event[m].lines)
      PROVE  AppliedInv'
    <2> DEFINE k == IF next = "idle" THEN NoJob ELSE j
    <2>1. /\ pc' = [pc EXCEPT ![w] = next]
          /\ job' = [job EXCEPT ![w] = k]
          /\ answered' \subseteq answered \cup {m}
          /\ next # "idle" => k = j
        BY <1>3, <1>7 DEF Continue
    <2> HIDE DEF k
    <2>2. \A n \in Message : Written(n)' = Written(n)
        BY <1>6, <1>7
    <2>3. next # "idle" => k.msg = m /\ Progress(w)'
        <3>1. SUFFICES ASSUME next # "idle" PROVE k.msg = m /\ Progress(w)'
            OBVIOUS
        <3>2. pc'[w] = next /\ job'[w] = j /\ k.msg = m
            BY <1>1, <1>7, <2>1, <3>1 DEF LocalType
        <3>3. m \in webhookEvents' /\ Written(m)' = Written(m)
            BY <1>3, <1>5, <1>7, <2>2 DEF Progress
        <3>. QED
            BY <1>7, <3>2, <3>3 DEF Progress
    <2>4. next = "idle" => ~Event[m].placed \/ Whole(m)'
        BY <1>4, <1>7, <2>2 DEF Whole, Finished
    <2>5. Written(m)' <= Len(Event[m].lines)
        BY <1>5, <2>2
    <2>. QED
        BY <1>1, <1>2, <1>3, <1>4, <1>5, <1>7, <2>1, <2>2, <2>3, <2>4, <2>5, WorkerApplies
<1>8. AfterLines(m) = IF Finished(m) THEN "finalize" ELSE "idle"
    BY DEF AfterLines
<1>9. CASE IgnoreUnknownOrg(w)
    <2>1. Continue(w, "idle", job[w]) /\ ~Event[m].placed
            /\ UNCHANGED <<webhookEvents, failed, transcript>>
        BY <1>3, <1>9 DEF IgnoreUnknownOrg, tables, history
    <2>. QED
        BY <1>3, <1>5, <1>7, <2>1 DEF WorkerPc
<1>10. ASSUME pc[w] \in {"upsert", "bumpNew"}, Known'
       PROVE  /\ AfterUpsert(m) \in {"idle", "finalize", "append", "count"}
              /\ Written(m) = 0
              /\ AfterUpsert(m) = "count" => Event[m].type # "transcript"
              /\ AfterUpsert(m) = "append" =>
                     Written(m) + Len(job[w].pending) = Len(Event[m].lines)
              /\ AfterUpsert(m) \in {"idle", "finalize"} =>
                     /\ Written(m) = Len(Event[m].lines)
                     /\ AfterUpsert(m) = "idle" => ~Finished(m)
    <2>1. Written(m) = 0 /\ job[w].pending = Event[m].lines
        BY <1>1, <1>3, <1>5, <1>10 DEF Progress, PlaceInv
    <2>2. Event[m].lines = <<>> => Len(Event[m].lines) = 0
        OBVIOUS
    <2>. QED
        BY <1>5, <2>1, <2>2 DEF AfterUpsert, AfterLines
<1>11. CASE UpsertCall(w)
    <2>1. UNCHANGED <<webhookEvents, failed, transcript>> /\ pc[w] = "upsert"
        BY <1>11 DEF UpsertCall
    <2>2. Written(m) = 0
        BY <1>3, <1>5, <2>1 DEF Progress
    <2>3. CASE Known
        <3>1. Continue(w, AfterUpsert(m), job[w]) /\ Known'
            BY <1>3, <1>4, <1>11, <2>3 DEF UpsertCall
        <3>. QED
            BY <1>3, <1>5, <1>7, <1>10, <2>1, <2>3, <3>1 DEF WorkerPc
    <2>4. CASE ~Known
        <3>1. Continue(w, "bumpNew", job[w])
            BY <1>11, <2>4 DEF UpsertCall
        <3>. QED
            BY <1>3, <1>5, <1>7, <2>1, <2>2, <3>1 DEF WorkerPc
    <2>. QED
        BY <2>3, <2>4
<1>12. CASE BumpStats(w)
    <2>1. UNCHANGED <<webhookEvents, failed, transcript>> /\ Known
        BY <1>1, <1>12 DEF BumpStats, PlaceInv
    <2>2. CASE pc[w] = "bumpNew" /\ Continue(w, AfterUpsert(m), job[w])
        BY <1>3, <1>4, <1>5, <1>7, <1>10, <2>1, <2>2 DEF WorkerPc
    <2>3. CASE pc[w] = "bumpEnd" /\ Continue(w, "idle", job[w])
        BY <1>3, <1>5, <1>7, <2>1, <2>3 DEF WorkerPc, Progress
    <2>. QED
        BY <1>3, <1>12, <2>2, <2>3 DEF BumpStats
<1>13. CASE CountLines(w)
    <2>1. /\ UNCHANGED <<webhookEvents, failed, transcript>>
          /\ pc[w] = "count"
          /\ Continue(w, IF HasSpokenLines THEN AfterLines(m) ELSE "append", job[w])
        BY <1>3, <1>13 DEF CountLines, tables, history
    <2>2. Written(m) = 0 /\ Known /\ job[w].pending = Event[m].lines
        BY <1>1, <1>3, <1>5, <2>1 DEF Progress, PlaceInv
    <2>3. Event[m].type # "transcript"
        BY <1>3, <1>5, <2>1 DEF Progress
    <2>. QED
        BY <1>3, <1>5, <1>7, <1>8, <2>1, <2>2, <2>3 DEF WorkerPc
<1>14. CASE ReadForFinalize(w)
    <2> DEFINE j == [job[w] EXCEPT !.sawTakeover = (call.takenOverBy # None)]
    <2>1. j \in Job /\ j.msg = m /\ j.pending = job[w].pending
        BY <1>3, <1>5 DEF Job
    <2>2. /\ UNCHANGED <<webhookEvents, failed, transcript>>
          /\ pc[w] = "finalize"
          /\ Continue(w, "end", j)
        BY <1>14 DEF ReadForFinalize, tables, history
    <2>3. Event[m].type = "transcript" => Written(m) = Len(Event[m].lines)
        BY <1>3, <1>5, <2>2 DEF Progress
    <2> HIDE DEF j
    <2>. QED
        BY <1>7, <2>1, <2>2, <2>3 DEF WorkerPc
<1>15. CASE FinalizeCall(w)
    <2>1. /\ UNCHANGED <<webhookEvents, failed, transcript>>
          /\ pc[w] = "end"
          /\ Continue(w, "bumpEnd", job[w])
        BY <1>15 DEF FinalizeCall
    <2>2. Event[m].type = "transcript" => Written(m) = Len(Event[m].lines)
        BY <1>3, <1>5, <2>1 DEF Progress
    <2>3. Closed'
        <3>1. call' = Finalized(m, job[w].sawTakeover) /\ job[w].sawTakeover \in BOOLEAN
            BY <1>3, <1>5, <1>15 DEF FinalizeCall, Job
        <3>. QED
            BY <1>1, <3>1, FinalizedType DEF Closed, SharedType
    <2>. QED
        BY <1>3, <1>5, <1>7, <2>1, <2>2, <2>3 DEF WorkerPc
<1>16. CASE AppendLine(w)
    <2> DEFINE rest == Tail(job[w].pending)
               next == IF rest = <<>> THEN AfterLines(m) ELSE "append"
               j == [job[w] EXCEPT !.pending = rest]
               k == IF next = "idle" THEN NoJob ELSE j
               e == [from |-> m, line |-> Head(job[w].pending)]
    <2>1. /\ UNCHANGED <<webhookEvents, failed>>
          /\ pc[w] = "append"
          /\ transcript' = Append(transcript, e)
          /\ Continue(w, next, j)
        BY <1>3, <1>16 DEF AppendLine, history
    <2>2. job[w].pending \in Seq(Utterance) /\ job[w].pending # <<>> /\ Known
        BY <1>1, <1>5, <2>1 DEF Job, PlaceInv
    <2>3. /\ rest \in Seq(Utterance)
          /\ Len(job[w].pending) = Len(rest) + 1
          /\ Head(job[w].pending) \in Utterance
          /\ rest = <<>> => Len(rest) = 0
        <3>1. \A q \in Seq(Utterance) : q # <<>> =>
                  /\ Tail(q) \in Seq(Utterance)
                  /\ Len(q) = Len(Tail(q)) + 1
                  /\ Head(q) \in Utterance
            OBVIOUS
        <3>2. Len(<<>>) = 0
            OBVIOUS
        <3>. QED
            BY <2>2, <3>1, <3>2
    <2>4. e \in Entry /\ e.from = m
        BY <2>3 DEF Entry
    <2>5. j \in Job /\ j.msg = m /\ j.pending = rest
        BY <1>3, <1>5, <2>3 DEF Job
    <2>6. Written(m) + Len(job[w].pending) = Len(Event[m].lines)
        BY <1>3, <1>5, <2>1 DEF Progress
    <2>7. /\ pc' = [pc EXCEPT ![w] = next]
          /\ job' = [job EXCEPT ![w] = k]
          /\ answered' \subseteq answered \cup {m}
          /\ next # "idle" => k = j
        BY <1>3, <2>1 DEF Continue
    <2>8. next \in {"idle", "finalize", "append"} /\ (next # "append" => rest = <<>>)
            /\ (next = "append" => rest # <<>>) /\ (next = "idle" => ~Finished(m))
        BY <1>8
    <2> HIDE DEF e, j, k, next, rest
    <2>9. Written(m)' = Written(m) + 1
        BY <1>1, <2>1, <2>4, AppendCounts DEF SharedType
    <2>10. ASSUME NEW n \in Message \ {m} PROVE Written(n)' = Written(n)
        BY <1>1, <2>1, <2>4, AppendCounts DEF SharedType
    <2>11. /\ Written(m)' + Len(rest) = Len(Event[m].lines)
           /\ Len(rest) \in Nat
           /\ Written(m)' \in Nat
        BY <1>5, <2>3, <2>6, <2>9
    <2>12. next # "append" => Written(m)' = Len(Event[m].lines)
        BY <2>3, <2>8, <2>11
    <2>13. Written(m)' <= Len(Event[m].lines)
        BY <1>5, <2>11
    <2>14. next # "idle" => k.msg = m /\ Progress(w)'
        <3>1. SUFFICES ASSUME next # "idle" PROVE k.msg = m /\ Progress(w)'
            OBVIOUS
        <3>2. pc'[w] = next /\ job'[w] = j /\ k.msg = m
            BY <1>1, <2>5, <2>7, <3>1 DEF LocalType
        <3>3. m \in webhookEvents'
            BY <1>3, <1>5, <2>1 DEF Progress
        <3>. QED
            BY <2>5, <2>8, <2>11, <2>12, <3>2, <3>3 DEF Progress
    <2>15. next = "idle" => Whole(m)'
        BY <1>4, <2>2, <2>8, <2>12 DEF Whole, Finished
    <2>. QED
        BY <1>1, <1>2, <1>3, <1>4, <1>5, <2>1, <2>7, <2>10, <2>13, <2>14, <2>15, WorkerApplies
<1>17. CASE HandlerDies(w)
    <2>1. /\ UNCHANGED <<webhookEvents, transcript, answered>>
          /\ failed' = failed \cup {m}
          /\ pc' = [pc EXCEPT ![w] = "idle"]
          /\ job' = [job EXCEPT ![w] = NoJob]
        BY <1>3, <1>17 DEF HandlerDies, tables
    <2>2. \A n \in Message : Written(n)' = Written(n)
        BY <1>6, <2>1
    <2>. QED
        BY <1>1, <1>2, <1>3, <1>4, <1>5, <2>1, <2>2, WorkerApplies
<1>. QED
    BY <1>9, <1>11, <1>12, <1>13, <1>14, <1>15, <1>16, <1>17 DEF WorkerStep

LEMMA AppliedStep ==
    ASSUME IInv, IInv', AppliedInv, [Next]_vars
    PROVE  AppliedInv'
<1>1. LocalType /\ SharedType
    BY TypeParts DEF IInv
<1>2. /\ Known => Known'
      /\ Closed => Closed'
    BY RowOnlyAdvances
<1>3. answered \subseteq webhookEvents /\ webhookEvents \subseteq Message
    BY <1>1 DEF AppliedInv, SharedType
<1>4. ASSUME NEW s \in Staff,
             StartTakeover(s) \/ StartEndCall(s) \/ StaffStep(s) \/ RequestDies(s)
      PROVE  AppliedInv'
    <2>1. /\ UNCHANGED <<webhookEvents, job, failed, answered>>
          /\ \E next : StaffGoesTo(s, next)
        BY <1>4 DEF StaffStep, StartTakeover, StartEndCall, TransferCall, HangUp,
           MarkTransferring, MarkEnded, BumpEnded, NoteInTranscript, RequestDies,
           tables, history
    <2>2. \A w \in Worker : pc'[w] = pc[w]
        BY <1>1, <2>1 DEF StaffGoesTo, LocalType
    <2>3. ASSUME NEW n \in Message PROVE Written(n)' = Written(n)
        <3>1. CASE NoteInTranscript(s)
            <4> DEFINE e == [from |-> s,
                             line |-> IF pc[s] = "noteEnded" THEN "ended" ELSE "took over"]
            <4>1. e \in Entry /\ e.from = s /\ transcript' = Append(transcript, e)
                BY <3>1 DEF NoteInTranscript, Entry
            <4> HIDE DEF e
            <4>2. s # n
                OBVIOUS
            <4>. QED
                BY <1>1, <4>1, <4>2, AppendCounts DEF SharedType
        <3>2. CASE ~NoteInTranscript(s)
            <4>1. UNCHANGED transcript
                BY <1>4, <3>2 DEF StaffStep, StartTakeover, StartEndCall, TransferCall,
                   HangUp, MarkTransferring, MarkEnded, BumpEnded, RequestDies, tables
            <4>. QED
                BY <4>1 DEF Written, LinesOf
        <3>. QED
            BY <3>1, <3>2
    <2>. QED
        BY <1>2, <1>3, <2>1, <2>2, <2>3, OthersApply
<1>5. CASE CallerHangsUp \/ UNCHANGED vars
    <2>1. UNCHANGED <<webhookEvents, job, failed, answered, pc, transcript>>
        BY <1>5 DEF CallerHangsUp, vars, tables, history
    <2>2. \A n \in Message : Written(n)' = Written(n)
        BY <2>1 DEF Written, LinesOf
    <2>. QED
        BY <1>2, <1>3, <2>1, <2>2, OthersApply
<1>. QED
    BY <1>4, <1>5, RecordEventApplied, WorkerStepApplied DEF Next

THEOREM AppliedInvariance == Spec => []AppliedInv
BY InitApplied, AppliedStep, NextIInv, Invariance, PTL DEF Spec

(* A message that was answered 200, names the client and was not dropped   *)
(* by a handler that died has had its whole effect on the row and the      *)
(* transcript, though the duplicate check answers before the work is done  *)
(* (webhook.ts:49-56).                                                     *)
THEOREM AnsweredIsAlwaysApplied == Spec => []AnsweredIsApplied
<1>1. AppliedInv => AnsweredIsApplied
    BY DEF AppliedInv, AnsweredIsApplied, Whole, Written, LinesOf
<1>. QED
    BY <1>1, AppliedInvariance, PTL

(* No number of retries or concurrent deliveries writes a message's lines  *)
(* twice.                                                                  *)
THEOREM RetriesNeverDuplicateLines == Spec => []NoRetryDuplicatesLines
<1>1. AppliedInv => NoRetryDuplicatesLines
    BY DEF AppliedInv, NoRetryDuplicatesLines, Written, LinesOf
<1>. QED
    BY <1>1, AppliedInvariance, PTL
=============================================================================
