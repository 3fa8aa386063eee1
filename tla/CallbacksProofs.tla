-------------------------- MODULE CallbacksProofs --------------------------
(***************************************************************************)
(* Proofs about Callbacks, for every number of leads, runs, attempts and   *)
(* failures and every waiting time, as long as no run outlives half of the *)
(* wait before a retry (RetryOutlastsRuns) and no two later runs start     *)
(* while one places its calls (the guard of StartRun).                     *)
(*                                                                         *)
(* A PATCH only asks for the status, so it cannot tell one call in         *)
(* progress from the next call of the same lead.  What it relies on is     *)
(* that no run still holds a row of the attempt before when the lead is    *)
(* claimed again.  ShapeInv says what a run holds at each of its steps;    *)
(* CopyInv what the rows it holds have in common with the table; LeadInv   *)
(* that a lead in the queue has only calls that went unanswered;           *)
(* CallerInv that one run at most is about to call a lead, and only while  *)
(* the row is its own; FollowedInv that a run with a row to follow up      *)
(* holds the call the table names, or can change nothing any more;         *)
(* DueInv that a run with a row to call shares it with one such run at     *)
(* most; MailInv that one run at most is about to write to Kamva.          *)
(***************************************************************************)
EXTENDS Callbacks, FiniteSetTheorems, TLAPS

InQueue == {"pending", "calling"}

(* r may still decide about the call in copy c.                            *)
Follows(r, c) ==
    /\ run[r].phase = "following"
    /\ \/ c \in run[r].todo
       \/ run[r].step = "patch" /\ c = run[r].row

(* r may still claim lead l.                                               *)
Plans(r, l) ==
    /\ run[r].phase = "calling"
    /\ \/ \E c \in run[r].todo : c.lead = l
       \/ run[r].step = "claim" /\ run[r].row.lead = l

(* r has claimed lead l and not yet said how its call went.                *)
Calls(r, l) ==
    /\ \/ run[r].step \in {"post", "save"}
       \/ run[r].step = "patch" /\ run[r].verdict \in {"backOff", "failStart"}
    /\ run[r].row.lead = l

Holds(r, c) ==
    \/ c \in run[r].todo
    \/ run[r].step # "loop" /\ c = run[r].row

Quiet(l) == \A i \in 1 .. Len(calls[l]) : calls[l][i] = "silent"

VerdictsIn(phase) ==
    CASE phase = "following" -> {"giveUp", "requeue", "completed", "no_answer"}
      [] phase = "stale"     -> {"skipped"}
      [] phase = "calling"   -> {"skipped", "backOff", "failStart"}
      [] OTHER               -> {}

Shape(r) ==
    /\ run[r].step \in {"claim", "post", "save"} =>
           run[r].phase = "calling" /\ run[r].budget > 0
    /\ run[r].step = "patch" => run[r].verdict \in VerdictsIn(run[r].phase)
    /\ run[r].seen => run[r].phase = "calling"
    /\ run[r].phase = "off" => run[r].step = "loop"
    /\ \A c, d \in run[r].todo : c.lead = d.lead => c = d
    /\ run[r].step # "loop" => \A c \in run[r].todo : c.lead # run[r].row.lead

ShapeInv == \A r \in Run : Shape(r)

CopyInv ==
    \A r \in Run, c \in Copy : Holds(r, c) =>
        /\ c.contacted => c.lead \in contacted
        /\ c.attempts <= Len(calls[c.lead])
        /\ c.callId <= Len(calls[c.lead])
        /\ run[r].phase = "following" /\ c.callId > 0 => c.attempts <= c.callId

LeadInv ==
    \A l \in Lead :
        /\ lead[l].status \in InQueue => lead[l].attempts <= Len(calls[l])
        /\ lead[l].status = "pending" => Quiet(l)
        /\ lead[l].status = "calling" /\ lead[l].callId > 0 =>
               /\ lead[l].callId = Len(calls[l])
               /\ lead[l].attempts <= lead[l].callId

CallerInv ==
    \A r \in Run, l \in Lead : Calls(r, l) =>
        /\ lead[l].status \in InQueue => lead[l].status = "calling" /\ lead[l].callId = 0
        /\ \A s \in Run : Calls(s, l) => s = r
        /\ run[r].step = "save" =>
               run[r].callId = Len(calls[l]) /\ run[r].row.attempts < run[r].callId
        /\ run[r].step = "post" => Quiet(l)
        /\ run[r].step = "patch" /\ run[r].verdict = "backOff" => Quiet(l)

FollowedInv ==
    \A r \in Run, c \in Copy : Follows(r, c) /\ c.callId > 0 =>
        \/ lead[c.lead].status = "calling" /\ lead[c.lead].callId = c.callId
        \/ lead[c.lead].status = "pending" /\ lead[c.lead].nextIn > MaxRun - run[r].late
           /\ \A s \in Run : ~Plans(s, c.lead)
        \/ lead[c.lead].status \in Settled

HeardInv ==
    \A r \in Run : run[r].step = "patch" =>
        /\ run[r].verdict \in {"requeue", "no_answer"} =>
               run[r].row.callId > 0 /\ calls[run[r].row.lead][run[r].row.callId] = "silent"
        /\ run[r].verdict = "no_answer" => run[r].row.attempts >= MAX_ATTEMPTS

DueInv ==
    \A r, s \in Run, c \in Copy :
        Plans(s, c.lead) /\ Follows(r, c) /\ c.callId > 0 /\ lead[c.lead].status = "calling" =>
            /\ run[s].seen
            /\ \A t \in Run, d \in Copy :
                   Follows(t, d) /\ d.callId > 0 /\ d.lead = c.lead => t = r

Telling(r, l) == run[r].step = "tell" /\ run[r].row.lead = l

Mail(l) ==
    /\ told[l] <= 1
    /\ told[l] = 1 => lead[l].status \in Settled
    /\ lead[l].status \in Settled /\ told[l] = 0 =>
           \/ l \in unmailed
           \/ lead[l].status = "skipped" /\ l \in contacted
           \/ \E r \in Run : Telling(r, l)
    /\ \A r \in Run : Telling(r, l) =>
           /\ lead[l].status \in Settled
           /\ told[l] = 0
           /\ \A s \in Run : Telling(s, l) => s = r

MailInv == \A l \in Lead : Mail(l)

IInv ==
    /\ TypeOK
    /\ ShapeInv
    /\ CopyInv
    /\ LeadInv
    /\ CallerInv
    /\ FollowedInv
    /\ HeardInv
    /\ DueInv
    /\ RetriedOnlyAfterNoAnswer
    /\ NoAnswerMeansTwice
    /\ MailInv

-----------------------------------------------------------------------------
(* What the operators of Callbacks do to a row, a run and the table        *)

LEMMA Numbers ==
    /\ MaxRun \in Nat /\ RETRY_AFTER \in Nat /\ VAPI_DOWN_RETRY \in Nat
    /\ STUCK_AFTER \in Nat /\ DAILY_PEOPLE_CAP \in Nat /\ MAX_ATTEMPTS \in Nat
    /\ LOST_AFTER \in Nat /\ MaxFailures \in Nat
    /\ Ages \in Nat /\ MaxRun < Ages
    /\ IsFiniteSet(Lead)
<1>1. {RETRY_AFTER, VAPI_DOWN_RETRY, STUCK_AFTER, DAILY_PEOPLE_CAP, MAX_ATTEMPTS,
       LOST_AFTER, MaxRun, MaxFailures} \subseteq Nat /\ IsFiniteSet(Lead)
  BY CallbacksAssumption
<1>2. QED  BY <1>1 DEF Ages

LEMMA OffType == Off \in RunState
BY Numbers DEF Off, RunState, Phase, Step, Verdict, Settled

LEMMA LoopingType ==
    ASSUME TypeOK, NEW r \in Run
    PROVE  /\ Looping(r) \in RunState
           /\ Looping(r).step = "loop" /\ Looping(r).verdict = "none"
           /\ Looping(r).phase = run[r].phase /\ Looping(r).todo = run[r].todo
           /\ Looping(r).late = run[r].late /\ Looping(r).seen = run[r].seen
           /\ Looping(r).budget = run[r].budget
<1>1. run[r] \in RunState  BY DEF TypeOK
<1>2. "loop" \in Step /\ "none" \in Verdict /\ 0 \in Nat  BY DEF Step, Verdict
<1>3. QED  BY <1>1, <1>2 DEF Looping, RunState

LEMMA DecidingType ==
    ASSUME TypeOK, NEW r \in Run, NEW row \in run[r].todo, NEW v \in Verdict
    PROVE  /\ row \in Copy /\ row.lead \in Lead
           /\ Deciding(r, row, v) \in RunState
           /\ Deciding(r, row, v).step = "patch" /\ Deciding(r, row, v).verdict = v
           /\ Deciding(r, row, v).row = row
           /\ Deciding(r, row, v).phase = run[r].phase
           /\ Deciding(r, row, v).todo = run[r].todo \ {row}
           /\ Deciding(r, row, v).late = run[r].late
           /\ Deciding(r, row, v).seen = run[r].seen
           /\ Deciding(r, row, v).budget = run[r].budget
<1>1. run[r] \in RunState  BY DEF TypeOK
<1>2. row \in Copy  BY <1>1 DEF RunState
<1>3. row.lead \in Lead  BY <1>2 DEF Copy
<1>4. "patch" \in Step  BY DEF Step
<1>5. run[r].todo \ {row} \in SUBSET Copy /\ row \in Copy \cup {None}
  BY <1>1, <1>2 DEF RunState
<1>6. QED  BY <1>1, <1>2, <1>3, <1>4, <1>5 DEF Deciding, RunState

LEMMA ReadType ==
    ASSUME TypeOK, NEW S \in SUBSET Lead, NEW late \in 0 .. MaxRun
    PROVE  /\ Read(S, late) \in SUBSET Copy
           /\ \A c \in Read(S, late) :
                  /\ c.lead \in S /\ c.attempts = lead[c.lead].attempts
                  /\ c.callId = lead[c.lead].callId
                  /\ c.contacted = (c.lead \in contacted)
           /\ \A c, d \in Read(S, late) : c.lead = d.lead => c = d
<1>1. ASSUME NEW l \in S
      PROVE  [lead |-> l, attempts |-> lead[l].attempts, callId |-> lead[l].callId,
              age |-> lead[l].age - late, contacted |-> l \in contacted] \in Copy
  <2>1. lead[l] \in LeadRow /\ l \in Lead  BY DEF TypeOK
  <2>2. lead[l].attempts \in Nat /\ lead[l].callId \in Nat /\ lead[l].age \in 0 .. Ages
    BY <2>1 DEF LeadRow
  <2>3. lead[l].age - late \in Int  BY <2>2, Numbers
  <2>4. QED  BY <2>1, <2>2, <2>3 DEF Copy
<1>2. QED  BY <1>1 DEF Read

LEMMA Gone ==
    ASSUME TypeOK, NEW r \in Run, NEW new \in RunState, Goes(r, new)
    PROVE  /\ run' \in [Run -> RunState]
           /\ run'[r] = new
           /\ \A s \in Run : s # r => run'[s] = run[s]
BY DEF TypeOK, Goes

LEMMA Updated ==
    ASSUME TypeOK, NEW l \in Lead, NEW from, NEW new \in LeadRow, updateLead(l, from, new)
    PROVE  /\ lead' \in [Lead -> LeadRow]
           /\ \A k \in Lead : k # l => lead'[k] = lead[k]
           /\ lead[l].status = from => lead'[l] = new
           /\ lead[l].status # from => lead'[l] = lead[l]
BY DEF TypeOK, updateLead

(* The run that is at work on a row.                                       *)
LEMMA AtWork ==
    ASSUME TypeOK, NEW r \in Run, run[r].step # "loop"
    PROVE  /\ run[r] \in RunState /\ run[r].row \in Copy
           /\ run[r].row.lead \in Lead /\ run[r].row.attempts \in Nat
           /\ run[r].row.callId \in Nat /\ run[r].row.contacted \in BOOLEAN
           /\ run[r].late \in 0 .. MaxRun /\ run[r].callId \in Nat
           /\ lead[run[r].row.lead] \in LeadRow
<1>1. run[r] \in RunState /\ run[r].row \in Copy  BY DEF TypeOK
<1>2. run[r].row.lead \in Lead /\ run[r].row.attempts \in Nat
      /\ run[r].row.callId \in Nat /\ run[r].row.contacted \in BOOLEAN
  BY <1>1 DEF Copy
<1>3. run[r].late \in 0 .. MaxRun /\ run[r].callId \in Nat  BY <1>1 DEF RunState
<1>4. lead[run[r].row.lead] \in LeadRow  BY <1>2 DEF TypeOK
<1>5. QED  BY <1>1, <1>2, <1>3, <1>4

LEMMA ClaimedType ==
    ASSUME TypeOK, NEW r \in Run, run[r].step # "loop"
    PROVE  /\ ClaimedRow(r) \in LeadRow /\ ClaimedRow(r).status = "calling"
           /\ ClaimedRow(r).callId = 0
           /\ ClaimedRow(r).attempts = lead[run[r].row.lead].attempts
<1>1. lead[run[r].row.lead] \in LeadRow /\ run[r].late \in 0 .. MaxRun  BY AtWork
<1>2. "calling" \in LeadStatus /\ run[r].late \in 0 .. Ages
  BY <1>1, Numbers DEF LeadStatus
<1>3. QED  BY <1>1, <1>2 DEF ClaimedRow, LeadRow

LEMMA SavedType ==
    ASSUME TypeOK, NEW r \in Run, run[r].step # "loop"
    PROVE  /\ SavedRow(r) \in LeadRow
           /\ SavedRow(r).status = lead[run[r].row.lead].status
           /\ SavedRow(r).callId = run[r].callId
           /\ SavedRow(r).attempts = run[r].row.attempts + 1
<1>1. lead[run[r].row.lead] \in LeadRow /\ run[r].callId \in Nat
      /\ run[r].row.attempts + 1 \in Nat
  BY AtWork
<1>2. QED  BY <1>1 DEF SavedRow, LeadRow

LEMMA PatchedType ==
    ASSUME TypeOK, ShapeInv, NEW r \in Run, run[r].step = "patch"
    PROVE  LET p == Patched(r)
               l == run[r].row.lead
               v == run[r].verdict
           IN /\ p \in LeadRow
              /\ v \in {"giveUp", "requeue", "completed", "no_answer", "skipped",
                         "backOff", "failStart"}
              /\ v \in {"requeue", "backOff"} => p.status = "pending"
              /\ v \notin {"requeue", "backOff"} => p.status \in Settled
              /\ p.status = "no_answer" <=> v = "no_answer"
              /\ p.status = "skipped" <=> v = "skipped"
              /\ v # "failStart" => p.attempts = lead[l].attempts
              /\ p.callId \in {0, lead[l].callId}
              /\ v = "requeue" => p.nextIn = RETRY_AFTER - run[r].late
<1> DEFINE l == run[r].row.lead
<1> DEFINE v == run[r].verdict
<1>1. v \in {"giveUp", "requeue", "completed", "no_answer", "skipped",
             "backOff", "failStart"}
  BY DEF ShapeInv, Shape, VerdictsIn
<1>2. /\ lead[l] \in LeadRow /\ run[r].row.attempts + 1 \in Nat
      /\ RETRY_AFTER - run[r].late \in Int /\ VAPI_DOWN_RETRY - run[r].late \in Int
  BY AtWork, Numbers
<1>3. {"failed", "pending", "completed", "no_answer", "skipped"} \subseteq LeadStatus
      /\ {"failed", "completed", "no_answer", "skipped"} \subseteq Settled
      /\ "pending" \notin Settled
  BY DEF LeadStatus, Settled
<1>4. CASE v = "giveUp"
  <2>1. Patched(r) = [lead[l] EXCEPT !.status = "failed"]  BY <1>4 DEF Patched
  <2>2. QED  BY <2>1, <1>2, <1>3, <1>4 DEF LeadRow
<1>5. CASE v = "failStart"
  <2>1. Patched(r) = [lead[l] EXCEPT !.status = "failed", !.attempts = run[r].row.attempts + 1]
    BY <1>5 DEF Patched
  <2>2. QED  BY <2>1, <1>2, <1>3, <1>5 DEF LeadRow
<1>6. CASE v = "requeue"
  <2>1. Patched(r) = [lead[l] EXCEPT !.status = "pending", !.callId = 0,
                                     !.nextIn = RETRY_AFTER - run[r].late]
    BY <1>6, <1>2 DEF Patched, LeadRow
  <2>2. Patched(r) \in LeadRow
    <3>1. [lead[l] EXCEPT !.status = "pending"] \in LeadRow  BY <1>2, <1>3 DEF LeadRow
    <3>2. [lead[l] EXCEPT !.status = "pending", !.callId = 0] \in LeadRow
      BY <1>2, <3>1 DEF LeadRow
    <3>3. \A x \in LeadRow : [x EXCEPT !.nextIn = RETRY_AFTER - run[r].late] \in LeadRow
      BY <1>2 DEF LeadRow
    <3>4. Patched(r) = [[lead[l] EXCEPT !.status = "pending", !.callId = 0]
                            EXCEPT !.nextIn = RETRY_AFTER - run[r].late]
      BY <2>1
    <3>5. QED  BY <3>2, <3>3, <3>4
  <2>3. Patched(r).status = "pending" /\ Patched(r).callId = 0
        /\ Patched(r).nextIn = RETRY_AFTER - run[r].late
        /\ Patched(r).attempts = lead[l].attempts
    BY <2>1, <1>2 DEF LeadRow
  <2>4. QED  BY <2>2, <2>3, <1>3, <1>6
<1>7. CASE v = "backOff"
  <2>1. Patched(r) = [lead[l] EXCEPT !.status = "pending",
                                     !.nextIn = VAPI_DOWN_RETRY - run[r].late]
    BY <1>7 DEF Patched
  <2>2. QED  BY <2>1, <1>2, <1>3, <1>7 DEF LeadRow
<1>8. CASE v \in {"completed", "no_answer", "skipped"}
  <2>1. Patched(r) = [lead[l] EXCEPT !.status = v]  BY <1>8 DEF Patched
  <2>2. QED  BY <2>1, <1>2, <1>3, <1>8 DEF LeadRow
<1>9. QED  BY <1>1, <1>4, <1>5, <1>6, <1>7, <1>8

-----------------------------------------------------------------------------
(* What a run does to itself.  Most steps only let go of rows.             *)

Narrows(r) ==
    /\ run' \in [Run -> RunState]
    /\ \A s \in Run : s # r => run'[s] = run[s]
    /\ run'[r].step # "loop" => run'[r].row \in Copy
    /\ run'[r].todo \subseteq run[r].todo
    /\ \A c \in Copy : Holds(r, c)' => Holds(r, c)
    /\ \A c \in Copy : Follows(r, c)' => Follows(r, c)
    /\ \A l \in Lead : Plans(r, l)' => Plans(r, l)
    /\ run'[r].phase \in {run[r].phase, "due", "off"}
    /\ run'[r].phase # "off" => run'[r].late = run[r].late /\ run'[r].seen = run[r].seen

LEMMA EndsNarrow ==
    ASSUME TypeOK, NEW r \in Run, Goes(r, Off)
    PROVE  Narrows(r) /\ Shape(r)' /\ run'[r].step = "loop"
<1>1. /\ run' \in [Run -> RunState] /\ run'[r] = Off
      /\ \A s \in Run : s # r => run'[s] = run[s]
  BY OffType, Gone
<1>2. Off.step = "loop" /\ Off.todo = {} /\ Off.phase = "off" /\ Off.seen = FALSE
  BY DEF Off
<1>3. Narrows(r)  BY <1>1, <1>2 DEF Narrows, Holds, Follows, Plans
<1>4. Shape(r)'  BY <1>1, <1>2 DEF Shape
<1>5. QED  BY <1>1, <1>2, <1>3, <1>4

(* The run is done with its row.                                           *)
LEMMA LoopsNarrow ==
    ASSUME TypeOK, ShapeInv, NEW r \in Run, NEW y \in RunState, Goes(r, y),
           y.step = "loop", y.phase = run[r].phase, y.todo \subseteq run[r].todo,
           y.late = run[r].late, y.seen = run[r].seen
    PROVE  Narrows(r) /\ Shape(r)' /\ run'[r] = y
<1>1. /\ run' \in [Run -> RunState] /\ run'[r] = y
      /\ \A s \in Run : s # r => run'[s] = run[s]
  BY Gone
<1>2. Narrows(r)  BY <1>1 DEF Narrows, Holds, Follows, Plans
<1>3. Shape(r)'  BY <1>1 DEF Shape, ShapeInv
<1>4. QED  BY <1>1, <1>2, <1>3

(* It takes a row from its list.                                           *)
LEMMA TakesNarrow ==
    ASSUME TypeOK, ShapeInv, NEW r \in Run, NEW y \in RunState, Goes(r, y),
           NEW row \in run[r].todo, run[r].step = "loop",
           y.phase = run[r].phase, y.row = row, y.todo = run[r].todo \ {row},
           y.late = run[r].late, y.seen = run[r].seen,
           \/ y.step = "patch" /\ y.verdict \in VerdictsIn(y.phase)
           \/ y.step = "claim" /\ y.phase = "calling" /\ y.budget > 0
    PROVE  Narrows(r) /\ Shape(r)' /\ run'[r] = y
<1>1. /\ run' \in [Run -> RunState] /\ run'[r] = y
      /\ \A s \in Run : s # r => run'[s] = run[s]
  BY Gone
<1>2. row \in Copy  BY DEF TypeOK, RunState
<1>3. Narrows(r)  BY <1>1, <1>2 DEF Narrows, Holds, Follows, Plans
<1>4. Shape(r)'
  <2>1. \A c, d \in run[r].todo : c.lead = d.lead => c = d  BY DEF Shape, ShapeInv
  <2>2. \A c \in y.todo : c.lead # row.lead  BY <2>1
  <2>3. y.phase # "off"  BY DEF VerdictsIn
  <2>4. run[r].seen => run[r].phase = "calling"  BY DEF Shape, ShapeInv
  <2>5. QED  BY <1>1, <2>1, <2>2, <2>3, <2>4 DEF Shape
<1>5. QED  BY <1>1, <1>3, <1>4

(* It goes on with the same row.                                           *)
LEMMA StaysNarrow ==
    ASSUME TypeOK, ShapeInv, NEW r \in Run, NEW y \in RunState, Goes(r, y),
           run[r].step # "loop", y.row = run[r].row,
           y.phase = run[r].phase, y.todo = run[r].todo, y.budget = run[r].budget,
           y.late = run[r].late, y.seen = run[r].seen,
           \/ y.step \in {"post", "save"} /\ y.phase = "calling" /\ y.budget > 0
           \/ y.step = "patch" /\ y.phase = "calling" /\ y.verdict \in VerdictsIn("calling")
           \/ y.step = "tell"
    PROVE  Narrows(r) /\ Shape(r)' /\ run'[r] = y
<1>1. /\ run' \in [Run -> RunState] /\ run'[r] = y
      /\ \A s \in Run : s # r => run'[s] = run[s]
  BY Gone
<1>2. run[r].row \in Copy  BY AtWork
<1>3. Narrows(r)  BY <1>1, <1>2 DEF Narrows, Holds, Follows, Plans
<1>4. Shape(r)'  BY <1>1 DEF Shape, ShapeInv
<1>5. QED  BY <1>1, <1>3, <1>4

(* A run that lets go of rows keeps the shape of all runs.                 *)
LEMMA ShapesKept ==
    ASSUME ShapeInv, NEW r \in Run, Narrows(r), Shape(r)'
    PROVE  ShapeInv'
BY DEF ShapeInv, Shape, Narrows

LEMMA FollowUpNarrows ==
    ASSUME TypeOK, ShapeInv, CopyInv, NEW r \in Run, FollowUp(r)
    PROVE  /\ Narrows(r) /\ Shape(r)'
           /\ run'[r].step = "patch" =>
                  \E row \in run[r].todo :
                     /\ run'[r].row = row
                     /\ run'[r].verdict \in {"requeue", "no_answer"} =>
                            /\ row.callId # 0
                            /\ run'[r].verdict = Heard(row, calls[row.lead][row.callId])
<1>1. PICK row \in run[r].todo, verdict \in Verdict :
          /\ IF row.callId = 0 THEN verdict = Unrecorded(row)
             ELSE \/ verdict = Heard(row, calls[row.lead][row.callId])
                  \/ verdict = "giveUp"
                  \/ verdict = "none"
          /\ Goes(r, IF verdict = "none" THEN [run[r] EXCEPT !.todo = @ \ {row}]
                     ELSE Deciding(r, row, verdict))
  BY DEF FollowUp
<1>2. run[r] \in RunState /\ run[r].phase = "following" /\ run[r].step = "loop"
  BY DEF TypeOK, FollowUp, At
<1>3. CASE verdict = "none"
  <2> DEFINE y == [run[r] EXCEPT !.todo = @ \ {row}]
  <2>1. y \in RunState /\ y.step = "loop" /\ y.phase = run[r].phase
        /\ y.todo \subseteq run[r].todo /\ y.late = run[r].late /\ y.seen = run[r].seen
    BY <1>2 DEF RunState
  <2>2. Goes(r, y)  BY <1>1, <1>3
  <2> HIDE DEF y
  <2>3. Narrows(r) /\ Shape(r)' /\ run'[r] = y  BY <2>1, <2>2, LoopsNarrow
  <2>4. QED  BY <2>1, <2>3
<1>4. CASE verdict # "none"
  <2>1. verdict \in {"giveUp", "completed", "requeue", "no_answer"}
    <3>1. CASE row.callId = 0  BY <1>1, <1>4, <3>1 DEF Unrecorded
    <3>2. CASE row.callId # 0
      <4>1. row \in Copy /\ Holds(r, row)  BY <1>2 DEF RunState, Holds
      <4>2. row.lead \in Lead /\ row.callId \in Nat /\ row.callId <= Len(calls[row.lead])
        BY <4>1 DEF Copy, CopyInv
      <4>3. calls[row.lead] \in Seq(CallState)  BY <4>2 DEF TypeOK
      <4>4. calls[row.lead][row.callId] \in CallState  BY <3>2, <4>2, <4>3
      <4>5. verdict \in {"giveUp", Heard(row, calls[row.lead][row.callId])}
        BY <1>1, <1>4, <3>2
      <4>6. Heard(row, calls[row.lead][row.callId])
                \in {"giveUp", "none", "completed", "requeue", "no_answer"}
        BY <4>4 DEF Heard, CallState
      <4>7. QED  BY <1>4, <4>5, <4>6
    <3>3. QED  BY <3>1, <3>2
  <2> DEFINE y == Deciding(r, row, verdict)
  <2>2. /\ y \in RunState /\ y.step = "patch" /\ y.verdict = verdict /\ y.row = row
        /\ y.phase = run[r].phase /\ y.todo = run[r].todo \ {row}
        /\ y.late = run[r].late /\ y.seen = run[r].seen
    BY DecidingType
  <2>3. Goes(r, y)  BY <1>1, <1>4
  <2>4. y.verdict \in VerdictsIn(y.phase)  BY <1>2, <2>1, <2>2 DEF VerdictsIn
  <2> HIDE DEF y
  <2>5. Narrows(r) /\ Shape(r)' /\ run'[r] = y  BY <1>2, <2>2, <2>3, <2>4, TakesNarrow
  <2>6. verdict \in {"requeue", "no_answer"} =>
            row.callId # 0 /\ verdict = Heard(row, calls[row.lead][row.callId])
    BY <1>1 DEF Unrecorded
  <2>7. QED  BY <2>2, <2>5, <2>6
<1>5. QED  BY <1>3, <1>4

LEMMA ReadBudgetNarrows ==
    ASSUME TypeOK, ShapeInv, NEW r \in Run, ReadBudget(r)
    PROVE  Narrows(r) /\ Shape(r)' /\ run'[r].step = "loop"
<1> DEFINE called == Cardinality({l \in Lead : lead[l].age < Ages})
<1> DEFINE budget == IF called >= DAILY_PEOPLE_CAP THEN 0 ELSE DAILY_PEOPLE_CAP - called
<1> DEFINE y == [run[r] EXCEPT !.phase = "due", !.budget = budget]
<1>1. budget \in 0 .. DAILY_PEOPLE_CAP
  <2>1. IsFiniteSet({l \in Lead : lead[l].age < Ages})  BY Numbers, FS_Subset
  <2>2. called \in Nat  BY <2>1, FS_CardinalityType
  <2> HIDE DEF called
  <2>3. QED  BY <2>2, Numbers
<1>2. run[r] \in RunState /\ run[r].phase = "stale" /\ run[r].step = "loop"
      /\ run[r].todo = {}
  BY DEF TypeOK, ReadBudget, At
<1>3. Goes(r, IF budget = 0 THEN Off ELSE y)  BY DEF ReadBudget
<1> HIDE DEF budget
<1>4. CASE budget = 0
  <2>1. Goes(r, Off)  BY <1>3, <1>4
  <2>2. QED  BY <2>1, EndsNarrow
<1>5. CASE budget # 0
  <2>1. y \in RunState /\ y.step = "loop" /\ y.phase = "due" /\ y.todo = {}
        /\ y.late = run[r].late /\ y.seen = run[r].seen
    BY <1>1, <1>2 DEF RunState, Phase
  <2>2. Goes(r, y)  BY <1>3, <1>5
  <2> HIDE DEF y
  <2>3. /\ run' \in [Run -> RunState] /\ run'[r] = y
        /\ \A s \in Run : s # r => run'[s] = run[s]
    BY <2>1, <2>2, Gone
  <2>4. Narrows(r)  BY <2>1, <2>3 DEF Narrows, Holds, Follows, Plans
  <2>5. ~run[r].seen  BY <1>2 DEF ShapeInv, Shape
  <2>6. Shape(r)'  BY <2>1, <2>3, <2>5 DEF Shape
  <2>7. QED  BY <2>1, <2>3, <2>4, <2>6
<1>6. QED  BY <1>4, <1>5

LEMMA SkipStaleNarrows ==
    ASSUME TypeOK, ShapeInv, NEW r \in Run, SkipStale(r)
    PROVE  /\ Narrows(r) /\ Shape(r)'
           /\ run'[r].step = "patch" /\ run'[r].verdict = "skipped"
<1>1. PICK row \in run[r].todo : Goes(r, Deciding(r, row, "skipped"))  BY DEF SkipStale
<1>2. run[r] \in RunState /\ run[r].phase = "stale" /\ run[r].step = "loop"
  BY DEF TypeOK, SkipStale, At
<1> DEFINE y == Deciding(r, row, "skipped")
<1>3. "skipped" \in Verdict  BY DEF Verdict, Settled
<1>4. /\ y \in RunState /\ y.step = "patch" /\ y.verdict = "skipped" /\ y.row = row
      /\ y.phase = run[r].phase /\ y.todo = run[r].todo \ {row}
      /\ y.late = run[r].late /\ y.seen = run[r].seen
  BY <1>3, DecidingType
<1>5. Goes(r, y)  BY <1>1
<1>6. y.verdict \in VerdictsIn(y.phase)  BY <1>2, <1>4 DEF VerdictsIn
<1> HIDE DEF y
<1>7. Narrows(r) /\ Shape(r)' /\ run'[r] = y  BY <1>2, <1>4, <1>5, <1>6, TakesNarrow
<1>8. QED  BY <1>4, <1>7

LEMMA StartCallNarrows ==
    ASSUME TypeOK, ShapeInv, NEW r \in Run, StartCall(r)
    PROVE  /\ Narrows(r) /\ Shape(r)'
           /\ \/ run'[r].step = "claim"
              \/ run'[r].step = "patch" /\ run'[r].verdict = "skipped"
<1>1. PICK row \in FirstOf(run[r].todo) :
          Goes(r, IF row.contacted \/ number[row.lead] = None \/ SpokeRecently(row.lead)
                  THEN Deciding(r, row, "skipped")
                  ELSE [Deciding(r, row, "none") EXCEPT !.step = "claim"])
  BY DEF StartCall
<1>2. run[r] \in RunState /\ run[r].phase = "calling" /\ run[r].step = "loop"
      /\ run[r].budget > 0
  BY DEF TypeOK, StartCall, At
<1>3. row \in run[r].todo  BY DEF FirstOf
<1>4. CASE Goes(r, Deciding(r, row, "skipped"))
  <2> DEFINE y == Deciding(r, row, "skipped")
  <2>1. "skipped" \in Verdict  BY DEF Verdict, Settled
  <2>2. /\ y \in RunState /\ y.step = "patch" /\ y.verdict = "skipped" /\ y.row = row
        /\ y.phase = run[r].phase /\ y.todo = run[r].todo \ {row}
        /\ y.late = run[r].late /\ y.seen = run[r].seen
    BY <1>3, <2>1, DecidingType
  <2>3. Goes(r, y)  BY <1>4
  <2>4. y.verdict \in VerdictsIn(y.phase)  BY <1>2, <2>2 DEF VerdictsIn
  <2> HIDE DEF y
  <2>5. Narrows(r) /\ Shape(r)' /\ run'[r] = y
    BY <1>2, <1>3, <2>2, <2>3, <2>4, TakesNarrow
  <2>6. QED  BY <2>2, <2>5
<1>5. CASE Goes(r, [Deciding(r, row, "none") EXCEPT !.step = "claim"])
  <2> DEFINE d == Deciding(r, row, "none")
  <2> DEFINE y == [d EXCEPT !.step = "claim"]
  <2>1. "none" \in Verdict /\ "claim" \in Step  BY DEF Verdict, Step
  <2>2. /\ d \in RunState /\ d.row = row
        /\ d.phase = run[r].phase /\ d.todo = run[r].todo \ {row}
        /\ d.late = run[r].late /\ d.seen = run[r].seen /\ d.budget = run[r].budget
    BY <1>3, <2>1, DecidingType
  <2>3. Goes(r, y)  BY <1>5
  <2> HIDE DEF d
  <2>4. /\ y \in RunState /\ y.step = "claim" /\ y.row = row
        /\ y.phase = run[r].phase /\ y.todo = run[r].todo \ {row}
        /\ y.late = run[r].late /\ y.seen = run[r].seen /\ y.budget = run[r].budget
    BY <2>1, <2>2 DEF RunState
  <2> HIDE DEF y
  <2>5. Narrows(r) /\ Shape(r)' /\ run'[r] = y
    BY <1>2, <1>3, <2>3, <2>4, TakesNarrow
  <2>6. QED  BY <2>4, <2>5
<1>6. QED  BY <1>1, <1>4, <1>5

LEMMA StartCallFailsNarrows ==
    ASSUME TypeOK, ShapeInv, NEW r \in Run, StartCallFails(r)
    PROVE  Narrows(r) /\ Shape(r)' /\ run'[r].step = "loop"
<1> DEFINE y == [run[r] EXCEPT !.todo = @ \ FirstOf(run[r].todo)]
<1>1. run[r] \in RunState /\ run[r].step = "loop"
  BY DEF TypeOK, StartCallFails, At
<1>2. y \in RunState /\ y.step = "loop" /\ y.phase = run[r].phase
      /\ y.todo \subseteq run[r].todo /\ y.late = run[r].late /\ y.seen = run[r].seen
  BY <1>1 DEF RunState
<1>3. Goes(r, y)  BY DEF StartCallFails
<1> HIDE DEF y
<1>4. QED  BY <1>2, <1>3, LoopsNarrow

LEMMA DoneNarrows ==
    ASSUME TypeOK, ShapeInv, NEW r \in Run, Goes(r, Looping(r))
    PROVE  Narrows(r) /\ Shape(r)' /\ run'[r].step = "loop"
BY LoopingType, LoopsNarrow

LEMMA ClaimNarrows ==
    ASSUME TypeOK, ShapeInv, NEW r \in Run, Claim(r)
    PROVE  /\ Narrows(r) /\ Shape(r)'
           /\ \/ run'[r].step = "loop"
              \/ /\ run'[r].step = "post" /\ run'[r].row = run[r].row
                 /\ run'[r].verdict = run[r].verdict
                 /\ lead[run[r].row.lead].status = "pending"
<1>1. CASE lead[run[r].row.lead].status = "pending"
  <2> DEFINE y == [run[r] EXCEPT !.step = "post"]
  <2>1. run[r] \in RunState /\ run[r].step = "claim" /\ run[r].phase = "calling"
        /\ run[r].budget > 0
    BY DEF TypeOK, Claim, ShapeInv, Shape
  <2>2. "post" \in Step  BY DEF Step
  <2>3. /\ y \in RunState /\ y.step = "post" /\ y.row = run[r].row
        /\ y.phase = run[r].phase /\ y.todo = run[r].todo /\ y.budget = run[r].budget
        /\ y.late = run[r].late /\ y.seen = run[r].seen /\ y.verdict = run[r].verdict
    BY <2>1, <2>2 DEF RunState
  <2>4. Goes(r, y)  BY <1>1 DEF Claim
  <2> HIDE DEF y
  <2>5. Narrows(r) /\ Shape(r)' /\ run'[r] = y  BY <2>1, <2>3, <2>4, StaysNarrow
  <2>6. QED  BY <1>1, <2>3, <2>5
<1>2. CASE lead[run[r].row.lead].status # "pending"
  <2>1. Goes(r, Looping(r))  BY <1>2 DEF Claim
  <2>2. QED  BY <2>1, DoneNarrows
<1>3. QED  BY <1>1, <1>2

LEMMA PostCallNarrows ==
    ASSUME TypeOK, ShapeInv, NEW r \in Run, PostCall(r)
    PROVE  /\ Narrows(r) /\ Shape(r)'
           /\ run'[r].step = "save" /\ run'[r].row = run[r].row
           /\ run'[r].callId = Len(calls[run[r].row.lead]) + 1
           /\ run'[r].verdict = run[r].verdict
<1> DEFINE id == Len(calls[run[r].row.lead]) + 1
<1> DEFINE y == [run[r] EXCEPT !.step = "save", !.callId = id]
<1>1. run[r] \in RunState /\ run[r].step = "post" /\ run[r].phase = "calling"
      /\ run[r].budget > 0
  BY DEF TypeOK, PostCall, ShapeInv, Shape
<1>2. "save" \in Step  BY DEF Step
<1>3. id \in Nat
  <2>1. run[r].row.lead \in Lead  BY <1>1, AtWork
  <2>2. QED  BY <2>1 DEF TypeOK
<1>4. Goes(r, y)  BY DEF PostCall
<1> HIDE DEF id
<1>5. /\ y \in RunState /\ y.step = "save" /\ y.row = run[r].row
      /\ y.phase = run[r].phase /\ y.todo = run[r].todo /\ y.budget = run[r].budget
      /\ y.late = run[r].late /\ y.seen = run[r].seen /\ y.verdict = run[r].verdict
      /\ y.callId = id
  BY <1>1, <1>2, <1>3 DEF RunState
<1> HIDE DEF y
<1>6. Narrows(r) /\ Shape(r)' /\ run'[r] = y  BY <1>1, <1>4, <1>5, StaysNarrow
<1>7. QED  BY <1>5, <1>6 DEF id

(* The POST was refused or not answered.                                   *)
LEMMA PostFailedNarrows ==
    ASSUME TypeOK, ShapeInv, NEW r \in Run, CallRefused(r) \/ CallUnanswered(r)
    PROVE  /\ Narrows(r) /\ Shape(r)'
           /\ run'[r].step = "patch" /\ run'[r].row = run[r].row
           /\ run'[r].verdict \in {"backOff", "failStart"}
           /\ CallUnanswered(r) => run'[r].verdict = "failStart"
<1>1. PICK v \in {"backOff", "failStart"} :
          /\ Goes(r, [run[r] EXCEPT !.step = "patch", !.verdict = v])
          /\ CallUnanswered(r) => v = "failStart"
  <2>1. CASE CallUnanswered(r)  BY <2>1 DEF CallUnanswered
  <2>2. CASE ~CallUnanswered(r)  BY <2>2 DEF CallRefused
  <2>3. QED  BY <2>1, <2>2
<1> DEFINE y == [run[r] EXCEPT !.step = "patch", !.verdict = v]
<1>2. run[r] \in RunState /\ run[r].step = "post"
  BY DEF TypeOK, CallRefused, CallUnanswered
<1>3. run[r].phase = "calling"  BY <1>2 DEF ShapeInv, Shape
<1>4. "patch" \in Step /\ v \in Verdict  BY DEF Step, Verdict
<1>5. /\ y \in RunState /\ y.step = "patch" /\ y.row = run[r].row
      /\ y.phase = run[r].phase /\ y.todo = run[r].todo /\ y.budget = run[r].budget
      /\ y.late = run[r].late /\ y.seen = run[r].seen /\ y.verdict = v
  BY <1>2, <1>4 DEF RunState
<1>6. Goes(r, y)  BY <1>1
<1> HIDE DEF y
<1>7. y.verdict \in VerdictsIn("calling")  BY <1>5 DEF VerdictsIn
<1>8. Narrows(r) /\ Shape(r)' /\ run'[r] = y
  BY <1>2, <1>3, <1>5, <1>6, <1>7, StaysNarrow
<1>9. QED  BY <1>1, <1>5, <1>8

LEMMA SaveCallNarrows ==
    ASSUME TypeOK, ShapeInv, NEW r \in Run, SaveCall(r)
    PROVE  Narrows(r) /\ Shape(r)' /\ run'[r].step = "loop"
<1> DEFINE y == [Looping(r) EXCEPT !.budget = @ - 1]
<1>1. run[r] \in RunState /\ run[r].budget > 0
  BY DEF TypeOK, SaveCall, ShapeInv, Shape
<1>2. run[r].budget - 1 \in 0 .. DAILY_PEOPLE_CAP  BY <1>1, Numbers DEF RunState
<1>3. /\ Looping(r) \in RunState /\ Looping(r).step = "loop"
      /\ Looping(r).phase = run[r].phase /\ Looping(r).todo = run[r].todo
      /\ Looping(r).late = run[r].late /\ Looping(r).seen = run[r].seen
      /\ Looping(r).budget = run[r].budget
  BY LoopingType
<1>4. /\ y \in RunState /\ y.step = "loop" /\ y.phase = run[r].phase
      /\ y.todo = run[r].todo /\ y.late = run[r].late /\ y.seen = run[r].seen
  BY <1>2, <1>3 DEF RunState
<1>5. Goes(r, y)  BY DEF SaveCall
<1> HIDE DEF y
<1>6. QED  BY <1>4, <1>5, LoopsNarrow

LEMMA PatchNarrows ==
    ASSUME TypeOK, ShapeInv, NEW r \in Run, Patch(r)
    PROVE  /\ Narrows(r) /\ Shape(r)'
           /\ IF Owed(r) THEN run'[r].step = "tell" /\ run'[r].row = run[r].row
             ELSE run'[r].step = "loop"
<1>1. CASE Owed(r)
  <2> DEFINE y == [run[r] EXCEPT !.step = "tell"]
  <2>1. run[r] \in RunState /\ run[r].step = "patch"  BY DEF TypeOK, Patch
  <2>2. "tell" \in Step  BY DEF Step
  <2>3. /\ y \in RunState /\ y.step = "tell" /\ y.row = run[r].row
        /\ y.phase = run[r].phase /\ y.todo = run[r].todo /\ y.budget = run[r].budget
        /\ y.late = run[r].late /\ y.seen = run[r].seen
    BY <2>1, <2>2 DEF RunState
  <2>4. Goes(r, y)  BY <1>1 DEF Patch
  <2> HIDE DEF y
  <2>5. Narrows(r) /\ Shape(r)' /\ run'[r] = y  BY <2>1, <2>3, <2>4, StaysNarrow
  <2>6. QED  BY <1>1, <2>3, <2>5
<1>2. CASE ~Owed(r)
  <2>1. Goes(r, Looping(r))  BY <1>2 DEF Patch
  <2>2. QED  BY <1>2, <2>1, DoneNarrows
<1>3. QED  BY <1>1, <1>2

LEMMA PatchFailsNarrows ==
    ASSUME TypeOK, ShapeInv, NEW r \in Run, PatchFails(r)
    PROVE  Narrows(r) /\ Shape(r)' /\ run'[r].step = "loop"
<1>1. CASE Goes(r, Off)  BY <1>1, EndsNarrow
<1>2. CASE Goes(r, Looping(r))  BY <1>2, DoneNarrows
<1>3. QED  BY <1>1, <1>2 DEF PatchFails

LEMMA OffNarrows ==
    ASSUME TypeOK, NEW r \in Run, OutsideHours(r) \/ NoMoreCalls(r) \/ RunDies(r)
    PROVE  Narrows(r) /\ Shape(r)' /\ run'[r].step = "loop"
<1>1. Goes(r, Off)  BY DEF OutsideHours, NoMoreCalls, RunDies
<1>2. QED  BY <1>1, EndsNarrow

-----------------------------------------------------------------------------
(* What a run does to the table, and what happens to the calls             *)

Writes(r, from, new) ==
    LET l == run[r].row.lead IN
    /\ lead[l].status = from
    /\ lead' \in [Lead -> LeadRow]
    /\ lead'[l] = new
    /\ \A k \in Lead : k # l => lead'[k] = lead[k]

TableStep(r) ==
    \/ lead' = lead
    \/ run[r].step = "claim" /\ Writes(r, "pending", ClaimedRow(r))
    \/ run[r].step = "save" /\ Writes(r, "calling", SavedRow(r))
    \/ /\ run[r].step = "patch" /\ Writes(r, ReadWith(r), Patched(r))
       /\ run'[r].step \in {"loop", "tell"}

LEMMA ClaimWrites ==
    ASSUME TypeOK, NEW r \in Run, run[r].step = "claim",
           updateLead(run[r].row.lead, "pending", ClaimedRow(r))
    PROVE  TableStep(r)
<1>1. run[r].row.lead \in Lead  BY AtWork
<1>2. ClaimedRow(r) \in LeadRow  BY ClaimedType
<1>3. CASE lead[run[r].row.lead].status = "pending"
  <2>1. Writes(r, "pending", ClaimedRow(r))  BY <1>1, <1>2, <1>3, Updated DEF Writes
  <2>2. QED  BY <2>1 DEF TableStep
<1>4. CASE lead[run[r].row.lead].status # "pending"
  BY <1>4 DEF updateLead, TableStep
<1>5. QED  BY <1>3, <1>4

LEMMA SaveWrites ==
    ASSUME TypeOK, NEW r \in Run, run[r].step = "save",
           updateLead(run[r].row.lead, "calling", SavedRow(r))
    PROVE  TableStep(r)
<1>1. run[r].row.lead \in Lead  BY AtWork
<1>2. SavedRow(r) \in LeadRow  BY SavedType
<1>3. CASE lead[run[r].row.lead].status = "calling"
  <2>1. Writes(r, "calling", SavedRow(r))  BY <1>1, <1>2, <1>3, Updated DEF Writes
  <2>2. QED  BY <2>1 DEF TableStep
<1>4. CASE lead[run[r].row.lead].status # "calling"
  BY <1>4 DEF updateLead, TableStep
<1>5. QED  BY <1>3, <1>4

LEMMA PatchWrites ==
    ASSUME TypeOK, ShapeInv, NEW r \in Run, run[r].step = "patch",
           updateLead(run[r].row.lead, ReadWith(r), Patched(r)),
           run'[r].step \in {"loop", "tell"}
    PROVE  TableStep(r)
<1>1. run[r].row.lead \in Lead  BY AtWork
<1>2. Patched(r) \in LeadRow  BY PatchedType
<1>3. CASE lead[run[r].row.lead].status = ReadWith(r)
  <2>1. Writes(r, ReadWith(r), Patched(r))  BY <1>1, <1>2, <1>3, Updated DEF Writes
  <2>2. QED  BY <2>1 DEF TableStep
<1>4. CASE lead[run[r].row.lead].status # ReadWith(r)
  BY <1>4 DEF updateLead, TableStep
<1>5. QED  BY <1>3, <1>4

(* Calls are only added, and a call that was not answered stays that way.  *)
CallsGrow ==
    /\ calls' \in [Lead -> Seq(CallState)]
    /\ \A l \in Lead :
           /\ Len(calls[l]) <= Len(calls'[l])
           /\ \A i \in 1 .. Len(calls[l]) : calls[l][i] = "silent" => calls'[l][i] = "silent"

LEMMA CallsKept == ASSUME TypeOK, calls' = calls PROVE CallsGrow
BY DEF TypeOK, CallsGrow

LEMMA DialGrows ==
    ASSUME TypeOK, NEW l \in Lead, calls' = Dialled(l)
    PROVE  /\ CallsGrow
           /\ Len(calls'[l]) = Len(calls[l]) + 1
           /\ \A i \in 1 .. Len(calls[l]) : calls'[l][i] = calls[l][i]
           /\ \A k \in Lead : k # l => calls'[k] = calls[k]
<1>1. calls[l] \in Seq(CallState) /\ "live" \in CallState  BY DEF TypeOK, CallState
<1>2. /\ Append(calls[l], "live") \in Seq(CallState)
      /\ Len(Append(calls[l], "live")) = Len(calls[l]) + 1
      /\ \A i \in 1 .. Len(calls[l]) : Append(calls[l], "live")[i] = calls[l][i]
  BY <1>1
<1>3. /\ calls' \in [Lead -> Seq(CallState)]
      /\ calls'[l] = Append(calls[l], "live")
      /\ \A k \in Lead : k # l => calls'[k] = calls[k]
  BY <1>1, <1>2 DEF TypeOK, Dialled
<1>4. \A k \in Lead : Len(calls[k]) \in Nat  BY DEF TypeOK
<1>5. Len(calls'[l]) = Len(calls[l]) + 1
      /\ \A i \in 1 .. Len(calls[l]) : calls'[l][i] = calls[l][i]
  BY <1>2, <1>3
<1>6. ASSUME NEW k \in Lead
      PROVE  /\ Len(calls[k]) <= Len(calls'[k])
             /\ \A i \in 1 .. Len(calls[k]) :
                    calls[k][i] = "silent" => calls'[k][i] = "silent"
  BY <1>3, <1>4, <1>5
<1>7. CallsGrow  BY <1>3, <1>6 DEF CallsGrow
<1>8. QED  BY <1>3, <1>5, <1>7

(* A call ends, or its summary is there.                                   *)
LEMMA CallMoves ==
    ASSUME TypeOK, NEW l \in Lead, CallEnds(l) \/ SummaryComes(l)
    PROVE  /\ CallsGrow
           /\ \E i \in 1 .. Len(calls[l]) : calls[l][i] # "silent"
           /\ \A k \in Lead : Len(calls'[k]) = Len(calls[k])
           /\ \A k \in Lead : k # l => calls'[k] = calls[k]
<1>1. calls[l] \in Seq(CallState)  BY DEF TypeOK
<1>2. DOMAIN calls[l] = 1 .. Len(calls[l])  BY <1>1
<1>3. PICK i \in 1 .. Len(calls[l]), s \in CallState :
          calls[l][i] \in {"live", "spoke"} /\ calls' = [calls EXCEPT ![l][i] = s]
  BY <1>2 DEF CallEnds, SummaryComes, CallState
<1> DEFINE q == [calls[l] EXCEPT ![i] = s]
<1>4. q \in Seq(CallState) /\ Len(q) = Len(calls[l])
      /\ \A j \in 1 .. Len(calls[l]) : j # i => q[j] = calls[l][j]
  BY <1>1
<1>5. calls'[l] = q /\ \A k \in Lead : k # l => calls'[k] = calls[k]
  BY <1>3 DEF TypeOK
<1>6. calls' \in [Lead -> Seq(CallState)]  BY <1>3, <1>4, <1>5 DEF TypeOK
<1> HIDE DEF q
<1>7. \A k \in Lead : Len(calls[k]) \in Nat  BY DEF TypeOK
<1>8. \A j \in 1 .. Len(calls[l]) : calls[l][j] = "silent" => calls'[l][j] = "silent"
  BY <1>3, <1>4, <1>5
<1>9. QED  BY <1>3, <1>4, <1>5, <1>6, <1>7, <1>8 DEF CallsGrow

(* The steps of one run, once each: what it keeps, writes and dials.       *)
RunMoves(r) ==
    \/ RunStep(r) /\ ~ReadStale(r) /\ ~ReadDue(r)
    \/ StartCallFails(r)
    \/ PatchFails(r)
    \/ RunDies(r)

LEMMA MoveTable ==
    ASSUME TypeOK, ShapeInv, CopyInv, NEW r \in Run, RunMoves(r)
    PROVE  /\ Narrows(r) /\ Shape(r)' /\ TableStep(r)
           /\ UNCHANGED <<world, fired>>
           /\ \/ calls' = calls
              \/ /\ run[r].step = "post" /\ lead' = lead
                 /\ calls' = Dialled(run[r].row.lead)
           /\ failures' \in 0 .. MaxFailures
<1>1. failures \in 0 .. MaxFailures /\ MaxFailures \in Nat  BY Numbers DEF TypeOK
<1>2. Fail => failures' \in 0 .. MaxFailures  BY <1>1 DEF Fail
<1>3. CASE FollowUp(r)
  BY <1>1, <1>2, <1>3, FollowUpNarrows DEF FollowUp, TableStep
<1>4. CASE OutsideHours(r) \/ NoMoreCalls(r) \/ RunDies(r)
  BY <1>1, <1>2, <1>4, OffNarrows DEF OutsideHours, NoMoreCalls, RunDies, TableStep, history, world
<1>5. CASE SkipStale(r)
  BY <1>1, <1>5, SkipStaleNarrows DEF SkipStale, TableStep, history
<1>6. CASE ReadBudget(r)
  BY <1>1, <1>6, ReadBudgetNarrows DEF ReadBudget, TableStep, history
<1>7. CASE StartCall(r)
  BY <1>1, <1>7, StartCallNarrows DEF StartCall, TableStep, history
<1>8. CASE StartCallFails(r)
  BY <1>2, <1>8, StartCallFailsNarrows DEF StartCallFails, TableStep
<1>9. CASE Claim(r)
  <2>1. TableStep(r)  BY <1>9, ClaimWrites DEF Claim
  <2>2. QED  BY <1>1, <1>9, <2>1, ClaimNarrows DEF Claim, history
<1>10. CASE PostCall(r)
  BY <1>1, <1>10, PostCallNarrows DEF PostCall, TableStep, history
<1>11. CASE CallRefused(r) \/ CallUnanswered(r)
  <2>1. Narrows(r) /\ Shape(r)'  BY <1>11, PostFailedNarrows
  <2>2. QED  BY <1>2, <1>11, <2>1 DEF CallRefused, CallUnanswered, TableStep
<1>12. CASE SaveCall(r)
  <2>1. TableStep(r)  BY <1>12, SaveWrites DEF SaveCall
  <2>2. QED  BY <1>1, <1>12, <2>1, SaveCallNarrows DEF SaveCall, history
<1>13. CASE Patch(r)
  <2>1. Narrows(r) /\ Shape(r)' /\ run'[r].step \in {"loop", "tell"}
    BY <1>13, PatchNarrows
  <2>2. TableStep(r)  BY <1>13, <2>1, PatchWrites DEF Patch
  <2>3. QED  BY <1>1, <1>13, <2>1, <2>2 DEF Patch, history
<1>14. CASE TellKamva(r)
  <2>1. Narrows(r) /\ Shape(r)'  BY <1>14, DoneNarrows DEF TellKamva
  <2>2. QED  BY <1>1, <1>2, <1>14, <2>1 DEF TellKamva, TableStep, history
<1>15. CASE PatchFails(r)
  <2>1. Narrows(r) /\ Shape(r)' /\ run'[r].step = "loop"  BY <1>15, PatchFailsNarrows
  <2>2. TableStep(r)
    <3>1. CASE UNCHANGED lead  BY <3>1 DEF TableStep
    <3>2. CASE run[r].step = "claim" /\ updateLead(run[r].row.lead, "pending", ClaimedRow(r))
      BY <3>2, ClaimWrites
    <3>3. CASE run[r].step = "save" /\ updateLead(run[r].row.lead, "calling", SavedRow(r))
      BY <3>3, SaveWrites
    <3>4. CASE run[r].step = "patch" /\ updateLead(run[r].row.lead, ReadWith(r), Patched(r))
      BY <2>1, <3>4, PatchWrites
    <3>5. QED  BY <1>15, <3>1, <3>2, <3>3, <3>4 DEF PatchFails
  <2>3. QED  BY <1>2, <1>15, <2>1, <2>2 DEF PatchFails
<1>16. QED
  BY <1>3, <1>4, <1>5, <1>6, <1>7, <1>8, <1>9, <1>10, <1>11, <1>12, <1>13, <1>14, <1>15
     DEF RunMoves, RunStep

-----------------------------------------------------------------------------
(* The invariants hold across the steps of a run that only let go of rows. *)
(* First those about rows a run follows up: while there is one, the table  *)
(* changes under it only by a verdict.                                     *)

LEMMA TableOwned ==
    ASSUME IInv, NEW r \in Run, TableStep(r), lead' # lead,
           NEW s \in Run, NEW c \in Copy, Follows(s, c), c.callId > 0,
           c.lead = run[r].row.lead
    PROVE  /\ run[r].step = "patch" /\ lead'[c.lead] = Patched(r)
           /\ run[r].verdict \in {"requeue", "backOff"} =>
                  /\ run[r].verdict = "requeue" /\ lead[c.lead].status = "calling"
                  /\ run[r].row.callId = lead[c.lead].callId /\ run[r].row.callId > 0
                  /\ Follows(r, run[r].row)
<1> DEFINE l == run[r].row.lead
<1>1. \/ lead[l].status = "calling" /\ lead[l].callId = c.callId
      \/ /\ lead[l].status = "pending"
         /\ \A t \in Run : ~Plans(t, l)
      \/ lead[l].status \in Settled
  BY DEF IInv, FollowedInv
<1>2. "calling" \notin Settled /\ "pending" \notin Settled  BY DEF Settled
<1>3. c.lead \in Lead  BY DEF Copy
<1>4. ASSUME run[r].step = "claim", Writes(r, "pending", ClaimedRow(r)) PROVE FALSE
  <2>1. lead[l].status = "pending"  BY <1>4 DEF Writes
  <2>2. Plans(r, l)  BY <1>4 DEF IInv, ShapeInv, Shape, Plans
  <2>3. QED  BY <1>1, <1>2, <2>1, <2>2
<1>5. ASSUME Calls(r, l), lead[l].status = "calling" PROVE FALSE
  <2>1. lead[l].callId = 0  BY <1>3, <1>5 DEF IInv, CallerInv, InQueue
  <2>2. QED  BY <1>1, <1>2, <1>5, <2>1
<1>6. ASSUME run[r].step = "save", Writes(r, "calling", SavedRow(r)) PROVE FALSE
  <2>1. lead[l].status = "calling" /\ Calls(r, l)  BY <1>6 DEF Writes, Calls
  <2>2. QED  BY <1>5, <2>1
<1>7. run[r].step = "patch" /\ Writes(r, ReadWith(r), Patched(r))
  BY <1>4, <1>6 DEF TableStep
<1>8. lead'[c.lead] = Patched(r)  BY <1>7 DEF Writes
<1>9. ASSUME run[r].verdict \in {"requeue", "backOff"}
      PROVE  /\ run[r].verdict = "requeue" /\ lead[l].status = "calling"
             /\ run[r].row.callId = lead[l].callId /\ run[r].row.callId > 0
             /\ Follows(r, run[r].row)
  <2>1. lead[l].status = "calling"  BY <1>7, <1>9 DEF Writes, ReadWith
  <2>2. run[r].verdict = "requeue"  BY <1>5, <1>7, <1>9, <2>1 DEF Calls
  <2>3. run[r].phase = "following"
    BY <1>7, <2>2 DEF IInv, ShapeInv, Shape, VerdictsIn
  <2>4. Follows(r, run[r].row)  BY <1>7, <2>3 DEF Follows
  <2>5. run[r].row.callId > 0 /\ run[r].row \in Copy
    <3>1. run[r].row.callId > 0  BY <1>7, <2>2 DEF IInv, HeardInv
    <3>2. QED  BY <1>7, <3>1, AtWork DEF IInv
  <2>6. run[r].row.callId = lead[l].callId
    BY <1>2, <2>1, <2>4, <2>5 DEF IInv, FollowedInv
  <2>7. QED  BY <2>1, <2>2, <2>4, <2>5, <2>6
<1>10. QED  BY <1>7, <1>8, <1>9

LEMMA OthersRows ==
    ASSUME NEW r \in Run, TableStep(r), NEW k \in Lead,
           lead' = lead \/ k # run[r].row.lead
    PROVE  lead'[k] = lead[k]
BY DEF TableStep, Writes

LEMMA FollowedMove ==
    ASSUME IInv, NEW r \in Run, Narrows(r), TableStep(r)
    PROVE  FollowedInv'
<1> SUFFICES ASSUME NEW s \in Run, NEW c \in Copy, Follows(s, c)', c.callId > 0
             PROVE  \/ /\ lead'[c.lead].status = "calling"
                       /\ lead'[c.lead].callId = c.callId
                    \/ /\ lead'[c.lead].status = "pending"
                       /\ lead'[c.lead].nextIn > MaxRun - run'[s].late
                       /\ \A t \in Run : ~Plans(t, c.lead)'
                    \/ lead'[c.lead].status \in Settled
  BY DEF FollowedInv
<1>1. c.lead \in Lead  BY DEF Copy
<1>2. Follows(s, c) /\ run'[s].late = run[s].late
  BY DEF Narrows, Follows
<1>3. \A t \in Run : Plans(t, c.lead)' => Plans(t, c.lead)
  BY <1>1 DEF Narrows, Plans
<1>4. \/ lead[c.lead].status = "calling" /\ lead[c.lead].callId = c.callId
      \/ /\ lead[c.lead].status = "pending"
         /\ lead[c.lead].nextIn > MaxRun - run[s].late
         /\ \A t \in Run : ~Plans(t, c.lead)
      \/ lead[c.lead].status \in Settled
  BY <1>2 DEF IInv, FollowedInv
<1>5. CASE lead' = lead \/ c.lead # run[r].row.lead
  <2>1. lead'[c.lead] = lead[c.lead]  BY <1>1, <1>5, OthersRows
  <2>2. QED  BY <1>2, <1>3, <1>4, <2>1
<1>6. CASE lead' # lead /\ c.lead = run[r].row.lead
  <2>1. /\ run[r].step = "patch" /\ lead'[c.lead] = Patched(r)
        /\ run[r].verdict \in {"requeue", "backOff"} =>
               /\ run[r].verdict = "requeue" /\ lead[c.lead].status = "calling"
               /\ run[r].row.callId = lead[c.lead].callId /\ run[r].row.callId > 0
               /\ Follows(r, run[r].row)
    BY <1>2, <1>6, TableOwned
  <2>2. CASE run[r].verdict \notin {"requeue", "backOff"}
    <3>1. Patched(r).status \in Settled  BY <2>1, <2>2, PatchedType DEF IInv
    <3>2. QED  BY <2>1, <3>1
  <2>3. CASE run[r].verdict \in {"requeue", "backOff"}
    <3>1. /\ Patched(r).status = "pending"
          /\ Patched(r).nextIn = RETRY_AFTER - run[r].late
      BY <2>1, <2>3, PatchedType DEF IInv
    <3>2. run[r].row \in Copy /\ run[r].late \in 0 .. MaxRun  BY <2>1, AtWork DEF IInv
    <3>3. run[s].late \in 0 .. MaxRun  BY DEF IInv, TypeOK, RunState
    <3>4. RETRY_AFTER - run[r].late > MaxRun - run[s].late
      BY <3>2, <3>3, Numbers, RetryOutlastsRuns
    <3>5. s # r
      <4>1. SUFFICES ASSUME s = r PROVE FALSE  OBVIOUS
      <4>2. run'[r].step \in {"loop", "tell"} /\ run'[r].todo \subseteq run[r].todo
        BY <1>6, <2>1 DEF TableStep, Narrows
      <4>3. c \in run[r].todo  BY <4>1, <4>2 DEF Follows
      <4>4. QED  BY <1>6, <2>1, <4>3 DEF IInv, ShapeInv, Shape
    <3>6. \A t \in Run : ~Plans(t, c.lead)
      <4>1. SUFFICES ASSUME NEW t \in Run, Plans(t, c.lead) PROVE FALSE  OBVIOUS
      <4>2. /\ Plans(t, run[r].row.lead) /\ Follows(r, run[r].row)
            /\ run[r].row.callId > 0 /\ lead[run[r].row.lead].status = "calling"
        BY <1>6, <2>1, <2>3, <4>1
      <4>3. \A u \in Run, d \in Copy :
                Follows(u, d) /\ d.callId > 0 /\ d.lead = run[r].row.lead => u = r
        BY <3>2, <4>2 DEF IInv, DueInv
      <4>4. s = r  BY <1>2, <1>6, <4>3
      <4>5. QED  BY <3>5, <4>4
    <3>7. QED  BY <1>2, <1>3, <2>1, <3>1, <3>4, <3>6
  <2>4. QED  BY <2>2, <2>3
<1>7. QED  BY <1>5, <1>6

LEMMA DueMove ==
    ASSUME IInv, NEW r \in Run, Narrows(r), TableStep(r)
    PROVE  DueInv'
<1> SUFFICES ASSUME NEW f \in Run, NEW s \in Run, NEW c \in Copy,
                    Plans(s, c.lead)', Follows(f, c)', c.callId > 0,
                    lead'[c.lead].status = "calling"
             PROVE  /\ run'[s].seen
                    /\ \A t \in Run, d \in Copy :
                           Follows(t, d)' /\ d.callId > 0 /\ d.lead = c.lead => t = f
  BY DEF DueInv
<1>1. c.lead \in Lead  BY DEF Copy
<1>2. Plans(s, c.lead) /\ run'[s].seen = run[s].seen
  BY <1>1 DEF Narrows, Plans
<1>3. \A t \in Run, d \in Copy : Follows(t, d)' => Follows(t, d)
  BY DEF Narrows, Follows
<1>4. lead[c.lead].status = "calling"
  <2>1. CASE lead' = lead \/ c.lead # run[r].row.lead
    <3>1. lead'[c.lead] = lead[c.lead]  BY <1>1, <2>1, OthersRows
    <3>2. QED  BY <3>1
  <2>2. CASE lead' # lead /\ c.lead = run[r].row.lead
    <3>1. run[r].step = "patch" /\ lead'[c.lead] = Patched(r)
      BY <1>3, <2>2, TableOwned
    <3>2. Patched(r).status # "calling"
      BY <3>1, PatchedType DEF IInv, Settled
    <3>3. QED  BY <3>1, <3>2
  <2>3. QED  BY <2>1, <2>2
<1>5. Follows(f, c)  BY <1>3
<1>6. /\ run[s].seen
      /\ \A t \in Run, d \in Copy :
             Follows(t, d) /\ d.callId > 0 /\ d.lead = c.lead => t = f
  BY <1>2, <1>4, <1>5 DEF IInv, DueInv
<1>7. QED  BY <1>2, <1>3, <1>6

LEMMA CopyMove ==
    ASSUME IInv, NEW r \in Run, Narrows(r), CallsGrow, contacted' = contacted
    PROVE  CopyInv'
<1> SUFFICES ASSUME NEW s \in Run, NEW c \in Copy, Holds(s, c)'
             PROVE  /\ c.contacted => c.lead \in contacted'
                    /\ c.attempts <= Len(calls'[c.lead])
                    /\ c.callId <= Len(calls'[c.lead])
                    /\ run'[s].phase = "following" /\ c.callId > 0 => c.attempts <= c.callId
  BY DEF CopyInv
<1>1. Holds(s, c)  BY DEF Narrows, Holds
<1>2. run'[s].phase = "following" => run[s].phase = "following"  BY DEF Narrows
<1>3. c.lead \in Lead /\ c.attempts \in Nat /\ c.callId \in Nat  BY DEF Copy
<1>4. Len(calls[c.lead]) <= Len(calls'[c.lead])  BY <1>3 DEF CallsGrow
<1>5. Len(calls[c.lead]) \in Nat /\ Len(calls'[c.lead]) \in Nat
  BY <1>3 DEF IInv, TypeOK, CallsGrow
<1>6. /\ c.contacted => c.lead \in contacted
      /\ c.attempts <= Len(calls[c.lead])
      /\ c.callId <= Len(calls[c.lead])
      /\ run[s].phase = "following" /\ c.callId > 0 => c.attempts <= c.callId
  BY <1>1 DEF IInv, CopyInv
<1>7. QED  BY <1>2, <1>3, <1>4, <1>5, <1>6

(* A claim, the call, and what the answer to it makes of the run.          *)
CallsOn(r) ==
    \/ /\ run[r].step = "claim" /\ run'[r].step = "post"
       /\ calls' = calls
       /\ lead[run[r].row.lead].status = "pending"
       /\ lead'[run[r].row.lead] = ClaimedRow(r)
    \/ /\ run[r].step = "post" /\ run'[r].step = "save"
       /\ lead' = lead
       /\ calls' = Dialled(run[r].row.lead)
       /\ run'[r].callId = Len(calls[run[r].row.lead]) + 1
    \/ /\ run[r].step = "post" /\ run'[r].step = "patch"
       /\ lead' = lead
       /\ run'[r].verdict = "backOff" => calls' = calls

LEMMA WhoCalls ==
    ASSUME IInv, NEW r \in Run, RunMoves(r), NEW l \in Lead, Calls(r, l)'
    PROVE  run[r].row.lead = l /\ run'[r].row = run[r].row /\ CallsOn(r)
<1>1. /\ \/ run'[r].step \in {"post", "save"}
         \/ run'[r].step = "patch" /\ run'[r].verdict \in {"backOff", "failStart"}
      /\ run'[r].row.lead = l
  BY DEF Calls
<1>2. Narrows(r) /\ Shape(r)'  BY MoveTable DEF IInv
<1>3. CASE FollowUp(r)
  <2>1. run[r].phase = "following" /\ run[r].step = "loop"  BY <1>3 DEF FollowUp, At
  <2>2. run'[r].phase # "calling"  BY <1>2, <2>1 DEF Narrows
  <2>3. QED  BY <1>1, <1>2, <2>2 DEF Shape, VerdictsIn
<1>4. CASE OutsideHours(r) \/ NoMoreCalls(r) \/ RunDies(r)
  BY <1>1, <1>4, OffNarrows DEF IInv
<1>5. CASE SkipStale(r)  BY <1>1, <1>5, SkipStaleNarrows DEF IInv
<1>6. CASE ReadBudget(r)  BY <1>1, <1>6, ReadBudgetNarrows DEF IInv
<1>7. CASE StartCall(r)  BY <1>1, <1>7, StartCallNarrows DEF IInv
<1>8. CASE StartCallFails(r)  BY <1>1, <1>8, StartCallFailsNarrows DEF IInv
<1>9. CASE Claim(r)
  <2>1. /\ run'[r].step = "post" /\ run'[r].row = run[r].row
        /\ lead[run[r].row.lead].status = "pending"
    BY <1>1, <1>9, ClaimNarrows DEF IInv
  <2>2. run[r].row.lead \in Lead /\ ClaimedRow(r) \in LeadRow
    BY <1>9, AtWork, ClaimedType DEF IInv, Claim
  <2>3. lead'[run[r].row.lead] = ClaimedRow(r)
    BY <1>9, <2>1, <2>2, Updated DEF Claim, IInv
  <2>4. QED  BY <1>1, <1>9, <2>1, <2>3 DEF Claim, CallsOn
<1>10. CASE PostCall(r)
  <2>1. /\ run'[r].step = "save" /\ run'[r].row = run[r].row
        /\ run'[r].callId = Len(calls[run[r].row.lead]) + 1
    BY <1>10, PostCallNarrows DEF IInv
  <2>2. QED  BY <1>1, <1>10, <2>1 DEF PostCall, CallsOn
<1>11. CASE CallRefused(r) \/ CallUnanswered(r)
  <2>1. /\ run'[r].step = "patch" /\ run'[r].row = run[r].row
        /\ CallUnanswered(r) => run'[r].verdict = "failStart"
    BY <1>11, PostFailedNarrows DEF IInv
  <2>2. run[r].step = "post" /\ lead' = lead
        /\ (run'[r].verdict = "backOff" => calls' = calls)
    BY <1>11, <2>1 DEF CallRefused, CallUnanswered
  <2>3. QED  BY <1>1, <2>1, <2>2 DEF CallsOn
<1>12. CASE SaveCall(r)  BY <1>1, <1>12, SaveCallNarrows DEF IInv
<1>13. CASE Patch(r)  BY <1>1, <1>13, PatchNarrows DEF IInv
<1>14. CASE TellKamva(r)  BY <1>1, <1>14, DoneNarrows DEF IInv, TellKamva
<1>15. CASE PatchFails(r)  BY <1>1, <1>15, PatchFailsNarrows DEF IInv
<1>16. QED
  BY <1>3, <1>4, <1>5, <1>6, <1>7, <1>8, <1>9, <1>10, <1>11, <1>12, <1>13, <1>14, <1>15
     DEF RunMoves, RunStep

(* Nobody else touches the row or the calls of a lead that a run calls.    *)
LEMMA OthersCalls ==
    ASSUME IInv, NEW r \in Run, RunMoves(r), NEW s \in Run, s # r,
           NEW l \in Lead, Calls(s, l)
    PROVE  /\ calls'[l] = calls[l]
           /\ lead'[l].status \in InQueue =>
                  lead'[l].status = "calling" /\ lead'[l].callId = 0
<1>1. /\ TableStep(r)
      /\ \/ calls' = calls
         \/ run[r].step = "post" /\ lead' = lead /\ calls' = Dialled(run[r].row.lead)
  BY MoveTable DEF IInv
<1>2. /\ lead[l].status \in InQueue => lead[l].status = "calling" /\ lead[l].callId = 0
      /\ ~Calls(r, l)
  BY DEF IInv, CallerInv
<1>3. calls'[l] = calls[l]
  <2>1. CASE calls' = calls  BY <2>1
  <2>2. CASE run[r].step = "post" /\ calls' = Dialled(run[r].row.lead)
    <3>1. run[r].row.lead # l  BY <1>2, <2>2 DEF Calls
    <3>2. QED  BY <2>2, <3>1 DEF Dialled, IInv, TypeOK
  <2>3. QED  BY <1>1, <2>1, <2>2
<1>4. CASE lead'[l] = lead[l]  BY <1>2, <1>3, <1>4
<1>5. CASE lead'[l] # lead[l]
  <2>1. lead' # lead /\ l = run[r].row.lead  BY <1>1, <1>5, OthersRows
  <2>2. lead[l].status # "pending"  BY <1>2 DEF InQueue
  <2>3. run[r].step # "save"  BY <1>2, <2>1 DEF Calls
  <2>4. /\ run[r].step = "patch" /\ lead'[l] = Patched(r)
        /\ lead[l].status = ReadWith(r)
    BY <1>1, <2>1, <2>2, <2>3 DEF TableStep, Writes
  <2>5. lead[l].status = "calling" /\ lead[l].callId = 0
    BY <1>2, <2>2, <2>4 DEF ReadWith, InQueue
  <2>6. run[r].verdict # "backOff"  BY <1>2, <2>1, <2>4 DEF Calls
  <2>7. run[r].verdict # "requeue"
    <3>1. SUFFICES ASSUME run[r].verdict = "requeue" PROVE FALSE  OBVIOUS
    <3>2. run[r].phase = "following"
      BY <2>4, <3>1 DEF IInv, ShapeInv, Shape, VerdictsIn
    <3>3. Follows(r, run[r].row)  BY <2>4, <3>2 DEF Follows
    <3>4. run[r].row.callId > 0  BY <2>4, <3>1 DEF IInv, HeardInv
    <3>5. run[r].row \in Copy  BY <2>4, AtWork DEF IInv
    <3>6. lead[l].callId = run[r].row.callId
      BY <2>1, <2>5, <3>3, <3>4, <3>5 DEF IInv, FollowedInv, Settled
    <3>7. QED  BY <2>5, <3>4, <3>6
  <2>8. Patched(r).status \in Settled  BY <2>4, <2>6, <2>7, PatchedType DEF IInv
  <2>9. lead'[l].status \notin InQueue  BY <2>4, <2>8 DEF InQueue, Settled
  <2>10. QED  BY <1>3, <2>9
<1>6. QED  BY <1>4, <1>5

LEMMA CallerMove ==
    ASSUME IInv, NEW r \in Run, RunMoves(r)
    PROVE  CallerInv'
<1> SUFFICES ASSUME NEW s \in Run, NEW l \in Lead, Calls(s, l)'
             PROVE  /\ lead'[l].status \in InQueue =>
                           lead'[l].status = "calling" /\ lead'[l].callId = 0
                    /\ \A t \in Run : Calls(t, l)' => t = s
                    /\ run'[s].step = "save" =>
                           /\ run'[s].callId = Len(calls'[l])
                           /\ run'[s].row.attempts < run'[s].callId
                    /\ run'[s].step = "post" => Quiet(l)'
                    /\ run'[s].step = "patch" /\ run'[s].verdict = "backOff" => Quiet(l)'
  BY DEF CallerInv
<1>1. \A t \in Run : t # r => run'[t] = run[t]  BY MoveTable DEF IInv, Narrows
<1>2. \A t \in Run : t # r /\ Calls(t, l)' => Calls(t, l)  BY <1>1 DEF Calls
<1>3. CASE s # r
  <2>1. Calls(s, l)  BY <1>2, <1>3
  <2>2. calls'[l] = calls[l] /\ (lead'[l].status \in InQueue =>
            lead'[l].status = "calling" /\ lead'[l].callId = 0)
    BY <1>3, <2>1, OthersCalls
  <2>3. ~Calls(r, l)'
    <3>1. SUFFICES ASSUME Calls(r, l)' PROVE FALSE  OBVIOUS
    <3>2. run[r].row.lead = l /\ CallsOn(r)  BY <3>1, WhoCalls
    <3>3. ~Calls(r, l)  BY <1>3, <2>1 DEF IInv, CallerInv
    <3>4. lead[l].status = "pending"  BY <3>2, <3>3 DEF CallsOn, Calls
    <3>5. QED  BY <2>1, <3>4 DEF IInv, CallerInv, InQueue
  <2>4. \A t \in Run : Calls(t, l)' => t = s
    BY <1>2, <2>1, <2>3 DEF IInv, CallerInv
  <2>5. /\ run[s].step = "save" =>
               run[s].callId = Len(calls[l]) /\ run[s].row.attempts < run[s].callId
        /\ run[s].step = "post" => Quiet(l)
        /\ run[s].step = "patch" /\ run[s].verdict = "backOff" => Quiet(l)
    BY <2>1 DEF IInv, CallerInv
  <2>6. Quiet(l) => Quiet(l)'  BY <2>2 DEF Quiet
  <2>7. run'[s] = run[s]  BY <1>1, <1>3
  <2>8. QED  BY <2>2, <2>4, <2>5, <2>6, <2>7
<1>4. CASE s = r
  <2>1. run[r].row.lead = l /\ run'[r].row = run[r].row /\ CallsOn(r)  BY <1>4, WhoCalls
  <2>2. \A t \in Run : Calls(t, l) => t = r
    BY <2>1 DEF IInv, CallerInv, CallsOn, Calls, InQueue
  <2>3. \A t \in Run : Calls(t, l)' => t = r  BY <1>2, <2>2
  <2>4. CASE run[r].step = "claim"
    <3>1. /\ run'[r].step = "post" /\ calls' = calls
          /\ lead[l].status = "pending" /\ lead'[l] = ClaimedRow(r)
      BY <2>1, <2>4 DEF CallsOn
    <3>2. lead'[l].status = "calling" /\ lead'[l].callId = 0
      BY <2>4, <3>1, ClaimedType DEF IInv
    <3>3. Quiet(l)'  BY <3>1 DEF IInv, LeadInv, Quiet
    <3>4. QED  BY <1>4, <2>3, <3>1, <3>2, <3>3
  <2>5. CASE run[r].step = "post"
    <3>1. Calls(r, l)  BY <2>1, <2>5 DEF Calls
    <3>2. lead' = lead  BY <2>1, <2>5 DEF CallsOn
    <3>3. lead[l].status \in InQueue => lead[l].status = "calling" /\ lead[l].callId = 0
      BY <3>1 DEF IInv, CallerInv
    <3>4. Quiet(l)  BY <2>5, <3>1 DEF IInv, CallerInv
    <3>5. CASE run'[r].step = "save"
      <4>1. calls' = Dialled(l) /\ run'[r].callId = Len(calls[l]) + 1
        BY <2>1, <2>5, <3>5 DEF CallsOn
      <4>2. Len(calls'[l]) = Len(calls[l]) + 1  BY <4>1, DialGrows DEF IInv
      <4>3. Holds(r, run[r].row) /\ run[r].row \in Copy  BY <2>5, AtWork DEF IInv, Holds
      <4>4. run[r].row.attempts <= Len(calls[l]) /\ run[r].row.attempts \in Nat
        BY <2>1, <4>3 DEF IInv, CopyInv, Copy
      <4>5. Len(calls[l]) \in Nat  BY DEF IInv, TypeOK
      <4>6. run'[r].row.attempts < run'[r].callId  BY <2>1, <4>1, <4>4, <4>5
      <4>7. QED  BY <1>4, <2>3, <3>2, <3>3, <3>5, <4>1, <4>2, <4>6
    <3>6. CASE run'[r].step = "patch"
      <4>1. run'[r].verdict = "backOff" => Quiet(l)'
        BY <2>1, <2>5, <3>4, <3>6 DEF CallsOn, Quiet
      <4>2. QED  BY <1>4, <2>3, <3>2, <3>3, <3>6, <4>1
    <3>7. QED  BY <2>1, <2>5, <3>5, <3>6 DEF CallsOn
  <2>6. QED  BY <2>1, <2>4, <2>5 DEF CallsOn
<1>5. QED  BY <1>3, <1>4

-----------------------------------------------------------------------------
(* What the rows in the table say of the calls                             *)

(* A verdict changes the row only while it is the call the run heard of.   *)
LEMMA VerdictHolds ==
    ASSUME IInv, NEW r \in Run, run[r].step = "patch",
           run[r].verdict \in {"requeue", "no_answer"},
           lead[run[r].row.lead].status = "calling"
    PROVE  /\ Quiet(run[r].row.lead)
           /\ run[r].row.callId = Len(calls[run[r].row.lead])
           /\ run[r].row.attempts <= Len(calls[run[r].row.lead])
<1> DEFINE l == run[r].row.lead
<1>1. run[r].row \in Copy /\ l \in Lead  BY AtWork DEF IInv
<1>2. run[r].phase = "following"  BY DEF IInv, ShapeInv, Shape, VerdictsIn
<1>3. Follows(r, run[r].row) /\ Holds(r, run[r].row)  BY <1>2 DEF Follows, Holds
<1>4. run[r].row.callId > 0 /\ calls[l][run[r].row.callId] = "silent"
  BY DEF IInv, HeardInv
<1>5. lead[l].callId = run[r].row.callId
  BY <1>1, <1>3, <1>4 DEF IInv, FollowedInv, Settled
<1>6. run[r].row.callId = Len(calls[l])
  BY <1>1, <1>4, <1>5 DEF IInv, LeadInv
<1>7. \A i \in 1 .. Len(calls[l]) - 1 : calls[l][i] = "silent"
  BY <1>1 DEF IInv, RetriedOnlyAfterNoAnswer
<1>8. Len(calls[l]) \in Nat  BY <1>1 DEF IInv, TypeOK
<1>9. Quiet(l)
  <2>1. SUFFICES ASSUME NEW i \in 1 .. Len(calls[l]) PROVE calls[l][i] = "silent"
    BY DEF Quiet
  <2>2. CASE i = Len(calls[l])  BY <1>4, <1>6, <2>2
  <2>3. CASE i # Len(calls[l])
    <3>1. i \in 1 .. Len(calls[l]) - 1  BY <1>8, <2>3
    <3>2. QED  BY <1>7, <3>1
  <2>4. QED  BY <2>2, <2>3
<1>10. run[r].row.attempts <= Len(calls[l])  BY <1>1, <1>3 DEF IInv, CopyInv
<1>11. QED  BY <1>6, <1>9, <1>10

LEMMA LeadMove ==
    ASSUME IInv, NEW r \in Run, RunMoves(r)
    PROVE  LeadInv'
<1> SUFFICES ASSUME NEW l \in Lead
             PROVE  /\ lead'[l].status \in InQueue => lead'[l].attempts <= Len(calls'[l])
                    /\ lead'[l].status = "pending" => Quiet(l)'
                    /\ lead'[l].status = "calling" /\ lead'[l].callId > 0 =>
                           /\ lead'[l].callId = Len(calls'[l])
                           /\ lead'[l].attempts <= lead'[l].callId
  BY DEF LeadInv
<1>1. /\ TableStep(r)
      /\ \/ calls' = calls
         \/ run[r].step = "post" /\ lead' = lead /\ calls' = Dialled(run[r].row.lead)
  BY MoveTable DEF IInv
<1>2. /\ lead[l].status \in InQueue => lead[l].attempts <= Len(calls[l])
      /\ lead[l].status = "pending" => Quiet(l)
      /\ lead[l].status = "calling" /\ lead[l].callId > 0 =>
             lead[l].callId = Len(calls[l]) /\ lead[l].attempts <= lead[l].callId
  BY DEF IInv, LeadInv
<1>3. /\ Len(calls[l]) \in Nat /\ lead[l].attempts \in Nat /\ lead[l].callId \in Nat
      /\ lead[l] \in LeadRow
  BY DEF IInv, TypeOK, LeadRow
<1>4. CASE run[r].step = "post" /\ lead' = lead /\ calls' = Dialled(run[r].row.lead)
  <2>1. run[r].row.lead \in Lead  BY <1>4, AtWork DEF IInv
  <2>2. CASE l = run[r].row.lead
    <3>1. Calls(r, l)  BY <1>4, <2>2 DEF Calls
    <3>2. lead[l].status \in InQueue => lead[l].status = "calling" /\ lead[l].callId = 0
      BY <3>1 DEF IInv, CallerInv
    <3>3. Len(calls'[l]) = Len(calls[l]) + 1  BY <1>4, <2>2, DialGrows DEF IInv
    <3>4. QED  BY <1>2, <1>3, <1>4, <3>2, <3>3 DEF InQueue
  <2>3. CASE l # run[r].row.lead
    <3>1. calls'[l] = calls[l]  BY <1>4, <2>1, <2>3, DialGrows DEF IInv
    <3>2. QED  BY <1>2, <1>4, <3>1 DEF Quiet
  <2>4. QED  BY <2>2, <2>3
<1>5. CASE calls' = calls
  <2>1. Quiet(l) => Quiet(l)'  BY <1>5 DEF Quiet
  <2>2. CASE lead' = lead \/ l # run[r].row.lead
    <3>1. lead'[l] = lead[l]  BY <1>1, <2>2, OthersRows
    <3>2. QED  BY <1>2, <1>5, <2>1, <3>1
  <2>3. CASE l = run[r].row.lead /\ run[r].step = "claim" /\ Writes(r, "pending", ClaimedRow(r))
    <3>1. lead[l].status = "pending" /\ lead'[l] = ClaimedRow(r)  BY <2>3 DEF Writes
    <3>2. /\ ClaimedRow(r).status = "calling" /\ ClaimedRow(r).callId = 0
          /\ ClaimedRow(r).attempts = lead[l].attempts
      BY <2>3, ClaimedType DEF IInv
    <3>3. lead[l].attempts <= Len(calls[l])  BY <1>2, <3>1 DEF InQueue
    <3>4. QED  BY <1>5, <3>1, <3>2, <3>3
  <2>4. CASE l = run[r].row.lead /\ run[r].step = "save" /\ Writes(r, "calling", SavedRow(r))
    <3>1. lead[l].status = "calling" /\ lead'[l] = SavedRow(r)  BY <2>4 DEF Writes
    <3>2. /\ SavedRow(r).status = "calling" /\ SavedRow(r).callId = run[r].callId
          /\ SavedRow(r).attempts = run[r].row.attempts + 1
      BY <2>4, <3>1, SavedType DEF IInv
    <3>3. Calls(r, l)  BY <2>4 DEF Calls
    <3>4. run[r].callId = Len(calls[l]) /\ run[r].row.attempts < run[r].callId
      BY <2>4, <3>3 DEF IInv, CallerInv
    <3>5. run[r].row.attempts \in Nat  BY <2>4, AtWork DEF IInv
    <3>6. run[r].row.attempts + 1 <= Len(calls[l])  BY <1>3, <3>4, <3>5
    <3>7. QED  BY <1>5, <3>1, <3>2, <3>4, <3>6
  <2>5. CASE l = run[r].row.lead /\ run[r].step = "patch" /\ Writes(r, ReadWith(r), Patched(r))
    <3>1. lead[l].status = ReadWith(r) /\ lead'[l] = Patched(r)  BY <2>5 DEF Writes
    <3>2. CASE run[r].verdict \notin {"requeue", "backOff"}
      <4>1. Patched(r).status \in Settled  BY <2>5, <3>2, PatchedType DEF IInv
      <4>2. QED  BY <3>1, <4>1 DEF InQueue, Settled
    <3>3. CASE run[r].verdict \in {"requeue", "backOff"}
      <4>1. lead[l].status = "calling"  BY <3>1, <3>3 DEF ReadWith
      <4>2. Patched(r).status = "pending" /\ Patched(r).attempts = lead[l].attempts
        BY <2>5, <3>3, PatchedType DEF IInv
      <4>3. lead[l].attempts <= Len(calls[l])  BY <1>2, <4>1 DEF InQueue
      <4>4. Quiet(l)
        <5>1. CASE run[r].verdict = "requeue"  BY <2>5, <4>1, <5>1, VerdictHolds
        <5>2. CASE run[r].verdict = "backOff"
          <6>1. Calls(r, l)  BY <2>5, <5>2 DEF Calls
          <6>2. QED  BY <2>5, <5>2, <6>1 DEF IInv, CallerInv
        <5>3. QED  BY <3>3, <5>1, <5>2
      <4>5. QED  BY <1>5, <2>1, <3>1, <4>2, <4>3, <4>4
    <3>4. QED  BY <3>2, <3>3
  <2>6. QED  BY <1>1, <2>2, <2>3, <2>4, <2>5 DEF TableStep
<1>6. QED  BY <1>1, <1>4, <1>5

LEMMA RetriedMove ==
    ASSUME IInv, NEW r \in Run, RunMoves(r)
    PROVE  RetriedOnlyAfterNoAnswer'
<1> SUFFICES ASSUME NEW l \in Lead, NEW i \in 1 .. Len(calls'[l]) - 1
             PROVE  calls'[l][i] = "silent"
  BY DEF RetriedOnlyAfterNoAnswer
<1>1. \/ calls' = calls
      \/ run[r].step = "post" /\ lead' = lead /\ calls' = Dialled(run[r].row.lead)
  BY MoveTable DEF IInv
<1>2. CASE calls'[l] = calls[l]  BY <1>2 DEF IInv, RetriedOnlyAfterNoAnswer
<1>3. CASE calls'[l] # calls[l]
  <2>1. run[r].step = "post" /\ calls' = Dialled(run[r].row.lead)  BY <1>1, <1>3
  <2>2. run[r].row.lead \in Lead  BY <2>1, AtWork DEF IInv
  <2>3. l = run[r].row.lead  BY <1>3, <2>1, <2>2, DialGrows DEF IInv
  <2>4. Calls(r, l)  BY <2>1, <2>3 DEF Calls
  <2>5. Quiet(l)  BY <2>1, <2>4 DEF IInv, CallerInv
  <2>6. /\ Len(calls'[l]) = Len(calls[l]) + 1
        /\ \A j \in 1 .. Len(calls[l]) : calls'[l][j] = calls[l][j]
    BY <2>1, <2>3, DialGrows DEF IInv
  <2>7. Len(calls[l]) \in Nat  BY DEF IInv, TypeOK
  <2>8. i \in 1 .. Len(calls[l])  BY <2>6, <2>7
  <2>9. QED  BY <2>5, <2>6, <2>8 DEF Quiet
<1>4. QED  BY <1>2, <1>3

Silent(l) == {i \in DOMAIN calls[l] : calls[l][i] = "silent"}

LEMMA SilentGrow ==
    ASSUME TypeOK, CallsGrow, NEW l \in Lead
    PROVE  /\ IsFiniteSet(Silent(l)) /\ Cardinality(Silent(l)) \in Nat
           /\ Cardinality(Silent(l)') \in Nat
           /\ Cardinality(Silent(l)) <= Cardinality(Silent(l)')
<1>1. calls[l] \in Seq(CallState) /\ calls'[l] \in Seq(CallState)
  BY DEF TypeOK, CallsGrow
<1>2. /\ DOMAIN calls[l] = 1 .. Len(calls[l]) /\ Len(calls[l]) \in Nat
      /\ DOMAIN calls'[l] = 1 .. Len(calls'[l]) /\ Len(calls'[l]) \in Nat
  BY <1>1
<1>3. IsFiniteSet(1 .. Len(calls[l])) /\ IsFiniteSet(1 .. Len(calls'[l]))
  BY <1>2, FS_Interval
<1>4. Silent(l) \subseteq 1 .. Len(calls[l]) /\ Silent(l)' \subseteq 1 .. Len(calls'[l])
  BY <1>2 DEF Silent
<1>5. IsFiniteSet(Silent(l)) /\ IsFiniteSet(Silent(l)')  BY <1>3, <1>4, FS_Subset
<1>6. Silent(l) \subseteq Silent(l)'
  <2>1. Len(calls[l]) <= Len(calls'[l]) /\ \A i \in 1 .. Len(calls[l]) :
            calls[l][i] = "silent" => calls'[l][i] = "silent"
    BY DEF CallsGrow
  <2>2. QED  BY <1>2, <2>1 DEF Silent
<1>7. Cardinality(Silent(l)) <= Cardinality(Silent(l)')  BY <1>5, <1>6, FS_Subset
<1>8. QED  BY <1>5, <1>7, FS_CardinalityType

LEMMA NoAnswerMove ==
    ASSUME IInv, NEW r \in Run, RunMoves(r)
    PROVE  NoAnswerMeansTwice'
<1>1. CallsGrow /\ TableStep(r)
  <2>1. /\ TableStep(r)
        /\ \/ calls' = calls
           \/ run[r].step = "post" /\ calls' = Dialled(run[r].row.lead)
    BY MoveTable DEF IInv
  <2>2. CASE calls' = calls  BY <2>1, <2>2, CallsKept DEF IInv
  <2>3. CASE run[r].step = "post" /\ calls' = Dialled(run[r].row.lead)
    <3>1. run[r].row.lead \in Lead  BY <2>3, AtWork DEF IInv
    <3>2. QED  BY <2>1, <2>3, <3>1, DialGrows DEF IInv
  <2>4. QED  BY <2>1, <2>2, <2>3
<1>2. SUFFICES ASSUME NEW l \in Lead, lead'[l].status = "no_answer"
               PROVE  Cardinality(Silent(l)') >= MAX_ATTEMPTS
  BY DEF NoAnswerMeansTwice, Silent
<1>3. /\ Cardinality(Silent(l)) \in Nat /\ Cardinality(Silent(l)') \in Nat
      /\ Cardinality(Silent(l)) <= Cardinality(Silent(l)')
  BY <1>1, SilentGrow DEF IInv
<1>4. Cardinality(Silent(l)) >= MAX_ATTEMPTS
  <2>1. CASE lead[l].status = "no_answer"
    BY <2>1 DEF IInv, NoAnswerMeansTwice, Silent
  <2>2. CASE lead[l].status # "no_answer"
    <3>1. lead'[l] # lead[l]  BY <1>2, <2>2
    <3>2. lead' # lead /\ l = run[r].row.lead  BY <1>1, <3>1, OthersRows
    <3>3. ~(run[r].step = "claim" /\ Writes(r, "pending", ClaimedRow(r)))
      BY <1>2, <3>2, ClaimedType DEF Writes, IInv
    <3>4. ~(run[r].step = "save" /\ Writes(r, "calling", SavedRow(r)))
      BY <1>2, <3>2, SavedType DEF Writes, IInv
    <3>5. /\ run[r].step = "patch" /\ lead'[l] = Patched(r)
          /\ lead[l].status = ReadWith(r)
      BY <1>1, <3>2, <3>3, <3>4 DEF TableStep, Writes
    <3>6. run[r].verdict = "no_answer"  BY <1>2, <3>5, PatchedType DEF IInv
    <3>7. lead[l].status = "calling"  BY <3>5, <3>6 DEF ReadWith
    <3>8. Quiet(l) /\ run[r].row.attempts <= Len(calls[l])
      BY <3>2, <3>5, <3>6, <3>7, VerdictHolds
    <3>9. run[r].row.attempts >= MAX_ATTEMPTS  BY <3>5, <3>6 DEF IInv, HeardInv
    <3>10. run[r].row.attempts \in Nat  BY <3>5, AtWork DEF IInv
    <3>11. calls[l] \in Seq(CallState)  BY DEF IInv, TypeOK
    <3>12. Len(calls[l]) \in Nat /\ DOMAIN calls[l] = 1 .. Len(calls[l])  BY <3>11
    <3>13. Silent(l) = 1 .. Len(calls[l])  BY <3>8, <3>12 DEF Silent, Quiet
    <3>14. Cardinality(1 .. Len(calls[l])) = Len(calls[l])  BY <3>12, FS_Interval
    <3>15. QED  BY <3>8, <3>9, <3>10, <3>12, <3>13, <3>14, Numbers
  <2>3. QED  BY <2>1, <2>2
<1>5. QED  BY <1>3, <1>4, Numbers

(* An unanswered call that a run holds is still unanswered afterwards.     *)
LEMMA StaysSilent ==
    ASSUME IInv, CallsGrow, NEW c \in Copy, NEW t \in Run, Holds(t, c), c.callId > 0,
           calls[c.lead][c.callId] = "silent"
    PROVE  calls'[c.lead][c.callId] = "silent"
<1>1. c.lead \in Lead /\ c.callId \in Nat  BY DEF Copy
<1>2. c.callId <= Len(calls[c.lead])  BY DEF IInv, CopyInv
<1>3. Len(calls[c.lead]) \in Nat  BY <1>1 DEF IInv, TypeOK
<1>4. c.callId \in 1 .. Len(calls[c.lead])  BY <1>1, <1>2, <1>3
<1>5. QED  BY <1>1, <1>4 DEF CallsGrow

LEMMA HeardMove ==
    ASSUME IInv, NEW r \in Run, RunMoves(r), CallsGrow
    PROVE  HeardInv'
<1> SUFFICES ASSUME NEW s \in Run, run'[s].step = "patch"
             PROVE  /\ run'[s].verdict \in {"requeue", "no_answer"} =>
                           /\ run'[s].row.callId > 0
                           /\ calls'[run'[s].row.lead][run'[s].row.callId] = "silent"
                    /\ run'[s].verdict = "no_answer" => run'[s].row.attempts >= MAX_ATTEMPTS
  BY DEF HeardInv
<1>1. Narrows(r) /\ Shape(r)'  BY MoveTable DEF IInv
<1>2. CASE s # r
  <2>1. run'[s] = run[s]  BY <1>1, <1>2 DEF Narrows
  <2>2. run[s].row \in Copy /\ Holds(s, run[s].row)  BY <2>1, AtWork DEF IInv, Holds
  <2>3. /\ run[s].verdict \in {"requeue", "no_answer"} =>
               run[s].row.callId > 0 /\ calls[run[s].row.lead][run[s].row.callId] = "silent"
        /\ run[s].verdict = "no_answer" => run[s].row.attempts >= MAX_ATTEMPTS
    BY <2>1 DEF IInv, HeardInv
  <2>4. QED  BY <2>1, <2>2, <2>3, StaysSilent
<1>3. CASE s = r /\ ~FollowUp(r)
  <2>1. SUFFICES ASSUME run'[r].verdict \in {"requeue", "no_answer"} PROVE FALSE
    BY <1>3
  <2>2. run'[r].phase = "following"  BY <1>1, <1>3, <2>1 DEF Shape, VerdictsIn
  <2>3. run[r].phase = "following"  BY <1>1, <2>2 DEF Narrows
  <2>4. run[r].step \notin {"claim", "post", "save"}  BY <2>3 DEF IInv, ShapeInv, Shape
  <2>5. \/ OutsideHours(r) \/ NoMoreCalls(r) \/ RunDies(r)
        \/ Patch(r) \/ TellKamva(r) \/ PatchFails(r)
    BY <1>3, <2>3, <2>4
       DEF RunMoves, RunStep, SkipStale, ReadBudget, StartCall, At, Claim, PostCall,
           CallRefused, CallUnanswered, SaveCall, StartCallFails
  <2>6. run'[r].step # "patch"
    <3>1. CASE OutsideHours(r) \/ NoMoreCalls(r) \/ RunDies(r)
      BY <3>1, OffNarrows DEF IInv
    <3>2. CASE Patch(r)  BY <3>2, PatchNarrows DEF IInv
    <3>3. CASE TellKamva(r)  BY <3>3, DoneNarrows DEF IInv, TellKamva
    <3>4. CASE PatchFails(r)  BY <3>4, PatchFailsNarrows DEF IInv
    <3>5. QED  BY <2>5, <3>1, <3>2, <3>3, <3>4
  <2>7. QED  BY <1>3, <2>6
<1>4. CASE s = r /\ FollowUp(r)
  <2>1. PICK row \in run[r].todo :
            /\ run'[r].row = row
            /\ run'[r].verdict \in {"requeue", "no_answer"} =>
                   /\ row.callId # 0
                   /\ run'[r].verdict = Heard(row, calls[row.lead][row.callId])
    BY <1>4, FollowUpNarrows DEF IInv
  <2>2. row \in Copy /\ Holds(r, row)  BY DEF IInv, TypeOK, RunState, Holds
  <2>3. /\ row.lead \in Lead /\ row.callId \in Nat /\ row.attempts \in Nat
        /\ row.callId <= Len(calls[row.lead])
    BY <2>2 DEF Copy, IInv, CopyInv
  <2>4. CASE run'[r].verdict \in {"requeue", "no_answer"}
    <3>1. row.callId > 0 /\ run'[r].verdict = Heard(row, calls[row.lead][row.callId])
      BY <2>1, <2>3, <2>4
    <3>2. calls[row.lead] \in Seq(CallState)  BY <2>3 DEF IInv, TypeOK
    <3>3. calls[row.lead][row.callId] \in CallState  BY <2>3, <3>1, <3>2
    <3>4. calls[row.lead][row.callId] = "silent"
      BY <2>4, <3>1, <3>3 DEF Heard, CallState
    <3>5. run'[r].verdict = "no_answer" => ~(row.attempts < MAX_ATTEMPTS)
      BY <3>1, <3>4 DEF Heard
    <3>6. run'[r].verdict = "no_answer" => row.attempts >= MAX_ATTEMPTS
      BY <2>3, <3>5, Numbers
    <3>7. QED  BY <1>4, <2>1, <2>2, <3>1, <3>4, <3>6, StaysSilent
  <2>5. CASE run'[r].verdict \notin {"requeue", "no_answer"}  BY <1>4, <2>5
  <2>6. QED  BY <2>4, <2>5
<1>5. QED  BY <1>2, <1>3, <1>4

LEMMA MoveGrows ==
    ASSUME IInv, NEW r \in Run, RunMoves(r)
    PROVE  CallsGrow
<1>1. \/ calls' = calls
      \/ run[r].step = "post" /\ calls' = Dialled(run[r].row.lead)
  BY MoveTable DEF IInv
<1>2. CASE calls' = calls  BY <1>2, CallsKept DEF IInv
<1>3. CASE run[r].step = "post" /\ calls' = Dialled(run[r].row.lead)
  <2>1. run[r].row.lead \in Lead  BY <1>3, AtWork DEF IInv
  <2>2. QED  BY <1>3, <2>1, DialGrows DEF IInv
<1>4. QED  BY <1>1, <1>2, <1>3

LEMMA MoveType ==
    ASSUME IInv, NEW r \in Run, RunMoves(r)
    PROVE  TypeOK'
<1>1. /\ Narrows(r) /\ TableStep(r) /\ UNCHANGED <<world, fired>>
      /\ failures' \in 0 .. MaxFailures
  BY MoveTable DEF IInv
<1>2. CallsGrow  BY MoveGrows
<1>3. /\ run' \in [Run -> RunState]
      /\ \A s \in Run : run'[s].step # "loop" => run'[s].row \in Copy
  BY <1>1 DEF Narrows, IInv, TypeOK
<1>4. lead' \in [Lead -> LeadRow]  BY <1>1 DEF TableStep, Writes, IInv, TypeOK
<1>5. ASSUME NEW l \in Lead PROVE lead'[l].callId \in 0 .. Len(calls'[l])
  <2>1. /\ lead[l].callId \in 0 .. Len(calls[l]) /\ Len(calls[l]) \in Nat
        /\ Len(calls'[l]) \in Nat /\ Len(calls[l]) <= Len(calls'[l])
    BY <1>2 DEF IInv, TypeOK, CallsGrow
  <2>2. lead'[l].callId \in Nat  BY <1>4 DEF LeadRow
  <2>3. lead'[l].callId <= Len(calls[l])
    <3>1. CASE lead' = lead \/ l # run[r].row.lead
      <4>1. lead'[l] = lead[l]  BY <1>1, <3>1, OthersRows
      <4>2. QED  BY <2>1, <4>1
    <3>2. CASE l = run[r].row.lead /\ run[r].step = "claim" /\ Writes(r, "pending", ClaimedRow(r))
      BY <2>1, <3>2, ClaimedType DEF IInv, Writes
    <3>3. CASE l = run[r].row.lead /\ run[r].step = "save" /\ Writes(r, "calling", SavedRow(r))
      <4>1. lead'[l].callId = run[r].callId  BY <3>3, SavedType DEF IInv, Writes
      <4>2. Calls(r, l)  BY <3>3 DEF Calls
      <4>3. run[r].callId = Len(calls[l])  BY <3>3, <4>2 DEF IInv, CallerInv
      <4>4. QED  BY <2>1, <4>1, <4>3
    <3>4. CASE l = run[r].row.lead /\ run[r].step = "patch" /\ Writes(r, ReadWith(r), Patched(r))
      <4>1. Patched(r).callId \in {0, lead[l].callId}  BY <3>4, PatchedType DEF IInv
      <4>2. QED  BY <2>1, <3>4, <4>1 DEF Writes
    <3>5. QED  BY <1>1, <3>1, <3>2, <3>3, <3>4 DEF TableStep
  <2>4. QED  BY <2>1, <2>2, <2>3
<1>6. told' \in [Lead -> Nat] /\ unmailed' \subseteq Lead
  <2>1. told \in [Lead -> Nat] /\ unmailed \subseteq Lead  BY DEF IInv, TypeOK
  <2>2. CASE TellKamva(r)
    <3>1. run[r].row.lead \in Lead  BY <2>2, AtWork DEF IInv, TellKamva
    <3>2. QED  BY <2>1, <2>2, <3>1 DEF TellKamva, history
  <2>3. CASE RunDies(r)
    <3>1. run[r].step = "tell" => run[r].row.lead \in Lead  BY AtWork DEF IInv
    <3>2. QED  BY <2>1, <2>3, <3>1 DEF RunDies
  <2>4. CASE PatchFails(r)
    <3>1. run[r].row.lead \in Lead  BY <2>4, AtWork DEF IInv, PatchFails
    <3>2. QED  BY <2>1, <2>4, <3>1 DEF PatchFails
  <2>5. CASE ~TellKamva(r) /\ ~RunDies(r) /\ ~PatchFails(r)
    <3>1. told' = told /\ unmailed' = unmailed
      BY <2>5 DEF RunMoves, RunStep, FollowUp, OutsideHours, SkipStale, ReadBudget,
                  NoMoreCalls, StartCall, StartCallFails, Claim, PostCall, CallRefused,
                  CallUnanswered, SaveCall, Patch, history
    <3>2. QED  BY <2>1, <3>1
  <2>6. QED  BY <2>2, <2>3, <2>4, <2>5
<1>7. QED  BY <1>1, <1>2, <1>3, <1>4, <1>5, <1>6 DEF TypeOK, IInv, CallsGrow, world

-----------------------------------------------------------------------------
(* What Kamva has been told                                                *)

(* Nothing happens to a lead that its email depends on.                    *)
LEMMA MailSame ==
    ASSUME NEW l \in Lead, Mail(l), told'[l] = told[l],
           l \in unmailed => l \in unmailed',
           l \in contacted => l \in contacted',
           \A s \in Run : Telling(s, l)' <=> Telling(s, l),
           \/ lead'[l].status = lead[l].status
           \/ lead'[l].status \notin Settled /\ lead[l].status \notin Settled
    PROVE  Mail(l)'
<1>1. lead'[l].status \in Settled <=> lead[l].status \in Settled  OBVIOUS
<1>2. lead'[l].status \in Settled => lead'[l].status = lead[l].status  OBVIOUS
<1>3. told'[l] <= 1 /\ (told'[l] = 1 => lead'[l].status \in Settled)
  BY <1>1 DEF Mail
<1>4. lead'[l].status \in Settled /\ told'[l] = 0 =>
          \/ l \in unmailed'
          \/ lead'[l].status = "skipped" /\ l \in contacted'
          \/ \E r \in Run : Telling(r, l)'
  BY <1>1, <1>2 DEF Mail
<1>5. \A r \in Run : Telling(r, l)' =>
          /\ lead'[l].status \in Settled
          /\ told'[l] = 0
          /\ \A s \in Run : Telling(s, l)' => s = r
  BY <1>1 DEF Mail
<1>6. QED  BY <1>3, <1>4, <1>5 DEF Mail

(* The row of a run at a step other than a verdict is not settled by it.   *)
LEMMA StatusKept ==
    ASSUME IInv, NEW r \in Run, TableStep(r), NEW l \in Lead,
           run[r].step # "patch" \/ l # run[r].row.lead
    PROVE  \/ lead'[l].status = lead[l].status
           \/ lead'[l].status \notin Settled /\ lead[l].status \notin Settled
<1>1. CASE lead' = lead \/ l # run[r].row.lead
  BY <1>1, OthersRows
<1>2. CASE l = run[r].row.lead /\ run[r].step = "claim" /\ Writes(r, "pending", ClaimedRow(r))
  BY <1>2, ClaimedType DEF IInv, Writes, Settled
<1>3. CASE l = run[r].row.lead /\ run[r].step = "save" /\ Writes(r, "calling", SavedRow(r))
  BY <1>3, SavedType DEF IInv, Writes, Settled
<1>4. QED  BY <1>1, <1>2, <1>3 DEF TableStep

(* A verdict settles the lead of the row, or leaves it unsettled.          *)
LEMMA VerdictMails ==
    ASSUME IInv, NEW r \in Run, Narrows(r), run[r].step = "patch",
           told' = told, unmailed \subseteq unmailed', contacted' = contacted,
           updateLead(run[r].row.lead, ReadWith(r), Patched(r)),
           IF Owed(r) THEN \/ run'[r].step = "tell" /\ run'[r].row = run[r].row
                           \/ run'[r].step = "loop" /\ run[r].row.lead \in unmailed'
           ELSE run'[r].step = "loop"
    PROVE  MailInv'
<1>0. run[r].row.lead \in Lead /\ run[r].row \in Copy  BY AtWork DEF IInv
<1>1. PICK l \in Lead : l = run[r].row.lead  BY <1>0
<1>2. /\ \A k \in Lead : k # l => lead'[k] = lead[k]
      /\ lead[l].status = ReadWith(r) => lead'[l] = Patched(r)
      /\ lead[l].status # ReadWith(r) => lead'[l] = lead[l]
  BY <1>1, PatchedType, Updated DEF IInv
<1>3. \A s \in Run : s # r => run'[s] = run[s]  BY DEF Narrows
<1>4. \A k \in Lead : ~Telling(r, k)  BY DEF Telling
<1>5. ASSUME NEW k \in Lead, ~Telling(r, k)',
             \/ lead'[k].status = lead[k].status
             \/ lead'[k].status \notin Settled /\ lead[k].status \notin Settled
      PROVE  Mail(k)'
  <2>1. \A s \in Run : Telling(s, k)' <=> Telling(s, k)
    BY <1>3, <1>4, <1>5 DEF Telling
  <2>2. Mail(k)  BY DEF IInv, MailInv
  <2>3. QED  BY <1>5, <2>1, <2>2, MailSame
<1>6. ASSUME NEW k \in Lead, k # l PROVE Mail(k)'
  <2>1. ~Telling(r, k)'  BY <1>1, <1>6 DEF Telling
  <2>2. QED  BY <1>2, <1>5, <1>6, <2>1
<1>7. Mail(l)'
  <2>1. CASE lead[l].status # ReadWith(r)
    <3>1. ~Telling(r, l)'  BY <1>1, <2>1 DEF Telling, Owed
    <3>2. QED  BY <1>1, <1>2, <1>5, <2>1, <3>1
  <2>2. CASE lead[l].status = ReadWith(r) /\ run[r].verdict \in {"requeue", "backOff"}
    <3>1. ~Telling(r, l)'  BY <1>1, <2>2 DEF Telling, Owed, Mailed
    <3>2. Patched(r).status = "pending" /\ lead[l].status = "calling"
      BY <1>1, <2>2, PatchedType DEF IInv, ReadWith
    <3>3. QED  BY <1>1, <1>2, <1>5, <2>2, <3>1, <3>2 DEF Settled
  <2>3. CASE lead[l].status = ReadWith(r) /\ run[r].verdict \notin {"requeue", "backOff"}
    <3>1. lead[l].status \notin Settled  BY <2>3 DEF ReadWith, Settled
    <3>2. lead'[l].status \in Settled
      BY <1>1, <1>2, <2>3, PatchedType DEF IInv
    <3>3. Mail(l)  BY <1>1 DEF IInv, MailInv
    <3>4. told[l] \in Nat  BY <1>1 DEF IInv, TypeOK
    <3>5. told'[l] = 0  BY <3>1, <3>3, <3>4 DEF Mail
    <3>6. \A s \in Run : ~Telling(s, l)  BY <3>1, <3>3 DEF Mail
    <3>7. \A s \in Run : Telling(s, l)' => s = r  BY <1>3, <3>6 DEF Telling
    <3>8. \/ l \in unmailed'
          \/ lead'[l].status = "skipped" /\ l \in contacted'
          \/ \E s \in Run : Telling(s, l)'
      <4>1. CASE Owed(r)
        <5>1. Telling(r, l)' \/ l \in unmailed'  BY <1>1, <4>1 DEF Telling
        <5>2. QED  BY <5>1
      <4>2. CASE ~Owed(r)
        <5>1. run[r].verdict = "skipped" /\ run[r].row.contacted
          BY <1>1, <2>3, <4>2 DEF Owed, Mailed
        <5>2. lead'[l].status = "skipped"  BY <1>1, <1>2, <2>3, <5>1, PatchedType DEF IInv
        <5>3. Holds(r, run[r].row)  BY DEF Holds
        <5>4. l \in contacted  BY <1>0, <1>1, <5>1, <5>3 DEF IInv, CopyInv
        <5>5. QED  BY <5>2, <5>4
      <4>3. QED  BY <4>1, <4>2
    <3>9. QED  BY <3>2, <3>5, <3>7, <3>8 DEF Mail
  <2>4. QED  BY <2>1, <2>2, <2>3
<1>8. QED  BY <1>6, <1>7 DEF MailInv

LEMMA MailMove ==
    ASSUME IInv, NEW r \in Run, RunMoves(r)
    PROVE  MailInv'
<1>1. Narrows(r) /\ TableStep(r) /\ UNCHANGED world  BY MoveTable DEF IInv
<1>2. contacted' = contacted  BY <1>1 DEF world
<1>3. \A s \in Run : s # r => run'[s] = run[s]  BY <1>1 DEF Narrows
<1>4. CASE Patch(r)
  <2>1. IF Owed(r) THEN run'[r].step = "tell" /\ run'[r].row = run[r].row
        ELSE run'[r].step = "loop"
    BY <1>4, PatchNarrows DEF IInv
  <2>2. /\ run[r].step = "patch" /\ told' = told /\ unmailed' = unmailed
        /\ updateLead(run[r].row.lead, ReadWith(r), Patched(r))
    BY <1>4 DEF Patch, history
  <2>3. QED  BY <1>1, <1>2, <2>1, <2>2, VerdictMails
<1>5. CASE PatchFails(r) /\ lead' = lead /\ unmailed' = unmailed
  <2>1. run'[r].step = "loop" /\ run[r].step # "tell" /\ told' = told
    BY <1>5, PatchFailsNarrows DEF IInv, PatchFails
  <2>2. \A s \in Run, l \in Lead : Telling(s, l)' <=> Telling(s, l)
    BY <1>3, <2>1 DEF Telling
  <2>3. QED  BY <1>2, <1>5, <2>1, <2>2, MailSame DEF IInv, MailInv
<1>6. CASE PatchFails(r) /\ run[r].step = "patch"
           /\ updateLead(run[r].row.lead, ReadWith(r), Patched(r))
           /\ unmailed' = IF Owed(r) THEN unmailed \cup {run[r].row.lead} ELSE unmailed
  <2>1. run'[r].step = "loop" /\ told' = told
    BY <1>6, PatchFailsNarrows DEF IInv, PatchFails
  <2>2. QED  BY <1>1, <1>2, <1>6, <2>1, VerdictMails
<1>7. CASE TellKamva(r)
  <2>1. run[r].step = "tell" /\ run'[r].step = "loop" /\ lead' = lead
    BY <1>7, DoneNarrows DEF IInv, TellKamva
  <2>2. PICK l \in Lead : l = run[r].row.lead  BY <2>1, AtWork DEF IInv
  <2>3. Mail(l) /\ told[l] \in Nat  BY <2>2 DEF IInv, MailInv, TypeOK
  <2>4. Telling(r, l)  BY <2>1, <2>2 DEF Telling
  <2>5. /\ lead[l].status \in Settled /\ told[l] = 0
        /\ \A s \in Run : Telling(s, l) => s = r
    BY <2>3, <2>4 DEF Mail
  <2>6. \A s \in Run : ~Telling(s, l)'  BY <1>3, <2>1, <2>5 DEF Telling
  <2>7. \/ told' = [told EXCEPT ![l] = @ + 1] /\ unmailed' = unmailed
        \/ told' = told /\ unmailed' = unmailed \cup {l}
    BY <1>7, <2>2 DEF TellKamva, history
  <2>8. told'[l] = 1 \/ (told'[l] = 0 /\ l \in unmailed')
    <3>1. told \in [Lead -> Nat]  BY DEF IInv, TypeOK
    <3>2. CASE told' = [told EXCEPT ![l] = @ + 1]
      <4>1. told'[l] = told[l] + 1  BY <2>2, <3>1, <3>2
      <4>2. QED  BY <2>5, <4>1
    <3>3. CASE told' = told /\ unmailed' = unmailed \cup {l}  BY <2>5, <3>3
    <3>4. QED  BY <2>7, <3>2, <3>3
  <2>9. Mail(l)'  BY <2>1, <2>5, <2>6, <2>8 DEF Mail
  <2>10. ASSUME NEW k \in Lead, k # l PROVE Mail(k)'
    <3>1. Mail(k) /\ told'[k] = told[k] /\ (k \in unmailed => k \in unmailed')
      BY <2>7, <2>10 DEF IInv, MailInv, TypeOK
    <3>2. \A s \in Run : Telling(s, k)' <=> Telling(s, k)
      BY <1>3, <2>1, <2>2, <2>10 DEF Telling
    <3>3. QED  BY <1>2, <2>1, <3>1, <3>2, MailSame
  <2>11. QED  BY <2>9, <2>10 DEF MailInv
<1>8. CASE RunDies(r)
  <2>1. /\ run'[r].step = "loop" /\ lead' = lead /\ told' = told
        /\ unmailed' = IF run[r].step = "tell" THEN unmailed \cup {run[r].row.lead}
                       ELSE unmailed
    BY <1>8, OffNarrows DEF IInv, RunDies
  <2>2. ASSUME NEW k \in Lead, ~Telling(r, k) PROVE Mail(k)'
    <3>1. Mail(k) /\ (k \in unmailed => k \in unmailed')
      BY <2>1 DEF IInv, MailInv
    <3>2. \A s \in Run : Telling(s, k)' <=> Telling(s, k)
      BY <1>3, <2>1, <2>2 DEF Telling
    <3>3. QED  BY <1>2, <2>1, <3>1, <3>2, MailSame
  <2>3. ASSUME NEW k \in Lead, Telling(r, k) PROVE Mail(k)'
    <3>1. Mail(k)  BY DEF IInv, MailInv
    <3>2. /\ lead[k].status \in Settled /\ told[k] = 0
          /\ \A s \in Run : Telling(s, k) => s = r
      BY <2>3, <3>1 DEF Mail
    <3>3. \A s \in Run : ~Telling(s, k)'  BY <1>3, <2>1, <3>2 DEF Telling
    <3>4. k \in unmailed'  BY <2>1, <2>3 DEF Telling
    <3>5. QED  BY <2>1, <3>2, <3>3, <3>4 DEF Mail
  <2>4. QED  BY <2>2, <2>3 DEF MailInv
<1>9. CASE /\ ~TellKamva(r) /\ ~RunDies(r) /\ ~Patch(r)
           /\ PatchFails(r) => run[r].step \in {"claim", "save"} /\ unmailed' = unmailed
  <2>1. told' = told /\ unmailed' = unmailed /\ run[r].step \notin {"patch", "tell"}
    BY <1>9 DEF RunMoves, RunStep, FollowUp, OutsideHours, SkipStale, ReadBudget,
                NoMoreCalls, StartCall, StartCallFails, Claim, PostCall, CallRefused,
                CallUnanswered, SaveCall, PatchFails, history, At
  <2>2. run'[r].step # "tell"
    <3>1. CASE FollowUp(r)
      <4>1. PICK row \in run[r].todo, verdict \in Verdict :
                Goes(r, IF verdict = "none" THEN [run[r] EXCEPT !.todo = @ \ {row}]
                        ELSE Deciding(r, row, verdict))
        BY <3>1 DEF FollowUp
      <4>2. run[r] \in RunState /\ run[r].step = "loop"
        BY <3>1 DEF IInv, TypeOK, FollowUp, At
      <4>3. Deciding(r, row, verdict).step = "patch"  BY DecidingType DEF IInv
      <4>4. [run[r] EXCEPT !.todo = @ \ {row}].step = "loop"  BY <4>2 DEF RunState
      <4>5. run'[r] = IF verdict = "none" THEN [run[r] EXCEPT !.todo = @ \ {row}]
                      ELSE Deciding(r, row, verdict)
        BY <4>1 DEF Goes, IInv, TypeOK
      <4>6. QED  BY <4>3, <4>4, <4>5
    <3>2. CASE OutsideHours(r) \/ NoMoreCalls(r)  BY <3>2, OffNarrows DEF IInv
    <3>3. CASE SkipStale(r)  BY <3>3, SkipStaleNarrows DEF IInv
    <3>4. CASE ReadBudget(r)  BY <3>4, ReadBudgetNarrows DEF IInv
    <3>5. CASE StartCall(r)  BY <3>5, StartCallNarrows DEF IInv
    <3>6. CASE StartCallFails(r)  BY <3>6, StartCallFailsNarrows DEF IInv
    <3>7. CASE Claim(r)  BY <3>7, ClaimNarrows DEF IInv
    <3>8. CASE PostCall(r)  BY <3>8, PostCallNarrows DEF IInv
    <3>9. CASE CallRefused(r) \/ CallUnanswered(r)  BY <3>9, PostFailedNarrows DEF IInv
    <3>10. CASE SaveCall(r)  BY <3>10, SaveCallNarrows DEF IInv
    <3>11. CASE PatchFails(r)  BY <3>11, PatchFailsNarrows DEF IInv
    <3>12. QED
      BY <1>9, <3>1, <3>2, <3>3, <3>4, <3>5, <3>6, <3>7, <3>8, <3>9, <3>10, <3>11
         DEF RunMoves, RunStep
  <2>3. \A s \in Run, k \in Lead : Telling(s, k)' <=> Telling(s, k)
    BY <1>3, <2>1, <2>2 DEF Telling
  <2>4. ASSUME NEW k \in Lead PROVE Mail(k)'
    <3>1. \/ lead'[k].status = lead[k].status
          \/ lead'[k].status \notin Settled /\ lead[k].status \notin Settled
      BY <1>1, <2>1, StatusKept
    <3>2. Mail(k)  BY DEF IInv, MailInv
    <3>3. QED  BY <1>2, <2>1, <2>3, <3>1, <3>2, MailSame
  <2>5. QED  BY <2>4 DEF MailInv
<1>10. PatchFails(r) =>
           \/ run[r].step \in {"claim", "save"} /\ unmailed' = unmailed
           \/ lead' = lead /\ unmailed' = unmailed
           \/ /\ run[r].step = "patch"
              /\ updateLead(run[r].row.lead, ReadWith(r), Patched(r))
              /\ unmailed' = IF Owed(r) THEN unmailed \cup {run[r].row.lead} ELSE unmailed
  BY DEF PatchFails
<1>11. QED  BY <1>4, <1>5, <1>6, <1>7, <1>8, <1>9, <1>10

LEMMA MoveStep ==
    ASSUME IInv, NEW r \in Run, RunMoves(r)
    PROVE  IInv'
<1>1. Narrows(r) /\ Shape(r)' /\ TableStep(r) /\ UNCHANGED world
  BY MoveTable DEF IInv
<1>2. CallsGrow /\ contacted' = contacted  BY <1>1, MoveGrows DEF world
<1>3. TypeOK'  BY MoveType
<1>4. ShapeInv'  BY <1>1, ShapesKept DEF IInv
<1>5. CopyInv'  BY <1>1, <1>2, CopyMove
<1>6. LeadInv' /\ CallerInv'  BY LeadMove, CallerMove
<1>7. FollowedInv' /\ DueInv'  BY <1>1, FollowedMove, DueMove
<1>8. HeardInv'  BY <1>2, HeardMove
<1>9. RetriedOnlyAfterNoAnswer' /\ NoAnswerMeansTwice'  BY RetriedMove, NoAnswerMove
<1>10. MailInv'  BY MailMove
<1>11. QED  BY <1>3, <1>4, <1>5, <1>6, <1>7, <1>8, <1>9, <1>10 DEF IInv

-----------------------------------------------------------------------------
(* The steps that are not a run's own                                      *)

(* Time passes and calls end: no run gets on, and no row changes hands.    *)
LEMMA Around ==
    ASSUME IInv, TypeOK', CallsGrow,
           \A l \in Lead : Len(calls'[l]) = Len(calls[l]),
           \A s \in Run :
               /\ run'[s].phase = run[s].phase /\ run'[s].step = run[s].step
               /\ run'[s].todo = run[s].todo /\ run'[s].row = run[s].row
               /\ run'[s].verdict = run[s].verdict /\ run'[s].callId = run[s].callId
               /\ run'[s].budget = run[s].budget /\ run'[s].seen = run[s].seen,
           \A l \in Lead :
               /\ lead'[l].status = lead[l].status /\ lead'[l].callId = lead[l].callId
               /\ lead'[l].attempts = lead[l].attempts,
           \A s \in Run, l \in Lead :
               run[s].phase = "following" /\ lead[l].nextIn > MaxRun - run[s].late
                   => lead'[l].nextIn > MaxRun - run'[s].late,
           contacted \subseteq contacted', told' = told, unmailed' = unmailed
    PROVE  IInv'
<1>1. /\ \A s \in Run, c \in Copy : Holds(s, c)' <=> Holds(s, c)
      /\ \A s \in Run, c \in Copy : Follows(s, c)' <=> Follows(s, c)
  BY DEF Holds, Follows
<1>2. \A s \in Run, l \in Lead : Plans(s, l)' <=> Plans(s, l)  BY DEF Plans
<1>3. \A s \in Run, l \in Lead : Calls(s, l)' <=> Calls(s, l)  BY DEF Calls
<1>4. \A s \in Run, l \in Lead : Telling(s, l)' <=> Telling(s, l)  BY DEF Telling
<1>5. \A l \in Lead : Quiet(l) => Quiet(l)'  BY DEF Quiet, CallsGrow
<1>6. ShapeInv'  BY DEF IInv, ShapeInv, Shape
<1>7. CopyInv'
  <2>1. SUFFICES ASSUME NEW s \in Run, NEW c \in Copy, Holds(s, c)'
                 PROVE  /\ c.contacted => c.lead \in contacted'
                        /\ c.attempts <= Len(calls'[c.lead])
                        /\ c.callId <= Len(calls'[c.lead])
                        /\ run'[s].phase = "following" /\ c.callId > 0 =>
                               c.attempts <= c.callId
    BY DEF CopyInv
  <2>2. /\ c.contacted => c.lead \in contacted
        /\ c.attempts <= Len(calls[c.lead])
        /\ c.callId <= Len(calls[c.lead])
        /\ run[s].phase = "following" /\ c.callId > 0 => c.attempts <= c.callId
    BY <1>1, <2>1 DEF IInv, CopyInv
  <2>3. c.lead \in Lead  BY DEF Copy
  <2>4. QED  BY <2>2, <2>3
<1>8. LeadInv'  BY <1>5 DEF IInv, LeadInv
<1>9. CallerInv'
  <2>1. SUFFICES ASSUME NEW s \in Run, NEW l \in Lead, Calls(s, l)'
                 PROVE  /\ lead'[l].status \in InQueue =>
                               lead'[l].status = "calling" /\ lead'[l].callId = 0
                        /\ \A t \in Run : Calls(t, l)' => t = s
                        /\ run'[s].step = "save" =>
                               /\ run'[s].callId = Len(calls'[l])
                               /\ run'[s].row.attempts < run'[s].callId
                        /\ run'[s].step = "post" => Quiet(l)'
                        /\ run'[s].step = "patch" /\ run'[s].verdict = "backOff" => Quiet(l)'
    BY DEF CallerInv
  <2>2. Calls(s, l)  BY <1>3, <2>1
  <2>3. /\ lead[l].status \in InQueue => lead[l].status = "calling" /\ lead[l].callId = 0
        /\ \A t \in Run : Calls(t, l) => t = s
        /\ run[s].step = "save" =>
               run[s].callId = Len(calls[l]) /\ run[s].row.attempts < run[s].callId
        /\ run[s].step = "post" => Quiet(l)
        /\ run[s].step = "patch" /\ run[s].verdict = "backOff" => Quiet(l)
    BY <2>2 DEF IInv, CallerInv
  <2>4. QED  BY <1>3, <1>5, <2>3
<1>10. FollowedInv'
  <2>1. SUFFICES ASSUME NEW s \in Run, NEW c \in Copy, Follows(s, c)', c.callId > 0
                 PROVE  \/ /\ lead'[c.lead].status = "calling"
                           /\ lead'[c.lead].callId = c.callId
                        \/ /\ lead'[c.lead].status = "pending"
                           /\ lead'[c.lead].nextIn > MaxRun - run'[s].late
                           /\ \A t \in Run : ~Plans(t, c.lead)'
                        \/ lead'[c.lead].status \in Settled
    BY DEF FollowedInv
  <2>2. c.lead \in Lead /\ Follows(s, c) /\ run[s].phase = "following"
    BY <1>1, <2>1 DEF Copy, Follows
  <2>3. \/ lead[c.lead].status = "calling" /\ lead[c.lead].callId = c.callId
        \/ /\ lead[c.lead].status = "pending"
           /\ lead[c.lead].nextIn > MaxRun - run[s].late
           /\ \A t \in Run : ~Plans(t, c.lead)
        \/ lead[c.lead].status \in Settled
    BY <2>1, <2>2 DEF IInv, FollowedInv
  <2>4. QED  BY <1>2, <2>2, <2>3
<1>11. HeardInv'
  <2>1. SUFFICES ASSUME NEW s \in Run, run'[s].step = "patch"
                 PROVE  /\ run'[s].verdict \in {"requeue", "no_answer"} =>
                               /\ run'[s].row.callId > 0
                               /\ calls'[run'[s].row.lead][run'[s].row.callId] = "silent"
                        /\ run'[s].verdict = "no_answer" =>
                               run'[s].row.attempts >= MAX_ATTEMPTS
    BY DEF HeardInv
  <2>2. run[s].row \in Copy /\ Holds(s, run[s].row)  BY <2>1, AtWork DEF IInv, Holds
  <2>3. /\ run[s].verdict \in {"requeue", "no_answer"} =>
               run[s].row.callId > 0 /\ calls[run[s].row.lead][run[s].row.callId] = "silent"
        /\ run[s].verdict = "no_answer" => run[s].row.attempts >= MAX_ATTEMPTS
    BY <2>1 DEF IInv, HeardInv
  <2>4. QED  BY <2>2, <2>3, StaysSilent
<1>12. DueInv'
  <2>1. SUFFICES ASSUME NEW f \in Run, NEW s \in Run, NEW c \in Copy,
                        Plans(s, c.lead)', Follows(f, c)', c.callId > 0,
                        lead'[c.lead].status = "calling"
                 PROVE  /\ run'[s].seen
                        /\ \A t \in Run, d \in Copy :
                               Follows(t, d)' /\ d.callId > 0 /\ d.lead = c.lead => t = f
    BY DEF DueInv
  <2>2. c.lead \in Lead  BY DEF Copy
  <2>3. Plans(s, c.lead) /\ Follows(f, c) /\ lead[c.lead].status = "calling"
    BY <1>1, <1>2, <2>1, <2>2
  <2>4. /\ run[s].seen
        /\ \A t \in Run, d \in Copy :
               Follows(t, d) /\ d.callId > 0 /\ d.lead = c.lead => t = f
    BY <2>1, <2>3 DEF IInv, DueInv
  <2>5. QED  BY <1>1, <2>4
<1>13. RetriedOnlyAfterNoAnswer'
  <2>1. SUFFICES ASSUME NEW l \in Lead, NEW i \in 1 .. Len(calls'[l]) - 1
                 PROVE  calls'[l][i] = "silent"
    BY DEF RetriedOnlyAfterNoAnswer
  <2>2. Len(calls[l]) \in Nat /\ Len(calls'[l]) = Len(calls[l])  BY DEF IInv, TypeOK
  <2>3. i \in 1 .. Len(calls[l]) /\ i \in 1 .. Len(calls[l]) - 1  BY <2>2
  <2>4. calls[l][i] = "silent"  BY <2>3 DEF IInv, RetriedOnlyAfterNoAnswer
  <2>5. QED  BY <2>3, <2>4 DEF CallsGrow
<1>14. NoAnswerMeansTwice'
  <2>1. SUFFICES ASSUME NEW l \in Lead, lead'[l].status = "no_answer"
                 PROVE  Cardinality(Silent(l)') >= MAX_ATTEMPTS
    BY DEF NoAnswerMeansTwice, Silent
  <2>2. Cardinality(Silent(l)) >= MAX_ATTEMPTS
    BY <2>1 DEF IInv, NoAnswerMeansTwice, Silent
  <2>3. /\ Cardinality(Silent(l)) \in Nat /\ Cardinality(Silent(l)') \in Nat
        /\ Cardinality(Silent(l)) <= Cardinality(Silent(l)')
    BY SilentGrow DEF IInv
  <2>4. QED  BY <2>2, <2>3, Numbers
<1>15. MailInv'
  <2>1. ASSUME NEW l \in Lead PROVE Mail(l)'
    <3>1. Mail(l)  BY DEF IInv, MailInv
    <3>2. QED  BY <1>4, <3>1, MailSame
  <2>2. QED  BY <2>1 DEF MailInv
<1>16. QED
  BY <1>6, <1>7, <1>8, <1>9, <1>10, <1>11, <1>12, <1>13, <1>14, <1>15 DEF IInv

LEMMA TickStep ==
    ASSUME IInv, Tick
    PROVE  IInv'
<1>1. run \in [Run -> RunState] /\ lead \in [Lead -> LeadRow]  BY DEF IInv, TypeOK
<1>2. ASSUME NEW s \in Run
      PROVE  /\ run'[s] \in RunState
             /\ run'[s].phase = run[s].phase /\ run'[s].step = run[s].step
             /\ run'[s].todo = run[s].todo /\ run'[s].row = run[s].row
             /\ run'[s].verdict = run[s].verdict /\ run'[s].callId = run[s].callId
             /\ run'[s].budget = run[s].budget /\ run'[s].seen = run[s].seen
             /\ run[s].phase # "off" => run'[s].late = run[s].late + 1
  <2>1. run[s] \in RunState /\ run[s].late \in 0 .. MaxRun  BY <1>1 DEF RunState
  <2>2. CASE run[s].phase = "off"  BY <2>1, <2>2 DEF Tick
  <2>3. CASE run[s].phase # "off"
    <3>1. run'[s] = [run[s] EXCEPT !.late = @ + 1]  BY <2>3 DEF Tick
    <3>2. run[s].late < MaxRun  BY <2>3 DEF Tick
    <3>3. run[s].late + 1 \in 0 .. MaxRun  BY <2>1, <3>2, Numbers
    <3>4. QED  BY <2>1, <3>1, <3>3 DEF RunState
  <2>4. QED  BY <2>2, <2>3
<1>3. ASSUME NEW l \in Lead
      PROVE  /\ lead'[l] \in LeadRow
             /\ lead'[l].status = lead[l].status /\ lead'[l].callId = lead[l].callId
             /\ lead'[l].attempts = lead[l].attempts
             /\ lead'[l].nextIn = IF lead[l].nextIn > -MaxRun THEN lead[l].nextIn - 1
                                  ELSE lead[l].nextIn
  <2> DEFINE age == IF lead[l].age < Ages - 1 THEN lead[l].age + 1 ELSE lead[l].age
  <2> DEFINE next == IF lead[l].nextIn > -MaxRun THEN lead[l].nextIn - 1 ELSE lead[l].nextIn
  <2>1. lead[l] \in LeadRow /\ lead[l].age \in 0 .. Ages /\ lead[l].nextIn \in Int
    BY <1>1 DEF LeadRow
  <2>2. lead'[l] = [lead[l] EXCEPT !.age = age, !.nextIn = next]  BY DEF Tick
  <2>3. age \in 0 .. Ages /\ next \in Int  BY <2>1, Numbers
  <2> HIDE DEF age, next
  <2>4. lead'[l] \in LeadRow /\ lead'[l].nextIn = next
        /\ lead'[l].status = lead[l].status /\ lead'[l].callId = lead[l].callId
        /\ lead'[l].attempts = lead[l].attempts
    BY <2>1, <2>2, <2>3 DEF LeadRow
  <2>5. QED  BY <2>4 DEF next
<1>4. UNCHANGED <<world, calls, told, history>> /\ fired' = FALSE  BY DEF Tick
<1>5. CallsGrow /\ \A l \in Lead : Len(calls'[l]) = Len(calls[l])
  BY <1>4, CallsKept DEF IInv
<1>6. run' \in [Run -> RunState] /\ lead' \in [Lead -> LeadRow]
  BY <1>2, <1>3 DEF Tick
<1>7. TypeOK'
  <2>1. \A s \in Run : run'[s].step # "loop" => run'[s].row \in Copy
    BY <1>2 DEF IInv, TypeOK
  <2>2. \A l \in Lead : lead'[l].callId \in 0 .. Len(calls'[l])
    BY <1>3, <1>4 DEF IInv, TypeOK
  <2>3. QED  BY <1>4, <1>6, <2>1, <2>2 DEF IInv, TypeOK, world, history
<1>8. ASSUME NEW s \in Run, NEW l \in Lead, run[s].phase = "following",
             lead[l].nextIn > MaxRun - run[s].late
      PROVE  lead'[l].nextIn > MaxRun - run'[s].late
  <2>1. run[s].late \in 0 .. MaxRun /\ lead[l].nextIn \in Int
    BY <1>1 DEF RunState, LeadRow
  <2>2. run'[s].late = run[s].late + 1  BY <1>2, <1>8
  <2>3. lead[l].nextIn > -MaxRun  BY <1>8, <2>1, Numbers
  <2>4. lead'[l].nextIn = lead[l].nextIn - 1  BY <1>3, <2>3
  <2>5. QED  BY <1>8, <2>1, <2>2, <2>4, Numbers
<1>9. told' = told /\ unmailed' = unmailed /\ contacted \subseteq contacted'
  BY <1>4 DEF world, history
<1>10. QED  BY <1>2, <1>3, <1>5, <1>7, <1>8, <1>9, Around

LEMMA WorldStep ==
    ASSUME IInv, NEW k \in Lead,
           DayPasses(k) \/ CallEnds(k) \/ SummaryComes(k) \/ Contact(k) \/ GrowOld(k)
    PROVE  IInv'
<1>1. lead \in [Lead -> LeadRow]  BY DEF IInv, TypeOK
<1>2. run' = run /\ told' = told /\ unmailed' = unmailed /\ contacted \subseteq contacted'
  BY DEF DayPasses, CallEnds, SummaryComes, Contact, GrowOld, world, history
<1>3. /\ lead' \in [Lead -> LeadRow]
      /\ \A l \in Lead :
             /\ lead'[l].status = lead[l].status /\ lead'[l].callId = lead[l].callId
             /\ lead'[l].attempts = lead[l].attempts /\ lead'[l].nextIn = lead[l].nextIn
  <2>1. CASE lead' = lead  BY <1>1, <2>1
  <2>2. CASE lead' = [lead EXCEPT ![k].age = Ages]
    <3>1. Ages \in 0 .. Ages  BY Numbers
    <3>2. lead' = [lead EXCEPT ![k] = [lead[k] EXCEPT !.age = Ages]]  BY <1>1, <2>2
    <3>3. [lead[k] EXCEPT !.age = Ages] \in LeadRow  BY <1>1, <3>1 DEF LeadRow
    <3>4. \A l \in Lead : l # k => lead'[l] = lead[l]  BY <1>1, <3>2
    <3>5. lead'[k] = [lead[k] EXCEPT !.age = Ages]  BY <1>1, <3>2
    <3>6. lead' \in [Lead -> LeadRow]  BY <1>1, <3>2, <3>3
    <3>7. lead'[k].status = lead[k].status /\ lead'[k].callId = lead[k].callId
          /\ lead'[k].attempts = lead[k].attempts /\ lead'[k].nextIn = lead[k].nextIn
      BY <1>1, <3>5 DEF LeadRow
    <3>8. QED  BY <3>4, <3>6, <3>7
  <2>3. QED
    BY <2>1, <2>2 DEF DayPasses, CallEnds, SummaryComes, Contact, GrowOld
<1>4. CallsGrow /\ \A l \in Lead : Len(calls'[l]) = Len(calls[l])
  <2>1. CASE calls' = calls  BY <2>1, CallsKept DEF IInv
  <2>2. CASE CallEnds(k) \/ SummaryComes(k)  BY <2>2, CallMoves DEF IInv
  <2>3. QED  BY <2>1, <2>2 DEF DayPasses, Contact, GrowOld
<1>5. TypeOK'
  <2>1. number' = number /\ contacted' \subseteq Lead /\ old' \subseteq Lead
        /\ fired' = fired /\ failures' = failures
    BY DEF DayPasses, CallEnds, SummaryComes, Contact, GrowOld, world, history, IInv, TypeOK
  <2>2. \A l \in Lead : lead'[l].callId \in 0 .. Len(calls'[l])
    BY <1>3, <1>4 DEF IInv, TypeOK
  <2>3. QED  BY <1>2, <1>3, <1>4, <2>1, <2>2 DEF IInv, TypeOK, CallsGrow
<1>6. QED  BY <1>2, <1>3, <1>4, <1>5, Around

(* A run reads a list of rows and has not yet looked at any of them.       *)
LEMMA Reads ==
    ASSUME IInv, NEW r \in Run, run' \in [Run -> RunState],
           UNCHANGED <<lead, calls, told, unmailed, number, contacted, old, failures>>,
           fired' \in BOOLEAN,
           run[r].step = "loop", run'[r].step = "loop", ShapeInv',
           \A s \in Run : s # r =>
               /\ run'[s].phase = run[s].phase /\ run'[s].step = run[s].step
               /\ run'[s].todo = run[s].todo /\ run'[s].row = run[s].row
               /\ run'[s].verdict = run[s].verdict /\ run'[s].callId = run[s].callId,
           \A c \in run'[r].todo :
               /\ c.lead \in Lead /\ c.attempts = lead[c.lead].attempts
               /\ c.callId = lead[c.lead].callId /\ c.contacted = (c.lead \in contacted)
               /\ lead[c.lead].status \in InQueue
               /\ run'[r].phase = "following" => lead[c.lead].status = "calling",
           FollowedInv', DueInv'
    PROVE  IInv'
<1>1. TypeOK'
  <2>1. \A s \in Run : run'[s].step # "loop" => run'[s].row \in Copy  BY DEF IInv, TypeOK
  <2>2. QED  BY <2>1 DEF IInv, TypeOK
<1>2. \A s \in Run, c \in Copy : s # r => (Holds(s, c)' <=> Holds(s, c))  BY DEF Holds
<1>3. \A s \in Run, l \in Lead : Calls(s, l)' <=> Calls(s, l)  BY DEF Calls
<1>4. \A s \in Run, l \in Lead : Telling(s, l)' <=> Telling(s, l)  BY DEF Telling
<1>5. \A l \in Lead : Quiet(l)' <=> Quiet(l)  BY DEF Quiet
<1>6. CopyInv'
  <2>1. SUFFICES ASSUME NEW s \in Run, NEW c \in Copy, Holds(s, c)'
                 PROVE  /\ c.contacted => c.lead \in contacted
                        /\ c.attempts <= Len(calls[c.lead])
                        /\ c.callId <= Len(calls[c.lead])
                        /\ run'[s].phase = "following" /\ c.callId > 0 =>
                               c.attempts <= c.callId
    BY DEF CopyInv
  <2>2. CASE s # r
    <3>1. Holds(s, c)  BY <1>2, <2>1, <2>2
    <3>2. QED  BY <2>2, <3>1 DEF IInv, CopyInv
  <2>3. CASE s = r
    <3>1. c \in run'[r].todo  BY <2>1, <2>3 DEF Holds
    <3>2. PICK l \in Lead : l = c.lead  BY <3>1
    <3>3. /\ c.attempts = lead[l].attempts /\ c.callId = lead[l].callId
          /\ c.contacted = (l \in contacted) /\ lead[l].status \in InQueue
          /\ run'[r].phase = "following" => lead[l].status = "calling"
      BY <3>1, <3>2
    <3>4. lead[l].callId \in 0 .. Len(calls[l]) /\ Len(calls[l]) \in Nat
      BY DEF IInv, TypeOK
    <3>5. /\ lead[l].attempts <= Len(calls[l])
          /\ lead[l].status = "calling" /\ lead[l].callId > 0 =>
                 lead[l].attempts <= lead[l].callId
      BY <3>3 DEF IInv, LeadInv
    <3>6. lead[l].callId <= Len(calls[l])  BY <3>4
    <3>7. QED  BY <2>3, <3>2, <3>3, <3>5, <3>6
  <2>4. QED  BY <2>2, <2>3
<1>7. LeadInv'  BY <1>5 DEF IInv, LeadInv
<1>8. CallerInv'
  <2>1. SUFFICES ASSUME NEW s \in Run, NEW l \in Lead, Calls(s, l)'
                 PROVE  /\ lead[l].status \in InQueue =>
                               lead[l].status = "calling" /\ lead[l].callId = 0
                        /\ \A t \in Run : Calls(t, l)' => t = s
                        /\ run'[s].step = "save" =>
                               /\ run'[s].callId = Len(calls[l])
                               /\ run'[s].row.attempts < run'[s].callId
                        /\ run'[s].step = "post" => Quiet(l)'
                        /\ run'[s].step = "patch" /\ run'[s].verdict = "backOff" => Quiet(l)'
    BY DEF CallerInv
  <2>2. Calls(s, l)  BY <1>3, <2>1
  <2>3. s # r  BY <2>2 DEF Calls
  <2>4. /\ lead[l].status \in InQueue => lead[l].status = "calling" /\ lead[l].callId = 0
        /\ \A t \in Run : Calls(t, l) => t = s
        /\ run[s].step = "save" =>
               run[s].callId = Len(calls[l]) /\ run[s].row.attempts < run[s].callId
        /\ run[s].step = "post" => Quiet(l)
        /\ run[s].step = "patch" /\ run[s].verdict = "backOff" => Quiet(l)
    BY <2>2 DEF IInv, CallerInv
  <2>5. QED  BY <1>3, <1>5, <2>3, <2>4
<1>9. HeardInv'
  <2>1. \A s \in Run : run'[s].step = "patch" => s # r  OBVIOUS
  <2>2. QED  BY <2>1 DEF IInv, HeardInv
<1>10. RetriedOnlyAfterNoAnswer' /\ NoAnswerMeansTwice'
  BY DEF IInv, RetriedOnlyAfterNoAnswer, NoAnswerMeansTwice
<1>11. MailInv'
  <2>1. ASSUME NEW l \in Lead PROVE Mail(l)'
    <3>1. Mail(l)  BY DEF IInv, MailInv
    <3>2. QED  BY <1>4, <3>1 DEF Mail
  <2>2. QED  BY <2>1 DEF MailInv
<1>12. QED
  BY <1>1, <1>6, <1>7, <1>8, <1>9, <1>10, <1>11 DEF IInv

LEMMA ReadStaleStep ==
    ASSUME IInv, NEW r \in Run, ReadStale(r)
    PROVE  IInv'
<1> DEFINE S == WithStatus("pending") \cap old
<1> DEFINE rows == Read(S, run[r].late)
<1> DEFINE y == [run[r] EXCEPT !.phase = "stale", !.todo = rows]
<1>1. /\ run[r] \in RunState /\ run[r].late \in 0 .. MaxRun
      /\ run[r].phase = "following" /\ run[r].step = "loop"
  BY DEF ReadStale, At, IInv, TypeOK, RunState
<1>2. S \in SUBSET Lead /\ \A l \in S : lead[l].status = "pending"  BY DEF WithStatus
<1>5. Goes(r, y)  BY DEF ReadStale
<1> HIDE DEF S
<1>3. /\ rows \in SUBSET Copy
      /\ \A c \in rows : /\ c.lead \in S
                         /\ c.attempts = lead[c.lead].attempts
                         /\ c.callId = lead[c.lead].callId
                         /\ c.contacted = (c.lead \in contacted)
      /\ \A c, d \in rows : c.lead = d.lead => c = d
  BY <1>1, <1>2, ReadType DEF IInv
<1>4. \A c \in rows : c.lead \in Lead /\ lead[c.lead].status = "pending"
  BY <1>2, <1>3
<1> HIDE DEF rows
<1>6. y \in RunState /\ y.phase = "stale" /\ y.step = "loop" /\ y.todo = rows
      /\ y.seen = run[r].seen
  BY <1>1, <1>3 DEF RunState, Phase
<1> HIDE DEF y
<1>7. /\ run' \in [Run -> RunState] /\ run'[r] = y
      /\ \A s \in Run : s # r => run'[s] = run[s]
  BY <1>5, <1>6, Gone DEF IInv
<1>8. run[r].seen = FALSE
  BY <1>1 DEF IInv, ShapeInv, Shape, RunState
<1>9. Shape(r)'  BY <1>3, <1>6, <1>7, <1>8 DEF Shape
<1>10. ShapeInv'  BY <1>7, <1>9 DEF IInv, ShapeInv, Shape
<1>11. \A s \in Run, c \in Copy : Follows(s, c)' => Follows(s, c) /\ s # r
  BY <1>6, <1>7 DEF Follows
<1>12. \A s \in Run, l \in Lead : Plans(s, l)' => Plans(s, l) /\ s # r
  BY <1>6, <1>7 DEF Plans
<1>13. UNCHANGED <<lead, calls, told, unmailed, number, contacted, old, failures, fired>>
  BY DEF ReadStale, world, history
<1>14. FollowedInv'
  <2>1. SUFFICES ASSUME NEW s \in Run, NEW c \in Copy, Follows(s, c)', c.callId > 0
                 PROVE  \/ lead[c.lead].status = "calling" /\ lead[c.lead].callId = c.callId
                        \/ /\ lead[c.lead].status = "pending"
                           /\ lead[c.lead].nextIn > MaxRun - run'[s].late
                           /\ \A t \in Run : ~Plans(t, c.lead)'
                        \/ lead[c.lead].status \in Settled
    BY <1>13 DEF FollowedInv
  <2>2. c.lead \in Lead /\ Follows(s, c) /\ s # r  BY <1>11, <2>1 DEF Copy
  <2>3. \/ lead[c.lead].status = "calling" /\ lead[c.lead].callId = c.callId
        \/ /\ lead[c.lead].status = "pending"
           /\ lead[c.lead].nextIn > MaxRun - run[s].late
           /\ \A t \in Run : ~Plans(t, c.lead)
        \/ lead[c.lead].status \in Settled
    BY <2>1, <2>2 DEF IInv, FollowedInv
  <2>4. QED  BY <1>7, <1>12, <2>2, <2>3
<1>15. DueInv'
  <2>1. SUFFICES ASSUME NEW f \in Run, NEW s \in Run, NEW c \in Copy,
                        Plans(s, c.lead)', Follows(f, c)', c.callId > 0,
                        lead[c.lead].status = "calling"
                 PROVE  /\ run'[s].seen
                        /\ \A t \in Run, d \in Copy :
                               Follows(t, d)' /\ d.callId > 0 /\ d.lead = c.lead => t = f
    BY <1>13 DEF DueInv
  <2>2. c.lead \in Lead  BY DEF Copy
  <2>3. Plans(s, c.lead) /\ Follows(f, c) /\ s # r  BY <1>11, <1>12, <2>1, <2>2
  <2>4. /\ run[s].seen
        /\ \A t \in Run, d \in Copy :
               Follows(t, d) /\ d.callId > 0 /\ d.lead = c.lead => t = f
    BY <2>1, <2>3 DEF IInv, DueInv
  <2>5. QED  BY <1>7, <1>11, <2>3, <2>4
<1>16. fired' \in BOOLEAN  BY <1>13 DEF IInv, TypeOK
<1>17. \A c \in run'[r].todo :
           /\ c.lead \in Lead /\ c.attempts = lead[c.lead].attempts
           /\ c.callId = lead[c.lead].callId /\ c.contacted = (c.lead \in contacted)
           /\ lead[c.lead].status \in InQueue
           /\ run'[r].phase = "following" => lead[c.lead].status = "calling"
  BY <1>3, <1>4, <1>6, <1>7 DEF InQueue
<1>18. run'[r].step = "loop"  BY <1>6, <1>7
<1>19. \A s \in Run : s # r =>
           /\ run'[s].phase = run[s].phase /\ run'[s].step = run[s].step
           /\ run'[s].todo = run[s].todo /\ run'[s].row = run[s].row
           /\ run'[s].verdict = run[s].verdict /\ run'[s].callId = run[s].callId
  BY <1>7
<1>20. QED
  BY <1>1, <1>7, <1>10, <1>13, <1>14, <1>15, <1>16, <1>17, <1>18, <1>19, Reads

LEMMA ReadDueStep ==
    ASSUME IInv, NEW r \in Run, ReadDue(r)
    PROVE  IInv'
<1> DEFINE due == {l \in WithStatus("pending") \ old : lead[l].nextIn + run[r].late <= 0}
<1> DEFINE S == {l \in due : Cardinality({k \in due : k < l}) < CALLS_PER_RUN}
<1> DEFINE rows == Read(S, run[r].late)
<1> DEFINE y == [run[r] EXCEPT !.phase = "calling", !.todo = rows]
<1>1. /\ run[r] \in RunState /\ run[r].late \in 0 .. MaxRun
      /\ run[r].phase = "due" /\ run[r].step = "loop"
  BY DEF ReadDue, At, IInv, TypeOK, RunState
<1>2. S \in SUBSET Lead
      /\ \A l \in S : lead[l].status = "pending" /\ lead[l].nextIn + run[r].late <= 0
  BY DEF WithStatus
<1>5. Goes(r, y)  BY DEF ReadDue
<1> HIDE DEF S
<1>3. /\ rows \in SUBSET Copy
      /\ \A c \in rows : /\ c.lead \in S
                         /\ c.attempts = lead[c.lead].attempts
                         /\ c.callId = lead[c.lead].callId
                         /\ c.contacted = (c.lead \in contacted)
      /\ \A c, d \in rows : c.lead = d.lead => c = d
  BY <1>1, <1>2, ReadType DEF IInv
<1>4. \A c \in rows : /\ c.lead \in Lead /\ lead[c.lead].status = "pending"
                      /\ lead[c.lead].nextIn + run[r].late <= 0
  BY <1>2, <1>3
<1> HIDE DEF rows
<1>6. y \in RunState /\ y.phase = "calling" /\ y.step = "loop" /\ y.todo = rows
      /\ y.seen = run[r].seen
  BY <1>1, <1>3 DEF RunState, Phase
<1> HIDE DEF y
<1>7. /\ run' \in [Run -> RunState] /\ run'[r] = y
      /\ \A s \in Run : s # r => run'[s] = run[s]
  BY <1>5, <1>6, Gone DEF IInv
<1>8. run[r].seen = FALSE
  BY <1>1 DEF IInv, ShapeInv, Shape, RunState
<1>9. Shape(r)'  BY <1>3, <1>6, <1>7, <1>8 DEF Shape
<1>10. ShapeInv'  BY <1>7, <1>9 DEF IInv, ShapeInv, Shape
<1>11. \A s \in Run, c \in Copy : Follows(s, c)' => Follows(s, c) /\ s # r
  BY <1>6, <1>7 DEF Follows
<1>12. /\ \A s \in Run, l \in Lead : Plans(s, l)' /\ s # r => Plans(s, l)
       /\ \A l \in Lead : Plans(r, l)' =>
              lead[l].status = "pending" /\ lead[l].nextIn + run[r].late <= 0
  BY <1>4, <1>6, <1>7 DEF Plans
<1>13. UNCHANGED <<lead, calls, told, unmailed, number, contacted, old, failures, fired>>
  BY DEF ReadDue, world, history
<1>14. FollowedInv'
  <2>1. SUFFICES ASSUME NEW s \in Run, NEW c \in Copy, Follows(s, c)', c.callId > 0
                 PROVE  \/ lead[c.lead].status = "calling" /\ lead[c.lead].callId = c.callId
                        \/ /\ lead[c.lead].status = "pending"
                           /\ lead[c.lead].nextIn > MaxRun - run'[s].late
                           /\ \A t \in Run : ~Plans(t, c.lead)'
                        \/ lead[c.lead].status \in Settled
    BY <1>13 DEF FollowedInv
  <2>2. c.lead \in Lead /\ Follows(s, c) /\ s # r  BY <1>11, <2>1 DEF Copy
  <2>3. \/ lead[c.lead].status = "calling" /\ lead[c.lead].callId = c.callId
        \/ /\ lead[c.lead].status = "pending"
           /\ lead[c.lead].nextIn > MaxRun - run[s].late
           /\ \A t \in Run : ~Plans(t, c.lead)
        \/ lead[c.lead].status \in Settled
    BY <2>1, <2>2 DEF IInv, FollowedInv
  <2>4. run'[s].late = run[s].late  BY <1>7, <2>2
  <2>5. ASSUME lead[c.lead].nextIn > MaxRun - run[s].late
        PROVE  ~Plans(r, c.lead)'
    <3>1. run[s].late \in 0 .. MaxRun /\ lead[c.lead].nextIn \in Int
      BY <2>2 DEF IInv, TypeOK, RunState, LeadRow
    <3>2. ~(lead[c.lead].nextIn + run[r].late <= 0)  BY <1>1, <2>5, <3>1, Numbers
    <3>3. QED  BY <1>12, <2>2, <3>2
  <2>6. ASSUME \A t \in Run : ~Plans(t, c.lead), ~Plans(r, c.lead)', NEW t \in Run
        PROVE  ~Plans(t, c.lead)'
    BY <1>12, <2>2, <2>6
  <2>7. QED  BY <2>3, <2>4, <2>5, <2>6
<1>15. DueInv'
  <2>1. SUFFICES ASSUME NEW f \in Run, NEW s \in Run, NEW c \in Copy,
                        Plans(s, c.lead)', Follows(f, c)', c.callId > 0,
                        lead[c.lead].status = "calling"
                 PROVE  /\ run'[s].seen
                        /\ \A t \in Run, d \in Copy :
                               Follows(t, d)' /\ d.callId > 0 /\ d.lead = c.lead => t = f
    BY <1>13 DEF DueInv
  <2>2. c.lead \in Lead  BY DEF Copy
  <2>3. Plans(s, c.lead) /\ Follows(f, c) /\ s # r  BY <1>11, <1>12, <2>1, <2>2
  <2>4. /\ run[s].seen
        /\ \A t \in Run, d \in Copy :
               Follows(t, d) /\ d.callId > 0 /\ d.lead = c.lead => t = f
    BY <2>1, <2>3 DEF IInv, DueInv
  <2>5. QED  BY <1>7, <1>11, <2>3, <2>4
<1>16. fired' \in BOOLEAN  BY <1>13 DEF IInv, TypeOK
<1>17. \A c \in run'[r].todo :
           /\ c.lead \in Lead /\ c.attempts = lead[c.lead].attempts
           /\ c.callId = lead[c.lead].callId /\ c.contacted = (c.lead \in contacted)
           /\ lead[c.lead].status \in InQueue
           /\ run'[r].phase = "following" => lead[c.lead].status = "calling"
  BY <1>3, <1>4, <1>6, <1>7 DEF InQueue
<1>18. run'[r].step = "loop"  BY <1>6, <1>7
<1>19. \A s \in Run : s # r =>
           /\ run'[s].phase = run[s].phase /\ run'[s].step = run[s].step
           /\ run'[s].todo = run[s].todo /\ run'[s].row = run[s].row
           /\ run'[s].verdict = run[s].verdict /\ run'[s].callId = run[s].callId
  BY <1>7
<1>20. QED
  BY <1>1, <1>7, <1>10, <1>13, <1>14, <1>15, <1>16, <1>17, <1>18, <1>19, Reads

LEMMA StartRunStep ==
    ASSUME IInv, NEW r \in Run, StartRun(r)
    PROVE  IInv'
<1> DEFINE S == WithStatus("calling")
<1> DEFINE rows == Read(S, 0)
<1> DEFINE y == [Off EXCEPT !.phase = "following", !.todo = rows]
<1>1. /\ run \in [Run -> RunState] /\ run[r].phase = "off" /\ run[r].step = "loop"
      /\ \A s \in Run : run[s].seen = FALSE
  BY DEF StartRun, IInv, TypeOK, ShapeInv, Shape, RunState
<1>2. S \in SUBSET Lead /\ \A l \in S : lead[l].status = "calling"  BY DEF WithStatus
<1>3. run' = [s \in Run |-> IF s = r THEN y
                            ELSE [run[s] EXCEPT !.seen = run[s].phase = "calling"]]
  BY DEF StartRun
<1> HIDE DEF S
<1>4. /\ rows \in SUBSET Copy
      /\ \A c \in rows : /\ c.lead \in S
                         /\ c.attempts = lead[c.lead].attempts
                         /\ c.callId = lead[c.lead].callId
                         /\ c.contacted = (c.lead \in contacted)
      /\ \A c, d \in rows : c.lead = d.lead => c = d
  <2>1. 0 \in 0 .. MaxRun  BY Numbers
  <2>2. QED  BY <1>2, <2>1, ReadType DEF IInv
<1>5. \A c \in rows : c.lead \in Lead /\ lead[c.lead].status = "calling"
  BY <1>2, <1>4
<1> HIDE DEF rows
<1>6. y \in RunState /\ y.phase = "following" /\ y.step = "loop" /\ y.todo = rows
      /\ y.seen = FALSE /\ y.late = 0
  <2>1. Off.step = "loop" /\ Off.seen = FALSE /\ Off.late = 0  BY DEF Off
  <2>2. "following" \in Phase  BY DEF Phase
  <2>3. QED  BY <1>4, <2>1, <2>2, OffType DEF RunState
<1> HIDE DEF y
<1>7. ASSUME NEW s \in Run, s # r
      PROVE  /\ run'[s] \in RunState
             /\ run'[s].phase = run[s].phase /\ run'[s].step = run[s].step
             /\ run'[s].todo = run[s].todo /\ run'[s].row = run[s].row
             /\ run'[s].verdict = run[s].verdict /\ run'[s].callId = run[s].callId
             /\ run'[s].budget = run[s].budget /\ run'[s].late = run[s].late
             /\ run'[s].seen <=> run[s].phase = "calling"
  <2>1. run'[s] = [run[s] EXCEPT !.seen = (run[s].phase = "calling")]  BY <1>3, <1>7
  <2>2. run[s] \in RunState /\ (run[s].phase = "calling") \in BOOLEAN  BY <1>1
  <2>3. QED  BY <2>1, <2>2 DEF RunState
<1>8. run'[r] = y  BY <1>3
<1>9. run' \in [Run -> RunState]
  <2>1. \A s \in Run : run'[s] \in RunState  BY <1>6, <1>7, <1>8
  <2>2. DOMAIN run' = Run /\ run' = [s \in Run |-> run'[s]]  BY <1>3
  <2>3. QED  BY <2>1, <2>2
<1>10. ShapeInv'
  <2>1. Shape(r)'  BY <1>4, <1>6, <1>8 DEF Shape
  <2>2. ASSUME NEW s \in Run, s # r PROVE Shape(s)'
    BY <1>7, <2>2 DEF IInv, ShapeInv, Shape
  <2>3. QED  BY <2>1, <2>2 DEF ShapeInv
<1>11. /\ \A s \in Run, c \in Copy : s # r => (Follows(s, c)' <=> Follows(s, c))
       /\ \A c \in Copy : Follows(r, c)' => c \in rows
  BY <1>6, <1>7, <1>8 DEF Follows
<1>12. \A s \in Run, l \in Lead : Plans(s, l)' => Plans(s, l) /\ s # r
  BY <1>6, <1>7, <1>8 DEF Plans
<1>13. \A s \in Run, l \in Lead : Plans(s, l) => s # r  BY <1>1 DEF Plans
<1>14. /\ UNCHANGED <<lead, calls, told, unmailed, number, contacted, old, failures>>
       /\ fired' \in BOOLEAN
  BY DEF StartRun, world, history
<1>15. FollowedInv'
  <2>1. SUFFICES ASSUME NEW s \in Run, NEW c \in Copy, Follows(s, c)', c.callId > 0
                 PROVE  \/ lead[c.lead].status = "calling" /\ lead[c.lead].callId = c.callId
                        \/ /\ lead[c.lead].status = "pending"
                           /\ lead[c.lead].nextIn > MaxRun - run'[s].late
                           /\ \A t \in Run : ~Plans(t, c.lead)'
                        \/ lead[c.lead].status \in Settled
    BY <1>14 DEF FollowedInv
  <2>2. c.lead \in Lead  BY DEF Copy
  <2>3. CASE s = r
    <3>1. c \in rows  BY <1>11, <2>1, <2>3
    <3>2. QED  BY <1>4, <1>5, <3>1
  <2>4. CASE s # r
    <3>1. Follows(s, c)  BY <1>11, <2>1, <2>4
    <3>2. \/ lead[c.lead].status = "calling" /\ lead[c.lead].callId = c.callId
          \/ /\ lead[c.lead].status = "pending"
             /\ lead[c.lead].nextIn > MaxRun - run[s].late
             /\ \A t \in Run : ~Plans(t, c.lead)
          \/ lead[c.lead].status \in Settled
      BY <2>1, <3>1 DEF IInv, FollowedInv
    <3>3. run'[s].late = run[s].late  BY <1>7, <2>4
    <3>4. QED  BY <1>12, <2>2, <3>2, <3>3
  <2>5. QED  BY <2>3, <2>4
<1>16. DueInv'
  <2>1. SUFFICES ASSUME NEW f \in Run, NEW s \in Run, NEW c \in Copy,
                        Plans(s, c.lead)', Follows(f, c)', c.callId > 0,
                        lead[c.lead].status = "calling"
                 PROVE  /\ run'[s].seen
                        /\ \A t \in Run, d \in Copy :
                               Follows(t, d)' /\ d.callId > 0 /\ d.lead = c.lead => t = f
    BY <1>14 DEF DueInv
  <2>2. c.lead \in Lead  BY DEF Copy
  <2>3. Plans(s, c.lead) /\ s # r  BY <1>12, <2>1, <2>2
  <2>4. run'[s].seen  BY <1>7, <2>3 DEF Plans
  <2>5. ASSUME NEW t \in Run, NEW d \in Copy, Follows(t, d)', d.callId > 0,
               d.lead = c.lead
        PROVE  t = r
    <3>1. SUFFICES ASSUME t # r PROVE FALSE  OBVIOUS
    <3>2. Follows(t, d)  BY <1>11, <2>5, <3>1
    <3>3. Plans(s, d.lead) /\ lead[d.lead].status = "calling"  BY <2>1, <2>3, <2>5
    <3>4. run[s].seen  BY <2>5, <3>2, <3>3 DEF IInv, DueInv
    <3>5. QED  BY <1>1, <3>4
  <2>6. f = r  BY <2>1, <2>5
  <2>7. QED  BY <2>4, <2>5, <2>6
<1>17. \A c \in run'[r].todo :
           /\ c.lead \in Lead /\ c.attempts = lead[c.lead].attempts
           /\ c.callId = lead[c.lead].callId /\ c.contacted = (c.lead \in contacted)
           /\ lead[c.lead].status \in InQueue
           /\ run'[r].phase = "following" => lead[c.lead].status = "calling"
  BY <1>4, <1>5, <1>6, <1>8 DEF InQueue
<1>18. run'[r].step = "loop"  BY <1>6, <1>8
<1>19. QED
  BY <1>1, <1>7, <1>9, <1>10, <1>14, <1>15, <1>16, <1>17, <1>18, Reads

-----------------------------------------------------------------------------
(* The invariant                                                           *)

LEMMA InitInv == Init => IInv
<1>1. SUFFICES ASSUME Init PROVE IInv  OBVIOUS
<1>2. /\ \A r \in Run : run[r] = Off
      /\ \A l \in Lead : /\ lead[l].status = "pending" /\ lead[l].attempts = 0
                         /\ lead[l].callId = 0
                         /\ calls[l] = <<>> /\ told[l] = 0
  BY <1>1 DEF Init
<1>3. /\ Off.step = "loop" /\ Off.phase = "off" /\ Off.todo = {} /\ Off.seen = FALSE
  BY DEF Off
<1>4. \A l \in Lead : Len(calls[l]) = 0  BY <1>2
<1>5. TypeOK
  <2>1. lead \in [Lead -> LeadRow]
    <3>1. "pending" \in LeadStatus /\ Ages \in 0 .. Ages /\ -MaxRun \in Int /\ 0 \in Nat
      BY Numbers DEF LeadStatus
    <3>2. [status |-> "pending", attempts |-> 0, callId |-> 0, age |-> Ages,
           nextIn |-> -MaxRun] \in LeadRow
      BY <3>1 DEF LeadRow
    <3>3. QED  BY <1>1, <3>2 DEF Init
  <2>2. run \in [Run -> RunState]  BY <1>1, OffType DEF Init
  <2>3. calls \in [Lead -> Seq(CallState)]
    <3>1. <<>> \in Seq(CallState)  OBVIOUS
    <3>2. QED  BY <1>1, <3>1 DEF Init
  <2>4. failures \in 0 .. MaxFailures  BY <1>1, Numbers DEF Init
  <2>5. \A l \in Lead : lead[l].callId \in 0 .. Len(calls[l])
    <3>1. 0 \in 0 .. 0  OBVIOUS
    <3>2. QED  BY <1>2, <1>4, <3>1
  <2>6. \A r \in Run : run[r].step = "loop"  BY <1>2, <1>3
  <2>7. /\ number \in [Lead -> Number \cup {None}] /\ contacted \subseteq Lead
        /\ old \subseteq Lead /\ fired \in BOOLEAN /\ told \in [Lead -> Nat]
        /\ unmailed \subseteq Lead
    BY <1>1 DEF Init
  <2>8. QED  BY <2>1, <2>2, <2>3, <2>4, <2>5, <2>6, <2>7 DEF TypeOK
<1>6. ShapeInv  BY <1>2, <1>3 DEF ShapeInv, Shape
<1>7. CopyInv  BY <1>2, <1>3 DEF CopyInv, Holds
<1>8. LeadInv
  <2>1. \A l \in Lead : Quiet(l)  BY <1>4 DEF Quiet
  <2>2. QED  BY <1>2, <1>4, <2>1 DEF LeadInv
<1>9. CallerInv  BY <1>2, <1>3 DEF CallerInv, Calls
<1>10. FollowedInv  BY <1>2, <1>3 DEF FollowedInv, Follows
<1>11. HeardInv  BY <1>2, <1>3 DEF HeardInv
<1>12. DueInv  BY <1>2, <1>3 DEF DueInv, Plans
<1>13. RetriedOnlyAfterNoAnswer  BY <1>4 DEF RetriedOnlyAfterNoAnswer
<1>14. NoAnswerMeansTwice  BY <1>2 DEF NoAnswerMeansTwice
<1>15. MailInv  BY <1>2, <1>3 DEF MailInv, Mail, Telling, Settled
<1>16. QED
  BY <1>5, <1>6, <1>7, <1>8, <1>9, <1>10, <1>11, <1>12, <1>13, <1>14, <1>15 DEF IInv

LEMMA StutterInv == IInv /\ UNCHANGED vars => IInv'
BY DEF IInv, vars, world, history, TypeOK, ShapeInv, Shape, CopyInv, Holds, LeadInv,
       Quiet, CallerInv, Calls, FollowedInv, Follows, Plans, HeardInv, DueInv,
       RetriedOnlyAfterNoAnswer, NoAnswerMeansTwice, MailInv, Mail, Telling

LEMMA StepInv == IInv /\ [Next]_vars => IInv'
<1>1. SUFFICES ASSUME IInv, [Next]_vars PROVE IInv'  OBVIOUS
<1>2. CASE UNCHANGED vars  BY <1>1, <1>2, StutterInv
<1>3. ASSUME NEW r \in Run,
             StartRun(r) \/ RunStep(r) \/ StartCallFails(r) \/ PatchFails(r) \/ RunDies(r)
      PROVE  IInv'
  <2>1. CASE StartRun(r)  BY <1>1, <2>1, StartRunStep
  <2>2. CASE ReadStale(r)  BY <1>1, <2>2, ReadStaleStep
  <2>3. CASE ReadDue(r)  BY <1>1, <2>3, ReadDueStep
  <2>4. CASE RunMoves(r)  BY <1>1, <2>4, MoveStep
  <2>5. QED  BY <1>3, <2>1, <2>2, <2>3, <2>4 DEF RunStep, RunMoves
<1>4. CASE Tick  BY <1>1, <1>4, TickStep
<1>5. ASSUME NEW l \in Lead,
             DayPasses(l) \/ CallEnds(l) \/ SummaryComes(l) \/ Contact(l) \/ GrowOld(l)
      PROVE  IInv'
  BY <1>1, <1>5, WorldStep
<1>6. QED  BY <1>1, <1>2, <1>3, <1>4, <1>5 DEF Next

(* The invariant of the callback queue: what the runs hold in memory and   *)
(* what the table says never drift so far apart that updateLead's check of *)
(* the status alone would let a stale decision through.                    *)
THEOREM Invariance == Spec => []IInv
<1>1. Init => IInv  BY InitInv
<1>2. IInv /\ [Next]_vars => IInv'  BY StepInv
<1>3. QED  BY <1>1, <1>2, PTL DEF Spec

(* Every variable keeps its type, and a lead's call id is always that of a *)
(* call Vapi really placed for it.                                         *)
THEOREM TypeCorrect == Spec => []TypeOK
<1>1. IInv => TypeOK  BY DEF IInv
<1>2. QED  BY <1>1, Invariance, PTL

(* Hope telephones a lead again only after a call nobody answered, however *)
(* many runs overlap and whatever fails: callbacks.ts:19-20, 486-488.      *)
THEOREM OnlyUnansweredIsRetried == Spec => []RetriedOnlyAfterNoAnswer
<1>1. IInv => RetriedOnlyAfterNoAnswer  BY DEF IInv
<1>2. QED  BY <1>1, Invariance, PTL

(* A lead is given up as unanswered only after MAX_ATTEMPTS calls that     *)
(* really went unanswered: callbacks.ts:15.                                *)
THEOREM NoAnswerAlwaysMeansTwice == Spec => []NoAnswerMeansTwice
<1>1. IInv => NoAnswerMeansTwice  BY DEF IInv
<1>2. QED  BY <1>1, Invariance, PTL

(* Kamva is told of every settled lead, and never twice: the PATCH decides *)
(* which of the runs sends the email (callbacks.ts:245-249).               *)
THEOREM KamvaIsAlwaysTold == Spec => []KamvaIsTold
<1>1. IInv => KamvaIsTold  BY DEF IInv, MailInv, Mail, Telling, KamvaIsTold
<1>2. QED  BY <1>1, Invariance, PTL
=============================================================================
