------------------------------ MODULE DemoCall ------------------------------
(***************************************************************************)
(* One demo link and the pages open on it: src/demo/src/app/demo/[slug]    *)
(* (page.tsx, DemoPanel.tsx) with the routes under src/demo/src/app/api/   *)
(* demo/[slug] and src/demo/src/lib/prospects.ts.                          *)
(*                                                                         *)
(* A link is personal (spent by its first call), a test link (never spent) *)
(* or the public line (never spent, but every call asks the gate).  Each   *)
(* tab is the state machine of DemoPanel: the refs it keeps, the steps of  *)
(* handleStart between its awaits, and the callbacks of the Vapi web SDK,  *)
(* which is outside the repository and modelled from how it is used.  The  *)
(* call_started events are requests of their own: the page does not wait   *)
(* for them, and the route runs its statements one at a time.  The other    *)
(* events of the funnel write one row each that nothing here reads, and of *)
(* call_ended only the sending is kept; its wording, the captions and the   *)
(* announcements are left out.                                             *)
(***************************************************************************)
EXTENDS Integers, FiniteSets, FiniteSetsExt

CONSTANTS
  Tabs,          \* pages open on the link
  CallerOf,      \* CallerOf[t]: the person at tab t, as the hashed IP address
  Industries,    \* the businesses the public line can answer for
  Lengths,       \* lengths demo_limits may give, in ticks of the countdown
  DailyCap,      \* demo_limits.global_per_day
  CallerCap,     \* demo_limits.per_ip_per_hour
  MaxLoads,      \* bound: page loads per tab
  MaxClicks,     \* bound: clicks on "Talk to Hope" and "Try again" at one tab
  VisitBounds,   \* bound: loads and clicks of the tabs, within one of these functions
  Null

ASSUME DemoCallAssumption ==
  /\ DailyCap \in Nat /\ CallerCap \in Nat /\ MaxLoads \in Nat /\ MaxClicks \in Nat
  /\ Lengths \subseteq Nat /\ \E longest \in Lengths : \A n \in Lengths : n <= longest
  /\ Null \notin {"allowed", "daily_cap", "ip_cooldown", "error"} \cup (Tabs \X Nat)

ASSUME VisitBoundsAssumption == VisitBounds \subseteq [Tabs -> Nat]

Kinds == {"personal", "test", "public"}
Phases == {"ready", "connecting", "live", "ended", "mic_denied", "failed",
           "expired", "limited", "closed"}

VARIABLES
  link,    \* the prospects row: kind, and the event whose claim set demo_used_at
  limits,  \* demo_limits.max_seconds
  tab,     \* the refs and states of each DemoPanel
  sdk,     \* each page's Vapi instance: its line and what it was told
  events,  \* call_started requests on their way or in the route
  rows,    \* the call_started rows of demo_events
  sent,    \* history: call_started and call_ended events each tab has sent
  crowd    \* history: most requests that were between gate and insert at once
dvars == <<link, limits, tab, sdk, events, rows, sent, crowd>>

-----------------------------------------------------------------------------
(* The page as it is first rendered. *)

isReusable == link.kind # "personal"
expired == ~isReusable /\ link.used # Null
FirstLength == Max(Lengths)

Idle == [step |-> "none", verdict |-> Null, offer |-> 0]
Blank == [phase |-> "closed", try |-> [k \in 1 .. MaxClicks |-> Idle], industry |-> Null,
          cap |-> 0, left |-> 0, active |-> FALSE, endLogged |-> FALSE,
          reported |-> FALSE, timer |-> FALSE, loads |-> 0, clicks |-> 0, beside |-> FALSE]

DInit ==
  /\ link \in [kind : Kinds, used : {Null}]
  /\ limits = FirstLength
  /\ tab = [t \in Tabs |-> Blank]
  /\ sdk = [t \in Tabs |-> [line |-> "none", told |-> Null]]
  /\ events = {} /\ rows = {}
  /\ sent = [t \in Tabs |-> [started |-> 0, ended |-> 0]]
  /\ crowd = 1

\* Bound: one more load or click at tab t.
RoomFor(t) ==
  \E bound \in VisitBounds : \A u \in Tabs :
    tab[u].loads + tab[u].clicks + (IF u = t THEN 1 ELSE 0) <= bound[u]

\* DemoPage and toPublicProspect: what the row says now decides what the page
\* offers; a page already open is not told when that changes.  loadVapi asks for
\* the import once, and a rejection is kept with it.
Load(t) ==
  /\ tab[t].phase = "closed" /\ tab[t].loads < MaxLoads /\ RoomFor(t)
  /\ \E industry \in IF link.kind = "public" THEN Industries \cup {Null} ELSE Industries :
       tab' = [tab EXCEPT ![t] = [Blank EXCEPT
                 !.phase = IF expired THEN "expired" ELSE "ready",
                 !.industry = industry, !.cap = limits, !.left = limits,
                 !.loads = tab[t].loads + 1, !.clicks = tab[t].clicks]]
  /\ \E line \in IF expired THEN {"none"} ELSE {"idle", "rejected"} :
       sdk' = [sdk EXCEPT ![t].line = line]
  /\ sent' = [sent EXCEPT ![t] = [started |-> 0, ended |-> 0]]
  /\ UNCHANGED <<link, limits, events, rows, crowd>>

\* The IndustryPicker of the public line, enabled until a call is connecting.
Pick(t, industry) ==
  /\ link.kind = "public" /\ tab[t].phase = "ready" /\ tab[t].industry # industry
  /\ tab' = [tab EXCEPT ![t].industry = industry]
  /\ UNCHANGED <<link, limits, sdk, events, rows, sent, crowd>>

-----------------------------------------------------------------------------
(* handleStart, one action from await to await.  A call that fails late leaves *)
(* "Try again" to click while an attempt waits, so attempt k is one of several. *)

\* The buttons of the panels: "Talk to Hope" waits for a pick, "Try again" is on
\* two panels, and only the live panel can end the call.
TalkToHope(t) == tab[t].phase = "ready" /\ tab[t].industry # Null
TryAgain(t) == tab[t].phase \in {"mic_denied", "failed"}
EndCall(t) == tab[t].phase = "live"

\* The click is `beside` a call (history) when the instance still has one.
Click(t) ==
  /\ TalkToHope(t) \/ TryAgain(t)
  /\ tab[t].clicks < MaxClicks /\ RoomFor(t)
  /\ tab' = [tab EXCEPT ![t] = [tab[t] EXCEPT
                 !.phase = "connecting", !.reported = FALSE,
                 !.beside = sdk[t].line \in {"up", "stopping"},
                 !.try[tab[t].clicks + 1].step = "mic", !.clicks = @ + 1]]
  /\ UNCHANGED <<link, limits, sdk, events, rows, sent, crowd>>

\* public_demo_gate: the day's calls of everyone, then the hour's of this caller.
PublicCalls == {row \in rows : link.kind = "public"}
Refusal(caller) ==
  IF Cardinality(PublicCalls) >= DailyCap THEN "daily_cap"
  ELSE IF Cardinality({row \in PublicCalls : CallerOf[row.tab] = caller}) >= CallerCap
       THEN "ip_cooldown" ELSE Null

\* The gate's route: an answer while the microphone prompt is open or after it.
\* An edge limit answers ip_cooldown, an error or a timeout is no answer.
GateAnswers(t, k) ==
  /\ tab[t].try[k].step \in {"mic", "gate"} /\ link.kind = "public" /\ tab[t].try[k].verdict = Null
  /\ \/ /\ Refusal(CallerOf[t]) = Null
        /\ tab' = [tab EXCEPT ![t].try[k].verdict = "allowed", ![t].try[k].offer = limits]
     \/ /\ tab' = [tab EXCEPT ![t].try[k].verdict =
                     IF Refusal(CallerOf[t]) = Null THEN "ip_cooldown" ELSE Refusal(CallerOf[t])]
     \/ tab' = [tab EXCEPT ![t].try[k].verdict = "error"]
  /\ UNCHANGED <<link, limits, sdk, events, rows, sent, crowd>>

FailsIfConnecting(phase) == IF phase = "connecting" THEN "failed" ELSE phase

\* buildOverrides: what the one assistant is told about this call.
buildOverrides(x) == [seconds |-> x.cap, business |-> x.industry]

\* vapi.start, with attempt k of x past its checks: an instance that has a call
\* answers at once and starts none; a rejected import ends the attempt.
Dial(t, x) ==
  CASE sdk[t].line = "idle" ->
         /\ sdk' = [sdk EXCEPT ![t] = [line |-> "dialling", told |-> buildOverrides(x)]]
         /\ tab' = [tab EXCEPT ![t] = [x EXCEPT !.timer = TRUE]]
    [] sdk[t].line = "rejected" ->
         /\ tab' = [tab EXCEPT ![t] = [x EXCEPT !.phase = FailsIfConnecting(@)]]
         /\ UNCHANGED sdk
    [] OTHER -> tab' = [tab EXCEPT ![t] = x] /\ UNCHANGED sdk

\* The attempt returns or its call is set up; what it was told goes with it.
Ended(t, k) == [tab[t] EXCEPT !.try[k] = Idle]

\* getUserMedia: granted, refused, or failed (also when there is none).
MicAnswers(t, k) ==
  /\ tab[t].try[k].step = "mic"
  /\ \/ /\ link.kind = "public"
        /\ tab' = [tab EXCEPT ![t].try[k].step = "gate"] /\ UNCHANGED sdk
     \/ link.kind # "public" /\ Dial(t, Ended(t, k))
     \/ /\ \E phase \in {"mic_denied", "failed"} :
             tab' = [tab EXCEPT ![t] = [Ended(t, k) EXCEPT !.phase = phase]]
        /\ UNCHANGED sdk
  /\ UNCHANGED <<link, limits, events, rows, sent, crowd>>

\* `await gate`: no answer is not a yes, and the answer's length wins; what a
\* countdown under way has left is its own.
PassGate(t, k) ==
  LET verdict == tab[t].try[k].verdict
      offer == tab[t].try[k].offer
  IN /\ tab[t].try[k].step = "gate" /\ verdict # Null
     /\ IF verdict = "allowed"
        THEN Dial(t, [Ended(t, k) EXCEPT !.cap = offer])
        ELSE /\ tab' = [tab EXCEPT ![t] = [Ended(t, k) EXCEPT
                          !.phase = IF verdict = "error" THEN "failed" ELSE "limited"]]
             /\ UNCHANGED sdk
     /\ UNCHANGED <<link, limits, events, rows, sent, crowd>>

\* CONNECT_TIMEOUT_MS passed; the call that is being set up is not given up.
ConnectTimeout(t) ==
  /\ tab[t].timer
  /\ tab' = [tab EXCEPT ![t].timer = FALSE, ![t].phase = FailsIfConnecting(@)]
  /\ UNCHANGED <<link, limits, sdk, events, rows, sent, crowd>>

-----------------------------------------------------------------------------
(* What the Vapi instance reports to the page, and what the page makes of it. *)

\* finishCall: one call_ended for each call, whoever notices its end first.
Finished(x) == [x EXCEPT !.active = FALSE, !.endLogged = TRUE]
\* Mutant: the end is logged again by whoever notices it next.
FinishCallAgain(t, x) ==
  /\ tab' = [tab EXCEPT ![t] = Finished(x)]
  /\ sent' = [sent EXCEPT ![t].ended = @ + 1]

FinishCall(t, x) ==
  /\ tab' = [tab EXCEPT ![t] = Finished(x)]
  /\ sent' = IF x.endLogged THEN sent ELSE [sent EXCEPT ![t].ended = @ + 1]

\* onCallStart, however late: the countdown starts from the cap of this moment
\* and call_started is sent.
CallStart(t) ==
  /\ sdk[t].line = "dialling"
  /\ sdk' = [sdk EXCEPT ![t].line = "up"]
  /\ tab' = [tab EXCEPT ![t].active = TRUE, ![t].endLogged = FALSE,
                        ![t].left = tab[t].cap, ![t].phase = "live",
                        ![t].timer = FALSE]
  /\ events' = events \cup {[tab |-> t, n |-> MaxClicks * (tab[t].loads - 1) + sent[t].started,
                             at |-> "sent"]}
  /\ sent' = [sent EXCEPT ![t].started = @ + 1]
  /\ UNCHANGED <<link, limits, rows, crowd>>

\* vapi.start throws: the attempt's catch.
StartThrows(t) ==
  /\ sdk[t].line = "dialling"
  /\ sdk' = [sdk EXCEPT ![t].line = "idle"]
  /\ tab' = [tab EXCEPT ![t].timer = FALSE, ![t].phase = FailsIfConnecting(@)]
  /\ UNCHANGED <<link, limits, events, rows, sent, crowd>>

\* onMessage: the status update in which Vapi says that the call is over.
ReportsEnd(t) ==
  /\ sdk[t].line \in {"up", "stopping"} /\ ~tab[t].reported
  /\ tab' = [tab EXCEPT ![t].reported = TRUE]
  /\ UNCHANGED <<link, limits, sdk, events, rows, sent, crowd>>

\* onCallEnd, after a stop or because the other side hung up.
CallEnd(t) ==
  /\ sdk[t].line \in {"up", "stopping"}
  /\ sdk' = [sdk EXCEPT ![t].line = "idle"]
  /\ FinishCall(t, [tab[t] EXCEPT !.phase = "ended"])
  /\ UNCHANGED <<link, limits, events, rows, crowd>>

\* onError: the line closing after an end Vapi reported, or a failure; either
\* way the instance has no call any more.
Error(t) ==
  LET x == tab[t]
      after == IF ~x.reported THEN "failed"
               ELSE IF x.phase \in {"live", "ended"} THEN "ended" ELSE x.phase
  IN /\ sdk[t].line \in {"dialling", "up", "stopping"} \/ x.phase = "ended"
     /\ sdk' = [sdk EXCEPT ![t].line = "idle"]
     /\ IF x.active
        THEN FinishCall(t, [x EXCEPT !.phase = after])
        ELSE tab' = [tab EXCEPT ![t].phase = after, ![t].timer = FALSE] /\ UNCHANGED sent
     /\ UNCHANGED <<link, limits, events, rows, crowd>>

Hushed(t) == [sdk EXCEPT ![t].line = IF @ = "up" THEN "stopping" ELSE @]

\* Mutant: the countdown only counts.
TickOnly(t) ==
  /\ tab[t].phase = "live" /\ tab[t].left > 0
  /\ tab' = [tab EXCEPT ![t].left = @ - 1]
  /\ UNCHANGED <<link, limits, sdk, events, rows, sent, crowd>>

\* The countdown, by the clock; at nothing left the page stops the call.
Tick(t) ==
  /\ tab[t].phase = "live" /\ (tab[t].left > 0 \/ sdk[t].line = "up")
  /\ tab' = [tab EXCEPT ![t].left = IF @ > 0 THEN @ - 1 ELSE 0]
  /\ sdk' = IF tab[t].left <= 1 THEN Hushed(t) ELSE sdk
  /\ UNCHANGED <<link, limits, events, rows, sent, crowd>>

\* handleStop: "End call".
Stop(t) ==
  /\ EndCall(t) /\ sdk[t].line = "up"
  /\ sdk' = Hushed(t)
  /\ UNCHANGED <<link, limits, tab, events, rows, sent, crowd>>

\* pagehide in a live phase: the end is logged though the call may go on, if
\* the browser keeps the page and shows it again.
PageHide(t) ==
  /\ tab[t].phase = "live" /\ tab[t].active
  /\ FinishCall(t, tab[t])
  /\ UNCHANGED <<link, limits, sdk, events, rows, crowd>>

\* The page is gone, after its pagehide; a call that had no live panel leaves
\* without one.
Close(t) ==
  /\ tab[t].phase # "closed" /\ (tab[t].phase = "live" => ~tab[t].active)
  /\ tab' = [tab EXCEPT ![t] = [Blank EXCEPT !.loads = tab[t].loads, !.clicks = tab[t].clicks,
                                                !.active = tab[t].active]]
  /\ sdk' = [sdk EXCEPT ![t] = [line |-> "none", told |-> Null]]
  /\ UNCHANGED <<link, limits, events, rows, sent, crowd>>

-----------------------------------------------------------------------------
(* POST /api/demo/[slug]/event with call_started, statement by statement. *)

At(step) == {e \in events : e.at = step}
Passes(e) == events' = (events \ {e}) \cup {[e EXCEPT !.at = "passed"]}

\* claimDemo: UPDATE ... WHERE demo_used_at IS NULL.
Claim(e) ==
  /\ e.at = "sent" /\ ~isReusable
  /\ link' = IF link.used = Null THEN [link EXCEPT !.used = <<e.tab, e.n>>] ELSE link
  /\ Passes(e)
  /\ UNCHANGED <<limits, tab, sdk, rows, sent, crowd>>

\* Mutant: rows of the public line pass no gate.
AdmitAll(e) ==
  /\ e.at = "sent" /\ isReusable
  /\ Passes(e)
  /\ crowd' = Max({crowd, Cardinality(At("passed")) + 1})
  /\ UNCHANGED <<link, limits, tab, sdk, rows, sent>>

\* A reusable link is not claimed, and the public line asks its gate again.
Admit(e) ==
  /\ e.at = "sent" /\ isReusable
  /\ IF link.kind = "public" /\ Refusal(CallerOf[e.tab]) # Null
     THEN events' = events \ {e}
     ELSE Passes(e)
  /\ crowd' = Max({crowd, Cardinality(At("passed")) + 1})
  /\ UNCHANGED <<link, limits, tab, sdk, rows, sent>>

\* recordEvent.
Record(e) ==
  /\ e.at = "passed"
  /\ rows' = rows \cup {[tab |-> e.tab, n |-> e.n]}
  /\ events' = events \ {e}
  /\ UNCHANGED <<link, limits, tab, sdk, sent, crowd>>

\* Refused at the edge, lost on the way, or a statement that throws.
Lose(e) ==
  /\ events' = events \ {e}
  /\ UNCHANGED <<link, limits, tab, sdk, rows, sent, crowd>>

\* The length of calls on the public line is cut in the table.
ChangeLimits ==
  /\ link.kind = "public"
  /\ limits' \in {n \in Lengths : n < limits}
  /\ UNCHANGED <<link, tab, sdk, events, rows, sent, crowd>>

-----------------------------------------------------------------------------
Attempt(t, k) == MicAnswers(t, k) \/ GateAnswers(t, k) \/ PassGate(t, k)
Reports(t) == CallStart(t) \/ StartThrows(t) \/ Error(t)

DNext ==
  \/ \E t \in Tabs :
       \/ Load(t) \/ Click(t)
       \/ \E industry \in Industries : Pick(t, industry)
       \/ \E k \in 1 .. MaxClicks : Attempt(t, k)
       \/ ConnectTimeout(t) \/ Reports(t) \/ ReportsEnd(t) \/ CallEnd(t)
       \/ Tick(t) \/ Stop(t) \/ PageHide(t) \/ Close(t)
  \/ \E e \in events : Claim(e) \/ Admit(e) \/ Record(e) \/ Lose(e)
  \/ ChangeLimits

\* Answers come: from the visitor to the prompt, from the gate within its
\* timeout and from the Vapi instance; and timers fire.  A call whose page is not
\* counting is ended by Vapi itself, at the maxDurationSeconds it was told.
DFairness ==
  \A t \in Tabs :
    /\ \A k \in 1 .. MaxClicks : WF_dvars(Attempt(t, k))
    /\ WF_dvars(sdk[t].line = "dialling" /\ Reports(t))
    /\ WF_dvars(Tick(t)) /\ WF_dvars(sdk[t].line = "stopping" /\ CallEnd(t))
    /\ WF_dvars(sdk[t].line = "up" /\ tab[t].phase # "live" /\ CallEnd(t))

DSpec == DInit /\ [][DNext]_dvars /\ DFairness

-----------------------------------------------------------------------------
\* Type correctness.
DTypeOK ==
  /\ link.kind \in Kinds
  /\ link.used \in {Null} \cup (Tabs \X Nat)
  /\ limits \in Lengths
  /\ \A t \in Tabs :
       /\ tab[t].phase \in Phases
       /\ \A k \in 1 .. MaxClicks :
            /\ tab[t].try[k].step \in {"none", "mic", "gate"}
            /\ tab[t].try[k].step # "none" => k <= tab[t].clicks
       /\ tab[t].cap \in 0 .. FirstLength /\ tab[t].left \in 0 .. FirstLength
       /\ sdk[t].line \in {"none", "rejected", "idle", "dialling", "up", "stopping"}
  /\ events \subseteq [tab : Tabs, n : Nat, at : {"sent", "passed"}]
  /\ rows \subseteq [tab : Tabs, n : Nat]

\* The funnel's pairs (finishCall, DemoPanel.tsx:160-174): each call_started a
\* page sends is followed by exactly one call_ended, whichever of the call's
\* end, an error, the countdown or the closing page notices first, and none is
\* sent for a call that did not start.  A closed page leaves one unsent only
\* where a second attempt had taken the panel from a call that connected late.
CallsAreClosed ==
  \A t \in Tabs :
    /\ sent[t].started = sent[t].ended + (IF tab[t].active THEN 1 ELSE 0)
    /\ tab[t].phase = "closed" /\ tab[t].active => tab[t].clicks > 1

\* A call in the funnel has spent a personal link, even when the route dies
\* between its statements; test links and the public line are never spent
\* (event/route.ts:88-92, isReusable).  The limits of the public line count before
\* the insert, so they are overrun by no more than the requests that were between
\* the two at once (event/route.ts:97-108).
LinksAreLimited ==
  /\ rows # {} /\ link.kind = "personal" => link.used # Null
  /\ isReusable => link.used = Null
  /\ link.kind = "public" =>
       /\ Cardinality(rows) + Cardinality(At("passed")) < DailyCap + crowd
       /\ \A t \in Tabs :
            Cardinality({row \in rows : CallerOf[row.tab] = CallerOf[t]}) < CallerCap + crowd

\* No call is where a page stays.  A live panel gives way to the next one, by the
\* countdown if nothing else (DemoPanel.tsx:282-311); no conversation stays up,
\* also where a second attempt took the panel off "live" and the countdown with
\* it, which leaves only Vapi's own limit (buildOverrides); and "Connecting to
\* Hope" is left (handleStart), also by an attempt made while an earlier call is
\* being set up.  An attempt begun when an earlier call is already up is excepted:
\* vapi.start has nothing to do for it and clears its timer, and the end of that
\* call, when it is an error after a reported end, leaves the panel (:241-243).
PanelsMoveOn ==
  \A t \in Tabs :
    /\ tab[t].phase = "live" ~> tab[t].phase # "live"
    /\ sdk[t].line = "up" ~> sdk[t].line # "up"
    /\ tab[t].phase = "connecting" /\ ~tab[t].beside ~> tab[t].phase # "connecting"
=============================================================================
