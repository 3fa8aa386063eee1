------------------------------- MODULE Console -------------------------------
(***************************************************************************)
(* The admin console in one tab (Console of pages/AdminConsole.tsx): the   *)
(* clients, polled, and the dialog that activates, suspends or blocks one. *)
(* One client is followed.  The logins below it are the same list and the  *)
(* same dialog under other names (enable, disable, block).  The activity   *)
(* under them is in ActivityFeed.                                          *)
(*                                                                         *)
(* A handler of the server is one step: what its statements do to each     *)
(* other is in Accounts, how an app's codes are checked in SignIn, how     *)
(* usePoll lives with hidden tabs in LiveFeed.  A session that ends takes  *)
(* the page away (Admission).                                              *)
(***************************************************************************)
EXTENDS Integers

CONSTANT Moves     \* bound: what people do, what others do, what goes wrong

VARIABLES
  standing,  \* orgStanding of the client
  log,       \* how often it was changed
  window,    \* stepped_up_until is in the future
  spent,     \* the code the app shows has been used
  month,     \* the billing month chosen
  shown,     \* overview.data as far as this client goes
  polls,     \* the requests of that poll that are not aborted
  dialog,    \* ActionDialog
  orders,    \* its requests at the server
  moves      \* moves left
server == <<standing, log, window, spent>>
list   == <<month, shown, polls>>
cvars  == <<server, list, dialog, orders, moves>>

OrgAction == {"activate", "suspend", "block"}
Becomes == [activate |-> "active", suspend |-> "suspended", block |-> "blocked"]

Nothing == [standing |-> "unknown", log |-> 0, month |-> "none"]
NoDialog == [act |-> "none", busy |-> FALSE, needsCode |-> FALSE, error |-> "none"]

PollOf(m) == [month |-> m, at |-> "sent", answer |-> Nothing]

CInit ==
  /\ standing \in {"pending", "active"} /\ log = 0 /\ window \in BOOLEAN /\ spent = FALSE
  /\ month = "this" /\ shown = Nothing /\ polls = {PollOf("this")}
  /\ dialog = NoDialog /\ orders = {}
  /\ moves = Moves

Move == moves > 0 /\ moves' = moves - 1
\* A dialog makes the page under it inert.
OnPage == dialog.act = "none"

-----------------------------------------------------------------------------
(* The clients: usePoll.                                                   *)
\* Mutant: an older request is left to come in.
PollBeside(m) == polls' = polls \cup {PollOf(m)}
\* A run aborts the request before it; so does the cleanup of its effect.
PollAnew(m) == polls' = {PollOf(m)}

\* The timer, which is set when a run has ended, or the tab is shown again.
PollRuns ==
  /\ (polls = {} /\ UNCHANGED moves) \/ Move
  /\ PollAnew(month)
  /\ UNCHANGED <<server, month, shown, dialog, orders>>

\* handleAdminOverview.
Overview(q) ==
  /\ q.at = "sent"
  /\ polls' = (polls \ {q}) \cup {[q EXCEPT !.at = "answered",
        !.answer = [standing |-> standing, log |-> log, month |-> q.month]]}
  /\ UNCHANGED <<server, month, shown, dialog, orders, moves>>

PollArrives(q) ==
  /\ q.at = "answered"
  /\ shown' = q.answer
  /\ polls' = polls \ {q}
  /\ UNCHANGED <<server, month, dialog, orders, moves>>

PollFails(q) ==
  /\ Move
  /\ polls' = polls \ {q}
  /\ UNCHANGED <<server, month, shown, dialog, orders>>

ChooseMonth(m) ==
  /\ Move /\ OnPage /\ m # month
  /\ month' = m
  /\ PollAnew(m)
  /\ UNCHANGED <<server, shown, dialog, orders>>

-----------------------------------------------------------------------------
(* The dialog.                                                             *)
\* ClientCard: the buttons of a client shown with this standing.
Buttons(s) == {a \in OrgAction : s \notin {"unknown", "blocked", Becomes[a]}}

OpenDialog(a) ==
  /\ Move /\ OnPage /\ a \in Buttons(shown.standing)
  /\ dialog' = [NoDialog EXCEPT !.act = a]
  /\ UNCHANGED <<server, list, orders>>

\* Cancel, Escape, the backdrop: not while it is busy.
CloseDialog ==
  /\ ~OnPage /\ ~dialog.busy
  /\ dialog' = NoDialog
  /\ UNCHANGED <<server, list, orders, moves>>

OrderOf(kind) == [kind |-> kind, act |-> dialog.act, at |-> "sent", answer |-> "none", heard |-> TRUE]

\* confirm, with a reason and, once it is asked for, the code the app shows.
Confirm ==
  /\ ~OnPage /\ ~dialog.busy
  /\ dialog' = [dialog EXCEPT !.busy = TRUE, !.error = "none"]
  /\ orders' = orders \cup {OrderOf(IF dialog.needsCode THEN "code" ELSE "act")}
  /\ UNCHANGED <<server, list, moves>>

Answered(o, answer) ==
  orders' = (orders \ {o}) \cup {[o EXCEPT !.at = "answered", !.answer = answer]}

\* handleAdminStepUp.
StepUp(o) ==
  /\ o.at = "sent" /\ o.kind = "code"
  /\ Answered(o, IF spent THEN "refused" ELSE "ok")
  /\ window' = (window \/ ~spent) /\ spent' = TRUE
  /\ UNCHANGED <<standing, log, list, dialog, moves>>

Refusal(a) ==
  IF ~window THEN "step_up_required"
  ELSE IF standing = "blocked" \/ standing = Becomes[a] THEN "conflict" ELSE "none"

\* handleAdminOrgAction.
Enforce(o) ==
  /\ o.at = "sent" /\ o.kind = "act"
  /\ IF Refusal(o.act) = "none"
     THEN standing' = Becomes[o.act] /\ log' = log + 1 /\ Answered(o, "ok")
     ELSE Answered(o, Refusal(o.act)) /\ UNCHANGED <<standing, log>>
  /\ UNCHANGED <<window, spent, list, dialog, moves>>

\* The rest of confirm: the act after its code; onDone and onClose; a code asked
\* for; an error.
CodeTaken(o) ==
  /\ o.kind = "code" /\ o.answer = "ok"
  /\ orders' = (orders \ {o}) \cup {OrderOf("act")}
  /\ UNCHANGED <<dialog, polls>>
ActDone(o) ==
  /\ o.kind = "act" /\ o.answer = "ok"
  /\ orders' = orders \ {o}
  /\ dialog' = NoDialog
  /\ PollAnew(month)
\* Mutant: the answer is an error like any other.
CodeWantedAsError(o) ==
  /\ o.answer = "step_up_required"
  /\ orders' = orders \ {o}
  /\ dialog' = [dialog EXCEPT !.busy = FALSE, !.error = "refused"]
  /\ UNCHANGED polls
CodeWanted(o) ==
  /\ o.answer = "step_up_required"
  /\ orders' = orders \ {o}
  /\ dialog' = [dialog EXCEPT !.busy = FALSE, !.needsCode = TRUE]
  /\ UNCHANGED polls
Refused(o) ==
  /\ o.answer \in {"refused", "conflict"}
  /\ orders' = orders \ {o}
  /\ dialog' = [dialog EXCEPT !.busy = FALSE, !.error = o.answer]
  /\ UNCHANGED polls
OrderAnswered(o) ==
  /\ o.at = "answered" /\ o.heard
  /\ CodeTaken(o) \/ ActDone(o) \/ CodeWanted(o) \/ Refused(o)
  /\ UNCHANGED <<server, month, shown, moves>>

\* The request does not come through, its answer is lost, or 30 seconds pass
\* and the server comes to it later.
OrderLost(o) ==
  /\ Move /\ o.heard
  /\ dialog' = [dialog EXCEPT !.busy = FALSE, !.error = "lost"]
  /\ \/ orders' = orders \ {o}
     \/ o.at = "sent" /\ orders' = (orders \ {o}) \cup {[o EXCEPT !.heard = FALSE]}
  /\ UNCHANGED <<server, list>>
Unheard(o) ==
  /\ o.at = "answered" /\ ~o.heard
  /\ orders' = orders \ {o}
  /\ UNCHANGED <<server, list, dialog, moves>>

-----------------------------------------------------------------------------
(* Time, and others.                                                       *)
CodeChanges ==
  /\ spent /\ spent' = FALSE
  /\ UNCHANGED <<standing, log, window, list, dialog, orders, moves>>
\* STEP_UP_WINDOW_MS.
StepUpLapses ==
  /\ Move /\ window /\ window' = FALSE
  /\ UNCHANGED <<standing, log, spent, list, dialog, orders>>
\* Another admin.
OthersAct ==
  /\ Move /\ log' = log + 1
  /\ standing' \in {Becomes[a] : a \in Buttons(standing)}
  /\ UNCHANGED <<window, spent, list, dialog, orders>>

CNext ==
  \/ PollRuns \/ \E q \in polls : Overview(q) \/ PollArrives(q) \/ PollFails(q)
  \/ \E m \in {"this", "last"} : ChooseMonth(m)
  \/ \E a \in OrgAction : OpenDialog(a)
  \/ CloseDialog \/ Confirm
  \/ \E o \in orders : StepUp(o) \/ Enforce(o) \/ OrderAnswered(o) \/ OrderLost(o) \/ Unheard(o)
  \/ CodeChanges \/ StepUpLapses \/ OthersAct

\* Requests are handled and answered, timers fire, the app shows its next code,
\* and an admin who does not cancel tries again.
CFairness ==
  /\ WF_cvars(Confirm) /\ WF_cvars(CodeChanges)
  /\ WF_cvars(\E o \in orders : StepUp(o) \/ Enforce(o) \/ OrderAnswered(o))
CSpec == CInit /\ [][CNext]_cvars /\ CFairness

-----------------------------------------------------------------------------
\* "in-flight requests are aborted on ... dependency change" (usePoll.ts:26):
\* what replaces the figures is never older than they are, nor of the other
\* month than the one chosen.
ListOnlyGetsNewer ==
  [][shown' # shown => shown'.log >= shown.log /\ shown'.month = month']_cvars

\* "asks for a fresh authenticator code and then carries the same action out"
\* (AdminConsole.tsx:673-677): who confirms, and tries again, either is done or
\* reads that it cannot be, through lapsed windows, spent codes, lost answers,
\* and orders that the server comes to when the browser has given them up.
ConfirmedIsSettled ==
  dialog.act # "none" ~> (dialog.act = "none" \/ dialog.error = "conflict")
=============================================================================
