----------------------------- MODULE MCScreens -----------------------------
(***************************************************************************)
(* The screens of the control platform: the way in (Admission), the admin  *)
(* console (Console) with the activity below it (ActivityFeed), and the    *)
(* history of the dashboard (CallHistory).  What one of them does, another *)
(* sees through tables that have modules of their own (Accounts, LiveCall);*)
(* a run explores each of its Parts by itself, as Init chooses, and the    *)
(* others rest.                                                            *)
(***************************************************************************)
EXTENDS Admission, Console, ActivityFeed, CallHistory

CONSTANT Parts
VARIABLE part
vars == <<part, avars, cvars, fvars, hvars>>

AtRest == [Loading EXCEPT !.status = "elsewhere", !.served = TRUE]
AResting ==
  /\ account = [role |-> "client", how |-> "password", mustChange |-> FALSE, consent |-> 1,
                factor |-> "none"]
  /\ org = "active" /\ version = 1 /\ session = FALSE /\ failures = 0 /\ page = AtRest /\ left = 0
CResting ==
  /\ standing = "active" /\ log = 0 /\ window = FALSE /\ spent = FALSE /\ month = "this"
  /\ shown = Nothing /\ polls = {} /\ dialog = NoDialog /\ orders = {} /\ moves = 0
FResting == entries = 0 /\ feed = NoFeed /\ loads = {} /\ twice = FALSE /\ events = 0
HResting ==
  /\ there = 0 /\ booked = {} /\ live = FALSE /\ filter = "all" /\ asked = {}
  /\ history = [calls |-> <<>>, cursor |-> 0, loading |-> TRUE, more |-> FALSE,
                error |-> FALSE, of |-> "all", all |-> {}]
  /\ crossed = FALSE /\ clicks = 0

Init ==
  /\ part \in Parts
  /\ IF part = "way in"   THEN AInit ELSE AResting
  /\ IF part = "console"  THEN CInit ELSE CResting
  /\ IF part = "activity" THEN FInit ELSE FResting
  /\ IF part = "history"  THEN HInit ELSE HResting

Next ==
  \/ part = "way in"   /\ ANext /\ UNCHANGED <<part, cvars, fvars, hvars>>
  \/ part = "console"  /\ CNext /\ UNCHANGED <<part, avars, fvars, hvars>>
  \/ part = "activity" /\ FNext /\ UNCHANGED <<part, avars, cvars, hvars>>
  \/ part = "history"  /\ HNext /\ UNCHANGED <<part, avars, cvars, fvars>>

\* At rest nothing that is fair is enabled.
Spec == Init /\ [][Next]_vars /\ AFairness /\ CFairness
=============================================================================
