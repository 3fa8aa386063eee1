------------------------------- MODULE Leads -------------------------------
(***************************************************************************)
(* Callback requests from the marketing site: POST /api/lead               *)
(* (src/demo/src/app/api/lead/route.ts) with src/demo/src/lib/leads.ts and *)
(* notify.ts.  Requests run at once, each from statement to statement; a   *)
(* visitor who saw no answer may send the form again.                      *)
(***************************************************************************)
EXTENDS Integers, FiniteSets, FiniteSetsExt

CONSTANTS
  Requests,     \* requests that may reach the route
  Phones,       \* telephone numbers typed into the form
  Senders,      \* hashed IP addresses
  PER_SENDER_PER_HOUR,
  GLOBAL_PER_DAY,
  MaxClock,     \* bound: duplicate windows that pass
  None

ASSUME LeadsAssumption ==
  /\ None \notin Phones \cup Senders
  /\ PER_SENDER_PER_HOUR \in Nat /\ GLOBAL_PER_DAY \in Nat /\ MaxClock \in Nat

VARIABLES
  request,  \* each request: how far its handler is, and what it was sent
  leads,    \* the leads table: who asked, from where, by which request, when
  mails,    \* emails sent about each request's lead
  clock     \* time, in windows of DUPLICATE_WINDOW_MS
lvars == <<request, leads, mails, clock>>

Steps == {"unsent", "received", "dayCounted", "counted", "new", "saved",
          "ok", "refused", "invalid", "error"}

LInit ==
  /\ request = [r \in Requests |-> [at |-> "unsent", phone |-> None, sender |-> None,
                                    honest |-> TRUE, known |-> {}]]
  /\ leads = {} /\ clock = 0
  /\ mails = [r \in Requests |-> 0]

Answer(r, at) == request' = [request EXCEPT ![r].at = at]

isPlausiblePhone(phone) == phone # None

\* The leads of a number that were saved less than a window ago.
Recent(phone) == {lead \in leads : lead.phone = phone /\ lead.at = clock}

\* The gates before any table is read: origin and edge limit, honeypot, fields.
Receive(r, phone, sender) ==
  /\ request[r].at = "unsent"
  /\ \E honest \in BOOLEAN, at \in {"received", "refused", "ok", "invalid"} :
       /\ at = "ok" <=> ~honest
       /\ honest /\ at # "refused" => (at = "received" <=> isPlausiblePhone(phone))
       /\ request' = [request EXCEPT ![r] = [at |-> at, phone |-> phone, sender |-> sender,
                        honest |-> honest, known |-> Recent(phone)]]
  /\ UNCHANGED <<leads, mails, clock>>

\* leadLimitReached: everyone's requests of the day, then this sender's hour.
CountDay(r) ==
  /\ request[r].at = "received"
  /\ Answer(r, IF Cardinality(leads) >= GLOBAL_PER_DAY THEN "refused" ELSE "dayCounted")
  /\ UNCHANGED <<leads, mails, clock>>

FromSender(s) == {lead \in leads : lead.sender = s}
CountSender(r) ==
  /\ request[r].at = "dayCounted"
  /\ Answer(r, IF Cardinality(FromSender(request[r].sender)) >= PER_SENDER_PER_HOUR
               THEN "refused" ELSE "counted")
  /\ UNCHANGED <<leads, mails, clock>>

\* Mutant: a retry is looked up by what was typed, not by the number.
LookForOwnRepeat(r) ==
  /\ request[r].at = "counted"
  /\ Answer(r, IF \E lead \in Recent(request[r].phone) : lead.sender = request[r].sender
               THEN "ok" ELSE "new")
  /\ UNCHANGED <<leads, mails, clock>>

\* isRepeatLead: the first copy is saved, so a repeat is answered as sent.
LookForRepeat(r) ==
  /\ request[r].at = "counted"
  /\ Answer(r, IF Recent(request[r].phone) # {} THEN "ok" ELSE "new")
  /\ UNCHANGED <<leads, mails, clock>>

\* saveLead.
Save(r) ==
  /\ request[r].at = "new"
  /\ leads' = leads \cup {[id |-> r, phone |-> request[r].phone,
                           sender |-> request[r].sender, at |-> clock]}
  /\ Answer(r, "saved")
  /\ UNCHANGED <<mails, clock>>

\* emailNewLead: whether it is sent or fails, the request has been saved.
Mail(r) ==
  /\ request[r].at = "saved"
  /\ mails' \in {mails, [mails EXCEPT ![r] = @ + 1]}
  /\ Answer(r, "ok")
  /\ UNCHANGED <<leads, clock>>

\* A statement before the save throws: not_saved.
FailToSave(r) ==
  /\ request[r].at \in {"received", "dayCounted", "counted", "new"}
  /\ Answer(r, "error")
  /\ UNCHANGED <<leads, mails, clock>>

\* The Worker is lost after the insert: no answer, and no email.
DieAfterSave(r) ==
  /\ request[r].at = "saved"
  /\ Answer(r, "error")
  /\ UNCHANGED <<leads, mails, clock>>

WindowPasses ==
  /\ clock < MaxClock /\ clock' = clock + 1
  /\ UNCHANGED <<request, leads, mails>>

LNext ==
  \/ \E r \in Requests :
       \/ \E phone \in Phones \cup {None}, sender \in Senders : Receive(r, phone, sender)
       \/ CountDay(r) \/ CountSender(r) \/ LookForRepeat(r) \/ Save(r) \/ Mail(r)
       \/ FailToSave(r) \/ DieAfterSave(r)
  \/ WindowPasses

LSpec == LInit /\ [][LNext]_lvars

-----------------------------------------------------------------------------
\* "A double click, or a retry after a slow answer, is the same request"
\* (route.ts:130-135, isRepeatLead): a request that came when its number had
\* been saved, a window ago at most, is never saved again, from whatever address
\* it comes.  Copies that overlap are the case the code leaves open.
RepeatsAreOneLead ==
  \A lead \in leads : \A old \in request[lead.id].known : old.at # lead.at
=============================================================================
