------------------------------ MODULE Outreach ------------------------------
(***************************************************************************)
(* The cold-outreach cadence: the tracker import                           *)
(* (src/demo/scripts/import-outreach.mjs), the unsubscribe link            *)
(* (src/demo/src/app/api/unsubscribe/route.ts) and the dashboard's paged   *)
(* read (src/demo/src/lib/analytics.ts) at work on one outreach table.     *)
(*                                                                         *)
(* A contact is a practice name with an email address.  The cells of its   *)
(* tracker row are abstracted to a number that grows with every edit.      *)
(***************************************************************************)
EXTENDS Integers, Sequences, FiniteSets

CONSTANTS
  Contacts,    \* rows the tracker may have
  EmailOf,     \* EmailOf[c]: the address in it
  IdsNamed,    \* IdsNamed[c]: the prospects with its practice name
  MaxEdits,    \* bound: edits of a tracker row
  MaxClicks,   \* bound: clicks on unsubscribe links
  PageSize,    \* rows per page of the dashboard's read
  NoContact

ASSUME OutreachAssumption ==
  /\ NoContact \notin Contacts /\ IsFiniteSet(Contacts)
  /\ MaxEdits \in Nat /\ MaxClicks \in Nat /\ PageSize \in Nat \ {0}

Emails == {EmailOf[c] : c \in Contacts}

VARIABLES
  tracker,      \* the founder's sheet: edits of each row, and `interested`
  outreach,     \* the outreach table, by contact
  suppression,  \* email_suppression
  import,       \* the script: the sheet it read, what is left, the row it looks for
  clicks,       \* unsubscribe requests and how far they are
  told,         \* history: addresses that were shown "You've been unsubscribed"
  read          \* the dashboard's read: its offset, the rows it got
ovars == <<tracker, outreach, suppression, import, clicks, told, read>>

\* Ids are random uuids: the order of the pages is not that of the inserts.
Ids == 1 .. Cardinality(Contacts)
NoImport == [sheet |-> [c \in Contacts |-> 0], left |-> {}, looking |-> NoContact, found |-> FALSE]
NoRead == [offset |-> -1, got |-> {}, start |-> {}]

OInit ==
  /\ tracker = [c \in Contacts |-> 0]
  /\ outreach = [c \in {} |-> 0]
  /\ suppression = {} /\ told = {} /\ clicks = <<>>
  /\ import = NoImport /\ read = NoRead

Rows == DOMAIN outreach

-----------------------------------------------------------------------------
(* The import. *)

Edit(c) ==
  /\ tracker[c] < MaxEdits
  /\ tracker' = [tracker EXCEPT ![c] = @ + 1]
  /\ UNCHANGED <<outreach, suppression, import, clicks, told, read>>

\* main: parse the sheet, index the prospects, then one record after another.
\* A practice that names no prospect, or two, is left out.
Matched(c) == Cardinality(IdsNamed[c]) = 1
StartImport ==
  /\ import = NoImport
  /\ \E c \in Contacts : tracker[c] > 0
  /\ import' = [NoImport EXCEPT !.sheet = tracker,
                                !.left = {c \in Contacts : tracker[c] > 0 /\ Matched(c)}]
  /\ UNCHANGED <<tracker, outreach, suppression, clicks, told, read>>

\* upsertOutreach: find the row by prospect and address.
Find(c) ==
  /\ c \in import.left /\ import.looking = NoContact
  /\ import' = [import EXCEPT !.looking = c, !.found = c \in Rows]
  /\ UNCHANGED <<tracker, outreach, suppression, clicks, told, read>>

\* buildPayload names the columns the tracker owns; opted_out_at is not one.  A
\* row remembers whether its address had been told it is out before the insert.
buildPayload(row, c) == [row EXCEPT !.cadence = import.sheet[c]]
NewRow(c, id) == [cadence |-> import.sheet[c], optedOut |-> 0, id |-> id,
                  late |-> EmailOf[c] \in told]
NextRecord == [import EXCEPT !.left = @ \ {import.looking}, !.looking = NoContact, !.found = FALSE]

\* Mutant: the update writes a whole row.
UpdateWhole(c) ==
  /\ import.looking = c /\ import.found
  /\ outreach' = [outreach EXCEPT ![c] = NewRow(c, outreach[c].id)]
  /\ import' = NextRecord
  /\ UNCHANGED <<tracker, suppression, clicks, told, read>>

Update(c) ==
  /\ import.looking = c /\ import.found
  /\ outreach' = [outreach EXCEPT ![c] = buildPayload(@, c)]
  /\ import' = NextRecord
  /\ UNCHANGED <<tracker, suppression, clicks, told, read>>

Insert(c) ==
  /\ import.looking = c /\ ~import.found
  /\ \E id \in Ids \ {outreach[d].id : d \in Rows} :
       outreach' = [d \in Rows \cup {c} |-> IF d = c THEN NewRow(c, id) ELSE outreach[d]]
  /\ import' = NextRecord
  /\ UNCHANGED <<tracker, suppression, clicks, told, read>>

\* The summary is printed, or a statement failed and the script exited.
EndImport ==
  /\ import # NoImport
  /\ import' = NoImport
  /\ UNCHANGED <<tracker, outreach, suppression, clicks, told, read>>

-----------------------------------------------------------------------------
(* The unsubscribe link. *)

\* GET with a valid token; a wrong one is answered with a page and no more.
Click(email) ==
  /\ Len(clicks) < MaxClicks
  /\ clicks' = Append(clicks, [email |-> email, at |-> "signed"])
  /\ UNCHANGED <<tracker, outreach, suppression, import, told, read>>

\* Mutant: an address that is on the list already is answered at once.
SuppressNewOnly(i) ==
  /\ clicks[i].at = "signed"
  /\ suppression' = suppression \cup {clicks[i].email}
  /\ IF clicks[i].email \in suppression
     THEN clicks' = [clicks EXCEPT ![i].at = "done"] /\ told' = told \cup {clicks[i].email}
     ELSE clicks' = [clicks EXCEPT ![i].at = "listed"] /\ UNCHANGED told
  /\ UNCHANGED <<tracker, outreach, import, read>>

\* suppress: the insert, where a unique violation means it is there already.
Suppress(i) ==
  /\ clicks[i].at = "signed"
  /\ suppression' = suppression \cup {clicks[i].email}
  /\ clicks' = [clicks EXCEPT ![i].at = "listed"]
  /\ UNCHANGED <<tracker, outreach, import, told, read>>

\* suppress: the rows of the address that are not opted out yet get the time of
\* this click (its number stands for the time), and the page says so.
OptOut(i) ==
  /\ clicks[i].at = "listed"
  /\ outreach' = [c \in Rows |->
       IF EmailOf[c] = clicks[i].email /\ outreach[c].optedOut = 0
       THEN [outreach[c] EXCEPT !.optedOut = i] ELSE outreach[c]]
  /\ clicks' = [clicks EXCEPT ![i].at = "done"]
  /\ told' = told \cup {clicks[i].email}
  /\ UNCHANGED <<tracker, suppression, import, read>>

\* Either statement fails: "Something went wrong".
ClickFails(i) ==
  /\ clicks[i].at \in {"signed", "listed"}
  /\ clicks' = [clicks EXCEPT ![i].at = "failed"]
  /\ UNCHANGED <<tracker, outreach, suppression, import, told, read>>

-----------------------------------------------------------------------------
(* fetchCampaignRows: pages by offset over the ids, until a short page. *)

\* How many rows come before that of c.
Place(c) == Cardinality({d \in Rows : outreach[d].id < outreach[c].id})
Page(offset) == {c \in Rows : Place(c) \in offset .. offset + PageSize - 1}

StartRead ==
  /\ read.offset = -1
  /\ read' = [offset |-> 0, got |-> {}, start |-> Rows]
  /\ UNCHANGED <<tracker, outreach, suppression, import, clicks, told>>

\* Mutant: every page but the first begins one row late.
FetchPageLate ==
  LET offset == IF read.offset = 0 THEN 0 ELSE read.offset + 1 IN
  /\ read.offset >= 0
  /\ read' = [read EXCEPT !.got = @ \cup Page(offset),
                !.offset = IF Cardinality(Page(offset)) < PageSize THEN -2 ELSE offset + PageSize]
  /\ UNCHANGED <<tracker, outreach, suppression, import, clicks, told>>

FetchPage ==
  /\ read.offset >= 0
  /\ read' = [read EXCEPT !.got = @ \cup Page(read.offset),
                !.offset = IF Cardinality(Page(@)) < PageSize THEN -2 ELSE @ + PageSize]
  /\ UNCHANGED <<tracker, outreach, suppression, import, clicks, told>>

ONext ==
  \/ \E c \in Contacts : Edit(c) \/ Find(c) \/ Update(c) \/ Insert(c)
  \/ StartImport \/ EndImport
  \/ \E email \in Emails : Click(email)
  \/ \E i \in DOMAIN clicks : Suppress(i) \/ OptOut(i) \/ ClickFails(i)
  \/ StartRead \/ FetchPage

OSpec == OInit /\ [][ONext]_ovars

-----------------------------------------------------------------------------
\* The opt-out is not the tracker's to change (import-outreach.mjs:145-147): no
\* import, however stale the sheet it read, moves or clears the first one.
OptOutStays ==
  [][\A c \in Rows : outreach[c].optedOut # 0 => outreach'[c].optedOut = outreach[c].optedOut]_ovars

\* "You've been unsubscribed" (route.ts:196-199): whoever was shown it is on the
\* list, also when an earlier click failed half way, and so are the rows that
\* the table had; only a row imported since is left to the list.
ToldMeansOut ==
  /\ told \subseteq suppression
  /\ \A c \in Rows : EmailOf[c] \in told /\ outreach[c].optedOut = 0 =>
       outreach[c].late

\* "Ordered by id so the pages do not overlap or skip" (analytics.ts:109): no
\* row that was there when the read began is missing, whatever is inserted.
NoRowIsSkipped == read.offset = -2 => read.start \subseteq read.got
=============================================================================
