---------------------------- MODULE CallHistory ----------------------------
(***************************************************************************)
(* "Recent Activity" of the dashboard (Dashboard.tsx, handleListCalls):    *)
(* the calls of a filter, newest first, page by page, read again whenever  *)
(* the live call is over.  Unlike a poll, a load is never aborted, and its *)
(* answer is taken whatever has been asked for since.                      *)
(***************************************************************************)
EXTENDS Integers, Sequences, FiniteSets

CONSTANTS
  Filters,         \* those that are used, of "all" and "booked"
  PAGE_SIZE,       \* limit
  MaxCalls,        \* bound: calls there may be
  MaxLoads,        \* bound: loads on their way at once
  Clicks           \* bound: filters chosen, loads that fail, outcomes that come late

ASSUME CallHistoryAssumption ==
  PAGE_SIZE \in Nat \ {0} /\ MaxCalls \in Nat /\ MaxLoads \in Nat /\ Clicks \in Nat

VARIABLES
  there,     \* the calls are 1 .. there, in the order they started
  booked,    \* those with outcome 'booked'
  live,      \* the dashboard shows a live call
  filter,    \* the filter chosen
  history,   \* calls, cursor, callsLoading, loadingMore, callsError; and what the
             \* list was begun with: its filter, and the calls there were
  asked,     \* loads that are not answered
  crossed,   \* history: a load began while another was on its way, or a page was
             \* asked for below the list of another filter, whose successor failed
  clicks     \* clicks left
hvars == <<there, booked, live, filter, history, asked, crossed, clicks>>

Load(f, cursor, nth) ==
  [filter |-> f, cursor |-> cursor, nth |-> nth, at |-> "sent", page |-> <<>>, next |-> 0, all |-> {}]

HInit ==
  /\ there = 3 /\ booked \in SUBSET (1 .. 3) /\ live = FALSE
  /\ filter = "all"
  /\ history = [calls |-> <<>>, cursor |-> 0, loading |-> TRUE, more |-> FALSE,
                error |-> FALSE, of |-> "all", all |-> {}]
  /\ asked = {Load("all", 0, 1)}
  /\ crossed = FALSE /\ clicks = Clicks

Click == clicks > 0 /\ clicks' = clicks - 1

-----------------------------------------------------------------------------
Matching(f) == IF f = "all" THEN 1 .. there ELSE booked

\* Mutant: as many as the list has are passed over.
AfterThoseListed(l) ==
  {c \in Matching(l.filter) : l.cursor # 0 =>
     Cardinality({d \in Matching(l.filter) : d > c}) >= Len(history.calls)}

\* Keyset pagination: those before the cursor.
After(l) == {c \in Matching(l.filter) : l.cursor # 0 => c < l.cursor}

Members(s) == {s[i] : i \in DOMAIN s}
Descending(s) == \A i, j \in DOMAIN s : i < j => s[i] > s[j]

\* ORDER BY ... DESC LIMIT: what a page leaves out is older, and the page is full.
IsPage(page, found) ==
  /\ Descending(page)
  /\ \A c \in found \ Members(page) :
       Len(page) = PAGE_SIZE /\ \A d \in Members(page) : c < d

handleListCalls(l) ==
  \E n \in 0 .. PAGE_SIZE : \E page \in [1 .. n -> After(l)] :
    /\ l.at = "sent" /\ IsPage(page, After(l))
    /\ asked' = (asked \ {l}) \cup {[l EXCEPT !.at = "answered", !.page = page,
          !.next = IF After(l) \subseteq Members(page) THEN 0 ELSE page[n],
          !.all = Matching(l.filter)]}
    /\ UNCHANGED <<there, booked, live, filter, history, crossed, clicks>>

-----------------------------------------------------------------------------
\* loadCalls up to its await.
loadCalls(f, cursor) ==
  /\ \E nth \in 1 .. MaxLoads :
       /\ \A l \in asked : l.nth # nth
       /\ \A n \in 1 .. nth - 1 : \E l \in asked : l.nth = n
       /\ asked' = asked \cup {Load(f, cursor, nth)}
  /\ history' = [history EXCEPT !.error = FALSE, !.more = @ \/ cursor # 0,
                                !.loading = @ \/ cursor = 0]
  /\ crossed' = (crossed \/ asked # {} \/ (cursor # 0 /\ history.of # f))

Answer(l) ==
  /\ l.at = "answered"
  /\ history' = [history EXCEPT !.cursor = l.next, !.loading = FALSE, !.more = FALSE,
        !.calls = IF l.cursor # 0 THEN @ \o l.page ELSE l.page,
        !.of = IF l.cursor # 0 THEN @ ELSE l.filter,
        !.all = IF l.cursor # 0 THEN @ ELSE l.all]
  /\ asked' = asked \ {l}
  /\ crossed' = (crossed /\ ~(asked = {l} /\ l.cursor = 0 /\ l.filter = filter))
  /\ UNCHANGED <<there, booked, live, filter, clicks>>

AnswerFails(l) ==
  /\ Click
  /\ history' = [history EXCEPT !.error = TRUE, !.loading = FALSE, !.more = FALSE]
  /\ asked' = asked \ {l}
  /\ UNCHANGED <<there, booked, live, filter, crossed>>

ChooseFilter(f) ==
  /\ Click /\ f # filter
  /\ filter' = f
  /\ loadCalls(f, 0)
  /\ UNCHANGED <<there, booked, live>>

LoadMore ==
  /\ history.cursor # 0 /\ ~history.more
  /\ loadCalls(filter, history.cursor)
  /\ UNCHANGED <<there, booked, live, filter, clicks>>

RetryLoad ==
  /\ history.error
  /\ loadCalls(filter, 0)
  /\ UNCHANGED <<there, booked, live, filter, clicks>>

\* A call is answered, and the live poll shows it.
CallComes ==
  /\ there < MaxCalls
  /\ there' = there + 1 /\ live' = TRUE
  /\ UNCHANGED <<booked, filter, history, asked, crossed, clicks>>

\* It drops off the live endpoint: "refresh the history".
CallDropsOff ==
  /\ live /\ live' = FALSE
  /\ booked' \in {booked, booked \cup {there}}
  /\ loadCalls(filter, 0)
  /\ UNCHANGED <<there, filter, clicks>>

\* The report about a call that was not the one shown.
OutcomeComes ==
  /\ Click
  /\ \E c \in (1 .. there) \ booked : booked' = booked \cup {c}
  /\ UNCHANGED <<there, live, filter, history, asked, crossed>>

HNext ==
  \/ \E l \in asked : handleListCalls(l) \/ Answer(l) \/ AnswerFails(l)
  \/ \E f \in Filters : ChooseFilter(f)
  \/ LoadMore \/ RetryLoad \/ CallComes \/ CallDropsOff \/ OutcomeComes

HSpec == HInit /\ [][HNext]_hvars

-----------------------------------------------------------------------------
Listed == Members(history.calls)

\* Each call once, newest first, of the filter chosen; and none left out of those
\* there were when the list was begun, down to its end.
Whole ==
  /\ Descending(history.calls)
  /\ Listed \subseteq Matching(filter)
  /\ \A c \in history.all \ Listed :
       history.cursor # 0 /\ \A d \in Listed : c < d

\* "Keyset pagination on (started_at, id) --- stable even as new calls arrive"
\* (calls.ts:107), of the list that the dashboard builds from the pages, as long
\* as no load begins while another is on its way, nor below another filter's list.
HistoryIsWhole ==
  ~crossed /\ ~history.loading /\ ~history.error => Whole
=============================================================================
