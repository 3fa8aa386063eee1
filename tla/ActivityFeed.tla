---------------------------- MODULE ActivityFeed ----------------------------
(***************************************************************************)
(* The activity on the admin console (ActivitySection of AdminConsole.tsx  *)
(* and handleAdminActivity): the audit log, newest first, page by page,    *)
(* while it grows.  An entry is its id; those the feed does not show are   *)
(* not counted.                                                            *)
(***************************************************************************)
EXTENDS Integers, Sequences

CONSTANTS
  ACTIVITY_PAGE,
  OldEntries,      \* entries there are when the console opens
  Events           \* bound: new entries and lost answers

ASSUME ActivityFeedAssumption ==
  /\ ACTIVITY_PAGE \in Nat \ {0} /\ OldEntries \in Nat /\ Events \in Nat

VARIABLES
  entries,   \* the last id of audit_log
  feed,      \* the section on the page
  loads,     \* its requests
  twice,     \* history: Retry was pressed while a load was on its way
  events     \* events left
fvars == <<entries, feed, loads, twice, events>>

NoFeed == [loaded |-> FALSE, items |-> <<>>, cursor |-> 0, error |-> FALSE, more |-> FALSE]
LoadOf(before, nth) == [before |-> before, nth |-> nth, at |-> "sent", page |-> <<>>, next |-> 0]

FInit ==
  /\ entries = OldEntries
  /\ feed = NoFeed /\ loads = {LoadOf(0, 1)}
  /\ twice = FALSE /\ events = Events

Event == events > 0 /\ events' = events - 1

\* The entries before a cursor; a cursor for the next page if there is one.
Page(before) ==
  LET top  == IF before = 0 THEN entries ELSE before - 1
      size == IF top < ACTIVITY_PAGE THEN top ELSE ACTIVITY_PAGE
  IN [i \in 1 .. size |-> top - i + 1]

Serve(l) ==
  LET page == Page(l.before) IN
  /\ l.at = "sent"
  /\ loads' = (loads \ {l}) \cup {[l EXCEPT !.at = "answered", !.page = page,
        !.next = IF page # <<>> /\ page[Len(page)] > 1 THEN page[Len(page)] ELSE 0]}
  /\ UNCHANGED <<entries, feed, twice, events>>

\* load, and setLoadingMore(false) after it.
Arrive(l) ==
  /\ l.at = "answered"
  /\ feed' = [loaded |-> TRUE, cursor |-> l.next, error |-> FALSE,
              items |-> IF l.before # 0 /\ feed.loaded THEN feed.items \o l.page ELSE l.page,
              more |-> feed.more /\ l.before = 0]
  /\ loads' = loads \ {l}
  /\ UNCHANGED <<entries, twice, events>>

LoadFails(l) ==
  /\ Event
  /\ feed' = [feed EXCEPT !.error = TRUE, !.more = feed.more /\ l.before = 0]
  /\ loads' = loads \ {l}
  /\ UNCHANGED <<entries, twice>>

\* "Show older activity".
ShowOlder ==
  /\ feed.loaded /\ feed.cursor # 0 /\ ~feed.more
  /\ feed' = [feed EXCEPT !.more = TRUE]
  /\ loads' = loads \cup {LoadOf(feed.cursor, 1)}
  /\ UNCHANGED <<entries, twice, events>>

\* The banner keeps its button until an answer comes.
Retry ==
  /\ feed.error /\ ~feed.loaded
  /\ \E nth \in 1 .. 2 :
       /\ \A l \in loads : l.nth # nth
       /\ loads' = loads \cup {LoadOf(0, nth)}
  /\ twice' = (twice \/ loads # {})
  /\ UNCHANGED <<entries, feed, events>>

\* Mutant: asked for anew in the section that is there.
AnewInPlace == loads' = loads \cup {LoadOf(0, 2)} /\ feed' = feed
\* A new key makes it another section: answers to the old one go nowhere.
Anew == loads' = {LoadOf(0, 1)} /\ feed' = NoFeed

\* afterAction.
ActionDone ==
  /\ Event
  /\ entries' = entries + 1
  /\ Anew
  /\ UNCHANGED twice

EntryAdded ==
  /\ Event
  /\ entries' = entries + 1
  /\ UNCHANGED <<feed, loads, twice>>

FNext ==
  \/ \E l \in loads : Serve(l) \/ Arrive(l) \/ LoadFails(l)
  \/ ShowOlder \/ Retry \/ ActionDone \/ EntryAdded

FSpec == FInit /\ [][FNext]_fvars

-----------------------------------------------------------------------------
\* "What has been happening on the platform, newest first" (platform.ts:248):
\* the activity on the screen has every entry from its first to its last once,
\* in that order, and is over only at the oldest, whatever is entered between
\* two pages and whatever section an answer was for.  The one way out is the
\* Retry button, pressed again while the retry is on its way.
ActivityIsWhole ==
  feed.loaded /\ ~twice =>
    LET n == Len(feed.items) IN
    /\ \A i \in 1 .. n : feed.items[i] = feed.items[1] - i + 1
    /\ feed.cursor = IF n > 0 /\ feed.items[n] > 1 THEN feed.items[n] ELSE 0
=============================================================================
