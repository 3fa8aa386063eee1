------------------------------ MODULE LiveFeed ------------------------------
(***************************************************************************)
(* The live part of the dashboard in one browser tab: usePoll asks for the *)
(* live call, a second usePoll inside useTranscript asks for its lines     *)
(* after a cursor, and staff may end or take over the call they see.       *)
(*                                                                         *)
(* A tab runs one task at a time, so a task is an action: an answer that   *)
(* arrives, a timer, a visibility change, a render, the effects that a     *)
(* render leaves for a later task.  Delays, and so the back-off, are not   *)
(* modelled: a timer fires at any time.  An answer 401 leaves the page and *)
(* is the end of a behaviour.                                              *)
(***************************************************************************)
EXTENDS Integers, Sequences, FiniteSets, FiniteSetsExt

CONSTANTS
    Calls,          \* how many calls there are, in the order they start
    PageSize,       \* MAX_TRANSCRIPT_LINES
    None,           \* null
    NoData,         \* no answer yet
    MaxLines,       \* bound: lines of all calls
    MaxTrouble,     \* bound: lost answers and hidden tabs
    MaxOrders       \* bound: takeovers and hang-ups

ASSUME LiveFeedAssumption ==
    /\ Calls \in Nat
    /\ PageSize \in Nat \ {0}
    /\ MaxLines \in Nat /\ MaxTrouble \in Nat /\ MaxOrders \in Nat
    /\ None \notin Nat /\ NoData \notin Nat /\ None # NoData

Call == 1..Calls

Poll == {"live", "transcript"}

VARIABLES
    phase,      \* external: each call at the server
    stored,     \* external: how many lines of each call are stored
    hidden,     \* document.hidden
    live,       \* state of the live poll: the call in its data, and stale
    tracked,    \* the call of the last render (trackedIdRef)
    cursor,     \* cursorRef
    lines,      \* the lines of useTranscript
    following,  \* the call whose transcript effect is in place
    refresh,    \* live.refresh(): asked for, or rendered
    effectsDue, \* a render has left effects to run
    timer,      \* timerRef of each poll is set
    request,    \* the request of each poll that is not aborted
    order,      \* the takeover or hang-up under way
    trouble,    \* bound counter
    orders,     \* bound counter
    switched    \* history: a call was followed by another without a pause

server == <<phase, stored>>
page   == <<live, tracked, cursor, lines, following, refresh, effectsDue, switched>>
polls  == <<timer, request>>
vars   == <<server, hidden, page, polls, order, trouble, orders>>

Line == [call : Call, seq : 1..MaxLines]

NoRequest == [at |-> "none", call |-> None, after |-> 0, answer |-> None]

Request ==
    [at     : {"none", "sent", "answered"},
     call   : Call \cup {None},
     after  : 0..MaxLines,
     answer : Nat \cup {None}]      \* a call, or the highest line of a page

NoOrder == [kind |-> "none", call |-> None]

Order == [kind : {"none", "takeover", "end"}, call : Call \cup {None}]

TypeOK ==
    /\ phase \in [Call -> {"waiting", "live", "ended"}]
    /\ stored \in [Call -> 0..MaxLines]
    /\ hidden \in BOOLEAN
    /\ live \in [data : Call \cup {None, NoData}, stale : BOOLEAN]
    /\ tracked \in Call \cup {None}
    /\ cursor \in 0..MaxLines
    /\ lines \in Seq(Line)
    /\ following \in Call \cup {None}
    /\ refresh \subseteq {"asked", "rendered"}
    /\ effectsDue \in BOOLEAN
    /\ timer \in [Poll -> BOOLEAN]
    /\ request \in [Poll -> Request]
    /\ order \in Order
    /\ trouble \in 0..MaxTrouble
    /\ orders \in 0..MaxOrders
    /\ switched \in BOOLEAN

-----------------------------------------------------------------------------
(* usePoll                                                                 *)

\* liveCall?.id
Shown == IF live.data \in Call THEN live.data ELSE None

(* What fetcherRef.current sends: useTranscript without a call sends       *)
(* nothing and answers null at once.                                       *)
Fetch(p, c, k) ==
    IF p = "live" THEN [NoRequest EXCEPT !.at = "sent"]
    ELSE IF c = None THEN NoRequest
    ELSE [at |-> "sent", call |-> c, after |-> k, answer |-> None]

Init ==
    /\ phase = [c \in Call |-> "waiting"]
    /\ stored = [c \in Call |-> 0]
    /\ hidden = FALSE
    /\ live = [data |-> NoData, stale |-> FALSE]
    /\ tracked = None
    /\ cursor = 0
    /\ lines = <<>>
    /\ following = None
    /\ refresh = {}
    /\ effectsDue = FALSE
    /\ timer = [p \in Poll |-> FALSE]
    /\ request = [p \in Poll |-> IF p = "live" THEN Fetch(p, None, 0) ELSE NoRequest]
    /\ order = NoOrder
    /\ trouble = 0
    /\ orders = 0
    /\ switched = FALSE

Mounted(p) == p = "live" \/ following # None

(* request() of api.ts answers null, as if all were well, when it loses    *)
(* the body of an answer whose headers were there.                         *)
BodyLost ==
    IF request["live"].at = "answered" THEN {[data |-> NoData, stale |-> FALSE]} ELSE {}

(* run() of the polls in P at once, in a visible tab: each aborts what it  *)
(* had under way, and the aborted run sets a timer in its finally.         *)
Run(P) ==
    /\ timer' = [p \in Poll |->
                    IF p \notin P THEN timer[p]
                    ELSE \/ request[p].at # "none"
                         \/ p = "transcript" /\ tracked = None]
    /\ request' = [p \in Poll |-> IF p \in P THEN Fetch(p, tracked, cursor)
                                  ELSE request[p]]
    /\ live' \in {live} \cup (IF "live" \in P THEN BodyLost ELSE {})

(* A run that ends: the finally of run(), schedule().                      *)
Schedule(p) ==
    /\ timer' = [timer EXCEPT ![p] = ~hidden]
    /\ request' = [request EXCEPT ![p] = NoRequest]

TimerFires(p) ==
    /\ timer[p]
    /\ Run({p})
    /\ UNCHANGED <<server, hidden, tracked, cursor, lines, following, refresh,
                   effectsDue, switched, order, trouble, orders>>

(* onVisibilityChange of both polls.                                       *)
Hide ==
    /\ ~hidden
    /\ trouble < MaxTrouble
    /\ trouble' = trouble + 1
    /\ hidden' = TRUE
    /\ timer' = [p \in Poll |-> FALSE]
    /\ UNCHANGED <<server, page, request, order, orders>>

\* Mutant: a tab that is shown again waits for a timer.
ShowWaits ==
    /\ hidden
    /\ hidden' = FALSE
    /\ UNCHANGED <<server, page, polls, order, trouble, orders>>

Show ==
    /\ hidden
    /\ hidden' = FALSE
    /\ Run({p \in Poll : Mounted(p)})
    /\ UNCHANGED <<server, tracked, cursor, lines, following, refresh,
                   effectsDue, switched, order, trouble, orders>>

(* The catch of run(): no answer, a 5xx or the 30 seconds of withTimeout.  *)
RequestFails(p) ==
    /\ request[p].at # "none"
    /\ trouble < MaxTrouble
    /\ trouble' = trouble + 1
    /\ IF p = "live" THEN live' \in {[live EXCEPT !.stale = TRUE]} \cup BodyLost
                     ELSE live' = live
    /\ Schedule(p)
    /\ UNCHANGED <<server, hidden, tracked, cursor, lines, following, refresh,
                   effectsDue, switched, order, orders>>

-----------------------------------------------------------------------------
(* The server's side of a request, and the answers                         *)

\* handleLiveCall: ORDER BY started_at DESC LIMIT 1.
LiveNow ==
    LET open == {c \in Call : phase[c] = "live"}
    IN  IF open = {} THEN None ELSE Max(open)

\* handleTranscript: the cursor after the page.
PageEnd(c, after) == Min({stored[c], after + PageSize})

Serve(p) ==
    /\ request[p].at = "sent"
    /\ request' = [request EXCEPT
           ![p].at = "answered",
           ![p].answer = IF p = "live" THEN LiveNow
                         ELSE PageEnd(request[p].call, request[p].after)]
    /\ UNCHANGED <<server, hidden, page, timer, order, trouble, orders>>

LiveArrives ==
    /\ request["live"].at = "answered"
    /\ live' = [data |-> request["live"].answer, stale |-> FALSE]
    /\ Schedule("live")
    /\ UNCHANGED <<server, hidden, tracked, cursor, lines, following, refresh,
                   effectsDue, switched, order, trouble, orders>>

\* The fetcher of useTranscript: only lines whose seq is not there yet.
Additions(r) ==
    {q \in r.after + 1 .. r.answer : \A i \in DOMAIN lines : lines[i].seq # q}

\* ORDER BY seq.
InOrder(s, seqs) ==
    /\ \A i, j \in DOMAIN s : i < j => s[i] < s[j]
    /\ {s[i] : i \in DOMAIN s} = seqs

TranscriptArrives ==
    LET r == request["transcript"]
        new == Additions(r)
    IN
    /\ r.at = "answered"
    /\ IF r.answer > r.after
       THEN /\ cursor' = r.answer
            /\ \E s \in [1 .. Cardinality(new) -> new] :
                 /\ InOrder(s, new)
                 /\ lines' = lines \o [i \in DOMAIN s |-> [call |-> r.call, seq |-> s[i]]]
       ELSE UNCHANGED <<cursor, lines>>
    /\ Schedule("transcript")
    /\ UNCHANGED <<server, hidden, live, tracked, following, refresh,
                   effectsDue, switched, order, trouble, orders>>

-----------------------------------------------------------------------------
(* React                                                                   *)

\* Mutant: the refs are left alone.
RenderKeepsCursor ==
    /\ ~effectsDue
    /\ Shown # tracked \/ refresh # {}
    /\ tracked' = Shown
    /\ switched' = (switched \/ (tracked \in Call /\ tracked' \in Call \ {tracked}))
    /\ refresh' = {"rendered" : r \in refresh}
    /\ effectsDue' = TRUE
    /\ UNCHANGED <<server, hidden, live, cursor, lines, following, polls, order,
                   trouble, orders>>

(* A render of the dashboard that changes what its effects depend on: the  *)
(* refs are reset while it renders.                                        *)
Render ==
    /\ ~effectsDue
    /\ Shown # tracked \/ refresh # {}
    /\ tracked' = Shown
    /\ cursor' = IF tracked' = tracked THEN cursor ELSE 0
    /\ switched' = (switched \/ (tracked \in Call /\ tracked' \in Call \ {tracked}))
    /\ refresh' = {"rendered" : r \in refresh}
    /\ effectsDue' = TRUE
    /\ UNCHANGED <<server, hidden, live, lines, following, polls, order,
                   trouble, orders>>

\* Mutant: without setLines([]).
LinesKept == lines

LinesAfterSwitch == IF following # tracked THEN <<>> ELSE lines

(* The effects of that render, all cleanups first: the poll whose inputs   *)
(* changed is cancelled and starts again, and setLines([]).                *)
RunEffects ==
    LET again == {p \in Poll : \/ p = "live" /\ "rendered" \in refresh
                               \/ p = "transcript" /\ following # tracked}
    IN
    /\ effectsDue
    /\ effectsDue' = FALSE
    /\ lines' = LinesAfterSwitch
    /\ following' = tracked
    /\ refresh' = refresh \ {"rendered"}
    /\ timer' = [p \in Poll |-> timer[p] /\ p \notin again]
    /\ request' = [p \in Poll |-> IF p \notin again THEN request[p]
                                  ELSE IF hidden THEN NoRequest
                                  ELSE Fetch(p, tracked, cursor)]
    /\ UNCHANGED <<server, hidden, live, tracked, cursor, switched, order,
                   trouble, orders>>

-----------------------------------------------------------------------------
(* handleTakeover and handleEndCall of the dashboard                       *)

GiveOrder(kind) ==
    /\ tracked # None
    /\ order = NoOrder
    /\ orders < MaxOrders
    /\ orders' = orders + 1
    /\ order' = [kind |-> kind, call |-> tracked]
    /\ UNCHANGED <<server, hidden, page, polls, trouble>>

(* The answer to it: live.setData writes into whatever data there is now,  *)
(* and a hang-up asks for a fresh poll.                                    *)
OrderDone ==
    /\ order # NoOrder
    /\ order.kind = "end" => phase[order.call] = "ended"
    /\ live' = IF live.data = NoData THEN live
               ELSE [live EXCEPT !.data = IF order.kind = "end" THEN None ELSE order.call]
    /\ refresh' = IF order.kind = "end" THEN refresh \cup {"asked"} ELSE refresh
    /\ order' = NoOrder
    /\ UNCHANGED <<server, hidden, tracked, cursor, lines, following,
                   effectsDue, switched, polls, trouble, orders>>

\* The banner shown while the live poll fails.
Retry ==
    /\ live.stale
    /\ refresh' = refresh \cup {"asked"}
    /\ UNCHANGED <<server, hidden, live, tracked, cursor, lines, following,
                   effectsDue, switched, polls, order, trouble, orders>>

\* It is refused, or fails: the panel says so and nothing changes.
OrderFails ==
    /\ order # NoOrder
    /\ order' = NoOrder
    /\ UNCHANGED <<server, hidden, page, polls, trouble, orders>>

-----------------------------------------------------------------------------
(* The calls                                                               *)

Ring(c) ==
    /\ phase[c] = "waiting"
    /\ \A d \in 1..(c - 1) : phase[d] # "waiting"
    /\ phase' = [phase EXCEPT ![c] = "live"]
    /\ UNCHANGED <<stored, hidden, page, polls, order, trouble, orders>>

Spoken == FoldFunction(+, 0, stored)

Speak(c) ==
    /\ phase[c] # "waiting"
    /\ Spoken < MaxLines
    /\ stored' = [stored EXCEPT ![c] = @ + 1]
    /\ UNCHANGED <<phase, hidden, page, polls, order, trouble, orders>>

HangUp(c) ==
    /\ phase[c] = "live"
    /\ phase' = [phase EXCEPT ![c] = "ended"]
    /\ UNCHANGED <<stored, hidden, page, polls, order, trouble, orders>>

Next ==
    \/ \E p \in Poll : TimerFires(p) \/ RequestFails(p) \/ Serve(p)
    \/ Hide \/ Show
    \/ LiveArrives \/ TranscriptArrives
    \/ Render \/ RunEffects
    \/ \E kind \in {"takeover", "end"} : GiveOrder(kind)
    \/ OrderDone \/ OrderFails \/ Retry
    \/ \E c \in Call : Ring(c) \/ Speak(c) \/ HangUp(c)

(***************************************************************************)
(* The browser runs what is due and the server answers.  Strong fairness   *)
(* for an answer: it is not for ever slower than the next abort, which     *)
(* after a tab was hidden and shown can come every intervalMs.             *)
(***************************************************************************)
Fairness ==
    /\ \A p \in Poll : WF_vars(TimerFires(p)) /\ WF_vars(Serve(p))
    /\ SF_vars(LiveArrives) /\ SF_vars(TranscriptArrives)
    /\ WF_vars(Render) /\ WF_vars(RunEffects)
    /\ WF_vars(OrderDone \/ OrderFails)

Spec == Init /\ [][Next]_vars /\ Fairness

-----------------------------------------------------------------------------
(* Properties                                                              *)

(* Once the effects have run, the panel holds lines of the call it shows   *)
(* and of no other, oldest first and each once, however answers, renders   *)
(* and a second call cross (useTranscript.ts:16-43).                       *)
LinesAreOfThisCall ==
    ~effectsDue =>
        /\ \A i \in DOMAIN lines : lines[i].call = tracked
        /\ \A i, j \in DOMAIN lines : i < j => lines[i].seq < lines[j].seq

(* "Each poll asks only for lines after the highest sequence number        *)
(* already held" (useTranscript.ts:7): no line up to the cursor is         *)
(* missing.  Not so once a call has followed another without a pause: an   *)
(* answer about the old call between render and effects moves the cursor   *)
(* of the new one.                                                         *)
HeldToCursor ==
    tracked # None /\ ~effectsDue /\ ~switched =>
        {lines[i].seq : i \in DOMAIN lines} = 1..cursor

(* Calls and troubles are finitely many, so in the end the tab is hidden   *)
(* for good or shows the call that is live, or none, with all its lines,   *)
(* whatever orders of staff and late answers said meanwhile.               *)
UpToDate ==
    /\ tracked = LiveNow
    /\ tracked # None /\ ~switched =>
            {lines[i].seq : i \in DOMAIN lines} = 1..stored[tracked]

CatchesUp == <>[](hidden \/ UpToDate)
=============================================================================
