-------------------------- MODULE CallPagesProofs --------------------------
(***************************************************************************)
(* Proofs about the two pages on which a call is followed as it happens:   *)
(* the live part of the dashboard (LiveFeed), for any calls, lines and     *)
(* page size, and the demo page with its link (DemoCall), for any tabs,    *)
(* callers, clicks and limits.                                             *)
(***************************************************************************)
EXTENDS LiveFeed, DemoCall, FiniteSetTheorems, TLAPS

USE LiveFeedAssumption, DemoCallAssumption

-----------------------------------------------------------------------------
(* The live part of the dashboard                                          *)

CallOrNone == Call \cup {None}
LineRow == [call : Call, seq : Nat]
RequestRow ==
  [at : {"none", "sent", "answered"}, call : CallOrNone, after : Nat, answer : Nat \cup {None}]

\* Type correctness of what the transcript rests on.
FeedTypeOK ==
  /\ stored \in [Call -> Nat]
  /\ tracked \in CallOrNone /\ following \in CallOrNone
  /\ cursor \in Nat /\ lines \in Seq(LineRow)
  /\ hidden \in BOOLEAN /\ effectsDue \in BOOLEAN /\ switched \in BOOLEAN
  /\ timer \in [Poll -> BOOLEAN]
  /\ DOMAIN request = Poll /\ request["transcript"] \in RequestRow

SeqsOf(s) == {s[i].seq : i \in DOMAIN s}

\* Lines of one call up to a seq, in order.
OfCall(s, c, last) ==
  /\ \A i \in DOMAIN s : s[i].call = c /\ s[i].seq \in 1 .. last
  /\ \A i, j \in DOMAIN s : i < j => s[i].seq < s[j].seq

(* A request for lines is about a call; answered, it has a cursor. Without *)
(* a call the poll of the transcript is not mounted.                       *)
MountInv ==
  /\ request["transcript"].at # "none" => request["transcript"].call \in Call
  /\ request["transcript"].at = "answered" => request["transcript"].answer \in Nat
  /\ following = None => ~timer["transcript"] /\ request["transcript"].at = "none"

(* Between a render that changed the call and its effects, the refs are    *)
(* ahead of the poll; otherwise they agree.                                *)
EffectsInv ==
  /\ ~effectsDue => following = tracked
  /\ following # tracked /\ tracked # None /\ ~switched => following = None /\ cursor = 0

(* What is shown and what is asked for fit the refs.                       *)
FollowingInv ==
  following = tracked =>
    /\ OfCall(lines, tracked, cursor)
    /\ request["transcript"].at # "none" =>
         request["transcript"].call = tracked /\ request["transcript"].after = cursor
    /\ tracked # None /\ ~switched => SeqsOf(lines) = 1 .. cursor

LiveFeedInv == FeedTypeOK /\ MountInv /\ EffectsInv /\ FollowingInv

LEMMA NoneIsNoCall == None \notin Call
BY LiveFeedAssumption DEF Call

LEMMA FetchIsRow ==
  ASSUME NEW c \in CallOrNone, NEW k \in Nat
  PROVE  LET r == Fetch("transcript", c, k)
         IN  /\ r \in RequestRow
             /\ r.at \in {"none", "sent"}
             /\ r.at # "none" => c # None /\ r.call = c /\ r.after = k
BY DEF Fetch, NoRequest, RequestRow, CallOrNone

LEMMA LiveFeedInit == Init => LiveFeedInv
<1> SUFFICES ASSUME Init PROVE LiveFeedInv
    OBVIOUS
<1>1. /\ stored \in [Call -> Nat] /\ tracked = None /\ following = None /\ cursor = 0
      /\ lines = <<>> /\ effectsDue = FALSE /\ switched = FALSE
      /\ timer = [p \in Poll |-> FALSE]
    BY DEF Init
<1>2. DOMAIN request = Poll /\ request["transcript"] = NoRequest
    BY DEF Init, Poll
<1>3. NoRequest \in RequestRow /\ NoRequest.at = "none"
    BY DEF NoRequest, RequestRow, CallOrNone
<1>8. timer \in [Poll -> BOOLEAN] /\ hidden \in BOOLEAN
    BY <1>1 DEF Init
<1>9. <<>> \in Seq(LineRow)
    OBVIOUS
<1>4. FeedTypeOK
    BY <1>1, <1>2, <1>3, <1>8, <1>9 DEF FeedTypeOK, CallOrNone
<1>5. MountInv
    BY <1>1, <1>2, <1>3 DEF MountInv, Poll
<1>6. EffectsInv
    BY <1>1 DEF EffectsInv
<1>7. FollowingInv
    BY <1>1, <1>2, <1>3 DEF FollowingInv, OfCall
<1>. QED
    BY <1>4, <1>5, <1>6, <1>7 DEF LiveFeedInv

\* A request for lines that was begun, answered or given up.
Follows(r, s) ==
  \/ s = r
  \/ s.at = "none"
  \/ following # None /\ s = Fetch("transcript", tracked, cursor)
  \/ r.at = "sent" /\ s.at = "answered" /\ s.answer \in Nat /\ s.call = r.call /\ s.after = r.after

\* A step of the polls, while the page rests.
LEMMA PollsStep ==
  ASSUME LiveFeedInv,
         UNCHANGED <<tracked, following, cursor, lines, effectsDue, switched>>,
         stored' \in [Call -> Nat], hidden' \in BOOLEAN, timer' \in [Poll -> BOOLEAN],
         DOMAIN request' = Poll, request'["transcript"] \in RequestRow,
         Follows(request["transcript"], request'["transcript"]),
         timer'["transcript"] => timer["transcript"] \/ following # None
  PROVE  LiveFeedInv'
<1>1. PICK s \in RequestRow : s = request'["transcript"]
    OBVIOUS
<1>2. PICK r \in RequestRow : r = request["transcript"]
    BY DEF LiveFeedInv, FeedTypeOK
<1>3. FeedTypeOK /\ MountInv /\ EffectsInv /\ FollowingInv
    BY DEF LiveFeedInv
<1>4. FeedTypeOK'
    BY <1>3 DEF FeedTypeOK
<1>5. /\ tracked \in CallOrNone /\ cursor \in Nat
    BY <1>3 DEF FeedTypeOK
<1>6. /\ s.at # "none" => s.call \in Call /\ (r.at # "none" \/ following # None)
      /\ s.at = "answered" => s.answer \in Nat
      /\ following = tracked /\ s.at # "none" => s.call = tracked /\ s.after = cursor
    <2>1. /\ r.at # "none" => r.call \in Call
          /\ r.at = "answered" => r.answer \in Nat
          /\ following = tracked /\ r.at # "none" => r.call = tracked /\ r.after = cursor
        BY <1>2, <1>3 DEF MountInv, FollowingInv
    <2>2. Follows(r, s)
        BY <1>1, <1>2
    <2>3. CASE s = r \/ s.at = "none"
        BY <2>1, <2>3
    <2>4. CASE following # None /\ s = Fetch("transcript", tracked, cursor)
        BY <1>5, <2>4, FetchIsRow DEF CallOrNone
    <2>5. CASE r.at = "sent" /\ s.at = "answered" /\ s.answer \in Nat
               /\ s.call = r.call /\ s.after = r.after
        BY <2>1, <2>5
    <2>. QED
        BY <2>2, <2>3, <2>4, <2>5 DEF Follows
<1>7. MountInv'
    BY <1>1, <1>2, <1>3, <1>6 DEF MountInv
<1>8. EffectsInv'
    BY <1>3 DEF EffectsInv
<1>9. FollowingInv'
    BY <1>1, <1>3, <1>6 DEF FollowingInv, OfCall, SeqsOf
<1>. QED
    BY <1>4, <1>7, <1>8, <1>9 DEF LiveFeedInv

LEMMA RunStep ==
  ASSUME LiveFeedInv, NEW P \in SUBSET Poll, Run(P),
         "transcript" \in P => following # None,
         UNCHANGED <<tracked, following, cursor, lines, effectsDue, switched, stored>>,
         hidden' \in BOOLEAN
  PROVE  LiveFeedInv'
<1>1. /\ "transcript" \in Poll /\ tracked \in CallOrNone /\ cursor \in Nat
      /\ stored \in [Call -> Nat] /\ request["transcript"] \in RequestRow
      /\ timer \in [Poll -> BOOLEAN]
    BY DEF LiveFeedInv, FeedTypeOK, Poll
<1>2. /\ DOMAIN request' = Poll
      /\ request'["transcript"] = IF "transcript" \in P THEN Fetch("transcript", tracked, cursor)
                                  ELSE request["transcript"]
    BY <1>1 DEF Run
<1>3. request'["transcript"] \in RequestRow
    BY <1>1, <1>2, FetchIsRow
<1>4. timer' \in [Poll -> BOOLEAN] /\ (timer'["transcript"] => timer["transcript"] \/ "transcript" \in P)
    BY <1>1 DEF Run
<1>. QED
    BY <1>1, <1>2, <1>3, <1>4, PollsStep DEF Follows

\* The end of a run of a poll that had a request.
LEMMA ScheduleStep ==
  ASSUME LiveFeedInv, NEW p \in Poll, Schedule(p), request[p].at # "none",
         UNCHANGED <<hidden, tracked, following, cursor, lines, effectsDue, switched, stored>>
  PROVE  LiveFeedInv'
<1>1. /\ "transcript" \in Poll /\ DOMAIN request = Poll
      /\ stored \in [Call -> Nat] /\ request["transcript"] \in RequestRow
      /\ timer \in [Poll -> BOOLEAN] /\ hidden \in BOOLEAN /\ MountInv
    BY DEF LiveFeedInv, FeedTypeOK, Poll
<1>2. NoRequest \in RequestRow /\ NoRequest.at = "none"
    BY DEF NoRequest, RequestRow, CallOrNone
<1>3. /\ DOMAIN request' = Poll
      /\ request'["transcript"] = IF p = "transcript" THEN NoRequest ELSE request["transcript"]
    BY <1>1 DEF Schedule
<1>4. timer' \in [Poll -> BOOLEAN]
      /\ (timer'["transcript"] => timer["transcript"] \/ p = "transcript")
    BY <1>1 DEF Schedule
<1>5. p = "transcript" => following # None
    BY <1>1 DEF MountInv
<1>. QED
    BY <1>1, <1>2, <1>3, <1>4, <1>5, PollsStep DEF Follows

LEMMA TimerStep ==
  ASSUME LiveFeedInv, NEW p \in Poll, TimerFires(p)
  PROVE  LiveFeedInv'
<1>1. /\ Run({p}) /\ timer[p] /\ {p} \in SUBSET Poll /\ hidden' \in BOOLEAN
      /\ UNCHANGED <<tracked, following, cursor, lines, effectsDue, switched, stored>>
    BY DEF TimerFires, server, LiveFeedInv, FeedTypeOK
<1>2. "transcript" \in {p} => following # None
    BY <1>1 DEF LiveFeedInv, MountInv
<1>. QED
    BY <1>1, <1>2, RunStep

LEMMA VisibilitySteps ==
  ASSUME LiveFeedInv, Hide \/ Show
  PROVE  LiveFeedInv'
<1>1. hidden' \in BOOLEAN
      /\ UNCHANGED <<tracked, following, cursor, lines, effectsDue, switched, stored>>
    BY DEF Hide, Show, server, page
<1>2. CASE Hide
  <2>1. timer' = [p \in Poll |-> FALSE] /\ request' = request
      BY <1>2 DEF Hide
  <2>2. timer' \in [Poll -> BOOLEAN] /\ ~timer'["transcript"]
      BY <2>1 DEF Poll
  <2>. QED
      BY <1>1, <2>1, <2>2, PollsStep DEF LiveFeedInv, FeedTypeOK, Follows
<1>3. CASE Show
  <2>1. Run({p \in Poll : Mounted(p)}) /\ {p \in Poll : Mounted(p)} \in SUBSET Poll
      BY <1>3 DEF Show
  <2>2. "transcript" \in {p \in Poll : Mounted(p)} => following # None
      BY DEF Mounted
  <2>. QED
      BY <1>1, <2>1, <2>2, RunStep
<1>. QED
    BY <1>2, <1>3

LEMMA FailsStep ==
  ASSUME LiveFeedInv, NEW p \in Poll, RequestFails(p)
  PROVE  LiveFeedInv'
<1>1. /\ Schedule(p) /\ request[p].at # "none"
      /\ UNCHANGED <<hidden, tracked, following, cursor, lines, effectsDue, switched, stored>>
    BY DEF RequestFails, server
<1>. QED
    BY <1>1, ScheduleStep

LEMMA LiveArrivesStep ==
  ASSUME LiveFeedInv, LiveArrives
  PROVE  LiveFeedInv'
<1>1. /\ Schedule("live") /\ request["live"].at # "none" /\ "live" \in Poll
      /\ UNCHANGED <<hidden, tracked, following, cursor, lines, effectsDue, switched, stored>>
    BY DEF LiveArrives, server, Poll
<1>. QED
    BY <1>1, ScheduleStep

LEMMA SmallerOfTwo ==
  ASSUME NEW m \in Nat, NEW n \in Nat
  PROVE  Min({m, n}) \in Nat
<1>1. \E x \in {m, n} : \A y \in {m, n} : x =< y
    OBVIOUS
<1>. QED
    BY <1>1 DEF Min

LEMMA AnsweredPageStep ==
  ASSUME LiveFeedInv, NEW p \in Poll, Serve(p)
  PROVE  LiveFeedInv'
<1>1. /\ "transcript" \in Poll /\ DOMAIN request = Poll /\ hidden \in BOOLEAN
      /\ stored \in [Call -> Nat] /\ request["transcript"] \in RequestRow
      /\ timer \in [Poll -> BOOLEAN] /\ MountInv
    BY DEF LiveFeedInv, FeedTypeOK, Poll
<1>2. PICK r \in RequestRow : r = request["transcript"]
    BY <1>1
<1>3. PICK answer :
        answer = IF p = "live" THEN LiveNow ELSE PageEnd(request[p].call, request[p].after)
    OBVIOUS
<1>4. /\ request' = [request EXCEPT ![p].at = "answered", ![p].answer = answer]
      /\ request[p].at = "sent"
      /\ UNCHANGED <<hidden, tracked, following, cursor, lines, effectsDue, switched, stored, timer>>
    BY <1>3 DEF Serve, server, page
<1>5. DOMAIN request' = Poll
    BY <1>1, <1>4
<1>6. CASE p # "transcript"
  <2>1. request'["transcript"] = request["transcript"]
      BY <1>1, <1>4, <1>6
  <2>. QED
      BY <1>1, <1>4, <1>5, <2>1, PollsStep DEF Follows
<1>7. CASE p = "transcript"
  <2>1. r.call \in Call /\ r.after \in Nat /\ r.at = "sent"
      BY <1>1, <1>2, <1>4, <1>7 DEF MountInv, RequestRow
  <2>2. stored[r.call] \in Nat /\ r.after + PageSize \in Nat
      BY <1>1, <2>1, LiveFeedAssumption
  <2>3. answer = PageEnd(r.call, r.after)
      BY <1>2, <1>3, <1>7
  <2>4. answer \in Nat
      BY <2>2, <2>3, SmallerOfTwo DEF PageEnd
  <2>5. request'["transcript"] = [r EXCEPT !.at = "answered", !.answer = answer]
      BY <1>1, <1>2, <1>4, <1>7
  <2>6. PICK s : s = [r EXCEPT !.at = "answered", !.answer = answer]
      OBVIOUS
  <2>7. /\ s \in RequestRow /\ s.at = "answered" /\ s.answer = answer
        /\ s.call = r.call /\ s.after = r.after
      BY <1>2, <2>4, <2>6 DEF RequestRow
  <2>8. Follows(r, s)
      BY <2>1, <2>4, <2>7 DEF Follows
  <2>. QED
      BY <1>1, <1>2, <1>4, <1>5, <2>5, <2>6, <2>7, <2>8, PollsStep
<1>. QED
    BY <1>6, <1>7

Added(c, s) == [i \in DOMAIN s |-> [call |-> c, seq |-> s[i]]]

Joined(new, old, c, s) ==
  /\ Len(new) = Len(old) + Len(s)
  /\ \A i \in 1 .. Len(old) : new[i] = old[i]
  /\ \A i \in 1 .. Len(s) : new[Len(old) + i] = [call |-> c, seq |-> s[i]]

LEMMA SeqFacts ==
  ASSUME NEW S, NEW s \in Seq(S)
  PROVE  DOMAIN s = 1 .. Len(s) /\ Len(s) \in Nat /\ \A i \in 1 .. Len(s) : s[i] \in S
OBVIOUS

\* The lines that come with an answer begin where the ones shown end.
GoesOn(old, c, m, n, S, s) ==
  /\ old \in Seq(LineRow) /\ c \in Call /\ m \in Nat /\ n \in Nat /\ m < n
  /\ S \subseteq m + 1 .. n /\ s \in Seq(S)
  /\ OfCall(old, c, m) /\ InOrder(s, S)

LEMMA LinesBelow ==
  ASSUME NEW old, NEW c, NEW m, NEW n, NEW S, NEW s, GoesOn(old, c, m, n, S, s),
         NEW new, new \in Seq(LineRow), Joined(new, old, c, s)
  PROVE  OfCall(new, c, n) /\ SeqsOf(new) = SeqsOf(old) \cup S
<1>5. /\ old \in Seq(LineRow) /\ c \in Call /\ m \in Nat /\ n \in Nat /\ m < n
      /\ S \subseteq m + 1 .. n /\ s \in Seq(S) /\ OfCall(old, c, m)
    BY DEF GoesOn
<1>6. m + 1 .. n \subseteq Nat
    BY <1>5
<1>3. PICK h \in Nat, k \in Nat : h = Len(old) /\ k = Len(s)
    BY <1>5
<1>1. /\ DOMAIN s = 1 .. k /\ \A i \in 1 .. k : s[i] \in m + 1 .. n /\ s[i] \in Nat
  <2>1. DOMAIN s = 1 .. k /\ \A i \in 1 .. k : s[i] \in S
      BY <1>3, <1>5, SeqFacts
  <2>. QED
      BY <1>5, <1>6, <2>1
<1>4. (\A i, j \in DOMAIN s : i < j => s[i] < s[j]) /\ {s[i] : i \in DOMAIN s} = S
    BY DEF GoesOn, InOrder
<1>2. /\ Len(new) = h + k
      /\ \A i \in 1 .. h : new[i] = old[i]
      /\ \A i \in 1 .. k : new[h + i] = [call |-> c, seq |-> s[i]]
    BY <1>3 DEF Joined
<1>7. DOMAIN old = 1 .. h /\ DOMAIN new = 1 .. h + k
    BY <1>2, <1>3, <1>5
<1>8. \A i \in 1 .. h : new[i].call = c /\ new[i].seq = old[i].seq /\ old[i].seq \in 1 .. m
    BY <1>2, <1>5, <1>7 DEF OfCall
<1>9. ASSUME NEW i \in 1 .. h + k, i \notin 1 .. h
      PROVE  i - h \in 1 .. k /\ new[i].call = c /\ new[i].seq = s[i - h]
  <2>1. i - h \in 1 .. k /\ h + (i - h) = i
      BY <1>9
  <2>2. new[i] = [call |-> c, seq |-> s[i - h]]
      BY <1>2, <2>1
  <2>. QED
      BY <2>1, <2>2
<1>10. ASSUME NEW i \in 1 .. h + k
       PROVE  new[i].call = c /\ new[i].seq \in 1 .. n
  <2>1. CASE i \in 1 .. h
      BY <1>5, <1>8, <2>1
  <2>2. CASE i \notin 1 .. h
      BY <1>1, <1>5, <1>9, <2>2
  <2>. QED
      BY <2>1, <2>2
<1>11. ASSUME NEW i \in 1 .. h + k, NEW j \in 1 .. h + k, i < j
       PROVE  new[i].seq < new[j].seq
  <2>1. CASE i \in 1 .. h /\ j \in 1 .. h
      BY <1>5, <1>7, <1>8, <1>11, <2>1 DEF OfCall
  <2>2. CASE i \in 1 .. h /\ j \notin 1 .. h
    <3>1. new[j].seq = s[j - h] /\ j - h \in 1 .. k
        BY <1>9, <2>2
    <3>2. new[i].seq \in 1 .. m /\ s[j - h] \in m + 1 .. n
        BY <1>1, <1>8, <2>2, <3>1
    <3>3. PICK a \in 1 .. m : a = new[i].seq
        BY <3>2
    <3>4. PICK b \in m + 1 .. n : b = new[j].seq
        BY <3>1, <3>2
    <3>5. a < b
        BY <1>5
    <3>. QED
        BY <3>3, <3>4, <3>5
  <2>3. CASE i \notin 1 .. h
    <3>1. j \notin 1 .. h
        BY <1>11, <2>3
    <3>2. /\ new[i].seq = s[i - h] /\ i - h \in 1 .. k
          /\ new[j].seq = s[j - h] /\ j - h \in 1 .. k
        BY <1>9, <2>3, <3>1
    <3>3. i - h < j - h
        BY <1>11
    <3>. QED
        BY <1>1, <1>4, <3>2, <3>3
  <2>. QED
      BY <2>1, <2>2, <2>3
<1>12. ASSUME NEW i \in 1 .. h + k
       PROVE  new[i].seq \in {old[e].seq : e \in DOMAIN old} \cup {s[e] : e \in DOMAIN s}
  <2>1. CASE i \in 1 .. h
      BY <1>7, <1>8, <2>1
  <2>2. CASE i \notin 1 .. h
      BY <1>1, <1>9, <2>2
  <2>. QED
      BY <2>1, <2>2
<1>13. ASSUME NEW i \in 1 .. h PROVE old[i].seq \in {new[e].seq : e \in DOMAIN new}
  <2>1. i \in DOMAIN new
      BY <1>7
  <2>. QED
      BY <1>8, <2>1
<1>14. ASSUME NEW i \in 1 .. k PROVE s[i] \in {new[e].seq : e \in DOMAIN new}
  <2>1. h + i \in DOMAIN new
      BY <1>7
  <2>2. new[h + i] = [call |-> c, seq |-> s[i]]
      BY <1>2, <1>14
  <2>3. new[h + i].seq = s[i]
      BY <2>2
  <2>. QED
      BY <2>1, <2>3
<1>15. {new[i].seq : i \in DOMAIN new} =
         {old[i].seq : i \in DOMAIN old} \cup {s[i] : i \in DOMAIN s}
  <2>1. {new[i].seq : i \in DOMAIN new} \subseteq
           {old[i].seq : i \in DOMAIN old} \cup {s[i] : i \in DOMAIN s}
      BY <1>7, <1>12
  <2>2. {old[i].seq : i \in DOMAIN old} \subseteq {new[i].seq : i \in DOMAIN new}
      BY <1>7, <1>13
  <2>3. {s[i] : i \in DOMAIN s} \subseteq {new[i].seq : i \in DOMAIN new}
      BY <1>1, <1>14
  <2>. QED
      BY <2>1, <2>2, <2>3
<1>16. OfCall(new, c, n)
    BY <1>7, <1>10, <1>11 DEF OfCall
<1>. QED
    BY <1>4, <1>15, <1>16 DEF SeqsOf

LEMMA JoinOfLines ==
  ASSUME NEW s \in Seq(LineRow), NEW t \in Seq(LineRow)
  PROVE  /\ s \o t \in Seq(LineRow) /\ Len(s \o t) = Len(s) + Len(t)
         /\ \A i \in 1 .. Len(s) : (s \o t)[i] = s[i]
         /\ \A i \in 1 .. Len(t) : (s \o t)[Len(s) + i] = t[i]
OBVIOUS

LEMMA AddedAreLines ==
  ASSUME NEW c \in Call, NEW S \in SUBSET Nat, NEW s \in Seq(S)
  PROVE  /\ Added(c, s) \in Seq(LineRow) /\ Len(Added(c, s)) = Len(s)
         /\ \A i \in 1 .. Len(s) : Added(c, s)[i] = [call |-> c, seq |-> s[i]]
<1>1. DOMAIN s = 1 .. Len(s) /\ Len(s) \in Nat /\ \A i \in 1 .. Len(s) : s[i] \in Nat
    BY SeqFacts
<1>2. \A i \in 1 .. Len(s) : [call |-> c, seq |-> s[i]] \in LineRow
    BY <1>1 DEF LineRow
<1>3. Added(c, s) \in [1 .. Len(s) -> LineRow]
    BY <1>1, <1>2 DEF Added
<1>4. Added(c, s) \in Seq(LineRow) /\ Len(Added(c, s)) = Len(s)
    BY <1>1, <1>3
<1>. QED
    BY <1>1, <1>4 DEF Added

LEMMA LinesJoin ==
  ASSUME NEW old, NEW c, NEW m, NEW n, NEW S, NEW s, GoesOn(old, c, m, n, S, s)
  PROVE  /\ OfCall(old \o Added(c, s), c, n)
         /\ SeqsOf(old \o Added(c, s)) = SeqsOf(old) \cup S
<1>1. /\ old \in Seq(LineRow) /\ c \in Call /\ m \in Nat /\ n \in Nat
      /\ S \subseteq m + 1 .. n /\ s \in Seq(S)
    BY DEF GoesOn
<1>8. S \in SUBSET Nat
    BY <1>1
<1>2. PICK add \in Seq(LineRow) : add = Added(c, s)
    BY <1>1, <1>8, AddedAreLines
<1>3. Len(add) = Len(s) /\ \A i \in 1 .. Len(s) : add[i] = [call |-> c, seq |-> s[i]]
    BY <1>1, <1>2, <1>8, AddedAreLines
<1>4. /\ old \o add \in Seq(LineRow) /\ Len(old \o add) = Len(old) + Len(add)
      /\ \A i \in 1 .. Len(old) : (old \o add)[i] = old[i]
      /\ \A i \in 1 .. Len(add) : (old \o add)[Len(old) + i] = add[i]
    BY <1>1, JoinOfLines
<1>5. PICK new \in Seq(LineRow) : new = old \o add
    BY <1>4
<1>6. Joined(new, old, c, s)
    BY <1>3, <1>4, <1>5 DEF Joined
<1>7. OfCall(new, c, n) /\ SeqsOf(new) = SeqsOf(old) \cup S
    BY <1>6, LinesBelow
<1>. QED
    BY <1>2, <1>5, <1>7

LEMMA TranscriptStep ==
  ASSUME LiveFeedInv, TranscriptArrives
  PROVE  LiveFeedInv'
<1>1. FeedTypeOK /\ MountInv /\ EffectsInv /\ FollowingInv
    BY DEF LiveFeedInv
<1>2. /\ Schedule("transcript") /\ request["transcript"].at = "answered" /\ "transcript" \in Poll
      /\ UNCHANGED <<hidden, tracked, following, effectsDue, switched, stored>>
    BY DEF TranscriptArrives, server, Poll
<1>3. PICK r \in RequestRow : r = request["transcript"]
    BY <1>1 DEF FeedTypeOK
<1>4. r.call \in Call /\ r.answer \in Nat /\ r.after \in Nat /\ following # None
    BY <1>1, <1>2, <1>3 DEF MountInv, RequestRow
<1>5. CASE ~(r.answer > r.after)
  <2>1. UNCHANGED <<cursor, lines>>
      BY <1>3, <1>5 DEF TranscriptArrives
  <2>. QED
      BY <1>2, <2>1, ScheduleStep
<1>6. CASE r.answer > r.after
  <2>1. PICK new : new = Additions(r)
      OBVIOUS
  <2>2. new = {q \in r.after + 1 .. r.answer : \A i \in DOMAIN lines : lines[i].seq # q}
      BY <2>1 DEF Additions
  <2>3. IsFiniteSet(new) /\ Cardinality(new) \in Nat /\ new \subseteq Nat
    <3>1. IsFiniteSet(r.after + 1 .. r.answer) /\ new \subseteq r.after + 1 .. r.answer
      <4>1. r.after + 1 \in Int /\ r.answer \in Int
          BY <1>4
      <4>2. IsFiniteSet(r.after + 1 .. r.answer)
          BY <4>1, FS_Interval
      <4>. QED
          BY <2>2, <4>2
    <3>. QED
      <4>1. IsFiniteSet(new)
          BY <3>1, FS_Subset
      <4>2. Cardinality(new) \in Nat
          BY <4>1, FS_CardinalityType
      <4>. QED
          BY <1>4, <3>1, <4>1, <4>2
  <2>4. PICK k \in Nat : k = Cardinality(new)
      BY <2>3
  <2>5. cursor' = r.answer /\ \E s \in [1 .. k -> new] :
          /\ InOrder(s, new)
          /\ lines' = lines \o [i \in DOMAIN s |-> [call |-> r.call, seq |-> s[i]]]
      BY <1>3, <1>6, <2>1, <2>4 DEF TranscriptArrives
  <2>6. PICK s \in [1 .. k -> new] :
          /\ InOrder(s, new)
          /\ lines' = lines \o [i \in DOMAIN s |-> [call |-> r.call, seq |-> s[i]]]
      BY <2>5
  <2>7. /\ \A i, j \in DOMAIN s : i < j => s[i] < s[j]
        /\ {s[i] : i \in DOMAIN s} = new
      BY <2>6 DEF InOrder
  <2>8. PICK old \in Seq(LineRow) : old = lines
      BY <1>1 DEF FeedTypeOK
  <2>14. new \subseteq r.after + 1 .. r.answer /\ s \in Seq(new)
    <3>1. \A S : [1 .. k -> S] \subseteq Seq(S)
        BY <2>4
    <3>. QED
        BY <2>2, <3>1
  <2>15. lines' = old \o Added(r.call, s)
      BY <2>6, <2>8 DEF Added
  <2>16. lines' \in Seq(LineRow)
    <3>1. Added(r.call, s) \in Seq(LineRow)
        BY <1>4, <2>3, <2>14, AddedAreLines
    <3>. QED
        BY <2>15, <3>1, JoinOfLines
  <2>9. /\ DOMAIN request' = Poll /\ request'["transcript"] = NoRequest
        /\ timer' \in [Poll -> BOOLEAN]
      BY <1>1, <1>2 DEF FeedTypeOK, Schedule
  <2>10. NoRequest \in RequestRow /\ NoRequest.at = "none"
      BY DEF NoRequest, RequestRow, CallOrNone
  <2>11. FeedTypeOK'
      BY <1>1, <1>2, <1>4, <2>5, <2>16, <2>9, <2>10 DEF FeedTypeOK
  <2>12. MountInv' /\ EffectsInv'
      BY <1>1, <1>2, <1>4, <2>9, <2>10 DEF MountInv, EffectsInv
  <2>13. FollowingInv'
    <3>1. CASE following # tracked
        BY <1>2, <3>1 DEF FollowingInv
    <3>2. CASE following = tracked
      <4>1. OfCall(old, r.call, r.after) /\ r.call = tracked /\ r.after = cursor
          BY <1>1, <1>2, <1>3, <2>8, <3>2 DEF FollowingInv
      <4>2. new = r.after + 1 .. r.answer
        <5>1. \A i \in DOMAIN old : old[i].seq \in 1 .. r.after
            BY <4>1 DEF OfCall
        <5>. QED
            BY <1>4, <2>2, <2>8, <5>1
      <4>4. /\ OfCall(old \o Added(r.call, s), r.call, r.answer)
            /\ SeqsOf(old \o Added(r.call, s)) = SeqsOf(old) \cup new
        <5>1. GoesOn(old, r.call, r.after, r.answer, new, s)
            BY <1>4, <1>6, <2>6, <2>14, <4>1 DEF GoesOn
        <5>. QED
            BY <5>1, LinesJoin
      <4>5. OfCall(lines, r.call, r.answer)'
          BY <2>15, <4>4 DEF OfCall
      <4>6. SeqsOf(lines)' = SeqsOf(old) \cup new
          BY <2>7, <2>15, <4>4 DEF SeqsOf
      <4>7. ASSUME ~switched PROVE SeqsOf(lines)' = 1 .. r.answer
        <5>1. SeqsOf(old) = 1 .. r.after
            BY <1>1, <1>4, <2>8, <3>2, <4>1, <4>7, NoneIsNoCall DEF FollowingInv
        <5>. QED
            BY <1>4, <1>6, <4>2, <4>6, <5>1
      <4>. QED
          BY <1>2, <2>5, <2>9, <2>10, <4>1, <4>5, <4>7 DEF FollowingInv, OfCall, SeqsOf
    <3>. QED
        BY <3>1, <3>2
  <2>. QED
      BY <2>11, <2>12, <2>13 DEF LiveFeedInv
<1>. QED
    BY <1>5, <1>6

LEMMA RenderStep ==
  ASSUME LiveFeedInv, Render
  PROVE  LiveFeedInv'
<1>1. FeedTypeOK /\ MountInv /\ EffectsInv /\ FollowingInv /\ ~effectsDue /\ following = tracked
    BY DEF LiveFeedInv, EffectsInv, Render
<1>2. /\ tracked' = Shown /\ cursor' = (IF tracked' = tracked THEN cursor ELSE 0)
      /\ switched' = (switched \/ (tracked \in Call /\ tracked' \in Call \ {tracked}))
      /\ effectsDue' = TRUE
      /\ UNCHANGED <<hidden, stored, lines, following, timer, request>>
    BY DEF Render, server, polls
<1>3. tracked' \in CallOrNone
    BY <1>2 DEF Shown, CallOrNone
<1>4. FeedTypeOK'
    BY <1>1, <1>2, <1>3 DEF FeedTypeOK
<1>5. MountInv'
    BY <1>1, <1>2 DEF MountInv
<1>6. EffectsInv'
    BY <1>1, <1>2, <1>3 DEF EffectsInv, FeedTypeOK, CallOrNone
<1>7. FollowingInv'
  <2>1. CASE tracked' = tracked
    <3>1. cursor' = cursor /\ (~switched' => ~switched)
        BY <1>2, <2>1
    <3>. QED
        BY <1>1, <1>2, <2>1, <3>1 DEF FollowingInv, OfCall, SeqsOf
  <2>2. CASE tracked' # tracked
      BY <1>1, <1>2, <2>2 DEF FollowingInv
  <2>. QED
      BY <2>1, <2>2
<1>. QED
    BY <1>4, <1>5, <1>6, <1>7 DEF LiveFeedInv

LEMMA EffectsStep ==
  ASSUME LiveFeedInv, RunEffects
  PROVE  LiveFeedInv'
<1>1. FeedTypeOK /\ MountInv /\ EffectsInv /\ FollowingInv
    BY DEF LiveFeedInv
<1>2. /\ tracked \in CallOrNone /\ cursor \in Nat /\ "transcript" \in Poll
      /\ timer \in [Poll -> BOOLEAN] /\ request["transcript"] \in RequestRow
    BY <1>1 DEF FeedTypeOK, Poll
<1>3. /\ effectsDue' = FALSE /\ following' = tracked /\ lines' = LinesAfterSwitch
      /\ UNCHANGED <<hidden, stored, tracked, cursor, switched>>
    BY DEF RunEffects, server
<1>4. /\ DOMAIN request' = Poll /\ timer' \in [Poll -> BOOLEAN]
      /\ following = tracked =>
           request'["transcript"] = request["transcript"] /\ timer'["transcript"] = timer["transcript"]
      /\ following # tracked =>
           /\ ~timer'["transcript"]
           /\ request'["transcript"] = IF hidden THEN NoRequest
                                       ELSE Fetch("transcript", tracked, cursor)
    BY <1>2 DEF RunEffects
<1>5. NoRequest \in RequestRow /\ NoRequest.at = "none"
    BY DEF NoRequest, RequestRow, CallOrNone
<1>6. CASE following = tracked
  <2>1. lines' = lines
      BY <1>3, <1>6 DEF LinesAfterSwitch
  <2>2. FeedTypeOK'
      BY <1>1, <1>3, <1>4, <1>6, <2>1 DEF FeedTypeOK
  <2>3. MountInv'
      BY <1>1, <1>3, <1>4, <1>6 DEF MountInv
  <2>4. EffectsInv' /\ FollowingInv'
      BY <1>1, <1>3, <1>4, <1>6, <2>1 DEF EffectsInv, FollowingInv, OfCall, SeqsOf
  <2>. QED
      BY <2>2, <2>3, <2>4 DEF LiveFeedInv
<1>7. CASE following # tracked
  <2>1. lines' = <<>> /\ <<>> \in Seq(LineRow)
      BY <1>3, <1>7 DEF LinesAfterSwitch
  <2>2. PICK s : s = request'["transcript"]
      OBVIOUS
  <2>3. /\ s \in RequestRow /\ s.at \in {"none", "sent"}
        /\ s.at # "none" => tracked # None /\ s.call = tracked /\ s.after = cursor
      BY <1>2, <1>4, <1>5, <1>7, <2>2, FetchIsRow
  <2>4. FeedTypeOK'
      BY <1>1, <1>3, <1>4, <2>1, <2>2, <2>3 DEF FeedTypeOK
  <2>5. MountInv'
      BY <1>2, <1>3, <1>4, <1>7, <2>2, <2>3 DEF MountInv, CallOrNone
  <2>6. EffectsInv'
      BY <1>3 DEF EffectsInv
  <2>7. tracked # None /\ ~switched => cursor = 0
      BY <1>1, <1>7 DEF EffectsInv
  <2>8. FollowingInv'
    <3>1. DOMAIN lines' = {} /\ SeqsOf(lines)' = {}
        BY <2>1 DEF SeqsOf
    <3>2. tracked' # None /\ ~switched' => SeqsOf(lines)' = 1 .. cursor'
        BY <1>3, <2>7, <3>1
    <3>. QED
        BY <1>3, <2>2, <2>3, <3>1, <3>2 DEF FollowingInv, OfCall
  <2>. QED
      BY <2>4, <2>5, <2>6, <2>8 DEF LiveFeedInv
<1>. QED
    BY <1>6, <1>7

LEMMA OrderSteps ==
  ASSUME LiveFeedInv,
         \/ \E kind \in {"takeover", "end"} : GiveOrder(kind)
         \/ OrderDone \/ OrderFails \/ Retry
         \/ \E c \in Call : Ring(c) \/ Speak(c) \/ HangUp(c)
         \/ UNCHANGED vars
  PROVE  LiveFeedInv'
<1>1. UNCHANGED <<hidden, tracked, following, cursor, lines, effectsDue, switched, timer, request>>
    BY DEF GiveOrder, OrderDone, OrderFails, Retry, Ring, Speak, HangUp, vars, server, page, polls
<1>2. stored \in [Call -> Nat]
    BY DEF LiveFeedInv, FeedTypeOK
<1>3. stored' \in [Call -> Nat]
  <2>1. ASSUME NEW c \in Call, Speak(c) PROVE stored' \in [Call -> Nat]
    <3>1. stored' = [stored EXCEPT ![c] = stored[c] + 1] /\ stored[c] + 1 \in Nat
        BY <1>2, <2>1 DEF Speak
    <3>. QED
        BY <1>2, <3>1
  <2>2. CASE stored' = stored
      BY <1>2, <2>2
  <2>. QED
      BY <2>1, <2>2 DEF GiveOrder, OrderDone, OrderFails, Retry, Ring, HangUp, vars, server
<1>. QED
    BY <1>1, <1>3, PollsStep DEF LiveFeedInv, FeedTypeOK, Follows

LEMMA LiveFeedStep ==
  ASSUME LiveFeedInv, [Next]_vars
  PROVE  LiveFeedInv'
BY TimerStep, VisibilitySteps, FailsStep, LiveArrivesStep, AnsweredPageStep, TranscriptStep,
   RenderStep, EffectsStep, OrderSteps DEF Next

\* The inductive invariant of LiveFeed.
THEOREM LiveFeedInvariance == Spec => []LiveFeedInv
<1>1. LiveFeedInv /\ [Next]_vars => LiveFeedInv'
    BY LiveFeedStep
<1>. QED
    BY <1>1, LiveFeedInit, PTL DEF Spec

\* However answers, renders, orders and calls cross, the panel shows lines of the
\* call on it and of no other, in their order (useTranscript.ts:16-43), for any
\* calls, page length and number of lines.
THEOREM LinesAreAlwaysOfThisCall == Spec => []LinesAreOfThisCall
<1>1. LiveFeedInv => LinesAreOfThisCall
    BY DEF LiveFeedInv, EffectsInv, FollowingInv, OfCall, LinesAreOfThisCall
<1>. QED
    BY <1>1, LiveFeedInvariance, PTL

\* "Each poll asks only for lines after the highest sequence number already held"
\* (useTranscript.ts:7): the panel holds every line up to its cursor, unless a
\* call has followed another without a pause.
THEOREM LinesAreHeldToCursor == Spec => []HeldToCursor
<1>1. LiveFeedInv => HeldToCursor
    BY DEF LiveFeedInv, EffectsInv, FollowingInv, HeldToCursor, SeqsOf
<1>. QED
    BY <1>1, LiveFeedInvariance, PTL

-----------------------------------------------------------------------------
(* The demo page                                                           *)

Verdicts == {Null, "allowed", "daily_cap", "ip_cooldown", "error"}
Picked == Industries \cup {Null}
Lines == {"none", "rejected", "idle", "dialling", "up", "stopping"}
Clock == 0 .. FirstLength
TryRow == [step : {"none", "mic", "gate"}, verdict : Verdicts, offer : Clock]
TabRow ==
  [phase : Phases, try : [1 .. MaxClicks -> TryRow], industry : Picked, cap : Clock, left : Clock,
   active : BOOLEAN, endLogged : BOOLEAN, reported : BOOLEAN, timer : BOOLEAN,
   loads : Nat, clicks : Nat, beside : BOOLEAN]
SdkRow == [line : Lines, told : {Null} \cup [seconds : Clock, business : Picked]]
SentRow == [started : Nat, ended : Nat]
EventRow == [tab : Tabs, n : Nat, at : {"sent", "passed"}]
LoggedRow == [tab : Tabs, n : Nat]

\* Type correctness of the link, the tabs and the events.
DemoTypeOK ==
  /\ link \in [kind : Kinds, used : {Null} \cup (Tabs \X Nat)]
  /\ limits \in Lengths /\ crowd \in Nat
  /\ tab \in [Tabs -> TabRow] /\ sdk \in [Tabs -> SdkRow] /\ sent \in [Tabs -> SentRow]
  /\ events \subseteq EventRow /\ IsFiniteSet(events)
  /\ rows \subseteq LoggedRow /\ IsFiniteSet(rows)

Busy(y) == y.line \in {"dialling", "up", "stopping"}
Waiting(x) == \E k \in 1 .. MaxClicks : x.try[k].step # "none"

(* A tab x with its line y and what it has sent, z: a call that was logged *)
(* as started and not as ended is on the line, or was when the tab closed; *)
(* a call and a waiting attempt are of different clicks.                   *)
PanelInv(x, y, z) ==
  /\ z.started = z.ended + (IF x.active THEN 1 ELSE 0)
  /\ x.active => /\ ~x.endLogged
                 /\ x.phase = "closed" \/ y.line \in {"up", "stopping"}
                 /\ x.phase # "live" => x.clicks > 1
  /\ y.line \in {"up", "stopping"} /\ ~x.active => x.endLogged
  /\ Busy(y) => x.clicks > 0 /\ (Waiting(x) => x.clicks > 1)
  /\ \A k \in 1 .. MaxClicks : x.try[k].step # "none" => k <= x.clicks
  /\ x.phase = "closed" => y.line = "none" /\ ~Waiting(x)
  /\ x.phase # "closed" => x.loads > 0

TabsInv == \A t \in Tabs : PanelInv(tab[t], sdk[t], sent[t])

PassedBy(c) == {e \in At("passed") : CallerOf[e.tab] = c}
LoggedBy(c) == {row \in rows : CallerOf[row.tab] = c}

(* What has passed the gate counts as if its row were there.               *)
LinkInv ==
  /\ crowd > 0
  /\ (rows # {} \/ At("passed") # {}) /\ link.kind = "personal" => link.used # Null
  /\ isReusable => link.used = Null
  /\ link.kind = "public" =>
       /\ Cardinality(rows) + Cardinality(At("passed")) < DailyCap + crowd
       /\ \A t \in Tabs :
            Cardinality(LoggedBy(CallerOf[t])) + Cardinality(PassedBy(CallerOf[t]))
              < CallerCap + crowd

DemoInv == DemoTypeOK /\ TabsInv /\ LinkInv

(* One tab moves: t's panel, line and counts become x, y and z, and the    *)
(* requests on their way are none that has passed the gate.                *)
Moves(t, x, y, z) ==
  /\ tab' = [tab EXCEPT ![t] = x] /\ sdk' = [sdk EXCEPT ![t] = y]
  /\ sent' = [sent EXCEPT ![t] = z]
  /\ UNCHANGED <<link, limits, rows, crowd>>
  /\ events' = events \/ \E e \in EventRow : e.at = "sent" /\ events' = events \cup {e}

LEMMA MoveKeeps ==
  ASSUME DemoInv, NEW t \in Tabs, NEW x \in TabRow, NEW y \in SdkRow, NEW z \in SentRow,
         Moves(t, x, y, z), PanelInv(x, y, z)
  PROVE  DemoInv'
<1>1. DemoTypeOK'
  <2>1. events' \subseteq EventRow /\ IsFiniteSet(events')
    BY FS_AddElement DEF DemoInv, DemoTypeOK, Moves
  <2>2. tab' \in [Tabs -> TabRow] /\ sdk' \in [Tabs -> SdkRow] /\ sent' \in [Tabs -> SentRow]
    BY DEF DemoInv, DemoTypeOK, Moves
  <2> QED BY <2>1, <2>2 DEF DemoInv, DemoTypeOK, Moves
<1>2. TabsInv'
  <2>1. SUFFICES ASSUME NEW u \in Tabs PROVE PanelInv(tab'[u], sdk'[u], sent'[u])
    BY DEF TabsInv
  <2>2. PanelInv(tab[u], sdk[u], sent[u])
    BY DEF DemoInv, TabsInv
  <2>3. CASE u = t
    <3>1. tab'[u] = x /\ sdk'[u] = y /\ sent'[u] = z
      BY <2>3 DEF DemoInv, DemoTypeOK, Moves
    <3> QED BY <3>1
  <2>4. CASE u # t
    <3>1. tab'[u] = tab[u] /\ sdk'[u] = sdk[u] /\ sent'[u] = sent[u]
      BY <2>4 DEF DemoInv, DemoTypeOK, Moves
    <3> QED BY <2>2, <3>1
  <2> QED BY <2>3, <2>4
<1>3. LinkInv'
  <2>1. At("passed")' = At("passed")
    BY DEF Moves, At
  <2>2. \A c : PassedBy(c)' = PassedBy(c) /\ LoggedBy(c)' = LoggedBy(c)
    BY <2>1 DEF Moves, PassedBy, LoggedBy
  <2>3. link' = link /\ rows' = rows /\ crowd' = crowd
    BY DEF Moves
  <2>4. LinkInv
    BY DEF DemoInv
  <2> QED BY <2>1, <2>2, <2>3, <2>4 DEF LinkInv, isReusable
<1> QED BY <1>1, <1>2, <1>3 DEF DemoInv

-----------------------------------------------------------------------------
(* The parts of a row that a step writes.                                  *)

\* w is x with attempt k at step s.
TriedAs(w, x, k, s) == w = [x EXCEPT !.try[k].step = s]

LEMMA TryRows ==
  ASSUME NEW x \in TabRow, NEW k \in Nat, NEW s \in {"none", "mic", "gate"},
         NEW w, TriedAs(w, x, k, s)
  PROVE  /\ w \in TabRow
         /\ w.phase = x.phase /\ w.industry = x.industry /\ w.cap = x.cap /\ w.left = x.left
         /\ w.active = x.active /\ w.endLogged = x.endLogged /\ w.loads = x.loads
         /\ w.clicks = x.clicks
         /\ \A j \in 1 .. MaxClicks :
              w.try[j].step = IF j = k THEN s ELSE x.try[j].step
<1>1. x.try \in [1 .. MaxClicks -> TryRow]
  BY DEF TabRow
<1>2. [x.try EXCEPT ![k].step = s] \in [1 .. MaxClicks -> TryRow]
  BY <1>1 DEF TryRow
<1>3. \A j \in 1 .. MaxClicks :
        [x.try EXCEPT ![k].step = s][j].step = IF j = k THEN s ELSE x.try[j].step
  BY <1>1 DEF TryRow
<1>4. PICK q \in [1 .. MaxClicks -> TryRow] : q = [x.try EXCEPT ![k].step = s]
  BY <1>2
<1>5. w = [x EXCEPT !.try = q]
  BY <1>4 DEF TriedAs
<1>6. w \in TabRow /\ w.try = q
  BY <1>5 DEF TabRow
<1>7. /\ w.phase = x.phase /\ w.industry = x.industry /\ w.cap = x.cap /\ w.left = x.left
      /\ w.active = x.active /\ w.endLogged = x.endLogged /\ w.loads = x.loads
      /\ w.clicks = x.clicks
  BY <1>5 DEF TabRow
<1> QED BY <1>3, <1>4, <1>6, <1>7

LEMMA LongestIsALength ==
  /\ FirstLength \in Lengths /\ FirstLength \in Nat
  /\ Lengths \subseteq Clock /\ Clock \subseteq Nat /\ 0 \in Clock
<1>1. PICK longest \in Lengths : \A n \in Lengths : n <= longest
  BY DEF DemoCallAssumption
<1>2. Lengths \subseteq Nat
  BY DEF DemoCallAssumption
<1>3. \A n \in Lengths : longest >= n
  BY <1>1, <1>2
<1>4. FirstLength \in Lengths /\ \A n \in Lengths : FirstLength >= n
  BY <1>1, <1>2, <1>3 DEF Max, FirstLength
<1> QED BY <1>2, <1>4 DEF Clock

LEMMA RowsOfTab ==
  ASSUME DemoInv, NEW t \in Tabs
  PROVE  /\ tab[t] \in TabRow /\ sdk[t] \in SdkRow /\ sent[t] \in SentRow
         /\ PanelInv(tab[t], sdk[t], sent[t])
         /\ sdk = [sdk EXCEPT ![t] = sdk[t]] /\ sent = [sent EXCEPT ![t] = sent[t]]
         /\ limits \in Clock
BY LongestIsALength DEF DemoInv, DemoTypeOK, TabsInv

LEMMA BlankRow ==
  /\ Blank \in TabRow /\ ~Waiting(Blank) /\ Blank.phase = "closed"
  /\ \A k \in 1 .. MaxClicks : Blank.try[k].step = "none"
BY LongestIsALength DEF Blank, Idle, TabRow, TryRow, Verdicts, Phases, Picked, Waiting

LEMMA LoadKeeps ==
  ASSUME DemoInv, NEW t \in Tabs, Load(t)
  PROVE  DemoInv'
<1>1. PICK industry \in Picked :
        tab' = [tab EXCEPT ![t] = [Blank EXCEPT
                 !.phase = IF expired THEN "expired" ELSE "ready",
                 !.industry = industry, !.cap = limits, !.left = limits,
                 !.loads = tab[t].loads + 1, !.clicks = tab[t].clicks]]
  BY DEF Load, Picked
<1>2. PICK line \in {"none", "idle", "rejected"} : sdk' = [sdk EXCEPT ![t].line = line]
  BY DEF Load
<1>3. PICK x : x = [Blank EXCEPT
                 !.phase = IF expired THEN "expired" ELSE "ready",
                 !.industry = industry, !.cap = limits, !.left = limits,
                 !.loads = tab[t].loads + 1, !.clicks = tab[t].clicks]
  OBVIOUS
<1>4. PICK y : y = [sdk[t] EXCEPT !.line = line]
  OBVIOUS
<1>5. PICK z : z = [started |-> 0, ended |-> 0]
  OBVIOUS
<1>6. tab[t].loads \in Nat /\ tab[t].clicks \in Nat /\ limits \in Clock
  BY RowsOfTab DEF TabRow
<1>7. x \in TabRow /\ y \in SdkRow /\ z \in SentRow
  <2>1. x \in TabRow
    <3>1. PICK p \in Phases : p = IF expired THEN "expired" ELSE "ready"
      BY DEF Phases
    <3>2. tab[t].loads + 1 \in Nat
      BY <1>6
    <3>3. x = [Blank EXCEPT !.phase = p, !.industry = industry, !.cap = limits, !.left = limits,
                            !.loads = tab[t].loads + 1, !.clicks = tab[t].clicks]
      BY <1>3, <3>1
    <3> QED BY <1>6, <3>2, <3>3, BlankRow DEF TabRow
  <2>2. y \in SdkRow
    BY <1>4, RowsOfTab DEF SdkRow, Lines
  <2> QED BY <1>5, <2>1, <2>2 DEF SentRow
<1>8. Moves(t, x, y, z)
  BY <1>1, <1>2, <1>3, <1>4, <1>5, RowsOfTab DEF Load, Moves
<1>9. PanelInv(x, y, z)
  <2>1. /\ x.phase # "closed" /\ x.active = FALSE /\ x.try = Blank.try
        /\ x.loads = tab[t].loads + 1
    BY <1>3 DEF Blank
  <2>2. y.line \in {"none", "idle", "rejected"}
    BY <1>4, RowsOfTab DEF SdkRow
  <2>3. z.started = 0 /\ z.ended = 0
    BY <1>5
  <2> QED BY <1>6, <2>1, <2>2, <2>3, BlankRow DEF PanelInv, Busy
<1> QED BY <1>7, <1>8, <1>9, MoveKeeps

LEMMA PickKeeps ==
  ASSUME DemoInv, NEW t \in Tabs, NEW industry \in Industries, Pick(t, industry)
  PROVE  DemoInv'
<1>1. PICK x : x = [tab[t] EXCEPT !.industry = industry]
  OBVIOUS
<1>2. x \in TabRow
  BY <1>1, RowsOfTab DEF TabRow, Picked
<1>3. Moves(t, x, sdk[t], sent[t])
  BY <1>1, RowsOfTab DEF Pick, Moves
<1>4. PanelInv(x, sdk[t], sent[t])
  BY <1>1, RowsOfTab DEF PanelInv, Waiting, TabRow
<1> QED BY <1>2, <1>3, <1>4, RowsOfTab, MoveKeeps

\* Membership is TRUE or FALSE.
LEMMA TruthValue == ASSUME NEW x, NEW S PROVE \E b \in BOOLEAN : b = (x \in S)
<1>1. CASE x \in S
  <2>1. TRUE = (x \in S)
    BY <1>1
  <2> QED BY <2>1
<1>2. CASE x \notin S
  <2>1. FALSE = (x \in S)
    BY <1>2
  <2> QED BY <2>1
<1> QED BY <1>1, <1>2

LEMMA ClickKeeps ==
  ASSUME DemoInv, NEW t \in Tabs, Click(t)
  PROVE  DemoInv'
<1>1. tab[t] \in TabRow /\ PanelInv(tab[t], sdk[t], sent[t])
  BY RowsOfTab
<1>2. PICK k \in Nat : k = tab[t].clicks + 1 /\ tab[t].clicks \in Nat
  <2>1. tab[t].clicks \in Nat
    BY <1>1 DEF TabRow
  <2> QED BY <2>1
<1>3. PICK w : TriedAs(w, tab[t], k, "mic")
  BY DEF TriedAs
<1>4. /\ w \in TabRow
      /\ w.phase = tab[t].phase /\ w.cap = tab[t].cap /\ w.left = tab[t].left
      /\ w.active = tab[t].active /\ w.endLogged = tab[t].endLogged /\ w.loads = tab[t].loads
      /\ w.clicks = tab[t].clicks
      /\ \A j \in 1 .. MaxClicks :
           w.try[j].step = IF j = k THEN "mic" ELSE tab[t].try[j].step
  BY <1>1, <1>2, <1>3, TryRows
<1>5. PICK b \in BOOLEAN : b = (sdk[t].line \in {"up", "stopping"})
  <2>1. PICK S : S = {"up", "stopping"}
    OBVIOUS
  <2>2. PICK b \in BOOLEAN : b = (sdk[t].line \in S)
    BY TruthValue
  <2> QED BY <2>1, <2>2, Zenon
<1>6. PICK x : x = [w EXCEPT !.phase = "connecting", !.reported = FALSE, !.beside = b,
                             !.clicks = k]
  OBVIOUS
<1>7. /\ x \in TabRow /\ x.phase = "connecting" /\ x.clicks = k /\ x.try = w.try
      /\ x.cap = w.cap /\ x.left = w.left /\ x.active = w.active /\ x.loads = w.loads
      /\ x.endLogged = w.endLogged
  BY <1>2, <1>4, <1>6 DEF TabRow, Phases
<1>8. tab' = [tab EXCEPT ![t] = x]
  <2>1. tab' = [tab EXCEPT ![t] = [tab[t] EXCEPT
                  !.phase = "connecting", !.reported = FALSE, !.beside = b,
                  !.try[tab[t].clicks + 1].step = "mic", !.clicks = @ + 1]]
    BY <1>5, Zenon DEF Click
  <2>2. x = [tab[t] EXCEPT !.phase = "connecting", !.reported = FALSE, !.beside = b,
                           !.try[k].step = "mic", !.clicks = k]
    BY <1>1, <1>3, <1>6 DEF TabRow, TriedAs
  <2>3. x = [tab[t] EXCEPT !.phase = "connecting", !.reported = FALSE, !.beside = b,
                           !.try[tab[t].clicks + 1].step = "mic", !.clicks = @ + 1]
    BY <1>2, <2>2
  <2> QED BY <2>1, <2>3, Zenon
<1>9. Moves(t, x, sdk[t], sent[t])
  BY <1>8, RowsOfTab DEF Click, Moves
<1>10. tab[t].phase # "closed"
  BY DEF Click, TalkToHope, TryAgain
<1>11. PanelInv(x, sdk[t], sent[t])
  <2>1. \A j \in 1 .. MaxClicks : x.try[j].step # "none" => j <= k
    BY <1>1, <1>2, <1>4, <1>7 DEF PanelInv
  <2>2. Busy(sdk[t]) => k > 1
    BY <1>1, <1>2 DEF PanelInv
  <2>3. x.active => Busy(sdk[t])
    BY <1>1, <1>4, <1>7, <1>10 DEF PanelInv, Busy
  <2> QED BY <1>1, <1>2, <1>4, <1>7, <1>10, <2>1, <2>2, <2>3 DEF PanelInv
<1> QED BY <1>7, <1>9, <1>11, RowsOfTab, MoveKeeps

LEMMA GateAnswersKeeps ==
  ASSUME DemoInv, NEW t \in Tabs, NEW k \in 1 .. MaxClicks, GateAnswers(t, k)
  PROVE  DemoInv'
<1>1. PICK v \in Verdicts, n \in Clock :
        tab' = [tab EXCEPT ![t].try[k].verdict = v, ![t].try[k].offer = n]
  <2>1. tab[t] \in TabRow /\ tab \in [Tabs -> TabRow] /\ limits \in Clock
    BY RowsOfTab DEF DemoInv, DemoTypeOK
  <2>2. tab[t].try[k] \in TryRow
    BY <2>1 DEF TabRow
  <2>3. \A v : [tab EXCEPT ![t].try[k].verdict = v]
               = [tab EXCEPT ![t].try[k].verdict = v, ![t].try[k].offer = tab[t].try[k].offer]
    BY <2>1, <2>2 DEF TabRow, TryRow
  <2>4. Refusal(CallerOf[t]) \in Verdicts
    BY DEF Refusal, Verdicts
  <2>5. tab[t].try[k].offer \in Clock
    BY <2>2 DEF TryRow
  <2>6. \/ tab' = [tab EXCEPT ![t].try[k].verdict = "allowed", ![t].try[k].offer = limits]
        \/ \E v \in Verdicts : tab' = [tab EXCEPT ![t].try[k].verdict = v]
    BY <2>4 DEF GateAnswers, Verdicts
  <2>7. CASE tab' = [tab EXCEPT ![t].try[k].verdict = "allowed", ![t].try[k].offer = limits]
    BY <2>1, <2>7 DEF Verdicts
  <2>8. CASE \E v \in Verdicts : tab' = [tab EXCEPT ![t].try[k].verdict = v]
    <3>1. PICK v \in Verdicts : tab' = [tab EXCEPT ![t].try[k].verdict = v]
      BY <2>8
    <3>2. tab' = [tab EXCEPT ![t].try[k].verdict = v, ![t].try[k].offer = tab[t].try[k].offer]
      BY <2>3, <3>1
    <3> QED BY <2>5, <3>2
  <2> QED BY <2>6, <2>7, <2>8
<1>2. tab[t] \in TabRow /\ PanelInv(tab[t], sdk[t], sent[t])
  BY RowsOfTab
<1>3. PICK q : q = [tab[t].try EXCEPT ![k].verdict = v, ![k].offer = n]
  OBVIOUS
<1>4. /\ q \in [1 .. MaxClicks -> TryRow]
      /\ \A j \in 1 .. MaxClicks : q[j].step = tab[t].try[j].step
  <2>1. tab[t].try \in [1 .. MaxClicks -> TryRow]
    BY <1>2 DEF TabRow
  <2> QED BY <1>3, <2>1 DEF TryRow
<1>5. PICK x : x = [tab[t] EXCEPT !.try = q]
  OBVIOUS
<1>6. tab' = [tab EXCEPT ![t] = x]
  BY <1>1, <1>2, <1>3, <1>5 DEF TabRow
<1>7. x \in TabRow /\ x.try = q
  BY <1>2, <1>4, <1>5 DEF TabRow
<1>8. Moves(t, x, sdk[t], sent[t])
  BY <1>6, RowsOfTab DEF GateAnswers, Moves
<1>9. /\ x.phase = tab[t].phase /\ x.cap = tab[t].cap /\ x.left = tab[t].left
      /\ x.active = tab[t].active /\ x.endLogged = tab[t].endLogged /\ x.loads = tab[t].loads
      /\ x.clicks = tab[t].clicks
  BY <1>2, <1>5 DEF TabRow
<1>10. Waiting(x) <=> Waiting(tab[t])
  BY <1>4, <1>7 DEF Waiting
<1>11. PanelInv(x, sdk[t], sent[t])
  BY <1>2, <1>4, <1>7, <1>9, <1>10 DEF PanelInv
<1> QED BY <1>7, <1>8, <1>11, RowsOfTab, MoveKeeps

\* x is w with attempt k at its end, and perhaps another phase or length.
PastAttempt(x, w, k) ==
  /\ x \in TabRow /\ x.active = w.active /\ x.endLogged = w.endLogged
  /\ x.clicks = w.clicks /\ x.loads = w.loads
  /\ \A j \in 1 .. MaxClicks : x.try[j].step = IF j = k THEN "none" ELSE w.try[j].step

\* Two attempts that wait are of two clicks, and so are one and a call.
LEMMA AttemptsAreClicks ==
  ASSUME NEW x, NEW w \in TabRow, NEW k \in 1 .. MaxClicks, NEW y, NEW z,
         PanelInv(w, y, z), w.try[k].step # "none", PastAttempt(x, w, k)
  PROVE  /\ x.clicks > 0 /\ (Waiting(x) => x.clicks > 1)
         /\ Busy(y) => x.clicks > 1
         /\ w.phase # "closed"
         /\ x.active => x.clicks > 1
         /\ \A j \in 1 .. MaxClicks : x.try[j].step # "none" => j <= x.clicks
         /\ x.active => ~x.endLogged /\ y.line \in {"up", "stopping"}
         /\ x.loads > 0
<1>1. w.clicks \in Nat /\ x.clicks = w.clicks /\ k \in Nat /\ k > 0
  BY DEF TabRow, PastAttempt
<1>2. Waiting(w)
  BY DEF Waiting
<1>3. k <= w.clicks /\ w.phase # "closed"
  BY <1>2 DEF PanelInv
<1>4. \A j \in 1 .. MaxClicks :
        x.try[j].step # "none" => j # k /\ w.try[j].step # "none"
  BY DEF PastAttempt
<1>5. \A j \in 1 .. MaxClicks : x.try[j].step # "none" => j <= x.clicks
  BY <1>1, <1>4 DEF PanelInv
<1>6. Waiting(x) => x.clicks > 1
  <2>1. SUFFICES ASSUME NEW j \in 1 .. MaxClicks, x.try[j].step # "none" PROVE x.clicks > 1
    BY DEF Waiting
  <2>2. j # k /\ j <= x.clicks /\ k <= x.clicks /\ j \in Nat /\ j > 0
    BY <1>1, <1>3, <1>4, <1>5, <2>1
  <2> QED BY <1>1, <2>2
<1>7. Busy(y) => x.clicks > 1
  BY <1>1, <1>2 DEF PanelInv
<1>8. x.active => Busy(y) /\ y.line \in {"up", "stopping"} /\ ~x.endLogged
  BY <1>3 DEF PanelInv, PastAttempt, Busy
<1>9. x.loads > 0
  BY <1>3 DEF PanelInv, PastAttempt
<1> QED BY <1>1, <1>3, <1>5, <1>6, <1>7, <1>8, <1>9

\* An attempt that ends without a call.
LEMMA AttemptEnds ==
  ASSUME DemoInv, NEW t \in Tabs, NEW k \in 1 .. MaxClicks, NEW x,
         tab[t].try[k].step # "none", PastAttempt(x, tab[t], k), x.phase # "closed",
         tab' = [tab EXCEPT ![t] = x],
         UNCHANGED <<link, limits, sdk, events, rows, sent, crowd>>
  PROVE  DemoInv'
<1>1. tab[t] \in TabRow /\ PanelInv(tab[t], sdk[t], sent[t])
  BY RowsOfTab
<1>2. x \in TabRow
  BY DEF PastAttempt
<1>3. PanelInv(x, sdk[t], sent[t])
  <2>1. sent[t].started = sent[t].ended + (IF x.active THEN 1 ELSE 0)
    BY <1>1 DEF PanelInv, PastAttempt
  <2>2. sdk[t].line \in {"up", "stopping"} /\ ~x.active => x.endLogged
    BY <1>1 DEF PanelInv, PastAttempt
  <2> QED BY <1>1, <2>1, <2>2, AttemptsAreClicks DEF PanelInv
<1>4. Moves(t, x, sdk[t], sent[t])
  BY RowsOfTab DEF Moves
<1> QED BY <1>2, <1>3, <1>4, RowsOfTab, MoveKeeps

LEMMA DialKeeps ==
  ASSUME DemoInv, NEW t \in Tabs, NEW k \in 1 .. MaxClicks, NEW x,
         tab[t].try[k].step # "none", PastAttempt(x, tab[t], k), x.phase = tab[t].phase,
         Dial(t, x), UNCHANGED <<link, limits, events, rows, sent, crowd>>
  PROVE  DemoInv'
<1>1. tab[t] \in TabRow /\ PanelInv(tab[t], sdk[t], sent[t]) /\ sdk[t] \in SdkRow
  BY RowsOfTab
<1>2. x \in TabRow /\ x.phase \in Phases
  BY DEF PastAttempt, TabRow
<1>3. x.phase # "closed"
  BY <1>1, AttemptsAreClicks
<1>4. CASE sdk[t].line = "idle"
  <2>1. PICK w : w = [x EXCEPT !.timer = TRUE]
    OBVIOUS
  <2>2. PICK y : y = [line |-> "dialling", told |-> buildOverrides(x)]
    OBVIOUS
  <2>3. y \in SdkRow /\ y.line = "dialling"
    BY <1>2, <2>2 DEF SdkRow, Lines, buildOverrides, TabRow
  <2>4. w \in TabRow /\ w.phase = x.phase /\ PastAttempt(w, tab[t], k)
    BY <1>2, <2>1 DEF TabRow, PastAttempt
  <2>5. Moves(t, w, y, sent[t])
    BY <1>4, <2>1, <2>2, RowsOfTab DEF Moves, Dial
  <2>6. ~w.active
    BY <1>1, <1>4, <2>4, AttemptsAreClicks
  <2>7. sent[t].started = sent[t].ended + (IF w.active THEN 1 ELSE 0)
    BY <1>1, <2>4 DEF PanelInv, PastAttempt
  <2>8. w.phase # "closed"
    BY <1>3, <2>4 DEF PastAttempt
  <2>9. /\ w.clicks > 0 /\ (Waiting(w) => w.clicks > 1) /\ w.loads > 0
        /\ \A j \in 1 .. MaxClicks : w.try[j].step # "none" => j <= w.clicks
    BY <1>1, <2>4, AttemptsAreClicks
  <2>10. PanelInv(w, y, sent[t])
    BY <2>3, <2>6, <2>7, <2>8, <2>9 DEF PanelInv
  <2> QED BY <2>3, <2>4, <2>5, <2>10, RowsOfTab, MoveKeeps
<1>5. CASE sdk[t].line = "rejected"
  <2>1. PICK p \in Phases : p = FailsIfConnecting(x.phase) /\ p # "closed"
    BY <1>2, <1>3 DEF FailsIfConnecting, Phases
  <2>2. PICK w : w = [x EXCEPT !.phase = p]
    OBVIOUS
  <2>3. w \in TabRow /\ w.phase = p /\ PastAttempt(w, tab[t], k)
    BY <1>2, <2>2 DEF TabRow, PastAttempt
  <2>4. tab' = [tab EXCEPT ![t] = w] /\ sdk' = sdk
    BY <1>5, <2>1, <2>2 DEF Dial
  <2> QED BY <2>1, <2>3, <2>4, AttemptEnds
<1>6. CASE sdk[t].line \notin {"idle", "rejected"}
  <2>1. tab' = [tab EXCEPT ![t] = x] /\ sdk' = sdk
    BY <1>6 DEF Dial
  <2> QED BY <1>3, <2>1, AttemptEnds
<1> QED BY <1>4, <1>5, <1>6

LEMMA EndedRow ==
  ASSUME DemoInv, NEW t \in Tabs, NEW k \in 1 .. MaxClicks,
         NEW w, w = Ended(t, k)
  PROVE  PastAttempt(w, tab[t], k) /\ w \in TabRow /\ w.phase = tab[t].phase
<1>1. tab[t] \in TabRow /\ PanelInv(tab[t], sdk[t], sent[t]) /\ k \in Nat
  BY RowsOfTab
<1>2. PICK q : q = [tab[t].try EXCEPT ![k] = Idle]
  OBVIOUS
<1>3. /\ q \in [1 .. MaxClicks -> TryRow]
      /\ \A j \in 1 .. MaxClicks : q[j].step = IF j = k THEN "none" ELSE tab[t].try[j].step
  <2>1. Idle \in TryRow /\ Idle.step = "none"
    BY LongestIsALength DEF Idle, TryRow, Verdicts
  <2>2. tab[t].try \in [1 .. MaxClicks -> TryRow]
    BY <1>1 DEF TabRow
  <2> QED BY <1>2, <2>1, <2>2
<1>4. w = [tab[t] EXCEPT !.try = q]
  BY <1>2 DEF Ended
<1>5. /\ w \in TabRow /\ w.try = q /\ w.phase = tab[t].phase /\ w.active = tab[t].active
      /\ w.endLogged = tab[t].endLogged /\ w.loads = tab[t].loads
      /\ w.clicks = tab[t].clicks
  BY <1>1, <1>3, <1>4 DEF TabRow
<1> QED BY <1>3, <1>5 DEF PastAttempt

LEMMA MicAnswersKeeps ==
  ASSUME DemoInv, NEW t \in Tabs, NEW k \in 1 .. MaxClicks, MicAnswers(t, k)
  PROVE  DemoInv'
<1>1. tab[t] \in TabRow /\ PanelInv(tab[t], sdk[t], sent[t]) /\ k \in Nat
  BY RowsOfTab
<1>2. tab[t].try[k].step = "mic" /\ UNCHANGED <<link, limits, events, rows, sent, crowd>>
  BY DEF MicAnswers
<1>3. CASE tab' = [tab EXCEPT ![t].try[k].step = "gate"] /\ UNCHANGED sdk
  <2>1. PICK w : TriedAs(w, tab[t], k, "gate")
    BY DEF TriedAs
  <2>2. /\ w \in TabRow
        /\ w.phase = tab[t].phase /\ w.cap = tab[t].cap /\ w.left = tab[t].left
        /\ w.active = tab[t].active /\ w.endLogged = tab[t].endLogged
        /\ w.loads = tab[t].loads /\ w.clicks = tab[t].clicks
        /\ \A j \in 1 .. MaxClicks :
             w.try[j].step = IF j = k THEN "gate" ELSE tab[t].try[j].step
    BY <1>1, <2>1, TryRows
  <2>3. \A j \in 1 .. MaxClicks : w.try[j].step # "none" <=> tab[t].try[j].step # "none"
    BY <1>2, <2>2
  <2>4. Waiting(w) <=> Waiting(tab[t])
    BY <2>3 DEF Waiting
  <2>5. PanelInv(w, sdk[t], sent[t])
    BY <1>1, <2>2, <2>3, <2>4 DEF PanelInv
  <2>6. tab' = [tab EXCEPT ![t] = w]
    BY <1>1, <1>3, <2>1 DEF TriedAs, DemoInv, DemoTypeOK
  <2>7. Moves(t, w, sdk[t], sent[t])
    BY <1>2, <1>3, <2>6, RowsOfTab DEF Moves
  <2> QED BY <2>2, <2>5, <2>7, RowsOfTab, MoveKeeps
<1>4. CASE Dial(t, Ended(t, k))
  <2>1. PICK w : w = Ended(t, k)
    OBVIOUS
  <2>2. PastAttempt(w, tab[t], k) /\ w.phase = tab[t].phase
    BY <2>1, EndedRow
  <2>3. Dial(t, w)
    BY <1>4, <2>1
  <2> QED BY <1>2, <2>2, <2>3, DialKeeps
<1>5. ASSUME NEW p \in {"mic_denied", "failed"},
             tab' = [tab EXCEPT ![t] = [Ended(t, k) EXCEPT !.phase = p]], UNCHANGED sdk
      PROVE  DemoInv'
  <2>1. PICK w : w = Ended(t, k)
    OBVIOUS
  <2>2. PastAttempt(w, tab[t], k) /\ w \in TabRow
    BY <2>1, EndedRow
  <2>3. PICK x : x = [w EXCEPT !.phase = p]
    OBVIOUS
  <2>4. PastAttempt(x, tab[t], k) /\ x.phase # "closed"
    BY <2>2, <2>3 DEF PastAttempt, TabRow, Phases
  <2>5. tab' = [tab EXCEPT ![t] = x]
    BY <1>5, <2>1, <2>3
  <2> QED BY <1>2, <1>5, <2>4, <2>5, AttemptEnds
<1> QED BY <1>3, <1>4, <1>5 DEF MicAnswers

LEMMA PassGateKeeps ==
  ASSUME DemoInv, NEW t \in Tabs, NEW k \in 1 .. MaxClicks, PassGate(t, k)
  PROVE  DemoInv'
<1>1. PICK w : w = Ended(t, k)
  OBVIOUS
<1>2. PastAttempt(w, tab[t], k) /\ w \in TabRow /\ w.phase = tab[t].phase
  BY <1>1, EndedRow
<1>3. PICK n \in Clock : n = tab[t].try[k].offer
  BY RowsOfTab DEF TabRow, TryRow
<1>4. tab[t].try[k].step # "none" /\ UNCHANGED <<link, limits, events, rows, sent, crowd>>
  BY DEF PassGate
<1>5. CASE tab[t].try[k].verdict = "allowed"
  <2>1. PICK x : x = [w EXCEPT !.cap = n]
    OBVIOUS
  <2>2. PastAttempt(x, tab[t], k) /\ x.phase = tab[t].phase
    <3>1. /\ x \in TabRow /\ x.phase = w.phase /\ x.try = w.try /\ x.active = w.active
          /\ x.endLogged = w.endLogged /\ x.clicks = w.clicks /\ x.loads = w.loads
      BY <1>2, <2>1 DEF TabRow
    <3> QED BY <1>2, <3>1 DEF PastAttempt
  <2>3. Dial(t, x)
    BY <1>1, <1>3, <1>5, <2>1 DEF PassGate
  <2> QED BY <1>4, <2>2, <2>3, DialKeeps
<1>6. CASE tab[t].try[k].verdict # "allowed"
  <2>1. PICK p \in Phases :
          p = (IF tab[t].try[k].verdict = "error" THEN "failed" ELSE "limited") /\ p # "closed"
    BY DEF Phases
  <2>2. PICK x : x = [w EXCEPT !.phase = p]
    OBVIOUS
  <2>3. PastAttempt(x, tab[t], k) /\ x.phase # "closed"
    BY <1>2, <2>1, <2>2 DEF PastAttempt, TabRow
  <2>4. tab' = [tab EXCEPT ![t] = x] /\ sdk' = sdk
    BY <1>1, <1>6, <2>1, <2>2 DEF PassGate
  <2> QED BY <1>4, <2>3, <2>4, AttemptEnds
<1> QED BY <1>5, <1>6

LEMMA ConnectTimeoutKeeps ==
  ASSUME DemoInv, NEW t \in Tabs, ConnectTimeout(t)
  PROVE  DemoInv'
<1>1. tab[t] \in TabRow /\ PanelInv(tab[t], sdk[t], sent[t]) /\ tab[t].phase \in Phases
  BY RowsOfTab DEF TabRow
<1>2. PICK p \in Phases : p = FailsIfConnecting(tab[t].phase)
  BY <1>1 DEF FailsIfConnecting, Phases
<1>3. PICK x : x = [tab[t] EXCEPT !.phase = p, !.timer = FALSE]
  OBVIOUS
<1>4. /\ x \in TabRow /\ x.phase = p /\ x.try = tab[t].try /\ x.left = tab[t].left
      /\ x.cap = tab[t].cap /\ x.active = tab[t].active /\ x.endLogged = tab[t].endLogged
      /\ x.loads = tab[t].loads /\ x.clicks = tab[t].clicks
  BY <1>1, <1>3 DEF TabRow
<1>5. tab' = [tab EXCEPT ![t] = x]
  BY <1>1, <1>2, <1>3 DEF ConnectTimeout, TabRow
<1>6. Moves(t, x, sdk[t], sent[t])
  BY <1>5, RowsOfTab DEF ConnectTimeout, Moves
<1>7. (p = "closed" <=> tab[t].phase = "closed") /\ (p = "live" <=> tab[t].phase = "live")
  BY <1>2 DEF FailsIfConnecting
<1>8. PanelInv(x, sdk[t], sent[t])
  BY <1>1, <1>4, <1>7 DEF PanelInv, Waiting
<1> QED BY <1>4, <1>6, <1>8, RowsOfTab, MoveKeeps

\* The row of a started call has a number.
LEMMA NumberOfStart ==
  ASSUME NEW a \in Nat, NEW b \in Nat, a > 0
  PROVE  MaxClicks * (a - 1) + b \in Nat
<1>1. MaxClicks \in Nat /\ a - 1 \in Nat
  BY DEF DemoCallAssumption
<1>2. MaxClicks * (a - 1) \in Nat
  BY <1>1
<1> QED BY <1>2

LEMMA CallStartKeeps ==
  ASSUME DemoInv, NEW t \in Tabs, CallStart(t)
  PROVE  DemoInv'
<1>1. /\ tab[t] \in TabRow /\ sdk[t] \in SdkRow /\ sent[t] \in SentRow
      /\ PanelInv(tab[t], sdk[t], sent[t])
  BY RowsOfTab
<1>2. sdk[t].line = "dialling" /\ tab[t].phase # "closed" /\ ~tab[t].active
  BY <1>1 DEF CallStart, PanelInv
<1>3. PICK x : x = [tab[t] EXCEPT !.active = TRUE, !.endLogged = FALSE, !.left = tab[t].cap,
                                  !.phase = "live", !.timer = FALSE]
  OBVIOUS
<1>4. /\ x \in TabRow /\ x.phase = "live" /\ x.try = tab[t].try
      /\ x.active = TRUE /\ x.endLogged = FALSE
      /\ x.loads = tab[t].loads /\ x.clicks = tab[t].clicks
  BY <1>1, <1>3 DEF TabRow, Phases
<1>5. PICK y : y = [sdk[t] EXCEPT !.line = "up"]
  OBVIOUS
<1>6. y \in SdkRow /\ y.line = "up"
  BY <1>1, <1>5 DEF SdkRow, Lines
<1>7. PICK z : z = [sent[t] EXCEPT !.started = @ + 1]
  OBVIOUS
<1>8. z \in SentRow /\ z.started = sent[t].started + 1 /\ z.ended = sent[t].ended
  BY <1>1, <1>7 DEF SentRow
<1>9. tab' = [tab EXCEPT ![t] = x]
  BY <1>1, <1>3 DEF CallStart, TabRow
<1>10. sdk' = [sdk EXCEPT ![t] = y] /\ sent' = [sent EXCEPT ![t] = z]
  BY <1>5, <1>7 DEF CallStart
<1>11. PICK n \in Nat : n = MaxClicks * (tab[t].loads - 1) + sent[t].started
  <2>1. tab[t].loads \in Nat /\ tab[t].loads > 0 /\ sent[t].started \in Nat
    BY <1>1, <1>2 DEF PanelInv, TabRow, SentRow
  <2> QED BY <2>1, NumberOfStart
<1>12. \E e \in EventRow : e.at = "sent" /\ events' = events \cup {e}
  <2>1. PICK e : e = [tab |-> t, n |-> n, at |-> "sent"]
    OBVIOUS
  <2>2. e \in EventRow /\ e.at = "sent"
    BY <2>1 DEF EventRow
  <2> QED BY <1>11, <2>1, <2>2 DEF CallStart
<1>13. Moves(t, x, y, z)
  BY <1>9, <1>10, <1>12 DEF CallStart, Moves
<1>14. PanelInv(x, y, z)
  <2>1. sent[t].started = sent[t].ended /\ sent[t].ended \in Nat
    BY <1>1, <1>2 DEF PanelInv, SentRow
  <2>2. z.started = z.ended + (IF x.active THEN 1 ELSE 0)
    BY <1>4, <1>8, <2>1
  <2>3. x.clicks > 0 /\ (Waiting(x) => x.clicks > 1) /\ x.loads > 0
    BY <1>1, <1>2, <1>4 DEF PanelInv, Busy, Waiting
  <2>4. \A k \in 1 .. MaxClicks : x.try[k].step # "none" => k <= x.clicks
    BY <1>1, <1>4 DEF PanelInv
  <2> QED BY <1>4, <1>6, <2>2, <2>3, <2>4 DEF PanelInv
<1> QED BY <1>4, <1>6, <1>8, <1>13, <1>14, MoveKeeps

LEMMA StartThrowsKeeps ==
  ASSUME DemoInv, NEW t \in Tabs, StartThrows(t)
  PROVE  DemoInv'
<1>1. /\ tab[t] \in TabRow /\ sdk[t] \in SdkRow /\ PanelInv(tab[t], sdk[t], sent[t])
      /\ tab[t].phase \in Phases
  BY RowsOfTab DEF TabRow
<1>2. sdk[t].line = "dialling" /\ tab[t].phase # "closed" /\ ~tab[t].active
  BY <1>1 DEF StartThrows, PanelInv
<1>3. PICK p \in Phases : p = FailsIfConnecting(tab[t].phase) /\ p # "closed"
  BY <1>1, <1>2 DEF FailsIfConnecting, Phases
<1>4. PICK x : x = [tab[t] EXCEPT !.phase = p, !.timer = FALSE]
  OBVIOUS
<1>5. /\ x \in TabRow /\ x.phase = p /\ x.try = tab[t].try /\ x.left = tab[t].left
      /\ x.cap = tab[t].cap /\ x.active = tab[t].active /\ x.endLogged = tab[t].endLogged
      /\ x.loads = tab[t].loads /\ x.clicks = tab[t].clicks
  BY <1>1, <1>4 DEF TabRow
<1>6. PICK y : y = [sdk[t] EXCEPT !.line = "idle"]
  OBVIOUS
<1>7. y \in SdkRow /\ y.line = "idle"
  BY <1>1, <1>6 DEF SdkRow, Lines
<1>8. tab' = [tab EXCEPT ![t] = x] /\ sdk' = [sdk EXCEPT ![t] = y]
  BY <1>1, <1>3, <1>4, <1>6 DEF StartThrows, TabRow
<1>9. Moves(t, x, y, sent[t])
  BY <1>8, RowsOfTab DEF StartThrows, Moves
<1>10. PanelInv(x, y, sent[t])
  BY <1>1, <1>2, <1>3, <1>5, <1>7 DEF PanelInv, Waiting, Busy
<1> QED BY <1>5, <1>7, <1>9, <1>10, RowsOfTab, MoveKeeps

LEMMA ReportsEndKeeps ==
  ASSUME DemoInv, NEW t \in Tabs, ReportsEnd(t)
  PROVE  DemoInv'
<1>1. tab[t] \in TabRow /\ PanelInv(tab[t], sdk[t], sent[t])
  BY RowsOfTab
<1>2. PICK x : x = [tab[t] EXCEPT !.reported = TRUE]
  OBVIOUS
<1>3. /\ x \in TabRow /\ x.phase = tab[t].phase /\ x.try = tab[t].try /\ x.left = tab[t].left
      /\ x.cap = tab[t].cap /\ x.active = tab[t].active /\ x.endLogged = tab[t].endLogged
      /\ x.loads = tab[t].loads /\ x.clicks = tab[t].clicks
  BY <1>1, <1>2 DEF TabRow
<1>4. Moves(t, x, sdk[t], sent[t])
  BY <1>2, RowsOfTab DEF ReportsEnd, Moves
<1>5. PanelInv(x, sdk[t], sent[t])
  BY <1>1, <1>3 DEF PanelInv, Waiting
<1> QED BY <1>3, <1>4, <1>5, RowsOfTab, MoveKeeps

\* finishCall for a page at phase p, its line becoming y.
Finishes(t, p, y) ==
  /\ tab[t].active \/ tab[t].endLogged
  /\ tab[t].phase # "closed"
  /\ FinishCall(t, [tab[t] EXCEPT !.phase = p])
  /\ sdk' = [sdk EXCEPT ![t] = y]
  /\ y.line = "idle" \/ (y = sdk[t] /\ y.line \in {"up", "stopping"})
  /\ UNCHANGED <<link, limits, events, rows, crowd>>

LEMMA FinishKeeps ==
  ASSUME DemoInv, NEW t \in Tabs, NEW p \in Phases \ {"closed"}, NEW y \in SdkRow,
         Finishes(t, p, y)
  PROVE  DemoInv'
<1>1. tab[t] \in TabRow /\ sent[t] \in SentRow /\ PanelInv(tab[t], sdk[t], sent[t])
  BY RowsOfTab
<1>2. PICK w : w = [tab[t] EXCEPT !.phase = p]
  OBVIOUS
<1>3. w \in TabRow /\ w.endLogged = tab[t].endLogged
  BY <1>1, <1>2 DEF TabRow
<1>4. PICK x : x = Finished(w)
  OBVIOUS
<1>5. /\ x \in TabRow /\ x.phase = p /\ x.try = tab[t].try /\ x.left = tab[t].left
      /\ x.cap = tab[t].cap /\ x.active = FALSE /\ x.endLogged = TRUE
      /\ x.loads = tab[t].loads /\ x.clicks = tab[t].clicks
  BY <1>1, <1>2, <1>4 DEF Finished, TabRow
<1>6. PICK z : z = IF tab[t].endLogged THEN sent[t] ELSE [sent[t] EXCEPT !.ended = @ + 1]
  OBVIOUS
<1>7. z \in SentRow /\ z.started = z.ended
  <2>1. CASE tab[t].endLogged
    <3>1. ~tab[t].active
      BY <1>1, <2>1 DEF PanelInv
    <3>2. sent[t].started = sent[t].ended + 0
      BY <1>1, <3>1 DEF PanelInv
    <3>3. z = sent[t]
      BY <1>6, <2>1
    <3> QED BY <1>1, <3>2, <3>3 DEF SentRow
  <2>2. CASE ~tab[t].endLogged
    <3>1. tab[t].active
      BY <2>2 DEF Finishes
    <3>2. sent[t].started = sent[t].ended + 1
      BY <1>1, <3>1 DEF PanelInv
    <3>3. z = [sent[t] EXCEPT !.ended = @ + 1]
      BY <1>6, <2>2
    <3> QED BY <1>1, <3>2, <3>3 DEF SentRow
  <2> QED BY <2>1, <2>2
<1>8. tab' = [tab EXCEPT ![t] = x]
  BY <1>2, <1>4 DEF FinishCall, Finishes
<1>9. sent' = [sent EXCEPT ![t] = z]
  <2>1. sent' = IF w.endLogged THEN sent ELSE [sent EXCEPT ![t].ended = @ + 1]
    BY <1>2 DEF FinishCall, Finishes
  <2> QED BY <1>3, <1>6, <2>1, RowsOfTab
<1>10. Moves(t, x, y, z)
  BY <1>8, <1>9 DEF Moves, Finishes
<1>11. PanelInv(x, y, z)
  <2>1. z.started = z.ended + (IF x.active THEN 1 ELSE 0)
    BY <1>5, <1>7 DEF SentRow
  <2>2. Busy(y) => x.clicks > 0 /\ (Waiting(x) => x.clicks > 1)
    BY <1>1, <1>5 DEF PanelInv, Busy, Waiting, Finishes
  <2>3. \A k \in 1 .. MaxClicks : x.try[k].step # "none" => k <= x.clicks
    BY <1>1, <1>5 DEF PanelInv
  <2>4. x.loads > 0
    BY <1>1, <1>5 DEF PanelInv, Finishes
  <2> QED BY <1>5, <2>1, <2>2, <2>3, <2>4 DEF PanelInv
<1> QED BY <1>5, <1>7, <1>10, <1>11, MoveKeeps

\* The instance has no call any more.
LEMMA IdleLine ==
  ASSUME DemoInv, NEW t \in Tabs, NEW y, y = [sdk[t] EXCEPT !.line = "idle"]
  PROVE  y \in SdkRow /\ y.line = "idle"
BY RowsOfTab DEF SdkRow, Lines

LEMMA CallEndKeeps ==
  ASSUME DemoInv, NEW t \in Tabs, CallEnd(t)
  PROVE  DemoInv'
<1>1. tab[t] \in TabRow /\ PanelInv(tab[t], sdk[t], sent[t])
  BY RowsOfTab
<1>2. PICK y : y = [sdk[t] EXCEPT !.line = "idle"]
  OBVIOUS
<1>3. y \in SdkRow /\ y.line = "idle"
  BY <1>2, IdleLine
<1>4. sdk[t].line \in {"up", "stopping"}
  BY DEF CallEnd
<1>5. (tab[t].active \/ tab[t].endLogged) /\ tab[t].phase # "closed"
  BY <1>1, <1>4 DEF PanelInv
<1>6. sdk' = [sdk EXCEPT ![t] = y]
  BY <1>2 DEF CallEnd
<1>7. FinishCall(t, [tab[t] EXCEPT !.phase = "ended"]) /\ "ended" \in Phases \ {"closed"}
  BY DEF CallEnd, Phases
<1>8. UNCHANGED <<link, limits, events, rows, crowd>>
  BY DEF CallEnd
<1>9. Finishes(t, "ended", y)
  BY <1>3, <1>5, <1>6, <1>7, <1>8 DEF Finishes
<1> QED BY <1>3, <1>7, <1>9, FinishKeeps

LEMMA ErrorKeeps ==
  ASSUME DemoInv, NEW t \in Tabs, Error(t)
  PROVE  DemoInv'
<1>1. tab[t] \in TabRow /\ PanelInv(tab[t], sdk[t], sent[t]) /\ tab[t].phase \in Phases
  BY RowsOfTab DEF TabRow
<1>2. PICK y : y = [sdk[t] EXCEPT !.line = "idle"]
  OBVIOUS
<1>3. y \in SdkRow /\ y.line = "idle"
  BY <1>2, IdleLine
<1>4. tab[t].phase # "closed"
  BY <1>1 DEF Error, PanelInv
<1>5. PICK p \in Phases \ {"closed"} :
        p = IF ~tab[t].reported THEN "failed"
            ELSE IF tab[t].phase \in {"live", "ended"} THEN "ended" ELSE tab[t].phase
  BY <1>1, <1>4 DEF Phases
<1>6. sdk' = [sdk EXCEPT ![t] = y] /\ UNCHANGED <<link, limits, events, rows, crowd>>
  BY <1>2 DEF Error
<1>7. CASE tab[t].active
  <2>1. FinishCall(t, [tab[t] EXCEPT !.phase = p])
    BY <1>5, <1>7 DEF Error
  <2>2. Finishes(t, p, y)
    BY <1>3, <1>4, <1>6, <1>7, <2>1 DEF Finishes
  <2> QED BY <1>3, <2>2, FinishKeeps
<1>8. CASE ~tab[t].active
  <2>1. PICK x : x = [tab[t] EXCEPT !.phase = p, !.timer = FALSE]
    OBVIOUS
  <2>2. /\ x \in TabRow /\ x.phase = p /\ x.try = tab[t].try /\ x.left = tab[t].left
        /\ x.cap = tab[t].cap /\ x.active = tab[t].active /\ x.endLogged = tab[t].endLogged
        /\ x.loads = tab[t].loads /\ x.clicks = tab[t].clicks
    BY <1>1, <2>1 DEF TabRow
  <2>3. tab' = [tab EXCEPT ![t].phase = p, ![t].timer = FALSE] /\ sent' = sent
    BY <1>5, <1>8 DEF Error
  <2>4. tab' = [tab EXCEPT ![t] = x]
    BY <1>1, <2>1, <2>3 DEF TabRow
  <2>5. Moves(t, x, y, sent[t])
    BY <1>6, <2>3, <2>4, RowsOfTab DEF Moves
  <2>6. PanelInv(x, y, sent[t])
    BY <1>1, <1>3, <1>4, <1>8, <2>2 DEF PanelInv, Busy
  <2> QED BY <1>3, <2>2, <2>5, <2>6, RowsOfTab, MoveKeeps
<1> QED BY <1>7, <1>8

\* Vapi is told to stop: a line that is up is stopping from now on.
LEMMA HushedLine ==
  ASSUME DemoInv, NEW t \in Tabs
  PROVE  \E y \in SdkRow :
           /\ Hushed(t) = [sdk EXCEPT ![t] = y]
           /\ Busy(y) <=> Busy(sdk[t])
           /\ y.line \in {"up", "stopping"} <=> sdk[t].line \in {"up", "stopping"}
           /\ y.line = "none" <=> sdk[t].line = "none"
<1>1. PICK y : y = [sdk[t] EXCEPT !.line = IF @ = "up" THEN "stopping" ELSE @]
  OBVIOUS
<1>2. sdk[t] \in SdkRow
  BY RowsOfTab
<1>3. y \in SdkRow /\ y.line = IF sdk[t].line = "up" THEN "stopping" ELSE sdk[t].line
  BY <1>1, <1>2 DEF SdkRow, Lines
<1>4. Hushed(t) = [sdk EXCEPT ![t] = y]
  BY <1>1 DEF Hushed
<1> QED BY <1>3, <1>4 DEF Busy

LEMMA TickKeeps ==
  ASSUME DemoInv, NEW t \in Tabs, Tick(t)
  PROVE  DemoInv'
<1>1. tab[t] \in TabRow /\ PanelInv(tab[t], sdk[t], sent[t]) /\ sdk[t] \in SdkRow
  BY RowsOfTab
<1>2. PICK y \in SdkRow :
        /\ sdk' = [sdk EXCEPT ![t] = y]
        /\ Busy(y) <=> Busy(sdk[t])
        /\ y.line \in {"up", "stopping"} <=> sdk[t].line \in {"up", "stopping"}
        /\ y.line = "none" <=> sdk[t].line = "none"
  <2>1. CASE tab[t].left <= 1
    BY <2>1, HushedLine DEF Tick
  <2>2. CASE ~(tab[t].left <= 1)
    BY <1>1, <2>2, RowsOfTab DEF Tick
  <2> QED BY <2>1, <2>2
<1>3. PICK n \in Clock : n = IF tab[t].left > 0 THEN tab[t].left - 1 ELSE 0
  <2>1. tab[t].left \in Clock /\ FirstLength \in Nat
    BY <1>1, LongestIsALength DEF TabRow
  <2> QED BY <2>1 DEF Clock
<1>4. PICK x : x = [tab[t] EXCEPT !.left = n]
  OBVIOUS
<1>5. /\ x \in TabRow /\ x.phase = tab[t].phase /\ x.try = tab[t].try /\ x.left = n
      /\ x.cap = tab[t].cap /\ x.active = tab[t].active /\ x.endLogged = tab[t].endLogged
      /\ x.loads = tab[t].loads /\ x.clicks = tab[t].clicks
  BY <1>1, <1>4 DEF TabRow
<1>6. tab' = [tab EXCEPT ![t] = x]
  BY <1>3, <1>4 DEF Tick
<1>7. Moves(t, x, y, sent[t])
  BY <1>2, <1>6, RowsOfTab DEF Tick, Moves
<1>8. PanelInv(x, y, sent[t])
  BY <1>1, <1>2, <1>5 DEF PanelInv, Waiting
<1> QED BY <1>5, <1>7, <1>8, RowsOfTab, MoveKeeps

LEMMA StopKeeps ==
  ASSUME DemoInv, NEW t \in Tabs, Stop(t)
  PROVE  DemoInv'
<1>1. tab[t] \in TabRow /\ PanelInv(tab[t], sdk[t], sent[t]) /\ tab \in [Tabs -> TabRow]
  BY RowsOfTab DEF DemoInv, DemoTypeOK
<1>2. PICK y \in SdkRow :
        /\ sdk' = [sdk EXCEPT ![t] = y]
        /\ Busy(y) <=> Busy(sdk[t])
        /\ y.line \in {"up", "stopping"} <=> sdk[t].line \in {"up", "stopping"}
        /\ y.line = "none" <=> sdk[t].line = "none"
  BY HushedLine DEF Stop
<1>3. Moves(t, tab[t], y, sent[t])
  BY <1>1, <1>2, RowsOfTab DEF Stop, Moves
<1>4. PanelInv(tab[t], y, sent[t])
  BY <1>1, <1>2 DEF PanelInv
<1> QED BY <1>1, <1>3, <1>4, RowsOfTab, MoveKeeps

LEMMA PageHideKeeps ==
  ASSUME DemoInv, NEW t \in Tabs, PageHide(t)
  PROVE  DemoInv'
<1>1. tab[t] \in TabRow /\ PanelInv(tab[t], sdk[t], sent[t]) /\ sdk[t] \in SdkRow
  BY RowsOfTab
<1>2. tab[t].phase = "live" /\ tab[t].active
  BY DEF PageHide
<1>3. tab[t] = [tab[t] EXCEPT !.phase = "live"] /\ "live" \in Phases \ {"closed"}
  BY <1>1, <1>2 DEF TabRow, Phases
<1>4. FinishCall(t, [tab[t] EXCEPT !.phase = "live"])
  BY <1>3 DEF PageHide
<1>5. sdk[t].line \in {"up", "stopping"}
  BY <1>1, <1>2 DEF PanelInv
<1>6. sdk' = [sdk EXCEPT ![t] = sdk[t]] /\ UNCHANGED <<link, limits, events, rows, crowd>>
  BY RowsOfTab DEF PageHide
<1>7. Finishes(t, "live", sdk[t])
  BY <1>2, <1>4, <1>5, <1>6 DEF Finishes
<1> QED BY <1>1, <1>3, <1>7, FinishKeeps

LEMMA CloseKeeps ==
  ASSUME DemoInv, NEW t \in Tabs, Close(t)
  PROVE  DemoInv'
<1>1. tab[t] \in TabRow /\ PanelInv(tab[t], sdk[t], sent[t])
  BY RowsOfTab
<1>2. PICK x : x = [Blank EXCEPT !.loads = tab[t].loads, !.clicks = tab[t].clicks,
                                 !.active = tab[t].active]
  OBVIOUS
<1>3. /\ x \in TabRow /\ x.phase = "closed" /\ x.try = Blank.try
      /\ x.active = tab[t].active /\ x.endLogged = FALSE /\ x.loads = tab[t].loads
      /\ x.clicks = tab[t].clicks
  <2>1. x \in TabRow
    BY <1>1, <1>2, BlankRow DEF TabRow
  <2> QED BY <1>2, <2>1 DEF Blank
<1>4. PICK y : y = [line |-> "none", told |-> Null]
  OBVIOUS
<1>5. y \in SdkRow /\ y.line = "none"
  BY <1>4 DEF SdkRow, Lines
<1>6. Moves(t, x, y, sent[t])
  BY <1>2, <1>4, RowsOfTab DEF Close, Moves
<1>7. PanelInv(x, y, sent[t])
  <2>1. x.active => x.clicks > 1
    BY <1>1, <1>3 DEF Close, PanelInv
  <2>2. ~Waiting(x) /\ \A k \in 1 .. MaxClicks : x.try[k].step = "none"
    BY <1>3, BlankRow DEF Waiting
  <2>3. sent[t].started = sent[t].ended + (IF x.active THEN 1 ELSE 0)
    BY <1>1, <1>3 DEF PanelInv
  <2> QED BY <1>3, <1>5, <2>1, <2>2, <2>3 DEF PanelInv, Busy
<1> QED BY <1>3, <1>5, <1>6, <1>7, RowsOfTab, MoveKeeps

-----------------------------------------------------------------------------
(* The requests.                                                           *)

LEMMA LargerOfTwo ==
  ASSUME NEW a \in Nat, NEW b \in Nat
  PROVE  Max({a, b}) \in Nat /\ Max({a, b}) >= a /\ Max({a, b}) >= b
<1>1. \E x \in {a, b} : \A y \in {a, b} : x >= y
  OBVIOUS
<1> QED BY <1>1 DEF Max

\* The events at "passed" are finite in number, and so are those of a caller.
LEMMA PassedAreFinite ==
  ASSUME DemoTypeOK
  PROVE  /\ IsFiniteSet(At("passed")) /\ Cardinality(At("passed")) \in Nat
         /\ Cardinality(rows) \in Nat
         /\ \A c : /\ IsFiniteSet(PassedBy(c)) /\ IsFiniteSet(LoggedBy(c))
                   /\ Cardinality(PassedBy(c)) \in Nat /\ Cardinality(LoggedBy(c)) \in Nat
                   /\ Cardinality(PassedBy(c)) <= Cardinality(At("passed"))
<1>1. IsFiniteSet(At("passed")) /\ Cardinality(At("passed")) \in Nat
  BY FS_Subset, FS_CardinalityType DEF DemoTypeOK, At
<1>2. Cardinality(rows) \in Nat /\ IsFiniteSet(rows)
  BY FS_CardinalityType DEF DemoTypeOK
<1>3. ASSUME NEW c
      PROVE  /\ IsFiniteSet(PassedBy(c)) /\ IsFiniteSet(LoggedBy(c))
             /\ Cardinality(PassedBy(c)) \in Nat /\ Cardinality(LoggedBy(c)) \in Nat
             /\ Cardinality(PassedBy(c)) <= Cardinality(At("passed"))
  <2>1. PassedBy(c) \subseteq At("passed") /\ LoggedBy(c) \subseteq rows
    BY DEF PassedBy, LoggedBy
  <2> QED BY <1>1, <1>2, <2>1, FS_Subset, FS_CardinalityType
<1> QED BY <1>1, <1>2, <1>3

\* A set with one more element has at most one more.
LEMMA OneMore ==
  ASSUME NEW S, IsFiniteSet(S), NEW T, NEW x, T \subseteq S \cup {x}
  PROVE  /\ IsFiniteSet(T) /\ Cardinality(T) \in Nat /\ Cardinality(S) \in Nat
         /\ Cardinality(T) <= Cardinality(S) + 1
<1>1. IsFiniteSet(S \cup {x}) /\ Cardinality(S) \in Nat /\ Cardinality(S \cup {x}) \in Nat
  BY FS_AddElement, FS_CardinalityType
<1>2. Cardinality(S \cup {x}) <= Cardinality(S) + 1
  BY <1>1, FS_AddElement
<1>3. IsFiniteSet(T) /\ Cardinality(T) <= Cardinality(S \cup {x}) /\ Cardinality(T) \in Nat
  BY <1>1, FS_Subset, FS_CardinalityType
<1> QED BY <1>1, <1>2, <1>3

LEMMA OneLess ==
  ASSUME NEW S, IsFiniteSet(S), NEW x \in S
  PROVE  Cardinality(S \ {x}) = Cardinality(S) - 1
BY FS_RemoveElement

\* Requests move and the tabs do not.
LEMMA TabsStay ==
  ASSUME DemoInv, UNCHANGED <<tab, sdk, sent>>
  PROVE  /\ TabsInv'
         /\ tab' \in [Tabs -> TabRow] /\ sdk' \in [Tabs -> SdkRow]
         /\ sent' \in [Tabs -> SentRow]
BY DEF DemoInv, DemoTypeOK, TabsInv

\* e goes on to the next statement of the route.
LEMMA PassesOn ==
  ASSUME DemoInv, NEW e \in events, e.at = "sent", Passes(e)
  PROVE  /\ events' \subseteq EventRow /\ IsFiniteSet(events')
         /\ \E f \in EventRow : /\ f.tab = e.tab
                                /\ At("passed")' = At("passed") \cup {f}
<1>1. e \in EventRow /\ events \subseteq EventRow /\ IsFiniteSet(events)
  BY DEF DemoInv, DemoTypeOK
<1>2. PICK f : f = [e EXCEPT !.at = "passed"]
  OBVIOUS
<1>3. f \in EventRow /\ f.tab = e.tab /\ f.at = "passed"
  BY <1>1, <1>2 DEF EventRow
<1>4. events' = (events \ {e}) \cup {f}
  BY <1>2 DEF Passes
<1>5. events' \subseteq EventRow
  BY <1>1, <1>3, <1>4
<1>6. IsFiniteSet(events')
  <2>1. IsFiniteSet(events \ {e})
    BY <1>1, FS_Subset
  <2> QED BY <1>4, <2>1, FS_AddElement
<1>7. At("passed")' = At("passed") \cup {f}
  BY <1>3, <1>4 DEF At
<1> QED BY <1>3, <1>5, <1>6, <1>7

LEMMA ClaimKeeps ==
  ASSUME DemoInv, NEW e \in events, Claim(e)
  PROVE  DemoInv'
<1>1. e \in EventRow
  BY DEF DemoInv, DemoTypeOK
<1>2. events' \subseteq EventRow /\ IsFiniteSet(events')
  BY PassesOn DEF Claim
<1>3. link' \in [kind : Kinds, used : {Null} \cup (Tabs \X Nat)] /\ link'.kind = link.kind
      /\ link'.used # Null
  <2>1. PICK who \in Tabs \X Nat : who = <<e.tab, e.n>> /\ who # Null
    <3>1. e.tab \in Tabs /\ e.n \in Nat
      BY <1>1 DEF EventRow
    <3>2. Null \notin Tabs \X Nat
      BY DEF DemoCallAssumption
    <3>3. <<e.tab, e.n>> \in Tabs \X Nat
      BY <3>1
    <3> QED BY <3>2, <3>3
  <2>2. link' = IF link.used = Null THEN [link EXCEPT !.used = who] ELSE link
    BY <2>1 DEF Claim
  <2> QED BY <2>1, <2>2 DEF DemoInv, DemoTypeOK
<1>4. link.kind = "personal" /\ UNCHANGED <<limits, rows, crowd>>
  BY DEF Claim, isReusable
<1>5. UNCHANGED <<tab, sdk, sent>>
  BY DEF Claim
<1>6. DemoTypeOK'
  BY <1>2, <1>3, <1>4, <1>5, TabsStay DEF DemoInv, DemoTypeOK
<1>7. LinkInv'
  BY <1>3, <1>4 DEF DemoInv, LinkInv, isReusable
<1> QED BY <1>5, <1>6, <1>7, TabsStay DEF DemoInv

\* The counts that LinkInv bounds only fall, or the allowance grows.
LEMMA FewerKeep ==
  ASSUME DemoInv, link' = link, UNCHANGED <<rows>>, crowd' \in Nat, crowd' >= crowd,
         At("passed")' \subseteq At("passed")
  PROVE  LinkInv'
<1>1. DemoTypeOK /\ LinkInv
  BY DEF DemoInv
<1>2. /\ IsFiniteSet(At("passed")) /\ Cardinality(At("passed")) \in Nat
      /\ Cardinality(rows) \in Nat /\ crowd \in Nat
  BY <1>1, PassedAreFinite DEF DemoTypeOK
<1>3. Cardinality(At("passed")') \in Nat /\ Cardinality(At("passed")') <= Cardinality(At("passed"))
  BY <1>2, FS_Subset, FS_CardinalityType
<1>4. ASSUME NEW c
      PROVE  /\ Cardinality(PassedBy(c)') \in Nat /\ Cardinality(PassedBy(c)) \in Nat
             /\ Cardinality(LoggedBy(c)) \in Nat
             /\ Cardinality(PassedBy(c)') <= Cardinality(PassedBy(c))
             /\ LoggedBy(c)' = LoggedBy(c)
  <2>1. PassedBy(c)' \subseteq PassedBy(c)
    BY DEF PassedBy
  <2>2. IsFiniteSet(PassedBy(c)) /\ Cardinality(LoggedBy(c)) \in Nat
    BY <1>1, PassedAreFinite
  <2>3. LoggedBy(c)' = LoggedBy(c)
    BY DEF LoggedBy
  <2> QED BY <2>1, <2>2, <2>3, FS_Subset, FS_CardinalityType
<1>5. DailyCap \in Nat /\ CallerCap \in Nat
  BY DEF DemoCallAssumption
<1>6. crowd' > 0
  BY <1>1, <1>2 DEF LinkInv
<1>7. rows' # {} \/ At("passed")' # {} => rows # {} \/ At("passed") # {}
  OBVIOUS
<1>8. ASSUME link.kind = "public"
      PROVE  /\ Cardinality(rows) + Cardinality(At("passed")') < DailyCap + crowd'
             /\ \A t \in Tabs :
                  Cardinality(LoggedBy(CallerOf[t])') + Cardinality(PassedBy(CallerOf[t])')
                    < CallerCap + crowd'
  <2>1. Cardinality(rows) + Cardinality(At("passed")) < DailyCap + crowd
    BY <1>1, <1>8 DEF LinkInv
  <2>2. Cardinality(rows) + Cardinality(At("passed")') < DailyCap + crowd'
    BY <1>2, <1>3, <1>5, <2>1
  <2>3. ASSUME NEW t \in Tabs
        PROVE  Cardinality(LoggedBy(CallerOf[t])') + Cardinality(PassedBy(CallerOf[t])')
                 < CallerCap + crowd'
    <3>1. Cardinality(LoggedBy(CallerOf[t])) + Cardinality(PassedBy(CallerOf[t]))
            < CallerCap + crowd
      BY <1>1, <1>8 DEF LinkInv
    <3> HIDE DEF PassedBy, LoggedBy
    <3> QED BY <1>2, <1>4, <1>5, <3>1
  <2> QED BY <2>2, <2>3
<1> QED BY <1>1, <1>6, <1>7, <1>8 DEF LinkInv, isReusable

LEMMA LoseKeeps ==
  ASSUME DemoInv, NEW e \in events, Lose(e)
  PROVE  DemoInv'
<1>1. events' \subseteq events /\ UNCHANGED <<link, limits, rows, crowd>>
  BY DEF Lose
<1>2. UNCHANGED <<tab, sdk, sent>>
  BY DEF Lose
<1>3. IsFiniteSet(events')
  BY <1>1, FS_Subset DEF DemoInv, DemoTypeOK
<1>4. DemoTypeOK'
  BY <1>1, <1>2, <1>3, TabsStay DEF DemoInv, DemoTypeOK
<1>5. crowd' \in Nat /\ crowd' >= crowd
  BY <1>1 DEF DemoInv, DemoTypeOK
<1>6. At("passed")' \subseteq At("passed")
  BY <1>1 DEF At
<1>7. LinkInv'
  BY <1>1, <1>5, <1>6, FewerKeep
<1> QED BY <1>2, <1>4, <1>7, TabsStay DEF DemoInv

LEMMA AdmitKeeps ==
  ASSUME DemoInv, NEW e \in events, Admit(e)
  PROVE  DemoInv'
<1>1. /\ e.at = "sent" /\ isReusable /\ link.kind # "personal"
      /\ UNCHANGED <<link, limits, rows>> /\ link' = link
  BY DEF Admit, isReusable
<1>2. UNCHANGED <<tab, sdk, sent>>
  BY DEF Admit
<1>3. DemoTypeOK /\ LinkInv /\ e \in EventRow
  BY DEF DemoInv, DemoTypeOK
<1>4. PICK n \in Nat : n = Cardinality(At("passed"))
  BY <1>3, PassedAreFinite
<1>5. crowd \in Nat /\ crowd' = Max({crowd, n + 1})
  BY <1>3, <1>4 DEF DemoTypeOK, Admit
<1>6. crowd' \in Nat /\ crowd' >= crowd /\ crowd' >= n + 1
  <2>1. n + 1 \in Nat
    BY <1>4
  <2> QED BY <1>5, <2>1, LargerOfTwo
<1>7. CASE events' = events \ {e}
  <2>1. IsFiniteSet(events') /\ events' \subseteq events
    BY <1>3, <1>7, FS_Subset DEF DemoTypeOK
  <2>2. DemoTypeOK'
    BY <1>1, <1>2, <1>6, <2>1, TabsStay DEF DemoInv, DemoTypeOK
  <2>3. At("passed")' \subseteq At("passed")
    BY <2>1 DEF At
  <2>4. LinkInv'
    BY <1>1, <1>6, <2>3, FewerKeep
  <2> QED BY <1>2, <2>2, <2>4, TabsStay DEF DemoInv
<1>8. CASE Passes(e) /\ (link.kind = "public" => Refusal(CallerOf[e.tab]) = Null)
  <2>1. PICK f \in EventRow : f.tab = e.tab /\ At("passed")' = At("passed") \cup {f}
    BY <1>1, <1>8, PassesOn
  <2>2. DemoTypeOK'
    BY <1>1, <1>2, <1>6, <1>8, PassesOn, TabsStay DEF DemoInv, DemoTypeOK
  <2>3. ASSUME link.kind = "public"
        PROVE  /\ Cardinality(rows) < DailyCap
               /\ Cardinality(LoggedBy(CallerOf[e.tab])) < CallerCap
    <3>1. PublicCalls = rows
      BY <2>3 DEF PublicCalls
    <3>2. {row \in PublicCalls : CallerOf[row.tab] = CallerOf[e.tab]} = LoggedBy(CallerOf[e.tab])
      BY <3>1 DEF LoggedBy
    <3>3. Refusal(CallerOf[e.tab]) = Null
      BY <1>8, <2>3
    <3>4. ~(Cardinality(rows) >= DailyCap) /\ ~(Cardinality(LoggedBy(CallerOf[e.tab])) >= CallerCap)
      BY <3>1, <3>2, <3>3 DEF Refusal, DemoCallAssumption
    <3>5. /\ Cardinality(rows) \in Nat /\ Cardinality(LoggedBy(CallerOf[e.tab])) \in Nat
          /\ DailyCap \in Nat /\ CallerCap \in Nat
      BY <1>3, PassedAreFinite DEF DemoCallAssumption
    <3> QED BY <3>4, <3>5
  <2>4. Cardinality(At("passed")') \in Nat /\ Cardinality(At("passed")') <= n + 1
    BY <1>3, <1>4, <2>1, OneMore, PassedAreFinite
  <2>5. ASSUME NEW t \in Tabs, CallerOf[t] # CallerOf[e.tab]
        PROVE  PassedBy(CallerOf[t])' = PassedBy(CallerOf[t])
    BY <2>1, <2>5 DEF PassedBy
  <2>6. DemoTypeOK' => \A c : /\ Cardinality(PassedBy(c)') \in Nat
                              /\ Cardinality(PassedBy(c)') <= Cardinality(At("passed")')
    <3>1. SUFFICES ASSUME NEW c
                   PROVE  /\ Cardinality(PassedBy(c)') \in Nat
                          /\ Cardinality(PassedBy(c)') <= Cardinality(At("passed")')
      OBVIOUS
    <3>2. PassedBy(c)' \subseteq At("passed")'
      BY DEF PassedBy
    <3>3. IsFiniteSet(At("passed")')
      BY <1>3, <2>1, FS_AddElement, PassedAreFinite
    <3> QED BY <3>2, <3>3, FS_Subset, FS_CardinalityType
  <2>7. \A c : LoggedBy(c)' = LoggedBy(c)
    BY <1>1 DEF LoggedBy
  <2>8. /\ DailyCap \in Nat /\ CallerCap \in Nat /\ Cardinality(rows) \in Nat
        /\ \A c : Cardinality(LoggedBy(c)) \in Nat /\ Cardinality(PassedBy(c)) \in Nat
    BY <1>3, PassedAreFinite DEF DemoCallAssumption
  <2>9. ASSUME link.kind = "public"
        PROVE  /\ Cardinality(rows) + Cardinality(At("passed")') < DailyCap + crowd'
               /\ \A t \in Tabs :
                    Cardinality(LoggedBy(CallerOf[t])') + Cardinality(PassedBy(CallerOf[t])')
                      < CallerCap + crowd'
    <3>1. Cardinality(rows) + Cardinality(At("passed")') < DailyCap + crowd'
      BY <1>4, <1>6, <2>3, <2>4, <2>8, <2>9
    <3>2. ASSUME NEW t \in Tabs
          PROVE  Cardinality(LoggedBy(CallerOf[t])') + Cardinality(PassedBy(CallerOf[t])')
                   < CallerCap + crowd'
      <4>1. CASE CallerOf[t] = CallerOf[e.tab]
        <5>1. /\ Cardinality(LoggedBy(CallerOf[t])) < CallerCap
              /\ Cardinality(LoggedBy(CallerOf[t])) \in Nat
              /\ LoggedBy(CallerOf[t])' = LoggedBy(CallerOf[t])
          BY <2>3, <2>7, <2>8, <2>9, <4>1
        <5>2. /\ Cardinality(PassedBy(CallerOf[t])') \in Nat
              /\ Cardinality(PassedBy(CallerOf[t])') <= n + 1
          BY <2>2, <2>4, <2>6, <1>4
        <5> QED BY <1>4, <1>6, <2>8, <5>1, <5>2
      <4>2. CASE CallerOf[t] # CallerOf[e.tab]
        <5>1. Cardinality(LoggedBy(CallerOf[t])) + Cardinality(PassedBy(CallerOf[t]))
                < CallerCap + crowd
          BY <1>3, <2>9 DEF LinkInv
        <5>2. PassedBy(CallerOf[t])' = PassedBy(CallerOf[t])
              /\ LoggedBy(CallerOf[t])' = LoggedBy(CallerOf[t])
          BY <2>5, <2>7, <4>2
        <5> QED BY <1>5, <1>6, <2>8, <5>1, <5>2
      <4> QED BY <4>1, <4>2
    <3> QED BY <3>1, <3>2
  <2>10. LinkInv'
    <3>1. crowd' > 0
      BY <1>4, <1>6
    <3> QED BY <1>1, <1>3, <2>9, <3>1 DEF LinkInv, isReusable
  <2> QED BY <1>2, <2>2, <2>10, TabsStay DEF DemoInv
<1> QED BY <1>7, <1>8 DEF Admit

LEMMA RecordKeeps ==
  ASSUME DemoInv, NEW e \in events, Record(e)
  PROVE  DemoInv'
<1>1. e.at = "passed" /\ UNCHANGED <<link, limits, crowd>> /\ events' = events \ {e}
  BY DEF Record
<1>2. UNCHANGED <<tab, sdk, sent>>
  BY DEF Record
<1>3. DemoTypeOK /\ LinkInv /\ e \in EventRow
  BY DEF DemoInv, DemoTypeOK
<1>4. PICK r \in LoggedRow : rows' = rows \cup {r} /\ r.tab = e.tab
  <2>1. PICK r : r = [tab |-> e.tab, n |-> e.n]
    OBVIOUS
  <2>2. r \in LoggedRow /\ r.tab = e.tab
    BY <1>3, <2>1 DEF LoggedRow, EventRow
  <2> QED BY <2>1, <2>2 DEF Record
<1>5. /\ IsFiniteSet(rows) /\ IsFiniteSet(rows') /\ Cardinality(rows') \in Nat
      /\ Cardinality(rows) \in Nat /\ Cardinality(rows') <= Cardinality(rows) + 1
  BY <1>3, <1>4, OneMore DEF DemoTypeOK
<1>6. DemoTypeOK'
  <2>1. IsFiniteSet(events') /\ events' \subseteq events
    BY <1>1, <1>3, FS_Subset DEF DemoTypeOK
  <2> QED BY <1>1, <1>2, <1>4, <1>5, <2>1, TabsStay DEF DemoInv, DemoTypeOK
<1>7. e \in At("passed") /\ At("passed")' = At("passed") \ {e}
  BY <1>1 DEF At
<1>8. /\ Cardinality(At("passed")') = Cardinality(At("passed")) - 1
      /\ Cardinality(At("passed")) \in Nat
  BY <1>3, <1>7, OneLess, PassedAreFinite
<1>9. /\ DailyCap \in Nat /\ CallerCap \in Nat /\ crowd \in Nat
      /\ \A c : Cardinality(LoggedBy(c)) \in Nat /\ Cardinality(PassedBy(c)) \in Nat
  BY <1>3, PassedAreFinite DEF DemoCallAssumption, DemoTypeOK
<1>10. ASSUME link.kind = "public"
       PROVE  /\ Cardinality(rows') + Cardinality(At("passed")') < DailyCap + crowd
              /\ \A t \in Tabs :
                   Cardinality(LoggedBy(CallerOf[t])') + Cardinality(PassedBy(CallerOf[t])')
                     < CallerCap + crowd
  <2>1. Cardinality(rows) + Cardinality(At("passed")) < DailyCap + crowd
    BY <1>3, <1>10 DEF LinkInv
  <2>2. Cardinality(rows') + Cardinality(At("passed")') < DailyCap + crowd
    BY <1>5, <1>8, <1>9, <2>1
  <2>3. ASSUME NEW t \in Tabs
        PROVE  Cardinality(LoggedBy(CallerOf[t])') + Cardinality(PassedBy(CallerOf[t])')
                 < CallerCap + crowd
    <3>1. Cardinality(LoggedBy(CallerOf[t])) + Cardinality(PassedBy(CallerOf[t]))
            < CallerCap + crowd
      BY <1>3, <1>10 DEF LinkInv
    <3>2. CASE CallerOf[t] = CallerOf[e.tab]
      <4>1. PassedBy(CallerOf[t])' = PassedBy(CallerOf[t]) \ {e} /\ e \in PassedBy(CallerOf[t])
        BY <1>7, <3>2 DEF PassedBy
      <4>2. Cardinality(PassedBy(CallerOf[t])') = Cardinality(PassedBy(CallerOf[t])) - 1
        BY <1>3, <4>1, OneLess, PassedAreFinite
      <4>3. LoggedBy(CallerOf[t])' \subseteq LoggedBy(CallerOf[t]) \cup {r}
        BY <1>4 DEF LoggedBy
      <4>4. /\ Cardinality(LoggedBy(CallerOf[t])') \in Nat
            /\ Cardinality(LoggedBy(CallerOf[t])') <= Cardinality(LoggedBy(CallerOf[t])) + 1
        BY <1>3, <4>3, OneMore, PassedAreFinite
      <4> QED BY <1>9, <3>1, <4>2, <4>4
    <3>3. CASE CallerOf[t] # CallerOf[e.tab]
      <4>1. PassedBy(CallerOf[t])' = PassedBy(CallerOf[t])
        BY <1>7, <3>3 DEF PassedBy
      <4>2. LoggedBy(CallerOf[t])' = LoggedBy(CallerOf[t])
        BY <1>4, <3>3 DEF LoggedBy
      <4> QED BY <3>1, <4>1, <4>2
    <3> QED BY <3>2, <3>3
  <2> QED BY <2>2, <2>3
<1>11. LinkInv'
  BY <1>1, <1>3, <1>7, <1>10 DEF LinkInv, isReusable
<1> QED BY <1>2, <1>6, <1>11, TabsStay DEF DemoInv

LEMMA ChangeLimitsKeeps ==
  ASSUME DemoInv, ChangeLimits
  PROVE  DemoInv'
<1>1. limits' \in Lengths /\ UNCHANGED <<link, events, rows, crowd>>
  BY DEF ChangeLimits
<1>2. UNCHANGED <<tab, sdk, sent>>
  BY DEF ChangeLimits
<1>3. DemoTypeOK'
  BY <1>1, <1>2, TabsStay DEF DemoInv, DemoTypeOK
<1>4. crowd' \in Nat /\ crowd' >= crowd /\ At("passed")' \subseteq At("passed")
  BY <1>1 DEF DemoInv, DemoTypeOK, At
<1>5. LinkInv'
  BY <1>1, <1>4, FewerKeep
<1> QED BY <1>2, <1>3, <1>5, TabsStay DEF DemoInv

-----------------------------------------------------------------------------
(* The theorems.                                                           *)

LEMMA DemoInit == DInit => DemoInv
<1> SUFFICES ASSUME DInit PROVE DemoInv
  OBVIOUS
<1>1. link \in [kind : Kinds, used : {Null}] /\ link.used = Null
  BY DEF DInit
<1>2. events = {} /\ rows = {} /\ crowd = 1 /\ limits \in Lengths
  BY LongestIsALength DEF DInit
<1>3. /\ tab = [t \in Tabs |-> Blank]
      /\ sdk = [t \in Tabs |-> [line |-> "none", told |-> Null]]
      /\ sent = [t \in Tabs |-> [started |-> 0, ended |-> 0]]
  BY DEF DInit
<1>4. DemoTypeOK
  <2>1. tab \in [Tabs -> TabRow]
    BY <1>3, BlankRow
  <2>2. sdk \in [Tabs -> SdkRow]
    BY <1>3 DEF SdkRow, Lines
  <2>3. sent \in [Tabs -> SentRow]
    BY <1>3 DEF SentRow
  <2>4. link \in [kind : Kinds, used : {Null} \cup (Tabs \X Nat)]
    BY <1>1
  <2> QED BY <1>2, <2>1, <2>2, <2>3, <2>4, FS_EmptySet DEF DemoTypeOK
<1>5. TabsInv
  <2>1. SUFFICES ASSUME NEW t \in Tabs PROVE PanelInv(tab[t], sdk[t], sent[t])
    BY DEF TabsInv
  <2>2. tab[t] = Blank /\ sdk[t].line = "none" /\ sent[t].started = 0 /\ sent[t].ended = 0
    BY <1>3
  <2>3. ~Blank.active
    BY DEF Blank
  <2> QED BY <2>2, <2>3, BlankRow DEF PanelInv, Busy
<1>6. LinkInv
  <2>1. At("passed") = {} /\ \A c : PassedBy(c) = {} /\ LoggedBy(c) = {}
    BY <1>2 DEF At, PassedBy, LoggedBy
  <2>2. Cardinality({}) = 0 /\ DailyCap \in Nat /\ CallerCap \in Nat
    BY FS_EmptySet DEF DemoCallAssumption
  <2>3. Cardinality(rows) = 0 /\ Cardinality(At("passed")) = 0
    BY <1>2, <2>1, <2>2
  <2>4. \A t \in Tabs : /\ Cardinality(LoggedBy(CallerOf[t])) = 0
                        /\ Cardinality(PassedBy(CallerOf[t])) = 0
    BY <2>1, <2>2
  <2> QED BY <1>1, <1>2, <2>1, <2>2, <2>3, <2>4 DEF LinkInv
<1> QED BY <1>4, <1>5, <1>6 DEF DemoInv

LEMMA DemoNext == DemoInv /\ [DNext]_dvars => DemoInv'
<1> SUFFICES ASSUME DemoInv, [DNext]_dvars PROVE DemoInv'
  OBVIOUS
<1>1. CASE UNCHANGED dvars
  <2>1. DemoTypeOK'
    BY <1>1 DEF dvars, DemoInv, DemoTypeOK
  <2>2. TabsInv'
    BY <1>1 DEF dvars, DemoInv, TabsInv
  <2>3. crowd' \in Nat /\ crowd' >= crowd /\ At("passed")' \subseteq At("passed")
    BY <1>1 DEF dvars, DemoInv, DemoTypeOK, At
  <2>4. LinkInv'
    BY <1>1, <2>3, FewerKeep DEF dvars
  <2> QED BY <2>1, <2>2, <2>4 DEF DemoInv
<1>2. ASSUME NEW t \in Tabs, Load(t) PROVE DemoInv'
  BY <1>2, LoadKeeps
<1>3. ASSUME NEW t \in Tabs, Click(t) PROVE DemoInv'
  BY <1>3, ClickKeeps
<1>4. ASSUME NEW t \in Tabs, NEW industry \in Industries, Pick(t, industry) PROVE DemoInv'
  BY <1>4, PickKeeps
<1>5. ASSUME NEW t \in Tabs, NEW k \in 1 .. MaxClicks, Attempt(t, k) PROVE DemoInv'
  BY <1>5, MicAnswersKeeps, GateAnswersKeeps, PassGateKeeps DEF Attempt
<1>6. ASSUME NEW t \in Tabs, ConnectTimeout(t) PROVE DemoInv'
  BY <1>6, ConnectTimeoutKeeps
<1>7. ASSUME NEW t \in Tabs, Reports(t) PROVE DemoInv'
  BY <1>7, CallStartKeeps, StartThrowsKeeps, ErrorKeeps DEF Reports
<1>8. ASSUME NEW t \in Tabs, ReportsEnd(t) PROVE DemoInv'
  BY <1>8, ReportsEndKeeps
<1>9. ASSUME NEW t \in Tabs, CallEnd(t) PROVE DemoInv'
  BY <1>9, CallEndKeeps
<1>10. ASSUME NEW t \in Tabs, Tick(t) \/ Stop(t) PROVE DemoInv'
  BY <1>10, TickKeeps, StopKeeps
<1>11. ASSUME NEW t \in Tabs, PageHide(t) \/ Close(t) PROVE DemoInv'
  BY <1>11, PageHideKeeps, CloseKeeps
<1>12. ASSUME NEW e \in events, Claim(e) \/ Admit(e) PROVE DemoInv'
  BY <1>12, ClaimKeeps, AdmitKeeps
<1>13. ASSUME NEW e \in events, Record(e) \/ Lose(e) PROVE DemoInv'
  BY <1>13, RecordKeeps, LoseKeeps
<1>14. CASE ChangeLimits
  BY <1>14, ChangeLimitsKeeps
<1> QED
  BY <1>1, <1>2, <1>3, <1>4, <1>5, <1>6, <1>7, <1>8, <1>9, <1>10, <1>11, <1>12, <1>13, <1>14
  DEF DNext

\* The inductive invariant of the demo page and its link (DemoPanel.tsx and the
\* routes under api/demo/[slug]) holds in every state, for any number of tabs,
\* callers and clicks and any limits.
THEOREM DemoInvariance == DSpec => []DemoInv
<1>1. DSpec => DInit /\ [][DNext]_dvars
  BY DEF DSpec
<1> QED BY <1>1, DemoInit, DemoNext, PTL

LEMMA DemoIsTyped == DemoInv => DTypeOK
<1> SUFFICES ASSUME DemoInv PROVE DTypeOK
  OBVIOUS
<1>1. ASSUME NEW t \in Tabs
      PROVE  /\ tab[t].phase \in Phases
             /\ \A k \in 1 .. MaxClicks :
                  /\ tab[t].try[k].step \in {"none", "mic", "gate"}
                  /\ tab[t].try[k].step # "none" => k <= tab[t].clicks
             /\ tab[t].cap \in 0 .. FirstLength /\ tab[t].left \in 0 .. FirstLength
             /\ sdk[t].line \in {"none", "rejected", "idle", "dialling", "up", "stopping"}
  <2>1. tab[t] \in TabRow /\ sdk[t] \in SdkRow /\ PanelInv(tab[t], sdk[t], sent[t])
    BY RowsOfTab
  <2>2. tab[t].phase \in Phases /\ tab[t].cap \in Clock /\ tab[t].left \in Clock
    BY <2>1 DEF TabRow
  <2>3. sdk[t].line \in {"none", "rejected", "idle", "dialling", "up", "stopping"}
    BY <2>1 DEF SdkRow, Lines
  <2>4. \A k \in 1 .. MaxClicks : tab[t].try[k].step \in {"none", "mic", "gate"}
    BY <2>1 DEF TabRow, TryRow
  <2>5. \A k \in 1 .. MaxClicks : tab[t].try[k].step # "none" => k <= tab[t].clicks
    BY <2>1 DEF PanelInv
  <2> QED BY <2>2, <2>3, <2>4, <2>5 DEF Clock
<1>2. /\ link.kind \in Kinds /\ link.used \in {Null} \cup (Tabs \X Nat) /\ limits \in Lengths
      /\ events \subseteq [tab : Tabs, n : Nat, at : {"sent", "passed"}]
      /\ rows \subseteq [tab : Tabs, n : Nat]
  BY DEF DemoInv, DemoTypeOK, EventRow, LoggedRow
<1> QED BY <1>1, <1>2 DEF DTypeOK

\* Type correctness of the page: among others, no attempt waits that no click
\* began, and no countdown runs for longer than the longest length of a call.
THEOREM DemoTypeCorrect == DSpec => []DTypeOK
BY DemoInvariance, DemoIsTyped, PTL

LEMMA CallsOfInv == DemoInv => CallsAreClosed
<1> SUFFICES ASSUME DemoInv, NEW t \in Tabs
             PROVE  /\ sent[t].started = sent[t].ended + (IF tab[t].active THEN 1 ELSE 0)
                    /\ tab[t].phase = "closed" /\ tab[t].active => tab[t].clicks > 1
  BY DEF CallsAreClosed
<1> QED BY RowsOfTab DEF PanelInv

\* finishCall (DemoPanel.tsx:160-174): every call_started is followed by exactly
\* one call_ended, whoever notices the end, in whatever order the SDK's
\* callbacks, the countdown, a second attempt and the closing page come.
THEOREM CallsAreAlwaysClosed == DSpec => []CallsAreClosed
BY DemoInvariance, CallsOfInv, PTL

LEMMA LimitsOfInv == DemoInv => LinksAreLimited
<1> SUFFICES ASSUME DemoInv PROVE LinksAreLimited
  OBVIOUS
<1>1. LinkInv /\ DemoTypeOK
  BY DEF DemoInv
<1>2. ASSUME link.kind = "public", NEW t \in Tabs
      PROVE  Cardinality({row \in rows : CallerOf[row.tab] = CallerOf[t]}) < CallerCap + crowd
  <2>1. {row \in rows : CallerOf[row.tab] = CallerOf[t]} = LoggedBy(CallerOf[t])
    BY DEF LoggedBy
  <2>2. Cardinality(LoggedBy(CallerOf[t])) + Cardinality(PassedBy(CallerOf[t]))
          < CallerCap + crowd
    BY <1>1, <1>2 DEF LinkInv
  <2>3. /\ Cardinality(LoggedBy(CallerOf[t])) \in Nat
        /\ Cardinality(PassedBy(CallerOf[t])) \in Nat /\ CallerCap \in Nat /\ crowd \in Nat
    BY <1>1, PassedAreFinite DEF DemoTypeOK, DemoCallAssumption
  <2>4. Cardinality(LoggedBy(CallerOf[t])) < CallerCap + crowd
    BY <2>2, <2>3
  <2> QED BY <2>4 DEF LoggedBy
<1> QED BY <1>1, <1>2 DEF LinkInv, LinksAreLimited

\* event/route.ts:88-108: a call in the funnel has spent its personal link, the
\* other links are never spent, and the gate of the public line is overrun by no
\* more than the requests that were between its count and their insert at once.
THEOREM LinksAreAlwaysLimited == DSpec => []LinksAreLimited
BY DemoInvariance, LimitsOfInv, PTL
=============================================================================
