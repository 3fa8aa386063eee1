----------------------------- MODULE StatsCache -----------------------------
(***************************************************************************)
(* The one-minute cache in front of the dashboard's statistics, for one    *)
(* organization and one set of the other key parts (period, local day,     *)
(* plan): handleMetrics and cachedStats against the handlers that change   *)
(* calls and then bump stats_version.                                      *)
(*                                                                         *)
(* The cache belongs to a Cloudflare data centre, entries expire or are    *)
(* evicted at any time, and a write is handed to waitUntil: it lands after *)
(* the answer was sent, however late.  Every statement and every call of   *)
(* the Cache API is one action.                                            *)
(***************************************************************************)
EXTENDS Integers

CONSTANTS
    Change,         \* calls added or finished
    Request,        \* GET /api/metrics
    DataCentre,
    Queries,        \* statements buildMetrics runs one after the other
    None            \* null

ASSUME StatsCacheAssumption == Queries \in Nat /\ None \notin Nat

VARIABLES
    writer,         \* where the handler making each change is
    version,        \* organizations.stats_version
    bumpedTo,       \* the version each change's bump produced, 0 before it
    cache,          \* the entries the data centres hold
    puts,           \* cache writes handed to waitUntil
    request,        \* what the handler of each request holds in memory
    answer          \* the latest answer that was given

vars == <<writer, version, bumpedTo, cache, puts, request, answer>>

Reading == SUBSET Change
Value   == [1..Queries -> Reading]
Nothing == [q \in 1..Queries |-> {}]

(* The changes in the database, and those whose bump has happened.         *)
written   == {c \in Change : writer[c] # "new"}
announced == {c \in Change : bumpedTo[c] # 0}

(* seen counts the statements of buildMetrics that have run.               *)
RequestState ==
    [pc      : {"idle", "match", "compute"},
     at      : DataCentre,
     key     : Nat \cup {None},         \* None: do not cache
     seen    : 0..Queries,
     value   : Value,
     mustSee : Reading]                 \* history: announced when it was asked

Entry == [at : DataCentre, key : Nat, value : Value]

TypeOK ==
    /\ writer \in [Change -> {"new", "written", "done"}]
    /\ version \in Nat
    /\ bumpedTo \in [Change -> Nat]
    /\ cache \subseteq Entry
    /\ puts \subseteq Entry
    /\ request \in [Request -> RequestState]
    /\ answer \in Value

Idle(d) == [pc |-> "idle", at |-> d, key |-> None, seen |-> 0, value |-> Nothing,
            mustSee |-> {}]

Init ==
    /\ writer = [c \in Change |-> "new"]
    /\ version = 0
    /\ bumpedTo = [c \in Change |-> 0]
    /\ cache = {}
    /\ puts = {}
    /\ request \in [Request -> {Idle(d) : d \in DataCentre}]
    /\ answer = Nothing

-----------------------------------------------------------------------------
(* upsertCall, finalizeCall and handleEndCall, seen from the statistics    *)

tables  == <<writer, version, bumpedTo>>
caching == <<cache, puts>>
asking  == <<request, answer>>

Write(c) ==
    /\ writer[c] = "new"
    /\ writer' = [writer EXCEPT ![c] = "written"]
    /\ UNCHANGED <<version, bumpedTo, caching, asking>>

(* bumpStatsVersion, called after the change is written.                   *)
Bump(c) ==
    /\ writer[c] = "written"
    /\ writer' = [writer EXCEPT ![c] = "done"]
    /\ version' = version + 1
    /\ bumpedTo' = [bumpedTo EXCEPT ![c] = version + 1]
    /\ UNCHANGED <<caching, asking>>

(* It failed, or the handler died before it: the change is never announced.*)
BumpFails(c) ==
    /\ writer[c] = "written"
    /\ writer' = [writer EXCEPT ![c] = "done"]
    /\ UNCHANGED <<version, bumpedTo, caching, asking>>

-----------------------------------------------------------------------------
(* handleMetrics and cachedStats                                           *)

Now(r) == request[r].pc

(* readStatsVersion, null when the column cannot be read.                  *)
Ask(r) ==
    /\ Now(r) = "idle"
    /\ \E key \in {version, None} :
           request' = [request EXCEPT ![r] =
                          [Idle(@.at) EXCEPT !.pc = IF key = None THEN "compute" ELSE "match",
                                             !.key = key,
                                             !.mustSee = announced]]
    /\ UNCHANGED <<tables, caching, answer>>

Answered(r, value) ==
    /\ request' = [request EXCEPT ![r] = Idle(@.at)]
    /\ answer' = value

\* Mutant: the key leaves the version out.
MatchAnyVersion(r) ==
    LET found == {e \in cache : e.at = request[r].at} IN
    /\ Now(r) = "match"
    /\ \/ \E e \in found : Answered(r, e.value)
       \/ /\ found = {}
          /\ request' = [request EXCEPT ![r].pc = "compute"]
          /\ UNCHANGED answer
    /\ UNCHANGED <<tables, caching>>

(* cache.match: a hit is the answer; a miss or a failure means compute.    *)
Match(r) ==
    LET found == {e \in cache : e.at = request[r].at /\ e.key = request[r].key} IN
    /\ Now(r) = "match"
    /\ \/ \E e \in found : Answered(r, e.value)
       \/ /\ request' = [request EXCEPT ![r].pc = "compute"]
          /\ UNCHANGED answer
    /\ UNCHANGED <<tables, caching>>

(* One statement of buildMetrics.                                          *)
Query(r) ==
    /\ Now(r) = "compute"
    /\ request[r].seen < Queries
    /\ request' = [request EXCEPT ![r].seen = @ + 1,
                                  ![r].value[request[r].seen + 1] = written]
    /\ UNCHANGED <<tables, caching, answer>>

(* The answer is sent; its cache write, if it has a key, comes later.      *)
Finish(r) ==
    /\ Now(r) = "compute"
    /\ request[r].seen = Queries
    /\ Answered(r, request[r].value)
    /\ puts' = IF request[r].key = None THEN puts
               ELSE puts \cup {[at |-> request[r].at, key |-> request[r].key,
                                value |-> request[r].value]}
    /\ UNCHANGED <<tables, cache>>

(* A statement throws: the request ends in a 500 and nothing is cached.    *)
QueryFails(r) ==
    /\ Now(r) = "compute"
    /\ request' = [request EXCEPT ![r] = Idle(@.at)]
    /\ UNCHANGED <<tables, caching, answer>>

-----------------------------------------------------------------------------
(* The Cache API                                                           *)

Put(p) ==
    /\ p \in puts
    /\ puts' = puts \ {p}
    /\ cache' = {e \in cache : ~(e.at = p.at /\ e.key = p.key)} \cup {p}
    /\ UNCHANGED <<tables, asking>>

PutFails(p) ==
    /\ p \in puts
    /\ puts' = puts \ {p}
    /\ UNCHANGED <<tables, cache, asking>>

Expire(e) ==
    /\ e \in cache
    /\ cache' = cache \ {e}
    /\ UNCHANGED <<tables, puts, asking>>

Handle(r) == Match(r) \/ Query(r) \/ Finish(r)

Next ==
    \/ \E c \in Change : Write(c) \/ Bump(c) \/ BumpFails(c)
    \/ \E r \in Request : Ask(r) \/ Handle(r) \/ QueryFails(r)
    \/ \E p \in puts : Put(p) \/ PutFails(p)
    \/ \E e \in cache : Expire(e)

Spec == Init /\ [][Next]_vars
-----------------------------------------------------------------------------
(* What the cache promises                                                 *)

BumpedBy(v) == {c \in Change : bumpedTo[c] \in 1..v}

(* An entry, or a write on its way, kept under version v contains every    *)
(* change announced by version v in each of its readings, however late it  *)
(* lands and whatever happened meanwhile (statsCache.ts:11-16).            *)
EntriesAreCurrent ==
    \A e \in cache \cup puts, q \in 1..Queries : BumpedBy(e.key) \subseteq e.value[q]

(* The cache implements Statistics: an answer, cached or not, is never     *)
(* older than what had been announced when it was asked for                *)
(* (metrics.ts:38-41).                                                     *)
Abstract == INSTANCE Statistics WITH
    asked   <- {r \in Request : request[r].pc # "idle"},
    mustSee <- [r \in Request |-> request[r].mustSee]

ImplementsStatistics == Abstract!Spec
=============================================================================
