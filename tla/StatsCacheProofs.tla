-------------------------- MODULE StatsCacheProofs --------------------------
(***************************************************************************)
(* Proofs about StatsCache for any changes, requests and data centres, and *)
(* statistics of any number of statements.                                 *)
(***************************************************************************)
EXTENDS StatsCache, TLAPS

USE StatsCacheAssumption

(* A bump comes after its write and never runs ahead of the version.       *)
VersionInv ==
    \A c \in Change : /\ bumpedTo[c] <= version
                      /\ bumpedTo[c] # 0 => writer[c] = "done"

(* What is kept under a version that was reached has all its changes.      *)
GoodEntry(e) ==
    /\ e.key <= version
    /\ \A q \in 1..Queries : BumpedBy(e.key) \subseteq e.value[q] /\ e.value[q] \subseteq written

(* A request looks under the version it read, which had everything that    *)
(* was announced when it asked; so do the readings it has already made.    *)
GoodRequest(s) ==
    /\ s.key # None => s.key <= version /\ s.mustSee \subseteq BumpedBy(s.key)
    /\ s.mustSee \subseteq announced
    /\ \A q \in 1..s.seen : /\ s.mustSee \subseteq s.value[q]
                            /\ s.key # None => BumpedBy(s.key) \subseteq s.value[q]
    /\ \A q \in 1..Queries : s.value[q] \subseteq written

EntryInv   == \A e \in cache \cup puts : GoodEntry(e)
RequestInv == \A r \in Request : GoodRequest(request[r])

IInv == TypeOK /\ VersionInv /\ EntryInv /\ RequestInv

LEMMA AnnouncedAreWritten ==
    ASSUME VersionInv
    PROVE  /\ announced \subseteq written
           /\ \A v \in Nat : BumpedBy(v) \subseteq announced
BY DEF VersionInv, announced, written, BumpedBy

LEMMA IdleIsGood ==
    ASSUME NEW d \in DataCentre
    PROVE  Idle(d) \in RequestState /\ GoodRequest(Idle(d))
<1>1. Nothing \in Value /\ \A q \in 1..Queries : Nothing[q] = {}
    BY DEF Nothing, Value, Reading
<1>2. Idle(d) \in RequestState
    BY <1>1 DEF Idle, RequestState, Reading
<1>3. GoodRequest(Idle(d))
    BY <1>1 DEF GoodRequest, Idle
<1>. QED
    BY <1>2, <1>3

LEMMA InitIInv == Init => IInv
<1> SUFFICES ASSUME Init PROVE IInv
    OBVIOUS
<1>1. \A r \in Request : request[r] \in RequestState /\ GoodRequest(request[r])
    BY IdleIsGood DEF Init
<1>2. TypeOK
    <2>1. request \in [Request -> RequestState]
        BY <1>1 DEF Init
    <2>. QED
        BY <2>1 DEF Init, TypeOK, Value, Reading, Nothing
<1>3. VersionInv
    <2>1. \A c \in Change : bumpedTo[c] = 0
        BY DEF Init
    <2>2. version = 0
        BY DEF Init
    <2>. QED
        BY <2>1, <2>2, 0 <= 0 DEF VersionInv
<1>. QED
    BY <1>1, <1>2, <1>3 DEF Init, IInv, EntryInv, RequestInv

-----------------------------------------------------------------------------
(* The handlers that change calls                                          *)

(* Whatever they do, no version that was reached gains a change, nothing   *)
(* written or announced is lost, and the version never goes back.          *)
TablesGrow ==
    /\ written \subseteq written'
    /\ announced \subseteq announced'
    /\ version <= version'
    /\ \A v \in Nat : v <= version =>
           \A c \in Change : bumpedTo'[c] \in 1..v <=> bumpedTo[c] \in 1..v

TablesStep == \E c \in Change : Write(c) \/ Bump(c) \/ BumpFails(c)

LEMMA WriteStep ==
    ASSUME IInv, NEW c \in Change, Write(c)
    PROVE  TypeOK' /\ VersionInv' /\ TablesGrow
<1> USE DEF Write
<1>1. TypeOK'
    BY DEF IInv, TypeOK, caching, asking
<1>2. VersionInv'
    BY DEF IInv, TypeOK, VersionInv
<1>3. TablesGrow
    BY DEF IInv, TypeOK, TablesGrow, written, announced
<1>. QED
    BY <1>1, <1>2, <1>3

LEMMA BumpStep ==
    ASSUME IInv, NEW c \in Change, Bump(c)
    PROVE  TypeOK' /\ VersionInv' /\ TablesGrow
<1> USE DEF Bump
<1>1. TypeOK'
    BY DEF IInv, TypeOK, caching, asking
<1>2. bumpedTo[c] = 0
    BY DEF IInv, TypeOK, VersionInv
<1>3. VersionInv'
    BY DEF IInv, TypeOK, VersionInv
<1>4. TablesGrow
    <2>1. written \subseteq written' /\ announced \subseteq announced' /\ version <= version'
        BY DEF IInv, TypeOK, written, announced
    <2>2. ASSUME NEW v \in Nat, v <= version, NEW d \in Change
          PROVE  bumpedTo'[d] \in 1..v <=> bumpedTo[d] \in 1..v
        BY <1>2, <2>2 DEF IInv, TypeOK
    <2>. QED
        BY <2>1, <2>2 DEF TablesGrow
<1>. QED
    BY <1>1, <1>3, <1>4

LEMMA BumpFailsStep ==
    ASSUME IInv, NEW c \in Change, BumpFails(c)
    PROVE  TypeOK' /\ VersionInv' /\ TablesGrow
<1> USE DEF BumpFails
<1>1. TypeOK'
    BY DEF IInv, TypeOK, caching, asking
<1>2. VersionInv'
    BY DEF IInv, TypeOK, VersionInv
<1>3. TablesGrow
    BY DEF IInv, TypeOK, TablesGrow, written, announced
<1>. QED
    BY <1>1, <1>2, <1>3

(* So the requests and the entries stay as good as they were.              *)
LEMMA GrowingKeeps ==
    ASSUME IInv, TypeOK', TablesGrow, UNCHANGED <<caching, asking>>
    PROVE  EntryInv' /\ RequestInv'
<1>1. ASSUME NEW e \in Entry, GoodEntry(e)
      PROVE  GoodEntry(e)'
    <2>1. e.key \in Nat /\ e.key <= version'
        <3>1. e.key \in Nat /\ version \in Nat /\ version' \in Nat
            BY DEF Entry, IInv, TypeOK
        <3>. QED
            BY <1>1, <3>1 DEF GoodEntry, TablesGrow
    <2>2. BumpedBy(e.key)' = BumpedBy(e.key)
        BY <1>1, <2>1 DEF BumpedBy, GoodEntry, TablesGrow
    <2>. QED
        BY <1>1, <2>1, <2>2 DEF GoodEntry, TablesGrow
<1>2. ASSUME NEW s \in RequestState, GoodRequest(s)
      PROVE  GoodRequest(s)'
    <2>1. s.key # None => s.key \in Nat /\ s.key <= version'
        <3>1. /\ s.key # None => s.key \in Nat
              /\ version \in Nat /\ version' \in Nat
            BY DEF RequestState, IInv, TypeOK
        <3>. QED
            BY <1>2, <3>1 DEF GoodRequest, TablesGrow
    <2>2. s.key # None => BumpedBy(s.key)' = BumpedBy(s.key)
        BY <1>2, <2>1 DEF BumpedBy, GoodRequest, TablesGrow
    <2>. QED
        BY <1>2, <2>1, <2>2 DEF GoodRequest, TablesGrow
<1>3. EntryInv'
    BY <1>1 DEF EntryInv, IInv, TypeOK, caching
<1>4. RequestInv'
    BY <1>2 DEF RequestInv, IInv, TypeOK, asking
<1>. QED
    BY <1>3, <1>4

LEMMA TablesStepKeeps == IInv /\ TablesStep => IInv'
<1> SUFFICES ASSUME IInv, NEW c \in Change, Write(c) \/ Bump(c) \/ BumpFails(c)
             PROVE  IInv'
    BY DEF TablesStep
<1>1. UNCHANGED <<caching, asking>>
    BY DEF Write, Bump, BumpFails
<1>2. TypeOK' /\ VersionInv' /\ TablesGrow
    BY WriteStep, BumpStep, BumpFailsStep
<1>. QED
    BY <1>1, <1>2, GrowingKeeps DEF IInv

-----------------------------------------------------------------------------
(* The requests                                                            *)

(* What is left to show of a step that leaves the database alone.          *)
LEMMA TablesUnchanged ==
    ASSUME IInv, UNCHANGED tables
    PROVE  /\ VersionInv'
           /\ \A e : GoodEntry(e)' <=> GoodEntry(e)
           /\ \A s : GoodRequest(s)' <=> GoodRequest(s)
           /\ version' \in Nat
BY DEF tables, IInv, TypeOK, VersionInv, GoodEntry, GoodRequest, BumpedBy, written, announced

LEMMA RequestStep ==
    ASSUME IInv, UNCHANGED <<tables, caching>>, answer' \in Value,
           NEW r \in Request, NEW s \in RequestState, GoodRequest(s),
           request' = [request EXCEPT ![r] = s]
    PROVE  IInv'
<1>1. TypeOK'
    BY DEF IInv, TypeOK, tables, caching
<1>2. EntryInv'
    BY TablesUnchanged DEF IInv, EntryInv, caching
<1>3. RequestInv'
    BY TablesUnchanged DEF IInv, RequestInv, TypeOK
<1>. QED
    BY <1>1, <1>2, <1>3, TablesUnchanged DEF IInv

LEMMA AskKeeps ==
    ASSUME IInv, NEW r \in Request, Ask(r)
    PROVE  IInv'
<1> PICK key \in {version, None} :
        request' = [request EXCEPT ![r] =
                       [Idle(@.at) EXCEPT !.pc = IF key = None THEN "compute" ELSE "match",
                                          !.key = key,
                                          !.mustSee = announced]]
    BY DEF Ask
<1> DEFINE s == [Idle(request[r].at) EXCEPT
                    !.pc = IF key = None THEN "compute" ELSE "match",
                    !.key = key, !.mustSee = announced]
<1>1. request[r].at \in DataCentre /\ Nothing \in Value /\ \A q \in 1..Queries : Nothing[q] = {}
    BY DEF IInv, TypeOK, RequestState, Nothing, Value, Reading
<1>2. version \in Nat /\ announced \subseteq Change
    BY DEF IInv, TypeOK, announced
<1>3. s \in RequestState
    <2> DEFINE pc == IF key = None THEN "compute" ELSE "match"
    <2>1. key \in Nat \cup {None} /\ announced \in Reading /\ pc \in {"match", "compute"}
        BY <1>2 DEF Reading
    <2>2. Idle(request[r].at) \in RequestState
        BY <1>1, IdleIsGood
    <2>3. [Idle(request[r].at) EXCEPT !.pc = pc, !.key = key, !.mustSee = announced]
              \in RequestState
        <3>. HIDE DEF pc
        <3>. QED
            BY <2>1, <2>2 DEF RequestState
    <2>. QED
        BY <2>3
<1>4. s.key = key /\ s.mustSee = announced /\ s.seen = 0 /\ s.value = Nothing
    BY DEF Idle
<1>5. announced \subseteq BumpedBy(version)
    BY <1>2 DEF IInv, TypeOK, VersionInv, announced, BumpedBy
<1>6. GoodRequest(s)
    BY <1>1, <1>2, <1>4, <1>5 DEF GoodRequest
<1>. QED
    BY <1>3, <1>6, RequestStep DEF Ask, IInv, TypeOK

(* A request that is answered or fails holds nothing any more.             *)
LEMMA ForgottenKeeps ==
    ASSUME IInv, NEW r \in Request, UNCHANGED <<tables, caching>>, answer' \in Value,
           request' = [request EXCEPT ![r] = Idle(@.at)]
    PROVE  IInv'
<1>1. request[r].at \in DataCentre
    BY DEF IInv, TypeOK, RequestState
<1>. QED
    BY <1>1, IdleIsGood, RequestStep

LEMMA MatchKeeps ==
    ASSUME IInv, NEW r \in Request, Match(r)
    PROVE  IInv'
<1>1. UNCHANGED <<tables, caching>>
    BY DEF Match
<1>2. ASSUME NEW e \in cache, Answered(r, e.value)
      PROVE  IInv'
    <2>1. answer' \in Value
        BY <1>2 DEF Answered, IInv, TypeOK, Entry
    <2>. QED
        BY <1>1, <1>2, <2>1, ForgottenKeeps DEF Answered
<1>3. ASSUME request' = [request EXCEPT ![r].pc = "compute"], UNCHANGED answer
      PROVE  IInv'
    <2> DEFINE s == [request[r] EXCEPT !.pc = "compute"]
    <2>1. request[r] \in RequestState /\ GoodRequest(request[r])
        BY DEF IInv, TypeOK, RequestInv
    <2>2. s \in RequestState
        BY <2>1 DEF RequestState
    <2>3. GoodRequest(s)
        BY <2>1 DEF GoodRequest, RequestState
    <2>4. request' = [request EXCEPT ![r] = s]
        BY <1>3
    <2>. QED
        BY <1>1, <1>3, <2>2, <2>3, <2>4, RequestStep DEF IInv, TypeOK
<1>. QED
    BY <1>2, <1>3 DEF Match

LEMMA QueryKeeps ==
    ASSUME IInv, NEW r \in Request, Query(r)
    PROVE  IInv'
<1> DEFINE n == request[r].seen + 1
           s == [request[r] EXCEPT !.seen = n, !.value = [@ EXCEPT ![n] = written]]
<1>1. request[r] \in RequestState /\ GoodRequest(request[r])
    BY DEF IInv, TypeOK, RequestInv
<1>2. request' = [request EXCEPT ![r] = s]
    BY DEF Query
<1>3. n \in 1..Queries /\ written \in Reading
    BY <1>1 DEF Query, RequestState, written, Reading
<1>4. s \in RequestState
    <2>1. [request[r].value EXCEPT ![n] = written] \in Value
        BY <1>1, <1>3 DEF RequestState, Value
    <2>2. n \in 0..Queries
        BY <1>3
    <2>. HIDE DEF n
    <2>. QED
        BY <1>1, <2>1, <2>2 DEF RequestState
<1>5. /\ s.key = request[r].key /\ s.mustSee = request[r].mustSee /\ s.seen = n
      /\ s.value[n] = written
      /\ \A q \in 1..Queries : q # n => s.value[q] = request[r].value[q]
    <2>1. request[r].value \in [1..Queries -> Reading] /\ s.value = [request[r].value EXCEPT ![n] = written]
        BY <1>1 DEF RequestState, Value
    <2>2. s.key = request[r].key /\ s.mustSee = request[r].mustSee /\ s.seen = n
        BY <1>1 DEF RequestState
    <2>. HIDE DEF s
    <2>. QED
        BY <1>3, <2>1, <2>2
<1>6. s.mustSee \subseteq written /\ (s.key # None => BumpedBy(s.key) \subseteq written)
    BY <1>4, <1>5, <1>1, AnnouncedAreWritten DEF GoodRequest, RequestState, IInv
<1>7. GoodRequest(s)
    <2>1. ASSUME NEW q \in 1..s.seen
          PROVE  /\ s.mustSee \subseteq s.value[q]
                 /\ s.key # None => BumpedBy(s.key) \subseteq s.value[q]
        <3>1. CASE q = n
            BY <3>1, <1>5, <1>6
        <3>2. CASE q # n
            <4>1. q \in 1..request[r].seen /\ q \in 1..Queries
                BY <3>2, <1>3, <1>5, <1>1 DEF RequestState
            <4>. QED
                BY <3>2, <4>1, <1>1, <1>5 DEF GoodRequest
        <3>. QED
            BY <3>1, <3>2
    <2>2. \A q \in 1..Queries : s.value[q] \subseteq written
        BY <1>1, <1>5 DEF GoodRequest
    <2>3. /\ s.key # None => s.key <= version /\ s.mustSee \subseteq BumpedBy(s.key)
          /\ s.mustSee \subseteq announced
        BY <1>1, <1>5 DEF GoodRequest
    <2>. QED
        BY <2>1, <2>2, <2>3 DEF GoodRequest
<1>. QED
    BY <1>2, <1>4, <1>7, RequestStep DEF Query, IInv, TypeOK

LEMMA FinishKeeps ==
    ASSUME IInv, NEW r \in Request, Finish(r)
    PROVE  IInv'
<1> DEFINE e == [at |-> request[r].at, key |-> request[r].key, value |-> request[r].value]
<1>1. request[r] \in RequestState /\ GoodRequest(request[r]) /\ request[r].seen = Queries
    BY DEF IInv, TypeOK, RequestInv, Finish
<1>2. Idle(request[r].at) \in RequestState /\ GoodRequest(Idle(request[r].at))
    BY <1>1, IdleIsGood DEF RequestState
<1>3. ASSUME request[r].key # None
      PROVE  e \in Entry /\ GoodEntry(e)
    BY <1>1, <1>3 DEF RequestState, Entry, GoodEntry, GoodRequest
<1>4. puts' \subseteq Entry /\ \A p \in puts' : p \in puts \/ (p = e /\ request[r].key # None)
    BY <1>3 DEF Finish, IInv, TypeOK
<1>5. /\ request' = [request EXCEPT ![r] = Idle(@.at)]
      /\ answer' = request[r].value
      /\ UNCHANGED <<tables, cache>>
    BY DEF Finish, Answered
<1>6. TypeOK'
    <2>1. request' \in [Request -> RequestState]
        BY <1>2, <1>5 DEF IInv, TypeOK
    <2>2. answer' \in Value
        BY <1>1, <1>5 DEF RequestState
    <2>. QED
        BY <1>4, <1>5, <2>1, <2>2 DEF IInv, TypeOK, tables
<1>7. VersionInv' /\ (\A x : GoodEntry(x)' <=> GoodEntry(x))
                  /\ (\A x : GoodRequest(x)' <=> GoodRequest(x))
    BY <1>5, TablesUnchanged
<1>8. EntryInv'
    BY <1>3, <1>4, <1>5, <1>7 DEF EntryInv, IInv
<1>9. RequestInv'
    BY <1>2, <1>5, <1>7 DEF RequestInv, IInv, TypeOK
<1>. QED
    BY <1>6, <1>7, <1>8, <1>9 DEF IInv

LEMMA QueryFailsKeeps ==
    ASSUME IInv, NEW r \in Request, QueryFails(r)
    PROVE  IInv'
BY ForgottenKeeps DEF QueryFails, IInv, TypeOK

(* The Cache API only moves and drops entries.                             *)
CacheStep == (\E p \in puts : Put(p) \/ PutFails(p)) \/ (\E e \in cache : Expire(e))

LEMMA CacheStepKeeps == IInv /\ CacheStep => IInv'
<1> SUFFICES ASSUME IInv, CacheStep PROVE IInv'
    OBVIOUS
<1>1. UNCHANGED <<tables, asking>> /\ cache' \cup puts' \subseteq cache \cup puts
    BY DEF CacheStep, Put, PutFails, Expire
<1>2. TypeOK'
    BY <1>1 DEF IInv, TypeOK, tables, asking
<1>3. EntryInv' /\ RequestInv' /\ VersionInv'
    BY <1>1, TablesUnchanged DEF IInv, EntryInv, RequestInv, asking
<1>. QED
    BY <1>2, <1>3 DEF IInv

-----------------------------------------------------------------------------
LEMMA NextKeeps == IInv /\ [Next]_vars => IInv'
<1> SUFFICES ASSUME IInv, [Next]_vars PROVE IInv'
    OBVIOUS
<1>1. CASE TablesStep
    BY <1>1, TablesStepKeeps
<1>2. ASSUME NEW r \in Request, Ask(r) \/ Handle(r) \/ QueryFails(r)
      PROVE  IInv'
    BY <1>2, AskKeeps, MatchKeeps, QueryKeeps, FinishKeeps, QueryFailsKeeps DEF Handle
<1>3. CASE CacheStep
    BY <1>3, CacheStepKeeps
<1>4. CASE UNCHANGED vars
    <2>1. UNCHANGED <<tables, caching, request, answer>>
        BY <1>4 DEF vars, tables, caching
    <2>2. TypeOK'
        BY <2>1 DEF IInv, TypeOK, tables, caching
    <2>3. EntryInv' /\ RequestInv' /\ VersionInv'
        BY <2>1, TablesUnchanged DEF IInv, EntryInv, RequestInv, caching
    <2>. QED
        BY <2>2, <2>3 DEF IInv
<1>. QED
    BY <1>1, <1>2, <1>3, <1>4 DEF Next, TablesStep, CacheStep

(* The inductive invariant.                                                *)
THEOREM Invariance == Spec => []IInv
BY InitIInv, NextKeeps, PTL DEF Spec

(* TypeOK of StatsCache holds for any constants.                           *)
THEOREM TypeCorrect == Spec => []TypeOK
<1>1. IInv => TypeOK
    BY DEF IInv
<1>. QED
    BY <1>1, Invariance, PTL

(* An entry of the cache, or one still being stored, lacks no change that  *)
(* was announced by the version it is kept under: cachedStats may store it *)
(* as late as it likes.                                                    *)
THEOREM EntriesAreAlwaysCurrent == Spec => []EntriesAreCurrent
<1>1. IInv => EntriesAreCurrent
    BY DEF IInv, EntryInv, GoodEntry, EntriesAreCurrent
<1>. QED
    BY <1>1, Invariance, PTL

-----------------------------------------------------------------------------
(* Refinement of Statistics                                                *)

LEMMA StatisticsInit == Init => Abstract!Init
<1> SUFFICES ASSUME Init PROVE Abstract!Init
    OBVIOUS
<1>1. \A r \in Request : request[r].pc = "idle" /\ request[r].mustSee = {}
    BY DEF Init, Idle
<1>. QED
    BY <1>1 DEF Init, Abstract!Init, written, announced, Nothing

(* An answer made of good readings is one Statistics allows.               *)
LEMMA AnswerIsAllowed ==
    ASSUME IInv, NEW r \in Request, request[r].pc # "idle", NEW a \in Value,
           \A q \in 1..Queries : request[r].mustSee \subseteq a[q] /\ a[q] \subseteq written,
           UNCHANGED tables, Answered(r, a)
    PROVE  Abstract!Answer(r)
<1>1. /\ \A q \in Request \ {r} : request'[q] = request[q]
      /\ request'[r].pc = "idle" /\ request'[r].mustSee = {}
    BY DEF Answered, Idle, IInv, TypeOK
<1>2. {q \in Request : request'[q].pc # "idle"} = {q \in Request : request[q].pc # "idle"} \ {r}
    BY <1>1
<1>3. [q \in Request |-> request'[q].mustSee] =
          [[q \in Request |-> request[q].mustSee] EXCEPT ![r] = {}]
    BY <1>1
<1>4. a \in [1..Queries -> SUBSET written]
    BY DEF Value, Reading
<1>5. UNCHANGED <<written, announced>>
    BY DEF tables, written, announced
<1>6. answer' = a
    BY DEF Answered
<1>. QED
    BY <1>2, <1>3, <1>4, <1>5, <1>6 DEF Abstract!Answer

LEMMA AskIsAsk ==
    ASSUME IInv, NEW r \in Request, Ask(r)
    PROVE  Abstract!Ask(r)
<1>1. PICK key \in {version, None} :
        request' = [request EXCEPT ![r] =
                       [Idle(@.at) EXCEPT !.pc = IF key = None THEN "compute" ELSE "match",
                                          !.key = key,
                                          !.mustSee = announced]]
    BY DEF Ask
<1>2. /\ \A q \in Request \ {r} : request'[q] = request[q]
      /\ request'[r].pc # "idle" /\ request'[r].mustSee = announced
    BY <1>1 DEF Idle, IInv, TypeOK
<1>3. {q \in Request : request'[q].pc # "idle"} = {q \in Request : request[q].pc # "idle"} \cup {r}
    BY <1>2
<1>4. [q \in Request |-> request'[q].mustSee] =
          [[q \in Request |-> request[q].mustSee] EXCEPT ![r] = announced]
    BY <1>2
<1>. QED
    BY <1>3, <1>4 DEF Abstract!Ask, Ask, Now, tables, written, announced

LEMMA QueryFailsIsFail ==
    ASSUME IInv, NEW r \in Request, QueryFails(r)
    PROVE  Abstract!Fail(r)
<1>1. /\ \A q \in Request \ {r} : request'[q] = request[q]
      /\ request'[r].pc = "idle" /\ request'[r].mustSee = {}
    BY DEF QueryFails, Idle, IInv, TypeOK
<1>2. {q \in Request : request'[q].pc # "idle"} = {q \in Request : request[q].pc # "idle"} \ {r}
    BY <1>1
<1>3. [q \in Request |-> request'[q].mustSee] =
          [[q \in Request |-> request[q].mustSee] EXCEPT ![r] = {}]
    BY <1>1
<1>. QED
    BY <1>2, <1>3 DEF Abstract!Fail, QueryFails, Now, tables, written, announced

(* A step that neither starts nor ends a request shows nothing.            *)
LEMMA InsideStutters ==
    ASSUME UNCHANGED <<tables, answer>>, 
           \A q \in Request : /\ (request'[q].pc = "idle") <=> (request[q].pc = "idle")
                              /\ request'[q].mustSee = request[q].mustSee
    PROVE  UNCHANGED Abstract!vars
BY DEF Abstract!vars, tables, written, announced

LEMMA MatchIsAnswer ==
    ASSUME IInv, NEW r \in Request, Match(r)
    PROVE  Abstract!Answer(r) \/ UNCHANGED Abstract!vars
<1>1. ASSUME NEW e \in cache, e.key = request[r].key, Answered(r, e.value)
      PROVE  Abstract!Answer(r)
    <2>1. e \in Entry /\ GoodEntry(e) /\ GoodRequest(request[r])
        BY DEF IInv, TypeOK, EntryInv, RequestInv
    <2>2. e.key # None /\ e.value \in Value
        BY <2>1 DEF Entry
    <2>3. \A q \in 1..Queries : request[r].mustSee \subseteq e.value[q] /\ e.value[q] \subseteq written
        BY <1>1, <2>1, <2>2 DEF GoodEntry, GoodRequest
    <2>. QED
        BY <1>1, <2>2, <2>3, AnswerIsAllowed DEF Match, Now
<1>2. ASSUME request' = [request EXCEPT ![r].pc = "compute"], UNCHANGED answer
      PROVE  UNCHANGED Abstract!vars
    <2>1. request[r] \in RequestState /\ request[r].pc = "match"
        BY DEF IInv, TypeOK, Match, Now
    <2>2. request'[r].pc = "compute" /\ request'[r].mustSee = request[r].mustSee
        BY <1>2, <2>1 DEF IInv, TypeOK, RequestState
    <2>3. \A q \in Request \ {r} : request'[q] = request[q]
        BY <1>2 DEF IInv, TypeOK
    <2>. QED
        BY <1>2, <2>1, <2>2, <2>3, InsideStutters DEF Match
<1>. QED
    BY <1>1, <1>2 DEF Match

LEMMA QueryStutters ==
    ASSUME IInv, NEW r \in Request, Query(r)
    PROVE  UNCHANGED Abstract!vars
<1>1. request[r] \in RequestState
    BY DEF IInv, TypeOK
<1>2. request'[r].pc = request[r].pc /\ request'[r].mustSee = request[r].mustSee
    BY <1>1 DEF Query, IInv, TypeOK, RequestState
<1>3. \A q \in Request \ {r} : request'[q] = request[q]
    BY DEF Query, IInv, TypeOK
<1>. QED
    BY <1>2, <1>3, InsideStutters DEF Query

LEMMA FinishIsAnswer ==
    ASSUME IInv, NEW r \in Request, Finish(r)
    PROVE  Abstract!Answer(r)
<1>1. request[r] \in RequestState /\ GoodRequest(request[r]) /\ request[r].seen = Queries
    BY DEF IInv, TypeOK, RequestInv, Finish
<1>. QED
    BY <1>1, AnswerIsAllowed DEF Finish, Now, GoodRequest, RequestState

LEMMA TablesStepIsAbstract ==
    ASSUME IInv, NEW c \in Change, Write(c) \/ Bump(c) \/ BumpFails(c)
    PROVE  Abstract!Write(c) \/ Abstract!Announce(c) \/ UNCHANGED Abstract!vars
<1>1. request' = request /\ answer' = answer
    BY DEF Write, Bump, BumpFails, asking
<1>2. CASE Write(c)
    <2>1. written' = written \cup {c} /\ announced' = announced
        BY <1>2 DEF Write, written, announced, IInv, TypeOK
    <2>. QED
        BY <1>1, <2>1 DEF Abstract!Write
<1>3. CASE Bump(c)
    <2>1. written' = written /\ announced' = announced \cup {c} /\ c \in written
        BY <1>3 DEF Bump, written, announced, IInv, TypeOK
    <2>. QED
        BY <1>1, <2>1 DEF Abstract!Announce
<1>4. CASE BumpFails(c)
    <2>1. written' = written /\ announced' = announced
        BY <1>4 DEF BumpFails, written, announced, IInv, TypeOK
    <2>. QED
        BY <1>1, <2>1 DEF Abstract!vars
<1>. QED
    BY <1>2, <1>3, <1>4

LEMMA StatisticsStep == IInv /\ [Next]_vars => [Abstract!Next]_(Abstract!vars)
<1> SUFFICES ASSUME IInv, [Next]_vars PROVE [Abstract!Next]_(Abstract!vars)
    OBVIOUS
<1>1. ASSUME NEW c \in Change, Write(c) \/ Bump(c) \/ BumpFails(c)
      PROVE  [Abstract!Next]_(Abstract!vars)
    BY <1>1, TablesStepIsAbstract DEF Abstract!Next
<1>2. ASSUME NEW r \in Request, Ask(r) \/ Handle(r) \/ QueryFails(r)
      PROVE  [Abstract!Next]_(Abstract!vars)
    BY <1>2, AskIsAsk, MatchIsAnswer, QueryStutters, FinishIsAnswer, QueryFailsIsFail
       DEF Handle, Abstract!Next
<1>3. CASE CacheStep
    <2>1. UNCHANGED <<tables, asking>>
        BY <1>3 DEF CacheStep, Put, PutFails, Expire
    <2>. QED
        BY <2>1, InsideStutters DEF asking
<1>4. CASE UNCHANGED vars
    BY <1>4, InsideStutters DEF vars, tables
<1>. QED
    BY <1>1, <1>2, <1>3, <1>4 DEF Next, CacheStep

(* handleMetrics with its cache gives only the answers Statistics allows:  *)
(* nothing announced before the question is missing from any of them.      *)
THEOREM Refinement == Spec => ImplementsStatistics
BY StatisticsInit, StatisticsStep, Invariance, PTL
   DEF Spec, ImplementsStatistics, Abstract!Spec
=============================================================================
