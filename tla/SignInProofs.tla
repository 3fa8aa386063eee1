---------------------------- MODULE SignInProofs ----------------------------
(***************************************************************************)
(* Proofs about SignIn for any number of requests, any number of steps of  *)
(* the app and any limit of attempts.                                      *)
(***************************************************************************)
EXTENDS SignIn, TLAPS

USE SignInAssumption, NullIsNoCode

(* What a handler holds at each of its places.                             *)
TotpOf(q) == q.typed \in Typed /\ q.typed.by = "totp" /\ q.user \in UserRow
                 /\ q.typed.of = q.user.secret

Holds(q) ==
    /\ q.at \in {"rehash", "challenge", "open", "user", "spend", "discard"} => q.first \in Id
    /\ q.at \in {"rehash", "challenge", "spend", "discard", "backup", "confirm", "start",
                 "email"} => q.user \in UserRow
    /\ q.at = "challenge" => MethodFor(q.user) # "none"
    /\ q.at \in {"user", "spend", "discard", "fail"} => q.answers \in Number
    /\ q.at \in {"user", "fail"} => q.row \in ChallengeRow
    /\ q.at = "user" => q.resend \/ q.typed \in Typed
    /\ q.at \in {"spend", "confirm"} => TotpOf(q)
    /\ q.at = "spend" /\ q.user.lastStep # None => q.typed.step > q.user.lastStep
    /\ q.at = "backup" =>
           /\ q.typed \in Typed /\ q.typed.by = "backup"
           /\ q.answers = None \/ q.first \in Id
           /\ admin => q.answers # None
    /\ q.at = "disable" => ~admin
    /\ q.at = "stepUp" => admin /\ q.typed \in Typed /\ q.typed.by = "totp"
    /\ q.at \in {"stepUp", "stamp"} => q.own \in Id

RequestInv == \A r \in Number : request[r] # None => Holds(request[r])

(* The number n has not left its handler yet: it names no set of backup    *)
(* codes, no challenge, and (before WriteSecret) no secret.                *)
Pending(n) == n > begun \/ request[n] # None
Unborn(n)  == n > begun \/ At(n, "start")

UsesTotp(q, n) == q.typed \in Typed /\ q.typed.by = "totp" /\ q.typed.of = n

(* A secret that is not stored yet is nobody's, and has no codes.          *)
SecretInv ==
    \A n \in Number : Unborn(n) =>
        /\ user.secret # n
        /\ \A r \in Number : request[r] # None => ~UsesTotp(request[r], n)
        /\ \A c \in spent : c.by = "totp" => c.of # n

(* A set of backup codes that does not exist yet was not spent; one that   *)
(* was spent is gone.                                                      *)
BackupInv ==
    /\ \A n \in Number : Pending(n) => n \notin backup /\ [by |-> "backup", of |-> n] \notin spent
    /\ \A n \in backup : [by |-> "backup", of |-> n] \notin spent

(* While no step was spent over a changed row, every accepted code of the  *)
(* secret in force (of any secret, for an administrator, who cannot        *)
(* disable the factor) is no later than the last step.                     *)
SpentInv ==
    "step" \notin overtaken =>
        /\ again = {}
        /\ \A c \in spent : c.by = "totp" /\ (admin \/ c.of = user.secret) =>
               user.lastStep # None /\ c.step <= user.lastStep

(* A challenge opens once, unanswered; the answers it took are those it    *)
(* counts and those the stale ones took back.                              *)
AttemptsInv ==
    \A c \in Number :
        /\ Pending(c) =>
               /\ challenge[c] = None
               /\ wrong[c] = 0
               /\ \A r \in Number : request[r] # None => request[r].answers # c
        /\ challenge[c] # None =>
               wrong[c] <= challenge[c].attempts + raced[c] * (MAX_CHALLENGE_ATTEMPTS - 1)

(* TypeOK in two parts.                                                    *)
RequestType ==
    /\ begun \in Id
    /\ request \in [Number -> Request \cup {None}]
    /\ \A r \in Number : r > begun => request[r] = None

DataType ==
    /\ admin \in BOOLEAN
    /\ user \in UserRow
    /\ session \in [Id -> SessionRow \cup {None}]
    /\ challenge \in [Number -> ChallengeRow \cup {None}]
    /\ backup \subseteq Id
    /\ step \in 0..MaxStep
    /\ \A r \in Number : r > begun => challenge[r] = None /\ session[r] = None
    /\ spent \subseteq Typed
    /\ again \subseteq spent
    /\ proven \subseteq Id
    /\ wrong \in [Number -> Nat]
    /\ raced \in [Number -> Nat]
    /\ late \subseteq Id
    /\ overtaken \subseteq {"password", "factor", "step"}

IInv == TypeOK /\ RequestInv /\ SecretInv /\ BackupInv /\ SpentInv /\ AttemptsInv

LEMMA TypeParts ==
    /\ TypeOK <=> RequestType /\ DataType
    /\ TypeOK' <=> RequestType' /\ DataType'
BY DEF TypeOK, RequestType, DataType

LEMMA Numbers == Number \subseteq Id /\ 0 \in Id /\ None \notin Id /\ MaxRequests \in Nat
BY DEF Number, Id

-----------------------------------------------------------------------------
(* Facts about what is typed and about a login's row.                      *)

LEMMA TotpFields ==
    ASSUME NEW t \in Typed, t.by = "totp"
    PROVE  t.of \in Id /\ t.step \in 0..MaxStep + 1
BY DEF Typed

LEMMA BackupFields ==
    ASSUME NEW t \in Typed, t.by = "backup"
    PROVE  t.of \in Id /\ t = [by |-> "backup", of |-> t.of]
BY DEF Typed

LEMMA ShownTyped ==
    ASSUME NEW S, S \subseteq Id, NEW t \in Shown(S)
    PROVE  t \in Typed /\ t.by = "totp" /\ t.of \in S
BY DEF Shown, Typed

LEMMA AppCodeTyped ==
    ASSUME user \in UserRow, NEW t \in AppCode
    PROVE  t \in Typed /\ t.by = "totp" /\ t.of = user.secret
<1>1. CASE user.secret = None
    BY <1>1, ShownTyped DEF AppCode
<1>2. CASE user.secret # None
    BY <1>2, ShownTyped DEF AppCode, UserRow
<1>. QED
    BY <1>1, <1>2

LEMMA OtherTyped ==
    ASSUME begun \in Id
    PROVE  /\ \A t \in BackupCode : t \in Typed /\ t.by = "backup"
           /\ [by |-> "mistake"] \in Typed
           /\ \A c \in Number : [by |-> "email", of |-> c] \in Typed
BY Numbers DEF BackupCode, Typed, Id, Number

LEMMA MethodForType ==
    ASSUME NEW u \in UserRow
    PROVE  MethodFor(u) \in {"none", "totp", "email"}
BY DEF MethodFor, UserRow

LEMMA BlankIsRequest == Blank \in Request
BY DEF Blank, Request, Place

-----------------------------------------------------------------------------
(* How requests move: one begins with the next number, or one that is      *)
(* there goes on or ends.                                                  *)

(* No number is pending or unborn that was not, and those that are stay    *)
(* out of every request.                                                   *)
Narrows ==
    \A n \in Number :
        /\ Pending(n)' =>
               /\ Pending(n)
               /\ \A k \in Number : request'[k] # None => request'[k].answers # n
        /\ Unborn(n)' =>
               /\ Unborn(n)
               /\ \A k \in Number : request'[k] # None => ~UsesTotp(request'[k], n)

LEMMA Continues ==
    ASSUME RequestType, RequestInv, SecretInv, AttemptsInv, UNCHANGED <<begun, admin>>,
           NEW r \in Number, request[r] # None, NEW q,
           request' = [request EXCEPT ![r] = q],
           q # None => /\ q \in Request /\ Holds(q) /\ q.at # "start"
                       /\ q.typed = request[r].typed
                       /\ q.answers = request[r].answers
    PROVE  RequestType' /\ RequestInv' /\ Narrows
<1>1. request'[r] = q /\ r <= begun /\ r \in Int /\ begun \in Int
    BY DEF RequestType, Number, Id
<1>2. ASSUME NEW k \in Number, k # r PROVE request'[k] = request[k]
    BY <1>2 DEF RequestType
<1>3. RequestType'
    <2>1. \A k \in Number : k > begun => request'[k] = None
        BY <1>1, <1>2 DEF RequestType
    <2>. QED
        BY <2>1 DEF RequestType
<1>4. ASSUME NEW k \in Number, request'[k] # None PROVE Holds(request'[k])
    BY <1>1, <1>2, <1>4 DEF RequestInv
<1>5. RequestInv'
    BY <1>4 DEF RequestInv, Holds
<1>6. ASSUME NEW n \in Number, Pending(n)'
      PROVE  Pending(n) /\ \A k \in Number : request'[k] # None => request'[k].answers # n
    <2>1. Pending(n)
        BY <1>2, <1>6 DEF Pending
    <2>2. \A k \in Number : request[k] # None => request[k].answers # n
        BY <2>1 DEF AttemptsInv
    <2>. QED
        BY <1>1, <1>2, <2>1, <2>2
<1>7. ASSUME NEW n \in Number, Unborn(n)'
      PROVE  Unborn(n) /\ \A k \in Number : request'[k] # None => ~UsesTotp(request'[k], n)
    <2>1. Unborn(n)
        BY <1>1, <1>2, <1>7 DEF Unborn, At
    <2>. QED
        BY <1>1, <1>2, <2>1 DEF SecretInv, UsesTotp
<1>. QED
    BY <1>3, <1>5, <1>6, <1>7 DEF Narrows

LEMMA Starts ==
    ASSUME RequestType, RequestInv, SecretInv, AttemptsInv, UNCHANGED admin,
           NEW q \in Request \cup {None}, Begin(q),
           q # None => /\ Holds(q)
                       /\ \A n \in Number : UsesTotp(q, n) => ~Unborn(n)
                       /\ \A n \in Number : q.answers = n => ~Pending(n)
    PROVE  RequestType' /\ RequestInv' /\ Narrows /\ begun + 1 \in Number
<1> DEFINE r == begun + 1
<1>1. r \in Number /\ r > begun /\ begun' = r /\ begun \in Int /\ begun' \in Id
    BY DEF RequestType, Begin, Number, Id
<1>2. request' = [request EXCEPT ![r] = q]
    BY DEF Begin
<1> HIDE DEF r
<1>3. request'[r] = q
    BY <1>1, <1>2 DEF RequestType
<1>4. ASSUME NEW k \in Number, k # r PROVE request'[k] = request[k]
    BY <1>2, <1>4 DEF RequestType
<1>5. \A k \in Number : k \in Int
    BY DEF Number
<1>6. RequestType'
    <2>1. \A k \in Number : k > begun' => request'[k] = None
        BY <1>1, <1>4, <1>5 DEF RequestType
    <2>. QED
        BY <1>1, <1>2, <2>1 DEF RequestType
<1>7. ASSUME NEW k \in Number, request'[k] # None PROVE Holds(request'[k])
    BY <1>3, <1>4, <1>7 DEF RequestInv
<1>8. RequestInv'
    BY <1>7 DEF RequestInv, Holds
<1>9. ASSUME NEW n \in Number, Pending(n)'
      PROVE  Pending(n) /\ \A k \in Number : request'[k] # None => request'[k].answers # n
    <2>1. Pending(n)
        BY <1>1, <1>4, <1>5, <1>9 DEF Pending
    <2>. QED
        BY <1>3, <1>4, <2>1 DEF AttemptsInv
<1>10. ASSUME NEW n \in Number, Unborn(n)'
      PROVE  Unborn(n) /\ \A k \in Number : request'[k] # None => ~UsesTotp(request'[k], n)
    <2>1. Unborn(n)
        BY <1>1, <1>4, <1>5, <1>10 DEF Unborn, At
    <2>. QED
        BY <1>3, <1>4, <2>1 DEF SecretInv
<1>. QED
    BY <1>1, <1>6, <1>8, <1>9, <1>10 DEF Narrows, r

LEMMA Finishes ==
    ASSUME RequestType, RequestInv, SecretInv, AttemptsInv, UNCHANGED <<begun, admin>>,
           NEW r \in Number, request[r] # None, Finish(r)
    PROVE  RequestType' /\ RequestInv' /\ Narrows
BY Continues DEF Finish

LEMMA Goes ==
    ASSUME RequestType, RequestInv, SecretInv, AttemptsInv, UNCHANGED <<begun, admin>>,
           NEW r \in Number, request[r] # None, NEW at \in Place \ {"start"}, Goto(r, at),
           Holds([request[r] EXCEPT !.at = at])
    PROVE  RequestType' /\ RequestInv' /\ Narrows
<1> DEFINE q == [request[r] EXCEPT !.at = at]
<1>1. request[r] \in Request
    BY DEF RequestType
<1>2. q \in Request /\ q.at = at /\ q.typed = request[r].typed
        /\ q.answers = request[r].answers
    BY <1>1 DEF Request
<1>3. request' = [request EXCEPT ![r] = q]
    BY <1>1 DEF Goto
<1> HIDE DEF q
<1>4. Holds(q)
    BY DEF q
<1>. QED
    BY <1>2, <1>3, <1>4, Continues

LEMMA AuthedStarts ==
    ASSUME RequestType, RequestInv, SecretInv, AttemptsInv, user \in UserRow,
           NEW s \in Id, NEW at \in Place, NEW typed \in Typed \cup {None},
           BeginAuthed(s, at, typed),
           at \notin {"rehash", "challenge", "open", "user", "spend", "discard", "fail"},
           typed = None \/ (typed.by = "totp" => typed.of = user.secret),
           at \in {"confirm", "stepUp"} => typed # None /\ typed.by = "totp",
           at = "backup" => typed # None /\ typed.by = "backup",
           at \in {"backup", "disable"} => ~admin,
           at = "stepUp" => admin
    PROVE  RequestType' /\ RequestInv' /\ Narrows
<1> DEFINE q == [Blank EXCEPT !.at = at, !.user = user, !.own = s, !.typed = typed]
<1>1. q \in Request
    BY BlankIsRequest DEF Request
<1>2. q.at = at /\ q.user = user /\ q.own = s /\ q.typed = typed /\ q.answers = None
    BY DEF Blank
<1>3. Begin(q) /\ UNCHANGED admin
    BY DEF BeginAuthed, tables
<1> HIDE DEF q
<1>4. typed # None => typed \in Typed
    OBVIOUS
<1>5. Holds(q)
    BY <1>2, <1>4 DEF Holds, TotpOf
<1>6. ASSUME NEW n \in Number, UsesTotp(q, n) PROVE ~Unborn(n)
    <2>1. typed # None => n = user.secret
        BY <1>2, <1>6 DEF UsesTotp
    <2>2. typed # None
        BY <1>2, <1>6 DEF UsesTotp
    <2>. QED
        BY <1>2, <1>6, <2>1, <2>2 DEF SecretInv
<1>7. \A n \in Number : q.answers # n
    BY <1>2, Numbers
<1>. QED
    BY <1>1, <1>3, <1>5, <1>6, <1>7, Starts

LEMMA Rests ==
    ASSUME RequestType, RequestInv, SecretInv, AttemptsInv, UNCHANGED <<begun, request, admin>>
    PROVE  RequestType' /\ RequestInv' /\ Narrows
<1>1. \A n \in Number : (Pending(n)' => Pending(n)) /\ (Unborn(n)' => Unborn(n))
    BY DEF Pending, Unborn, At
<1>2. Narrows
    BY <1>1 DEF Narrows, AttemptsInv, SecretInv
<1>. QED
    BY <1>2 DEF RequestType, RequestInv, Holds

LEMMA BeginLoginMoves ==
    ASSUME IInv, NEW google \in BOOLEAN, BeginLogin(google)
    PROVE  RequestType' /\ RequestInv' /\ Narrows
<1> DEFINE at == IF user.old /\ ~google THEN "rehash"
                 ELSE IF MethodFor(user) = "none" THEN "open" ELSE "challenge"
           q == [Blank EXCEPT !.at = at, !.user = user, !.first = user.password]
<1>1. RequestType /\ user \in UserRow /\ user.password \in Id
    BY TypeParts DEF IInv, DataType, UserRow
<1>2. at \in {"rehash", "open", "challenge"} /\ (at = "challenge" => MethodFor(user) # "none")
    OBVIOUS
<1>3. Begin(q) /\ UNCHANGED admin
    BY DEF BeginLogin, tables
<1> HIDE DEF at
<1>4. q \in Request
    BY <1>1, <1>2, BlankIsRequest DEF Request, Place
<1>5. /\ q.at = at /\ q.user = user /\ q.first = user.password /\ q.typed = None
      /\ q.answers = None
    BY DEF Blank
<1> HIDE DEF q
<1>6. Holds(q)
    BY <1>1, <1>2, <1>5 DEF Holds
<1>7. \A n \in Number : ~UsesTotp(q, n) /\ q.answers # n
    BY <1>5, Numbers DEF UsesTotp
<1>. QED
    BY <1>1, <1>3, <1>4, <1>6, <1>7, Starts DEF IInv

LEMMA BeginAnswerMoves ==
    ASSUME IInv, NEW c \in Number, NEW resend \in BOOLEAN, NEW typed,
           BeginAnswer(c, typed, resend),
           \/ resend /\ typed = None
           \/ typed \in Typed /\ (typed.by = "totp" => typed.of = user.secret)
    PROVE  RequestType' /\ RequestInv' /\ Narrows
<1>1. RequestType /\ UNCHANGED admin /\ challenge[c] \in ChallengeRow
    BY TypeParts DEF IInv, DataType, BeginAnswer
<1>2. CASE challenge[c].expired
    BY <1>1, <1>2, Rests DEF BeginAnswer, IInv
<1>3. CASE ~challenge[c].expired
    <2> DEFINE row == challenge[c]
               q == [Blank EXCEPT !.at = "user", !.answers = c, !.row = row,
                         !.first = row.password, !.typed = typed, !.resend = resend]
    <2>1. Begin(q) /\ challenge[c] # None
        BY <1>3 DEF BeginAnswer
    <2>2. row.password \in Id
        BY <1>1 DEF ChallengeRow
    <2>3. row \in ChallengeRow
        BY <1>1
    <2> HIDE DEF row
    <2>4. q \in Request
        BY <2>2, <2>3, BlankIsRequest DEF Request, Place
    <2>5. /\ q.at = "user" /\ q.answers = c /\ q.row = row /\ q.first = row.password
          /\ q.typed = typed /\ q.resend = resend
        BY DEF Blank
    <2> HIDE DEF q
    <2>6. Holds(q)
        BY <2>2, <2>3, <2>5 DEF Holds
    <2>7. ASSUME NEW n \in Number, UsesTotp(q, n) PROVE ~Unborn(n)
        BY <2>5, <2>7 DEF UsesTotp, IInv, SecretInv
    <2>8. ASSUME NEW n \in Number, q.answers = n PROVE ~Pending(n)
        BY <2>1, <2>5, <2>8 DEF IInv, AttemptsInv
    <2>. QED
        BY <1>1, <2>1, <2>4, <2>6, <2>7, <2>8, Starts DEF IInv
<1>. QED
    BY <1>2, <1>3

LEMMA BeginAuthedMoves ==
    ASSUME IInv, NEW s \in Id,
           \/ BeginChangePassword(s) \/ BeginEnrollStart(s)
           \/ BeginEmailFactor(s) \/ BeginRegenerate(s)
           \/ \E typed \in Shown(0..begun) : BeginEnrollConfirm(s, typed)
           \/ \E typed \in AppCode : BeginStepUp(s, typed)
           \/ \E typed \in AppCode \cup BackupCode \cup {[by |-> "mistake"]} :
                 BeginDisable(s, typed)
    PROVE  RequestType' /\ RequestInv' /\ Narrows
<1>1. RequestType /\ user \in UserRow /\ RequestInv /\ SecretInv /\ AttemptsInv /\ begun \in Id
    BY TypeParts DEF IInv, DataType, RequestType
<1>2. ASSUME NEW at \in {"password", "start", "email", "codes"}, BeginAuthed(s, at, None)
      PROVE  RequestType' /\ RequestInv' /\ Narrows
    BY <1>1, <1>2, AuthedStarts DEF Place
<1>3. ASSUME NEW typed \in Shown(0..begun), BeginEnrollConfirm(s, typed)
      PROVE  RequestType' /\ RequestInv' /\ Narrows
    <2>1. 0..begun \subseteq Id
        BY <1>1 DEF Id
    <2>2. typed \in Typed /\ typed.by = "totp"
        BY <2>1, ShownTyped
    <2>3. typed.of = user.secret /\ BeginAuthed(s, "confirm", typed)
        BY <1>3 DEF BeginEnrollConfirm, Verifies
    <2>. QED
        BY <1>1, <2>2, <2>3, AuthedStarts DEF Place
<1>4. ASSUME NEW typed \in AppCode, BeginStepUp(s, typed)
      PROVE  RequestType' /\ RequestInv' /\ Narrows
    <2>1. typed \in Typed /\ typed.by = "totp" /\ typed.of = user.secret
        BY <1>1, AppCodeTyped
    <2>2. admin /\ BeginAuthed(s, "stepUp", typed)
        BY <1>4 DEF BeginStepUp
    <2>. QED
        BY <1>1, <2>1, <2>2, AuthedStarts DEF Place
<1>5. ASSUME NEW typed \in AppCode \cup BackupCode \cup {[by |-> "mistake"]},
             BeginDisable(s, typed)
      PROVE  RequestType' /\ RequestInv' /\ Narrows
    <2>1. typed \in Typed /\ (typed.by = "totp" => typed.of = user.secret)
        BY <1>1, AppCodeTyped, OtherTyped
    <2>2. ~admin /\ \/ typed.by = "backup" /\ BeginAuthed(s, "backup", typed)
                    \/ BeginAuthed(s, "disable", typed)
        BY <1>5 DEF BeginDisable
    <2>. QED
        BY <1>1, <2>1, <2>2, AuthedStarts DEF Place
<1>. QED
    BY <1>2, <1>3, <1>4, <1>5 DEF BeginChangePassword, BeginEnrollStart, BeginEmailFactor,
       BeginRegenerate

(* A request goes on to a place it is ready for, or ends.                  *)
LEMMA RequestMoves ==
    ASSUME IInv, NEW r \in Number,
           \/ Rehash(r) \/ StartChallenge(r) \/ OpenSession(r)
           \/ ReadUser(r) \/ Fail(r) \/ SpendStep(r) \/ ConsumeBackupCode(r)
           \/ DiscardChallenge(r) \/ WritePassword(r) \/ WriteSecret(r) \/ WriteConfirmed(r)
           \/ WriteEmailFactor(r) \/ ReplaceBackupCodes(r) \/ WriteDisabled(r)
           \/ SpendStepUp(r) \/ StampSession(r) \/ HandlerDies(r)
    PROVE  RequestType' /\ RequestInv' /\ Narrows
<1> DEFINE q == request[r]
<1>1. /\ RequestType /\ RequestInv /\ SecretInv /\ AttemptsInv
      /\ user \in UserRow /\ UNCHANGED <<begun, admin>> /\ q # None
    BY TypeParts DEF IInv, DataType, tables, Rehash, StartChallenge, OpenSession, ReadUser, Fail,
       SpendStep, ConsumeBackupCode, DiscardChallenge, WritePassword, WriteSecret,
       WriteConfirmed, WriteEmailFactor, ReplaceBackupCodes, WriteDisabled, SpendStepUp,
       StampSession, HandlerDies, At
<1>2. q \in Request /\ Holds(q)
    BY <1>1 DEF RequestType, RequestInv
<1>3. ASSUME Finish(r) PROVE RequestType' /\ RequestInv' /\ Narrows
    BY <1>1, <1>3, Finishes
<1>4. ASSUME NEW at \in Place,
             at \in {"open", "challenge", "discard", "disable", "codes", "stamp"},
             Goto(r, at),
             at \in {"open", "challenge", "discard"} => q.first \in Id,
             at \in {"challenge", "discard"} => q.user \in UserRow,
             at = "challenge" => MethodFor(q.user) # "none",
             at = "discard" => q.answers \in Number,
             at = "disable" => ~admin,
             at = "stamp" => q.own \in Id
      PROVE  RequestType' /\ RequestInv' /\ Narrows
    <2> DEFINE p == [q EXCEPT !.at = at]
    <2>1. /\ p.at = at /\ p.first = q.first /\ p.user = q.user /\ p.answers = q.answers
          /\ p.own = q.own /\ p.typed = q.typed
        BY <1>2 DEF Request
    <2> HIDE DEF p
    <2>2. Holds(p)
        BY <1>4, <2>1 DEF Holds
    <2>3. Holds([request[r] EXCEPT !.at = at])
        BY <2>2 DEF p
    <2>. QED
        BY <1>1, <1>4, <2>3, Goes
<1>5. CASE Rehash(r)
    BY <1>2, <1>4, <1>5 DEF Rehash, At, Holds, Place
<1>6. CASE SpendStep(r)
    BY <1>2, <1>4, <1>6 DEF SpendStep, At, Holds, Place
<1>7. CASE ConsumeBackupCode(r)
    <2>1. q.at = "backup" /\ q.answers \in Number \cup {None} /\ q.user \in UserRow
        BY <1>2, <1>7 DEF ConsumeBackupCode, At, Holds, Request
    <2>2. CASE q.typed.of \notin backup
        BY <1>3, <1>7, <2>2 DEF ConsumeBackupCode
    <2>3. CASE q.typed.of \in backup /\ q.answers = None
        <3>1. Goto(r, "disable") /\ ~admin
            BY <1>2, <1>7, <2>1, <2>3 DEF ConsumeBackupCode, Holds
        <3>. QED
            BY <1>4, <3>1 DEF Place
    <2>4. CASE q.typed.of \in backup /\ q.answers # None
        <3>1. Goto(r, "discard") /\ q.first \in Id /\ q.answers \in Number
            BY <1>2, <1>7, <2>1, <2>4 DEF ConsumeBackupCode, Holds
        <3>. QED
            BY <1>4, <2>1, <3>1 DEF Place
    <2>. QED
        BY <2>2, <2>3, <2>4
<1>8. CASE DiscardChallenge(r)
    BY <1>2, <1>3, <1>4, <1>8 DEF DiscardChallenge, At, Holds, Place
<1>9. CASE WriteConfirmed(r) \/ WriteEmailFactor(r)
    BY <1>4, <1>9 DEF WriteConfirmed, WriteEmailFactor, Place
<1>10. CASE SpendStepUp(r)
    BY <1>2, <1>3, <1>4, <1>10 DEF SpendStepUp, At, Holds, Place
<1>11. CASE ReadUser(r)
    <2>1. q.at = "user"
        BY <1>11 DEF ReadUser, At
    <2>2. CASE user.disabled
        BY <1>3, <1>11, <2>2 DEF ReadUser
    <2>3. CASE ~user.disabled
        <3> DEFINE at == IF q.resend THEN "discard"
                         ELSE IF q.typed.by = "backup" THEN "backup"
                         ELSE IF ~Correct(q) THEN "fail"
                         ELSE IF q.row.method = "totp" THEN "spend" ELSE "discard"
                   p == [q EXCEPT !.user = user, !.at = at]
        <3>1. request' = [request EXCEPT ![r] = p]
            BY <1>1, <1>11, <2>3 DEF ReadUser, RequestType
        <3>2. at = "spend" => /\ ~q.resend /\ q.row.method = "totp"
                              /\ Verifies(q.typed, user, user.lastStep)
            BY DEF Correct
        <3>3. at \in {"discard", "backup", "fail", "spend"}
                /\ (at = "backup" => q.typed.by = "backup" /\ ~q.resend)
            OBVIOUS
        <3> HIDE DEF at
        <3>4. /\ p.at = at /\ p.user = user /\ p.first = q.first /\ p.answers = q.answers
              /\ p.typed = q.typed /\ p.row = q.row /\ p.resend = q.resend
              /\ p \in Request
            BY <1>1, <1>2, <3>3 DEF Request, Place
        <3> HIDE DEF p
        <3>5. /\ q.first \in Id /\ q.answers \in Number /\ q.row \in ChallengeRow
              /\ q.resend \/ q.typed \in Typed
              /\ q.answers # None
            BY <1>2, <2>1, Numbers DEF Holds
        <3>6. CASE at \in {"discard", "backup", "fail"}
            BY <1>1, <3>1, <3>3, <3>4, <3>5, <3>6, Continues DEF Holds
        <3>7. CASE at = "spend"
            <4>1. /\ q.typed \in Typed /\ q.typed.by = "totp" /\ q.typed.of = user.secret
                  /\ user.lastStep # None => q.typed.step > user.lastStep
                BY <3>2, <3>5, <3>7 DEF Verifies
            <4>2. Holds(p)
                BY <1>1, <3>4, <3>5, <3>7, <4>1 DEF Holds, TotpOf
            <4>. QED
                BY <1>1, <3>1, <3>4, <3>7, <4>2, Continues
        <3>. QED
            BY <3>3, <3>6, <3>7
    <2>. QED
        BY <2>2, <2>3
<1>12. CASE \/ StartChallenge(r) \/ OpenSession(r) \/ Fail(r) \/ WritePassword(r)
            \/ WriteSecret(r) \/ ReplaceBackupCodes(r) \/ WriteDisabled(r)
            \/ StampSession(r) \/ HandlerDies(r)
    BY <1>3, <1>12 DEF StartChallenge, OpenSession, Fail, WritePassword, WriteSecret,
       ReplaceBackupCodes, WriteDisabled, StampSession, HandlerDies
<1>. QED
    BY <1>5, <1>6, <1>7, <1>8, <1>9, <1>10, <1>11, <1>12

LEMMA NextMoves ==
    ASSUME IInv, [Next]_vars
    PROVE  RequestType' /\ RequestInv' /\ Narrows
<1>1. /\ RequestType /\ RequestInv /\ SecretInv /\ AttemptsInv
      /\ user \in UserRow /\ begun \in Id
    BY TypeParts DEF IInv, DataType, RequestType
<1>2. ASSUME NEW google \in BOOLEAN, BeginLogin(google)
      PROVE  RequestType' /\ RequestInv' /\ Narrows
    BY <1>2, BeginLoginMoves
<1>3. ASSUME NEW c \in Number,
             NEW typed \in AppCode \cup BackupCode
                              \cup {[by |-> "email", of |-> c], [by |-> "mistake"]},
             BeginAnswer(c, typed, FALSE)
      PROVE  RequestType' /\ RequestInv' /\ Narrows
    <2>1. typed \in Typed /\ (typed.by = "totp" => typed.of = user.secret)
        BY <1>1, AppCodeTyped, OtherTyped
    <2>. QED
        BY <1>3, <2>1, BeginAnswerMoves
<1>4. ASSUME NEW c \in Number, BeginAnswer(c, None, TRUE)
      PROVE  RequestType' /\ RequestInv' /\ Narrows
    BY <1>4, BeginAnswerMoves
<1>5. ASSUME NEW c \in Number, Expire(c) \/ Prune(c)
      PROVE  RequestType' /\ RequestInv' /\ Narrows
    BY <1>1, <1>5, Rests DEF Expire, Prune
<1>6. ASSUME NEW s \in Id, Logout(s)
      PROVE  RequestType' /\ RequestInv' /\ Narrows
    BY <1>1, <1>6, Rests DEF Logout
<1>7. CASE ResetPassword
    <2>1. Begin(None) /\ UNCHANGED admin
        BY <1>7 DEF ResetPassword
    <2>. QED
        BY <1>1, <2>1, Starts
<1>8. CASE DisableLogin \/ Tick \/ UNCHANGED vars
    BY <1>1, <1>8, Rests DEF DisableLogin, Tick, vars, tables
<1>. QED
    BY <1>2, <1>3, <1>4, <1>5, <1>6, <1>7, <1>8, BeginAuthedMoves, RequestMoves DEF Next

-----------------------------------------------------------------------------
(* The tables and histories keep their types.                              *)

LEMMA BeginDataType ==
    ASSUME IInv, RequestType', UNCHANGED <<user, session, challenge, backup, admin, step, history>>,
           begun' >= begun
    PROVE  DataType'
<1>1. DataType /\ begun \in Int /\ begun' \in Int
    BY TypeParts DEF IInv, RequestType, Id
<1>2. \A r \in Number : r > begun' => r > begun
    BY <1>1 DEF Number
<1>. QED
    BY <1>1, <1>2 DEF DataType, history

LEMMA ChallengeDataType ==
    ASSUME IInv, RequestType', UNCHANGED <<user, session, backup, admin, step, history>>,
           begun' >= begun,
           NEW c \in Number, NEW row \in ChallengeRow \cup {None}, c <= begun \/ row = None,
           challenge' = [challenge EXCEPT ![c] = row]
    PROVE  DataType'
<1>1. DataType /\ begun \in Int /\ begun' \in Int
    BY TypeParts DEF IInv, RequestType, Id
<1>2. \A r \in Number : r > begun' => r > begun
    BY <1>1 DEF Number
<1>3. ASSUME NEW r \in Number, r > begun'
      PROVE  challenge'[r] = None /\ session'[r] = None
    <2>1. r > begun /\ (r # c \/ row = None)
        BY <1>1, <1>2, <1>3 DEF Number
    <2>2. challenge[r] = None /\ session[r] = None /\ session' = session
        BY <1>1, <2>1 DEF DataType
    <2>. QED
        BY <1>1, <2>1, <2>2 DEF DataType
<1>. QED
    BY <1>1, <1>3 DEF DataType, history

LEMMA SessionDataType ==
    ASSUME IInv, RequestType', UNCHANGED <<admin, challenge, backup, step, spent, again, proven,
                                           wrong, raced, overtaken>>,
           begun' >= begun, user' \in UserRow,
           session' \in [Id -> SessionRow \cup {None}], late' \subseteq Id,
           \A s \in Number : s > begun => session'[s] = None
    PROVE  DataType'
<1>1. DataType /\ begun \in Int /\ begun' \in Int
    BY TypeParts DEF IInv, RequestType, Id
<1>2. \A r \in Number : r > begun' => r > begun
    BY <1>1 DEF Number
<1>3. \A r \in Number : r > begun' => challenge'[r] = None /\ session'[r] = None
    BY <1>1, <1>2 DEF DataType
<1>. QED
    BY <1>1, <1>3 DEF DataType

(* A statement of a request that writes the row of the login, the codes or *)
(* a history.                                                              *)
LEMMA RowDataType ==
    ASSUME IInv, UNCHANGED <<admin, session, challenge, step, begun, late>>,
           user' \in UserRow, backup' \subseteq Id,
           spent' \subseteq Typed, again' \subseteq spent', proven' \subseteq Id,
           wrong' \in [Number -> Nat], raced' \in [Number -> Nat],
           overtaken' \subseteq {"password", "factor", "step"}
    PROVE  DataType'
BY TypeParts DEF IInv, DataType

LEMMA AcceptType ==
    ASSUME DataType, NEW code \in Typed, Accept(code)
    PROVE  spent' \subseteq Typed /\ again' \subseteq spent'
BY DEF DataType, Accept

LEMMA RequestDataType ==
    ASSUME IInv, RequestType', NEW r \in Number,
           \/ Rehash(r) \/ StartChallenge(r) \/ OpenSession(r)
           \/ ReadUser(r) \/ Fail(r) \/ SpendStep(r) \/ ConsumeBackupCode(r)
           \/ DiscardChallenge(r) \/ WritePassword(r) \/ WriteSecret(r) \/ WriteConfirmed(r)
           \/ WriteEmailFactor(r) \/ ReplaceBackupCodes(r) \/ WriteDisabled(r)
           \/ SpendStepUp(r) \/ StampSession(r) \/ HandlerDies(r)
    PROVE  DataType'
<1> DEFINE q == request[r]
<1>1. DataType /\ RequestType /\ RequestInv
    BY TypeParts DEF IInv
<1>2. /\ UNCHANGED begun /\ q # None
    BY DEF Rehash, StartChallenge, OpenSession, ReadUser, Fail,
       SpendStep, ConsumeBackupCode, DiscardChallenge, WritePassword, WriteSecret,
       WriteConfirmed, WriteEmailFactor, ReplaceBackupCodes, WriteDisabled, SpendStepUp,
       StampSession, HandlerDies, At
<1>3. q \in Request /\ Holds(q) /\ r <= begun /\ begun \in Int /\ begun' >= begun
        /\ begun' \in Int /\ r \in Id
    BY <1>1, <1>2 DEF RequestType, RequestInv, Number, Id
<1>4. user \in UserRow /\ backup \subseteq Id /\ proven \subseteq Id
        /\ spent \subseteq Typed /\ again \subseteq spent
        /\ wrong \in [Number -> Nat] /\ raced \in [Number -> Nat] /\ late \subseteq Id
        /\ overtaken \subseteq {"password", "factor", "step"}
        /\ session \in [Id -> SessionRow \cup {None}]
        /\ challenge \in [Number -> ChallengeRow \cup {None}]
    BY <1>1 DEF DataType
<1>5. CASE Rehash(r)
    <2>1. q.user \in UserRow /\ q.user.password \in Id
        BY <1>3, <1>5 DEF Rehash, At, Holds, UserRow
    <2>2. user' \in UserRow
        BY <1>4, <1>5, <2>1 DEF Rehash, UserRow
    <2>3. overtaken' \subseteq {"password", "factor", "step"}
        BY <1>4, <1>5 DEF Rehash
    <2>. QED
        BY <1>4, <1>5, <2>2, <2>3, RowDataType DEF Rehash
<1>6. CASE StartChallenge(r)
    <2> DEFINE row == [method |-> MethodFor(q.user), password |-> q.first, attempts |-> 0,
                       expired |-> FALSE]
    <2>1. MethodFor(q.user) \in {"totp", "email"} /\ q.first \in Id
        BY <1>3, <1>6, MethodForType DEF StartChallenge, At, Holds
    <2>2. row \in ChallengeRow
        BY <2>1 DEF ChallengeRow
    <2>3. challenge' = [challenge EXCEPT ![r] = row]
        BY <1>6 DEF StartChallenge
    <2> HIDE DEF row
    <2>. QED
        BY <1>3, <1>6, <2>2, <2>3, ChallengeDataType DEF StartChallenge
<1>7. CASE OpenSession(r)
    <2> DEFINE row == [password |-> q.first, steppedUp |-> FALSE]
    <2>1. row \in SessionRow
        BY <1>3, <1>7 DEF OpenSession, At, Holds, SessionRow
    <2>2. session' = [session EXCEPT ![r] = row] /\ late' \subseteq Id
        BY <1>3, <1>4, <1>7 DEF OpenSession
    <2> HIDE DEF row
    <2>3. session' \in [Id -> SessionRow \cup {None}]
        BY <1>4, <2>1, <2>2
    <2>4. ASSUME NEW s \in Number, s > begun PROVE session'[s] = None
        <3>1. s # r /\ s \in Id
            BY <1>3, <2>4, Numbers DEF Number
        <3>2. session[s] = None
            BY <1>1, <2>4 DEF DataType
        <3>. QED
            BY <1>4, <2>2, <3>1, <3>2
    <2>. QED
        BY <1>3, <1>4, <1>7, <2>2, <2>3, <2>4, SessionDataType DEF OpenSession
<1>8. CASE ReadUser(r)
    <2>1. q.answers \in Number
        BY <1>3, <1>8 DEF ReadUser, At, Holds
    <2>2. challenge' = [challenge EXCEPT ![q.answers] = None] \/ UNCHANGED challenge
        BY <1>8 DEF ReadUser
    <2>. QED
        BY <1>3, <1>8, <2>1, <2>2, ChallengeDataType, BeginDataType DEF ReadUser
<1>9. CASE Fail(r)
    <2> DEFINE c == q.answers
               n == q.row.attempts
    <2>1. c \in Number /\ q.row \in ChallengeRow /\ n \in 0..MAX_CHALLENGE_ATTEMPTS - 1
        BY <1>3, <1>9 DEF Fail, At, Holds, ChallengeRow
    <2>2. wrong' \in [Number -> Nat] /\ raced' \in [Number -> Nat]
        BY <1>4, <1>9, <2>1 DEF Fail
    <2>3. challenge' \in [Number -> ChallengeRow \cup {None}]
        <3>1. ASSUME challenge[c] # None, ~(n + 1 >= MAX_CHALLENGE_ATTEMPTS)
              PROVE  [challenge[c] EXCEPT !.attempts = n + 1] \in ChallengeRow
            <4>1. n + 1 \in 0..MAX_CHALLENGE_ATTEMPTS - 1
                BY <2>1, <3>1
            <4>. QED
                BY <1>4, <2>1, <3>1, <4>1 DEF ChallengeRow
        <3>. QED
            BY <1>4, <1>9, <2>1, <3>1 DEF Fail
    <2>4. \A k \in Number : challenge[k] = None => challenge'[k] = None
        BY <1>4, <1>9, <2>1 DEF Fail
    <2>. QED
        BY <1>1, <1>2, <1>4, <1>9, <2>2, <2>3, <2>4 DEF Fail, DataType
<1>10. CASE SpendStep(r)
    <2>1. q.typed \in Typed /\ q.typed.by = "totp"
        BY <1>3, <1>10 DEF SpendStep, At, Holds, TotpOf
    <2>2. q.typed.step \in 0..MaxStep + 1
        BY <2>1, TotpFields
    <2>3. user' \in UserRow
        BY <1>4, <1>10, <2>2 DEF SpendStep, UserRow
    <2>4. overtaken' \subseteq {"password", "factor", "step"}
        BY <1>4, <1>10 DEF SpendStep
    <2>5. spent' \subseteq Typed /\ again' \subseteq spent'
        BY <1>1, <1>10, <2>1, AcceptType DEF SpendStep
    <2>. QED
        BY <1>4, <1>10, <2>3, <2>4, <2>5, RowDataType DEF SpendStep
<1>11. CASE ConsumeBackupCode(r)
    <2>1. q.typed \in Typed
        BY <1>3, <1>11 DEF ConsumeBackupCode, At, Holds
    <2>2. spent' \subseteq Typed /\ again' \subseteq spent' /\ backup' \subseteq Id
        BY <1>1, <1>4, <1>11, <2>1, AcceptType DEF ConsumeBackupCode
    <2>. QED
        BY <1>4, <1>11, <2>2, RowDataType DEF ConsumeBackupCode
<1>12. CASE DiscardChallenge(r)
    <2>1. q.answers \in Number /\ challenge' = [challenge EXCEPT ![q.answers] = None]
        BY <1>3, <1>12 DEF DiscardChallenge, At, Holds
    <2>. QED
        BY <1>3, <1>12, <2>1, ChallengeDataType DEF DiscardChallenge
<1>13. CASE WritePassword(r)
    <2>1. user' \in UserRow
        BY <1>3, <1>4, <1>13 DEF WritePassword, UserRow
    <2>2. ASSUME NEW s \in Id, session[s] # None
          PROVE  [session[s] EXCEPT !.password = r] \in SessionRow
        BY <1>3, <1>4, <2>2 DEF SessionRow
    <2>3. session' \in [Id -> SessionRow \cup {None}]
        BY <1>13, <2>2 DEF WritePassword
    <2>4. \A s \in Number : s > begun => session'[s] = None
        BY <1>1, <1>13, Numbers DEF WritePassword, DataType
    <2>. QED
        BY <1>3, <1>4, <1>13, <2>1, <2>3, <2>4, SessionDataType DEF WritePassword, history
<1>14. CASE WriteSecret(r)
    <2>1. user' \in UserRow
        BY <1>3, <1>4, <1>14 DEF WriteSecret, UserRow
    <2>2. overtaken' \subseteq {"password", "factor", "step"}
        BY <1>4, <1>14 DEF WriteSecret
    <2>. QED
        BY <1>4, <1>14, <2>1, <2>2, RowDataType DEF WriteSecret
<1>15. CASE WriteConfirmed(r)
    <2>1. q.typed \in Typed /\ q.typed.by = "totp"
        BY <1>3, <1>15 DEF WriteConfirmed, At, Holds, TotpOf
    <2>2. q.typed.step \in 0..MaxStep + 1 /\ q.typed.of \in Id
        BY <2>1, TotpFields
    <2>3. user' \in UserRow
        BY <1>4, <1>15, <2>2 DEF WriteConfirmed, UserRow
    <2>4. overtaken' \subseteq {"password", "factor", "step"}
        BY <1>4, <1>15 DEF WriteConfirmed
    <2>5. proven' \subseteq Id
        BY <1>4, <1>15, <2>2 DEF WriteConfirmed
    <2>. QED
        BY <1>4, <1>15, <2>3, <2>4, <2>5, RowDataType DEF WriteConfirmed
<1>16. CASE WriteEmailFactor(r)
    <2>1. user' \in UserRow
        BY <1>4, <1>16 DEF WriteEmailFactor, UserRow
    <2>2. overtaken' \subseteq {"password", "factor", "step"}
        BY <1>4, <1>16 DEF WriteEmailFactor
    <2>. QED
        BY <1>4, <1>16, <2>1, <2>2, RowDataType DEF WriteEmailFactor
<1>17. CASE ReplaceBackupCodes(r)
    BY <1>3, <1>4, <1>17, RowDataType DEF ReplaceBackupCodes, history
<1>18. CASE WriteDisabled(r)
    <2>1. user' \in UserRow
        BY <1>4, <1>18 DEF WriteDisabled, UserRow
    <2>. QED
        BY <1>4, <1>18, <2>1, RowDataType DEF WriteDisabled, history
<1>19. CASE SpendStepUp(r)
    <2>1. q.typed \in Typed /\ q.typed.by = "totp"
        BY <1>3, <1>19 DEF SpendStepUp, At, Holds
    <2>2. q.typed.step \in 0..MaxStep + 1
        BY <2>1, TotpFields
    <2>3. user' \in UserRow
        BY <1>4, <1>19, <2>2 DEF SpendStepUp, UserRow
    <2>4. spent' \subseteq Typed /\ again' \subseteq spent'
        BY <1>1, <1>4, <1>19, <2>1, AcceptType DEF SpendStepUp
    <2>. QED
        BY <1>4, <1>19, <2>3, <2>4, RowDataType DEF SpendStepUp
<1>20. CASE StampSession(r)
    <2> DEFINE s == q.own
               row == IF session[s] = None THEN None
                      ELSE [session[s] EXCEPT !.steppedUp = TRUE]
    <2>1. s \in Id
        BY <1>3, <1>20 DEF StampSession, At, Holds
    <2>2. row \in SessionRow \cup {None}
        BY <1>4, <2>1 DEF SessionRow
    <2>3. session' = [session EXCEPT ![s] = row]
        BY <1>4, <1>20, <2>1 DEF StampSession
    <2>4. session[s] = None => row = None
        OBVIOUS
    <2> HIDE DEF row
    <2>5. session' \in [Id -> SessionRow \cup {None}]
        BY <1>4, <2>2, <2>3
    <2>6. \A n \in Number : n > begun => session'[n] = None
        BY <1>1, <1>4, <2>1, <2>3, <2>4, Numbers DEF DataType
    <2>. QED
        BY <1>3, <1>4, <1>20, <2>5, <2>6, SessionDataType DEF StampSession, history
<1>21. CASE HandlerDies(r)
    BY <1>3, <1>21, BeginDataType DEF HandlerDies, tables, history
<1>. QED
    BY <1>5, <1>6, <1>7, <1>8, <1>9, <1>10, <1>11, <1>12, <1>13, <1>14, <1>15, <1>16,
       <1>17, <1>18, <1>19, <1>20, <1>21

LEMMA NextDataType ==
    ASSUME IInv, RequestType', [Next]_vars
    PROVE  DataType'
<1>1. DataType /\ begun \in Int
    BY TypeParts DEF IInv, RequestType, Id
<1>2. ASSUME NEW q, Begin(q) PROVE begun' = begun + 1 /\ begun' >= begun
    BY <1>1, <1>2 DEF Begin
<1>3. begun >= begun
    BY <1>1
<1>4. ASSUME NEW google \in BOOLEAN, BeginLogin(google) PROVE DataType'
    BY <1>2, <1>4, BeginDataType DEF BeginLogin, tables
<1>5. ASSUME NEW c \in Number, NEW typed, NEW resend \in BOOLEAN,
             BeginAnswer(c, typed, resend)
      PROVE  DataType'
    <2>1. \/ UNCHANGED begun /\ challenge' = [challenge EXCEPT ![c] = None]
          \/ begun' >= begun /\ UNCHANGED challenge
        BY <1>2, <1>5 DEF BeginAnswer
    <2>. QED
        BY <1>3, <1>5, <2>1, ChallengeDataType, BeginDataType DEF BeginAnswer
<1>6. ASSUME NEW c \in Number, Expire(c) \/ Prune(c) PROVE DataType'
    <2> DEFINE row == [challenge[c] EXCEPT !.expired = TRUE]
    <2>1. challenge[c] \in ChallengeRow /\ challenge[c] # None
        BY <1>1, <1>6 DEF DataType, Expire, Prune
    <2>2. row \in ChallengeRow /\ c <= begun
        <3>1. row \in ChallengeRow
            BY <2>1 DEF ChallengeRow
        <3>2. ~(c > begun) /\ c \in Int
            BY <1>1, <2>1 DEF DataType, Number
        <3>. QED
            BY <1>1, <3>1, <3>2
    <2>3. challenge' = [challenge EXCEPT ![c] = row] \/ challenge' = [challenge EXCEPT ![c] = None]
        BY <1>1, <1>6 DEF Expire, Prune, DataType
    <2>4. UNCHANGED <<begun, user, session, backup, admin, step, history>>
        BY <1>6 DEF Expire, Prune
    <2> HIDE DEF row
    <2>. QED
        BY <1>3, <2>2, <2>3, <2>4, ChallengeDataType
<1>7. ASSUME NEW s \in Id, NEW at, NEW typed, BeginAuthed(s, at, typed) PROVE DataType'
    BY <1>2, <1>7, BeginDataType DEF BeginAuthed, tables
<1>8. ASSUME NEW s \in Id, Logout(s) PROVE DataType'
    <2>1. session' \in [Id -> SessionRow \cup {None}]
        BY <1>1, <1>8 DEF Logout, DataType
    <2>2. \A n \in Number : n > begun => session'[n] = None
        BY <1>1, <1>8, Numbers DEF Logout, DataType
    <2>. QED
        BY <1>1, <1>3, <1>8, <2>1, <2>2, SessionDataType DEF Logout, DataType, history
<1>9. CASE ResetPassword
    <2>1. begun' = begun + 1 /\ begun' >= begun /\ begun' \in Id
        BY <1>2, <1>9 DEF ResetPassword, RequestType
    <2>2. user' \in UserRow
        BY <1>1, <1>9, <2>1 DEF ResetPassword, DataType, UserRow
    <2>3. session' \in [Id -> SessionRow \cup {None}]
            /\ \A n \in Number : n > begun => session'[n] = None
        BY <1>9, Numbers DEF ResetPassword
    <2>. QED
        BY <1>1, <1>9, <2>1, <2>2, <2>3, SessionDataType DEF ResetPassword, DataType, history
<1>10. CASE DisableLogin
    <2>1. user' \in UserRow
        BY <1>1, <1>10 DEF DisableLogin, DataType, UserRow
    <2>2. session' \in [Id -> SessionRow \cup {None}]
            /\ \A n \in Number : n > begun => session'[n] = None
        BY <1>10, Numbers DEF DisableLogin
    <2>. QED
        BY <1>1, <1>3, <1>10, <2>1, <2>2, SessionDataType DEF DisableLogin, DataType, history
<1>11. CASE Tick
    <2>1. step' \in 0..MaxStep
        BY <1>1, <1>11 DEF Tick, DataType
    <2>. QED
        BY <1>1, <1>11, <2>1 DEF Tick, DataType, tables, history
<1>12. CASE UNCHANGED vars
    BY <1>3, <1>12, BeginDataType DEF vars, tables
<1>. QED
    BY <1>4, <1>5, <1>6, <1>7, <1>8, <1>9, <1>10, <1>11, <1>12, RequestDataType
    DEF Next, BeginChangePassword, BeginEnrollStart, BeginEmailFactor, BeginRegenerate,
        BeginEnrollConfirm, BeginStepUp, BeginDisable

-----------------------------------------------------------------------------
(* Attempts.                                                               *)

LEMMA AttemptsKept ==
    ASSUME AttemptsInv, Narrows, UNCHANGED <<wrong, raced>>,
           \A c \in Number :
               \/ challenge'[c] = None
               \/ challenge[c] # None /\ challenge'[c].attempts = challenge[c].attempts
    PROVE  AttemptsInv'
BY DEF AttemptsInv, Narrows

LEMMA Times == \A x, y \in Nat : x * y \in Nat /\ (x + 1) * y = x * y + y
OBVIOUS

LEMMA FailAttempts ==
    ASSUME IInv, Narrows, NEW r \in Number, Fail(r)
    PROVE  AttemptsInv'
<1> DEFINE c == request[r].answers
           n == request[r].row.attempts
           M == MAX_CHALLENGE_ATTEMPTS
           K == M - 1
<1>1. DataType /\ RequestType /\ AttemptsInv /\ request[r] # None /\ Holds(request[r])
    BY TypeParts DEF IInv, Fail, At, RequestInv
<1>2. c \in Number /\ n \in 0..K /\ K \in Nat /\ M = K + 1 /\ M \in Nat
    BY <1>1 DEF Fail, At, Holds, ChallengeRow
<1>3. ~Pending(c)
    BY <1>1, <1>2 DEF AttemptsInv
<1>4. ASSUME NEW k \in Number, k # c
      PROVE  challenge'[k] = challenge[k] /\ wrong'[k] = wrong[k] /\ raced'[k] = raced[k]
    BY <1>1, <1>2, <1>4 DEF Fail, DataType
<1>5. wrong'[c] = wrong[c] + 1 /\ wrong[c] \in Nat /\ raced[c] \in Nat
    BY <1>1, <1>2 DEF Fail, DataType
<1>6. ASSUME challenge'[c] # None
      PROVE  wrong'[c] <= challenge'[c].attempts + raced'[c] * K
    <2>1. challenge[c] # None /\ challenge[c] \in ChallengeRow
        BY <1>1, <1>2, <1>6 DEF Fail, DataType
    <2>2. challenge'[c].attempts = n + 1 /\ challenge[c].attempts \in 0..K
        BY <1>1, <1>2, <1>6, <2>1 DEF Fail, DataType, ChallengeRow
    <2>3. wrong[c] <= challenge[c].attempts + raced[c] * K
        BY <1>1, <1>2, <2>1 DEF AttemptsInv
    <2>4. raced[c] * K \in Nat /\ (raced[c] + 1) * K = raced[c] * K + K
        BY <1>2, <1>5, Times
    <2>5. CASE challenge[c].attempts = n
        <3>1. raced'[c] = raced[c]
            BY <1>1, <1>2, <2>1, <2>5 DEF Fail, DataType
        <3>2. wrong'[c] <= n + 1 + raced[c] * K
            BY <1>2, <1>5, <2>3, <2>4, <2>5
        <3>. QED
            BY <2>2, <3>1, <3>2
    <2>6. CASE challenge[c].attempts # n
        <3>1. raced'[c] = raced[c] + 1
            BY <1>1, <1>2, <2>1, <2>6 DEF Fail, DataType
        <3>2. wrong'[c] <= n + 1 + (raced[c] * K + K)
            BY <1>2, <1>5, <2>2, <2>3, <2>4
        <3>. QED
            BY <2>2, <2>4, <3>1, <3>2
    <2>. QED
        BY <2>5, <2>6
<1> HIDE DEF c
<1>7. ASSUME NEW k \in Number, Pending(k)'
      PROVE  /\ challenge'[k] = None
             /\ wrong'[k] = 0
             /\ \A p \in Number : request'[p] # None => request'[p].answers # k
    <2>1. Pending(k) /\ k # c
        BY <1>3, <1>7 DEF Narrows
    <2>. QED
        BY <1>1, <1>4, <1>7, <2>1 DEF Narrows, AttemptsInv
<1>8. ASSUME NEW k \in Number, challenge'[k] # None
      PROVE  wrong'[k] <= challenge'[k].attempts + raced'[k] * K
    BY <1>1, <1>4, <1>6, <1>8 DEF AttemptsInv
<1>. QED
    BY <1>7, <1>8 DEF AttemptsInv

LEMMA AttemptsStep ==
    ASSUME IInv, Narrows, RequestType', [Next]_vars
    PROVE  AttemptsInv'
<1>1. DataType /\ RequestType /\ AttemptsInv
    BY TypeParts DEF IInv
<1>2. ASSUME NEW c, UNCHANGED <<wrong, raced>>,
             challenge' = [challenge EXCEPT ![c] = None] \/ UNCHANGED challenge
      PROVE  AttemptsInv'
    BY <1>1, <1>2, AttemptsKept DEF DataType
<1>3. ASSUME NEW c \in Number, Expire(c) PROVE AttemptsInv'
    <2>1. challenge[c] # None /\ challenge[c] \in ChallengeRow
        BY <1>1, <1>3 DEF Expire, DataType
    <2>2. challenge' = [challenge EXCEPT ![c] = [challenge[c] EXCEPT !.expired = TRUE]]
            /\ UNCHANGED <<wrong, raced>>
        BY <1>1, <1>3 DEF Expire, DataType, history
    <2>3. [challenge[c] EXCEPT !.expired = TRUE].attempts = challenge[c].attempts
        BY <2>1 DEF ChallengeRow
    <2>4. \A k \in Number :
               \/ challenge'[k] = None
               \/ challenge[k] # None /\ challenge'[k].attempts = challenge[k].attempts
        BY <1>1, <2>1, <2>2, <2>3 DEF DataType
    <2>. QED
        BY <1>1, <2>2, <2>4, AttemptsKept
<1>4. ASSUME NEW r \in Number, StartChallenge(r) PROVE AttemptsInv'
    <2> DEFINE row == [method |-> MethodFor(request[r].user), password |-> request[r].first,
                       attempts |-> 0, expired |-> FALSE]
    <2>1. challenge' = [challenge EXCEPT ![r] = row] /\ UNCHANGED <<wrong, raced, begun>>
            /\ request' = [request EXCEPT ![r] = None] /\ request[r] # None
        BY <1>4 DEF StartChallenge, history, Finish, At
    <2>2. row.attempts = 0
        OBVIOUS
    <2> HIDE DEF row
    <2>3. Pending(r) /\ wrong[r] = 0 /\ ~Pending(r)'
        <3>1. r <= begun /\ ~(r > begun)
            BY <1>1, <2>1 DEF RequestType, Number, Id
        <3>2. request'[r] = None
            BY <1>1, <2>1 DEF RequestType
        <3>. QED
            BY <1>1, <2>1, <3>1, <3>2 DEF Pending, AttemptsInv
    <2>4. raced[r] * (MAX_CHALLENGE_ATTEMPTS - 1) \in Nat
        BY <1>1, Times DEF DataType
    <2>5. challenge'[r] = row /\ \A k \in Number \ {r} : challenge'[k] = challenge[k]
        BY <1>1, <2>1 DEF DataType
    <2>6. wrong'[r] <= challenge'[r].attempts + raced'[r] * (MAX_CHALLENGE_ATTEMPTS - 1)
        BY <2>1, <2>2, <2>3, <2>4, <2>5
    <2>. QED
        BY <1>1, <2>1, <2>3, <2>5, <2>6 DEF AttemptsInv, Narrows
<1>5. ASSUME NEW c \in Number, NEW typed, NEW resend, BeginAnswer(c, typed, resend)
      PROVE  AttemptsInv'
    BY <1>2, <1>5 DEF BeginAnswer, history
<1>6. ASSUME NEW r \in Number, \/ Rehash(r) \/ OpenSession(r)
           \/ ReadUser(r) \/ SpendStep(r) \/ ConsumeBackupCode(r)
           \/ DiscardChallenge(r) \/ WritePassword(r) \/ WriteSecret(r) \/ WriteConfirmed(r)
           \/ WriteEmailFactor(r) \/ ReplaceBackupCodes(r) \/ WriteDisabled(r)
           \/ SpendStepUp(r) \/ StampSession(r) \/ HandlerDies(r)
      PROVE  AttemptsInv'
    <2>1. UNCHANGED <<wrong, raced>>
        BY <1>6 DEF Rehash, OpenSession, ReadUser, SpendStep, ConsumeBackupCode,
           DiscardChallenge, WritePassword, WriteSecret, WriteConfirmed, WriteEmailFactor,
           ReplaceBackupCodes, WriteDisabled, SpendStepUp, StampSession, HandlerDies, history
    <2>2. \/ challenge' = [challenge EXCEPT ![request[r].answers] = None]
          \/ UNCHANGED challenge
        BY <1>6 DEF Rehash, OpenSession, ReadUser, SpendStep, ConsumeBackupCode,
           DiscardChallenge, WritePassword, WriteSecret, WriteConfirmed, WriteEmailFactor,
           ReplaceBackupCodes, WriteDisabled, SpendStepUp, StampSession, HandlerDies, tables
    <2>. QED
        BY <1>2, <2>1, <2>2
<1>7. ASSUME NEW c \in Number, Prune(c) PROVE AttemptsInv'
    BY <1>2, <1>7 DEF Prune, history
<1>8. ASSUME NEW google, BeginLogin(google) PROVE AttemptsInv'
    BY <1>2, <1>8 DEF BeginLogin, tables, history
<1>9. ASSUME NEW s, NEW at, NEW typed, BeginAuthed(s, at, typed) PROVE AttemptsInv'
    BY <1>2, <1>9 DEF BeginAuthed, tables, history
<1>10. ASSUME \/ \E s \in Id : Logout(s)
              \/ ResetPassword \/ DisableLogin \/ Tick \/ UNCHANGED vars
       PROVE  AttemptsInv'
    <2>1. UNCHANGED <<challenge, wrong, raced>>
        BY <1>10 DEF Logout, ResetPassword, DisableLogin, Tick, vars, tables, history
    <2>. QED
        BY <1>2, <2>1
<1>. QED
    BY <1>3, <1>4, <1>5, <1>6, <1>7, <1>8, <1>9, <1>10, FailAttempts
    DEF Next, BeginChangePassword, BeginEnrollStart, BeginEmailFactor, BeginRegenerate,
        BeginEnrollConfirm, BeginStepUp, BeginDisable

-----------------------------------------------------------------------------
(* Secrets, backup codes, and what was spent.                              *)

(* A secret, a typed code and an accepted one name no unborn number.       *)
LEMMA SecretStep ==
    ASSUME IInv, Narrows, RequestType', [Next]_vars
    PROVE  SecretInv'
<1>1. DataType /\ RequestType /\ SecretInv /\ RequestInv
    BY TypeParts DEF IInv
<1>2. ASSUME user'.secret = user.secret, UNCHANGED spent PROVE SecretInv'
    BY <1>1, <1>2 DEF SecretInv, Narrows
<1>3. ASSUME NEW r \in Number, user'.secret = user.secret, request[r] # None,
             Accept(request[r].typed), request[r].typed \in Typed
      PROVE  SecretInv'
    <2> DEFINE t == request[r].typed
    <2>1. ASSUME NEW n \in Number, Unborn(n)', NEW c \in spent', c.by = "totp"
          PROVE  c.of # n
        <3>1. Unborn(n)
            BY <2>1 DEF Narrows
        <3>2. CASE c \in spent
            BY <1>1, <2>1, <3>1, <3>2 DEF SecretInv
        <3>3. CASE c = t
            BY <1>1, <1>3, <2>1, <3>1, <3>3 DEF SecretInv, UsesTotp
        <3>. QED
            BY <1>3, <2>1, <3>2, <3>3 DEF Accept
    <2>. QED
        BY <1>1, <1>3, <2>1 DEF SecretInv, Narrows
<1>4. ASSUME NEW r \in Number, WriteSecret(r) PROVE SecretInv'
    <2>1. user'.secret = r /\ UNCHANGED <<spent, begun>> /\ Finish(r) /\ request[r] # None
        BY <1>1, <1>4 DEF WriteSecret, DataType, UserRow, At
    <2>2. ~Unborn(r)'
        <3>1. ~(r > begun) /\ request'[r] = None
            BY <1>1, <2>1 DEF RequestType, Finish
        <3>. QED
            BY <2>1, <3>1 DEF Unborn, At
    <2>3. ASSUME NEW n \in Number, Unborn(n)' PROVE user'.secret # n
        BY <2>1, <2>2, <2>3
    <2>. QED
        BY <1>1, <2>1, <2>3 DEF SecretInv, Narrows
<1>5. ASSUME NEW r \in Number, WriteDisabled(r) PROVE SecretInv'
    <2>1. user'.secret = None /\ UNCHANGED spent
        BY <1>1, <1>5 DEF WriteDisabled, DataType, UserRow, history
    <2>2. \A n \in Number : user'.secret # n
        BY <2>1, Numbers
    <2>. QED
        BY <1>1, <2>1, <2>2 DEF SecretInv, Narrows
<1>6. ASSUME NEW r \in Number, SpendStep(r) \/ SpendStepUp(r) PROVE SecretInv'
    <2>1. user'.secret = user.secret /\ request[r] # None
        BY <1>1, <1>6 DEF SpendStep, SpendStepUp, DataType, UserRow, At
    <2>2. request[r].typed \in Typed
        BY <1>1, <1>6 DEF SpendStep, SpendStepUp, At, RequestInv, Holds, TotpOf
    <2>3. Accept(request[r].typed) \/ UNCHANGED spent
        BY <1>6 DEF SpendStep, SpendStepUp
    <2>. QED
        BY <1>2, <1>3, <2>1, <2>2, <2>3
<1>7. ASSUME NEW r \in Number, ConsumeBackupCode(r) PROVE SecretInv'
    <2>1. UNCHANGED user /\ request[r] # None
        BY <1>7 DEF ConsumeBackupCode, At
    <2>2. request[r].typed \in Typed
        BY <1>1, <1>7 DEF ConsumeBackupCode, At, RequestInv, Holds
    <2>3. Accept(request[r].typed) \/ UNCHANGED spent
        BY <1>7 DEF ConsumeBackupCode
    <2>. QED
        BY <1>2, <1>3, <2>1, <2>2, <2>3
<1>8. ASSUME NEW r \in Number, \/ Rehash(r) \/ StartChallenge(r) \/ OpenSession(r)
           \/ ReadUser(r) \/ Fail(r)
           \/ DiscardChallenge(r) \/ WritePassword(r) \/ WriteConfirmed(r)
           \/ WriteEmailFactor(r) \/ ReplaceBackupCodes(r)
           \/ StampSession(r) \/ HandlerDies(r)
      PROVE  SecretInv'
    <2>1. UNCHANGED spent
        BY <1>8 DEF Rehash, StartChallenge, OpenSession, ReadUser, Fail, DiscardChallenge,
           WritePassword, WriteConfirmed, WriteEmailFactor, ReplaceBackupCodes, StampSession,
           HandlerDies, history
    <2>2. user'.secret = user.secret
        BY <1>1, <1>8 DEF Rehash, StartChallenge, OpenSession, ReadUser, Fail,
           DiscardChallenge, WritePassword, WriteConfirmed, WriteEmailFactor,
           ReplaceBackupCodes, StampSession, HandlerDies, tables, DataType, UserRow
    <2>. QED
        BY <1>2, <2>1, <2>2
<1>9. ASSUME NEW c, NEW typed, NEW resend, BeginAnswer(c, typed, resend) PROVE SecretInv'
    BY <1>2, <1>9 DEF BeginAnswer, history
<1>10. ASSUME NEW s, NEW at, NEW typed, BeginAuthed(s, at, typed) PROVE SecretInv'
    BY <1>2, <1>10 DEF BeginAuthed, tables, history
<1>11. ASSUME \/ \E google \in BOOLEAN : BeginLogin(google)
              \/ \E c \in Number : Expire(c) \/ Prune(c)
              \/ \E s \in Id : Logout(s)
              \/ ResetPassword \/ DisableLogin \/ Tick \/ UNCHANGED vars
       PROVE  SecretInv'
    <2>1. UNCHANGED spent
        BY <1>11 DEF BeginLogin, Expire, Prune, Logout, ResetPassword, DisableLogin, Tick,
           vars, tables, history
    <2>2. user'.secret = user.secret
        BY <1>1, <1>11 DEF BeginLogin, Expire, Prune, Logout, ResetPassword, DisableLogin,
           Tick, vars, tables, DataType, UserRow
    <2>. QED
        BY <1>2, <2>1, <2>2
<1>. QED
    BY <1>4, <1>5, <1>6, <1>7, <1>8, <1>9, <1>10, <1>11
    DEF Next, BeginChangePassword, BeginEnrollStart, BeginEmailFactor, BeginRegenerate,
        BeginEnrollConfirm, BeginStepUp, BeginDisable

(* A backup code is one of a request that has ended, and is gone once it   *)
(* was accepted.                                                           *)
LEMMA BackupStep ==
    ASSUME IInv, Narrows, RequestType', [Next]_vars
    PROVE  BackupInv'
<1> DEFINE Code(n) == [by |-> "backup", of |-> n]
<1>1. DataType /\ RequestType /\ BackupInv /\ RequestInv
    BY TypeParts DEF IInv
<1>2. ASSUME backup' \subseteq backup, \A n \in Id : Code(n) \in spent' => Code(n) \in spent
      PROVE  BackupInv'
    BY <1>1, <1>2, Numbers DEF BackupInv, Narrows, DataType
<1>3. ASSUME NEW r \in Number, SpendStep(r) \/ SpendStepUp(r) PROVE BackupInv'
    <2>1. request[r].typed.by = "totp"
        BY <1>1, <1>3 DEF SpendStep, SpendStepUp, At, RequestInv, Holds, TotpOf
    <2>2. \A n \in Id : Code(n) # request[r].typed
        BY <2>1
    <2>3. UNCHANGED backup /\ spent' \subseteq spent \cup {request[r].typed}
        BY <1>3 DEF SpendStep, SpendStepUp, Accept
    <2>. QED
        BY <1>2, <2>2, <2>3
<1>4. ASSUME NEW r \in Number, ConsumeBackupCode(r) PROVE BackupInv'
    <2> DEFINE t == request[r].typed
    <2>1. t \in Typed /\ t.by = "backup"
        BY <1>1, <1>4 DEF ConsumeBackupCode, At, RequestInv, Holds
    <2>2. t.of \in Id /\ t = Code(t.of)
        BY <2>1, BackupFields
    <2>3. CASE t.of \notin backup
        <3>1. UNCHANGED <<backup, spent>>
            BY <1>4, <2>3 DEF ConsumeBackupCode
        <3>. QED
            BY <1>2, <3>1
    <2>4. CASE t.of \in backup
        <3>1. backup' = backup \ {t.of} /\ spent' = spent \cup {t}
            BY <1>4, <2>4 DEF ConsumeBackupCode, Accept
        <3> HIDE DEF t
        <3>2. ASSUME NEW n, n # t.of, Code(n) \in spent' PROVE Code(n) \in spent
            <4>1. Code(n).of = n
                OBVIOUS
            <4>2. Code(n) # t
                BY <3>2, <4>1
            <4>. QED
                BY <3>1, <3>2, <4>2
        <3>3. \A n \in Number : Pending(n)' => n # t.of
            BY <1>1, <2>4 DEF BackupInv, Narrows
        <3>4. \A n \in Number : Pending(n)' => n \notin backup' /\ Code(n) \notin spent'
            BY <1>1, <3>1, <3>2, <3>3 DEF BackupInv, Narrows
        <3>5. \A n \in backup' : Code(n) \notin spent'
            BY <1>1, <3>1, <3>2 DEF BackupInv
        <3>. QED
            BY <3>4, <3>5 DEF BackupInv
    <2>. QED
        BY <2>3, <2>4
<1>5. ASSUME NEW r \in Number, ReplaceBackupCodes(r) PROVE BackupInv'
    <2>1. backup' = {r} /\ UNCHANGED <<spent, begun>> /\ Finish(r) /\ request[r] # None
        BY <1>5 DEF ReplaceBackupCodes, At, history
    <2>2. Pending(r) /\ ~Pending(r)'
        <3>1. ~(r > begun) /\ request'[r] = None
            BY <1>1, <2>1 DEF RequestType, Finish
        <3>. QED
            BY <2>1, <3>1 DEF Pending
    <2>3. Code(r) \notin spent
        BY <1>1, <2>2 DEF BackupInv
    <2>4. ASSUME NEW n \in Number, Pending(n)' PROVE n \notin backup' /\ Code(n) \notin spent'
        <3>1. n # r /\ Pending(n)
            BY <2>2, <2>4 DEF Narrows
        <3>. QED
            BY <1>1, <2>1, <3>1 DEF BackupInv
    <2>. QED
        BY <2>1, <2>3, <2>4 DEF BackupInv
<1>6. ASSUME NEW r \in Number, \/ Rehash(r) \/ StartChallenge(r) \/ OpenSession(r)
           \/ ReadUser(r) \/ Fail(r)
           \/ DiscardChallenge(r) \/ WritePassword(r) \/ WriteSecret(r) \/ WriteConfirmed(r)
           \/ WriteEmailFactor(r) \/ WriteDisabled(r)
           \/ StampSession(r) \/ HandlerDies(r)
      PROVE  BackupInv'
    <2>1. UNCHANGED spent /\ backup' \subseteq backup
        BY <1>6 DEF Rehash, StartChallenge, OpenSession, ReadUser, Fail, DiscardChallenge,
           WritePassword, WriteSecret, WriteConfirmed, WriteEmailFactor, WriteDisabled,
           StampSession, HandlerDies, history, tables
    <2>. QED
        BY <1>2, <2>1
<1>7. ASSUME NEW c, NEW typed, NEW resend, BeginAnswer(c, typed, resend) PROVE BackupInv'
    BY <1>2, <1>7 DEF BeginAnswer, history
<1>8. ASSUME NEW s, NEW at, NEW typed, BeginAuthed(s, at, typed) PROVE BackupInv'
    BY <1>2, <1>8 DEF BeginAuthed, tables, history
<1>9. ASSUME \/ \E google \in BOOLEAN : BeginLogin(google)
             \/ \E c \in Number : Expire(c) \/ Prune(c)
             \/ \E s \in Id : Logout(s)
             \/ ResetPassword \/ DisableLogin \/ Tick \/ UNCHANGED vars
       PROVE  BackupInv'
    <2>1. UNCHANGED <<spent, backup>>
        BY <1>9 DEF BeginLogin, Expire, Prune, Logout, ResetPassword, DisableLogin, Tick,
           vars, tables, history
    <2>. QED
        BY <1>2, <2>1
<1>. QED
    BY <1>3, <1>4, <1>5, <1>6, <1>7, <1>8, <1>9
    DEF Next, BeginChangePassword, BeginEnrollStart, BeginEmailFactor, BeginRegenerate,
        BeginEnrollConfirm, BeginStepUp, BeginDisable

(* As long as no step was spent over a row that had changed, the last step *)
(* only moves on, and stands at or after every code that was accepted.     *)
LEMMA SpentStep ==
    ASSUME IInv, Narrows, RequestType', [Next]_vars
    PROVE  SpentInv'
<1>1. DataType /\ RequestType /\ RequestInv /\ SecretInv /\ BackupInv /\ SpentInv
    BY TypeParts DEF IInv
<1>2. ASSUME user'.secret = user.secret, user'.lastStep = user.lastStep,
             UNCHANGED <<spent, again, admin>>, overtaken \subseteq overtaken'
      PROVE  SpentInv'
    BY <1>1, <1>2 DEF SpentInv
<1>3. ASSUME NEW c \in spent, c.by = "totp" PROVE c.of \in Id /\ c.step \in Int
    BY <1>1, <1>3, TotpFields DEF DataType
<1>4. user.lastStep \in (0..MaxStep + 1) \cup {None} /\ user \in UserRow
    BY <1>1 DEF DataType, UserRow
(* An accepted code is later than the last step, which moves up to it.     *)
<1>5. ASSUME NEW t, t \in Typed, t.by = "totp", Accept(t), user'.secret = user.secret,
             user'.lastStep = t.step, UNCHANGED admin, overtaken \subseteq overtaken',
             "step" \notin overtaken' =>
                 /\ admin \/ t.of = user.secret
                 /\ user.lastStep # None => t.step > user.lastStep
      PROVE  SpentInv'
    <2> SUFFICES ASSUME "step" \notin overtaken'
                 PROVE  /\ again' = {}
                        /\ \A c \in spent' : c.by = "totp" /\ (admin' \/ c.of = user'.secret) =>
                               user'.lastStep # None /\ c.step <= user'.lastStep
        BY DEF SpentInv
    <2>1. t.step \in Int
        BY <1>5, TotpFields
    <2>2. ASSUME NEW c \in spent, c.by = "totp", admin \/ c.of = user.secret
          PROVE  c.step < t.step
        <3>1. user.lastStep # None /\ c.step <= user.lastStep
            BY <1>1, <1>5, <2>2 DEF SpentInv
        <3>2. t.step > user.lastStep /\ user.lastStep \in Int
            BY <1>4, <1>5, <3>1
        <3>. QED
            BY <1>3, <2>1, <2>2, <3>1, <3>2
    <2>3. t \notin spent
        <3>1. SUFFICES ASSUME t \in spent PROVE FALSE
            OBVIOUS
        <3>2. t.step < t.step
            BY <1>5, <2>2, <3>1
        <3>. QED
            BY <2>1, <3>2
    <2>4. again' = {}
        BY <1>1, <1>5, <2>3 DEF SpentInv, Accept
    <2>5. ASSUME NEW c \in spent', c.by = "totp", admin' \/ c.of = user'.secret
          PROVE  user'.lastStep # None /\ c.step <= user'.lastStep
        <3>1. CASE c = t
            BY <1>5, <2>1, <3>1
        <3>2. CASE c \in spent
            <4>1. c.step < t.step /\ c.step \in Int
                BY <1>3, <1>5, <2>2, <2>5, <3>2
            <4>. QED
                BY <1>5, <2>1, <4>1
        <3>. QED
            BY <1>5, <2>5, <3>1, <3>2 DEF Accept
    <2>. QED
        BY <2>4, <2>5
<1>6. ASSUME NEW r \in Number, SpendStep(r) PROVE SpentInv'
    <2> DEFINE q == request[r]
    <2>1. /\ q.typed \in Typed /\ q.typed.by = "totp" /\ q.typed.of = q.user.secret
          /\ q.user.lastStep # None => q.typed.step > q.user.lastStep
        BY <1>1, <1>6 DEF SpendStep, At, RequestInv, Holds, TotpOf
    <2>2. /\ user'.secret = user.secret /\ user'.lastStep = q.typed.step
          /\ Accept(q.typed) /\ UNCHANGED admin /\ overtaken \subseteq overtaken'
        BY <1>4, <1>6 DEF SpendStep, UserRow
    <2>3. "step" \notin overtaken' => user = q.user
        BY <1>6 DEF SpendStep
    <2>. QED
        BY <1>5, <2>1, <2>2, <2>3
<1>7. ASSUME NEW r \in Number, SpendStepUp(r) PROVE SpentInv'
    <2> DEFINE q == request[r]
    <2>1. admin /\ q.typed \in Typed /\ q.typed.by = "totp"
        BY <1>1, <1>7 DEF SpendStepUp, At, RequestInv, Holds
    <2>2. CASE user.lastStep = None \/ user.lastStep < q.typed.step
        <3>1. /\ user'.secret = user.secret /\ user'.lastStep = q.typed.step
              /\ Accept(q.typed) /\ UNCHANGED <<admin, overtaken>>
            BY <1>4, <1>7, <2>2 DEF SpendStepUp, UserRow
        <3>2. user.lastStep # None => q.typed.step > user.lastStep
            BY <2>2
        <3>. QED
            BY <1>5, <2>1, <3>1, <3>2
    <2>3. CASE ~(user.lastStep = None \/ user.lastStep < q.typed.step)
        BY <1>2, <1>7, <2>3 DEF SpendStepUp
    <2>. QED
        BY <2>2, <2>3
<1>8. ASSUME NEW r \in Number, ConsumeBackupCode(r) PROVE SpentInv'
    <2> DEFINE t == request[r].typed
    <2>1. t \in Typed /\ t.by = "backup"
        BY <1>1, <1>8 DEF ConsumeBackupCode, At, RequestInv, Holds
    <2>2. CASE t.of \notin backup
        BY <1>2, <1>8, <2>2 DEF ConsumeBackupCode
    <2>3. CASE t.of \in backup
        <3>1. t \notin spent
            BY <1>1, <2>1, <2>3, BackupFields DEF BackupInv
        <3>2. UNCHANGED <<user, admin, overtaken>> /\ Accept(t)
            BY <1>8, <2>3 DEF ConsumeBackupCode
        <3>3. again' = again /\ spent' = spent \cup {t}
            BY <3>1, <3>2 DEF Accept
        <3>. QED
            BY <1>1, <2>1, <3>2, <3>3 DEF SpentInv
    <2>. QED
        BY <2>2, <2>3
<1>9. ASSUME NEW r \in Number, WriteConfirmed(r) PROVE SpentInv'
    <2> DEFINE t == request[r].typed
    <2>1. t \in Typed /\ t.by = "totp"
        BY <1>1, <1>9 DEF WriteConfirmed, At, RequestInv, Holds, TotpOf
    <2>2. t.step \in Int /\ t.step # None
        BY <2>1, TotpFields
    <2>3. /\ user'.secret = user.secret /\ user'.lastStep = t.step
          /\ UNCHANGED <<spent, again, admin>> /\ overtaken \subseteq overtaken'
        BY <1>4, <1>9 DEF WriteConfirmed, UserRow
    <2>4. "step" \notin overtaken' => user.lastStep = None \/ ~(t.step < user.lastStep)
        BY <1>9 DEF WriteConfirmed
    <2> HIDE DEF t
    <2>5. ASSUME "step" \notin overtaken', NEW c \in spent, c.by = "totp",
                 admin \/ c.of = user.secret
          PROVE  c.step <= t.step
        <3>1. user.lastStep # None /\ c.step <= user.lastStep
            BY <1>1, <2>3, <2>5 DEF SpentInv
        <3>2. user.lastStep \in Int /\ c.step \in Int
            BY <1>3, <1>4, <2>5, <3>1
        <3>. QED
            BY <2>2, <2>4, <2>5, <3>1, <3>2
    <2>. QED
        BY <1>1, <2>2, <2>3, <2>5 DEF SpentInv
<1>10. ASSUME NEW r \in Number, WriteSecret(r) PROVE SpentInv'
    <2>1. /\ user'.secret = r /\ user'.lastStep = user.lastStep
          /\ UNCHANGED <<spent, again, admin>> /\ overtaken \subseteq overtaken'
        BY <1>4, <1>10 DEF WriteSecret, UserRow
    <2>2. \A c \in spent : c.by = "totp" => c.of # r
        BY <1>1, <1>10 DEF WriteSecret, SecretInv, Unborn
    <2>. QED
        BY <1>1, <2>1, <2>2 DEF SpentInv
<1>11. ASSUME NEW r \in Number, WriteDisabled(r) PROVE SpentInv'
    <2>1. ~admin
        BY <1>1, <1>11 DEF WriteDisabled, At, RequestInv, Holds
    <2>2. user'.secret = None /\ UNCHANGED <<spent, again, admin, overtaken>>
        BY <1>4, <1>11 DEF WriteDisabled, UserRow, history
    <2>3. \A c \in spent : c.by = "totp" => c.of # None
        BY <1>3, Numbers
    <2>. QED
        BY <1>1, <2>1, <2>2, <2>3 DEF SpentInv
<1>12. ASSUME NEW r \in Number, \/ Rehash(r) \/ StartChallenge(r) \/ OpenSession(r)
           \/ ReadUser(r) \/ Fail(r)
           \/ DiscardChallenge(r) \/ WritePassword(r)
           \/ WriteEmailFactor(r) \/ ReplaceBackupCodes(r)
           \/ StampSession(r) \/ HandlerDies(r)
      PROVE  SpentInv'
    <2>1. UNCHANGED <<spent, again, admin>> /\ overtaken \subseteq overtaken'
        BY <1>12 DEF Rehash, StartChallenge, OpenSession, ReadUser, Fail, DiscardChallenge,
           WritePassword, WriteEmailFactor, ReplaceBackupCodes, StampSession,
           HandlerDies, history, tables
    <2>2. user'.secret = user.secret /\ user'.lastStep = user.lastStep
        BY <1>4, <1>12 DEF Rehash, StartChallenge, OpenSession, ReadUser, Fail,
           DiscardChallenge, WritePassword, WriteEmailFactor,
           ReplaceBackupCodes, StampSession, HandlerDies, tables, UserRow
    <2>. QED
        BY <1>2, <2>1, <2>2
<1>13. ASSUME NEW c, NEW typed, NEW resend, BeginAnswer(c, typed, resend) PROVE SpentInv'
    BY <1>2, <1>13 DEF BeginAnswer, history
<1>14. ASSUME NEW s, NEW at, NEW typed, BeginAuthed(s, at, typed) PROVE SpentInv'
    BY <1>2, <1>14 DEF BeginAuthed, tables, history
<1>15. ASSUME \/ \E google \in BOOLEAN : BeginLogin(google)
              \/ \E c \in Number : Expire(c) \/ Prune(c)
              \/ \E s \in Id : Logout(s)
              \/ ResetPassword \/ DisableLogin \/ Tick \/ UNCHANGED vars
       PROVE  SpentInv'
    <2>1. UNCHANGED <<spent, again, admin, overtaken>>
        BY <1>15 DEF BeginLogin, Expire, Prune, Logout, ResetPassword, DisableLogin, Tick,
           vars, tables, history
    <2>2. user'.secret = user.secret /\ user'.lastStep = user.lastStep
        BY <1>4, <1>15 DEF BeginLogin, Expire, Prune, Logout, ResetPassword, DisableLogin,
           Tick, vars, tables, UserRow
    <2>. QED
        BY <1>2, <2>1, <2>2
<1>. QED
    BY <1>6, <1>7, <1>8, <1>9, <1>10, <1>11, <1>12, <1>13, <1>14, <1>15
    DEF Next, BeginChangePassword, BeginEnrollStart, BeginEmailFactor, BeginRegenerate,
        BeginEnrollConfirm, BeginStepUp, BeginDisable

-----------------------------------------------------------------------------
(* The theorems.                                                           *)

LEMMA InitIInv == Init => IInv
<1> SUFFICES ASSUME Init PROVE IInv
    OBVIOUS
<1>1. \A r \in Number : request[r] = None /\ challenge[r] = None /\ wrong[r] = 0
    BY DEF Init
<1>2. begun = 0 /\ spent = {} /\ again = {}
    BY DEF Init
<1>3. RequestType
    BY <1>1, <1>2, Numbers DEF Init, RequestType
<1>4. user \in UserRow /\ backup \subseteq {0} /\ proven \subseteq {0} /\ admin \in BOOLEAN
        /\ user.secret \in {0, None}
    <2>1. PICK factor \in {"none", "totp", "email"}, old \in BOOLEAN :
              /\ user = [password |-> 0, old |-> old, disabled |-> FALSE, method |-> factor,
                         secret |-> IF factor = "totp" THEN 0 ELSE None,
                         confirmed |-> factor = "totp", lastStep |-> None]
              /\ backup = IF factor = "none" THEN {} ELSE {0}
              /\ proven = IF factor = "totp" THEN {0} ELSE {}
        BY DEF Init
    <2>2. (factor = "totp") \in BOOLEAN
        OBVIOUS
    <2>3. user \in UserRow
        BY <2>1, <2>2, Numbers DEF UserRow
    <2>. QED
        BY <2>1, <2>3 DEF Init
<1>5. DataType
    <2>1. session \in [Id -> SessionRow \cup {None}]
        BY Numbers DEF Init, SessionRow
    <2>2. \A r \in Number : session[r] = None
        BY Numbers DEF Init, Number
    <2>3. /\ challenge \in [Number -> ChallengeRow \cup {None}]
          /\ wrong \in [Number -> Nat] /\ raced \in [Number -> Nat]
          /\ step \in 0..MaxStep
        BY DEF Init
    <2>4. late = {} /\ overtaken = {} /\ backup \subseteq Id /\ proven \subseteq Id
        BY <1>4, Numbers DEF Init
    <2>. QED
        BY <1>1, <1>2, <1>4, <2>1, <2>2, <2>3, <2>4 DEF DataType
<1>6. RequestInv /\ SpentInv
    BY <1>1, <1>2 DEF RequestInv, SpentInv
<1>7. SecretInv
    BY <1>1, <1>2, <1>4, Numbers DEF SecretInv, Number
<1>8. BackupInv
    BY <1>2, <1>4 DEF BackupInv, Number
<1>9. AttemptsInv
    BY <1>1 DEF AttemptsInv
<1>. QED
    BY <1>3, <1>5, <1>6, <1>7, <1>8, <1>9, TypeParts DEF IInv

LEMMA NextIInv == IInv /\ [Next]_vars => IInv'
<1> SUFFICES ASSUME IInv, [Next]_vars PROVE IInv'
    OBVIOUS
<1>1. RequestType' /\ RequestInv' /\ Narrows
    BY NextMoves
<1>2. DataType'
    BY <1>1, NextDataType
<1>. QED
    BY <1>1, <1>2, TypeParts, SecretStep, BackupStep, SpentStep, AttemptsStep DEF IInv

(* The conjunction above is inductive.                                     *)
THEOREM Invariance == Spec => []IInv
BY InitIInv, NextIInv, PTL DEF Spec

(* Every table, handler and history keeps values of its type.              *)
THEOREM TypeCorrect == Spec => []TypeOK
<1>1. IInv => TypeOK
    BY DEF IInv
<1>. QED
    BY <1>1, Invariance, PTL

(* A code of the app or of the backup codes that was accepted is never     *)
(* accepted again by a handler that could see its use (twoFactor.ts:214).  *)
THEOREM CodesAreAlwaysSpentOnce == Spec => []CodesAreSpentOnce
<1>1. IInv => CodesAreSpentOnce
    BY DEF IInv, SpentInv, CodesAreSpentOnce
<1>. QED
    BY <1>1, Invariance, PTL

(* However many answers to one challenge race, the cap of twoFactor.ts:31  *)
(* gives way by no more than what the stale ones took back.                *)
THEOREM AttemptsAreAlwaysCounted == Spec => []AttemptsAreCounted
<1>1. IInv => AttemptsAreCounted
    <2> SUFFICES ASSUME IInv, NEW c \in Number, challenge[c] # None
                 PROVE  wrong[c] < MAX_CHALLENGE_ATTEMPTS
                                       + raced[c] * (MAX_CHALLENGE_ATTEMPTS - 1)
        BY DEF AttemptsAreCounted
    <2>1. DataType
        BY TypeParts DEF IInv
    <2>2. challenge[c].attempts \in 0..MAX_CHALLENGE_ATTEMPTS - 1
        BY <2>1 DEF DataType, ChallengeRow
    <2>3. wrong[c] <= challenge[c].attempts + raced[c] * (MAX_CHALLENGE_ATTEMPTS - 1)
        BY DEF IInv, AttemptsInv
    <2>4. wrong[c] \in Nat /\ raced[c] * (MAX_CHALLENGE_ATTEMPTS - 1) \in Nat
        BY <2>1, Times DEF DataType
    <2>. QED
        BY <2>2, <2>3, <2>4
<1>. QED
    BY <1>1, Invariance, PTL

LEMMA PasswordStep ==
    ASSUME IInv, OldPasswordsEnd, [Next]_vars
    PROVE  OldPasswordsEnd'
<1>1. DataType /\ RequestType /\ RequestInv
    BY TypeParts DEF IInv
<1>2. user \in UserRow /\ session \in [Id -> SessionRow \cup {None}]
    BY <1>1 DEF DataType
(* No session is new, or its password another.                             *)
<1>3. ASSUME user'.password = user.password, overtaken \subseteq overtaken', late \subseteq late',
             \A s \in Id : session'[s] # None =>
                 \/ session[s] # None /\ session'[s].password = session[s].password
                 \/ session'[s].password = user.password
                 \/ s \in late'
      PROVE  OldPasswordsEnd'
    BY <1>3 DEF OldPasswordsEnd
<1>4. ASSUME NEW r \in Number, Rehash(r) PROVE OldPasswordsEnd'
    <2>1. user'.password = request[r].user.password
            /\ UNCHANGED <<session, late>> /\ overtaken \subseteq overtaken'
        BY <1>2, <1>4 DEF Rehash, UserRow
    <2>2. "password" \in overtaken' \/ user.password = request[r].user.password
        BY <1>4 DEF Rehash
    <2>. QED
        BY <1>3, <2>1, <2>2 DEF OldPasswordsEnd
<1>5. ASSUME NEW r \in Number, OpenSession(r) PROVE OldPasswordsEnd'
    <2> DEFINE row == [password |-> request[r].first, steppedUp |-> FALSE]
    <2>1. session' = [session EXCEPT ![r] = row] /\ UNCHANGED <<user, overtaken>>
            /\ late' = IF request[r].first # user.password THEN late \cup {r} ELSE late
        BY <1>5 DEF OpenSession
    <2>2. row.password = request[r].first
        OBVIOUS
    <2> HIDE DEF row
    <2>3. \A s \in Id : s # r => session'[s] = session[s]
        BY <1>2, <2>1
    <2>4. session'[r] = row
        BY <1>2, <2>1, Numbers
    <2>. QED
        BY <1>3, <2>1, <2>2, <2>3, <2>4
<1>6. ASSUME NEW r \in Number, WritePassword(r) PROVE OldPasswordsEnd'
    <2>1. user'.password = r
        BY <1>2, <1>6 DEF WritePassword, UserRow
    <2>2. ASSUME NEW s \in Id, session'[s] # None PROVE session'[s].password = r
        <3>1. session[s] # None /\ session'[s] = [session[s] EXCEPT !.password = r]
            BY <1>6, <2>2 DEF WritePassword
        <3>. QED
            BY <1>2, <3>1 DEF SessionRow
    <2>. QED
        BY <2>1, <2>2 DEF OldPasswordsEnd
<1>7. ASSUME NEW r \in Number, StampSession(r) PROVE OldPasswordsEnd'
    <2> DEFINE o == request[r].own
               row == IF session[o] = None THEN None
                      ELSE [session[o] EXCEPT !.steppedUp = TRUE]
    <2>1. o \in Id
        BY <1>1, <1>7 DEF StampSession, At, RequestInv, Holds
    <2>2. session' = [session EXCEPT ![o] = row] /\ UNCHANGED <<user, late, overtaken>>
        BY <1>2, <1>7, <2>1 DEF StampSession, history
    <2>3. row # None => session[o] # None /\ row.password = session[o].password
        BY <1>2, <2>1 DEF SessionRow
    <2> HIDE DEF row, o
    <2>4. \A s \in Id : session'[s] = IF s = o THEN row ELSE session[s]
        BY <1>2, <2>1, <2>2
    <2>5. \A s \in Id : session'[s] # None =>
              session[s] # None /\ session'[s].password = session[s].password
        BY <2>3, <2>4
    <2>. QED
        BY <1>3, <2>2, <2>5
<1>8. ASSUME \A s \in Id : session'[s] = None PROVE OldPasswordsEnd'
    BY <1>8 DEF OldPasswordsEnd
<1>9. ASSUME NEW s \in Id, Logout(s) PROVE OldPasswordsEnd'
    <2>1. \A k \in Id : session'[k] # None => session'[k] = session[k]
        BY <1>2, <1>9 DEF Logout
    <2>. QED
        BY <1>3, <1>9, <2>1 DEF Logout, history
<1>10. ASSUME user'.password = user.password, UNCHANGED <<session, late>>,
              overtaken \subseteq overtaken'
       PROVE  OldPasswordsEnd'
    BY <1>3, <1>10
<1>11. ASSUME NEW r \in Number, \/ StartChallenge(r)
           \/ ReadUser(r) \/ Fail(r) \/ SpendStep(r) \/ ConsumeBackupCode(r)
           \/ DiscardChallenge(r) \/ WriteSecret(r) \/ WriteConfirmed(r)
           \/ WriteEmailFactor(r) \/ ReplaceBackupCodes(r) \/ WriteDisabled(r)
           \/ SpendStepUp(r) \/ HandlerDies(r)
       PROVE  OldPasswordsEnd'
    <2>1. UNCHANGED <<session, late>> /\ overtaken \subseteq overtaken'
        BY <1>11 DEF StartChallenge, ReadUser, Fail, SpendStep, ConsumeBackupCode,
           DiscardChallenge, WriteSecret, WriteConfirmed, WriteEmailFactor, ReplaceBackupCodes,
           WriteDisabled, SpendStepUp, HandlerDies, history, tables
    <2>2. user'.password = user.password
        BY <1>2, <1>11 DEF StartChallenge, ReadUser, Fail, SpendStep, ConsumeBackupCode,
           DiscardChallenge, WriteSecret, WriteConfirmed, WriteEmailFactor, ReplaceBackupCodes,
           WriteDisabled, SpendStepUp, HandlerDies, tables, UserRow
    <2>. QED
        BY <1>10, <2>1, <2>2
<1>12. ASSUME NEW c, NEW typed, NEW resend, BeginAnswer(c, typed, resend)
       PROVE  OldPasswordsEnd'
    BY <1>10, <1>12 DEF BeginAnswer, history
<1>13. ASSUME NEW s, NEW at, NEW typed, BeginAuthed(s, at, typed) PROVE OldPasswordsEnd'
    BY <1>10, <1>13 DEF BeginAuthed, tables, history
<1>14. ASSUME \/ \E google \in BOOLEAN : BeginLogin(google)
              \/ \E c \in Number : Expire(c) \/ Prune(c)
              \/ Tick \/ UNCHANGED vars
       PROVE  OldPasswordsEnd'
    BY <1>10, <1>14 DEF BeginLogin, Expire, Prune, Tick, vars, tables, history
<1>15. CASE ResetPassword \/ DisableLogin
    BY <1>8, <1>15 DEF ResetPassword, DisableLogin
<1>. QED
    BY <1>4, <1>5, <1>6, <1>7, <1>9, <1>11, <1>12, <1>13, <1>14, <1>15
    DEF Next, BeginChangePassword, BeginEnrollStart, BeginEmailFactor, BeginRegenerate,
        BeginEnrollConfirm, BeginStepUp, BeginDisable

(* "Changing a password signs every other device out"                      *)
(* (routes/auth.ts:179), but for a sign-in that was already under way.     *)
THEOREM OldPasswordsAlwaysEnd == Spec => []OldPasswordsEnd
<1>1. Init => OldPasswordsEnd
    <2> SUFFICES ASSUME Init, NEW s \in Id, session[s] # None
                 PROVE  session[s].password = user.password
        BY DEF OldPasswordsEnd
    <2>1. session[s] = IF s = 0 THEN [password |-> 0, steppedUp |-> FALSE] ELSE None
        BY DEF Init
    <2>2. user.password = 0
        BY DEF Init
    <2>. QED
        BY <2>1, <2>2
<1>2. IInv /\ OldPasswordsEnd /\ [Next]_vars => OldPasswordsEnd'
    BY PasswordStep
<1>. QED
    BY <1>1, <1>2, Invariance, PTL DEF Spec

LEMMA FactorStep ==
    ASSUME IInv, FactorIsProven, [Next]_vars
    PROVE  FactorIsProven'
<1>1. DataType /\ RequestInv /\ user \in UserRow
    BY TypeParts DEF IInv, DataType
<1>2. ASSUME Factor(user') = Factor(user), UNCHANGED proven, overtaken \subseteq overtaken'
      PROVE  FactorIsProven'
    BY <1>2 DEF FactorIsProven, Factor, MethodFor
<1>3. ASSUME NEW r \in Number, WriteConfirmed(r) PROVE FactorIsProven'
    <2> DEFINE q == request[r]
    <2>1. q.typed.of = q.user.secret
        BY <1>1, <1>3 DEF WriteConfirmed, At, RequestInv, Holds, TotpOf
    <2>2. user'.secret = user.secret /\ proven' = proven \cup {q.user.secret}
        BY <1>1, <1>3, <2>1 DEF WriteConfirmed, UserRow
    <2>3. "factor" \in overtaken' \/ Factor(user) = Factor(q.user)
        BY <1>3 DEF WriteConfirmed
    <2>4. Factor(user) = Factor(q.user) => user.secret = q.user.secret
        BY DEF Factor
    <2>. QED
        BY <2>2, <2>3, <2>4 DEF FactorIsProven
<1>4. ASSUME NEW r \in Number, WriteSecret(r) \/ WriteEmailFactor(r) \/ WriteDisabled(r)
      PROVE  FactorIsProven'
    <2>1. ~user'.confirmed \/ user'.method # "totp"
        BY <1>1, <1>4 DEF WriteSecret, WriteEmailFactor, WriteDisabled, UserRow
    <2>2. MethodFor(user') # "totp"
        BY <2>1 DEF MethodFor
    <2>. QED
        BY <2>2 DEF FactorIsProven, MethodFor
<1>5. ASSUME NEW r \in Number, \/ Rehash(r) \/ StartChallenge(r) \/ OpenSession(r)
           \/ ReadUser(r) \/ Fail(r) \/ SpendStep(r) \/ ConsumeBackupCode(r)
           \/ DiscardChallenge(r) \/ WritePassword(r) \/ ReplaceBackupCodes(r)
           \/ SpendStepUp(r) \/ StampSession(r) \/ HandlerDies(r)
      PROVE  FactorIsProven'
    <2>1. UNCHANGED proven /\ overtaken \subseteq overtaken'
        BY <1>5 DEF Rehash, StartChallenge, OpenSession, ReadUser, Fail, SpendStep,
           ConsumeBackupCode, DiscardChallenge, WritePassword, ReplaceBackupCodes, SpendStepUp,
           StampSession, HandlerDies, history
    <2>2. /\ user'.method = user.method /\ user'.secret = user.secret
          /\ user'.confirmed = user.confirmed
        BY <1>1, <1>5 DEF Rehash, StartChallenge, OpenSession, ReadUser, Fail, SpendStep,
           ConsumeBackupCode, DiscardChallenge, WritePassword, ReplaceBackupCodes, SpendStepUp,
           StampSession, HandlerDies, tables, UserRow
    <2>. QED
        BY <1>2, <2>1, <2>2 DEF Factor
<1>6. ASSUME NEW c, NEW typed, NEW resend, BeginAnswer(c, typed, resend)
       PROVE  FactorIsProven'
    BY <1>2, <1>6 DEF BeginAnswer, history
<1>7. ASSUME NEW s, NEW at, NEW typed, BeginAuthed(s, at, typed) PROVE FactorIsProven'
    BY <1>2, <1>7 DEF BeginAuthed, tables, history
<1>8. ASSUME \/ \E google \in BOOLEAN : BeginLogin(google)
             \/ \E c \in Number : Expire(c) \/ Prune(c)
             \/ \E s \in Id : Logout(s)
             \/ ResetPassword \/ DisableLogin \/ Tick \/ UNCHANGED vars
       PROVE  FactorIsProven'
    <2>1. UNCHANGED <<proven, overtaken>>
        BY <1>8 DEF BeginLogin, Expire, Prune, Logout, ResetPassword, DisableLogin, Tick,
           vars, tables, history
    <2>2. /\ user'.method = user.method /\ user'.secret = user.secret
          /\ user'.confirmed = user.confirmed
        BY <1>1, <1>8 DEF BeginLogin, Expire, Prune, Logout, ResetPassword, DisableLogin, Tick,
           vars, tables, UserRow
    <2>. QED
        BY <1>2, <2>1, <2>2 DEF Factor
<1>. QED
    BY <1>3, <1>4, <1>5, <1>6, <1>7, <1>8
    DEF Next, BeginChangePassword, BeginEnrollStart, BeginEmailFactor, BeginRegenerate,
        BeginEnrollConfirm, BeginStepUp, BeginDisable

(* Nobody is asked for the code of an app they never computed one with     *)
(* (twoFactor.ts:47-50), unless two requests changed the factor at once.   *)
THEOREM FactorIsAlwaysProven == Spec => []FactorIsProven
<1>1. Init => FactorIsProven
    <2> SUFFICES ASSUME Init, MethodFor(user) = "totp" PROVE user.secret \in proven
        BY DEF FactorIsProven
    <2>1. PICK factor \in {"none", "totp", "email"}, old \in BOOLEAN :
              /\ user = [password |-> 0, old |-> old, disabled |-> FALSE, method |-> factor,
                         secret |-> IF factor = "totp" THEN 0 ELSE None,
                         confirmed |-> factor = "totp", lastStep |-> None]
              /\ proven = IF factor = "totp" THEN {0} ELSE {}
        BY DEF Init
    <2>. QED
        BY <2>1 DEF MethodFor
<1>2. IInv /\ FactorIsProven /\ [Next]_vars => FactorIsProven'
    BY FactorStep
<1>. QED
    BY <1>1, <1>2, Invariance, PTL DEF Spec
=============================================================================
