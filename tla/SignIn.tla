------------------------------- MODULE SignIn -------------------------------
(***************************************************************************)
(* One login: its password, its second factor, its sessions, and the       *)
(* requests that use and change them (routes/auth.ts, routes/twoFactor.ts, *)
(* lib/auth.ts, lib/twoFactor.ts, and the step-up of platform.ts).         *)
(*                                                                         *)
(* requireAuth and the SELECTs copy the row of the login into the handler, *)
(* which decides by the copy and writes statement by statement.  Requests  *)
(* are numbered; a password, a secret, a challenge, a session and a set of *)
(* backup codes carry the number of the request that made them, and 0 is   *)
(* what was there before.  A set of backup codes is one code.  Refused     *)
(* requests that write nothing (a wrong password) are left out.            *)
(***************************************************************************)
EXTENDS Integers, FiniteSets

CONSTANTS
    MaxRequests,             \* bound: requests in a behaviour
    MaxStep,                 \* bound: the last TOTP step
    MAX_CHALLENGE_ATTEMPTS,
    None                     \* NULL

ASSUME SignInAssumption ==
    /\ MaxRequests \in Nat /\ MaxStep \in Nat
    /\ MAX_CHALLENGE_ATTEMPTS \in Nat \ {0}
    /\ None \notin Int

VARIABLES
    admin,      \* users.platform_role = 'ctf_admin', which no handler changes
    user,       \* the rest of the row of users
    session,    \* table sessions
    challenge,  \* table login_challenges
    backup,     \* unused rows of backup_codes
    step,       \* counterAt(now)
    begun,      \* requests that have begun
    request,    \* the handler of each
    spent,      \* history: codes that were accepted
    again,      \* history: codes that were accepted again
    proven,     \* history: secrets of which an enrolment has seen a code
    wrong,      \* history: wrong answers to a challenge
    raced,      \* history: wrong answers counted from a row that had changed
    late,       \* history: sessions whose password was replaced before they opened
    overtaken   \* history: columns written over after they had changed, or moved back

history == <<spent, again, proven, wrong, raced, late, overtaken>>
tables  == <<admin, user, session, challenge, backup>>
vars    == <<tables, step, begun, request, history>>

Number == 1..MaxRequests
Id     == 0..MaxRequests

UserRow ==
    [password : Id, old : BOOLEAN, disabled : BOOLEAN,
     method : {"none", "totp", "email"}, secret : Id \cup {None}, confirmed : BOOLEAN,
     lastStep : (0..MaxStep + 1) \cup {None}]

SessionRow == [password : Id, steppedUp : BOOLEAN]

\* password is history: the one its first factor was checked against.
ChallengeRow ==
    [method : {"totp", "email"}, password : Id, attempts : 0..MAX_CHALLENGE_ATTEMPTS - 1,
     expired : BOOLEAN]

(* What is typed: a code of the app, of an email, of the backup codes, or  *)
(* one that is none of these.                                              *)
Typed ==
    [by : {"totp"}, of : Id, step : 0..MaxStep + 1]
        \cup [by : {"email", "backup"}, of : Id] \cup {[by |-> "mistake"]}

ASSUME NullIsNoCode == None \notin Typed

Place ==
    {"rehash", "challenge", "open", "user", "spend", "backup", "discard", "fail",
     "password", "start", "confirm", "email", "disable", "codes", "stepUp", "stamp"}

Request ==
    [at : Place, user : UserRow \cup {None}, first : Id \cup {None}, own : Id \cup {None},
     answers : Number \cup {None}, row : ChallengeRow \cup {None},
     typed : Typed \cup {None}, resend : BOOLEAN]

TypeOK ==
    /\ admin \in BOOLEAN /\ user \in UserRow
    /\ session \in [Id -> SessionRow \cup {None}]
    /\ challenge \in [Number -> ChallengeRow \cup {None}]
    /\ backup \subseteq Id
    /\ step \in 0..MaxStep /\ begun \in Id
    /\ request \in [Number -> Request \cup {None}]
    /\ \A r \in Number : r > begun => request[r] = None /\ challenge[r] = None /\ session[r] = None
    /\ spent \subseteq Typed /\ again \subseteq spent /\ proven \subseteq Id
    /\ wrong \in [Number -> Nat] /\ raced \in [Number -> Nat]
    /\ late \subseteq Id /\ overtaken \subseteq {"password", "factor", "step"}

NoFactor == [method |-> "none", secret |-> None, confirmed |-> FALSE, lastStep |-> None]

(* A browser is signed in.  The login has no second factor, an             *)
(* authenticator app, or codes by email.                                   *)
Init ==
    /\ admin \in BOOLEAN
    /\ \E factor \in {"none", "totp", "email"}, old \in BOOLEAN :
          /\ admin => factor # "email"
          /\ user = [password |-> 0, old |-> old, disabled |-> FALSE, method |-> factor,
                     secret |-> IF factor = "totp" THEN 0 ELSE None,
                     confirmed |-> factor = "totp", lastStep |-> None]
          /\ backup = IF factor = "none" THEN {} ELSE {0}
          /\ proven = IF factor = "totp" THEN {0} ELSE {}
    /\ session = [s \in Id |-> IF s = 0 THEN [password |-> 0, steppedUp |-> FALSE] ELSE None]
    /\ challenge = [c \in Number |-> None]
    /\ step = 0 /\ begun = 0
    /\ request = [r \in Number |-> None]
    /\ spent = {} /\ again = {} /\ late = {} /\ overtaken = {}
    /\ wrong = [c \in Number |-> 0] /\ raced = [c \in Number |-> 0]

-----------------------------------------------------------------------------
(* Helpers                                                                 *)

\* A TOTP enrolment that was never confirmed is no factor.
MethodFor(u) == IF u.method = "totp" /\ ~u.confirmed THEN "none" ELSE u.method

Factor(u) == <<u.method, u.secret, u.confirmed>>

(* verifyTotp: the code of a step next to the present one, later than the  *)
(* last that was used.                                                     *)
Verifies(typed, u, lastStep) ==
    /\ typed.by = "totp" /\ typed.of = u.secret
    /\ typed.step \in (step - 1)..(step + 1)
    /\ lastStep # None => typed.step > lastStep

Begin(q) ==
    /\ begun < MaxRequests
    /\ begun' = begun + 1
    /\ request' = [request EXCEPT ![begun + 1] = q]

Finish(r) == request' = [request EXCEPT ![r] = None]

At(r, at) == request[r] # None /\ request[r].at = at

Goto(r, at) == request' = [request EXCEPT ![r].at = at]

Accept(code) ==
    /\ spent' = spent \cup {code}
    /\ again' = again \cup ({code} \cap spent)

Blank ==
    [at |-> "open", user |-> None, first |-> None, own |-> None, answers |-> None,
     row |-> None, typed |-> None, resend |-> FALSE]

-----------------------------------------------------------------------------
(* The first factor                                                        *)

(* handleLogin with the right password, or the Google callback.  No        *)
(* session is opened when the account has a second factor.                 *)
BeginLogin(google) ==
    /\ ~user.disabled
    /\ Begin([Blank EXCEPT
           !.at = IF user.old /\ ~google THEN "rehash"
                  ELSE IF MethodFor(user) = "none" THEN "open" ELSE "challenge",
           !.user = user, !.first = user.password])
    /\ UNCHANGED <<tables, step, history>>

(* needsRehash: the password that was typed is stored under the new cost.  *)
Rehash(r) ==
    LET q == request[r] IN
    /\ At(r, "rehash")
    /\ user' = [user EXCEPT !.password = q.user.password, !.old = FALSE]
    /\ overtaken' = overtaken \cup {x \in {"password"} : user.password # q.user.password}
    /\ Goto(r, IF MethodFor(q.user) = "none" THEN "open" ELSE "challenge")
    /\ UNCHANGED <<admin, session, challenge, backup, step, begun, spent, again, proven,
                   wrong, raced, late>>

(* startChallenge.  The email with the code may fail to go out; the row    *)
(* stays.                                                                  *)
StartChallenge(r) ==
    LET q == request[r] IN
    /\ At(r, "challenge")
    /\ challenge' = [challenge EXCEPT ![r] =
           [method |-> MethodFor(q.user), password |-> q.first, attempts |-> 0,
            expired |-> FALSE]]
    /\ Finish(r)
    /\ UNCHANGED <<admin, user, session, backup, step, begun, history>>

OpenSession(r) ==
    LET q == request[r] IN
    /\ At(r, "open")
    /\ session' = [session EXCEPT ![r] = [password |-> q.first, steppedUp |-> FALSE]]
    /\ late' = IF q.first # user.password THEN late \cup {r} ELSE late
    /\ Finish(r)
    /\ UNCHANGED <<admin, user, challenge, backup, step, begun, spent, again, proven, wrong,
                   raced, overtaken>>

-----------------------------------------------------------------------------
(* The second factor: handleChallengeVerify and handleChallengeResend      *)

\* loadChallenge, which deletes a row that has expired.
BeginAnswer(c, typed, resend) ==
    /\ challenge[c] # None
    /\ resend => challenge[c].method = "email"
    /\ IF challenge[c].expired
       THEN /\ challenge' = [challenge EXCEPT ![c] = None]
            /\ UNCHANGED <<begun, request>>
       ELSE /\ Begin([Blank EXCEPT
                   !.at = "user", !.answers = c, !.row = challenge[c],
                   !.first = challenge[c].password, !.typed = typed, !.resend = resend])
            /\ UNCHANGED challenge
    /\ UNCHANGED <<admin, user, session, backup, step, history>>

Correct(q) ==
    CASE q.row.method = "email" -> q.typed = [by |-> "email", of |-> q.answers]
      [] q.row.method = "totp"  -> Verifies(q.typed, user, user.lastStep)

(* The login is read, and the code compared with what was read.            *)
ReadUser(r) ==
    LET q == request[r] IN
    /\ At(r, "user")
    /\ IF user.disabled
       THEN /\ challenge' = IF q.resend THEN challenge
                            ELSE [challenge EXCEPT ![q.answers] = None]
            /\ Finish(r)
       ELSE /\ request' = [request EXCEPT ![r].user = user, ![r].at =
                   IF q.resend THEN "discard"
                   ELSE IF q.typed.by = "backup" THEN "backup"
                   ELSE IF ~Correct(q) THEN "fail"
                   ELSE IF q.row.method = "totp" THEN "spend" ELSE "discard"]
            /\ UNCHANGED challenge
    /\ UNCHANGED <<admin, user, session, backup, step, begun, history>>

\* Mutant: the answer is compared, and the failure not stored.
FailUncounted(r) ==
    LET q == request[r]
        c == q.answers
    IN  /\ At(r, "fail")
        /\ challenge' = [challenge EXCEPT ![c] =
               IF challenge[c] = None \/ q.row.attempts + 1 >= MAX_CHALLENGE_ATTEMPTS THEN None
               ELSE @]
        /\ wrong' = [wrong EXCEPT ![c] = @ + 1]
        /\ raced' = raced
        /\ Finish(r)
        /\ UNCHANGED <<admin, user, session, backup, step, begun, spent, again, proven, late,
                       overtaken>>

(* The failures are counted from the row as it was read.                   *)
Fail(r) ==
    LET q == request[r]
        c == q.answers
    IN  /\ At(r, "fail")
        /\ challenge' = [challenge EXCEPT ![c] =
               IF challenge[c] = None \/ q.row.attempts + 1 >= MAX_CHALLENGE_ATTEMPTS THEN None
               ELSE [@ EXCEPT !.attempts = q.row.attempts + 1]]
        /\ wrong' = [wrong EXCEPT ![c] = @ + 1]
        /\ raced' = [raced EXCEPT ![c] =
               IF challenge[c] # None /\ challenge[c].attempts # q.row.attempts THEN @ + 1 ELSE @]
        /\ Finish(r)
        /\ UNCHANGED <<admin, user, session, backup, step, begun, spent, again, proven, late,
                       overtaken>>

(* UPDATE users SET totp_last_counter, whatever it is by now.              *)
SpendStep(r) ==
    LET q == request[r] IN
    /\ At(r, "spend")
    /\ user' = [user EXCEPT !.lastStep = q.typed.step]
    /\ Accept(q.typed)
    /\ overtaken' = overtaken \cup {x \in {"step"} : user # q.user}
    /\ Goto(r, "discard")
    /\ UNCHANGED <<admin, session, challenge, backup, step, begun, proven, wrong, raced, late>>

\* Mutant: matched in one statement, marked in another.
ConsumeReadCode(r) ==
    LET q == request[r] IN
    /\ At(r, "backup")
    /\ backup' = backup \ {q.typed.of}
    /\ Accept(q.typed)
    /\ Goto(r, IF q.answers = None THEN "disable" ELSE "discard")
    /\ UNCHANGED <<admin, user, session, challenge, step, begun, proven, wrong, raced, late,
                   overtaken>>

(* consumeBackupCode: matched and marked as used in one statement.         *)
ConsumeBackupCode(r) ==
    LET q == request[r] IN
    /\ At(r, "backup")
    /\ IF q.typed.of \in backup
       THEN /\ backup' = backup \ {q.typed.of}
            /\ Accept(q.typed)
            /\ Goto(r, IF q.answers = None THEN "disable" ELSE "discard")
       ELSE /\ Finish(r)
            /\ UNCHANGED <<backup, spent, again>>
    /\ UNCHANGED <<admin, user, session, challenge, step, begun, proven, wrong, raced, late,
                   overtaken>>

(* A resend opens a challenge of the method the login has by now; without  *)
(* one, startChallenge throws.                                             *)
DiscardChallenge(r) ==
    LET q == request[r] IN
    /\ At(r, "discard")
    /\ challenge' = [challenge EXCEPT ![q.answers] = None]
    /\ IF ~q.resend THEN Goto(r, "open")
       ELSE IF MethodFor(q.user) = "none" THEN Finish(r) ELSE Goto(r, "challenge")
    /\ UNCHANGED <<admin, user, session, backup, step, begun, history>>

-----------------------------------------------------------------------------
(* Requests of a browser that is signed in: requireAuth reads the row      *)

BeginAuthed(s, at, typed) ==
    /\ session[s] # None /\ ~user.disabled
    /\ Begin([Blank EXCEPT !.at = at, !.user = user, !.own = s, !.typed = typed])
    /\ UNCHANGED <<tables, step, history>>

BeginChangePassword(s) == BeginAuthed(s, "password", None)

\* Mutant: the other devices stay signed in.
WritePasswordOnly(r) ==
    /\ At(r, "password")
    /\ user' = [user EXCEPT !.password = r, !.old = FALSE]
    /\ session' = [s \in Id |-> IF s = request[r].own /\ session[s] # None
                                THEN [session[s] EXCEPT !.password = r] ELSE session[s]]
    /\ Finish(r)
    /\ UNCHANGED <<admin, challenge, backup, step, begun, history>>

(* The batch of handleChangePassword.  The session that stays belongs to   *)
(* somebody who knows the new password.                                    *)
WritePassword(r) ==
    /\ At(r, "password")
    /\ user' = [user EXCEPT !.password = r, !.old = FALSE]
    /\ session' = [s \in Id |-> IF s = request[r].own /\ session[s] # None
                                THEN [session[s] EXCEPT !.password = r] ELSE None]
    /\ Finish(r)
    /\ UNCHANGED <<admin, challenge, backup, step, begun, history>>

Logout(s) ==
    /\ session[s] # None
    /\ session' = [session EXCEPT ![s] = None]
    /\ UNCHANGED <<admin, user, challenge, backup, step, begun, request, history>>

BeginEnrollStart(s) == MethodFor(user) # "totp" /\ BeginAuthed(s, "start", None)

(* A secret is stored, unconfirmed.                                        *)
WriteSecret(r) ==
    /\ At(r, "start")
    /\ user' = [user EXCEPT !.secret = r, !.confirmed = FALSE]
    /\ overtaken' = overtaken \cup {x \in {"factor"} : Factor(user) # Factor(request[r].user)}
    /\ Finish(r)
    /\ UNCHANGED <<admin, session, challenge, backup, step, begun, spent, again, proven,
                   wrong, raced, late>>

\* Mutant: a code of an earlier QR code confirms.
BeginEnrollUnchecked(s, typed) ==
    /\ user.secret # None
    /\ BeginAuthed(s, "confirm", typed)

\* The code is checked against the secret that was read, without a last step.
BeginEnrollConfirm(s, typed) ==
    /\ user.secret # None /\ Verifies(typed, user, None)
    /\ BeginAuthed(s, "confirm", typed)

WriteConfirmed(r) ==
    LET q == request[r] IN
    /\ At(r, "confirm")
    /\ user' = [user EXCEPT !.method = "totp", !.confirmed = TRUE, !.lastStep = q.typed.step]
    /\ proven' = IF q.typed.of = q.user.secret THEN proven \cup {q.user.secret} ELSE proven
    /\ overtaken' = overtaken \cup
           {x \in {"factor"} : Factor(user) # Factor(q.user)} \cup
           {x \in {"step"} : user.lastStep # None /\ q.typed.step < user.lastStep}
    /\ Goto(r, "codes")
    /\ UNCHANGED <<admin, session, challenge, backup, step, begun, spent, again, wrong, raced,
                   late>>

BeginEmailFactor(s) ==
    /\ ~admin /\ MethodFor(user) # "totp"
    /\ BeginAuthed(s, "email", None)

WriteEmailFactor(r) ==
    /\ At(r, "email")
    /\ user' = [user EXCEPT !.method = "email"]
    /\ overtaken' = overtaken \cup {x \in {"factor"} : Factor(user) # Factor(request[r].user)}
    /\ Goto(r, "codes")
    /\ UNCHANGED <<admin, session, challenge, backup, step, begun, spent, again, proven,
                   wrong, raced, late>>

BeginRegenerate(s) == MethodFor(user) # "none" /\ BeginAuthed(s, "codes", None)

ReplaceBackupCodes(r) ==
    /\ At(r, "codes")
    /\ backup' = {r}
    /\ Finish(r)
    /\ UNCHANGED <<admin, user, session, challenge, step, begun, history>>

(* handleTwoFactorDisable: a code of the app, or else a backup code; with  *)
(* codes by email, nothing.                                                *)
BeginDisable(s, typed) ==
    /\ ~admin /\ MethodFor(user) # "none"
    /\ IF MethodFor(user) = "totp" /\ ~Verifies(typed, user, user.lastStep)
       THEN typed.by = "backup" /\ BeginAuthed(s, "backup", typed)
       ELSE BeginAuthed(s, "disable", typed)

WriteDisabled(r) ==
    LET q == request[r] IN
    /\ At(r, "disable")
    /\ user' = [user EXCEPT !.method = "none", !.secret = None, !.confirmed = FALSE,
                            !.lastStep = None]
    /\ backup' = {}
    /\ Finish(r)
    /\ UNCHANGED <<admin, session, challenge, step, begun, history>>

BeginStepUp(s, typed) ==
    /\ admin /\ user.secret # None /\ Verifies(typed, user, user.lastStep)
    /\ BeginAuthed(s, "stepUp", typed)

(* Compare and set: of two requests with one code, one goes on.            *)
SpendStepUp(r) ==
    LET q == request[r] IN
    /\ At(r, "stepUp")
    /\ IF user.lastStep = None \/ user.lastStep < q.typed.step
       THEN /\ user' = [user EXCEPT !.lastStep = q.typed.step]
            /\ Accept(q.typed)
            /\ Goto(r, "stamp")
       ELSE /\ Finish(r)
            /\ UNCHANGED <<user, spent, again>>
    /\ UNCHANGED <<admin, session, challenge, backup, step, begun, proven, wrong, raced, late,
                   overtaken>>

StampSession(r) ==
    LET s == request[r].own IN
    /\ At(r, "stamp")
    /\ session' = [session EXCEPT ![s] = IF @ = None THEN None ELSE [@ EXCEPT !.steppedUp = TRUE]]
    /\ Finish(r)
    /\ UNCHANGED <<admin, user, challenge, backup, step, begun, history>>

-----------------------------------------------------------------------------
(* Everything else                                                         *)

\* Accounts: an owner or CTF resets the password or disables the login.
ResetPassword ==
    /\ Begin(None)
    /\ user' = [user EXCEPT !.password = begun + 1, !.old = FALSE]
    /\ session' = [s \in Id |-> None]
    /\ UNCHANGED <<admin, challenge, backup, step, history>>

DisableLogin ==
    /\ ~user.disabled
    /\ user' = [user EXCEPT !.disabled = TRUE]
    /\ session' = [s \in Id |-> None]
    /\ UNCHANGED <<admin, challenge, backup, step, begun, request, history>>

Tick ==
    /\ step < MaxStep
    /\ step' = step + 1
    /\ UNCHANGED <<tables, begun, request, history>>

Expire(c) ==
    /\ challenge[c] # None /\ ~challenge[c].expired
    /\ challenge' = [challenge EXCEPT ![c].expired = TRUE]
    /\ UNCHANGED <<admin, user, session, backup, step, begun, request, history>>

\* pruneExpired
Prune(c) ==
    /\ challenge[c] # None /\ challenge[c].expired
    /\ challenge' = [challenge EXCEPT ![c] = None]
    /\ UNCHANGED <<admin, user, session, backup, step, begun, request, history>>

HandlerDies(r) ==
    /\ request[r] # None
    /\ Finish(r)
    /\ UNCHANGED <<tables, step, begun, history>>

(* What may be typed: what an app shows for a secret (at an enrolment the   *)
(* app may hold one of before), the code of an email, the backup codes     *)
(* there were, or a mistake.                                               *)
Shown(secrets) ==
    [by : {"totp"}, of : secrets, step : ((step - 1)..(step + 1)) \cap (0..MaxStep + 1)]
AppCode == Shown(IF user.secret = None THEN {} ELSE {user.secret})
BackupCode == [by : {"backup"}, of : 0..begun]

Next ==
    \/ \E google \in BOOLEAN : BeginLogin(google)
    \/ \E c \in Number :
          \/ \E typed \in AppCode \cup BackupCode
                              \cup {[by |-> "email", of |-> c], [by |-> "mistake"]} :
                BeginAnswer(c, typed, FALSE)
          \/ BeginAnswer(c, None, TRUE)
          \/ Expire(c) \/ Prune(c)
    \/ \E s \in Id :
          \/ BeginChangePassword(s) \/ Logout(s) \/ BeginEnrollStart(s)
          \/ BeginEmailFactor(s) \/ BeginRegenerate(s)
          \/ \E typed \in Shown(0..begun) : BeginEnrollConfirm(s, typed)
          \/ \E typed \in AppCode : BeginStepUp(s, typed)
          \/ \E typed \in AppCode \cup BackupCode \cup {[by |-> "mistake"]} :
                BeginDisable(s, typed)
    \/ \E r \in Number :
          \/ Rehash(r) \/ StartChallenge(r) \/ OpenSession(r)
          \/ ReadUser(r) \/ Fail(r) \/ SpendStep(r) \/ ConsumeBackupCode(r)
          \/ DiscardChallenge(r) \/ WritePassword(r) \/ WriteSecret(r) \/ WriteConfirmed(r)
          \/ WriteEmailFactor(r) \/ ReplaceBackupCodes(r) \/ WriteDisabled(r)
          \/ SpendStepUp(r) \/ StampSession(r) \/ HandlerDies(r)
    \/ ResetPassword \/ DisableLogin \/ Tick

Spec == Init /\ [][Next]_vars

-----------------------------------------------------------------------------
(* Properties                                                              *)

(* A code that was accepted is not accepted again by a handler to which    *)
(* its use was visible: not a code of the app over two challenges, a       *)
(* challenge and a step-up, or a clock that moves on within the window,    *)
(* and a backup code or a step-up under no interleaving at all.  What is   *)
(* excepted is a step spent by a handler that read the row before another  *)
(* one wrote it (twoFactor.ts:214), and everything after such a write, or  *)
(* an enrolment that is confirmed again, moved the last step back.         *)
CodesAreSpentOnce == "step" \notin overtaken => again = {}

(* "Changing a password signs every other device out"                      *)
(* (routes/auth.ts:179): no session is left that was opened with a         *)
(* password the login no longer has, unless the login was under way, or    *)
(* its challenge open, when the password changed, or a rehash put an old   *)
(* password back.                                                          *)
OldPasswordsEnd ==
    "password" \notin overtaken =>
        \A s \in Id \ late : session[s] # None => session[s].password = user.password

(* The cap of twoFactor.ts:24-31: a challenge that is still there has      *)
(* taken fewer wrong answers than the limit.  What is excepted is an       *)
(* answer counted from a row that had changed meanwhile (twoFactor.ts:178  *)
(* writes the number that was read plus one): it may take back all but one *)
(* of the answers counted before, and so makes room for that many more.    *)
AttemptsAreCounted ==
    \A c \in Number : challenge[c] # None =>
        wrong[c] < MAX_CHALLENGE_ATTEMPTS + raced[c] * (MAX_CHALLENGE_ATTEMPTS - 1)

(* "An enrolment that was started and never confirmed is not a live        *)
(* factor" (twoFactor.ts:47-50): nobody is asked for the code of a secret  *)
(* they never computed one from, unless two requests changed the factor at *)
(* once.                                                                   *)
FactorIsProven ==
    "factor" \notin overtaken /\ MethodFor(user) = "totp" => user.secret \in proven
=============================================================================
