----------------------------- MODULE Admission -----------------------------
(***************************************************************************)
(* Getting in: the gate every request passes (src/app/worker/index.ts) and *)
(* the screens that lead through it (src/app/src/App.tsx and its pages),   *)
(* for one person.  The page decides from the copy of the session it last  *)
(* read; the gate decides from the tables.                                 *)
(*                                                                         *)
(* Codes, challenges and sessions are SignIn's; here they are right.  An   *)
(* admin's login is in the platform organization, whose status no gate and *)
(* no handler of the console touches; a login there that is no admin's has *)
(* no way in, and is left out.                                             *)
(***************************************************************************)
EXTENDS Integers

CONSTANTS
  MAX_FAILURES,   \* MAX_FAILURES_PER_EMAIL
  Disturbances    \* bound: lost answers, mistypings, and what others do meanwhile

ASSUME AdmissionAssumption == MAX_FAILURES \in Nat \ {0} /\ Disturbances \in Nat

VARIABLES
  account,   \* the login, as users and terms_acceptances have it
  org,       \* organizations.status
  version,   \* CURRENT_VERSIONS of the deployment
  session,   \* whether the cookie is that of a live session
  failures,  \* failed sign-ins in LOGIN_WINDOW_MS
  page,      \* the single-page app
  left       \* disturbances left
avars == <<account, org, version, session, failures, page, left>>

\* A client who signs up or is added, or CTF staff; an admin need not have
\* been one from the start (README.md:338-348).
Accounts ==
  [role : {"client", "admin"}, how : {"password", "google"}, mustChange : BOOLEAN,
   consent : 0 .. 1, factor : {"none", "email", "totp"}]

NoMe == [termsAccepted |-> FALSE, active |-> FALSE, mustChange |-> FALSE, admin |-> FALSE]
Loading == [status |-> "loading", me |-> NoMe, challenge |-> FALSE, submitting |-> FALSE,
            console |-> "unknown", stage |-> "idle", trouble |-> FALSE, served |-> FALSE]

AInit ==
  /\ account \in Accounts /\ org \in {"pending", "active"}
  /\ version = 1 /\ session = FALSE /\ failures = 0
  /\ page = Loading /\ left = Disturbances

-----------------------------------------------------------------------------
(* The gate.                                                               *)
PASSWORD_ROTATION_ALLOWLIST == {"me", "password", "logout", "accept-terms"}
INACTIVE_ORG_ALLOWLIST == {"me", "logout", "accept-terms"}
ADMIN_SETUP_ALLOWLIST == {"me", "logout", "accept-terms", "password", "2fa", "totp", "backup-codes"}
CONSENT_ALLOWLIST == {"me", "logout", "accept-terms"}

Admin == account.role = "admin"

\* Mutant: one list forgets what another gate asks for first.
RotateFirst(path) ==
  IF ~session THEN "401"
  ELSE IF \/ account.mustChange /\ path \notin PASSWORD_ROTATION_ALLOWLIST \ {"accept-terms"}
          \/ ~Admin /\ org # "active" /\ path \notin INACTIVE_ORG_ALLOWLIST
          \/ path \notin CONSENT_ALLOWLIST /\ account.consent # version
          \/ Admin /\ account.factor # "totp" /\ path \notin ADMIN_SETUP_ALLOWLIST
  THEN "403"
  ELSE IF Admin /\ path \notin ADMIN_SETUP_ALLOWLIST \cup {"platform"} THEN "404" ELSE "ok"

\* requireAuth and the refusals of handleApi.  methodFor is account.factor: an
\* enrolment that was not confirmed is none.
Gate(path) ==
  IF ~session THEN "401"
  ELSE IF \/ account.mustChange /\ path \notin PASSWORD_ROTATION_ALLOWLIST
          \/ ~Admin /\ org # "active" /\ path \notin INACTIVE_ORG_ALLOWLIST
          \/ path \notin CONSENT_ALLOWLIST /\ account.consent # version
          \/ Admin /\ account.factor # "totp" /\ path \notin ADMIN_SETUP_ALLOWLIST
  THEN "403"
  ELSE IF Admin /\ path \notin ADMIN_SETUP_ALLOWLIST \cup {"platform"} THEN "404" ELSE "ok"

handleMe == [termsAccepted |-> account.consent = version, active |-> org = "active",
             mustChange |-> account.mustChange, admin |-> Admin]

-----------------------------------------------------------------------------
(* The screens.                                                            *)
\* Mutant: the password first.
ScreenPasswordFirst ==
  IF page.status # "ready" THEN
    IF page.status = "signed-out" /\ page.challenge THEN "challenge" ELSE page.status
  ELSE IF page.me.mustChange THEN "password"
  ELSE IF ~page.me.termsAccepted THEN "consent"
  ELSE IF ~page.me.active /\ ~page.me.admin THEN "pending"
  ELSE IF page.me.admin THEN "admin" ELSE "dashboard"

\* App.tsx: "Order matters".
Screen ==
  IF page.status # "ready" THEN
    IF page.status = "signed-out" /\ page.challenge THEN "challenge" ELSE page.status
  ELSE IF ~page.me.termsAccepted THEN "consent"
  ELSE IF ~page.me.active /\ ~page.me.admin THEN "pending"
  ELSE IF page.me.mustChange THEN "password"
  ELSE IF page.me.admin THEN "admin" ELSE "dashboard"

SetUpOffered == page.console = "closed" /\ page.stage # "codes" /\ account.factor = "none"

\* What each screen lets a person ask for.
Offered ==
  CASE Screen = "consent" -> {"accept-terms"}
    [] Screen = "password" -> {"password"}
    [] Screen = "admin" -> IF page.console = "open" THEN {"platform"} ELSE
         {"2fa"} \cup (IF SetUpOffered THEN {"totp"} ELSE {})
    [] Screen = "dashboard" -> {"calls", "2fa", "email", "disable"}
    [] OTHER -> {}

\* A request that is answered: applied, and what the page does with a refusal.
Ask(path, applied, done) ==
  /\ IF Gate(path) = "ok" THEN applied /\ page' = done
     ELSE page' = [page EXCEPT !.trouble = TRUE] /\ UNCHANGED <<account, session>>
  /\ UNCHANGED <<org, version, failures, left>>

\* A request, or its answer, that is lost, or over the rate limit.
Lose(path, applied) ==
  /\ left > 0 /\ left' = left - 1
  /\ page' = [page EXCEPT !.trouble = TRUE]
  /\ IF Gate(path) = "ok" THEN applied \/ UNCHANGED <<account, session>>
     ELSE UNCHANGED <<account, session>>
  /\ UNCHANGED <<org, version, failures>>

Quiet == UNCHANGED <<account, session>>

\* refresh: on load, and after the terms are accepted.
Refresh ==
  /\ page.status = "loading" \/ (page.submitting /\ ~page.trouble)
  /\ \/ /\ UNCHANGED left
        /\ page' = IF Gate("me") = "ok"
             THEN [page EXCEPT !.status = "ready", !.me = handleMe,
                               !.submitting = page.submitting /\ ~handleMe.termsAccepted,
                               !.trouble = page.submitting /\ ~handleMe.termsAccepted]
             ELSE [page EXCEPT !.status = "signed-out", !.submitting = FALSE]
     \/ left > 0 /\ left' = left - 1 /\ page' = [page EXCEPT !.status = "unavailable"]
  /\ UNCHANGED <<account, session, org, version, failures>>

\* The person starts again when something did not work, or to see if it is time.
Reload ==
  /\ page.trouble \/ Screen \in {"unavailable", "pending"}
  /\ page' = Loading
  /\ UNCHANGED <<account, session, org, version, failures, left>>

SignedIn(me) == [Loading EXCEPT !.status = "ready", !.me = me]

\* Login.tsx, handleLogin: with a second factor there is a challenge first.
Login ==
  /\ Screen = "signed-out" /\ account.how = "password" /\ failures < MAX_FAILURES
  /\ IF account.factor = "none"
     THEN session' = TRUE /\ page' = SignedIn(handleMe)
     ELSE page' = [page EXCEPT !.challenge = TRUE] /\ UNCHANGED session
  /\ UNCHANGED <<account, org, version, failures, left>>

Mistype ==
  /\ Screen = "signed-out" /\ account.how = "password" /\ left > 0 /\ left' = left - 1
  /\ failures' = IF failures < MAX_FAILURES THEN failures + 1 ELSE failures
  /\ UNCHANGED <<account, session, org, version, page>>

LoginWindowPasses ==
  /\ failures > 0 /\ failures' = 0
  /\ UNCHANGED <<account, session, org, version, page, left>>

\* handleGoogleCallback: the browser comes back to a fresh page.
GoogleSignIn ==
  /\ Screen = "signed-out" /\ account.how = "google"
  /\ account' = [account EXCEPT !.mustChange = FALSE]
  /\ session' = (account.factor = "none")
  /\ page' = [Loading EXCEPT !.challenge = (account.factor # "none")]
  /\ UNCHANGED <<org, version, failures, left>>

\* TwoFactorChallenge.tsx: the code, or back to the sign-in that it came from.
AnswerChallenge ==
  /\ Screen = "challenge" /\ ~page.trouble
  /\ session' = TRUE /\ page' = SignedIn(handleMe)
  /\ UNCHANGED <<account, org, version, failures, left>>
ChallengeExpires ==
  /\ Screen = "challenge" /\ left > 0 /\ left' = left - 1
  /\ page' = [page EXCEPT !.challenge = FALSE]
  /\ UNCHANGED <<account, session, org, version, failures>>

\* AcceptTerms.tsx, handleAcceptTerms.
AcceptTerms ==
  LET applied == account' = [account EXCEPT !.consent = version] /\ UNCHANGED session IN
  /\ Screen = "consent" /\ ~page.trouble /\ ~page.submitting
  /\ Ask("accept-terms", applied, [page EXCEPT !.submitting = TRUE]) \/ Lose("accept-terms", applied)

\* ChangePassword.tsx, handleChangePassword: the page corrects its own copy.
ChangePassword ==
  LET applied == account' = [account EXCEPT !.mustChange = FALSE] /\ UNCHANGED session IN
  /\ Screen = "password" /\ ~page.trouble
  /\ Ask("password", applied, [page EXCEPT !.me.mustChange = FALSE]) \/ Lose("password", applied)

\* AdminConsole.tsx: loadTwoFactor, on opening it and on "I have set it up".
LoadTwoFactor ==
  /\ Screen = "admin" /\ page.console # "open" /\ ~page.trouble
  /\ page.console = "closed" => page.stage = "codes"
  /\ \/ Ask("2fa", Quiet, [page EXCEPT !.console =
              IF account.factor = "totp" THEN "open" ELSE "closed"])
     \/ Lose("2fa", Quiet)

\* SecurityPanel.tsx in adminMode: offered where its status has no method.
EnrolStart ==
  /\ Screen = "admin" /\ SetUpOffered /\ page.stage = "idle" /\ ~page.trouble
  /\ Ask("totp", Quiet, [page EXCEPT !.stage = "enrolling"]) \/ Lose("totp", Quiet)
EnrolConfirm ==
  LET applied == account' = [account EXCEPT !.factor = "totp"] /\ UNCHANGED session IN
  /\ Screen = "admin" /\ page.stage = "enrolling" /\ ~page.trouble
  /\ Ask("totp", applied, [page EXCEPT !.stage = "codes"]) \/ Lose("totp", applied)

\* Dashboard.tsx and Console: a poll.  401 ends at the sign-in screen.
Product == IF Screen = "dashboard" THEN "calls" ELSE "platform"
UseProduct ==
  /\ Screen = "dashboard" \/ (Screen = "admin" /\ page.console = "open")
  /\ ~page.trouble
  /\ \/ Gate(Product) # "401" /\ Ask(Product, Quiet, [page EXCEPT !.served = TRUE])
     \/ /\ Gate(Product) = "401"
        /\ page' = [Loading EXCEPT !.status = "signed-out"]
        /\ UNCHANGED <<account, session, org, version, failures, left>>

-----------------------------------------------------------------------------
(* Others.                                                                 *)
Activate ==
  /\ ~Admin /\ org # "active" /\ org' = "active"
  /\ UNCHANGED <<account, session, version, failures, page, left>>

Disturb == left > 0 /\ left' = left - 1 /\ page' = [page EXCEPT !.served = FALSE]
\* Suspending signs everyone out.
Suspend ==
  /\ Disturb /\ ~Admin /\ org = "active" /\ org' = "suspended" /\ session' = FALSE
  /\ UNCHANGED <<account, version, failures>>
Deploy ==
  /\ Disturb /\ version = 1 /\ version' = 2
  /\ UNCHANGED <<account, session, org, failures>>
\* An owner resets the password; an idle session ends.
ResetPassword ==
  /\ Disturb /\ ~Admin /\ session' = FALSE
  /\ account' = [account EXCEPT !.mustChange = TRUE]
  /\ UNCHANGED <<org, version, failures>>
SessionEnds ==
  /\ Disturb /\ session /\ session' = FALSE
  /\ UNCHANGED <<account, org, version, failures>>

ANext ==
  \/ Refresh \/ Reload \/ Login \/ Mistype \/ LoginWindowPasses \/ GoogleSignIn
  \/ AnswerChallenge \/ ChallengeExpires \/ AcceptTerms \/ ChangePassword
  \/ LoadTwoFactor \/ EnrolStart \/ EnrolConfirm \/ UseProduct
  \/ Activate \/ Suspend \/ Deploy \/ ResetPassword \/ SessionEnds

\* The browser loads, clocks run, CTF activates, and the person does what the
\* screen offers.
AFairness ==
  /\ WF_avars(Refresh) /\ WF_avars(Reload) /\ WF_avars(Login) /\ WF_avars(GoogleSignIn)
  /\ WF_avars(LoginWindowPasses) /\ WF_avars(AnswerChallenge) /\ WF_avars(AcceptTerms)
  /\ WF_avars(ChangePassword) /\ WF_avars(LoadTwoFactor) /\ WF_avars(EnrolStart)
  /\ WF_avars(EnrolConfirm) /\ WF_avars(UseProduct) /\ WF_avars(Activate)
ASpec == AInit /\ [][ANext]_avars /\ AFairness

-----------------------------------------------------------------------------
\* "This keeps the screen from offering what it would refuse"
\* (SecurityPanel.tsx:19-21), of every screen: while the page's copy of the
\* session is what the tables say, the gate lets through all that it offers.
NothingOfferedIsRefused ==
  session /\ page.status = "ready" /\ page.me = handleMe /\ ~page.trouble =>
    \A path \in Offered : Gate(path) = "ok"

\* "Without it a new login on a temporary password can do neither, and never
\* gets in" (index.ts:86-88), of every gate: whoever does what the screen offers,
\* and reloads when it did not work, gets to the product, whatever was lost,
\* reset, suspended or published meanwhile.  An admin whose factor was email
\* codes before the role was given is the exception: see ConsoleOpens.
EveryoneGetsIn ==
  []<>(page.served \/ (Admin /\ account.factor = "email"))

\* "Set ... platform_role = 'ctf_admin' on the login, and nothing else ... The
\* console does not open until an authenticator app is enrolled"
\* (src/app/README.md:346-352): an admin can enrol one.  SecurityPanel takes a
\* login with email codes for one that is set up, and offers no enrolment.
ConsoleOpens == []<>page.served
=============================================================================
