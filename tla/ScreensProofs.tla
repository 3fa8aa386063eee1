---------------------------- MODULE ScreensProofs ----------------------------
(***************************************************************************)
(* Proofs about the screens of the control platform: the way in            *)
(* (Admission) for any account and any number of disturbances, the         *)
(* activity (ActivityFeed) for any log, page length and number of entries, *)
(* the clients (Console) for any number of orders and polls, and the call  *)
(* history (CallHistory) for any page length, calls, loads and clicks.     *)
(***************************************************************************)
EXTENDS Admission, ActivityFeed, Console, CallHistory, TLAPS

USE AdmissionAssumption, ActivityFeedAssumption

-----------------------------------------------------------------------------
(* The way in                                                              *)

MeRow == [termsAccepted : BOOLEAN, active : BOOLEAN, mustChange : BOOLEAN, admin : BOOLEAN]
AccountRow ==
  [role : {"client", "admin"}, how : {"password", "google"}, mustChange : BOOLEAN,
   consent : 0 .. 2, factor : {"none", "email", "totp"}]
PageRow ==
  [status : {"loading", "ready", "signed-out", "unavailable"}, me : MeRow,
   challenge : BOOLEAN, submitting : BOOLEAN, console : {"unknown", "open", "closed"},
   stage : {"idle", "enrolling", "codes"}, trouble : BOOLEAN, served : BOOLEAN]

\* Type correctness of the login and of the page.
AdmissionTypeOK ==
  /\ account \in AccountRow /\ org \in {"pending", "active", "suspended"}
  /\ version \in 1 .. 2 /\ session \in BOOLEAN
  /\ page \in PageRow

(* The console is open only to whoever has the app, which nobody turns off *)
(* for an admin.                                                           *)
ConsoleInv == page.console = "open" => account.factor = "totp"

AdmissionInv == AdmissionTypeOK /\ ConsoleInv

LEMMA LoadingIsPage == Loading \in PageRow /\ Loading.console = "unknown"
BY DEF Loading, NoMe, PageRow, MeRow

LEMMA MeIsRow == AdmissionTypeOK => handleMe \in MeRow
<1> SUFFICES ASSUME AdmissionTypeOK PROVE handleMe \in MeRow
    OBVIOUS
<1>1. account.mustChange \in BOOLEAN
    BY DEF AdmissionTypeOK, AccountRow
<1>2. /\ (account.consent = version) \in BOOLEAN /\ (org = "active") \in BOOLEAN
      /\ (account.role = "admin") \in BOOLEAN
    OBVIOUS
<1>. QED
    BY <1>1, <1>2 DEF handleMe, MeRow, Admin

LEMMA SignedInIsPage ==
  AdmissionTypeOK => SignedIn(handleMe) \in PageRow /\ SignedIn(handleMe).console = "unknown"
<1> SUFFICES ASSUME AdmissionTypeOK
             PROVE  SignedIn(handleMe) \in PageRow /\ SignedIn(handleMe).console = "unknown"
    OBVIOUS
<1>1. handleMe \in MeRow
    BY MeIsRow
<1>2. SignedIn(handleMe) = [Loading EXCEPT !.status = "ready", !.me = handleMe]
    BY DEF SignedIn
<1> HIDE DEF handleMe, Loading
<1>. QED
    BY <1>1, <1>2, LoadingIsPage DEF PageRow

LEMMA AdmissionInit == AInit => AdmissionInv
<1> SUFFICES ASSUME AInit PROVE AdmissionInv
    OBVIOUS
<1>1. account \in AccountRow
    BY DEF AInit, Accounts, AccountRow
<1>2. page \in PageRow /\ page.console = "unknown"
    BY LoadingIsPage DEF AInit
<1>3. session \in BOOLEAN /\ org \in {"pending", "active", "suspended"}
    BY DEF AInit
<1>4. version \in 1 .. 2
    BY DEF AInit
<1>. QED
    BY <1>1, <1>2, <1>3, <1>4 DEF AdmissionInv, AdmissionTypeOK, ConsoleInv

(* A step of the page, the login and the session.                          *)
LEMMA PageStep ==
  ASSUME AdmissionInv, page' \in PageRow, account' \in AccountRow, session' \in BOOLEAN,
         UNCHANGED <<org, version>>,
         page'.console = "open" => page.console = "open" \/ account.factor = "totp",
         account.factor = "totp" => account'.factor = "totp"
  PROVE  AdmissionInv'
BY DEF AdmissionInv, AdmissionTypeOK, ConsoleInv

(* A step that leaves the login.                                           *)
LEMMA QuietStep ==
  ASSUME AdmissionInv, page' \in PageRow, session' \in BOOLEAN, UNCHANGED <<account, org, version>>,
         page'.console = "open" => page.console = "open" \/ account.factor = "totp"
  PROVE  AdmissionInv'
BY PageStep DEF AdmissionInv, AdmissionTypeOK

LEMMA RefreshStep ==
  ASSUME AdmissionInv, Refresh
  PROVE  AdmissionInv'
<1>1. page \in PageRow /\ session \in BOOLEAN /\ handleMe \in MeRow /\ handleMe.termsAccepted \in BOOLEAN
    BY MeIsRow DEF AdmissionInv, AdmissionTypeOK, MeRow
<1> DEFINE again == page.submitting /\ ~handleMe.termsAccepted
<1>2. again \in BOOLEAN
    OBVIOUS
<1>3. \/ page' = [page EXCEPT !.status = "ready", !.me = handleMe, !.submitting = again,
                              !.trouble = again]
      \/ page' = [page EXCEPT !.status = "signed-out", !.submitting = FALSE]
      \/ page' = [page EXCEPT !.status = "unavailable"]
    BY DEF Refresh
<1> HIDE DEF again, handleMe
<1>4. page' \in PageRow /\ page'.console = page.console
    <2>1. CASE page' = [page EXCEPT !.status = "ready", !.me = handleMe, !.submitting = again,
                                    !.trouble = again]
        BY <1>1, <1>2, <2>1 DEF PageRow
    <2>2. CASE page' = [page EXCEPT !.status = "signed-out", !.submitting = FALSE]
        BY <1>1, <2>2 DEF PageRow
    <2>3. CASE page' = [page EXCEPT !.status = "unavailable"]
        BY <1>1, <2>3 DEF PageRow
    <2>. QED
        BY <1>3, <2>1, <2>2, <2>3
<1>5. UNCHANGED <<account, session, org, version>>
    BY DEF Refresh
<1>. QED
    BY <1>1, <1>4, <1>5, QuietStep

LEMMA SignInSteps ==
  ASSUME AdmissionInv,
         Reload \/ Login \/ Mistype \/ LoginWindowPasses \/ AnswerChallenge \/ ChallengeExpires
  PROVE  AdmissionInv'
<1>1. page \in PageRow /\ session \in BOOLEAN
    BY DEF AdmissionInv, AdmissionTypeOK
<1>2. UNCHANGED <<account, org, version>>
    BY DEF Reload, Login, Mistype, LoginWindowPasses, AnswerChallenge, ChallengeExpires
<1>3. session' \in BOOLEAN
    BY <1>1 DEF Reload, Login, Mistype, LoginWindowPasses, AnswerChallenge, ChallengeExpires
<1>4. page' \in {Loading, SignedIn(handleMe), page, [page EXCEPT !.challenge = TRUE],
                 [page EXCEPT !.challenge = FALSE]}
    BY DEF Reload, Login, Mistype, LoginWindowPasses, AnswerChallenge, ChallengeExpires
<1>5. page' \in PageRow /\ page'.console \in {"unknown", page.console}
    <2>1. \A b \in BOOLEAN : /\ [page EXCEPT !.challenge = b] \in PageRow
                             /\ [page EXCEPT !.challenge = b].console = page.console
        BY <1>1 DEF PageRow
    <2> HIDE DEF Loading, SignedIn, handleMe
    <2>. QED
        BY <1>1, <1>4, <2>1, LoadingIsPage, SignedInIsPage DEF AdmissionInv
<1>. QED
    BY <1>2, <1>3, <1>5, QuietStep

LEMMA GoogleStep ==
  ASSUME AdmissionInv, GoogleSignIn
  PROVE  AdmissionInv'
<1>1. account \in AccountRow
    BY DEF AdmissionInv, AdmissionTypeOK
<1>2. account' \in AccountRow /\ account'.factor = account.factor
    <2>1. account' = [account EXCEPT !.mustChange = FALSE]
        BY DEF GoogleSignIn
    <2>. QED
        BY <1>1, <2>1 DEF AccountRow
<1>3. page' \in PageRow /\ page'.console = "unknown"
    <2>1. page' = [Loading EXCEPT !.challenge = (account.factor # "none")]
            /\ (account.factor # "none") \in BOOLEAN
        BY DEF GoogleSignIn
    <2> HIDE DEF Loading
    <2>. QED
        BY <2>1, LoadingIsPage DEF PageRow
<1>4. session' \in BOOLEAN /\ UNCHANGED <<org, version>>
    BY DEF GoogleSignIn
<1>. QED
    BY <1>2, <1>3, <1>4, PageStep

(* Two steps of the login that leave its factor.                           *)
LEMMA AccountStep ==
  ASSUME AdmissionInv, page' \in PageRow, page'.console = page.console,
         session' \in BOOLEAN, UNCHANGED <<org, version>>,
         \/ account' = [account EXCEPT !.consent = version]
         \/ \E b \in BOOLEAN : account' = [account EXCEPT !.mustChange = b]
         \/ account' = account
  PROVE  AdmissionInv'
<1>1. account \in AccountRow /\ version \in 0 .. 2
    BY DEF AdmissionInv, AdmissionTypeOK
<1>2. account' \in AccountRow /\ account'.factor = account.factor
    BY <1>1 DEF AccountRow
<1>. QED
    BY <1>2, PageStep

LEMMA ConsentPasswordSteps ==
  ASSUME AdmissionInv, AcceptTerms \/ ChangePassword
  PROVE  AdmissionInv'
<1>1. page \in PageRow /\ session \in BOOLEAN
    BY DEF AdmissionInv, AdmissionTypeOK
<1>2. CASE AcceptTerms
    <2>1. /\ UNCHANGED <<session, org, version>>
          /\ account' = [account EXCEPT !.consent = version] \/ account' = account
          /\ page' \in {[page EXCEPT !.submitting = TRUE], [page EXCEPT !.trouble = TRUE]}
        BY <1>2 DEF AcceptTerms, Ask, Lose
    <2>2. page' \in PageRow /\ page'.console = page.console
        BY <1>1, <2>1 DEF PageRow
    <2>. QED
        BY <1>1, <2>1, <2>2, AccountStep
<1>3. CASE ChangePassword
    <2>1. /\ UNCHANGED <<session, org, version>>
          /\ account' = [account EXCEPT !.mustChange = FALSE] \/ account' = account
          /\ page' \in {[page EXCEPT !.me.mustChange = FALSE], [page EXCEPT !.trouble = TRUE]}
        BY <1>3 DEF ChangePassword, Ask, Lose
    <2>2. [page.me EXCEPT !.mustChange = FALSE] \in MeRow
        BY <1>1 DEF PageRow, MeRow
    <2>3. page' \in PageRow /\ page'.console = page.console
        <3> DEFINE me == [page.me EXCEPT !.mustChange = FALSE]
        <3>1. page' \in {[page EXCEPT !.me = me], [page EXCEPT !.trouble = TRUE]}
            BY <2>1
        <3>2. me \in MeRow
            BY <2>2
        <3> HIDE DEF me
        <3>. QED
            BY <1>1, <3>1, <3>2 DEF PageRow
    <2>. QED
        BY <1>1, <2>1, <2>3, AccountStep
<1>. QED
    BY <1>2, <1>3
LEMMA ConsoleSteps ==
  ASSUME AdmissionInv, LoadTwoFactor \/ EnrolStart \/ EnrolConfirm \/ UseProduct
  PROVE  AdmissionInv'
<1>1. page \in PageRow /\ session \in BOOLEAN /\ account \in AccountRow
    BY DEF AdmissionInv, AdmissionTypeOK
<1>2. CASE LoadTwoFactor
    <2>1. /\ UNCHANGED <<account, session, org, version>>
          /\ \/ page' = [page EXCEPT !.console = IF account.factor = "totp" THEN "open" ELSE "closed"]
             \/ page' = [page EXCEPT !.trouble = TRUE]
        BY <1>2 DEF LoadTwoFactor, Ask, Lose, Quiet
    <2>2. page' \in PageRow /\ (page'.console = "open" => page.console = "open" \/ account.factor = "totp")
        BY <1>1, <2>1 DEF PageRow
    <2>. QED
        BY <1>1, <2>1, <2>2, QuietStep
<1>3. CASE EnrolStart
    <2>1. /\ UNCHANGED <<account, session, org, version>>
          /\ page' \in {[page EXCEPT !.stage = "enrolling"], [page EXCEPT !.trouble = TRUE]}
        BY <1>3 DEF EnrolStart, Ask, Lose, Quiet
    <2>2. page' \in PageRow /\ page'.console = page.console
        BY <1>1, <2>1 DEF PageRow
    <2>. QED
        BY <1>1, <2>1, <2>2, QuietStep
<1>4. CASE EnrolConfirm
    <2>1. /\ UNCHANGED <<session, org, version>>
          /\ account' \in {account, [account EXCEPT !.factor = "totp"]}
          /\ page' \in {[page EXCEPT !.stage = "codes"], [page EXCEPT !.trouble = TRUE]}
        BY <1>4 DEF EnrolConfirm, Ask, Lose
    <2>2. page' \in PageRow /\ page'.console = page.console
        BY <1>1, <2>1 DEF PageRow
    <2>3. account' \in AccountRow /\ account'.factor \in {account.factor, "totp"}
        BY <1>1, <2>1 DEF AccountRow
    <2>. QED
        BY <1>1, <2>1, <2>2, <2>3, PageStep
<1>5. CASE UseProduct
    <2>1. /\ UNCHANGED <<account, session, org, version>>
          /\ page' \in {[page EXCEPT !.served = TRUE], [page EXCEPT !.trouble = TRUE],
                        [Loading EXCEPT !.status = "signed-out"]}
        BY <1>5 DEF UseProduct, Ask, Quiet
    <2>2. page' \in PageRow /\ page'.console \in {page.console, "unknown"}
        <3>1. CASE page' \in {[page EXCEPT !.served = TRUE], [page EXCEPT !.trouble = TRUE]}
            BY <1>1, <3>1 DEF PageRow
        <3>2. CASE page' = [Loading EXCEPT !.status = "signed-out"]
            <4> HIDE DEF Loading
            <4>. QED
                BY <3>2, LoadingIsPage DEF PageRow
        <3>. QED
            BY <2>1, <3>1, <3>2
    <2>. QED
        BY <1>1, <2>1, <2>2, QuietStep
<1>. QED
    BY <1>2, <1>3, <1>4, <1>5

LEMMA OtherSteps ==
  ASSUME AdmissionInv, Activate \/ Suspend \/ Deploy \/ ResetPassword \/ SessionEnds
  PROVE  AdmissionInv'
<1>1. page \in PageRow /\ session \in BOOLEAN /\ account \in AccountRow /\ version \in 1 .. 2
        /\ org \in {"pending", "active", "suspended"}
    BY DEF AdmissionInv, AdmissionTypeOK
<1>2. page' \in PageRow /\ page'.console = page.console
    <2>1. page' \in {page, [page EXCEPT !.served = FALSE]}
        BY DEF Activate, Suspend, Deploy, ResetPassword, SessionEnds, Disturb
    <2>. QED
        BY <1>1, <2>1 DEF PageRow
<1>3. account' \in AccountRow /\ account'.factor = account.factor
    <2>1. account' \in {account, [account EXCEPT !.mustChange = TRUE]}
        BY DEF Activate, Suspend, Deploy, ResetPassword, SessionEnds
    <2>. QED
        BY <1>1, <2>1 DEF AccountRow
<1>4. session' \in BOOLEAN
    BY <1>1 DEF Activate, Suspend, Deploy, ResetPassword, SessionEnds
<1>5. org' \in {"pending", "active", "suspended"} /\ version' \in 1 .. 2
    BY <1>1 DEF Activate, Suspend, Deploy, ResetPassword, SessionEnds
<1>. QED
    BY <1>2, <1>3, <1>4, <1>5 DEF AdmissionInv, AdmissionTypeOK, ConsoleInv

LEMMA AdmissionStep ==
  ASSUME AdmissionInv, [ANext]_avars
  PROVE  AdmissionInv'
<1>1. CASE UNCHANGED avars
    BY <1>1 DEF avars, AdmissionInv, AdmissionTypeOK, ConsoleInv
<1>. QED
    BY <1>1, RefreshStep, SignInSteps, GoogleStep, ConsentPasswordSteps, ConsoleSteps, OtherSteps
    DEF ANext

(* The gate has asked for what the screens before this one have settled.   *)
LEMMA OfferedIsAllowed == AdmissionInv => NothingOfferedIsRefused
<1> SUFFICES ASSUME AdmissionInv, session, page.status = "ready", page.me = handleMe, ~page.trouble,
                    NEW path \in Offered
             PROVE  Gate(path) = "ok"
    BY DEF NothingOfferedIsRefused
<1>1. /\ page.me.termsAccepted = (account.consent = version) /\ page.me.active = (org = "active")
      /\ page.me.mustChange = account.mustChange /\ page.me.admin = Admin
      /\ account.mustChange \in BOOLEAN
    BY DEF handleMe, AdmissionInv, AdmissionTypeOK, AccountRow
<1>2. CASE Screen = "consent"
    <2>1. path = "accept-terms"
        BY <1>2 DEF Offered
    <2>. QED
        BY <2>1 DEF Gate, PASSWORD_ROTATION_ALLOWLIST, INACTIVE_ORG_ALLOWLIST, CONSENT_ALLOWLIST,
                    ADMIN_SETUP_ALLOWLIST
<1>3. CASE Screen = "password"
    <2>1. path = "password"
        BY <1>3 DEF Offered
    <2>2. account.consent = version /\ (Admin \/ org = "active")
        BY <1>1, <1>3 DEF Screen
    <2>. QED
        BY <2>1, <2>2 DEF Gate, PASSWORD_ROTATION_ALLOWLIST, ADMIN_SETUP_ALLOWLIST
<1>4. CASE Screen = "admin"
    <2>1. path \in {"platform", "2fa", "totp"} /\ (path = "platform" => account.factor = "totp")
        BY <1>4 DEF Offered, AdmissionInv, ConsoleInv
    <2>2. account.consent = version /\ ~account.mustChange /\ Admin
        BY <1>1, <1>4 DEF Screen
    <2>. QED
        BY <2>1, <2>2 DEF Gate, ADMIN_SETUP_ALLOWLIST
<1>5. CASE Screen = "dashboard"
    <2>1. account.consent = version /\ ~account.mustChange /\ ~Admin /\ org = "active"
        BY <1>1, <1>5 DEF Screen
    <2>. QED
        BY <2>1 DEF Gate
<1>. QED
    BY <1>2, <1>3, <1>4, <1>5 DEF Offered

\* The inductive invariant of Admission.
THEOREM AdmissionInvariance == ASpec => []AdmissionInv
<1>1. AdmissionInv /\ [ANext]_avars => AdmissionInv'
    BY AdmissionStep
<1>. QED
    BY <1>1, AdmissionInit, PTL DEF ASpec

\* App.tsx against handleApi: while the page's copy of the session is right, the
\* gate lets through all that the screen offers.
THEOREM OfferedIsNeverRefused == ASpec => []NothingOfferedIsRefused
<1>. QED
    BY AdmissionInvariance, OfferedIsAllowed, PTL
-----------------------------------------------------------------------------
(* The activity                                                            *)

FeedRow ==
  [loaded : BOOLEAN, items : Seq(Nat), cursor : Nat, error : BOOLEAN, more : BOOLEAN]
LoadRow ==
  [before : Nat, nth : Nat, at : {"sent", "answered"}, page : Seq(Nat), next : Nat]

\* Type correctness of the log, of the section and of its requests.
FeedTypeOK ==
  /\ entries \in Nat /\ feed \in FeedRow /\ loads \subseteq LoadRow /\ twice \in BOOLEAN

\* Consecutive ids, newest first, and the cursor below them.
Descends(s) == \A i \in 1 .. Len(s) : s[i] = s[1] - i + 1
CursorOf(s) == IF Len(s) > 0 /\ s[Len(s)] > 1 THEN s[Len(s)] ELSE 0

(* A page begins right below its cursor, and has an entry if there is one. *)
PageInv ==
  \A l \in loads :
    l.at = "answered" =>
      /\ Descends(l.page) /\ l.next = CursorOf(l.page)
      /\ l.before > 1 => Len(l.page) > 0 /\ l.page[1] = l.before - 1

(* There is one request, the first or the one below what is shown.         *)
LoadInv ==
  ~twice => \A l \in loads :
    /\ loads = {l}
    /\ IF feed.loaded THEN feed.more /\ feed.cursor # 0 /\ l.before = feed.cursor ELSE l.before = 0

FeedInv == FeedTypeOK /\ PageInv /\ LoadInv /\ ActivityIsWhole

LEMMA WholeIsDescending ==
  ActivityIsWhole <=>
    (feed.loaded /\ ~twice => Descends(feed.items) /\ feed.cursor = CursorOf(feed.items))
BY DEF ActivityIsWhole, Descends, CursorOf

LEMMA FirstLoad ==
  /\ LoadOf(0, 1) \in LoadRow /\ LoadOf(0, 1).before = 0 /\ LoadOf(0, 1).at = "sent"
  /\ NoFeed \in FeedRow /\ ~NoFeed.loaded
BY DEF LoadOf, LoadRow, NoFeed, FeedRow

LEMMA FeedInit == FInit => FeedInv
<1> SUFFICES ASSUME FInit PROVE FeedInv
    OBVIOUS
<1>1. FeedTypeOK
    BY FirstLoad DEF FInit, FeedTypeOK
<1>. QED
    BY <1>1, FirstLoad DEF FInit, FeedInv, PageInv, LoadInv, ActivityIsWhole

(* A page of the log: at most ACTIVITY_PAGE ids from the top down.         *)
LEMMA PageDescends ==
  ASSUME entries \in Nat, NEW before \in Nat
  PROVE  /\ Page(before) \in Seq(Nat) /\ Descends(Page(before))
         /\ before > 1 => Len(Page(before)) > 0 /\ Page(before)[1] = before - 1
<1> DEFINE top == IF before = 0 THEN entries ELSE before - 1
           size == IF top < ACTIVITY_PAGE THEN top ELSE ACTIVITY_PAGE
<1>1. top \in Nat /\ size \in Nat /\ size <= top /\ (before > 1 => size > 0 /\ top = before - 1)
    OBVIOUS
<1>2. Page(before) = [i \in 1 .. size |-> top - i + 1]
    BY DEF Page
<1> HIDE DEF top, size
<1>3. \A i \in 1 .. size : top - i + 1 \in Nat
    BY <1>1
<1>4. Page(before) \in Seq(Nat) /\ Len(Page(before)) = size
    BY <1>1, <1>2, <1>3
<1>5. \A i \in 1 .. size : Page(before)[i] = top - i + 1
    BY <1>2
<1>. QED
    BY <1>1, <1>4, <1>5 DEF Descends

LEMMA ServeStep ==
  ASSUME FeedInv, NEW l \in loads, Serve(l)
  PROVE  FeedInv'
<1> DEFINE part == Page(l.before)
           next == IF part # <<>> /\ part[Len(part)] > 1 THEN part[Len(part)] ELSE 0
           new == [l EXCEPT !.at = "answered", !.page = part, !.next = next]
<1>1. l \in LoadRow /\ entries \in Nat
    BY DEF FeedInv, FeedTypeOK
<1>2. part \in Seq(Nat) /\ Descends(part)
        /\ (l.before > 1 => Len(part) > 0 /\ part[1] = l.before - 1)
    BY <1>1, PageDescends DEF LoadRow
<1>3. loads' = (loads \ {l}) \cup {new} /\ UNCHANGED <<entries, feed, twice, events>>
    BY DEF Serve
<1> HIDE DEF part
<1>4. next = CursorOf(part) /\ next \in Nat
    BY <1>2 DEF CursorOf
<1> HIDE DEF next
<1>5. new \in LoadRow /\ new.at = "answered" /\ new.page = part /\ new.next = next
        /\ new.before = l.before
    BY <1>1, <1>2, <1>4 DEF LoadRow
<1> HIDE DEF new
<1>6. FeedTypeOK'
    BY <1>3, <1>5 DEF FeedInv, FeedTypeOK
<1>7. PageInv'
    BY <1>2, <1>3, <1>4, <1>5 DEF FeedInv, PageInv
<1>8. LoadInv' /\ ActivityIsWhole'
    BY <1>3, <1>5 DEF FeedInv, LoadInv, ActivityIsWhole
<1>. QED
    BY <1>6, <1>7, <1>8 DEF FeedInv

(* Two runs of ids that meet are one.                                      *)
LEMMA Joined ==
  ASSUME NEW s \in Seq(Nat), NEW t \in Seq(Nat), Descends(s), Descends(t),
         Len(s) > 0, Len(t) > 0, t[1] = s[Len(s)] - 1
  PROVE  Descends(s \o t) /\ CursorOf(s \o t) = CursorOf(t)
<1> DEFINE m == Len(s)
           n == Len(t)
           u == s \o t
<1>1. /\ m \in Nat /\ n \in Nat /\ m > 0 /\ n > 0 /\ t[1] = s[m] - 1
      /\ s[1] \in Nat /\ s[m] \in Nat /\ t[1] \in Nat /\ t[n] \in Nat
    OBVIOUS
<1>2. Len(u) = m + n /\ u[1] = s[1] /\ u[m + n] = t[n]
    OBVIOUS
<1>3. \A i \in 1 .. m : u[i] = s[i]
    OBVIOUS
<1>4. \A i \in 1 .. n : u[m + i] = t[i]
    OBVIOUS
<1>5. (\A i \in 1 .. m : s[i] = s[1] - i + 1) /\ (\A i \in 1 .. n : t[i] = t[1] - i + 1)
    BY DEF Descends
<1>6. CursorOf(t) = (IF n > 0 /\ t[n] > 1 THEN t[n] ELSE 0)
    BY DEF CursorOf
<1>7. CursorOf(u) = (IF Len(u) > 0 /\ u[Len(u)] > 1 THEN u[Len(u)] ELSE 0)
    BY DEF CursorOf
<1>8. Descends(u) <=> \A i \in 1 .. Len(u) : u[i] = u[1] - i + 1
    BY DEF Descends
<1> HIDE DEF m, n, u
<1>9. t[1] = s[1] - m
    <2>1. s[m] = s[1] - m + 1
        BY <1>1, <1>5
    <2>. QED
        BY <1>1, <2>1
<1>10. \A i \in 1 .. m + n : u[i] = s[1] - i + 1
    <2> TAKE i \in 1 .. m + n
    <2>1. CASE i <= m
        BY <1>1, <1>3, <1>5, <2>1
    <2>2. CASE i > m
        <3> DEFINE j == i - m
        <3>1. j \in 1 .. n /\ i = m + j
            BY <1>1, <2>2
        <3> HIDE DEF j
        <3>2. u[i] = t[j] /\ t[j] = t[1] - j + 1
            BY <1>4, <1>5, <3>1
        <3>. QED
            BY <1>1, <1>9, <3>1, <3>2
    <2>. QED
        BY <1>1, <2>1, <2>2
<1>11. Descends(u)
    BY <1>2, <1>8, <1>10
<1>12. m + n > 0 /\ CursorOf(u) = IF m + n > 0 /\ t[n] > 1 THEN t[n] ELSE 0
    BY <1>1, <1>2, <1>7
<1>13. CursorOf(u) = CursorOf(t)
    BY <1>1, <1>6, <1>12
<1>. QED
    BY <1>11, <1>13 DEF u

LEMMA ArriveStep ==
  ASSUME FeedInv, NEW l \in loads, Arrive(l)
  PROVE  FeedInv'
<1> DEFINE items == IF l.before # 0 /\ feed.loaded THEN feed.items \o l.page ELSE l.page
           more == feed.more /\ l.before = 0
<1>1. l \in LoadRow /\ feed \in FeedRow /\ l.at = "answered"
    BY DEF FeedInv, FeedTypeOK, Arrive
<1>2. /\ loads' = loads \ {l} /\ UNCHANGED <<entries, twice, events>>
      /\ feed' = [loaded |-> TRUE, cursor |-> l.next, error |-> FALSE, items |-> items, more |-> more]
    BY DEF Arrive
<1>3. items \in Seq(Nat) /\ more \in BOOLEAN
    <2>1. l.page \in Seq(Nat) /\ feed.items \in Seq(Nat) /\ feed.items \o l.page \in Seq(Nat)
        BY <1>1 DEF LoadRow, FeedRow
    <2>. QED
        BY <2>1
<1>4. ~twice => Descends(items) /\ l.next = CursorOf(items)
    <2> SUFFICES ASSUME ~twice PROVE Descends(items) /\ l.next = CursorOf(items)
        OBVIOUS
    <2>1. Descends(l.page) /\ l.next = CursorOf(l.page)
        BY <1>1 DEF FeedInv, PageInv
    <2>2. CASE l.before # 0 /\ feed.loaded
        <3>1. l.before = feed.cursor /\ Descends(feed.items) /\ feed.cursor = CursorOf(feed.items)
            BY <2>2, WholeIsDescending DEF FeedInv, LoadInv
        <3>2. feed.items \in Seq(Nat) /\ l.page \in Seq(Nat)
            BY <1>1 DEF LoadRow, FeedRow
        <3>3. Len(feed.items) > 0 /\ l.before > 1 /\ l.before = feed.items[Len(feed.items)]
            BY <2>2, <3>1, <3>2 DEF CursorOf
        <3>4. Len(l.page) > 0 /\ l.page[1] = l.before - 1
            BY <1>1, <3>3 DEF FeedInv, PageInv
        <3>. QED
            BY <2>1, <2>2, <3>1, <3>2, <3>3, <3>4, Joined
    <2>3. CASE ~(l.before # 0 /\ feed.loaded)
        BY <2>1, <2>3
    <2>. QED
        BY <2>2, <2>3
<1> HIDE DEF items, more
<1>5. feed' \in FeedRow /\ feed'.items = items /\ feed'.cursor = l.next
    BY <1>1, <1>2, <1>3 DEF FeedRow, LoadRow
<1>6. FeedTypeOK' /\ PageInv'
    BY <1>2, <1>5 DEF FeedInv, FeedTypeOK, PageInv
<1>7. LoadInv'
    BY <1>2 DEF FeedInv, LoadInv
<1>8. ActivityIsWhole'
    BY <1>2, <1>4, <1>5, WholeIsDescending DEF ActivityIsWhole, Descends, CursorOf
<1>. QED
    BY <1>6, <1>7, <1>8 DEF FeedInv

LEMMA LoadFailsStep ==
  ASSUME FeedInv, NEW l \in loads, LoadFails(l)
  PROVE  FeedInv'
<1> DEFINE more == feed.more /\ l.before = 0
<1>1. /\ loads' = loads \ {l} /\ UNCHANGED <<entries, twice>>
      /\ feed' = [feed EXCEPT !.error = TRUE, !.more = more] /\ feed \in FeedRow /\ more \in BOOLEAN
    BY DEF LoadFails, FeedInv, FeedTypeOK
<1> HIDE DEF more
<1>2. feed' \in FeedRow /\ feed'.items = feed.items /\ feed'.cursor = feed.cursor
        /\ feed'.loaded = feed.loaded
    BY <1>1 DEF FeedRow
<1>3. FeedTypeOK' /\ PageInv' /\ LoadInv'
    BY <1>1, <1>2 DEF FeedInv, FeedTypeOK, PageInv, LoadInv
<1>4. ActivityIsWhole'
    BY <1>1, <1>2 DEF FeedInv, ActivityIsWhole
<1>. QED
    BY <1>3, <1>4 DEF FeedInv

LEMMA ShowOlderStep ==
  ASSUME FeedInv, ShowOlder
  PROVE  FeedInv'
<1>1. /\ feed.loaded /\ feed.cursor # 0 /\ ~feed.more /\ feed \in FeedRow
      /\ feed' = [feed EXCEPT !.more = TRUE]
      /\ loads' = loads \cup {LoadOf(feed.cursor, 1)} /\ UNCHANGED <<entries, twice>>
    BY DEF ShowOlder, FeedInv, FeedTypeOK
<1>2. feed' \in FeedRow /\ feed'.items = feed.items /\ feed'.cursor = feed.cursor
        /\ feed'.loaded = feed.loaded /\ feed'.more
    BY <1>1 DEF FeedRow
<1>3. LoadOf(feed.cursor, 1) \in LoadRow /\ LoadOf(feed.cursor, 1).before = feed.cursor
        /\ LoadOf(feed.cursor, 1).at = "sent"
    BY <1>1 DEF LoadOf, LoadRow, FeedRow
<1>4. FeedTypeOK' /\ PageInv'
    BY <1>1, <1>2, <1>3 DEF FeedInv, FeedTypeOK, PageInv
<1>5. ~twice => loads = {}
    BY <1>1 DEF FeedInv, LoadInv
<1>6. LoadInv' /\ ActivityIsWhole'
    BY <1>1, <1>2, <1>3, <1>5 DEF FeedInv, LoadInv, ActivityIsWhole
<1>. QED
    BY <1>4, <1>6 DEF FeedInv

LEMMA RetryStep ==
  ASSUME FeedInv, Retry
  PROVE  FeedInv'
<1>1. PICK nth \in 1 .. 2 : loads' = loads \cup {LoadOf(0, nth)}
    BY DEF Retry
<1>2. ~feed.loaded /\ twice' = (twice \/ loads # {}) /\ UNCHANGED <<entries, feed, events>>
    BY DEF Retry
<1>3. LoadOf(0, nth) \in LoadRow /\ LoadOf(0, nth).before = 0 /\ LoadOf(0, nth).at = "sent"
    BY DEF LoadOf, LoadRow
<1>4. FeedTypeOK' /\ PageInv'
    BY <1>1, <1>2, <1>3 DEF FeedInv, FeedTypeOK, PageInv
<1>5. LoadInv' /\ ActivityIsWhole'
    BY <1>1, <1>2, <1>3 DEF LoadInv, ActivityIsWhole
<1>. QED
    BY <1>4, <1>5 DEF FeedInv

LEMMA EntryStep ==
  ASSUME FeedInv, ActionDone \/ EntryAdded
  PROVE  FeedInv'
<1>1. entries' \in Nat /\ twice' = twice
    BY DEF ActionDone, EntryAdded, FeedInv, FeedTypeOK
<1>2. CASE ActionDone
    <2>1. loads' = {LoadOf(0, 1)} /\ feed' = NoFeed
        BY <1>2 DEF ActionDone, Anew
    <2>. QED
        BY <1>1, <2>1, FirstLoad DEF FeedInv, FeedTypeOK, PageInv, LoadInv, ActivityIsWhole
<1>3. CASE EntryAdded
    BY <1>1, <1>3 DEF EntryAdded, FeedInv, FeedTypeOK, PageInv, LoadInv, ActivityIsWhole
<1>. QED
    BY <1>2, <1>3

LEMMA FeedStep ==
  ASSUME FeedInv, [FNext]_fvars
  PROVE  FeedInv'
<1>1. CASE UNCHANGED fvars
    BY <1>1 DEF fvars, FeedInv, FeedTypeOK, PageInv, LoadInv, ActivityIsWhole
<1>. QED
    BY <1>1, ServeStep, ArriveStep, LoadFailsStep, ShowOlderStep, RetryStep, EntryStep DEF FNext

\* The inductive invariant of ActivityFeed.
THEOREM FeedInvariance == FSpec => []FeedInv
<1>1. FeedInv /\ [FNext]_fvars => FeedInv'
    BY FeedStep
<1>. QED
    BY <1>1, FeedInit, PTL DEF FSpec

\* ActivitySection and handleAdminActivity: the activity shown has no gap and no
\* entry twice, for any log, while it grows.
THEOREM ActivityIsAlwaysWhole == FSpec => []ActivityIsWhole
<1>1. FeedInv => ActivityIsWhole
    BY DEF FeedInv
<1>. QED
    BY <1>1, FeedInvariance, PTL

-----------------------------------------------------------------------------
(* The list of clients                                                     *)

Standings == {"pending", "active", "suspended", "blocked"}
Months == {"this", "last"}
ShownRow == [standing : Standings \cup {"unknown"}, log : Nat, month : Months \cup {"none"}]
PollRow == [month : Months, at : {"sent", "answered"}, answer : ShownRow]
DialogRow ==
  [act : OrgAction \cup {"none"}, busy : BOOLEAN, needsCode : BOOLEAN,
   error : {"none", "refused", "conflict", "lost"}]
OrderRow ==
  [kind : {"code", "act"}, act : OrgAction, at : {"sent", "answered"},
   answer : {"none", "ok", "refused", "conflict", "step_up_required"}, heard : BOOLEAN]

\* Type correctness of the client, the list, the dialog and its requests.
ConsoleTypeOK ==
  /\ standing \in Standings /\ log \in Nat /\ window \in BOOLEAN /\ spent \in BOOLEAN
  /\ month \in Months /\ shown \in ShownRow /\ polls \subseteq PollRow
  /\ dialog \in DialogRow /\ orders \subseteq OrderRow

(* A dialog that is open waits for one answer at most, and is busy.        *)
DialogInv ==
  \A o \in orders : o.heard =>
    /\ dialog.act \in OrgAction /\ dialog.busy
    /\ \A p \in orders : p.heard => p = o

(* One request for the list is under way at most, for the month chosen;    *)
(* its answer is at least as new as what is shown.                         *)
ListInv ==
  /\ shown.log <= log
  /\ \A q \in polls :
       /\ polls = {q} /\ q.month = month
       /\ q.at = "answered" =>
            shown.log <= q.answer.log /\ q.answer.log <= log /\ q.answer.month = month

ClientsInv == ConsoleTypeOK /\ DialogInv /\ ListInv

\* A step that replaces the list.
Replaced == shown' # shown => shown'.log >= shown.log /\ shown'.month = month'

LEMMA PollOfIsRow ==
  ASSUME NEW m \in Months
  PROVE  PollOf(m) \in PollRow /\ PollOf(m).month = m /\ PollOf(m).at = "sent"
BY DEF PollOf, PollRow, ShownRow, Nothing

LEMMA ClientsInit == CInit => ClientsInv
<1> SUFFICES ASSUME CInit PROVE ClientsInv
    OBVIOUS
<1>1. /\ standing \in Standings /\ log = 0 /\ log \in Nat /\ window \in BOOLEAN
      /\ spent \in BOOLEAN /\ month \in Months /\ orders = {}
    BY DEF CInit, Standings, Months
<1>2. shown \in ShownRow /\ shown.log = 0
    BY DEF CInit, Nothing, ShownRow
<1>3. polls = {PollOf(month)}
    BY DEF CInit
<1>4. dialog \in DialogRow
    BY DEF CInit, NoDialog, DialogRow
<1>5. ConsoleTypeOK
    BY <1>1, <1>2, <1>3, <1>4, PollOfIsRow DEF ConsoleTypeOK
<1>6. DialogInv
    BY <1>1 DEF DialogInv
<1>7. shown.log <= log
    BY <1>1, <1>2
<1>8. ASSUME NEW q \in polls
      PROVE  polls = {q} /\ q.month = month /\ q.at # "answered"
  <2>1. q = PollOf(month)
      BY <1>3, <1>8
  <2>. QED
      BY <2>1, <1>1, <1>3, PollOfIsRow
<1>9. ListInv
    BY <1>7, <1>8 DEF ListInv
<1>. QED
    BY <1>5, <1>6, <1>9 DEF ClientsInv

\* A step that leaves the list, while the client changes.
LEMMA ListRests ==
  ASSUME ClientsInv, UNCHANGED list, log' \in {log, log + 1}
  PROVE  ListInv' /\ Replaced
<1>1. log \in Nat /\ shown.log \in Nat /\ \A q \in polls : q.answer.log \in Nat
    BY DEF ClientsInv, ConsoleTypeOK, ShownRow, PollRow
<1>2. log' >= log /\ log' \in Nat
    BY <1>1
<1>3. UNCHANGED <<shown, polls, month>>
    BY DEF list
<1>4. shown.log <= log'
    BY <1>1, <1>2 DEF ClientsInv, ListInv
<1>5. ASSUME NEW q \in polls, q.at = "answered"
      PROVE  q.answer.log <= log'
    <2>1. q.answer.log <= log /\ q.answer.log \in Nat
        BY <1>1, <1>5 DEF ClientsInv, ListInv
    <2>. QED
        BY <1>1, <1>2, <2>1
<1>. QED
    BY <1>3, <1>4, <1>5 DEF ClientsInv, ListInv, Replaced

\* The poll begins anew.
LEMMA AnewStep ==
  ASSUME ClientsInv, NEW m \in Months, PollAnew(m), month' = m, UNCHANGED <<log, shown>>
  PROVE  ListInv' /\ polls' \subseteq PollRow /\ Replaced
BY PollOfIsRow DEF ClientsInv, ListInv, PollAnew, Replaced

LEMMA PollSteps ==
  ASSUME ClientsInv,
         \/ PollRuns
         \/ \E q \in polls : Overview(q) \/ PollArrives(q) \/ PollFails(q)
         \/ \E m \in Months : ChooseMonth(m)
  PROVE  ClientsInv' /\ Replaced
<1>1. /\ UNCHANGED <<standing, log, window, spent, dialog, orders>>
      /\ log \in Nat /\ shown \in ShownRow /\ month \in Months /\ polls \subseteq PollRow
    BY DEF ClientsInv, ConsoleTypeOK, PollRuns, Overview, PollArrives, PollFails, ChooseMonth, server
<1>2. ASSUME shown' \in ShownRow, month' \in Months, polls' \subseteq PollRow, ListInv', Replaced
      PROVE  ClientsInv' /\ Replaced
    BY <1>1, <1>2 DEF ClientsInv, ConsoleTypeOK, DialogInv
<1>3. CASE PollRuns
    BY <1>1, <1>2, <1>3, AnewStep DEF PollRuns
<1>4. ASSUME NEW m \in Months, ChooseMonth(m)
      PROVE  ClientsInv' /\ Replaced
    BY <1>1, <1>2, <1>4, AnewStep DEF ChooseMonth
<1>5. ASSUME NEW q \in polls, Overview(q)
      PROVE  ClientsInv' /\ Replaced
    <2> DEFINE answer == [standing |-> standing, log |-> log, month |-> q.month]
    <2> DEFINE p == [q EXCEPT !.at = "answered", !.answer = answer]
    <2>1. polls = {q} /\ q.month = month /\ q \in PollRow
        BY <1>1 DEF ClientsInv, ListInv
    <2>2. answer \in ShownRow /\ answer.log = log /\ answer.month = month
        BY <1>1, <2>1 DEF ShownRow, ClientsInv, ConsoleTypeOK
    <2>3. polls' = (polls \ {q}) \cup {p} /\ UNCHANGED <<month, shown>>
        BY <1>5 DEF Overview
    <2> HIDE DEF answer
    <2>4. p \in PollRow /\ p.month = month /\ p.at = "answered" /\ p.answer = answer
        BY <2>1, <2>2 DEF PollRow
    <2> HIDE DEF p
    <2>5. polls' = {p}
        BY <2>1, <2>3
    <2>6. ListInv' /\ polls' \subseteq PollRow /\ Replaced
        BY <1>1, <2>2, <2>3, <2>4, <2>5 DEF ClientsInv, ListInv, Replaced
    <2>. QED
        BY <1>1, <1>2, <2>3, <2>6
<1>6. ASSUME NEW q \in polls, PollArrives(q)
      PROVE  ClientsInv' /\ Replaced
    <2>1. polls = {q} /\ q \in PollRow
          /\ shown.log <= q.answer.log /\ q.answer.log <= log /\ q.answer.month = month
        BY <1>1, <1>6 DEF ClientsInv, ListInv, PollArrives
    <2>2. q.answer \in ShownRow
        BY <2>1 DEF PollRow
    <2>3. shown' = q.answer /\ polls' = {} /\ month' = month
        BY <1>6, <2>1 DEF PollArrives
    <2>4. shown.log \in Nat /\ q.answer.log \in Nat
        BY <1>1, <2>2 DEF ShownRow
    <2>5. ListInv' /\ polls' \subseteq PollRow
        BY <1>1, <2>1, <2>3 DEF ListInv
    <2>6. Replaced
        BY <2>1, <2>3, <2>4 DEF Replaced
    <2>. QED
        BY <1>1, <1>2, <2>2, <2>3, <2>5, <2>6
<1>7. ASSUME NEW q \in polls, PollFails(q)
      PROVE  ClientsInv' /\ Replaced
    <2>1. polls' \subseteq polls /\ UNCHANGED <<month, shown>>
        BY <1>7 DEF PollFails
    <2>2. ListInv'
        BY <1>1, <2>1 DEF ClientsInv, ListInv
    <2>. QED
        BY <1>1, <1>2, <2>1, <2>2 DEF Replaced
<1>. QED
    BY <1>3, <1>4, <1>5, <1>6, <1>7

LEMMA NoDialogIsRow ==
  /\ NoDialog \in DialogRow /\ NoDialog.act = "none" /\ ~NoDialog.busy
  /\ \A a \in OrgAction : /\ [NoDialog EXCEPT !.act = a] \in DialogRow
                          /\ ~[NoDialog EXCEPT !.act = a].busy
BY DEF NoDialog, DialogRow

LEMMA OrderIsRow ==
  ASSUME dialog.act \in OrgAction, NEW kind \in {"code", "act"}
  PROVE  OrderOf(kind) \in OrderRow
BY DEF OrderOf, OrderRow

LEMMA DialogSteps ==
  ASSUME ClientsInv, (\E a \in OrgAction : OpenDialog(a)) \/ CloseDialog \/ Confirm
  PROVE  ClientsInv' /\ Replaced
<1>1. UNCHANGED <<standing, log, window, spent>> /\ UNCHANGED list
    BY DEF OpenDialog, CloseDialog, Confirm, server
<1>2. ListInv' /\ Replaced
    BY <1>1, ListRests DEF ClientsInv
<1>3. dialog \in DialogRow /\ orders \subseteq OrderRow
      /\ (dialog.act # "none" => dialog.act \in OrgAction)
    BY DEF ClientsInv, ConsoleTypeOK, DialogRow
<1>4. ASSUME dialog' \in DialogRow, orders' \subseteq OrderRow, DialogInv'
      PROVE  ClientsInv' /\ Replaced
    BY <1>1, <1>2, <1>4 DEF ClientsInv, ConsoleTypeOK, list
<1>5. CASE (\E a \in OrgAction : OpenDialog(a)) \/ CloseDialog
    <2>1. ~dialog.busy \/ dialog.act = "none"
        BY <1>5 DEF OpenDialog, CloseDialog, OnPage
    <2>2. \A o \in orders : ~o.heard
        BY <2>1 DEF ClientsInv, DialogInv, OrgAction
    <2>3. dialog' \in DialogRow /\ orders' = orders
        BY <1>5, NoDialogIsRow DEF OpenDialog, CloseDialog
    <2>. QED
        BY <1>3, <1>4, <2>2, <2>3 DEF DialogInv
<1>6. CASE Confirm
    <2> DEFINE kind == IF dialog.needsCode THEN "code" ELSE "act"
    <2>1. ~dialog.busy /\ dialog.act \in OrgAction
        BY <1>3, <1>6 DEF Confirm, OnPage
    <2>2. \A o \in orders : ~o.heard
        BY <2>1 DEF ClientsInv, DialogInv
    <2>3. dialog' = [dialog EXCEPT !.busy = TRUE, !.error = "none"]
          /\ orders' = orders \cup {OrderOf(kind)}
        BY <1>6 DEF Confirm
    <2>4. dialog' \in DialogRow /\ dialog'.busy /\ dialog'.act = dialog.act
        BY <1>3, <2>3 DEF DialogRow
    <2>5. kind \in {"code", "act"}
        OBVIOUS
    <2> HIDE DEF kind
    <2>6. orders' \subseteq OrderRow
        BY <1>3, <2>1, <2>3, <2>5, OrderIsRow
    <2>7. DialogInv'
        BY <2>1, <2>2, <2>3, <2>4 DEF DialogInv
    <2>. QED
        BY <1>4, <2>4, <2>6, <2>7
<1>. QED
    BY <1>5, <1>6

\* The server has come to an order.
LEMMA AnsweredStep ==
  ASSUME ClientsInv, NEW o \in orders,
         NEW answer \in {"ok", "refused", "conflict", "step_up_required"},
         Answered(o, answer), dialog' = dialog
  PROVE  orders' \subseteq OrderRow /\ DialogInv'
<1> DEFINE p == [o EXCEPT !.at = "answered", !.answer = answer]
<1>1. o \in OrderRow
    BY DEF ClientsInv, ConsoleTypeOK
<1>2. p \in OrderRow /\ p.heard = o.heard
    BY <1>1 DEF OrderRow
<1>3. orders' = (orders \ {o}) \cup {p}
    BY DEF Answered
<1> HIDE DEF p
<1>4. orders' \subseteq OrderRow
    BY <1>2, <1>3 DEF ClientsInv, ConsoleTypeOK
<1>5. DialogInv'
    BY <1>2, <1>3 DEF ClientsInv, DialogInv
<1>. QED
    BY <1>4, <1>5

LEMMA ServerSteps ==
  ASSUME ClientsInv,
         \/ \E o \in orders : StepUp(o) \/ Enforce(o)
         \/ CodeChanges \/ StepUpLapses \/ OthersAct
  PROVE  ClientsInv' /\ Replaced
<1>1. dialog' = dialog /\ UNCHANGED list
    BY DEF StepUp, Enforce, CodeChanges, StepUpLapses, OthersAct
<1>2. standing \in Standings /\ log \in Nat /\ window \in BOOLEAN /\ spent \in BOOLEAN
    BY DEF ClientsInv, ConsoleTypeOK
<1>3. \A a \in OrgAction : Becomes[a] \in Standings
    BY DEF OrgAction, Becomes, Standings
<1>4. ASSUME standing' \in Standings, log' \in {log, log + 1}, window' \in BOOLEAN,
             spent' \in BOOLEAN, orders' \subseteq OrderRow, DialogInv'
      PROVE  ClientsInv' /\ Replaced
    <2>1. log' \in Nat
        BY <1>2, <1>4
    <2>2. UNCHANGED <<month, shown, polls>>
        BY <1>1 DEF list
    <2>. QED
        BY <1>1, <1>4, <2>1, <2>2, ListRests DEF ClientsInv, ConsoleTypeOK
<1>5. ASSUME NEW o \in orders, StepUp(o)
      PROVE  ClientsInv' /\ Replaced
    <2> DEFINE answer == IF spent THEN "refused" ELSE "ok"
    <2>1. answer \in {"ok", "refused", "conflict", "step_up_required"} /\ Answered(o, answer)
        BY <1>5 DEF StepUp
    <2> HIDE DEF answer
    <2>2. orders' \subseteq OrderRow /\ DialogInv'
        BY <1>1, <2>1, AnsweredStep
    <2>3. standing' = standing /\ log' = log /\ window' \in BOOLEAN /\ spent' = TRUE
        BY <1>5 DEF StepUp
    <2>. QED
        BY <1>2, <1>4, <2>2, <2>3
<1>6. ASSUME NEW o \in orders, Enforce(o)
      PROVE  ClientsInv' /\ Replaced
    <2> DEFINE answer == IF Refusal(o.act) = "none" THEN "ok" ELSE Refusal(o.act)
    <2>1. o.act \in OrgAction
        BY DEF ClientsInv, ConsoleTypeOK, OrderRow
    <2>2. answer \in {"ok", "refused", "conflict", "step_up_required"}
        BY DEF Refusal
    <2>3. Answered(o, answer) /\ UNCHANGED <<window, spent>>
          /\ standing' \in {standing, Becomes[o.act]} /\ log' \in {log, log + 1}
        BY <1>6 DEF Enforce
    <2> HIDE DEF answer
    <2>4. orders' \subseteq OrderRow /\ DialogInv'
        BY <1>1, <2>2, <2>3, AnsweredStep
    <2>5. standing' \in Standings
        BY <1>2, <1>3, <2>1, <2>3
    <2>. QED
        BY <1>2, <1>4, <2>3, <2>4, <2>5
<1>7. CASE CodeChanges \/ StepUpLapses \/ OthersAct
    <2>1. orders' = orders /\ log' \in {log, log + 1}
          /\ window' \in BOOLEAN /\ spent' \in BOOLEAN
        BY <1>2, <1>7 DEF CodeChanges, StepUpLapses, OthersAct
    <2>2. standing' \in Standings
        BY <1>2, <1>3, <1>7 DEF CodeChanges, StepUpLapses, OthersAct, Buttons
    <2>3. orders' \subseteq OrderRow /\ DialogInv'
        BY <1>1, <2>1 DEF ClientsInv, ConsoleTypeOK, DialogInv
    <2>. QED
        BY <1>4, <2>1, <2>2, <2>3
<1>. QED
    BY <1>5, <1>6, <1>7

LEMMA AnswerSteps ==
  ASSUME ClientsInv, NEW o \in orders, OrderAnswered(o) \/ OrderLost(o) \/ Unheard(o)
  PROVE  ClientsInv' /\ Replaced
<1>1. UNCHANGED <<standing, log, window, spent, month, shown>>
    BY DEF OrderAnswered, OrderLost, Unheard, server, list
<1>2. dialog \in DialogRow /\ orders \subseteq OrderRow /\ month \in Months /\ o \in OrderRow
    BY DEF ClientsInv, ConsoleTypeOK
<1>3. /\ polls' = polls \/ PollAnew(month)
      /\ polls' = polls => UNCHANGED list
    BY <1>1 DEF OrderAnswered, CodeTaken, ActDone, CodeWanted, Refused, OrderLost, Unheard, list
<1>4. ListInv' /\ polls' \subseteq PollRow /\ Replaced
    <2>1. CASE polls' = polls
        BY <1>1, <1>3, <2>1, ListRests DEF ClientsInv, ConsoleTypeOK
    <2>2. CASE PollAnew(month)
        BY <1>1, <1>2, <2>2, AnewStep
    <2>. QED
        BY <1>3, <2>1, <2>2
<1>5. ASSUME dialog' \in DialogRow, orders' \subseteq OrderRow, DialogInv'
      PROVE  ClientsInv' /\ Replaced
    BY <1>1, <1>4, <1>5 DEF ClientsInv, ConsoleTypeOK
<1>6. o.heard => /\ dialog.act \in OrgAction /\ dialog.busy
                 /\ \A p \in orders \ {o} : ~p.heard
    BY DEF ClientsInv, DialogInv
<1>7. CASE o.heard /\ orders' = orders \ {o} /\ dialog' \in DialogRow
    <2>1. \A p \in orders' : ~p.heard
        BY <1>6, <1>7
    <2>. QED
        BY <1>2, <1>5, <1>7, <2>1 DEF DialogInv
<1>8. CASE o.heard /\ CodeTaken(o)
    <2>1. OrderOf("act") \in OrderRow
        BY <1>6, <1>8, OrderIsRow
    <2>2. orders' = (orders \ {o}) \cup {OrderOf("act")} /\ dialog' = dialog
        BY <1>8 DEF CodeTaken
    <2>3. DialogInv'
        BY <1>6, <1>8, <2>2 DEF DialogInv
    <2>. QED
        BY <1>2, <1>5, <2>1, <2>2, <2>3
<1>9. CASE o.heard /\ dialog' \in DialogRow
           /\ orders' = (orders \ {o}) \cup {[o EXCEPT !.heard = FALSE]}
    <2>1. [o EXCEPT !.heard = FALSE] \in OrderRow /\ ~[o EXCEPT !.heard = FALSE].heard
        BY <1>2 DEF OrderRow
    <2>2. \A p \in orders' : ~p.heard
        BY <1>6, <1>9, <2>1
    <2>. QED
        BY <1>2, <1>5, <1>9, <2>1, <2>2 DEF DialogInv
<1>10. CASE Unheard(o)
    <2>1. dialog' = dialog /\ orders' \subseteq orders
        BY <1>10 DEF Unheard
    <2>2. DialogInv'
        BY <2>1 DEF ClientsInv, DialogInv
    <2>. QED
        BY <1>2, <1>5, <2>1, <2>2
<1>11. ASSUME NEW error \in {"none", "refused", "conflict", "lost"}
       PROVE  [dialog EXCEPT !.busy = FALSE, !.error = error] \in DialogRow
    BY <1>2 DEF DialogRow
<1>12. [dialog EXCEPT !.busy = FALSE, !.needsCode = TRUE] \in DialogRow
    BY <1>2 DEF DialogRow
<1>13. CASE OrderAnswered(o)
    <2>1. CASE ActDone(o)
        BY <1>7, <1>13, <2>1, NoDialogIsRow DEF ActDone, OrderAnswered
    <2>2. CASE CodeWanted(o)
        BY <1>7, <1>12, <1>13, <2>2 DEF CodeWanted, OrderAnswered
    <2>3. CASE Refused(o)
        BY <1>7, <1>11, <1>13, <2>3 DEF Refused, OrderAnswered
    <2>. QED
        BY <1>8, <1>13, <2>1, <2>2, <2>3 DEF OrderAnswered
<1>14. CASE OrderLost(o)
    BY <1>7, <1>9, <1>11, <1>14 DEF OrderLost
<1>. QED
    BY <1>10, <1>13, <1>14

LEMMA ClientsStep ==
  ASSUME ClientsInv, [CNext]_cvars
  PROVE  ClientsInv' /\ Replaced
<1>1. CASE UNCHANGED cvars
    BY <1>1 DEF cvars, server, list, ClientsInv, ConsoleTypeOK, DialogInv, ListInv, Replaced
<1>. QED
    BY <1>1, PollSteps, DialogSteps, ServerSteps, AnswerSteps DEF CNext, Months

\* The inductive invariant of Console.
THEOREM ClientsInvariance == CSpec => []ClientsInv
<1>1. ClientsInv /\ [CNext]_cvars => ClientsInv'
    BY ClientsStep
<1>. QED
    BY <1>1, ClientsInit, PTL DEF CSpec

\* "in-flight requests are aborted on ... dependency change" (usePoll.ts:26): no
\* answer puts older figures on the screen, nor those of another month.
THEOREM ListAlwaysGetsNewer == CSpec => ListOnlyGetsNewer
<1>1. ClientsInv /\ [CNext]_cvars =>
        [shown' # shown => shown'.log >= shown.log /\ shown'.month = month']_cvars
    BY ClientsStep DEF Replaced
<1>. QED
    BY <1>1, ClientsInvariance, PTL DEF CSpec, ListOnlyGetsNewer

-----------------------------------------------------------------------------
(* The call history                                                        *)

UsedFilters == Filters \cup {"all"}
HistoryRow ==
  [calls : Seq(Nat), cursor : Nat, loading : BOOLEAN, more : BOOLEAN, error : BOOLEAN,
   of : UsedFilters, all : SUBSET Nat]
AskedRow ==
  [filter : UsedFilters, cursor : Nat, nth : Nat, at : {"sent", "answered"},
   page : Seq(Nat), next : Nat, all : SUBSET Nat]

\* Type correctness of the calls, the list and its loads.
HistoryTypeOK ==
  /\ there \in Nat /\ booked \subseteq 1 .. there /\ live \in BOOLEAN /\ (live => there > 0)
  /\ filter \in UsedFilters /\ history \in HistoryRow /\ asked \subseteq AskedRow
  /\ crossed \in BOOLEAN

\* Newest first, s has what there is, to its end or down to its last, the cursor.
Lists(s, found, cursor) ==
  /\ Descending(s)
  /\ \A c \in found \ Members(s) : cursor # 0 /\ \A d \in Members(s) : c < d
  /\ cursor # 0 => cursor \in Members(s) /\ \A d \in Members(s) : cursor <= d

(* The list is whole for the filter it was begun with, which is the one    *)
(* chosen unless a load is to replace it, or was.                          *)
ShownInv ==
  /\ history.all \subseteq Matching(history.of)
  /\ ~crossed =>
       /\ Lists(history.calls, history.all, history.cursor)
       /\ Listed \subseteq Matching(history.of)
       /\ history.of # filter => history.loading \/ history.error

(* A page has what came before its cursor when it was read.                *)
AnsweredInv(l) ==
  l.at = "answered" =>
    /\ l.all \subseteq Matching(l.filter)
    /\ Members(l.page) \subseteq {c \in l.all : l.cursor # 0 => c < l.cursor}
    /\ Lists(l.page, {c \in l.all : l.cursor # 0 => c < l.cursor}, l.next)

(* Unless loads cross, the one that is under way is for the list on the    *)
(* page, and a page to be added was read when the list had begun.          *)
OnlyInv(l) ==
  ~crossed =>
    /\ asked = {l} /\ l.filter = filter
    /\ l.cursor = 0 => history.loading
    /\ l.cursor # 0 =>
         /\ l.cursor = history.cursor /\ history.of = filter
         /\ l.at = "answered" => history.all \subseteq l.all

CallHistoryInv == HistoryTypeOK /\ ShownInv /\ \A l \in asked : AnsweredInv(l) /\ OnlyInv(l)

LEMMA MembersJoin ==
  ASSUME NEW s \in Seq(Nat), NEW t \in Seq(Nat)
  PROVE  /\ s \o t \in Seq(Nat)
         /\ Members(s \o t) = Members(s) \cup Members(t)
<1>1. /\ s \o t \in Seq(Nat) /\ Len(s \o t) = Len(s) + Len(t)
      /\ \A i \in 1 .. Len(s) : (s \o t)[i] = s[i]
      /\ \A i \in 1 .. Len(t) : (s \o t)[Len(s) + i] = t[i]
    OBVIOUS
<1>2. /\ DOMAIN s = 1 .. Len(s) /\ DOMAIN t = 1 .. Len(t) /\ Len(s) \in Nat /\ Len(t) \in Nat
      /\ DOMAIN (s \o t) = 1 .. Len(s) + Len(t)
    BY <1>1
<1> DEFINE u == s \o t
<1> HIDE DEF u
<1>3. ASSUME NEW i \in DOMAIN u
      PROVE  u[i] \in Members(s) \cup Members(t)
  <2>1. CASE i \in 1 .. Len(s)
      BY <1>1, <1>2, <2>1 DEF Members, u
  <2>2. CASE i \notin 1 .. Len(s)
    <3>1. i - Len(s) \in 1 .. Len(t) /\ i = Len(s) + (i - Len(s))
        BY <1>2, <1>3, <2>2 DEF u
    <3>2. u[i] = t[i - Len(s)]
        BY <1>1, <3>1 DEF u
    <3>. QED
        BY <1>2, <3>1, <3>2 DEF Members
  <2>. QED
      BY <2>1, <2>2
<1>4. ASSUME NEW i \in DOMAIN s PROVE s[i] \in Members(u)
  <2>1. i \in DOMAIN u /\ u[i] = s[i]
      BY <1>1, <1>2, <1>4 DEF u
  <2>. QED
      BY <2>1 DEF Members
<1>5. ASSUME NEW i \in DOMAIN t PROVE t[i] \in Members(u)
  <2>1. Len(s) + i \in DOMAIN u /\ u[Len(s) + i] = t[i]
      BY <1>1, <1>2, <1>5 DEF u
  <2>. QED
      BY <2>1 DEF Members
<1>6. Members(u) = Members(s) \cup Members(t)
    BY <1>3, <1>4, <1>5 DEF Members
<1>. QED
    BY <1>1, <1>6 DEF u

\* A page below a list that goes on lower.
LEMMA DescendingJoin ==
  ASSUME NEW s \in Seq(Nat), NEW t \in Seq(Nat), Descending(s), Descending(t),
         \A c \in Members(s), d \in Members(t) : c > d
  PROVE  Descending(s \o t)
<1> DEFINE u == s \o t
<1>1. /\ Len(s) \in Nat /\ Len(t) \in Nat /\ DOMAIN u = 1 .. Len(s) + Len(t)
      /\ \A i \in 1 .. Len(s) : u[i] = s[i] /\ i \in DOMAIN s
      /\ \A i \in 1 .. Len(t) : u[Len(s) + i] = t[i] /\ i \in DOMAIN t
    OBVIOUS
<1> HIDE DEF u
<1>2. ASSUME NEW i \in DOMAIN u, i \notin 1 .. Len(s)
      PROVE  i - Len(s) \in DOMAIN t /\ u[i] = t[i - Len(s)]
  <2>1. i - Len(s) \in 1 .. Len(t) /\ Len(s) + (i - Len(s)) = i
      BY <1>1, <1>2
  <2>. QED
      BY <1>1, <2>1
<1>3. ASSUME NEW i \in DOMAIN u, NEW j \in DOMAIN u, i < j
      PROVE  u[i] > u[j]
  <2>1. CASE j \in 1 .. Len(s)
    <3>1. i \in 1 .. Len(s)
        BY <1>1, <1>3, <2>1
    <3>. QED
        BY <1>1, <1>3, <2>1, <3>1 DEF Descending
  <2>2. CASE i \in 1 .. Len(s) /\ j \notin 1 .. Len(s)
    <3>1. u[i] \in Members(s) /\ u[j] \in Members(t)
        BY <1>1, <1>2, <1>3, <2>2 DEF Members
    <3>. QED
        BY <3>1
  <2>3. CASE i \notin 1 .. Len(s) /\ j \notin 1 .. Len(s)
    <3>1. i - Len(s) \in DOMAIN t /\ j - Len(s) \in DOMAIN t
          /\ u[i] = t[i - Len(s)] /\ u[j] = t[j - Len(s)]
        BY <1>2, <1>3, <2>3
    <3>2. i - Len(s) < j - Len(s)
        BY <1>1, <1>3
    <3>. QED
        BY <3>1, <3>2 DEF Descending
  <2>. QED
      BY <2>1, <2>2, <2>3
<1>. QED
    BY <1>3 DEF Descending, u

\* What a filter matches only grows.
LEMMA MatchingGrows ==
  ASSUME there \in Nat, there' \in Nat, there' >= there, booked \subseteq booked', NEW f
  PROVE  Matching(f) \subseteq Matching(f)'
BY DEF Matching

LEMMA MatchingIsNat ==
  ASSUME there \in Nat, booked \subseteq 1 .. there, NEW f
  PROVE  Matching(f) \subseteq Nat
BY DEF Matching

LEMMA HistoryInit == HInit => CallHistoryInv
<1> SUFFICES ASSUME HInit PROVE CallHistoryInv
    OBVIOUS
<1> DEFINE first == Load("all", 0, 1)
<1>1. first \in AskedRow /\ first.at = "sent" /\ first.filter = "all" /\ first.cursor = 0
    BY DEF Load, AskedRow, UsedFilters
<1> HIDE DEF first
<1>2. asked = {first} /\ filter = "all"
    BY DEF HInit, first
<1>3. history \in HistoryRow /\ history.calls = <<>> /\ history.all = {} /\ history.cursor = 0
      /\ history.of = "all" /\ history.loading
    BY DEF HInit, HistoryRow, UsedFilters
<1>4. HistoryTypeOK
    BY <1>1, <1>2, <1>3 DEF HInit, HistoryTypeOK, UsedFilters
<1>5. ShownInv
    BY <1>2, <1>3 DEF ShownInv, Lists, Members, Listed, Descending
<1>6. \A l \in asked : AnsweredInv(l) /\ OnlyInv(l)
    BY <1>1, <1>2, <1>3 DEF AnsweredInv, OnlyInv
<1>. QED
    BY <1>4, <1>5, <1>6 DEF CallHistoryInv

\* A page is read.
LEMMA ListCallsStep ==
  ASSUME CallHistoryInv, NEW l \in asked, handleListCalls(l)
  PROVE  CallHistoryInv'
<1>1. PICK n \in 0 .. PAGE_SIZE : \E pg \in [1 .. n -> After(l)] :
        /\ l.at = "sent" /\ IsPage(pg, After(l))
        /\ asked' = (asked \ {l}) \cup {[l EXCEPT !.at = "answered", !.page = pg,
             !.next = IF After(l) \subseteq Members(pg) THEN 0 ELSE pg[n],
             !.all = Matching(l.filter)]}
        /\ UNCHANGED <<there, booked, live, filter, history, crossed, clicks>>
    BY DEF handleListCalls
<1>2. PICK pg \in [1 .. n -> After(l)] :
        /\ l.at = "sent" /\ IsPage(pg, After(l))
        /\ asked' = (asked \ {l}) \cup {[l EXCEPT !.at = "answered", !.page = pg,
             !.next = IF After(l) \subseteq Members(pg) THEN 0 ELSE pg[n],
             !.all = Matching(l.filter)]}
        /\ UNCHANGED <<there, booked, live, filter, history, crossed, clicks>>
    BY <1>1
<1> DEFINE next == IF After(l) \subseteq Members(pg) THEN 0 ELSE pg[n]
<1> DEFINE found == After(l)
<1> DEFINE all == Matching(l.filter)
<1>3. HistoryTypeOK /\ l \in AskedRow
    BY DEF CallHistoryInv, HistoryTypeOK
<1>4. all \subseteq Nat
    BY <1>3, MatchingIsNat DEF HistoryTypeOK
<1>5. found = {c \in all : l.cursor # 0 => c < l.cursor}
    BY DEF After
<1>6. found \subseteq Nat
    BY <1>4, <1>5
<1>7. n \in Nat /\ PAGE_SIZE \in Nat \ {0}
    BY CallHistoryAssumption
<1>8. pg \in Seq(Nat) /\ Len(pg) = n /\ DOMAIN pg = 1 .. n /\ \A i \in 1 .. n : pg[i] \in found
  <2>1. pg \in [1 .. n -> found]
      OBVIOUS
  <2> HIDE DEF found
  <2>2. pg \in [1 .. n -> Nat]
      BY <1>6, <2>1
  <2>3. pg \in Seq(Nat) /\ Len(pg) = n
      BY <1>7, <2>2
  <2>. QED
      BY <2>1, <2>3
<1>0. PICK p : p = [l EXCEPT !.at = "answered", !.page = pg, !.next = next, !.all = all]
    OBVIOUS
<1>9. IsPage(pg, found) /\ asked' = (asked \ {l}) \cup {p} /\ l.at = "sent"
      /\ UNCHANGED <<there, booked, live, filter, history, crossed, clicks>>
    BY <1>0, <1>2
<1>10. Members(pg) \subseteq found
    BY <1>8 DEF Members
<1>11. next \in Nat /\ Lists(pg, found, next)
  <2>1. CASE found \subseteq Members(pg)
    <3>1. next = 0
        BY <2>1
    <3> HIDE DEF next, found
    <3>. QED
        BY <1>9, <2>1, <3>1 DEF Lists, IsPage
  <2>2. CASE ~(found \subseteq Members(pg))
    <3>1. next = pg[n]
        BY <2>2
    <3> HIDE DEF next, found
    <3>2. n # 0
        BY <1>7, <1>8, <1>9, <2>2 DEF IsPage
    <3>3. n \in 1 .. n
        BY <1>7, <3>2
    <3>4. next \in Members(pg) /\ next \in Nat
        BY <1>6, <1>8, <3>1, <3>3 DEF Members
    <3>5. ASSUME NEW i \in 1 .. n PROVE next <= pg[i]
      <4>1. pg[i] \in Nat
          BY <1>6, <1>8
      <4>2. CASE i = n
          BY <3>1, <3>4, <4>2
      <4>3. CASE i # n
        <5>1. i < n
            BY <1>7, <4>3
        <5>2. pg[i] > pg[n]
            BY <1>8, <1>9, <3>3, <5>1 DEF IsPage, Descending
        <5>. QED
            BY <3>1, <3>4, <4>1, <5>2
      <4>. QED
          BY <4>2, <4>3
    <3>6. \A d \in Members(pg) : next <= d
        BY <1>8, <3>5 DEF Members
    <3>7. PICK c \in found : c \notin Members(pg)
        BY <2>2
    <3>8. c < next
        BY <1>9, <3>4, <3>7 DEF IsPage
    <3>9. next # 0
        BY <1>6, <3>4, <3>7, <3>8
    <3>. QED
        BY <1>9, <3>4, <3>6, <3>9 DEF Lists, IsPage
  <2>. QED
      BY <2>1, <2>2
<1> HIDE DEF next, found, all
<1>12. /\ p \in AskedRow /\ p.at = "answered" /\ p.page = pg /\ p.next = next /\ p.all = all
       /\ p.filter = l.filter /\ p.cursor = l.cursor
    BY <1>0, <1>3, <1>4, <1>8, <1>11 DEF AskedRow
<1>13. HistoryTypeOK'
    BY <1>3, <1>9, <1>12 DEF HistoryTypeOK
<1>14. ShownInv'
    BY <1>9 DEF CallHistoryInv, ShownInv, Matching, Listed
<1>15. \A f : Matching(f)' = Matching(f)
    BY <1>9 DEF Matching
<1>16. AnsweredInv(p)'
  <2>1. p.all = Matching(p.filter)
      BY <1>12 DEF all
  <2>. QED
      BY <1>5, <1>10, <1>11, <1>12, <1>15, <2>1 DEF AnsweredInv
<1>17. OnlyInv(p)'
  <2>1. OnlyInv(l) /\ history.all \subseteq Matching(history.of)
      BY DEF CallHistoryInv, ShownInv
  <2>2. p.all = Matching(p.filter)
      BY <1>12 DEF all
  <2>3. asked = {l} => asked' = {p}
      BY <1>9
  <2>. QED
      BY <1>9, <1>12, <2>1, <2>2, <2>3 DEF OnlyInv
<1>18. ASSUME NEW q \in asked' PROVE (AnsweredInv(q) /\ OnlyInv(q))'
  <2>1. CASE q = p
      BY <1>16, <1>17, <2>1
  <2>2. CASE q \in asked \ {l}
    <3>1. AnsweredInv(q) /\ OnlyInv(q)
        BY <2>2 DEF CallHistoryInv
    <3>2. crossed
        BY <2>2, <3>1 DEF OnlyInv
    <3>. QED
        BY <1>9, <1>15, <3>1, <3>2 DEF AnsweredInv, OnlyInv
  <2>. QED
      BY <1>9, <2>1, <2>2
<1>. QED
    BY <1>13, <1>14, <1>18 DEF CallHistoryInv

\* A load begins; calls and outcomes may have come.
LEMMA LoadStep ==
  ASSUME CallHistoryInv, NEW f \in UsedFilters, NEW cursor \in Nat, loadCalls(f, cursor),
         cursor # 0 => cursor = history.cursor /\ f = filter,
         filter' = f, live' \in BOOLEAN, live' => there > 0, there' = there,
         booked \subseteq booked', booked' \subseteq 1 .. there
  PROVE  CallHistoryInv'
<1>1. PICK nth \in 1 .. MaxLoads : asked' = asked \cup {Load(f, cursor, nth)}
    BY DEF loadCalls
<1>2. PICK p : p = Load(f, cursor, nth)
    OBVIOUS
<1>3. /\ p \in AskedRow /\ p.filter = f /\ p.cursor = cursor /\ p.at = "sent"
      /\ asked' = asked \cup {p}
    BY <1>1, <1>2, CallHistoryAssumption DEF Load, AskedRow
<1>4. HistoryTypeOK /\ ShownInv /\ \A l \in asked : AnsweredInv(l) /\ OnlyInv(l)
    BY DEF CallHistoryInv
<1>5. history' = [history EXCEPT !.error = FALSE, !.more = @ \/ cursor # 0,
                                 !.loading = @ \/ cursor = 0]
    BY DEF loadCalls
<1>6. history \in HistoryRow
    BY <1>4 DEF HistoryTypeOK
<1>7. /\ history'.calls = history.calls /\ history'.cursor = history.cursor
      /\ history'.of = history.of /\ history'.all = history.all
      /\ cursor = 0 => history'.loading
    BY <1>5, <1>6 DEF HistoryRow
<1>8. history' \in HistoryRow
  <2>1. PICK more \in BOOLEAN, loading \in BOOLEAN :
          history' = [history EXCEPT !.error = FALSE, !.more = more, !.loading = loading]
      BY <1>5, <1>6 DEF HistoryRow
  <2>. QED
      BY <1>6, <2>1 DEF HistoryRow
<1>9. crossed' \in BOOLEAN
      /\ (~crossed' => ~crossed /\ asked = {} /\ (cursor # 0 => history.of = f))
    BY <1>4 DEF loadCalls, HistoryTypeOK
<1>10. HistoryTypeOK'
    BY <1>3, <1>4, <1>8, <1>9 DEF HistoryTypeOK
<1>11. \A g : Matching(g) \subseteq Matching(g)'
    BY <1>4, MatchingGrows DEF HistoryTypeOK
<1>12. ShownInv'
  <2>1. history'.all \subseteq Matching(history.of)'
      BY <1>4, <1>7 DEF ShownInv, Matching, HistoryTypeOK
  <2>2. ASSUME ~crossed'
        PROVE  /\ Lists(history.calls, history.all, history.cursor)'
               /\ (Listed \subseteq Matching(history.of))'
    <3>1. /\ Lists(history.calls, history.all, history.cursor)
          /\ Members(history.calls) \subseteq Matching(history.of)
        BY <1>4, <1>9, <2>2 DEF ShownInv, Listed
    <3>. QED
        BY <1>4, <1>7, <3>1 DEF Lists, Members, Descending, Listed, Matching, HistoryTypeOK
  <2>3. ASSUME ~crossed', history'.of # filter'
        PROVE  history'.loading
      BY <1>7, <1>9, <2>3
  <2>. QED
      BY <2>1, <2>2, <2>3 DEF ShownInv
<1>13. ASSUME NEW q \in asked' PROVE (AnsweredInv(q) /\ OnlyInv(q))'
  <2>1. CASE q \in asked
      BY <1>4, <1>9, <1>11, <2>1 DEF AnsweredInv, OnlyInv
  <2>2. CASE q = p
    <3>1. ~crossed' => asked' = {p}
        BY <1>3, <1>9
    <3>. QED
        BY <1>3, <1>7, <1>9, <2>2, <3>1 DEF AnsweredInv, OnlyInv
  <2>. QED
      BY <1>3, <2>1, <2>2
<1>. QED
    BY <1>10, <1>12, <1>13 DEF CallHistoryInv

\* Calls and outcomes come.
LEMMA GrowthStep ==
  ASSUME CallHistoryInv, UNCHANGED <<filter, history, asked, crossed>>, live' \in BOOLEAN,
         live' => there' > 0, there' \in Nat, there' >= there, booked \subseteq booked', booked' \subseteq 1 .. there'
  PROVE  CallHistoryInv'
<1>1. HistoryTypeOK /\ ShownInv /\ \A l \in asked : AnsweredInv(l) /\ OnlyInv(l)
    BY DEF CallHistoryInv
<1>2. \A g : Matching(g) \subseteq Matching(g)'
    BY <1>1, MatchingGrows DEF HistoryTypeOK
<1>3. HistoryTypeOK'
    BY <1>1 DEF HistoryTypeOK
<1>4. ShownInv'
    BY <1>1, <1>2 DEF ShownInv, Listed, Lists
<1>5. \A l \in asked' : (AnsweredInv(l) /\ OnlyInv(l))'
    BY <1>1, <1>2 DEF AnsweredInv, OnlyInv
<1>. QED
    BY <1>3, <1>4, <1>5 DEF CallHistoryInv

\* A load that ends, well or not, leaves the others as they are.
LEMMA OthersRest ==
  ASSUME CallHistoryInv, NEW l \in asked, asked' = asked \ {l},
         UNCHANGED <<there, booked, live, filter>>,
         crossed' \in BOOLEAN, ~crossed' => ~crossed \/ asked = {l},
         history' \in HistoryRow
  PROVE  HistoryTypeOK' /\ \A q \in asked' : (AnsweredInv(q) /\ OnlyInv(q))'
<1>1. HistoryTypeOK /\ \A q \in asked : AnsweredInv(q) /\ OnlyInv(q)
    BY DEF CallHistoryInv
<1>2. HistoryTypeOK'
    BY <1>1 DEF HistoryTypeOK
<1>3. ASSUME NEW q \in asked' PROVE (AnsweredInv(q) /\ OnlyInv(q))'
  <2>1. q \in asked /\ q # l
      BY <1>3
  <2>2. crossed'
      BY <1>1, <2>1 DEF OnlyInv
  <2>3. AnsweredInv(q)'
      BY <1>1, <2>1 DEF AnsweredInv, Matching
  <2>. QED
      BY <2>2, <2>3 DEF OnlyInv
<1>. QED
    BY <1>2, <1>3

LEMMA AnswerFailsStep ==
  ASSUME CallHistoryInv, NEW l \in asked, AnswerFails(l)
  PROVE  CallHistoryInv'
<1>1. /\ history' = [history EXCEPT !.error = TRUE, !.loading = FALSE, !.more = FALSE]
      /\ asked' = asked \ {l} /\ UNCHANGED <<there, booked, live, filter, crossed>>
    BY DEF AnswerFails
<1>2. history \in HistoryRow /\ crossed \in BOOLEAN /\ ShownInv
    BY DEF CallHistoryInv, HistoryTypeOK
<1>3. /\ history' \in HistoryRow
      /\ history'.calls = history.calls /\ history'.cursor = history.cursor
      /\ history'.of = history.of /\ history'.all = history.all /\ history'.error
    BY <1>1, <1>2 DEF HistoryRow
<1>4. ShownInv'
    BY <1>1, <1>2, <1>3 DEF ShownInv, Lists, Listed, Matching
<1>. QED
    BY <1>1, <1>2, <1>3, <1>4, OthersRest DEF CallHistoryInv

\* A page goes below a list that it goes on from.
LEMMA ListsJoin ==
  ASSUME NEW s \in Seq(Nat), NEW t \in Seq(Nat), NEW all \in SUBSET Nat, NEW found \in SUBSET Nat,
         NEW cursor \in Nat, cursor # 0, NEW next \in Nat,
         Lists(s, all, cursor), Lists(t, {c \in found : c < cursor}, next),
         all \subseteq found, Members(t) \subseteq {c \in found : c < cursor}
  PROVE  Lists(s \o t, all, next)
<1>1. Members(s \o t) = Members(s) \cup Members(t)
    BY MembersJoin
<1>2. /\ Descending(s) /\ Descending(t) /\ cursor \in Members(s)
      /\ \A c \in Members(s) : cursor <= c
    BY DEF Lists
<1>3. Members(s) \subseteq Nat /\ Members(t) \subseteq Nat
    BY DEF Members
<1>4. \A c \in Members(s), d \in Members(t) : c > d
    BY <1>2, <1>3
<1>5. Descending(s \o t)
    BY <1>2, <1>4, DescendingJoin
<1>6. ASSUME NEW c \in all \ Members(s \o t)
      PROVE  next # 0 /\ \A d \in Members(s \o t) : c < d
  <2>1. \A d \in Members(s) : c < d
      BY <1>1, <1>6 DEF Lists
  <2>2. c < cursor
      BY <1>2, <2>1
  <2>3. c \in {e \in found : e < cursor} \ Members(t)
      BY <1>1, <1>6, <2>2
  <2>4. next # 0 /\ \A d \in Members(t) : c < d
      BY <2>3 DEF Lists
  <2>. QED
      BY <1>1, <2>1, <2>4
<1>7. next # 0 => next \in Members(s \o t) /\ \A d \in Members(s \o t) : next <= d
    BY <1>1, <1>3, <1>4 DEF Lists
<1>. QED
    BY <1>5, <1>6, <1>7 DEF Lists

LEMMA AnswerStep ==
  ASSUME CallHistoryInv, NEW l \in asked, Answer(l)
  PROVE  CallHistoryInv'
<1>1. /\ history \in HistoryRow /\ l \in AskedRow /\ crossed \in BOOLEAN /\ ShownInv
      /\ AnsweredInv(l) /\ OnlyInv(l) /\ l.at = "answered"
    BY DEF CallHistoryInv, HistoryTypeOK, Answer
<1>2. /\ asked' = asked \ {l} /\ UNCHANGED <<there, booked, live, filter>>
      /\ crossed' = (crossed /\ ~(asked = {l} /\ l.cursor = 0 /\ l.filter = filter))
    BY DEF Answer
<1>3. crossed' \in BOOLEAN /\ (~crossed' => ~crossed \/ asked = {l})
    BY <1>1, <1>2
<1>4. \A g : Matching(g)' = Matching(g)
    BY <1>2 DEF Matching
<1>5. /\ l.page \in Seq(Nat) /\ l.all \in SUBSET Nat /\ l.next \in Nat /\ l.cursor \in Nat
      /\ l.filter \in UsedFilters
      /\ history.calls \in Seq(Nat) /\ history.all \in SUBSET Nat
      /\ history.cursor \in Nat /\ history.of \in UsedFilters
      /\ history.error \in BOOLEAN
    BY <1>1 DEF AskedRow, HistoryRow
<1>6. CASE l.cursor = 0
  <2>1. history' = [history EXCEPT !.cursor = l.next, !.loading = FALSE, !.more = FALSE,
                      !.calls = l.page, !.of = l.filter, !.all = l.all]
      BY <1>6 DEF Answer
  <2>2. /\ history' \in HistoryRow
        /\ history'.calls = l.page /\ history'.cursor = l.next
        /\ history'.of = l.filter /\ history'.all = l.all
      BY <1>1, <1>5, <2>1 DEF HistoryRow
  <2>3. /\ l.all \subseteq Matching(l.filter) /\ Members(l.page) \subseteq l.all
        /\ Lists(l.page, l.all, l.next)
      BY <1>1, <1>6 DEF AnsweredInv, Lists
  <2>4. ~crossed' => l.filter = filter
      BY <1>1, <1>2 DEF OnlyInv
  <2>5. ShownInv'
      BY <1>2, <1>4, <2>2, <2>3, <2>4 DEF ShownInv, Listed, Lists
  <2>. QED
      BY <1>2, <1>3, <2>2, <2>5, OthersRest DEF CallHistoryInv
<1>7. CASE l.cursor # 0
  <2>1. history' = [history EXCEPT !.cursor = l.next, !.loading = FALSE, !.more = FALSE,
                      !.calls = history.calls \o l.page, !.of = history.of, !.all = history.all]
      BY <1>7 DEF Answer
  <2>2. /\ history.calls \o l.page \in Seq(Nat)
        /\ Members(history.calls \o l.page) = Members(history.calls) \cup Members(l.page)
      BY <1>5, MembersJoin
  <2>3. /\ history' \in HistoryRow
        /\ history'.calls = history.calls \o l.page /\ history'.cursor = l.next
        /\ history'.of = history.of /\ history'.all = history.all
      BY <1>1, <1>5, <2>1, <2>2 DEF HistoryRow
  <2>4. crossed' = crossed
      BY <1>1, <1>2, <1>7
  <2>5. ASSUME ~crossed
        PROVE  /\ Lists(history'.calls, history'.all, history'.cursor)
               /\ Members(history'.calls) \subseteq Matching(history.of)
               /\ history.of = filter
    <3>1. /\ l.filter = filter /\ l.cursor = history.cursor /\ history.of = filter
          /\ history.all \subseteq l.all
        BY <1>1, <1>7, <2>5 DEF OnlyInv
    <3>2. /\ l.all \subseteq Matching(filter)
          /\ Members(l.page) \subseteq {c \in l.all : c < l.cursor}
          /\ Lists(l.page, {c \in l.all : c < l.cursor}, l.next)
        BY <1>1, <1>7, <3>1 DEF AnsweredInv, Lists
    <3>3. /\ Lists(history.calls, history.all, l.cursor)
          /\ Members(history.calls) \subseteq Matching(filter)
        BY <1>1, <2>5, <3>1 DEF ShownInv, Listed
    <3>4. Lists(history.calls \o l.page, history.all, l.next)
        BY <1>5, <1>7, <3>1, <3>2, <3>3, ListsJoin
    <3>. QED
        BY <2>2, <2>3, <3>1, <3>2, <3>3, <3>4
  <2>6. (history.all \subseteq Matching(history.of))'
      BY <1>1, <1>2, <2>3 DEF ShownInv, Matching
  <2>7. ShownInv'
    <3>1. ASSUME ~crossed'
          PROVE  /\ Lists(history.calls, history.all, history.cursor)'
                 /\ (Listed \subseteq Matching(history.of))'
                 /\ (history.of = filter)'
      <4>1. /\ Lists(history'.calls, history'.all, history'.cursor)
            /\ Members(history'.calls) \subseteq Matching(history.of)
            /\ history.of = filter
          BY <2>4, <2>5, <3>1
      <4>2. Lists(history.calls, history.all, history.cursor)'
          BY <4>1 DEF Lists, Members, Descending
      <4>3. (Listed \subseteq Matching(history.of))'
          BY <1>2, <2>3, <4>1 DEF Listed, Members, Matching
      <4>. QED
          BY <1>2, <2>3, <4>1, <4>2, <4>3
    <3>. QED
        BY <2>6, <3>1 DEF ShownInv
  <2>. QED
      BY <1>2, <1>3, <2>3, <2>7, OthersRest DEF CallHistoryInv
<1>. QED
    BY <1>6, <1>7

LEMMA HistoryStep ==
  ASSUME CallHistoryInv, [HNext]_hvars
  PROVE  CallHistoryInv'
<1>1. /\ there \in Nat /\ booked \subseteq 1 .. there /\ live \in BOOLEAN
      /\ (live => there > 0) /\ filter \in UsedFilters /\ history.cursor \in Nat
    BY DEF CallHistoryInv, HistoryTypeOK, HistoryRow
<1>2. CASE UNCHANGED hvars
    BY <1>1, <1>2, GrowthStep DEF hvars
<1>3. ASSUME NEW f \in Filters, ChooseFilter(f)
      PROVE  CallHistoryInv'
    BY <1>1, <1>3, LoadStep DEF ChooseFilter, UsedFilters
<1>4. CASE LoadMore
    BY <1>1, <1>4, LoadStep DEF LoadMore
<1>5. CASE RetryLoad
    BY <1>1, <1>5, LoadStep DEF RetryLoad
<1>6. CASE CallComes
    BY <1>1, <1>6, GrowthStep DEF CallComes
<1>7. CASE CallDropsOff
  <2>1. CASE booked' = booked
      BY <1>1, <1>7, <2>1, LoadStep DEF CallDropsOff
  <2>2. CASE booked' = booked \cup {there}
    <3>1. booked' \subseteq 1 .. there /\ ~live'
        BY <1>1, <1>7, <2>2 DEF CallDropsOff
    <3>. QED
        BY <1>1, <1>7, <2>2, <3>1, LoadStep DEF CallDropsOff
  <2>. QED
      BY <1>7, <2>1, <2>2 DEF CallDropsOff
<1>8. CASE OutcomeComes
    BY <1>1, <1>8, GrowthStep DEF OutcomeComes
<1>. QED
    BY <1>2, <1>3, <1>4, <1>5, <1>6, <1>7, <1>8, ListCallsStep, AnswerStep, AnswerFailsStep
    DEF HNext

\* The inductive invariant of CallHistory.
THEOREM CallHistoryInvariance == HSpec => []CallHistoryInv
<1>1. CallHistoryInv /\ [HNext]_hvars => CallHistoryInv'
    BY HistoryStep
<1>. QED
    BY <1>1, HistoryInit, PTL DEF HSpec

\* "Keyset pagination on (started_at, id) --- stable even as new calls arrive"
\* (calls.ts:107): the list of the dashboard has each call of its filter once, and
\* leaves none out, for pages of any length and any number of calls and loads.
THEOREM HistoryIsAlwaysWhole == HSpec => []HistoryIsWhole
<1>1. CallHistoryInv => HistoryIsWhole
    BY DEF CallHistoryInv, ShownInv, HistoryIsWhole, Whole, Lists, Listed
<1>. QED
    BY <1>1, CallHistoryInvariance, PTL
=============================================================================
