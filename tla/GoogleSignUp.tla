---------------------------- MODULE GoogleSignUp ----------------------------
(***************************************************************************)
(* Signing up and signing in with Google: worker/routes/signup.ts,         *)
(* worker/routes/googleAuth.ts and worker/lib/google.ts of src/app.        *)
(*                                                                         *)
(* An attempt begins in a browser, leaves a row in oauth_states and comes  *)
(* back from Google as a callback.  Callbacks run at once, statement by    *)
(* statement; one may be repeated, or carry the code of another attempt.   *)
(***************************************************************************)
EXTENDS Integers, FiniteSets

CONSTANTS
  Attempts, Callbacks,
  Identities,      \* Google accounts as [sub, email]
  canonicalEmail,  \* canonicalEmail[e]: the one spelling of an address
  Reserved,        \* canonical addresses of CTF
  Provisioned,     \* the addresses of logins that exist, not linked to Google
  Platform,        \* the organization of those logins
  LIMIT,           \* SIGNUP_RULE.limit
  MaxVersion,      \* bound: versions of the policies
  Nobody

Addresses == {i.email : i \in Identities} \cup Provisioned

ASSUME GoogleSignUpAssumption ==
  /\ Nobody \notin Attempts \cup Callbacks \cup {Platform, "name"}
  /\ Nobody \notin Identities /\ Nobody \notin {i.sub : i \in Identities}
  /\ MaxVersion \in Nat /\ LIMIT \in Nat

\* Google vouches for an address to the account that owns it.
ASSUME OneAccountEach ==
  \A i, j \in Identities : i.email = j.email => i.sub = j.sub

VARIABLES
  attempt,       \* what the browser began: with the policies it showed, as whom
  oauth_states,  \* rows waiting for their callback
  callback,      \* each callback: how far its handler is, and its locals
  users,         \* by address (users.email is UNIQUE)
  orgs,          \* organizations that signed up, by the callback that made them
  consents,      \* terms_acceptances: address, version, and the attempt
  blocked,       \* blocked_emails, canonical
  version,       \* CURRENT_VERSIONS of the deployment
  hits           \* rate_limits: sign-ups in this window
gvars == <<attempt, oauth_states, callback, users, orgs, consents, blocked, version, hits>>

NoUser == [sub |-> Nobody, org |-> Nobody, disabled |-> FALSE]
NoHandler(at) == [at |-> at, state |-> Nobody, code |-> Nobody, user |-> Nobody,
                  taken |-> FALSE, barred |-> {}]
NoOrg == [slug |-> Nobody, owner |-> Nobody, by |-> Nobody]

GInit ==
  /\ attempt = [a \in Attempts |-> [at |-> "unopened", signup |-> FALSE, shown |-> 0, who |-> Nobody]]
  /\ oauth_states = [live |-> {}, expired |-> {}]
  /\ callback = [k \in Callbacks |-> NoHandler("unsent")]
  /\ users = [e \in Addresses |->
               IF e \in Provisioned THEN [NoUser EXCEPT !.org = Platform] ELSE NoUser]
  /\ orgs = [k \in Callbacks |-> NoOrg]
  /\ consents = {} /\ blocked = {} /\ version = 1 /\ hits = 0

\* The screens: "Continue with Google", or the sign-up form and its documents.
Open(a, signup) ==
  /\ attempt[a].at = "unopened"
  /\ attempt' = [attempt EXCEPT ![a].at = "open", ![a].signup = signup, ![a].shown = version]
  /\ UNCHANGED <<oauth_states, callback, users, orgs, consents, blocked, version, hits>>

\* handleGoogleStart, and handleSignupStart within its limit: the state row.
Start(a) ==
  /\ attempt[a].at = "open"
  /\ hits' = IF attempt[a].signup THEN hits + 1 ELSE hits
  /\ IF hits' > LIMIT
     THEN attempt' = [attempt EXCEPT ![a].at = "refused"] /\ UNCHANGED oauth_states
     ELSE attempt' = [attempt EXCEPT ![a].at = "atGoogle"] /\ oauth_states' =
            IF attempt[a].signup THEN [oauth_states EXCEPT !.live = @ \cup {a}]
            ELSE [live |-> oauth_states.live \cup {a}, expired |-> {}]
  /\ UNCHANGED <<callback, users, orgs, consents, blocked, version>>

\* Google: the person picks an account, and the browser is sent back with a code.
Authenticate(a, who) ==
  /\ attempt[a].at = "atGoogle" /\ attempt[a].who = Nobody
  /\ attempt' = [attempt EXCEPT ![a].who = who]
  /\ UNCHANGED <<oauth_states, callback, users, orgs, consents, blocked, version, hits>>

\* STATE_TTL_MS passes for an attempt's row.
StateExpires(a) ==
  /\ a \in oauth_states.live
  /\ oauth_states' = [live |-> oauth_states.live \ {a}, expired |-> oauth_states.expired \cup {a}]
  /\ UNCHANGED <<attempt, callback, users, orgs, consents, blocked, version, hits>>

pruneExpired ==
  /\ oauth_states.expired # {} /\ oauth_states' = [oauth_states EXCEPT !.expired = {}]
  /\ UNCHANGED <<attempt, callback, users, orgs, consents, blocked, version, hits>>

HourPasses ==
  /\ hits > 0 /\ hits' = 0
  /\ UNCHANGED <<attempt, oauth_states, callback, users, orgs, consents, blocked, version>>

Go(k, at) == callback' = [callback EXCEPT ![k] =
                IF at = "refused" THEN NoHandler(at) ELSE [@ EXCEPT !.at = at]]
Arrive(k, a, c, at) ==
  callback' = [callback EXCEPT ![k] = IF at = "refused" THEN NoHandler(at)
    ELSE [NoHandler(at) EXCEPT !.state = a, !.code = c, !.barred = blocked]]
Rest == <<attempt, oauth_states, users, orgs, consents, blocked, version, hits>>

\* DELETE ... RETURNING: the first callback of an attempt has its row, if in time.
Redeem(k, a, c) ==
  /\ callback[k].at = "unsent" /\ attempt[c].who # Nobody
  /\ Arrive(k, a, c, IF a \in oauth_states.live THEN "redeemed" ELSE "refused")
  /\ oauth_states' = [live |-> oauth_states.live \ {a}, expired |-> oauth_states.expired \ {a}]
  /\ UNCHANGED <<attempt, users, orgs, consents, blocked, version, hits>>

\* Cancelled at Google, or a callback without its parameters.
Cancel(k) == callback[k].at = "unsent" /\ Go(k, "refused") /\ UNCHANGED Rest

\* Mutant: the identity is taken for whatever sign-in it came with.
ExchangeAny(k) ==
  /\ callback[k].at = "redeemed"
  /\ \E at \in {"identified", "refused"} : Go(k, at)
  /\ UNCHANGED Rest

\* exchangeCodeForIdentity, parseIdToken: the nonce is that of the code's attempt;
\* Google may not answer, refuse a used code, or name an unverified address.
Exchange(k) ==
  /\ callback[k].at = "redeemed"
  /\ \E at \in {"identified", "refused"} :
       /\ at = "identified" => callback[k].code = callback[k].state
       /\ Go(k, at)
  /\ UNCHANGED Rest

Who(k) == attempt[callback[k].code].who
Signup(k) == attempt[callback[k].state].signup

\* The login linked to the account, or one of this address linked to none.
Matching(who) ==
  {e \in Addresses : users[e].org # Nobody
                     /\ (users[e].sub = who.sub \/ (users[e].sub = Nobody /\ e = who.email))}
FindUser(k) ==
  /\ callback[k].at = "identified"
  /\ \/ \E e \in Matching(Who(k)) :
          IF users[e].disabled THEN Go(k, "refused")
          ELSE callback' = [callback EXCEPT ![k].user = e, ![k].at = "found"]
     \/ Matching(Who(k)) = {} /\ Go(k, IF Signup(k) THEN "unknown" ELSE "refused")
  /\ UNCHANGED Rest

\* Mutant: the block is looked up as the address is spelled.
CheckSpelling(k) ==
  /\ callback[k].at = "unknown"
  /\ Go(k, IF Who(k).email \in blocked \cup Reserved THEN "refused" ELSE "allowed")
  /\ UNCHANGED Rest

\* isReservedCtfAddress, isBlockedEmail.
CheckBlocked(k) ==
  /\ callback[k].at = "unknown"
  /\ Go(k, IF canonicalEmail[Who(k).email] \in blocked \cup Reserved THEN "refused" ELSE "allowed")
  /\ UNCHANGED Rest

\* createPendingOrganization: everyone signs up under one name here.
TakenSlugs == {orgs[k].slug : k \in Callbacks} \ {Nobody}
ReadSlug(k) ==
  /\ callback[k].at = "allowed"
  /\ callback' = [callback EXCEPT ![k].at = "named", ![k].taken = "name" \in TakenSlugs]
  /\ UNCHANGED Rest

NewSlug(k) == IF callback[k].taken THEN k ELSE "name"
Fits(k) == /\ users[Who(k).email].org = Nobody
           /\ \A e \in Addresses : users[e].sub # Who(k).sub
NewOrg(k) == [slug |-> NewSlug(k), owner |-> Who(k).email, by |-> callback[k].state]
NewOwner(k) == [sub |-> Who(k).sub, org |-> k, disabled |-> FALSE]

\* Mutant: two statements, and the second may fail.
CreateApart(k) ==
  /\ callback[k].at = "named"
  /\ LET named == NewSlug(k) \notin TakenSlugs IN
     /\ orgs' = IF named THEN [orgs EXCEPT ![k] = NewOrg(k)] ELSE orgs
     /\ users' = IF named /\ Fits(k) THEN [users EXCEPT ![Who(k).email] = NewOwner(k)] ELSE users
     /\ Go(k, IF named /\ Fits(k) THEN "created" ELSE "refused")
  /\ UNCHANGED <<attempt, oauth_states, consents, blocked, version, hits>>

\* The batch: slug, address and Google account are UNIQUE, and it is all or nothing.
Create(k) ==
  /\ callback[k].at = "named"
  /\ IF NewSlug(k) \notin TakenSlugs /\ Fits(k)
     THEN /\ orgs' = [orgs EXCEPT ![k] = NewOrg(k)]
          /\ users' = [users EXCEPT ![Who(k).email] = NewOwner(k)]
          /\ Go(k, "created")
     ELSE Go(k, "refused") /\ UNCHANGED <<users, orgs>>
  /\ UNCHANGED <<attempt, oauth_states, consents, blocked, version, hits>>

\* recordConsent, then the audit, the notice and the rows read back.
recordConsent(k) ==
  /\ callback[k].at = "created"
  /\ consents' = consents \cup {[by |-> callback[k].state, user |-> Who(k).email, version |-> version]}
  /\ callback' = [callback EXCEPT ![k].at = "found", ![k].user = Who(k).email]
  /\ UNCHANGED <<attempt, oauth_states, users, orgs, blocked, version, hits>>

\* The account is bound on first use; when it is bound elsewhere the UPDATE throws.
Link(k) ==
  /\ callback[k].at = "found"
  /\ LET e == callback[k].user  sub == Who(k).sub IN
     IF users[e].sub = sub THEN Go(k, "linked") /\ UNCHANGED users
     ELSE IF \E f \in Addresses : users[f].sub = sub THEN Go(k, "refused") /\ UNCHANGED users
     ELSE Go(k, "linked") /\ users' = [users EXCEPT ![e].sub = sub]
  /\ UNCHANGED <<attempt, oauth_states, orgs, consents, blocked, version, hits>>

\* must_change_password cleared, then a challenge, or the session (SignIn has both).
Finish(k) == callback[k].at = "linked" /\ Go(k, "in") /\ UNCHANGED Rest

\* A statement or the Worker fails.
Fail(k) ==
  /\ callback[k].at \notin {"unsent", "refused", "in"} /\ Go(k, "refused")
  /\ UNCHANGED Rest

\* Meanwhile: a new deployment, a client blocked, a login disabled.
Deploy ==
  /\ version < MaxVersion /\ version' = version + 1
  /\ UNCHANGED <<attempt, oauth_states, callback, users, orgs, consents, blocked, hits>>
Block(e) ==
  /\ users[e].org # Nobody /\ ~users[e].disabled
  /\ users' = [users EXCEPT ![e].disabled = TRUE]
  /\ blocked' \in {blocked, blocked \cup {canonicalEmail[e]}}
  /\ UNCHANGED <<attempt, oauth_states, callback, orgs, consents, version, hits>>

GNext ==
  \/ \E a \in Attempts :
       \/ \E signup \in BOOLEAN : Open(a, signup)
       \/ Start(a) \/ StateExpires(a)
       \/ \E who \in Identities : Authenticate(a, who)
  \/ \E k \in Callbacks :
       \/ \E a, c \in Attempts : Redeem(k, a, c)
       \/ Cancel(k) \/ Exchange(k) \/ FindUser(k) \/ CheckBlocked(k) \/ ReadSlug(k)
       \/ Create(k) \/ recordConsent(k) \/ Link(k) \/ Finish(k) \/ Fail(k)
  \/ \E e \in Addresses : Block(e)
  \/ pruneExpired \/ HourPasses \/ Deploy

GSpec == GInit /\ [][GNext]_gvars

-----------------------------------------------------------------------------
\* "A single DELETE...RETURNING makes it impossible for two concurrent callbacks
\* to both succeed with the same state" (googleAuth.ts:81-83), and the batch of
\* signup.ts:126-153 is whole: an attempt becomes one organization at most, each
\* organization has its owner, an owner has one organization, and a callback
\* that is repeated, late or overlaps leaves nothing behind.
OneOrganizationEach ==
  /\ \A k \in Callbacks : orgs[k] # NoOrg => users[orgs[k].owner].org = k
  /\ \A j, k \in Callbacks : j # k /\ orgs[j] # NoOrg /\ orgs[k] # NoOrg =>
       /\ orgs[j].by # orgs[k].by /\ orgs[j].owner # orgs[k].owner
       /\ orgs[j].slug # orgs[k].slug

\* Whoever a callback signs in is the person who authenticated in the attempt
\* that it finishes, as the login their account is linked to (the nonce,
\* google.ts:266-269, and googleAuth.ts:121-125, 164-172): however attempts
\* overlap, and whether their address has changed at Google or not.
SignedInAsWhoStarted ==
  \A k \in Callbacks : callback[k].at = "in" =>
    LET who == attempt[callback[k].state].who IN
    who # Nobody /\ users[callback[k].user].sub = who.sub

\* "A blocked client cannot come back under a new organization"
\* (googleAuth.ts:132-137): no callback that began after the block makes one for
\* any spelling of the address.
BlockedStayOut ==
  \A k \in Callbacks : orgs[k] # NoOrg => canonicalEmail[orgs[k].owner] \notin callback[k].barred
=============================================================================
