---------------------------- MODULE PublicProofs ----------------------------
(***************************************************************************)
(* Proofs about what the public reaches: the sign-up with Google           *)
(* (GoogleSignUp) for any attempts, callbacks and accounts, the contact    *)
(* form (Leads) for any requests, and the outreach (Outreach) for any      *)
(* tracker, clicks, edits and pages.                                       *)
(***************************************************************************)
EXTENDS GoogleSignUp, Leads, Outreach, FiniteSetTheorems, TLAPS

USE GoogleSignUpAssumption, LeadsAssumption, OutreachAssumption

-----------------------------------------------------------------------------
(* The sign-up with Google                                                 *)

Stage == {"unsent", "refused", "redeemed", "identified", "unknown", "allowed", "named",
          "created", "found", "linked", "in"}
Active == Stage \ {"unsent", "refused"}
Subs == {i.sub : i \in Identities}
Spellings == {canonicalEmail[e] : e \in Addresses}

Handler ==
  [at : Stage, state : Attempts \cup {Nobody}, code : Attempts \cup {Nobody},
   user : Addresses \cup {Nobody}, taken : BOOLEAN, barred : SUBSET Spellings]
AttemptRow ==
  [at : {"unopened", "open", "refused", "atGoogle"}, signup : BOOLEAN, shown : Nat,
   who : Identities \cup {Nobody}]
UserRow ==
  [sub : Subs \cup {Nobody}, org : Callbacks \cup {Platform, Nobody}, disabled : BOOLEAN]
OrgRow ==
  [slug : Callbacks \cup {"name", Nobody}, owner : Addresses \cup {Nobody},
   by : Attempts \cup {Nobody}]

\* Type correctness.
SignUpTypeOK ==
  /\ attempt \in [Attempts -> AttemptRow]
  /\ oauth_states \in [live : SUBSET Attempts, expired : SUBSET Attempts]
  /\ callback \in [Callbacks -> Handler]
  /\ users \in [Addresses -> UserRow]
  /\ orgs \in [Callbacks -> OrgRow]
  /\ blocked \subseteq Spellings
  /\ version \in Nat /\ hits \in Nat

(* A row is there only for an attempt that was sent to Google.             *)
AttemptInv ==
  \A a \in oauth_states.live \cup oauth_states.expired : attempt[a].at = "atGoogle"

Redeemed(a) ==
  /\ a \in Attempts /\ attempt[a].at = "atGoogle"
  /\ a \notin oauth_states.live \cup oauth_states.expired

(* What a callback holds at each place: an attempt that nobody else will   *)
(* redeem, an identity that is known, the blocks there were when it began, *)
(* and from "found" on a login that is linked to its account or to none.   *)
HandlerInv(k) ==
  LET h == callback[k] IN
  /\ h.at = "unsent" => orgs[k] = NoOrg
  /\ h.at \in Active =>
       /\ Redeemed(h.state) /\ h.code \in Attempts /\ attempt[h.code].who \in Identities
       /\ h.barred \subseteq blocked
       /\ h.at # "redeemed" => h.code = h.state
  /\ h.at \in {"allowed", "named"} => canonicalEmail[Who(k).email] \notin h.barred
  /\ h.at = "created" => users[Who(k).email].org # Nobody /\ users[Who(k).email].sub = Who(k).sub
  /\ h.at \in {"found", "linked", "in"} => h.user \in Addresses /\ users[h.user].org # Nobody
  /\ h.at = "found" => \/ users[h.user].sub = Who(k).sub
                       \/ users[h.user].sub = Nobody /\ h.user = Who(k).email
  /\ h.at \in {"linked", "in"} => users[h.user].sub = Who(k).sub

OrgInv(k) ==
  orgs[k] # NoOrg =>
    /\ Redeemed(orgs[k].by)
    /\ orgs[k].owner \in Addresses /\ users[orgs[k].owner].org = k
    /\ orgs[k].slug # Nobody
    /\ canonicalEmail[orgs[k].owner] \notin callback[k].barred

Apart(j, k) ==
  /\ callback[j].at \in Active /\ callback[k].at \in Active => callback[j].state # callback[k].state
  /\ orgs[j] # NoOrg /\ callback[k].at \in Active => orgs[j].by # callback[k].state
  /\ orgs[j] # NoOrg /\ orgs[k] # NoOrg => orgs[j].by # orgs[k].by /\ orgs[j].slug # orgs[k].slug

SignUpInv ==
  /\ SignUpTypeOK /\ AttemptInv
  /\ \A k \in Callbacks : HandlerInv(k) /\ OrgInv(k)
  /\ \A j, k \in Callbacks : j # k => Apart(j, k)

LEMMA InitIInv == GInit => SignUpInv
<1> SUFFICES ASSUME GInit PROVE SignUpInv
    OBVIOUS
<1>1. SignUpTypeOK
    BY DEF GInit, SignUpTypeOK, AttemptRow, Handler, NoHandler, UserRow, NoUser, OrgRow, NoOrg, Stage
<1>2. AttemptInv
    BY DEF GInit, AttemptInv
<1>3. \A k \in Callbacks : callback[k].at = "unsent" /\ orgs[k] = NoOrg
    BY DEF GInit, NoHandler
<1>. QED
    BY <1>1, <1>2, <1>3 DEF SignUpInv, HandlerInv, OrgInv, Apart, Active

-----------------------------------------------------------------------------
(* What every step leaves of the tables: an attempt keeps its account and  *)
(* is not sent to Google twice, a row is gone for good, blocks stay, and a *)
(* login keeps its organization and the account it is linked to.           *)
TablesGrow ==
  /\ \A a \in Attempts :
       /\ attempt[a].who \in Identities => attempt'[a].who = attempt[a].who
       /\ Redeemed(a) => Redeemed(a)'
  /\ blocked \subseteq blocked'
  /\ \A e \in Addresses :
       users[e].org # Nobody =>
         /\ users'[e].org = users[e].org
         /\ users[e].sub # Nobody => users'[e].sub = users[e].sub
         /\ \/ users'[e].sub = users[e].sub
            \/ \E i \in Identities : i.email = e /\ users'[e].sub = i.sub

LEMMA HandlerStays ==
  ASSUME SignUpTypeOK, TablesGrow, NEW k \in Callbacks, HandlerInv(k),
         callback'[k] = callback[k], orgs'[k] = orgs[k]
  PROVE  HandlerInv(k)'
<1> DEFINE h == callback[k]
<1>1. h.at \in Active => h.code \in Attempts /\ h.state \in Attempts /\ attempt'[h.code].who = attempt[h.code].who
    BY DEF HandlerInv, TablesGrow, Redeemed
<1>2. h.at \in Active => Who(k) \in Identities /\ Who(k)' = Who(k)
    BY <1>1 DEF HandlerInv, Who
<1>3. h.at \in Active => Who(k).email \in Addresses /\ Who(k).sub # Nobody
    BY <1>2 DEF Addresses
<1>4. h.at = "created" => h.at \in Active
    BY DEF Active, Stage
<1>5. h.at \in {"found", "linked", "in", "allowed", "named"} => h.at \in Active
    BY DEF Active, Stage
<1>6. h.at = "unsent" => orgs'[k] = NoOrg
    BY DEF HandlerInv
<1>7. h.at \in Active =>
        /\ Redeemed(h.state)' /\ h.code \in Attempts /\ attempt'[h.code].who \in Identities
        /\ h.barred \subseteq blocked'
        /\ h.at # "redeemed" => h.code = h.state
    BY <1>1 DEF HandlerInv, TablesGrow
<1>8. h.at \in {"allowed", "named"} => canonicalEmail[Who(k)'.email] \notin h.barred
    BY <1>2, <1>5 DEF HandlerInv
<1>9. h.at = "created" => users'[Who(k)'.email].org # Nobody /\ users'[Who(k)'.email].sub = Who(k)'.sub
    BY <1>2, <1>3, <1>4 DEF HandlerInv, TablesGrow
<1>10. h.at \in {"found", "linked", "in"} => h.user \in Addresses /\ users'[h.user].org # Nobody
    BY DEF HandlerInv, TablesGrow
<1>11. h.at = "found" => \/ users'[h.user].sub = Who(k)'.sub
                         \/ users'[h.user].sub = Nobody /\ h.user = Who(k)'.email
    BY <1>2, <1>3, <1>5, OneAccountEach DEF HandlerInv, TablesGrow
<1>12. h.at \in {"linked", "in"} => users'[h.user].sub = Who(k)'.sub
    BY <1>2, <1>3, <1>5 DEF HandlerInv, TablesGrow
<1>. QED
    BY <1>6, <1>7, <1>8, <1>9, <1>10, <1>11, <1>12 DEF HandlerInv

LEMMA OrgStays ==
  ASSUME SignUpTypeOK, TablesGrow, NEW k \in Callbacks, OrgInv(k), orgs'[k] = orgs[k],
         orgs[k] # NoOrg => callback'[k].barred \subseteq callback[k].barred
  PROVE  OrgInv(k)'
BY DEF OrgInv, TablesGrow, Redeemed, NoOrg

LEMMA TablesRest ==
  ASSUME SignUpTypeOK, UNCHANGED <<attempt, oauth_states, users, blocked>>
  PROVE  TablesGrow
BY DEF TablesGrow, Redeemed

(* A step of the tables alone.                                             *)
LEMMA TablesStep ==
  ASSUME SignUpInv, SignUpTypeOK', AttemptInv', TablesGrow, UNCHANGED <<callback, orgs>>
  PROVE  SignUpInv'
<1>1. \A k \in Callbacks : HandlerInv(k)' /\ OrgInv(k)'
    BY HandlerStays, OrgStays DEF SignUpInv
<1>2. \A j, k \in Callbacks : j # k => Apart(j, k)'
    BY DEF SignUpInv, Apart
<1>. QED
    BY <1>1, <1>2 DEF SignUpInv

(* A step of one callback, which keeps its attempt or refuses.             *)
LEMMA CallbackStep ==
  ASSUME SignUpInv, SignUpTypeOK', AttemptInv', TablesGrow, UNCHANGED orgs,
         NEW k \in Callbacks, HandlerInv(k)',
         \A j \in Callbacks : j # k => callback'[j] = callback[j],
         callback'[k].at \in Active =>
             callback[k].at \in Active /\ callback'[k].state = callback[k].state,
         callback'[k].barred \subseteq callback[k].barred
  PROVE  SignUpInv'
<1>1. \A j \in Callbacks : HandlerInv(j)'
    <2> TAKE j \in Callbacks
    <2>1. CASE j = k
        BY <2>1
    <2>2. CASE j # k
        BY <2>2, HandlerStays DEF SignUpInv
    <2>. QED
        BY <2>1, <2>2
<1>2. \A j \in Callbacks : OrgInv(j)'
    <2> TAKE j \in Callbacks
    <2>1. callback'[j].barred \subseteq callback[j].barred
        BY DEF SignUpInv
    <2>. QED
        BY <2>1, OrgStays DEF SignUpInv
<1>3. \A i, j \in Callbacks : i # j => Apart(i, j)'
    BY DEF SignUpInv, Apart
<1>. QED
    BY <1>1, <1>2, <1>3 DEF SignUpInv

LEMMA GoSets ==
  ASSUME SignUpTypeOK, NEW k \in Callbacks, NEW at \in Stage, Go(k, at)
  PROVE  /\ callback' \in [Callbacks -> Handler]
         /\ \A j \in Callbacks : j # k => callback'[j] = callback[j]
         /\ callback'[k].at = at
         /\ callback'[k].barred \subseteq callback[k].barred
         /\ at # "refused" => /\ callback'[k].state = callback[k].state
                              /\ callback'[k].code = callback[k].code
                              /\ callback'[k].user = callback[k].user
                              /\ callback'[k].barred = callback[k].barred
<1>1. callback[k] \in Handler
    BY DEF SignUpTypeOK
<1>2. NoHandler("refused") \in Handler /\ NoHandler("refused").at = "refused"
        /\ NoHandler("refused").barred = {}
    BY DEF NoHandler, Handler, Stage
<1>3. CASE at = "refused"
    BY <1>1, <1>2, <1>3 DEF Go, SignUpTypeOK
<1>4. CASE at # "refused"
    <2>1. callback' = [callback EXCEPT ![k] = [callback[k] EXCEPT !.at = at]]
        BY <1>4 DEF Go
    <2>2. [callback[k] EXCEPT !.at = at] \in Handler
        BY <1>1 DEF Handler
    <2>. QED
        BY <1>1, <1>4, <2>1, <2>2 DEF SignUpTypeOK, Handler
<1>. QED
    BY <1>3, <1>4

(* A callback that goes on, or is refused, while the tables rest.          *)
LEMMA GoStep ==
  ASSUME SignUpInv, UNCHANGED Rest, NEW k \in Callbacks, NEW at \in Stage \ {"unsent"},
         Go(k, at),
         at # "refused" => callback[k].at \in Active /\ HandlerInv(k)'
  PROVE  SignUpInv'
<1>1. SignUpTypeOK' /\ AttemptInv' /\ TablesGrow
    BY GoSets, TablesRest DEF SignUpInv, SignUpTypeOK, AttemptInv, Rest
<1>2. callback'[k].at = at /\ (at # "refused" => callback'[k].state = callback[k].state)
    BY GoSets DEF SignUpInv
<1>3. HandlerInv(k)'
    BY <1>2 DEF HandlerInv, Active
<1>. QED
    BY <1>1, <1>2, <1>3, GoSets, CallbackStep DEF SignUpInv, Rest, Active
-----------------------------------------------------------------------------
(* The steps of the tables                                                 *)

LEMMA AttemptSteps ==
  ASSUME SignUpInv, NEW a \in Attempts,
         \/ \E signup \in BOOLEAN : Open(a, signup)
         \/ \E who \in Identities : Authenticate(a, who)
  PROVE  SignUpInv'
<1>1. CASE \E signup \in BOOLEAN : Open(a, signup)
    <2>1. PICK signup \in BOOLEAN : Open(a, signup)
        BY <1>1
    <2>2. attempt' = [attempt EXCEPT ![a] = [attempt[a] EXCEPT !.at = "open", !.signup = signup,
                                                               !.shown = version]]
            /\ attempt[a].at = "unopened" /\ version \in Nat /\ attempt[a] \in AttemptRow
            /\ UNCHANGED <<oauth_states, callback, users, orgs, blocked, version, hits>>
        BY <2>1 DEF Open, SignUpInv, SignUpTypeOK
    <2>3. [attempt[a] EXCEPT !.at = "open", !.signup = signup, !.shown = version] \in AttemptRow
        BY <2>2 DEF AttemptRow
    <2>4. SignUpTypeOK'
        BY <2>2, <2>3 DEF SignUpInv, SignUpTypeOK
    <2>5. attempt'[a].who = attempt[a].who /\ \A b \in Attempts : b # a => attempt'[b] = attempt[b]
        BY <2>2 DEF SignUpInv, SignUpTypeOK, AttemptRow
    <2>6. AttemptInv' /\ TablesGrow
        BY <2>2, <2>5 DEF SignUpInv, SignUpTypeOK, AttemptInv, TablesGrow, Redeemed
    <2>. QED
        BY <2>2, <2>4, <2>6, TablesStep
<1>2. CASE \E who \in Identities : Authenticate(a, who)
    <2>1. SignUpTypeOK' /\ AttemptInv' /\ TablesGrow
        BY <1>2 DEF SignUpInv, SignUpTypeOK, AttemptRow, AttemptInv, TablesGrow, Redeemed, Authenticate
    <2>. QED
        BY <1>2, <2>1, TablesStep DEF Authenticate
<1>. QED
    BY <1>1, <1>2

LEMMA StartStep ==
  ASSUME SignUpInv, NEW a \in Attempts, Start(a)
  PROVE  SignUpInv'
<1>1. hits' \in Nat
    BY DEF SignUpInv, SignUpTypeOK, AttemptRow, Start
<1>2. CASE hits' > LIMIT
    <2>1. attempt' = [attempt EXCEPT ![a].at = "refused"] /\ attempt[a].at = "open"
            /\ UNCHANGED <<oauth_states, callback, users, orgs, blocked, version>>
        BY <1>2 DEF Start
    <2>2. SignUpTypeOK' /\ AttemptInv' /\ TablesGrow
        BY <1>1, <2>1 DEF SignUpInv, SignUpTypeOK, AttemptRow, AttemptInv, TablesGrow, Redeemed
    <2>. QED
        BY <2>1, <2>2, TablesStep
<1>3. CASE ~(hits' > LIMIT)
    <2>1. attempt' = [attempt EXCEPT ![a].at = "atGoogle"] /\ attempt[a].at = "open"
            /\ UNCHANGED <<callback, users, orgs, blocked, version>>
        BY <1>3 DEF Start
    <2>2. /\ oauth_states' \in [live : SUBSET Attempts, expired : SUBSET Attempts]
          /\ oauth_states'.live \cup oauth_states'.expired
                \subseteq oauth_states.live \cup oauth_states.expired \cup {a}
        BY <1>3 DEF SignUpInv, SignUpTypeOK, Start
    <2>3. SignUpTypeOK' /\ AttemptInv' /\ TablesGrow
        BY <1>1, <2>1, <2>2 DEF SignUpInv, SignUpTypeOK, AttemptRow, AttemptInv, TablesGrow, Redeemed
    <2>. QED
        BY <2>1, <2>3, TablesStep
<1>. QED
    BY <1>2, <1>3

LEMMA StateSteps ==
  ASSUME SignUpInv, \/ pruneExpired
                               \/ \E a \in Attempts : StateExpires(a)
  PROVE  SignUpInv'
<1>1. /\ UNCHANGED <<attempt, callback, users, orgs, blocked, version, hits>>
      /\ oauth_states' \in [live : SUBSET Attempts, expired : SUBSET Attempts]
      /\ oauth_states'.live \cup oauth_states'.expired
            \subseteq oauth_states.live \cup oauth_states.expired
    BY DEF SignUpInv, SignUpTypeOK, StateExpires, pruneExpired
<1>2. SignUpTypeOK' /\ AttemptInv' /\ TablesGrow
    BY <1>1 DEF SignUpInv, SignUpTypeOK, AttemptInv, TablesGrow, Redeemed
<1>. QED
    BY <1>1, <1>2, TablesStep

LEMMA OtherSteps ==
  ASSUME SignUpInv, HourPasses \/ Deploy
  PROVE  SignUpInv'
<1>1. UNCHANGED <<attempt, oauth_states, callback, users, orgs, blocked>>
    BY DEF HourPasses, Deploy
<1>2. SignUpTypeOK' /\ AttemptInv' /\ TablesGrow
    BY <1>1, TablesRest DEF SignUpInv, SignUpTypeOK, AttemptInv, HourPasses, Deploy
<1>. QED
    BY <1>1, <1>2, TablesStep

LEMMA BlockStep ==
  ASSUME SignUpInv, NEW e \in Addresses, Block(e)
  PROVE  SignUpInv'
<1>1. /\ blocked \subseteq blocked' /\ blocked' \subseteq Spellings
      /\ users' = [users EXCEPT ![e].disabled = TRUE]
      /\ UNCHANGED <<attempt, oauth_states, callback, orgs, version, hits>>
    BY DEF Block, SignUpInv, SignUpTypeOK, Spellings
<1>2. /\ users' \in [Addresses -> UserRow]
      /\ \A f \in Addresses : users'[f].org = users[f].org /\ users'[f].sub = users[f].sub
    <2>1. users[e] \in UserRow /\ users' = [users EXCEPT ![e] = [users[e] EXCEPT !.disabled = TRUE]]
        BY <1>1 DEF SignUpInv, SignUpTypeOK
    <2>2. /\ [users[e] EXCEPT !.disabled = TRUE] \in UserRow
          /\ [users[e] EXCEPT !.disabled = TRUE].org = users[e].org
          /\ [users[e] EXCEPT !.disabled = TRUE].sub = users[e].sub
        BY <2>1 DEF UserRow
    <2>. QED
        BY <2>1, <2>2 DEF SignUpInv, SignUpTypeOK
<1>3. SignUpTypeOK' /\ AttemptInv'
    BY <1>1, <1>2 DEF SignUpInv, SignUpTypeOK, AttemptInv
<1>4. TablesGrow
    BY <1>1, <1>2 DEF TablesGrow, Redeemed
<1>. QED
    BY <1>1, <1>3, <1>4, TablesStep

-----------------------------------------------------------------------------
(* The steps of a callback                                                 *)

LEMMA CancelExchangeStep ==
  ASSUME SignUpInv, NEW k \in Callbacks, Cancel(k) \/ Exchange(k)
  PROVE  SignUpInv'
<1>1. CASE Cancel(k)
    BY <1>1, GoStep DEF Cancel, Rest, Stage
<1>2. CASE Exchange(k)
    <2> PICK at \in {"identified", "refused"} :
            (at = "identified" => callback[k].code = callback[k].state) /\ Go(k, at)
        BY <1>2 DEF Exchange
    <2>1. at \in Stage \ {"unsent"} /\ callback[k].at = "redeemed" /\ UNCHANGED Rest
        BY <1>2 DEF Exchange, Stage
    <2>2. at # "refused" => callback[k].at \in Active /\ HandlerInv(k)'
        BY <2>1, GoSets DEF SignUpInv, HandlerInv, Rest, Active, Stage, Redeemed
    <2>. QED
        BY <2>1, <2>2, GoStep
<1>. QED
    BY <1>1, <1>2
LEMMA FindUserStep ==
  ASSUME SignUpInv, NEW k \in Callbacks, FindUser(k)
  PROVE  SignUpInv'
<1> DEFINE h == callback[k]
<1>1. /\ h.at = "identified" /\ h.at \in Active /\ h \in Handler /\ UNCHANGED Rest
      /\ HandlerInv(k)
    BY DEF FindUser, Active, Stage, SignUpInv, SignUpTypeOK
<1>2. Who(k) \in Identities /\ Who(k).email \in Addresses
    BY <1>1 DEF HandlerInv, Who, Addresses
<1>3. CASE \E at \in {"refused", "unknown"} : Go(k, at)
    <2>1. PICK at \in {"refused", "unknown"} : Go(k, at)
        BY <1>3
    <2>2. at \in Stage \ {"unsent"}
        BY DEF Stage
    <2>3. at # "refused" => HandlerInv(k)'
        BY <1>1, <2>1, <2>2, GoSets DEF SignUpInv, HandlerInv, Rest, Active, Stage, Redeemed
    <2>. QED
        BY <1>1, <2>1, <2>2, <2>3, GoStep
<1>4. CASE \E e \in Matching(Who(k)) :
             callback' = [callback EXCEPT ![k].user = e, ![k].at = "found"]
    <2>1. PICK e \in Matching(Who(k)) :
              callback' = [callback EXCEPT ![k].user = e, ![k].at = "found"]
        BY <1>4
    <2>2. /\ e \in Addresses /\ users[e].org # Nobody
          /\ users[e].sub = Who(k).sub \/ (users[e].sub = Nobody /\ e = Who(k).email)
        BY DEF Matching
    <2>3. callback' = [callback EXCEPT ![k] = [h EXCEPT !.user = e, !.at = "found"]]
        BY <2>1
    <2>4. [h EXCEPT !.user = e, !.at = "found"] \in Handler
        BY <1>1, <2>2 DEF Handler, Stage
    <2>5. callback' \in [Callbacks -> Handler]
        BY <2>3, <2>4 DEF SignUpInv, SignUpTypeOK
    <2>6. /\ callback'[k].at = "found" /\ callback'[k].user = e /\ callback'[k].state = h.state
          /\ callback'[k].code = h.code /\ callback'[k].barred = h.barred
          /\ \A j \in Callbacks : j # k => callback'[j] = callback[j]
        BY <1>1, <2>3 DEF SignUpInv, SignUpTypeOK, Handler
    <2>7. SignUpTypeOK' /\ AttemptInv' /\ TablesGrow
        BY <1>1, <2>5, TablesRest DEF SignUpInv, SignUpTypeOK, AttemptInv, Rest
    <2>8. Who(k)' = Who(k)
        BY <1>1, <2>6 DEF Who, Rest
    <2>9. HandlerInv(k)'
        BY <1>1, <2>2, <2>6, <2>8 DEF HandlerInv, Redeemed, Rest, Active, Stage
    <2>. QED
        BY <1>1, <2>6, <2>7, <2>9, CallbackStep DEF Rest
<1>. QED
    BY <1>3, <1>4 DEF FindUser

LEMMA CheckBlockedStep ==
  ASSUME SignUpInv, NEW k \in Callbacks, CheckBlocked(k)
  PROVE  SignUpInv'
<1>1. /\ callback[k].at = "unknown" /\ callback[k].at \in Active /\ UNCHANGED Rest
      /\ HandlerInv(k)
    BY DEF CheckBlocked, Active, Stage, SignUpInv
<1>2. CASE Go(k, "refused")
    BY <1>1, <1>2, GoStep DEF Stage
<1>3. CASE canonicalEmail[Who(k).email] \notin blocked /\ Go(k, "allowed")
    <2>1. Who(k)' = Who(k)
        BY <1>1, <1>3, GoSets DEF Who, Rest, SignUpInv, Stage
    <2>2. HandlerInv(k)'
        BY <1>1, <1>3, <2>1, GoSets DEF SignUpInv, HandlerInv, Rest, Active, Stage, Redeemed
    <2>. QED
        BY <1>1, <1>3, <2>2, GoStep DEF Stage
<1>. QED
    BY <1>2, <1>3 DEF CheckBlocked

LEMMA ReadSlugStep ==
  ASSUME SignUpInv, NEW k \in Callbacks, ReadSlug(k)
  PROVE  SignUpInv'
<1> DEFINE h == callback[k]
           taken == "name" \in TakenSlugs
<1>1. /\ h.at = "allowed" /\ h.at \in Active /\ h \in Handler /\ UNCHANGED Rest /\ HandlerInv(k)
      /\ callback' = [callback EXCEPT ![k] = [h EXCEPT !.at = "named", !.taken = taken]]
    BY DEF ReadSlug, Active, Stage, SignUpInv, SignUpTypeOK
<1>2. taken \in BOOLEAN
    OBVIOUS
<1>3. [h EXCEPT !.at = "named", !.taken = taken] \in Handler
    <2> HIDE DEF taken
    <2>. QED
        BY <1>1, <1>2 DEF Handler, Stage
<1>4. callback' \in [Callbacks -> Handler]
    BY <1>1, <1>3 DEF SignUpInv, SignUpTypeOK
<1>5. /\ callback'[k].at = "named" /\ callback'[k].state = h.state
      /\ callback'[k].code = h.code /\ callback'[k].barred = h.barred
      /\ \A j \in Callbacks : j # k => callback'[j] = callback[j]
    BY <1>1 DEF SignUpInv, SignUpTypeOK, Handler
<1>6. SignUpTypeOK' /\ AttemptInv' /\ TablesGrow
    BY <1>1, <1>4, TablesRest DEF SignUpInv, SignUpTypeOK, AttemptInv, Rest
<1>7. Who(k)' = Who(k)
    BY <1>1, <1>5 DEF Who, Rest
<1>8. HandlerInv(k)'
    BY <1>1, <1>5, <1>7 DEF HandlerInv, Redeemed, Rest, Active, Stage
<1>. QED
    BY <1>1, <1>5, <1>6, <1>8, CallbackStep DEF Rest

LEMMA FinishFailStep ==
  ASSUME SignUpInv, NEW k \in Callbacks, Finish(k) \/ Fail(k)
  PROVE  SignUpInv'
<1>1. CASE Finish(k)
    <2>1. /\ callback[k].at = "linked" /\ callback[k].at \in Active /\ UNCHANGED Rest
          /\ HandlerInv(k) /\ Go(k, "in") /\ "in" \in Stage \ {"unsent"}
        BY <1>1 DEF Finish, Active, Stage, SignUpInv
    <2>2. Who(k)' = Who(k)
        BY <2>1, GoSets DEF Who, Rest, SignUpInv
    <2>3. HandlerInv(k)'
        BY <2>1, <2>2, GoSets DEF SignUpInv, HandlerInv, Rest, Active, Stage, Redeemed
    <2>. QED
        BY <2>1, <2>3, GoStep
<1>2. CASE Fail(k)
    BY <1>2, GoStep DEF Fail, Rest, Stage
<1>. QED
    BY <1>1, <1>2
LEMMA RedeemStep ==
  ASSUME SignUpInv, NEW k \in Callbacks, NEW a \in Attempts, NEW c \in Attempts,
         Redeem(k, a, c)
  PROVE  SignUpInv'
<1>1. /\ callback[k].at = "unsent" /\ orgs[k] = NoOrg /\ attempt[c].who \in Identities
      /\ UNCHANGED <<attempt, users, orgs, blocked, version, hits>>
      /\ oauth_states' \in [live : SUBSET Attempts, expired : SUBSET Attempts]
      /\ oauth_states'.live \cup oauth_states'.expired
            = (oauth_states.live \cup oauth_states.expired) \ {a}
    BY DEF Redeem, SignUpInv, HandlerInv, SignUpTypeOK, AttemptRow
<1>2. AttemptInv' /\ TablesGrow
    BY <1>1 DEF SignUpInv, AttemptInv, TablesGrow, Redeemed
<1>3. PICK row \in {NoHandler("refused"),
                    [NoHandler("redeemed") EXCEPT !.state = a, !.code = c, !.barred = blocked]} :
          callback' = [callback EXCEPT ![k] = row] /\ (row.at = "redeemed" => a \in oauth_states.live)
    BY DEF Redeem, Arrive, NoHandler
<1>4. /\ row \in Handler
      /\ row.at \in {"refused", "redeemed"}
      /\ row.at = "redeemed" => row.state = a /\ row.code = c /\ row.barred = blocked
    <2>1. blocked \in SUBSET Spellings
        BY DEF SignUpInv, SignUpTypeOK
    <2>2. CASE row = NoHandler("refused")
        BY <2>2 DEF NoHandler, Handler, Stage
    <2>3. CASE row = [NoHandler("redeemed") EXCEPT !.state = a, !.code = c, !.barred = blocked]
        <3>1. row = [at |-> "redeemed", state |-> a, code |-> c, user |-> Nobody,
                     taken |-> FALSE, barred |-> blocked]
            BY <2>3 DEF NoHandler
        <3>. QED
            BY <2>1, <3>1 DEF Handler, Stage
    <2>. QED
        BY <1>3, <2>2, <2>3
<1>5. callback'[k] = row /\ \A j \in Callbacks : j # k => callback'[j] = callback[j]
    BY <1>3 DEF SignUpInv, SignUpTypeOK
<1>6. SignUpTypeOK'
    BY <1>1, <1>3, <1>4 DEF SignUpInv, SignUpTypeOK
<1>7. row.at = "redeemed" => Redeemed(a)' /\ attempt[a].at = "atGoogle"
    BY <1>1, <1>3 DEF Redeemed, SignUpInv, AttemptInv
<1>8. HandlerInv(k)'
    BY <1>1, <1>4, <1>5, <1>7 DEF HandlerInv, Active
<1>9. \A j \in Callbacks : HandlerInv(j)' /\ OrgInv(j)'
    <2> TAKE j \in Callbacks
    <2>1. CASE j = k
        BY <1>1, <1>8, <2>1 DEF OrgInv
    <2>2. CASE j # k
        <3>1. callback'[j] = callback[j] /\ orgs'[j] = orgs[j] /\ HandlerInv(j) /\ OrgInv(j) /\ SignUpTypeOK
            BY <1>1, <1>5, <2>2 DEF SignUpInv
        <3>. QED
            BY <1>2, <3>1, HandlerStays, OrgStays
    <2>. QED
        BY <2>1, <2>2
<1>10. \A i, j \in Callbacks : i # j => Apart(i, j)'
    <2> SUFFICES ASSUME NEW i \in Callbacks, NEW j \in Callbacks, i # j PROVE Apart(i, j)'
        OBVIOUS
    <2>1. row.at = "redeemed" => \A b \in Attempts : Redeemed(b) => b # a
        BY <1>3 DEF Redeemed
    <2>2. CASE i = k
        <3>1. callback'[j] = callback[j] /\ HandlerInv(j)
            BY <1>5, <2>2 DEF SignUpInv
        <3>. QED
            BY <1>1, <1>4, <1>5, <2>1, <2>2, <3>1 DEF Apart, HandlerInv, Redeemed, Active
    <2>3. CASE j = k
        <3>1. callback'[i] = callback[i] /\ HandlerInv(i) /\ OrgInv(i) /\ orgs'[i] = orgs[i]
            BY <1>1, <1>5, <2>3 DEF SignUpInv
        <3>. QED
            BY <1>1, <1>4, <1>5, <2>1, <2>3, <3>1 DEF Apart, HandlerInv, OrgInv, Redeemed, Active
    <2>4. CASE i # k /\ j # k
        BY <1>1, <1>5, <2>4 DEF Apart, SignUpInv
    <2>. QED
        BY <2>2, <2>3, <2>4
<1>. QED
    BY <1>2, <1>6, <1>9, <1>10 DEF SignUpInv
LEMMA CreateStep ==
  ASSUME SignUpInv, NEW k \in Callbacks, Create(k)
  PROVE  SignUpInv'
<1> DEFINE h == callback[k]
           w == Who(k)
<1>1. /\ h.at = "named" /\ h.at \in Active /\ h \in Handler /\ HandlerInv(k)
      /\ UNCHANGED <<attempt, oauth_states, blocked, version, hits>>
    BY DEF Create, Active, Stage, SignUpInv, SignUpTypeOK
<1>2. /\ w \in Identities /\ w.email \in Addresses /\ w.sub \in Subs /\ w.sub # Nobody
      /\ w = attempt[h.state].who /\ h.state \in Attempts /\ Redeemed(h.state)
    BY <1>1 DEF HandlerInv, Who, Addresses, Subs, Redeemed
<1>3. CASE Go(k, "refused") /\ UNCHANGED <<users, orgs>>
    BY <1>1, <1>3, GoStep DEF Stage, Rest, Create
<1>4. CASE /\ NewSlug(k) \notin TakenSlugs /\ Fits(k)
           /\ orgs' = [orgs EXCEPT ![k] = NewOrg(k)]
           /\ users' = [users EXCEPT ![w.email] = NewOwner(k)]
           /\ Go(k, "created")
    <2>1. /\ callback'[k].at = "created" /\ callback'[k].state = h.state /\ callback'[k].code = h.code
          /\ callback'[k].barred = h.barred /\ callback' \in [Callbacks -> Handler]
          /\ \A j \in Callbacks : j # k => callback'[j] = callback[j]
        BY <1>4, GoSets DEF SignUpInv, Stage
    <2>2. NewSlug(k) \in Callbacks \cup {"name"} /\ NewSlug(k) # Nobody
        BY DEF NewSlug
    <2>3. NewOrg(k) \in OrgRow /\ NewOwner(k) \in UserRow
        BY <1>2, <2>2 DEF NewOrg, NewOwner, OrgRow, UserRow
    <2>4. /\ orgs'[k] = NewOrg(k) /\ orgs' \in [Callbacks -> OrgRow]
          /\ \A j \in Callbacks : j # k => orgs'[j] = orgs[j]
        BY <1>4, <2>3 DEF SignUpInv, SignUpTypeOK
    <2>5. /\ users'[w.email] = NewOwner(k) /\ users' \in [Addresses -> UserRow]
          /\ \A e \in Addresses : e # w.email => users'[e] = users[e]
        BY <1>2, <1>4, <2>3 DEF SignUpInv, SignUpTypeOK
    <2>6. SignUpTypeOK' /\ AttemptInv'
        BY <1>1, <2>1, <2>4, <2>5 DEF SignUpInv, SignUpTypeOK, AttemptInv
    <2>7. users[w.email].org = Nobody /\ \A e \in Addresses : users[e].sub # w.sub
        BY <1>4 DEF Fits
    <2>8. TablesGrow
        BY <1>1, <1>2, <2>5, <2>7 DEF TablesGrow, Redeemed
    <2>9. Who(k)' = w
        BY <1>1, <2>1 DEF Who
    <2>10. HandlerInv(k)'
        <3>1. users'[w.email].org # Nobody /\ users'[w.email].sub = w.sub
            BY <2>5 DEF NewOwner
        <3>2. Redeemed(h.state) /\ h.code = h.state /\ h.code \in Attempts
                /\ attempt[h.code].who \in Identities /\ h.barred \subseteq blocked
            BY <1>1, <1>2 DEF HandlerInv
        <3>3. Redeemed(h.state)'
            BY <1>1, <2>1, <3>2 DEF Redeemed
        <3>. QED
            BY <1>1, <2>1, <2>9, <3>1, <3>2, <3>3 DEF HandlerInv
    <2>11. OrgInv(k)'
        <3>1. NewOrg(k).by = h.state /\ NewOrg(k).owner = w.email /\ NewOrg(k).slug = NewSlug(k)
            BY DEF NewOrg
        <3>2. users'[w.email].org = k
            BY <2>5 DEF NewOwner
        <3>3. canonicalEmail[w.email] \notin h.barred
            BY <1>1 DEF HandlerInv
        <3>. QED
            BY <1>1, <1>2, <2>1, <2>2, <2>4, <3>1, <3>2, <3>3 DEF OrgInv, Redeemed
    <2>12. \A j \in Callbacks : HandlerInv(j)' /\ OrgInv(j)'
        <3> TAKE j \in Callbacks
        <3>1. CASE j = k
            BY <2>10, <2>11, <3>1
        <3>2. CASE j # k
            <4>1. callback'[j] = callback[j] /\ orgs'[j] = orgs[j] /\ HandlerInv(j) /\ OrgInv(j) /\ SignUpTypeOK
                BY <2>1, <2>4, <3>2 DEF SignUpInv
            <4>. QED
                BY <2>8, <4>1, HandlerStays, OrgStays
        <3>. QED
            BY <3>1, <3>2
    <2>13. \A i, j \in Callbacks : i # j => Apart(i, j)'
        <3> SUFFICES ASSUME NEW i \in Callbacks, NEW j \in Callbacks, i # j PROVE Apart(i, j)'
            OBVIOUS
        <3>1. \A b \in Callbacks : b # k => Apart(b, k) /\ Apart(k, b) /\ OrgInv(b)
            BY DEF SignUpInv
        <3>2. orgs'[k].by = h.state /\ orgs'[k].slug = NewSlug(k) /\ orgs'[k] # NoOrg
            BY <2>2, <2>4 DEF NewOrg, NoOrg
        <3>3. \A b \in Callbacks : orgs[b] # NoOrg => orgs[b].slug # NewSlug(k)
            BY <1>4 DEF TakenSlugs, OrgInv, SignUpInv
        <3>4. CASE i = k
            BY <1>1, <2>1, <2>4, <3>1, <3>2, <3>3, <3>4 DEF Apart
        <3>5. CASE j = k
            BY <1>1, <2>1, <2>4, <3>1, <3>2, <3>3, <3>5 DEF Apart
        <3>6. CASE i # k /\ j # k
            BY <2>1, <2>4, <3>6 DEF Apart, SignUpInv
        <3>. QED
            BY <3>4, <3>5, <3>6
    <2>. QED
        BY <2>6, <2>12, <2>13 DEF SignUpInv
<1>. QED
    BY <1>3, <1>4 DEF Create
LEMMA ConsentStep ==
  ASSUME SignUpInv, NEW k \in Callbacks, recordConsent(k)
  PROVE  SignUpInv'
<1> DEFINE h == callback[k]
           w == Who(k)
<1>1. /\ h.at = "created" /\ h.at \in Active /\ h \in Handler /\ HandlerInv(k)
      /\ UNCHANGED <<attempt, oauth_states, users, orgs, blocked, version, hits>>
      /\ callback' = [callback EXCEPT ![k] = [h EXCEPT !.at = "found", !.user = w.email]]
    BY DEF recordConsent, Active, Stage, SignUpInv, SignUpTypeOK
<1>2. w \in Identities /\ w.email \in Addresses
    BY <1>1 DEF HandlerInv, Who, Addresses
<1>3. [h EXCEPT !.at = "found", !.user = w.email] \in Handler
    <2> HIDE DEF w
    <2>. QED
        BY <1>1, <1>2 DEF Handler, Stage
<1>4. callback' \in [Callbacks -> Handler]
    BY <1>1, <1>3 DEF SignUpInv, SignUpTypeOK
<1>5. /\ callback'[k].at = "found" /\ callback'[k].user = w.email /\ callback'[k].state = h.state
      /\ callback'[k].code = h.code /\ callback'[k].barred = h.barred
      /\ \A j \in Callbacks : j # k => callback'[j] = callback[j]
    BY <1>1 DEF SignUpInv, SignUpTypeOK, Handler
<1>6. SignUpTypeOK' /\ AttemptInv' /\ TablesGrow
    BY <1>1, <1>4, TablesRest DEF SignUpInv, SignUpTypeOK, AttemptInv
<1>7. Who(k)' = w
    BY <1>1, <1>5 DEF Who
<1>8. HandlerInv(k)'
    BY <1>1, <1>2, <1>5, <1>7 DEF HandlerInv, Redeemed, Active, Stage
<1>. QED
    BY <1>1, <1>5, <1>6, <1>8, CallbackStep

LEMMA LinkStep ==
  ASSUME SignUpInv, NEW k \in Callbacks, Link(k)
  PROVE  SignUpInv'
<1> DEFINE h == callback[k]
           e == h.user
           w == Who(k)
<1>1. /\ h.at = "found" /\ h.at \in Active /\ h \in Handler /\ HandlerInv(k)
      /\ UNCHANGED <<attempt, oauth_states, orgs, blocked, version, hits>>
    BY DEF Link, Active, Stage, SignUpInv, SignUpTypeOK
<1>2. w \in Identities /\ w.sub \in Subs /\ w.sub # Nobody /\ e \in Addresses
        /\ users[e].org # Nobody
        /\ (users[e].sub = w.sub \/ (users[e].sub = Nobody /\ e = w.email))
    BY <1>1 DEF HandlerInv, Who, Subs
<1>3. CASE Go(k, "refused") /\ UNCHANGED users
    BY <1>1, <1>3, GoStep DEF Stage, Rest, Link
<1>4. CASE /\ Go(k, "linked")
           /\ \/ users[e].sub = w.sub /\ UNCHANGED users
              \/ users[e].sub # w.sub /\ users' = [users EXCEPT ![e].sub = w.sub]
    <2>1. /\ callback'[k].at = "linked" /\ callback'[k].state = h.state /\ callback'[k].code = h.code
          /\ callback'[k].user = e /\ callback'[k].barred = h.barred
          /\ callback' \in [Callbacks -> Handler]
          /\ \A j \in Callbacks : j # k => callback'[j] = callback[j]
        BY <1>4, GoSets DEF SignUpInv, Stage
    <2>2. /\ users' \in [Addresses -> UserRow]
          /\ users'[e].sub = w.sub /\ users'[e].org = users[e].org
          /\ \A f \in Addresses : f # e => users'[f] = users[f]
        <3>1. CASE UNCHANGED users /\ users[e].sub = w.sub
            BY <3>1 DEF SignUpInv, SignUpTypeOK
        <3>2. CASE users' = [users EXCEPT ![e].sub = w.sub]
            <4>1. users[e] \in UserRow /\ users' = [users EXCEPT ![e] = [users[e] EXCEPT !.sub = w.sub]]
                BY <1>2, <3>2 DEF SignUpInv, SignUpTypeOK
            <4>2. /\ [users[e] EXCEPT !.sub = w.sub] \in UserRow
                  /\ [users[e] EXCEPT !.sub = w.sub].sub = w.sub
                  /\ [users[e] EXCEPT !.sub = w.sub].org = users[e].org
                BY <1>2, <4>1 DEF UserRow
            <4>. QED
                BY <1>2, <4>1, <4>2 DEF SignUpInv, SignUpTypeOK
        <3>. QED
            BY <1>4, <3>1, <3>2
    <2>3. SignUpTypeOK' /\ AttemptInv'
        BY <1>1, <2>1, <2>2 DEF SignUpInv, SignUpTypeOK, AttemptInv
    <2>4. TablesGrow
        BY <1>1, <1>2, <2>2 DEF TablesGrow, Redeemed
    <2>5. Who(k)' = w
        BY <1>1, <2>1 DEF Who
    <2>6. HandlerInv(k)'
        BY <1>1, <1>2, <2>1, <2>2, <2>5 DEF HandlerInv, Redeemed, Active, Stage
    <2>. QED
        BY <1>1, <2>1, <2>3, <2>4, <2>6, CallbackStep
<1>. QED
    BY <1>3, <1>4 DEF Link

-----------------------------------------------------------------------------
LEMMA StepIInv == SignUpInv /\ [GNext]_gvars => SignUpInv'
<1> SUFFICES ASSUME SignUpInv, [GNext]_gvars PROVE SignUpInv'
    OBVIOUS
<1>1. ASSUME NEW a \in Attempts,
             \/ \E signup \in BOOLEAN : Open(a, signup)
             \/ Start(a) \/ StateExpires(a)
             \/ \E who \in Identities : Authenticate(a, who)
      PROVE  SignUpInv'
    BY <1>1, AttemptSteps, StartStep, StateSteps
<1>2. ASSUME NEW k \in Callbacks,
             \/ \E a, c \in Attempts : Redeem(k, a, c)
             \/ Cancel(k) \/ Exchange(k) \/ FindUser(k) \/ CheckBlocked(k) \/ ReadSlug(k)
             \/ Create(k) \/ recordConsent(k) \/ Link(k) \/ Finish(k) \/ Fail(k)
      PROVE  SignUpInv'
    <2>1. CASE \E a, c \in Attempts : Redeem(k, a, c)
        BY <2>1, RedeemStep
    <2>2. CASE Cancel(k) \/ Exchange(k) \/ FindUser(k) \/ CheckBlocked(k) \/ ReadSlug(k)
        BY <2>2, CancelExchangeStep, FindUserStep, CheckBlockedStep, ReadSlugStep
    <2>3. CASE Create(k) \/ recordConsent(k) \/ Link(k) \/ Finish(k) \/ Fail(k)
        BY <2>3, CreateStep, ConsentStep, LinkStep, FinishFailStep
    <2>. QED
        BY <1>2, <2>1, <2>2, <2>3
<1>3. CASE (\E e \in Addresses : Block(e)) \/ pruneExpired \/ HourPasses \/ Deploy
    BY <1>3, BlockStep, StateSteps, OtherSteps
<1>4. CASE UNCHANGED gvars
    <2>1. SignUpTypeOK' /\ AttemptInv' /\ TablesGrow
        BY <1>4, TablesRest DEF SignUpInv, SignUpTypeOK, AttemptInv, gvars
    <2>. QED
        BY <1>4, <2>1, TablesStep DEF gvars
<1>. QED
    BY <1>1, <1>2, <1>3, <1>4 DEF GNext

LEMMA SignUpInvImplies ==
  ASSUME SignUpInv
  PROVE  OneOrganizationEach /\ SignedInAsWhoStarted /\ BlockedStayOut
<1>1. OneOrganizationEach
    <2>1. \A j, k \in Callbacks : j # k /\ orgs[j] # NoOrg /\ orgs[k] # NoOrg =>
              orgs[j].owner # orgs[k].owner
        BY DEF SignUpInv, OrgInv
    <2>. QED
        BY <2>1 DEF SignUpInv, OrgInv, Apart, OneOrganizationEach
<1>2. SignedInAsWhoStarted
    <2> SUFFICES ASSUME NEW k \in Callbacks, callback[k].at = "in"
                 PROVE  LET who == attempt[callback[k].state].who IN
                        who # Nobody /\ users[callback[k].user].sub = who.sub
        BY DEF SignedInAsWhoStarted
    <2>1. HandlerInv(k) /\ callback[k].at \in Active
        BY DEF SignUpInv, Active, Stage
    <2>. QED
        BY <2>1 DEF HandlerInv, Who
<1>3. BlockedStayOut
    BY DEF SignUpInv, OrgInv, BlockedStayOut
<1>. QED
    BY <1>1, <1>2, <1>3

-----------------------------------------------------------------------------
\* The inductive invariant: every place of a callback fits the tables.
THEOREM SignUpInvariance == GSpec => []SignUpInv
<1>. QED
    BY InitIInv, StepIInv, PTL DEF GSpec

\* The tables and the locals of the callbacks have their types.
THEOREM SignUpTypeCorrect == GSpec => []SignUpTypeOK
<1>1. SignUpInv => SignUpTypeOK
    BY DEF SignUpInv
<1>. QED
    BY <1>1, SignUpInvariance, PTL

\* The DELETE of the state row and the batch of createPendingOrganization: an
\* attempt becomes one organization at most, with an owner of its own.
THEOREM OneOrganizationEver == GSpec => []OneOrganizationEach
<1>. QED
    BY SignUpInvariance, SignUpInvImplies, PTL

\* The nonce and the linked account: a callback signs in who began its attempt.
THEOREM AlwaysWhoStarted == GSpec => []SignedInAsWhoStarted
<1>. QED
    BY SignUpInvariance, SignUpInvImplies, PTL

\* isBlockedEmail: a block that was there when a callback began holds for every
\* spelling of the address.
THEOREM BlockedAlwaysStayOut == GSpec => []BlockedStayOut
<1>. QED
    BY SignUpInvariance, SignUpInvImplies, PTL

-----------------------------------------------------------------------------
(* The contact form                                                        *)

LeadRow == [id : Requests, phone : Phones \cup {None}, sender : Senders \cup {None}, at : Nat]
RequestRow ==
  [at : Steps, phone : Phones \cup {None}, sender : Senders \cup {None}, honest : BOOLEAN,
   known : SUBSET LeadRow]

\* Type correctness of the table and of the handlers.
LeadsTypeOK ==
  /\ request \in [Requests -> RequestRow]
  /\ leads \subseteq LeadRow
  /\ clock \in Nat

(* A lead was saved by now, by a request that has passed its statement.    *)
SavedInv ==
  \A lead \in leads : lead.at <= clock /\ request[lead.id].at \in {"saved", "ok", "error"}

(* What was there when a request came still is, and belongs to its number; *)
(* a request that is taken for a new one came in a later window.           *)
KnownInv ==
  \A r \in Requests :
    /\ request[r].known \subseteq leads
    /\ \A old \in request[r].known :
         /\ old.phone = request[r].phone
         /\ request[r].at = "new" => old.at < clock

LInv == LeadsTypeOK /\ SavedInv /\ KnownInv /\ RepeatsAreOneLead

LEMMA LeadsInit == LInit => LInv
BY DEF LInit, LInv, LeadsTypeOK, SavedInv, KnownInv, RepeatsAreOneLead, RequestRow, Steps

LEMMA ReceiveStep ==
  ASSUME LInv, NEW r \in Requests, NEW phone \in Phones \cup {None}, NEW sender \in Senders,
         Receive(r, phone, sender)
  PROVE  LInv'
<1>1. PICK honest \in BOOLEAN, at \in {"received", "refused", "ok", "invalid"} :
          request' = [request EXCEPT ![r] = [at |-> at, phone |-> phone, sender |-> sender,
                        honest |-> honest, known |-> Recent(phone)]]
    BY DEF Receive
<1> DEFINE row == [at |-> at, phone |-> phone, sender |-> sender, honest |-> honest,
                   known |-> Recent(phone)]
<1>2. UNCHANGED <<leads, clock>> /\ request[r].at = "unsent"
    BY DEF Receive
<1>3. Recent(phone) \subseteq leads /\ \A old \in Recent(phone) : old.phone = phone
    BY DEF Recent
<1>4. row \in RequestRow
    BY <1>3 DEF RequestRow, Steps, LInv, LeadsTypeOK
<1>5. request'[r] = row /\ \A q \in Requests : q # r => request'[q] = request[q]
    BY <1>1 DEF LInv, LeadsTypeOK
<1>6. LeadsTypeOK'
    BY <1>1, <1>2, <1>4 DEF LInv, LeadsTypeOK
<1>7. \A lead \in leads : lead.id \in Requests /\ lead.id # r
    BY <1>2 DEF LInv, LeadsTypeOK, SavedInv, LeadRow
<1>8. SavedInv' /\ RepeatsAreOneLead'
    BY <1>2, <1>5, <1>7 DEF LInv, SavedInv, RepeatsAreOneLead
<1>9. KnownInv'
    BY <1>2, <1>3, <1>5 DEF LInv, KnownInv
<1>. QED
    BY <1>6, <1>8, <1>9 DEF LInv

(* A handler that goes on without writing.                                 *)
LEMMA AnswerStep ==
  ASSUME LInv, NEW r \in Requests, NEW at \in Steps, Answer(r, at), UNCHANGED <<leads, clock>>,
         request[r].at \in {"saved", "ok", "error"} => at \in {"saved", "ok", "error"},
         at = "new" => Recent(request[r].phone) = {}
  PROVE  LInv'
<1>1. request[r] \in RequestRow /\ request' = [request EXCEPT ![r] = [request[r] EXCEPT !.at = at]]
    BY DEF Answer, LInv, LeadsTypeOK
<1>2. [request[r] EXCEPT !.at = at] \in RequestRow
    BY <1>1 DEF RequestRow
<1>3. /\ request'[r].at = at /\ request'[r].known = request[r].known
      /\ request'[r].phone = request[r].phone
      /\ \A q \in Requests : q # r => request'[q] = request[q]
    BY <1>1 DEF LInv, LeadsTypeOK, RequestRow
<1>4. LeadsTypeOK'
    BY <1>1, <1>2 DEF LInv, LeadsTypeOK
<1>5. \A lead \in leads : lead.id \in Requests /\ lead.at \in Nat
    BY DEF LInv, LeadsTypeOK, LeadRow
<1>6. SavedInv' /\ RepeatsAreOneLead'
    BY <1>3, <1>5 DEF LInv, SavedInv, RepeatsAreOneLead
<1>7. at = "new" => \A old \in request[r].known : old.at < clock
    <2> SUFFICES ASSUME at = "new", NEW old \in request[r].known PROVE old.at < clock
        OBVIOUS
    <2>1. old \in leads /\ old.phone = request[r].phone /\ old.at <= clock /\ old.at \in Nat
        BY <1>5 DEF LInv, KnownInv, SavedInv
    <2>2. old.at # clock
        BY <2>1 DEF Recent
    <2>. QED
        BY <2>1, <2>2 DEF LInv, LeadsTypeOK
<1>8. KnownInv'
    BY <1>3, <1>7 DEF LInv, KnownInv
<1>. QED
    BY <1>4, <1>6, <1>8 DEF LInv

LEMMA SaveStep ==
  ASSUME LInv, NEW r \in Requests, Save(r)
  PROVE  LInv'
<1> DEFINE new == [id |-> r, phone |-> request[r].phone, sender |-> request[r].sender, at |-> clock]
<1>1. /\ request[r].at = "new" /\ leads' = leads \cup {new} /\ clock' = clock
      /\ request[r] \in RequestRow
      /\ request' = [request EXCEPT ![r] = [request[r] EXCEPT !.at = "saved"]]
    BY DEF Save, Answer, LInv, LeadsTypeOK
<1>2. [request[r] EXCEPT !.at = "saved"] \in RequestRow /\ new \in LeadRow
    BY <1>1 DEF RequestRow, LeadRow, Steps, LInv, LeadsTypeOK
<1>3. /\ request'[r].at = "saved" /\ request'[r].known = request[r].known
      /\ request'[r].phone = request[r].phone
      /\ \A q \in Requests : q # r => request'[q] = request[q]
    BY <1>1 DEF LInv, LeadsTypeOK, RequestRow
<1>4. LeadsTypeOK'
    BY <1>1, <1>2 DEF LInv, LeadsTypeOK
<1>5. \A lead \in leads : lead.id \in Requests /\ lead.at \in Nat /\ lead.id # r
    BY <1>1 DEF LInv, LeadsTypeOK, LeadRow, SavedInv
<1>6. clock \in Nat /\ new.at = clock /\ new.id = r
    BY DEF LInv, LeadsTypeOK
<1>7. SavedInv'
    BY <1>1, <1>3, <1>5, <1>6 DEF LInv, SavedInv
<1>8. KnownInv'
    BY <1>1, <1>3 DEF LInv, KnownInv
<1>9. \A old \in request[r].known : old.at # clock
    <2> TAKE old \in request[r].known
    <2>1. old.at < clock /\ old.at \in Nat
        BY <1>1, <1>5 DEF LInv, KnownInv
    <2>. QED
        BY <1>6, <2>1
<1>10. RepeatsAreOneLead'
    BY <1>1, <1>3, <1>5, <1>6, <1>9 DEF LInv, RepeatsAreOneLead
<1>. QED
    BY <1>4, <1>7, <1>8, <1>10 DEF LInv

LEMMA WindowStep ==
  ASSUME LInv, WindowPasses
  PROVE  LInv'
<1>1. clock \in Nat /\ clock' = clock + 1 /\ UNCHANGED <<request, leads>>
    BY DEF WindowPasses, LInv, LeadsTypeOK
<1>2. \A lead \in leads : lead.at \in Nat
    BY DEF LInv, LeadsTypeOK, LeadRow
<1>3. LeadsTypeOK' /\ SavedInv' /\ RepeatsAreOneLead'
    BY <1>1, <1>2 DEF LInv, LeadsTypeOK, SavedInv, RepeatsAreOneLead
<1>4. KnownInv'
    BY <1>1, <1>2 DEF LInv, KnownInv
<1>. QED
    BY <1>3, <1>4 DEF LInv

LEMMA LeadsStep ==
  ASSUME LInv, [LNext]_lvars
  PROVE  LInv'
<1>1. ASSUME NEW r \in Requests, \E phone \in Phones \cup {None}, sender \in Senders : Receive(r, phone, sender)
      PROVE  LInv'
    BY <1>1, ReceiveStep
<1>2. ASSUME NEW r \in Requests,
             \/ CountDay(r) \/ CountSender(r) \/ LookForRepeat(r) \/ Mail(r)
             \/ FailToSave(r) \/ DieAfterSave(r)
      PROVE  LInv'
    <2>1. PICK at \in {"refused", "dayCounted", "counted", "ok", "new", "error"} :
              /\ Answer(r, at)
              /\ request[r].at \in {"saved", "ok", "error"} => at \in {"saved", "ok", "error"}
              /\ at = "new" => Recent(request[r].phone) = {}
        BY <1>2 DEF CountDay, CountSender, LookForRepeat, Mail, FailToSave, DieAfterSave
    <2>2. UNCHANGED <<leads, clock>>
        BY <1>2 DEF CountDay, CountSender, LookForRepeat, Mail, FailToSave, DieAfterSave
    <2>3. at \in Steps
        BY DEF Steps
    <2>. QED
        BY <2>1, <2>2, <2>3, AnswerStep
<1>3. ASSUME NEW r \in Requests, Save(r)
      PROVE  LInv'
    BY <1>3, SaveStep
<1>4. CASE WindowPasses
    BY <1>4, WindowStep
<1>5. CASE UNCHANGED lvars
    BY <1>5 DEF lvars, LInv, LeadsTypeOK, SavedInv, KnownInv, RepeatsAreOneLead
<1>. QED
    BY <1>1, <1>2, <1>3, <1>4, <1>5 DEF LNext

\* The inductive invariant of Leads.
THEOREM LeadsInvariance == LSpec => []LInv
<1>1. LInv /\ [LNext]_lvars => LInv'
    BY LeadsStep
<1>. QED
    BY <1>1, LeadsInit, PTL DEF LSpec

\* isRepeatLead: a request whose number had been saved in its window is never
\* saved again.
THEOREM RepeatsStayOneLead == LSpec => []RepeatsAreOneLead
<1>1. LInv => RepeatsAreOneLead
    BY DEF LInv
<1>. QED
    BY <1>1, LeadsInvariance, PTL

-----------------------------------------------------------------------------
(* The outreach                                                            *)

OutreachRow == [cadence : Nat, optedOut : Nat, id : Ids, late : BOOLEAN]
ClickRow == [email : Emails, at : {"signed", "listed", "done", "failed"}]
ImportRow ==
  [sheet : [Contacts -> Nat], left : SUBSET Contacts, looking : Contacts \cup {NoContact},
   found : BOOLEAN]

\* Type correctness of the tables and of what the script and the links hold.
OutreachTypeOK ==
  /\ tracker \in [Contacts -> Nat]
  /\ Rows \subseteq Contacts /\ outreach \in [Rows -> OutreachRow]
  /\ suppression \subseteq Emails /\ told \subseteq Emails
  /\ import \in ImportRow
  /\ clicks \in Seq(ClickRow)

(* What the script has looked for it has not missed: nobody else inserts.  *)
SearchInv == import.looking # NoContact /\ ~import.found => import.looking \notin Rows

(* The list comes before the rows.                                         *)
ClickInv == \A i \in DOMAIN clicks : clicks[i].at = "listed" => clicks[i].email \in suppression

OInv == OutreachTypeOK /\ SearchInv /\ ClickInv /\ ToldMeansOut

(* What is opted out stays as it is.                                       *)
Stays == \A c \in Rows : outreach[c].optedOut # 0 => outreach'[c].optedOut = outreach[c].optedOut

LEMMA OutreachInit == OInit => OInv
<1> SUFFICES ASSUME OInit PROVE OInv
    OBVIOUS
<1>1. Rows = {} /\ outreach = [c \in {} |-> 0]
    BY DEF OInit, Rows
<1>2. outreach \in [Rows -> OutreachRow]
    BY <1>1
<1>3. import \in ImportRow /\ import.looking = NoContact
    BY DEF OInit, NoImport, ImportRow
<1>4. clicks = <<>> /\ tracker \in [Contacts -> Nat] /\ suppression = {} /\ told = {}
    BY DEF OInit
<1>. QED
    BY <1>1, <1>2, <1>3, <1>4 DEF OInv, OutreachTypeOK, SearchInv, ClickInv, ToldMeansOut

-----------------------------------------------------------------------------
(* The tracker and the script                                              *)

LEMMA QuietStep ==
  ASSUME OInv, UNCHANGED <<outreach, suppression, clicks, told>>,
         tracker' \in [Contacts -> Nat], import' \in ImportRow, SearchInv'
  PROVE  OInv' /\ Stays
BY DEF OInv, OutreachTypeOK, ClickInv, ToldMeansOut, Stays, Rows

LEMMA EditStep ==
  ASSUME OInv, NEW c \in Contacts, Edit(c)
  PROVE  OInv' /\ Stays
<1>1. tracker' \in [Contacts -> Nat] /\ UNCHANGED <<outreach, suppression, import, clicks, told, read>>
    BY DEF Edit, OInv, OutreachTypeOK
<1>. QED
    BY <1>1, QuietStep DEF OInv, OutreachTypeOK, SearchInv, Rows

LEMMA ImportSteps ==
  ASSUME OInv, StartImport \/ EndImport \/ \E c \in Contacts : Find(c)
  PROVE  OInv' /\ Stays
<1>1. UNCHANGED <<tracker, outreach, suppression, clicks, told>>
    BY DEF StartImport, EndImport, Find
<1>2. import' \in ImportRow /\ SearchInv'
    <2>1. CASE StartImport
        <3>1. import' = [sheet |-> tracker, left |-> {c \in Contacts : tracker[c] > 0 /\ Matched(c)},
                         looking |-> NoContact, found |-> FALSE]
            BY <2>1 DEF StartImport, NoImport
        <3>. QED
            BY <3>1 DEF ImportRow, SearchInv, OInv, OutreachTypeOK
    <2>2. CASE EndImport
        BY <2>2 DEF EndImport, NoImport, ImportRow, SearchInv
    <2>3. ASSUME NEW c \in Contacts, Find(c)
          PROVE  import' \in ImportRow /\ SearchInv'
        <3> DEFINE there == c \in Rows
        <3>1. import \in ImportRow
            BY DEF OInv, OutreachTypeOK
        <3>2. there \in BOOLEAN /\ (there <=> c \in Rows)
            OBVIOUS
        <3>3. import' = [import EXCEPT !.looking = c, !.found = there]
            BY <2>3 DEF Find
        <3> HIDE DEF there
        <3>4. import' \in ImportRow /\ import'.looking = c /\ import'.found = there
            BY <3>1, <3>2, <3>3 DEF ImportRow
        <3>. QED
            BY <1>1, <3>2, <3>4 DEF SearchInv, Rows
    <2>. QED
        BY <2>1, <2>2, <2>3
<1>. QED
    BY <1>1, <1>2, QuietStep DEF OInv, OutreachTypeOK

LEMMA NextRecordIsOne ==
  ASSUME OInv
  PROVE  NextRecord \in ImportRow /\ NextRecord.looking = NoContact
<1>1. import \in ImportRow
    BY DEF OInv, OutreachTypeOK
<1>2. NextRecord = [import EXCEPT !.left = import.left \ {import.looking}, !.looking = NoContact,
                                  !.found = FALSE]
    BY DEF NextRecord
<1>. QED
    BY <1>1, <1>2 DEF ImportRow

LEMMA UpdateStep ==
  ASSUME OInv, NEW c \in Contacts, Update(c)
  PROVE  OInv' /\ Stays
<1>1. /\ outreach' = [outreach EXCEPT ![c] = buildPayload(outreach[c], c)]
      /\ import' = NextRecord
      /\ UNCHANGED <<tracker, suppression, clicks, told, read>>
    BY DEF Update
<1>2. Rows' = Rows
    BY <1>1 DEF Rows
<1>3. \A d \in Rows : /\ outreach'[d] \in OutreachRow
                      /\ outreach'[d].optedOut = outreach[d].optedOut
                      /\ outreach'[d].late = outreach[d].late
    <2> TAKE d \in Rows
    <2>1. outreach[d] \in OutreachRow /\ import.sheet[c] \in Nat
        BY DEF OInv, OutreachTypeOK, ImportRow
    <2>2. CASE d = c
        <3>1. outreach'[d] = [outreach[d] EXCEPT !.cadence = import.sheet[c]]
            BY <1>1, <2>2 DEF buildPayload, OInv, OutreachTypeOK
        <3>. QED
            BY <2>1, <3>1 DEF OutreachRow
    <2>3. CASE d # c
        BY <1>1, <2>1, <2>3 DEF OInv, OutreachTypeOK
    <2>. QED
        BY <2>2, <2>3
<1>4. outreach' \in [Rows' -> OutreachRow]
    BY <1>1, <1>2, <1>3 DEF Rows, OInv, OutreachTypeOK
<1>5. OutreachTypeOK' /\ SearchInv' /\ ClickInv'
    BY <1>1, <1>2, <1>4, NextRecordIsOne DEF OInv, OutreachTypeOK, SearchInv, ClickInv
<1>6. ToldMeansOut'
    BY <1>1, <1>2, <1>3 DEF OInv, ToldMeansOut
<1>. QED
    BY <1>3, <1>5, <1>6 DEF OInv, Stays

LEMMA InsertStep ==
  ASSUME OInv, NEW c \in Contacts, Insert(c)
  PROVE  OInv' /\ Stays
<1>1. /\ c \notin Rows
      /\ import' = NextRecord
      /\ UNCHANGED <<tracker, suppression, clicks, told, read>>
    BY DEF Insert, OInv, SearchInv
<1>2. PICK id \in Ids :
          outreach' = [d \in Rows \cup {c} |-> IF d = c THEN NewRow(c, id) ELSE outreach[d]]
    BY DEF Insert
<1>3. NewRow(c, id) \in OutreachRow /\ NewRow(c, id).late = (EmailOf[c] \in told)
    <2>1. import.sheet[c] \in Nat /\ (EmailOf[c] \in told) \in BOOLEAN
        BY DEF OInv, OutreachTypeOK, ImportRow
    <2>. QED
        BY <2>1 DEF NewRow, OutreachRow
<1>4. Rows' = Rows \cup {c} /\ outreach'[c] = NewRow(c, id) /\ \A d \in Rows : outreach'[d] = outreach[d]
    BY <1>1, <1>2 DEF Rows
<1>5. outreach' \in [Rows' -> OutreachRow]
    BY <1>2, <1>3, <1>4 DEF OInv, OutreachTypeOK
<1>6. OutreachTypeOK' /\ SearchInv' /\ ClickInv'
    BY <1>1, <1>4, <1>5, NextRecordIsOne DEF OInv, OutreachTypeOK, SearchInv, ClickInv
<1>7. ToldMeansOut'
    BY <1>1, <1>3, <1>4 DEF OInv, ToldMeansOut
<1>. QED
    BY <1>4, <1>6, <1>7 DEF OInv, Stays

-----------------------------------------------------------------------------
(* The link                                                                *)

LEMMA ClickStep ==
  ASSUME OInv, NEW email \in Emails, Click(email)
  PROVE  OInv' /\ Stays
<1> DEFINE new == [email |-> email, at |-> "signed"]
<1>1. clicks' = Append(clicks, new) /\ UNCHANGED <<tracker, outreach, suppression, import, told, read>>
    BY DEF Click
<1>2. new \in ClickRow
    BY DEF ClickRow
<1>3. clicks \in Seq(ClickRow)
    BY DEF OInv, OutreachTypeOK
<1>4. clicks' \in Seq(ClickRow)
    BY <1>1, <1>2, <1>3
<1>5. \A i \in DOMAIN clicks' : clicks'[i].at = "listed" => i \in DOMAIN clicks /\ clicks'[i] = clicks[i]
    BY <1>1, <1>2, <1>3
<1>6. OutreachTypeOK' /\ SearchInv' /\ ToldMeansOut' /\ Rows' = Rows
    BY <1>1, <1>4 DEF OInv, OutreachTypeOK, SearchInv, ToldMeansOut, Rows
<1>7. ClickInv'
    BY <1>1, <1>5 DEF OInv, ClickInv
<1>. QED
    BY <1>1, <1>6, <1>7 DEF OInv, Stays

LEMMA ClickMoves ==
  ASSUME OInv, NEW i \in DOMAIN clicks, NEW at \in {"listed", "done", "failed"},
         clicks' = [clicks EXCEPT ![i].at = at]
  PROVE  /\ clicks' \in Seq(ClickRow) /\ DOMAIN clicks' = DOMAIN clicks
         /\ clicks'[i].at = at /\ clicks'[i].email = clicks[i].email
         /\ \A j \in DOMAIN clicks : j # i => clicks'[j] = clicks[j]
<1>1. clicks \in Seq(ClickRow) /\ clicks[i] \in ClickRow
    BY DEF OInv, OutreachTypeOK
<1>2. [clicks[i] EXCEPT !.at = at] \in ClickRow
    BY <1>1 DEF ClickRow
<1>3. clicks' = [clicks EXCEPT ![i] = [clicks[i] EXCEPT !.at = at]]
    OBVIOUS
<1>4. clicks' \in Seq(ClickRow) /\ DOMAIN clicks' = DOMAIN clicks
    BY <1>1, <1>2, <1>3
<1>. QED
    BY <1>1, <1>3, <1>4 DEF ClickRow

LEMMA SuppressFailSteps ==
  ASSUME OInv, NEW i \in DOMAIN clicks, Suppress(i) \/ ClickFails(i)
  PROVE  OInv' /\ Stays
<1>1. /\ suppression \subseteq suppression' /\ suppression' \subseteq Emails
      /\ UNCHANGED <<tracker, outreach, import, told, read>>
      /\ \E at \in {"listed", "failed"} :
           /\ clicks' = [clicks EXCEPT ![i].at = at]
           /\ at = "listed" => clicks[i].email \in suppression'
    <2>1. clicks[i].email \in Emails
        <3>1. clicks[i] \in ClickRow
            BY DEF OInv, OutreachTypeOK
        <3>. QED
            BY <3>1 DEF ClickRow
    <2>. QED
        BY <2>1 DEF Suppress, ClickFails, OInv, OutreachTypeOK
<1>2. PICK at \in {"listed", "failed"} :
           /\ clicks' = [clicks EXCEPT ![i].at = at]
           /\ at = "listed" => clicks[i].email \in suppression'
    BY <1>1
<1>3. clicks' \in Seq(ClickRow) /\ ClickInv'
    BY <1>1, <1>2, ClickMoves DEF ClickInv, OInv
<1>. QED
    BY <1>1, <1>3 DEF OInv, OutreachTypeOK, SearchInv, ToldMeansOut, Stays, Rows

LEMMA OptOutStep ==
  ASSUME OInv, NEW i \in DOMAIN clicks, OptOut(i)
  PROVE  OInv' /\ Stays
<1> DEFINE email == clicks[i].email
           gone(c) == EmailOf[c] = email /\ outreach[c].optedOut = 0
<1>1. /\ clicks[i].at = "listed" /\ email \in suppression /\ email \in Emails
      /\ outreach' = [c \in Rows |-> IF gone(c) THEN [outreach[c] EXCEPT !.optedOut = i] ELSE outreach[c]]
      /\ clicks' = [clicks EXCEPT ![i].at = "done"]
      /\ told' = told \cup {email}
      /\ UNCHANGED <<tracker, suppression, import, read>>
    BY DEF OptOut, OInv, ClickInv, OutreachTypeOK, ClickRow
<1>2. i \in Nat \ {0}
    BY DEF OInv, OutreachTypeOK
<1>3. Rows' = Rows
    BY <1>1 DEF Rows
<1>4. \A c \in Rows : /\ outreach'[c] \in OutreachRow
                      /\ outreach'[c].late = outreach[c].late
                      /\ gone(c) => outreach'[c].optedOut = i
                      /\ ~gone(c) => outreach'[c].optedOut = outreach[c].optedOut
    <2> TAKE c \in Rows
    <2>1. outreach[c] \in OutreachRow
        BY DEF OInv, OutreachTypeOK
    <2>2. [outreach[c] EXCEPT !.optedOut = i] \in OutreachRow
            /\ [outreach[c] EXCEPT !.optedOut = i].optedOut = i
            /\ [outreach[c] EXCEPT !.optedOut = i].late = outreach[c].late
        BY <1>2, <2>1 DEF OutreachRow
    <2>. QED
        BY <1>1, <2>1, <2>2
<1>5. outreach' \in [Rows' -> OutreachRow]
    BY <1>1, <1>3, <1>4
<1>6. OutreachTypeOK' /\ SearchInv' /\ ClickInv'
    BY <1>1, <1>3, <1>5, ClickMoves DEF OInv, OutreachTypeOK, SearchInv, ClickInv
<1>7. ToldMeansOut'
    BY <1>1, <1>2, <1>3, <1>4 DEF OInv, ToldMeansOut
<1>. QED
    BY <1>4, <1>6, <1>7 DEF OInv, Stays

-----------------------------------------------------------------------------
LEMMA OutreachStep ==
  ASSUME OInv, [ONext]_ovars
  PROVE  OInv' /\ Stays
<1>1. ASSUME NEW c \in Contacts, Edit(c) \/ Find(c) \/ Update(c) \/ Insert(c)
      PROVE  OInv' /\ Stays
    BY <1>1, EditStep, ImportSteps, UpdateStep, InsertStep
<1>2. CASE StartImport \/ EndImport
    BY <1>2, ImportSteps
<1>3. CASE \E email \in Emails : Click(email)
    BY <1>3, ClickStep
<1>4. CASE \E i \in DOMAIN clicks : Suppress(i) \/ OptOut(i) \/ ClickFails(i)
    BY <1>4, SuppressFailSteps, OptOutStep
<1>5. CASE StartRead \/ FetchPage \/ UNCHANGED ovars
    <2>1. UNCHANGED <<tracker, outreach, suppression, import, clicks, told>>
        BY <1>5 DEF StartRead, FetchPage, ovars
    <2>. QED
        BY <2>1, QuietStep DEF OInv, OutreachTypeOK, SearchInv, Rows
<1>. QED
    BY <1>1, <1>2, <1>3, <1>4, <1>5 DEF ONext

\* The inductive invariant.
THEOREM OutreachInvariance == OSpec => []OInv
<1>1. OInv /\ [ONext]_ovars => OInv'
    BY OutreachStep
<1>. QED
    BY <1>1, OutreachInit, PTL DEF OSpec

\* The tables, the script and the links have their types.
THEOREM OutreachTypeCorrect == OSpec => []OutreachTypeOK
<1>1. OInv => OutreachTypeOK
    BY DEF OInv
<1>. QED
    BY <1>1, OutreachInvariance, PTL

\* "You've been unsubscribed": whoever saw it is on the list and out of the rows
\* there were.
THEOREM ToldAreOut == OSpec => []ToldMeansOut
<1>1. OInv => ToldMeansOut
    BY DEF OInv
<1>. QED
    BY <1>1, OutreachInvariance, PTL

\* No import moves or clears an opt-out.
THEOREM OptOutsStay == OSpec => OptOutStays
<1>1. OInv /\ [ONext]_ovars =>
        [\A c \in Rows : outreach[c].optedOut # 0 => outreach'[c].optedOut = outreach[c].optedOut]_ovars
    BY OutreachStep DEF Stays
<1>. QED
    BY <1>1, OutreachInvariance, PTL DEF OSpec, OptOutStays

-----------------------------------------------------------------------------
(* The dashboard's read                                                    *)

ReadRow == [offset : Nat \cup {-1, -2}, got : SUBSET Contacts, start : SUBSET Contacts]

(* Ids tell the rows apart.                                                *)
IdInv == \A c, d \in Rows : outreach[c].id = outreach[d].id => c = d

(* What was there when the read began and is not read yet is still ahead.  *)
ReadInv ==
  /\ read \in ReadRow
  /\ read.offset >= 0 => /\ read.start \subseteq Rows
                         /\ \A c \in read.start : c \in read.got \/ Place(c) >= read.offset
  /\ read.offset = -2 => read.start \subseteq read.got

PagesInv == OInv /\ IdInv /\ ReadInv

Before(c) == {d \in Rows : outreach[d].id < outreach[c].id}

LEMMA RowsAreFinite ==
  ASSUME OInv
  PROVE  /\ IsFiniteSet(Rows)
         /\ \A c \in Rows : /\ outreach[c].id \in Int
                            /\ IsFiniteSet(Before(c)) /\ Place(c) = Cardinality(Before(c))
                            /\ Place(c) \in Nat
<1>1. IsFiniteSet(Contacts) /\ Rows \in SUBSET Contacts
    BY OutreachAssumption DEF OInv, OutreachTypeOK
<1>2. IsFiniteSet(Rows)
    BY <1>1, FS_Subset
<1>3. ASSUME NEW c \in Rows
      PROVE  /\ IsFiniteSet(Before(c)) /\ Place(c) = Cardinality(Before(c))
             /\ Place(c) \in Nat
    <2>1. Before(c) \in SUBSET Rows
        BY DEF Before
    <2>2. IsFiniteSet(Before(c))
        BY <1>2, <2>1, FS_Subset
    <2>3. Place(c) = Cardinality(Before(c))
        BY DEF Place, Before
    <2>. QED
        BY <2>2, <2>3, FS_CardinalityType
<1>4. ASSUME NEW c \in Rows PROVE outreach[c].id \in Int
    <2>1. outreach[c].id \in Ids
        BY DEF OInv, OutreachTypeOK, OutreachRow
    <2>. QED
        BY <2>1 DEF Ids
<1>. QED
    BY <1>2, <1>3, <1>4

\* Rows are placed in the order of their ids.
LEMMA PlacesAscend ==
  ASSUME OInv, NEW c \in Rows, NEW d \in Rows, outreach[d].id < outreach[c].id
  PROVE  Place(d) < Place(c)
<1>1. /\ outreach[c].id \in Int /\ outreach[d].id \in Int
      /\ IsFiniteSet(Before(c)) /\ Place(c) = Cardinality(Before(c)) /\ Place(c) \in Nat
      /\ Place(d) = Cardinality(Before(d)) /\ Place(d) \in Nat
    BY RowsAreFinite
<1>2. \A e \in Rows : outreach[e].id \in Int
    BY RowsAreFinite
<1>3. Before(d) \in SUBSET Before(c)
    BY <1>1, <1>2 DEF Before
<1>4. d \in Before(c) /\ d \notin Before(d)
    BY <1>1 DEF Before
<1>5. Cardinality(Before(d)) <= Cardinality(Before(c))
    BY <1>1, <1>3, FS_Subset
<1>6. Cardinality(Before(d)) # Cardinality(Before(c))
    BY <1>1, <1>3, <1>4, FS_Subset
<1>. QED
    BY <1>1, <1>5, <1>6

\* A page that is not full is the last: the places below that of a row are all
\* taken, so a row beyond the page would leave none of the page's own empty.
LEMMA ShortPageIsLast ==
  ASSUME OInv, IdInv, NEW offset \in Nat, Cardinality(Page(offset)) < PageSize,
         NEW c \in Rows, Place(c) >= offset
  PROVE  c \in Page(offset)
<1>1. PageSize \in Nat \ {0}
    BY OutreachAssumption
<1>2. SUFFICES ASSUME Place(c) >= offset + PageSize
               PROVE  FALSE
    <2>1. Place(c) \in Nat
        BY RowsAreFinite
    <2>. QED
        BY <1>1, <2>1 DEF Page
<1> DEFINE B == Before(c)
<1> DEFINE k == Place(c)
<1> DEFINE T == 0 .. k - 1
<1> DEFINE f == [d \in B |-> Place(d)]
<1>3. /\ k \in Nat /\ IsFiniteSet(B) /\ Cardinality(B) = k
      /\ B \subseteq Rows /\ \A d \in B : outreach[d].id < outreach[c].id
    BY RowsAreFinite DEF Before
<1>4. IsFiniteSet(T) /\ Cardinality(T) = k
    <2>1. 0 \in Int /\ k - 1 \in Int
        BY <1>3
    <2>2. IsFiniteSet(T) /\ Cardinality(T) = IF 0 > k - 1 THEN 0 ELSE k - 1 - 0 + 1
        BY <2>1, FS_Interval
    <2>. QED
        BY <1>3, <2>2
<1>5. f \in Injection(B, T)
    <2>1. ASSUME NEW d \in B PROVE Place(d) \in T
        <3>1. Place(d) < k
            BY <1>3, PlacesAscend
        <3>2. Place(d) \in Nat
            BY <1>3, RowsAreFinite
        <3>. QED
            BY <1>3, <3>1, <3>2
    <2>2. ASSUME NEW d \in B, NEW e \in B, d # e PROVE Place(d) # Place(e)
        <3>1. d \in Rows /\ e \in Rows
            BY <1>3
        <3>2. /\ outreach[d].id \in Int /\ outreach[e].id \in Int
              /\ Place(d) \in Nat /\ Place(e) \in Nat
            BY <3>1, RowsAreFinite
        <3>3. outreach[d].id # outreach[e].id
            BY <2>2, <3>1 DEF IdInv
        <3>4. outreach[d].id < outreach[e].id \/ outreach[e].id < outreach[d].id
            BY <3>2, <3>3
        <3>5. Place(d) < Place(e) \/ Place(e) < Place(d)
            BY <3>1, <3>4, PlacesAscend
        <3>. QED
            BY <3>2, <3>5
    <2>3. f \in [B -> T]
        BY <2>1
    <2>4. \A d, e \in B : f[d] = f[e] => d = e
        BY <2>2
    <2>. QED
        BY <2>3, <2>4 DEF Injection, IsInjective
<1>6. f \in Surjection(B, T)
    BY <1>3, <1>4, <1>5, FS_Injection
<1> DEFINE I == offset .. offset + PageSize - 1
<1> DEFINE g == [d \in Page(offset) |-> Place(d)]
<1>7. I \subseteq T
    BY <1>1, <1>2, <1>3
<1>8. g \in Surjection(Page(offset), I)
    <2>1. g \in [Page(offset) -> I]
        BY DEF Page
    <2>2. ASSUME NEW i \in I PROVE \E d \in Page(offset) : g[d] = i
        <3>1. i \in T
            BY <1>7
        <3>2. PICK d \in B : f[d] = i
            BY <1>6, <3>1 DEF Surjection
        <3>3. Place(d) = i /\ d \in Rows
            BY <1>3, <3>2
        <3>4. d \in Page(offset)
            BY <3>3 DEF Page
        <3>. QED
            BY <3>3, <3>4
    <2>. QED
        BY <2>1, <2>2 DEF Surjection
<1>9. IsFiniteSet(Page(offset)) /\ Cardinality(Page(offset)) \in Nat
    <2>1. Page(offset) \in SUBSET Rows
        BY DEF Page
    <2>2. IsFiniteSet(Page(offset))
        BY <2>1, RowsAreFinite, FS_Subset
    <2>. QED
        BY <2>2, FS_CardinalityType
<1>10. Cardinality(I) <= Cardinality(Page(offset))
    BY <1>8, <1>9, FS_Surjection
<1>11. Cardinality(I) = PageSize
    <2>1. offset \in Int /\ offset + PageSize - 1 \in Int
        BY <1>1
    <2>2. Cardinality(I) = IF offset > offset + PageSize - 1 THEN 0
                           ELSE offset + PageSize - 1 - offset + 1
        BY <2>1, FS_Interval
    <2>. QED
        BY <1>1, <2>2
<1>. QED
    BY <1>1, <1>9, <1>10, <1>11

\* Rows keep their ids, and no row goes.
IdsStay ==
  /\ Rows \subseteq Rows'
  /\ \A c \in Rows : outreach'[c].id = outreach[c].id

LEMMA PlacesGrow ==
  ASSUME OInv, OInv', IdsStay
  PROVE  \A c \in Rows : Place(c)' >= Place(c) /\ Place(c)' \in Nat
<1> TAKE c \in Rows
<1>1. IsFiniteSet(Rows)'
    <2>1. IsFiniteSet(Contacts) /\ Rows' \in SUBSET Contacts
        BY OutreachAssumption DEF OInv, OutreachTypeOK
    <2>. QED
        BY <2>1, FS_Subset
<1> DEFINE A == {d \in Rows : outreach[d].id < outreach[c].id}
<1> DEFINE Z == {d \in Rows' : outreach'[d].id < outreach'[c].id}
<1>2. A \in SUBSET Z /\ Z \in SUBSET Rows'
    BY DEF IdsStay
<1>3. IsFiniteSet(Z)
    BY <1>1, <1>2, FS_Subset
<1>4. Cardinality(A) <= Cardinality(Z)
    BY <1>2, <1>3, FS_Subset
<1>5. Cardinality(A) \in Nat /\ Cardinality(Z) \in Nat
    BY <1>2, <1>3, FS_Subset, FS_CardinalityType
<1>6. Place(c) = Cardinality(A) /\ Place(c)' = Cardinality(Z)
    BY DEF Place
<1>. QED
    BY <1>4, <1>5, <1>6

\* Whatever happens to the table, what is ahead of the read stays ahead.
LEMMA ReadRests ==
  ASSUME OInv, OInv', ReadInv, IdsStay, read' = read
  PROVE  ReadInv'
<1>1. CASE read.offset >= 0
    <2>1. ASSUME NEW c \in read.start, c \notin read.got
          PROVE  Place(c)' >= read.offset
        <3>1. c \in Rows /\ Place(c) >= read.offset
            BY <1>1, <2>1 DEF ReadInv
        <3>2. Place(c)' >= Place(c) /\ Place(c)' \in Nat
            BY <3>1, PlacesGrow
        <3>3. Place(c) \in Nat /\ read.offset \in Int
            BY <3>1, RowsAreFinite DEF ReadInv, ReadRow
        <3>. QED
            BY <3>1, <3>2, <3>3
    <2>. QED
        BY <1>1, <2>1 DEF ReadInv, IdsStay
<1>2. CASE ~(read.offset >= 0)
    BY <1>2 DEF ReadInv
<1>. QED
    BY <1>1, <1>2

LEMMA ReadSteps ==
  ASSUME OInv, IdInv, ReadInv, StartRead \/ FetchPage
  PROVE  ReadInv'
<1>1. Rows \in SUBSET Contacts /\ read \in ReadRow
    BY DEF OInv, OutreachTypeOK, ReadInv
<1>2. Rows' = Rows /\ outreach' = outreach
    BY DEF StartRead, FetchPage, Rows
<1>3. \A c \in Rows : Place(c)' = Place(c) /\ Place(c) \in Nat
    <2>1. \A c \in Rows : Place(c)' = Place(c)
        BY <1>2 DEF Place
    <2>. QED
        BY <2>1, RowsAreFinite
<1>4. CASE StartRead
    <2>1. read' = [offset |-> 0, got |-> {}, start |-> Rows]
        BY <1>4 DEF StartRead
    <2>2. \A c \in Rows : Place(c)' >= 0
        BY <1>3
    <2>. QED
        BY <1>1, <1>2, <2>1, <2>2 DEF ReadInv, ReadRow
<1>5. CASE FetchPage
    <2> DEFINE page == Page(read.offset)
    <2> DEFINE next == IF Cardinality(page) < PageSize THEN -2 ELSE read.offset + PageSize
    <2>1. read.offset \in Nat /\ PageSize \in Nat \ {0}
        BY <1>1, <1>5, OutreachAssumption DEF FetchPage, ReadRow
    <2>2. read' = [read EXCEPT !.got = read.got \cup page, !.offset = next]
        BY <1>1, <1>5 DEF FetchPage, ReadRow
    <2>3. page \in SUBSET Contacts /\ \A c \in Rows : c \in page <=>
              Place(c) >= read.offset /\ Place(c) < read.offset + PageSize
        BY <1>1, <1>3, <2>1 DEF Page
    <2>4. /\ read.start \subseteq Rows
          /\ \A c \in read.start : c \in read.got \/ Place(c) >= read.offset
        BY <2>1 DEF ReadInv
    <2>5. Cardinality(page) < PageSize => \A c \in Rows : Place(c) >= read.offset => c \in page
        BY <2>1, ShortPageIsLast
    <2>6. next \in Nat \cup {-1, -2}
        BY <2>1
    <2>7. next = -2 \/ next = read.offset + PageSize
        OBVIOUS
    <2>8. next = -2 => Cardinality(page) < PageSize
        BY <2>1
    <2> HIDE DEF page, next
    <2>9. read' \in ReadRow /\ read'.got = read.got \cup page /\ read'.offset = next
          /\ read'.start = read.start
        BY <1>1, <2>2, <2>3, <2>6 DEF ReadRow
    <2>10. CASE next = -2
        <3>1. read.start \subseteq read.got \cup page
            BY <2>4, <2>5, <2>8, <2>10
        <3>. QED
            BY <2>9, <2>10, <3>1 DEF ReadInv
    <2>11. CASE next = read.offset + PageSize
        <3>1. ASSUME NEW c \in read.start, c \notin read.got \cup page
              PROVE  Place(c)' >= next
            <4>1. c \in Rows /\ Place(c) >= read.offset /\ Place(c) \in Nat
                BY <1>3, <2>4, <3>1
            <4>2. Place(c) >= read.offset + PageSize
                BY <2>1, <2>3, <3>1, <4>1
            <4>. QED
                BY <1>3, <2>11, <4>1, <4>2
        <3>2. next # -2
            BY <2>1, <2>11
        <3>. QED
            BY <1>2, <2>4, <2>9, <3>1, <3>2 DEF ReadInv
    <2>. QED
        BY <2>7, <2>10, <2>11
<1>. QED
    BY <1>4, <1>5

LEMMA IdsStep ==
  ASSUME OInv, IdInv, [ONext]_ovars
  PROVE  IdsStay /\ IdInv'
<1>1. CASE outreach' = outreach
    BY <1>1 DEF IdsStay, IdInv, Rows
<1>2. ASSUME NEW c \in Contacts, Update(c) PROVE IdsStay /\ IdInv'
    <2>1. outreach' = [outreach EXCEPT ![c] = buildPayload(outreach[c], c)]
        BY <1>2 DEF Update
    <2>2. Rows' = Rows
        BY <2>1 DEF Rows
    <2>3. ASSUME NEW d \in Rows PROVE outreach'[d].id = outreach[d].id
        <3>1. outreach[d] \in OutreachRow
            BY DEF OInv, OutreachTypeOK
        <3>2. CASE d = c
            <4>1. outreach'[d] = [outreach[d] EXCEPT !.cadence = import.sheet[c]]
                BY <2>1, <3>2 DEF buildPayload, OInv, OutreachTypeOK
            <4>. QED
                BY <3>1, <4>1 DEF OutreachRow
        <3>3. CASE d # c
            BY <2>1, <3>3 DEF OInv, OutreachTypeOK
        <3>. QED
            BY <3>2, <3>3
    <2>. QED
        BY <2>2, <2>3 DEF IdsStay, IdInv
<1>3. ASSUME NEW c \in Contacts, Insert(c) PROVE IdsStay /\ IdInv'
    <2>1. c \notin Rows
        BY <1>3 DEF Insert, OInv, SearchInv
    <2>2. PICK id \in Ids \ {outreach[d].id : d \in Rows} :
              outreach' = [d \in Rows \cup {c} |-> IF d = c THEN NewRow(c, id) ELSE outreach[d]]
        BY <1>3 DEF Insert
    <2>3. Rows' = Rows \cup {c} /\ \A d \in Rows : outreach'[d] = outreach[d]
        BY <2>1, <2>2 DEF Rows
    <2>4. outreach'[c].id = id /\ \A d \in Rows : outreach[d].id # id
        BY <2>2 DEF NewRow
    <2>. QED
        BY <2>3, <2>4 DEF IdsStay, IdInv
<1>4. ASSUME NEW i \in DOMAIN clicks, OptOut(i) PROVE IdsStay /\ IdInv'
    <2>1. outreach' = [c \in Rows |->
             IF EmailOf[c] = clicks[i].email /\ outreach[c].optedOut = 0
             THEN [outreach[c] EXCEPT !.optedOut = i] ELSE outreach[c]]
        BY <1>4 DEF OptOut
    <2>2. Rows' = Rows
        BY <2>1 DEF Rows
    <2>3. ASSUME NEW c \in Rows PROVE outreach'[c].id = outreach[c].id
        <3>1. outreach[c] \in OutreachRow
            BY DEF OInv, OutreachTypeOK
        <3>2. [outreach[c] EXCEPT !.optedOut = i].id = outreach[c].id
            BY <3>1 DEF OutreachRow
        <3>. QED
            BY <2>1, <3>2
    <2>. QED
        BY <2>2, <2>3 DEF IdsStay, IdInv
<1>. QED
    BY <1>1, <1>2, <1>3, <1>4
    DEF ONext, ovars, Edit, StartImport, EndImport, Find, Click, Suppress, ClickFails,
        StartRead, FetchPage

LEMMA ReadKept ==
  ASSUME [ONext]_ovars
  PROVE  read' = read \/ StartRead \/ FetchPage
BY DEF ONext, ovars, Edit, StartImport, EndImport, Find, Update, Insert, Click, Suppress,
       OptOut, ClickFails

\* The inductive invariant of the table and the dashboard's read of it.
THEOREM PagesInvariance == OSpec => []PagesInv
<1>1. OInit => PagesInv
    <2> SUFFICES ASSUME OInit PROVE PagesInv
        OBVIOUS
    <2>1. Rows = {}
        BY DEF OInit, Rows
    <2>2. read = [offset |-> -1, got |-> {}, start |-> {}]
        BY DEF OInit, NoRead
    <2>3. ReadInv
        BY <2>2 DEF ReadInv, ReadRow
    <2>. QED
        BY <2>1, <2>3, OutreachInit DEF PagesInv, IdInv
<1>2. PagesInv /\ [ONext]_ovars => PagesInv'
    <2> SUFFICES ASSUME PagesInv, [ONext]_ovars PROVE PagesInv'
        OBVIOUS
    <2>1. OInv /\ IdInv /\ ReadInv
        BY DEF PagesInv
    <2>2. OInv'
        BY <2>1, OutreachStep
    <2>3. IdsStay /\ IdInv'
        BY <2>1, IdsStep
    <2>4. ReadInv'
        BY <2>1, <2>2, <2>3, ReadRests, ReadSteps, ReadKept
    <2>. QED
        BY <2>2, <2>3, <2>4 DEF PagesInv
<1>. QED
    BY <1>1, <1>2, PTL DEF OSpec

\* "Ordered by id so the pages do not overlap or skip" (analytics.ts:109): no
\* row of the start is missing at the end, for any pages, inserts and updates.
THEOREM NoRowIsEverSkipped == OSpec => []NoRowIsSkipped
<1>1. PagesInv => NoRowIsSkipped
    BY DEF PagesInv, ReadInv, NoRowIsSkipped
<1>. QED
    BY <1>1, PagesInvariance, PTL
=============================================================================
