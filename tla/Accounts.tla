------------------------------ MODULE Accounts ------------------------------
(***************************************************************************)
(* One client organization with its logins: what its owner does in the     *)
(* Team panel (users.ts) and what CTF does from the console (platform.ts), *)
(* with the sessions both of them end.  Handlers read rows, decide, and    *)
(* write; several run at once, each statement or batch of statements an    *)
(* action.                                                                 *)
(*                                                                         *)
(* A login stands for its address.  Who may use the console (ctf_admin,    *)
(* authenticator, step-up) and the terms are taken as given.               *)
(***************************************************************************)
EXTENDS Integers, FiniteSets

CONSTANTS
    Login,      \* the logins there may be in this organization
    Founder,    \* the owner that signed up
    Slot,       \* requests being handled at once
    None,       \* NULL, and what a handler has not read
    Seats       \* MAX_MEMBERS_PER_ORG

VARIABLES
    org,        \* its row in organizations
    user,       \* table users: a row for each login, or None
    barred,     \* table blocked_emails
    session,    \* logins with a row in sessions
    request,    \* what the handler of each slot is doing and has read
    lost,       \* history: rows written after they changed under the handler
    late        \* history: logins whose session outlived their sign-out

history == <<lost, late>>
vars    == <<org, user, barred, session, request, history>>

Role == {"owner", "staff"}

Row == [role : Role, disabled : BOOLEAN, hold : {None, "disabled", "blocked"}]

OrgRow == [status : {"pending", "active", "suspended"}, blocked : BOOLEAN]

TeamKind    == {"update", "reset", "create"}
OrgKind     == {"activate", "suspend", "blockOrg"}
AccountKind == {"disable", "enable", "block"}
Kind        == TeamKind \cup OrgKind \cup AccountKind \cup {"signIn"}

ASSUME AccountsAssumption ==
    /\ IsFiniteSet(Login)
    /\ Founder \in Login
    /\ Seats \in Nat \ {0}
    /\ None \notin Login \cup Role \cup Kind \cup {"disabled", "blocked"}
    /\ None \notin Row \cup OrgRow
    /\ Login \cap {"org", "owners"} = {}

Idle ==
    [at |-> "idle", kind |-> None, target |-> None, row |-> None, org |-> None,
     some |-> {}, role |-> None, disabled |-> FALSE]

Request ==
    [at       : {"idle", "count", "write", "signOut"},
     kind     : Kind \cup {None},
     target   : Login \cup {None},
     row      : Row \cup {None},       \* the row of target as it was read
     org      : OrgRow \cup {None},    \* the organization as it was read
     some     : SUBSET Login,          \* the owners counted, the members listed
     role     : Role \cup {None},      \* role and disabled as they will be
     disabled : BOOLEAN]

TypeOK ==
    /\ org \in OrgRow
    /\ user \in [Login -> Row \cup {None}]
    /\ barred \subseteq Login
    /\ session \subseteq Login
    /\ request \in [Slot -> Request]
    /\ \A r \in Slot : request[r].at = "idle" => request[r] = Idle
    /\ lost \subseteq Login \cup {"org", "owners"}
    /\ late \subseteq session

Init ==
    /\ org = [status |-> "pending", blocked |-> FALSE]
    /\ user = [u \in Login |-> IF u = Founder
                 THEN [role |-> "owner", disabled |-> FALSE, hold |-> None] ELSE None]
    /\ barred = {}
    /\ session = {}
    /\ request = [r \in Slot |-> Idle]
    /\ lost = {}
    /\ late = {}

-----------------------------------------------------------------------------

Member == {u \in Login : user[u] # None}

ActiveOwner == {u \in Member : user[u].role = "owner" /\ ~user[u].disabled}

\* requireAuth and the gates of handleApi, then requirePermission 'users:manage'.
MayManage(a) ==
    /\ a \in session \cap ActiveOwner
    /\ org.status = "active"

Begin(r, q) ==
    /\ request[r] = Idle
    /\ request' = [request EXCEPT ![r] = q]
    /\ UNCHANGED <<org, user, barred, session, history>>

Goto(r, at) ==
    request' = [request EXCEPT ![r] = IF at = "idle" THEN Idle ELSE [@ EXCEPT !.at = at]]

At(r, kind, at) == request[r].kind = kind /\ request[r].at = at

SignOut(us) == session' = session \ us /\ late' = late \ us

-----------------------------------------------------------------------------
(* The Team panel                                                          *)

\* Mutant: without the check of platform_hold.
BeginUpdateHeld(r, a, t, role, disabled) ==
    /\ MayManage(a)
    /\ t \in Member
    /\ a = t => ~disabled /\ role = "owner"
    /\ Begin(r, [Idle EXCEPT
           !.at = IF user[t].role = "owner" /\ (role # "owner" \/ disabled)
                  THEN "count" ELSE "write",
           !.kind = "update", !.target = t, !.row = user[t],
           !.role = role, !.disabled = disabled])

(* handleUpdateTeamMember up to its count of owners.  Whatever the body    *)
(* leaves out is filled from the row read here and written back with it.   *)
BeginUpdate(r, a, t, role, disabled) ==
    /\ MayManage(a)
    /\ t \in Member
    /\ user[t].hold = None
    /\ a = t => ~disabled /\ role = "owner"
    /\ Begin(r, [Idle EXCEPT
           !.at = IF user[t].role = "owner" /\ (role # "owner" \/ disabled)
                  THEN "count" ELSE "write",
           !.kind = "update", !.target = t, !.row = user[t],
           !.role = role, !.disabled = disabled])

\* Mutant: refused when no owner is left rather than one.
CountNoOwners(r) ==
    /\ At(r, "update", "count")
    /\ request' = [request EXCEPT ![r] =
           IF Cardinality(ActiveOwner) < 1 THEN Idle
           ELSE [@ EXCEPT !.at = "write", !.some = ActiveOwner]]
    /\ UNCHANGED <<org, user, barred, session, history>>

CountOwners(r) ==
    /\ At(r, "update", "count")
    /\ request' = [request EXCEPT ![r] =
           IF Cardinality(ActiveOwner) <= 1 THEN Idle
           ELSE [@ EXCEPT !.at = "write", !.some = ActiveOwner]]
    /\ UNCHANGED <<org, user, barred, session, history>>

(* The row changed since it was read; the owners changed since the count.  *)
Overtaken(r) ==
    LET q == request[r] IN
    {u \in {q.target} : user[u] # q.row}
        \cup {x \in {"owners"} : q.some # {} /\ q.some # ActiveOwner}

WriteUpdate(r) ==
    LET q == request[r] IN
    /\ At(r, "update", "write")
    /\ user' = [user EXCEPT ![q.target] =
                   [@ EXCEPT !.role = q.role, !.disabled = q.disabled]]
    /\ lost' = lost \cup Overtaken(r)
    /\ late' = IF q.disabled /\ q.row.disabled
               THEN late \cup ({q.target} \cap session) ELSE late
    /\ Goto(r, IF q.disabled /\ ~q.row.disabled THEN "signOut" ELSE "idle")
    /\ UNCHANGED <<org, barred, session>>

\* The sessions go in a statement of their own.
SignOutMember(r) ==
    /\ At(r, "update", "signOut")
    /\ SignOut({request[r].target})
    /\ Goto(r, "idle")
    /\ UNCHANGED <<org, user, barred, lost>>

BeginReset(r, a, t) ==
    /\ MayManage(a)
    /\ t \in Member
    /\ user[t].hold = None
    /\ Begin(r, [Idle EXCEPT !.at = "write", !.kind = "reset", !.target = t])

\* The new password is not modelled, the end of the old one's sessions is.
WriteReset(r) ==
    /\ At(r, "reset", "write")
    /\ SignOut({request[r].target})
    /\ Goto(r, "idle")
    /\ UNCHANGED <<org, user, barred, lost>>

(* handleCreateTeamMember: isBlockedEmail, then the address and the seats, *)
(* then the INSERT, which fails for an address that is taken.              *)
BeginCreate(r, a, u, role) ==
    /\ MayManage(a)
    /\ u \notin barred
    /\ Begin(r, [Idle EXCEPT !.at = "count", !.kind = "create", !.target = u,
                             !.org = org, !.role = role])

CountSeats(r) ==
    /\ At(r, "create", "count")
    /\ Goto(r, IF request[r].target \in Member \/ Cardinality(Member) >= Seats
               THEN "idle" ELSE "write")
    /\ UNCHANGED <<org, user, barred, session, history>>

Insert(r) ==
    LET q == request[r] IN
    /\ At(r, "create", "write")
    /\ IF q.target \in Member THEN UNCHANGED <<user, lost>>
       ELSE /\ user' = [user EXCEPT ![q.target] =
                          [role |-> q.role, disabled |-> FALSE, hold |-> None]]
            /\ lost' = lost \cup {u \in {q.target} : org # q.org \/ u \in barred}
    /\ Goto(r, "idle")
    /\ UNCHANGED <<org, barred, session, late>>

-----------------------------------------------------------------------------
(* The console                                                             *)

BeginOrgAction(r, kind) ==
    /\ ~org.blocked
    /\ kind = "activate" => org.status # "active"
    /\ kind = "suspend" => org.status # "suspended"
    /\ Begin(r, [Idle EXCEPT !.at = IF kind = "blockOrg" THEN "count" ELSE "write",
                             !.kind = kind, !.org = org])

\* The addresses of everybody, read before the batch that bars them.
ListMembers(r) ==
    /\ At(r, "blockOrg", "count")
    /\ request' = [request EXCEPT ![r].at = "write", ![r].some = Member]
    /\ UNCHANGED <<org, user, barred, session, history>>

OrgOvertaken(r) == {x \in {"org"} : org # request[r].org}

Activate(r) ==
    /\ At(r, "activate", "write")
    /\ org' = [org EXCEPT !.status = "active"]
    /\ lost' = lost \cup OrgOvertaken(r)
    /\ Goto(r, "idle")
    /\ UNCHANGED <<user, barred, session, late>>

Suspend(r) ==
    /\ At(r, "suspend", "write")
    /\ org' = [org EXCEPT !.status = "suspended"]
    /\ SignOut(Member)
    /\ lost' = lost \cup OrgOvertaken(r)
    /\ Goto(r, "idle")
    /\ UNCHANGED <<user, barred>>

BlockOrg(r) ==
    /\ At(r, "blockOrg", "write")
    /\ org' = [status |-> "suspended", blocked |-> TRUE]
    /\ user' = [u \in Login |-> IF u \in Member
                  THEN [user[u] EXCEPT !.disabled = TRUE, !.hold = "blocked"] ELSE None]
    /\ barred' = barred \cup request[r].some
    /\ SignOut(Member)
    /\ lost' = lost \cup OrgOvertaken(r) \cup (Member \ request[r].some)
    /\ Goto(r, "idle")

BeginAccountAction(r, kind, t) ==
    /\ t \in Member
    /\ user[t].hold # "blocked"
    /\ kind = "disable" => user[t].hold # "disabled"
    /\ kind = "enable" => user[t].hold = "disabled"
    /\ Begin(r, [Idle EXCEPT !.at = "write", !.kind = kind, !.target = t, !.row = user[t]])

\* Mutant: the hold without users.disabled = 1.
HeldOnly(u, hold) == [user EXCEPT ![u] = [@ EXCEPT !.hold = hold]]

Held(u, hold) == [user EXCEPT ![u] = [@ EXCEPT !.disabled = TRUE, !.hold = hold]]

\* Mutant: without revokeSessions.
DisableOnly(r) ==
    LET q == request[r] IN
    /\ At(r, "disable", "write")
    /\ user' = Held(q.target, "disabled")
    /\ lost' = lost \cup Overtaken(r)
    /\ Goto(r, "idle")
    /\ UNCHANGED <<org, barred, session, late>>

Disable(r) ==
    LET q == request[r] IN
    /\ At(r, "disable", "write")
    /\ user' = Held(q.target, "disabled")
    /\ SignOut({q.target})
    /\ lost' = lost \cup Overtaken(r)
    /\ Goto(r, "idle")
    /\ UNCHANGED <<org, barred>>

Enable(r) ==
    LET q == request[r] IN
    /\ At(r, "enable", "write")
    /\ user' = [user EXCEPT ![q.target] = [@ EXCEPT !.disabled = FALSE, !.hold = None]]
    /\ lost' = lost \cup Overtaken(r)
    /\ Goto(r, "idle")
    /\ UNCHANGED <<org, barred, session, late>>

\* Mutant: without the INSERT INTO blocked_emails.
BlockUnbarred(r) ==
    LET q == request[r] IN
    /\ At(r, "block", "write")
    /\ user' = Held(q.target, "blocked")
    /\ SignOut({q.target})
    /\ lost' = lost \cup Overtaken(r)
    /\ Goto(r, "idle")
    /\ UNCHANGED <<org, barred>>

Block(r) ==
    LET q == request[r] IN
    /\ At(r, "block", "write")
    /\ user' = Held(q.target, "blocked")
    /\ barred' = barred \cup {q.target}
    /\ SignOut({q.target})
    /\ lost' = lost \cup Overtaken(r)
    /\ Goto(r, "idle")
    /\ UNCHANGED org

-----------------------------------------------------------------------------
(* Sessions, and handlers that die                                         *)

\* handleLogin, the Google callback and the second factor: read, later open.
BeginSignIn(r, u) ==
    /\ u \in Member
    /\ ~user[u].disabled
    /\ Begin(r, [Idle EXCEPT !.at = "write", !.kind = "signIn", !.target = u])

OpenSession(r) ==
    LET u == request[r].target IN
    /\ At(r, "signIn", "write")
    /\ session' = session \cup {u}
    /\ late' = IF user[u].disabled THEN late \cup {u} ELSE late
    /\ Goto(r, "idle")
    /\ UNCHANGED <<org, user, barred, lost>>

\* requireAuth meets a login that is disabled; handleLogout; a session expires.
EndSession(u) ==
    /\ u \in session
    /\ SignOut({u})
    /\ UNCHANGED <<org, user, barred, request, lost>>

\* Any statement may throw; what came before it stays.
HandlerDies(r) ==
    LET q == request[r] IN
    /\ q # Idle
    /\ late' = IF q.at = "signOut" THEN late \cup ({q.target} \cap session) ELSE late
    /\ Goto(r, "idle")
    /\ UNCHANGED <<org, user, barred, session, lost>>

Next ==
    \/ \E r \in Slot, a, t \in Login :
          \/ \E role \in Role, disabled \in BOOLEAN : BeginUpdate(r, a, t, role, disabled)
          \/ BeginReset(r, a, t)
          \/ \E role \in Role : BeginCreate(r, a, t, role)
    \/ \E r \in Slot :
          \/ CountOwners(r) \/ WriteUpdate(r) \/ SignOutMember(r) \/ WriteReset(r)
          \/ CountSeats(r) \/ Insert(r)
          \/ \E kind \in OrgKind : BeginOrgAction(r, kind)
          \/ ListMembers(r) \/ Activate(r) \/ Suspend(r) \/ BlockOrg(r)
          \/ \E kind \in AccountKind, t \in Login : BeginAccountAction(r, kind, t)
          \/ Disable(r) \/ Enable(r) \/ Block(r)
          \/ \E u \in Login : BeginSignIn(r, u)
          \/ OpenSession(r) \/ HandlerDies(r)
    \/ \E u \in Login : EndSession(u)

Spec == Init /\ [][Next]_vars

-----------------------------------------------------------------------------
(***************************************************************************)
(* Properties.  No handler writes on condition that what it has read still *)
(* holds, so two that overlap can lose an update.  lost names the rows to  *)
(* which that has happened; about every other row, whatever the order of   *)
(* the statements and whichever handler died, the following holds.         *)
(***************************************************************************)

(* "users.disabled = 1 is set alongside" a hold (0006_admin_console.sql:22)*)
(* and "A blocked organization keeps status = 'suspended'" (line 14): what *)
(* the sign-in gates look at agrees with what CTF decided, and a block of  *)
(* the organization reaches all its logins, those added meanwhile too.     *)
Enforced ==
    /\ \A u \in Member \ lost : user[u].hold # None => user[u].disabled
    /\ org.blocked /\ "org" \notin lost =>
          /\ org.status = "suspended"
          /\ \A u \in Member \ lost : user[u].hold = "blocked"

(* "every address the organization used is barred from signing up again"   *)
(* (platform.ts:442): a blocked login's address is in blocked_emails.      *)
BlockedAreBarred ==
    \A u \in Member \ lost : user[u].hold = "blocked" => u \in barred

(* "A block cannot be undone from the console" (platform.ts:466, 582), nor *)
(* from the Team panel (users.ts:186-195).                                 *)
BlockIsPermanent ==
    [][/\ org.blocked => org'.blocked
       /\ \A u \in Member \ lost' :
             user[u].hold = "blocked" => user'[u] = user[u]]_vars

(* "This business must keep at least one active owner." (users.ts:277):    *)
(* the last one goes by a decision of CTF, or because the owners changed   *)
(* between the count and the write.                                        *)
KeepsAnOwner ==
    [][ActiveOwner # {} /\ ActiveOwner' = {} =>
          \/ "owners" \in lost' \/ ActiveOwner \cap lost' # {}
          \/ \E u \in ActiveOwner : user'[u].hold # None]_vars

(* "Disabling must take effect immediately" (users.ts:288): a disabled     *)
(* login has no session left, except while its handler is about to delete  *)
(* it, or died before it could, or when a sign-in was under way.  (Those   *)
(* are refused and deleted by requireAuth.)                                *)
SignedOut ==
    \A u \in session \ late :
        user[u].disabled =>
            \E r \in Slot : At(r, "update", "signOut") /\ request[r].target = u
=============================================================================
