--------------------------- MODULE AccountsProofs ---------------------------
(***************************************************************************)
(* Proofs about Accounts, for any logins, any number of requests at once   *)
(* and any number of seats.                                                *)
(***************************************************************************)
EXTENDS Accounts, FiniteSetTheorems, TLAPS

USE AccountsAssumption

(***************************************************************************)
(* What a handler has read is what its checks let through: an update holds *)
(* a row without a hold, an action on a login one that is not blocked, an  *)
(* action on the organization one that is not blocked, a new login an      *)
(* active organization.                                                    *)
(***************************************************************************)
RowKind == {"update"} \cup AccountKind

Good(q) ==
    /\ q.kind \in RowKind \cup {"reset", "create", "signIn"} => q.target \in Login
    /\ q.kind \in RowKind => q.row \in Row /\ q.row.hold # "blocked"
    /\ q.kind = "update" => q.row.hold = None /\ q.role \in Role
    /\ q.kind = "create" => q.org \in OrgRow /\ q.org.status = "active" /\ q.role \in Role
    /\ q.kind \in OrgKind => q.org \in OrgRow /\ ~q.org.blocked

RequestInv ==
    \A r \in Slot :
        /\ Good(request[r])
        /\ request[r].kind \in RowKind => request[r].target \in Member

IInv == TypeOK /\ RequestInv /\ Enforced /\ BlockedAreBarred /\ SignedOut

RowsStay == \A u \in Login : user[u] # None => user'[u] # None

LEMMA IdleIsGood ==
    /\ Idle \in Request /\ Good(Idle)
    /\ Idle.at = "idle" /\ Idle.kind \notin RowKind
BY DEF Idle, Request, Good, Kind, TeamKind, OrgKind, AccountKind, RowKind

LEMMA InitIInv == Init => IInv
<1> SUFFICES ASSUME Init PROVE IInv
    OBVIOUS
<1>1. user[Founder] \in Row /\ user[Founder].hold = None /\ ~user[Founder].disabled
    BY DEF Init, Row, Role
<1>2. Member = {Founder}
    <2>1. None \notin Row
        BY <1>1 DEF Init, Row, Role
    <2>. QED
        BY <1>1, <2>1 DEF Init, Member
<1>3. TypeOK
    <2>1. user \in [Login -> Row \cup {None}]
        BY DEF Init, Row, Role
    <2>. QED
        BY <2>1, IdleIsGood DEF Init, TypeOK, OrgRow
<1>4. RequestInv
    BY IdleIsGood DEF Init, RequestInv
<1>5. Enforced /\ BlockedAreBarred
    BY <1>1, <1>2 DEF Init, Enforced, BlockedAreBarred
<1>6. SignedOut
    BY DEF Init, SignedOut
<1>. QED
    BY <1>3, <1>4, <1>5, <1>6 DEF IInv

-----------------------------------------------------------------------------
(* What the actions have in common                                         *)

(* A handler that has started, or goes on with what it has read.           *)
LEMMA RequestStep ==
    ASSUME TypeOK, RequestInv, RowsStay,
           NEW r \in Slot, NEW q \in Request, Good(q),
           q.at = "idle" => q = Idle,
           q.kind \in RowKind => q.target \in Member,
           request' = [request EXCEPT ![r] = q]
    PROVE  /\ request' \in [Slot -> Request]
           /\ \A s \in Slot : request'[s].at = "idle" => request'[s] = Idle
           /\ RequestInv'
<1>1. request' \in [Slot -> Request] /\ request'[r] = q
    BY DEF TypeOK
<1>2. \A s \in Slot \ {r} : request'[s] = request[s]
    BY DEF TypeOK
<1>3. \A u \in Member : u \in Member'
    BY DEF RowsStay, Member
<1>4. \A s \in Slot : /\ Good(request'[s])
                      /\ request'[s].kind \in RowKind => request'[s].target \in Member'
    BY <1>1, <1>2, <1>3 DEF RequestInv
<1>. QED
    BY <1>1, <1>2, <1>4 DEF TypeOK, RequestInv

LEMMA GotoStep ==
    ASSUME TypeOK, RequestInv, RowsStay,
           NEW r \in Slot, NEW at \in {"idle", "write", "signOut"}, Goto(r, at)
    PROVE  /\ request' \in [Slot -> Request]
           /\ \A s \in Slot : request'[s].at = "idle" => request'[s] = Idle
           /\ RequestInv'
<1>1. CASE at = "idle"
    <2>1. request' = [request EXCEPT ![r] = Idle]
        BY <1>1 DEF Goto
    <2>. QED
        BY <2>1, IdleIsGood, RequestStep
<1>2. CASE at # "idle"
    <2> DEFINE q == [request[r] EXCEPT !.at = at]
    <2>1. request[r] \in Request
        BY DEF TypeOK
    <2>2. q \in Request /\ q.at = at
        BY <2>1, <1>2 DEF Request
    <2>3. /\ q.kind = request[r].kind /\ q.target = request[r].target
          /\ q.row = request[r].row /\ q.org = request[r].org /\ q.role = request[r].role
        BY <2>1 DEF Request
    <2>4. Good(q) /\ (q.kind \in RowKind => q.target \in Member)
        BY <2>3 DEF RequestInv, Good
    <2>5. request' = [request EXCEPT ![r] = q]
        BY <1>2 DEF Goto, TypeOK
    <2> HIDE DEF q
    <2>. QED
        BY <1>2, <2>2, <2>4, <2>5, RequestStep
<1>. QED
    BY <1>1, <1>2

(* One row of users is written, with what the tables then have to say      *)
(* about it unless the write is among the lost ones.                       *)
LEMMA RowStep ==
    ASSUME IInv, NEW t \in Login, NEW w \in Row,
           user' = [user EXCEPT ![t] = w],
           org' = org, barred \subseteq barred', lost \subseteq lost',
           t \notin lost' =>
               /\ w.hold # None => w.disabled
               /\ org.blocked /\ "org" \notin lost' => w.hold = "blocked"
               /\ w.hold = "blocked" => t \in barred'
    PROVE  /\ user' \in [Login -> Row \cup {None}] /\ user'[t] = w
           /\ \A u \in Login \ {t} : user'[u] = user[u]
           /\ RowsStay /\ Enforced' /\ BlockedAreBarred'
<1>1. user' \in [Login -> Row \cup {None}] /\ user'[t] = w
    BY DEF IInv, TypeOK
<1>2. \A u \in Login \ {t} : user'[u] = user[u]
    BY DEF IInv, TypeOK
<1>3. RowsStay
    BY <1>1, <1>2 DEF RowsStay
<1>4. \A u \in Member' \ {t} : u \in Member
    BY <1>2 DEF Member
<1>5. Enforced'
    <2>1. \A u \in Member' \ lost' : user'[u].hold # None => user'[u].disabled
        BY <1>1, <1>2, <1>4 DEF IInv, Enforced, Member
    <2>2. ASSUME org.blocked, "org" \notin lost'
          PROVE  /\ org.status = "suspended"
                 /\ \A u \in Member' \ lost' : user'[u].hold = "blocked"
        BY <2>2, <1>1, <1>2, <1>4 DEF IInv, Enforced, Member
    <2>. QED
        BY <2>1, <2>2 DEF Enforced
<1>6. BlockedAreBarred'
    BY <1>1, <1>2, <1>4 DEF IInv, BlockedAreBarred, Member
<1>. QED
    BY <1>1, <1>2, <1>3, <1>5, <1>6

(* A login with a session is disabled only if it was, and its handler has  *)
(* not yet come to its sessions, or the handler of r is about to.          *)
LEMMA SignedOutStep ==
    ASSUME IInv, NEW r \in Slot,
           \A s \in Slot \ {r} : request'[s] = request[s],
           \A u \in session' \ late' : user'[u].disabled =>
               \/ /\ u \in session \ late /\ user[u].disabled
                  /\ ~(At(r, "update", "signOut") /\ request[r].target = u)
               \/ /\ request'[r].kind = "update" /\ request'[r].at = "signOut"
                  /\ request'[r].target = u
    PROVE  SignedOut'
<1> SUFFICES ASSUME NEW u \in session' \ late', user'[u].disabled
             PROVE  \E s \in Slot : /\ request'[s].kind = "update" /\ request'[s].at = "signOut"
                                   /\ request'[s].target = u
    BY DEF SignedOut, At
<1>1. CASE /\ request'[r].kind = "update" /\ request'[r].at = "signOut"
           /\ request'[r].target = u
    BY <1>1
<1>2. CASE /\ u \in session \ late /\ user[u].disabled
           /\ ~(At(r, "update", "signOut") /\ request[r].target = u)
    <2>1. PICK s \in Slot : At(s, "update", "signOut") /\ request[s].target = u
        BY <1>2 DEF IInv, SignedOut
    <2>2. s # r
        BY <1>2, <2>1
    <2>. QED
        BY <2>1, <2>2 DEF At
<1>. QED
    BY <1>1, <1>2

(* A step that leaves the tables alone: one handler starts, goes on or     *)
(* ends, and it was not about to delete a session.                         *)
LEMMA TablesStay ==
    ASSUME IInv, NEW r \in Slot,
           UNCHANGED <<org, user, barred, session, history>>,
           request[r].at # "signOut",
           request' \in [Slot -> Request],
           \A s \in Slot : request'[s].at = "idle" => request'[s] = Idle,
           \A s \in Slot \ {r} : request'[s] = request[s],
           RequestInv'
    PROVE  IInv'
<1>1. TypeOK'
    BY DEF IInv, TypeOK, history
<1>2. Enforced' /\ BlockedAreBarred'
    BY DEF IInv, Enforced, BlockedAreBarred, Member, history
<1>3. SignedOut'
    BY SignedOutStep DEF At, history
<1>. QED
    BY <1>1, <1>2, <1>3 DEF IInv

LEMMA BeginStep ==
    ASSUME IInv, NEW r \in Slot, NEW q \in Request, Begin(r, q), Good(q),
           q.at # "idle", q.kind \in RowKind => q.target \in Member
    PROVE  IInv'
<1>1. RowsStay
    BY DEF Begin, RowsStay
<1>2. request' = [request EXCEPT ![r] = q] /\ request[r].at # "signOut"
    BY IdleIsGood DEF Begin
<1>3. \A s \in Slot \ {r} : request'[s] = request[s]
    BY <1>2 DEF IInv, TypeOK
<1>. QED
    BY <1>1, <1>2, <1>3, RequestStep, TablesStay DEF IInv, Begin

LEMMA BeginActions ==
    ASSUME IInv, NEW r \in Slot, NEW a \in Login, NEW t \in Login
    PROVE  /\ \A role \in Role, disabled \in BOOLEAN :
                  BeginUpdate(r, a, t, role, disabled) => IInv'
           /\ BeginReset(r, a, t) => IInv'
           /\ \A role \in Role : BeginCreate(r, a, t, role) => IInv'
           /\ \A kind \in OrgKind : BeginOrgAction(r, kind) => IInv'
           /\ \A kind \in AccountKind : BeginAccountAction(r, kind, t) => IInv'
           /\ BeginSignIn(r, t) => IInv'
<1> USE DEF RowKind, TeamKind, OrgKind, AccountKind, Kind
<1>0. /\ t \in Member => user[t] \in Row
      /\ org \in OrgRow
    BY DEF IInv, TypeOK, Member
<1>1. ASSUME NEW role \in Role, NEW disabled \in BOOLEAN,
             BeginUpdate(r, a, t, role, disabled)
      PROVE  IInv'
    <2>1. t \in Member /\ user[t] \in Row /\ user[t].hold = None
        BY <1>0, <1>1 DEF BeginUpdate
    <2>2. PICK at \in {"count", "write"} :
              Begin(r, [Idle EXCEPT !.at = at, !.kind = "update", !.target = t,
                                    !.row = user[t], !.role = role, !.disabled = disabled])
        BY <1>1 DEF BeginUpdate
    <2>. QED
        BY <2>1, <2>2, BeginStep DEF Idle, Request, Good
<1>2. ASSUME BeginReset(r, a, t)
      PROVE  IInv'
    BY <1>2, BeginStep DEF BeginReset, Idle, Request, Good
<1>3. ASSUME NEW role \in Role, BeginCreate(r, a, t, role)
      PROVE  IInv'
    BY <1>0, <1>3, BeginStep DEF BeginCreate, MayManage, Idle, Request, Good
<1>4. ASSUME NEW kind \in OrgKind, BeginOrgAction(r, kind)
      PROVE  IInv'
    <2>1. PICK at \in {"count", "write"} :
              Begin(r, [Idle EXCEPT !.at = at, !.kind = kind, !.org = org])
        BY <1>4 DEF BeginOrgAction
    <2>. QED
        BY <1>0, <1>4, <2>1, BeginStep DEF BeginOrgAction, Idle, Request, Good
<1>5. ASSUME NEW kind \in AccountKind, BeginAccountAction(r, kind, t)
      PROVE  IInv'
    BY <1>0, <1>5, BeginStep DEF BeginAccountAction, Idle, Request, Good
<1>6. ASSUME BeginSignIn(r, t)
      PROVE  IInv'
    BY <1>6, BeginStep DEF BeginSignIn, Idle, Request, Good
<1>. QED
    BY <1>1, <1>2, <1>3, <1>4, <1>5, <1>6

-----------------------------------------------------------------------------
(* The actions that write                                                  *)

LEMMA AtFacts ==
    ASSUME IInv, NEW r \in Slot
    PROVE  /\ request[r] \in Request /\ Good(request[r])
           /\ request[r].kind \in RowKind =>
                 request[r].target \in Member /\ user[request[r].target] \in Row
BY DEF IInv, RequestInv, TypeOK, Member

LEMMA CountStep ==
    ASSUME IInv, NEW r \in Slot, CountOwners(r) \/ CountSeats(r) \/ ListMembers(r)
    PROVE  IInv'
<1>0. request[r].at = "count" /\ RowsStay /\ UNCHANGED <<org, user, barred, session, history>>
    BY DEF CountOwners, CountSeats, ListMembers, At, RowsStay
<1>1. PICK q : request' = [request EXCEPT ![r] = q]
    BY DEF CountOwners, CountSeats, ListMembers, Goto
<1>2. \A s \in Slot \ {r} : request'[s] = request[s]
    BY <1>1 DEF IInv, TypeOK
<1>3. /\ request' \in [Slot -> Request]
      /\ \A s \in Slot : request'[s].at = "idle" => request'[s] = Idle
      /\ RequestInv'
    <2>1. CASE CountSeats(r)
        BY <1>0, <2>1, GotoStep DEF IInv, CountSeats
    <2>2. ASSUME NEW some \in SUBSET Login,
                 request' = [request EXCEPT ![r] = [@ EXCEPT !.at = "write", !.some = some]]
          PROVE  <1>3
        <3> DEFINE new == [request[r] EXCEPT !.at = "write", !.some = some]
        <3>1. new \in Request /\ new.at = "write"
            BY AtFacts DEF Request
        <3>2. /\ new.kind = request[r].kind /\ new.target = request[r].target
              /\ new.row = request[r].row /\ new.org = request[r].org
              /\ new.role = request[r].role
            BY AtFacts DEF Request
        <3>3. Good(new) /\ (new.kind \in RowKind => new.target \in Member)
            BY <3>2, AtFacts DEF Good
        <3>4. request' = [request EXCEPT ![r] = new]
            BY <2>2 DEF IInv, TypeOK
        <3> HIDE DEF new
        <3>. QED
            BY <1>0, <3>1, <3>3, <3>4, RequestStep DEF IInv
    <2>3. CASE CountOwners(r)
        <3>1. CASE request' = [request EXCEPT ![r] = Idle]
            BY <1>0, <3>1, IdleIsGood, RequestStep DEF IInv
        <3>2. CASE request' # [request EXCEPT ![r] = Idle]
            <4>1. ActiveOwner \in SUBSET Login
                BY DEF ActiveOwner, Member
            <4>2. request' = [request EXCEPT ![r] =
                                 [@ EXCEPT !.at = "write", !.some = ActiveOwner]]
                BY <2>3, <3>2 DEF CountOwners
            <4>. QED
                BY <2>2, <4>1, <4>2
        <3>. QED
            BY <3>1, <3>2
    <2>4. CASE ListMembers(r)
        <3>1. Member \in SUBSET Login
            BY DEF Member
        <3>2. request' = [request EXCEPT ![r] = [@ EXCEPT !.at = "write", !.some = Member]]
            BY <2>4 DEF ListMembers, IInv, TypeOK
        <3>. QED
            BY <2>2, <3>1, <3>2
    <2>. QED
        BY <2>1, <2>3, <2>4
<1>. QED
    BY <1>0, <1>2, <1>3, TablesStay

LEMMA WriteUpdateStep ==
    ASSUME IInv, NEW r \in Slot, WriteUpdate(r)
    PROVE  IInv'
<1> DEFINE q == request[r]
           t == q.target
           w == [user[t] EXCEPT !.role = q.role, !.disabled = q.disabled]
<1>1. /\ q \in Request /\ t \in Member /\ t \in Login /\ user[t] \in Row
      /\ q.row \in Row /\ q.row.hold = None /\ q.role \in Role /\ q.disabled \in BOOLEAN
    BY AtFacts DEF WriteUpdate, At, Good, RowKind, Member, Request
<1>2. w \in Row /\ w.hold = user[t].hold /\ w.disabled = q.disabled
    BY <1>1 DEF Row
<1>3. user' = [user EXCEPT ![t] = w]
    BY <1>1 DEF WriteUpdate
<1>4. /\ UNCHANGED <<org, barred, session>> /\ lost' = lost \cup Overtaken(r)
      /\ late \subseteq late'
      /\ late' \subseteq late \cup ({t} \cap session)
    BY DEF WriteUpdate
<1>5. t \notin lost' => t \notin lost /\ user[t].hold = None
    BY <1>1, <1>4 DEF Overtaken
<1>6. t \notin lost' =>
          /\ w.hold # None => w.disabled
          /\ org.blocked /\ "org" \notin lost' => w.hold = "blocked"
          /\ w.hold = "blocked" => t \in barred'
    BY <1>1, <1>2, <1>4, <1>5 DEF IInv, Enforced
<1>7. /\ user' \in [Login -> Row \cup {None}] /\ user'[t] = w
      /\ \A u \in Login \ {t} : user'[u] = user[u]
      /\ RowsStay /\ Enforced' /\ BlockedAreBarred'
    <2> HIDE DEF t, w
    <2>. QED
        BY <1>1, <1>2, <1>3, <1>4, <1>6, RowStep
<1>8. /\ request' \in [Slot -> Request]
      /\ \A s \in Slot : request'[s].at = "idle" => request'[s] = Idle
      /\ RequestInv'
    <2>1. PICK at \in {"idle", "signOut"} : Goto(r, at)
        BY DEF WriteUpdate
    <2>. QED
        BY <1>7, <2>1, GotoStep DEF IInv
<1>9. TypeOK'
    <2>1. Overtaken(r) \subseteq Login \cup {"org", "owners"}
        BY <1>1 DEF Overtaken
    <2>. QED
        BY <1>1, <1>4, <1>7, <1>8, <2>1 DEF IInv, TypeOK
<1>10. SignedOut'
    <2>1. \A s \in Slot \ {r} : request'[s] = request[s]
        BY DEF WriteUpdate, Goto, IInv, TypeOK
    <2>2. q.at = "write" /\ q.kind = "update"
        BY DEF WriteUpdate, At
    <2>3. CASE q.disabled /\ ~q.row.disabled
        <3>1. /\ request'[r].kind = "update" /\ request'[r].at = "signOut"
              /\ request'[r].target = t
            BY <1>1, <2>2, <2>3 DEF WriteUpdate, Goto, IInv, TypeOK, Request
        <3>2. late' = late /\ session' = session
            BY <1>1, <1>4, <2>3 DEF WriteUpdate
        <3>. QED
            BY <1>7, <2>1, <2>2, <3>1, <3>2, SignedOutStep DEF IInv, TypeOK, At
    <2>4. CASE q.disabled /\ q.row.disabled
        <3>1. t \notin session' \ late'
            BY <1>4, <2>4 DEF WriteUpdate
        <3>. QED
            BY <1>4, <1>7, <2>1, <2>2, <3>1, SignedOutStep DEF IInv, TypeOK, At
    <2>5. CASE ~q.disabled
        <3>1. ~user'[t].disabled
            BY <1>2, <1>7, <2>5
        <3>. QED
            BY <1>4, <1>7, <2>1, <2>2, <3>1, SignedOutStep DEF IInv, TypeOK, At
    <2>. QED
        BY <2>3, <2>4, <2>5
<1>. QED
    BY <1>7, <1>8, <1>9, <1>10 DEF IInv

LEMMA InsertStep ==
    ASSUME IInv, NEW r \in Slot, Insert(r)
    PROVE  IInv'
<1> DEFINE q == request[r]
           t == q.target
           w == [role |-> q.role, disabled |-> FALSE, hold |-> None]
<1>1. /\ q.kind = "create" /\ q.at = "write" /\ t \in Login
      /\ q.org \in OrgRow /\ q.org.status = "active" /\ q.role \in Role
    BY AtFacts DEF Insert, At, Good
<1>2. Goto(r, "idle") /\ UNCHANGED <<org, barred, session, late>>
    BY DEF Insert
<1>3. \A s \in Slot \ {r} : request'[s] = request[s]
    BY <1>2 DEF Goto, IInv, TypeOK
<1>4. CASE t \in Member
    <2>1. UNCHANGED <<user, lost>> /\ RowsStay
        BY <1>4 DEF Insert, RowsStay
    <2>2. /\ request' \in [Slot -> Request]
          /\ \A s \in Slot : request'[s].at = "idle" => request'[s] = Idle
          /\ RequestInv'
        BY <1>2, <2>1, GotoStep DEF IInv
    <2>. QED
        BY <1>1, <1>2, <1>3, <2>1, <2>2, TablesStay DEF history
<1>5. CASE t \notin Member
    <2>1. /\ user' = [user EXCEPT ![t] = w]
          /\ lost' = lost \cup {u \in {t} : org # q.org \/ u \in barred}
        BY <1>5 DEF Insert
    <2>2. w \in Row /\ w.hold = None /\ ~w.disabled
        BY <1>1 DEF Row
    <2>3. t \notin lost' => ~(org.blocked /\ "org" \notin lost')
        BY <1>1, <2>1 DEF IInv, Enforced
    <2>4. /\ user' \in [Login -> Row \cup {None}] /\ user'[t] = w
          /\ \A u \in Login \ {t} : user'[u] = user[u]
          /\ RowsStay /\ Enforced' /\ BlockedAreBarred'
        <3>1. lost \subseteq lost' /\ barred \subseteq barred' /\ org' = org
            BY <1>2, <2>1
        <3>2. w.hold # "blocked"
            BY <2>2
        <3> HIDE DEF t, w
        <3>. QED
            BY <1>1, <2>1, <2>2, <2>3, <3>1, <3>2, RowStep
    <2>5. /\ request' \in [Slot -> Request]
          /\ \A s \in Slot : request'[s].at = "idle" => request'[s] = Idle
          /\ RequestInv'
        BY <1>2, <2>4, GotoStep DEF IInv
    <2>6. TypeOK'
        BY <1>1, <1>2, <2>1, <2>4, <2>5 DEF IInv, TypeOK
    <2>7. SignedOut'
        BY <1>1, <1>2, <1>3, <2>2, <2>4, SignedOutStep DEF IInv, TypeOK, At
    <2>. QED
        BY <2>4, <2>5, <2>6, <2>7 DEF IInv
<1>. QED
    BY <1>4, <1>5

(* The console's actions on a login: the row they write, when it is not    *)
(* among the lost ones, is the one they have read.                         *)
LEMMA AccountStep ==
    ASSUME IInv, NEW r \in Slot, Disable(r) \/ Enable(r) \/ Block(r)
    PROVE  IInv'
<1> DEFINE q == request[r]
           t == q.target
<1>1. /\ q.kind \in AccountKind /\ q.at = "write" /\ q \in Request
      /\ t \in Member /\ t \in Login /\ user[t] \in Row /\ q.row.hold # "blocked"
    BY AtFacts DEF Disable, Enable, Block, At, Good, RowKind, AccountKind, Member
<1>2. PICK disabled \in BOOLEAN, hold \in {None, "disabled", "blocked"} :
          /\ user' = [user EXCEPT ![t] = [@ EXCEPT !.disabled = disabled, !.hold = hold]]
          /\ hold # None => disabled
          /\ hold = "blocked" => t \in barred'
          /\ disabled => session' = session \ {t} /\ late' = late \ {t}
          /\ ~disabled => UNCHANGED <<session, late>>
    BY <1>1 DEF Disable, Enable, Block, Held, SignOut
<1>3. /\ UNCHANGED org /\ Goto(r, "idle")
      /\ barred \subseteq barred' /\ barred' \subseteq barred \cup {t}
      /\ lost' = lost \cup Overtaken(r)
    BY DEF Disable, Enable, Block
<1> DEFINE w == [user[t] EXCEPT !.disabled = disabled, !.hold = hold]
<1>4. w \in Row /\ w.hold = hold /\ w.disabled = disabled
    BY <1>1 DEF Row
<1>5. user' = [user EXCEPT ![t] = w]
    BY <1>1, <1>2
<1>6. t \notin lost' => ~(org.blocked /\ "org" \notin lost')
    <2>1. t \notin lost' => t \notin lost /\ user[t].hold # "blocked"
        BY <1>1, <1>3 DEF Overtaken
    <2>. QED
        BY <1>1, <1>3, <2>1 DEF IInv, Enforced
<1>7. /\ user' \in [Login -> Row \cup {None}] /\ user'[t] = w
      /\ \A u \in Login \ {t} : user'[u] = user[u]
      /\ RowsStay /\ Enforced' /\ BlockedAreBarred'
    <2>1. lost \subseteq lost' /\ org' = org
        BY <1>3
    <2> HIDE DEF t, w
    <2>. QED
        BY <1>1, <1>2, <1>3, <1>4, <1>5, <1>6, <2>1, RowStep
<1>8. /\ request' \in [Slot -> Request]
      /\ \A s \in Slot : request'[s].at = "idle" => request'[s] = Idle
      /\ RequestInv'
    BY <1>3, <1>7, GotoStep DEF IInv
<1>9. TypeOK'
    <2>1. Overtaken(r) \subseteq Login \cup {"org", "owners"}
        BY <1>1 DEF Overtaken
    <2>. QED
        BY <1>1, <1>2, <1>3, <1>7, <1>8, <2>1 DEF IInv, TypeOK
<1>10. SignedOut'
    <2>1. \A s \in Slot \ {r} : request'[s] = request[s]
        BY <1>3 DEF Goto, IInv, TypeOK
    <2>2. session' \ late' \subseteq session \ late /\ session' \subseteq Login
        BY <1>2, <1>9 DEF TypeOK
    <2>3. disabled => t \notin session'
        BY <1>2
    <2> HIDE DEF w
    <2>. QED
        BY <1>1, <1>4, <1>7, <2>1, <2>2, <2>3, SignedOutStep DEF At
<1>. QED
    BY <1>7, <1>8, <1>9, <1>10 DEF IInv

(* The console's actions on the organization.                              *)
LEMMA OrgStep ==
    ASSUME IInv, NEW r \in Slot, Activate(r) \/ Suspend(r) \/ BlockOrg(r)
    PROVE  IInv'
<1> DEFINE q == request[r]
<1>1. /\ q.at = "write" /\ q.kind \in OrgKind /\ q \in Request
      /\ q.org \in OrgRow /\ ~q.org.blocked
    BY AtFacts DEF Activate, Suspend, BlockOrg, At, Good, OrgKind
<1>2. /\ Goto(r, "idle") /\ OrgOvertaken(r) \subseteq {"org"}
      /\ lost \cup OrgOvertaken(r) \subseteq lost'
      /\ session' \subseteq session /\ late' = late \cap session'
      /\ session' \ late' \subseteq session \ late
    BY DEF Activate, Suspend, BlockOrg, SignOut, OrgOvertaken, IInv, TypeOK
<1>3. \A s \in Slot \ {r} : request'[s] = request[s]
    BY <1>2 DEF Goto, IInv, TypeOK
<1>4. "org" \notin lost' => "org" \notin lost /\ ~org.blocked
    BY <1>1, <1>2 DEF OrgOvertaken
<1>5. ASSUME Activate(r) \/ Suspend(r)
      PROVE  IInv'
    <2>1. UNCHANGED <<user, barred>> /\ lost' = lost \cup OrgOvertaken(r) /\ RowsStay
        BY <1>5 DEF Activate, Suspend, RowsStay
    <2>2. org' \in OrgRow /\ org'.blocked = org.blocked
        BY <1>5 DEF Activate, Suspend, IInv, TypeOK, OrgRow
    <2>3. Enforced' /\ BlockedAreBarred'
        BY <1>4, <2>1, <2>2 DEF IInv, Enforced, BlockedAreBarred, Member
    <2>4. /\ request' \in [Slot -> Request]
          /\ \A s \in Slot : request'[s].at = "idle" => request'[s] = Idle
          /\ RequestInv'
        BY <1>2, <2>1, GotoStep DEF IInv
    <2>5. TypeOK'
        BY <1>2, <2>1, <2>2, <2>4 DEF IInv, TypeOK
    <2>6. SignedOut'
        BY <1>1, <1>2, <1>3, <2>1, SignedOutStep DEF At
    <2>. QED
        BY <2>3, <2>4, <2>5, <2>6 DEF IInv
<1>6. ASSUME BlockOrg(r)
      PROVE  IInv'
    <2>1. /\ org' = [status |-> "suspended", blocked |-> TRUE]
          /\ barred' = barred \cup q.some /\ session' = session \ Member
          /\ lost' = lost \cup OrgOvertaken(r) \cup (Member \ q.some)
        BY <1>6 DEF BlockOrg, SignOut
    <2>2. \A u \in Member : /\ user'[u] \in Row
                            /\ user'[u].disabled /\ user'[u].hold = "blocked"
        <3> SUFFICES ASSUME NEW u \in Member
                     PROVE  /\ user'[u] \in Row
                            /\ user'[u].disabled /\ user'[u].hold = "blocked"
            OBVIOUS
        <3>1. u \in Login /\ user[u] \in Row
            BY DEF Member, IInv, TypeOK
        <3>2. user'[u] = [user[u] EXCEPT !.disabled = TRUE, !.hold = "blocked"]
            BY <1>6, <3>1 DEF BlockOrg
        <3>. QED
            BY <3>1, <3>2 DEF Row
    <2>3. /\ user' \in [Login -> Row \cup {None}]
          /\ \A u \in Login \ Member : user'[u] = None
        BY <1>6, <2>2 DEF BlockOrg
    <2>4. RowsStay /\ Member' = Member
        BY <2>2, <2>3 DEF RowsStay, Member
    <2>5. Enforced' /\ BlockedAreBarred'
        BY <2>1, <2>2, <2>4 DEF Enforced, BlockedAreBarred
    <2>6. /\ request' \in [Slot -> Request]
          /\ \A s \in Slot : request'[s].at = "idle" => request'[s] = Idle
          /\ RequestInv'
        BY <1>2, <2>4, GotoStep DEF IInv
    <2>7. TypeOK'
        <3>1. org' \in OrgRow /\ barred' \subseteq Login
            BY <1>1, <2>1 DEF OrgRow, Request, IInv, TypeOK
        <3>2. lost' \subseteq Login \cup {"org", "owners"}
            BY <1>2, <2>1 DEF Member, IInv, TypeOK
        <3>. QED
            BY <1>2, <2>3, <2>6, <3>1, <3>2 DEF IInv, TypeOK
    <2>8. SignedOut'
        <3>1. \A u \in session' \ late' : u \in Login /\ user'[u] = user[u]
            BY <1>6, <2>1 DEF IInv, TypeOK, Member, BlockOrg
        <3>. QED
            BY <1>1, <1>2, <1>3, <3>1, SignedOutStep DEF At
    <2>. QED
        BY <2>5, <2>6, <2>7, <2>8 DEF IInv
<1>. QED
    BY <1>5, <1>6

(* Sessions are opened and ended.                                          *)
LEMMA SessionStep ==
    ASSUME IInv, NEW r \in Slot,
           SignOutMember(r) \/ WriteReset(r) \/ OpenSession(r) \/ HandlerDies(r)
    PROVE  IInv'
<1> DEFINE q == request[r]
           t == q.target
<1>1. Goto(r, "idle") /\ UNCHANGED <<org, user, barred, lost>> /\ RowsStay
    BY DEF SignOutMember, WriteReset, OpenSession, HandlerDies, RowsStay
<1>2. /\ request' \in [Slot -> Request]
      /\ \A s \in Slot : request'[s].at = "idle" => request'[s] = Idle
      /\ RequestInv'
    BY <1>1, GotoStep DEF IInv
<1>3. \A s \in Slot \ {r} : request'[s] = request[s]
    BY <1>1 DEF Goto, IInv, TypeOK
<1>4. Enforced' /\ BlockedAreBarred'
    BY <1>1 DEF IInv, Enforced, BlockedAreBarred, Member
<1>5. session' \subseteq Login /\ late' \subseteq session' /\ SignedOut'
    <2>1. CASE SignOutMember(r) \/ WriteReset(r)
        <3>1. session' = session \ {t} /\ late' = late \ {t}
            BY <2>1 DEF SignOutMember, WriteReset, SignOut
        <3>2. \A u \in session' \ late' : u \in session \ late /\ u # t
            BY <3>1
        <3>3. SignedOut'
            BY <1>1, <1>3, <3>2, SignedOutStep
        <3>. QED
            BY <3>1, <3>3 DEF IInv, TypeOK
    <2>2. CASE OpenSession(r)
        <3>1. q.kind = "signIn" /\ t \in Login
            BY <2>2, AtFacts DEF OpenSession, At, Good
        <3>2. /\ session' = session \cup {t}
              /\ late' = IF user[t].disabled THEN late \cup {t} ELSE late
            BY <2>2 DEF OpenSession
        <3>3. \A u \in session' \ late' : user[u].disabled => u \in session \ late
            BY <3>2
        <3>4. SignedOut'
            BY <1>1, <1>3, <3>1, <3>3, SignedOutStep DEF At
        <3>. QED
            BY <3>1, <3>2, <3>4 DEF IInv, TypeOK
    <2>3. CASE HandlerDies(r)
        <3>1. /\ session' = session
              /\ late' = IF q.at = "signOut" THEN late \cup ({t} \cap session) ELSE late
            BY <2>3 DEF HandlerDies
        <3>2. \A u \in session' \ late' :
                  u \in session \ late /\ (q.at = "signOut" => u # t)
            BY <3>1
        <3>3. SignedOut'
            BY <1>1, <1>3, <3>2, SignedOutStep DEF At
        <3>. QED
            BY <3>1, <3>3 DEF IInv, TypeOK
    <2>. QED
        BY <2>1, <2>2, <2>3
<1>. QED
    BY <1>1, <1>2, <1>4, <1>5 DEF IInv, TypeOK

LEMMA EndSessionStep ==
    ASSUME IInv, NEW u \in Login, EndSession(u)
    PROVE  IInv'
<1>1. /\ UNCHANGED <<org, user, barred, request, lost>>
      /\ session' = session \ {u} /\ late' = late \ {u}
    BY DEF EndSession, SignOut
<1>2. TypeOK' /\ RequestInv'
    BY <1>1 DEF IInv, TypeOK, RequestInv, Member
<1>3. Enforced' /\ BlockedAreBarred' /\ SignedOut'
    BY <1>1 DEF IInv, Enforced, BlockedAreBarred, SignedOut, Member, At
<1>. QED
    BY <1>2, <1>3 DEF IInv

LEMMA StutterStep ==
    ASSUME IInv, UNCHANGED vars
    PROVE  IInv'
BY DEF IInv, TypeOK, RequestInv, Enforced, BlockedAreBarred, SignedOut, Member, At,
       vars, history

LEMMA NextIInv == IInv /\ [Next]_vars => IInv'
<1> SUFFICES ASSUME IInv, [Next]_vars PROVE IInv'
    OBVIOUS
<1>1. ASSUME NEW r \in Slot, NEW a \in Login, NEW t \in Login,
             \/ \E role \in Role, disabled \in BOOLEAN :
                    BeginUpdate(r, a, t, role, disabled)
             \/ BeginReset(r, a, t)
             \/ \E role \in Role : BeginCreate(r, a, t, role)
      PROVE  IInv'
    BY <1>1, BeginActions
<1>2. ASSUME NEW r \in Slot, NEW t \in Login,
             \/ \E kind \in OrgKind : BeginOrgAction(r, kind)
             \/ \E kind \in AccountKind : BeginAccountAction(r, kind, t)
             \/ BeginSignIn(r, t)
      PROVE  IInv'
    BY <1>2, BeginActions
<1>3. ASSUME NEW r \in Slot, CountOwners(r) \/ CountSeats(r) \/ ListMembers(r)
      PROVE  IInv'
    BY <1>3, CountStep
<1>4. ASSUME NEW r \in Slot, WriteUpdate(r)
      PROVE  IInv'
    BY <1>4, WriteUpdateStep
<1>5. ASSUME NEW r \in Slot, Insert(r)
      PROVE  IInv'
    BY <1>5, InsertStep
<1>6. ASSUME NEW r \in Slot, Disable(r) \/ Enable(r) \/ Block(r)
      PROVE  IInv'
    BY <1>6, AccountStep
<1>7. ASSUME NEW r \in Slot, Activate(r) \/ Suspend(r) \/ BlockOrg(r)
      PROVE  IInv'
    BY <1>7, OrgStep
<1>8. ASSUME NEW r \in Slot,
             SignOutMember(r) \/ WriteReset(r) \/ OpenSession(r) \/ HandlerDies(r)
      PROVE  IInv'
    BY <1>8, SessionStep
<1>. QED
    BY <1>1, <1>2, <1>3, <1>4, <1>5, <1>6, <1>7, <1>8,
       EndSessionStep, StutterStep, AccountsAssumption DEF Next

-----------------------------------------------------------------------------
(* Rows, sessions and what handlers hold are of their types.               *)
THEOREM TypeCorrect == Spec => []TypeOK
<1>1. IInv => TypeOK
    BY DEF IInv
<1>. QED
    BY <1>1, InitIInv, NextIInv, PTL DEF Spec

(* "users.disabled = 1 is set alongside" a hold and "a blocked organization*)
(* keeps status = 'suspended'" (0006_admin_console.sql:14, 22): what the   *)
(* sign-in gates look at agrees with what CTF decided, for every row but   *)
(* those a handler wrote after they changed under it.                      *)
THEOREM HoldsAreEnforced == Spec => []Enforced
<1>1. IInv => Enforced
    BY DEF IInv
<1>. QED
    BY <1>1, InitIInv, NextIInv, PTL DEF Spec

(* A blocked login's address is in blocked_emails (platform.ts:442).       *)
THEOREM BlockedStayBarred == Spec => []BlockedAreBarred
<1>1. IInv => BlockedAreBarred
    BY DEF IInv
<1>. QED
    BY <1>1, InitIInv, NextIInv, PTL DEF Spec

(* A disabled login has no session left, but for one that is about to be   *)
(* deleted or that outlived its sign-out (users.ts:288).                   *)
THEOREM DisabledAreSignedOut == Spec => []SignedOut
<1>1. IInv => SignedOut
    BY DEF IInv
<1>. QED
    BY <1>1, InitIInv, NextIInv, PTL DEF Spec

(* The tables of logins and organizations change in these actions only.    *)
LEMMA WhoWrites ==
    ASSUME Next
    PROVE  \/ UNCHANGED <<org, user>>
           \/ \E r \in Slot :
                 \/ WriteUpdate(r) \/ Insert(r) \/ Activate(r) \/ Suspend(r) \/ BlockOrg(r)
                 \/ Disable(r) \/ Enable(r) \/ Block(r)
<1>1. ASSUME NEW r \in Slot, NEW a \in Login, NEW t \in Login,
             \/ \E role \in Role, disabled \in BOOLEAN :
                    BeginUpdate(r, a, t, role, disabled)
             \/ BeginReset(r, a, t)
             \/ \E role \in Role : BeginCreate(r, a, t, role)
      PROVE  UNCHANGED <<org, user>>
    <2>1. PICK q : Begin(r, q)
        BY <1>1 DEF BeginUpdate, BeginReset, BeginCreate
    <2>. QED
        BY <2>1 DEF Begin
<1>2. \A r \in Slot, t \in Login :
          /\ \A kind \in OrgKind : BeginOrgAction(r, kind) => UNCHANGED <<org, user>>
          /\ \A kind \in AccountKind :
                 BeginAccountAction(r, kind, t) => UNCHANGED <<org, user>>
          /\ BeginSignIn(r, t) => UNCHANGED <<org, user>>
    BY DEF BeginOrgAction, BeginAccountAction, BeginSignIn, Begin
<1>3. ASSUME NEW r \in Slot,
             \/ CountOwners(r) \/ CountSeats(r) \/ ListMembers(r)
             \/ SignOutMember(r) \/ WriteReset(r) \/ OpenSession(r) \/ HandlerDies(r)
      PROVE  UNCHANGED <<org, user>>
    BY <1>3 DEF CountOwners, CountSeats, ListMembers, SignOutMember, WriteReset,
                OpenSession, HandlerDies
<1>4. \A u \in Login : EndSession(u) => UNCHANGED <<org, user>>
    BY DEF EndSession
<1>. QED
    BY <1>1, <1>2, <1>3, <1>4 DEF Next

(* "A block cannot be undone from the console" (platform.ts:466, 582), nor *)
(* from the Team panel: a handler that writes the row of a blocked login   *)
(* has read one that was not, so the write is among the lost ones; and the *)
(* block of an organization finds the login as it leaves it.               *)
THEOREM BlocksAreForGood == Spec => BlockIsPermanent
<1> DEFINE Permanent ==
        /\ org.blocked => org'.blocked
        /\ \A u \in Member \ lost' : user[u].hold = "blocked" => user'[u] = user[u]
<1>1. ASSUME IInv, Next
      PROVE  Permanent
    <2>1. CASE UNCHANGED <<org, user>>
        BY <2>1
    <2>2. ASSUME NEW r \in Slot, WriteUpdate(r) \/ Disable(r) \/ Enable(r) \/ Block(r)
          PROVE  Permanent
        <3> DEFINE t == request[r].target
        <3>1. request[r].kind \in RowKind /\ request[r].row.hold # "blocked"
            BY <1>1, <2>2, AtFacts
               DEF WriteUpdate, Disable, Enable, Block, At, Good, RowKind, AccountKind
        <3>2. org' = org /\ \A u \in Login \ {t} : user'[u] = user[u]
            BY <1>1, <2>2 DEF WriteUpdate, Disable, Enable, Block, Held, IInv, TypeOK
        <3>3. t \notin lost' => user[t].hold # "blocked"
            BY <2>2, <3>1 DEF WriteUpdate, Disable, Enable, Block, Overtaken
        <3>. QED
            BY <3>2, <3>3 DEF Member
    <2>3. ASSUME NEW r \in Slot, Insert(r)
          PROVE  Permanent
        BY <1>1, <2>3 DEF Insert, Member, IInv, TypeOK
    <2>4. ASSUME NEW r \in Slot, Activate(r) \/ Suspend(r)
          PROVE  Permanent
        BY <1>1, <2>4 DEF Activate, Suspend, IInv, TypeOK, OrgRow
    <2>5. ASSUME NEW r \in Slot, BlockOrg(r)
          PROVE  Permanent
        <3>1. org'.blocked
            BY <2>5 DEF BlockOrg
        <3>2. ASSUME NEW u \in Member \ lost', user[u].hold = "blocked"
              PROVE  user'[u] = user[u]
            <4>1. u \in Login /\ user[u] \in Row /\ user[u].disabled = TRUE
                BY <1>1, <2>5, <3>2 DEF BlockOrg, Member, IInv, TypeOK, Enforced, Row
            <4>2. user'[u] = [user[u] EXCEPT !.disabled = TRUE, !.hold = "blocked"]
                BY <2>5, <4>1 DEF BlockOrg
            <4>. QED
                BY <3>2, <4>1, <4>2 DEF Row
        <3>. QED
            BY <3>1, <3>2
    <2> HIDE DEF Permanent
    <2>. QED
        BY <1>1, <2>1, <2>2, <2>3, <2>4, <2>5, WhoWrites
<1>2. IInv /\ [Next]_vars => [Permanent]_vars
    BY <1>1
<1>. QED
    BY <1>2, InitIInv, NextIInv, PTL DEF Spec, BlockIsPermanent

-----------------------------------------------------------------------------
(* The last owner                                                          *)

(* An update that takes an owner away has counted another one.             *)
Counted(q) ==
    /\ q.kind = "update" /\ q.at = "write"
    /\ q.row.role = "owner" /\ (q.role # "owner" \/ q.disabled)
    => \E u \in q.some : u # q.target

CountInv == \A r \in Slot : Counted(request[r])

LEMMA TwoOwners ==
    ASSUME ~(Cardinality(ActiveOwner) <= 1), NEW t
    PROVE  \E u \in ActiveOwner : u # t
<1> SUFFICES ASSUME ActiveOwner \subseteq {t} PROVE FALSE
    OBVIOUS
<1>1. IsFiniteSet({t}) /\ Cardinality({t}) = 1
    BY FS_Singleton
<1>2. Cardinality(ActiveOwner) <= Cardinality({t})
    BY <1>1, FS_Subset
<1>. QED
    BY <1>1, <1>2

LEMMA NextCountInv == IInv /\ CountInv /\ [Next]_vars => CountInv'
<1> SUFFICES ASSUME IInv, CountInv, [Next]_vars PROVE CountInv'
    OBVIOUS
<1>1. ASSUME NEW r \in Slot,
             \A s \in Slot \ {r} : request'[s] = request[s], Counted(request'[r])
      PROVE  CountInv'
    BY <1>1 DEF CountInv
<1>2. ASSUME NEW r \in Slot, NEW q, request' = [request EXCEPT ![r] = q],
             q.kind # "update" \/ q.at # "write"
      PROVE  CountInv'
    BY <1>1, <1>2 DEF IInv, TypeOK, Counted
<1>3. ASSUME NEW r \in Slot, NEW at, Goto(r, at), at # "write" \/ request[r].kind # "update"
      PROVE  CountInv'
    <2>1. \A s \in Slot \ {r} : request'[s] = request[s]
        BY <1>3 DEF Goto, IInv, TypeOK
    <2>2. request'[r].kind # "update" \/ request'[r].at # "write"
        BY <1>3, IdleIsGood DEF Goto, IInv, TypeOK, Request, RowKind
    <2>. QED
        BY <1>1, <2>1, <2>2 DEF Counted
<1>4. ASSUME NEW r \in Slot, NEW a \in Login, NEW t \in Login,
             NEW role \in Role, NEW disabled \in BOOLEAN,
             BeginUpdate(r, a, t, role, disabled)
      PROVE  CountInv'
    <2>1. \A s \in Slot \ {r} : request'[s] = request[s]
        BY <1>4 DEF BeginUpdate, Begin, IInv, TypeOK
    <2>2. /\ request'[r].row = user[t] /\ request'[r].role = role
          /\ request'[r].disabled = disabled
          /\ request'[r].at = IF user[t].role = "owner" /\ (role # "owner" \/ disabled)
                              THEN "count" ELSE "write"
        BY <1>4 DEF BeginUpdate, Begin, IInv, TypeOK, Idle
    <2>. QED
        BY <1>1, <2>1, <2>2 DEF Counted
<1>5. ASSUME NEW r \in Slot, CountOwners(r)
      PROVE  CountInv'
    <2>1. CASE request' = [request EXCEPT ![r] = Idle]
        BY <1>2, <2>1, IdleIsGood
    <2>2. CASE request' # [request EXCEPT ![r] = Idle]
        <3>1. /\ ~(Cardinality(ActiveOwner) <= 1)
              /\ request' = [request EXCEPT ![r] =
                                 [@ EXCEPT !.at = "write", !.some = ActiveOwner]]
            BY <1>5, <2>2 DEF CountOwners
        <3>2. request'[r].some = ActiveOwner
            BY <3>1 DEF IInv, TypeOK, Request
        <3>3. \A s \in Slot \ {r} : request'[s] = request[s]
            BY <3>1 DEF IInv, TypeOK
        <3>4. \E u \in ActiveOwner : u # request'[r].target
            BY <3>1, TwoOwners
        <3>. QED
            BY <1>1, <3>2, <3>3, <3>4 DEF Counted
    <2>. QED
        BY <2>1, <2>2
<1>6. ASSUME NEW r \in Slot, NEW a \in Login, NEW t \in Login,
             BeginReset(r, a, t) \/ \E role \in Role : BeginCreate(r, a, t, role)
      PROVE  CountInv'
    <2>1. \A s \in Slot \ {r} : request'[s] = request[s]
        BY <1>6 DEF BeginReset, BeginCreate, Begin, IInv, TypeOK
    <2>2. request'[r].kind # "update"
        <3>1. CASE BeginReset(r, a, t)
            BY <3>1 DEF BeginReset, Begin, Idle, IInv, TypeOK
        <3>2. ASSUME NEW role \in Role, BeginCreate(r, a, t, role)
              PROVE  <2>2
            BY <3>2 DEF BeginCreate, Begin, Idle, IInv, TypeOK
        <3>. QED
            BY <1>6, <3>1, <3>2
    <2>. QED
        BY <1>1, <2>1, <2>2 DEF Counted
<1>7. ASSUME NEW r \in Slot, NEW t \in Login,
             \/ \E kind \in OrgKind : BeginOrgAction(r, kind)
             \/ \E kind \in AccountKind : BeginAccountAction(r, kind, t)
             \/ BeginSignIn(r, t)
      PROVE  CountInv'
    <2>1. \A s \in Slot \ {r} : request'[s] = request[s]
        BY <1>7 DEF BeginOrgAction, BeginAccountAction, BeginSignIn, Begin, IInv, TypeOK
    <2>2. request'[r].kind # "update"
        <3>1. ASSUME NEW kind \in OrgKind, BeginOrgAction(r, kind)
              PROVE  <2>2
            BY <3>1 DEF BeginOrgAction, Begin, Idle, IInv, TypeOK, OrgKind
        <3>2. ASSUME NEW kind \in AccountKind, BeginAccountAction(r, kind, t)
              PROVE  <2>2
            BY <3>2 DEF BeginAccountAction, Begin, Idle, IInv, TypeOK, AccountKind
        <3>3. CASE BeginSignIn(r, t)
            BY <3>3 DEF BeginSignIn, Begin, Idle, IInv, TypeOK
        <3>. QED
            BY <1>7, <3>1, <3>2, <3>3
    <2>. QED
        BY <1>1, <2>1, <2>2 DEF Counted
<1>8. ASSUME NEW r \in Slot, ListMembers(r)
      PROVE  CountInv'
    <2>1. \A s \in Slot \ {r} : request'[s] = request[s]
        BY <1>8 DEF ListMembers, IInv, TypeOK
    <2>2. request'[r].kind = "blockOrg"
        BY <1>8 DEF ListMembers, At, IInv, TypeOK, Request
    <2>. QED
        BY <1>1, <2>1, <2>2 DEF Counted
<1>9. ASSUME NEW r \in Slot,
             \/ WriteUpdate(r) \/ SignOutMember(r) \/ WriteReset(r) \/ CountSeats(r)
             \/ Insert(r) \/ Activate(r) \/ Suspend(r) \/ BlockOrg(r)
             \/ Disable(r) \/ Enable(r) \/ Block(r) \/ OpenSession(r) \/ HandlerDies(r)
      PROVE  CountInv'
    <2>1. CASE WriteUpdate(r)
        BY <1>3, <2>1 DEF WriteUpdate
    <2>2. CASE CountSeats(r)
        BY <1>3, <2>2 DEF CountSeats, At
    <2>3. CASE ~WriteUpdate(r) /\ ~CountSeats(r)
        <3>1. Goto(r, "idle")
            BY <1>9, <2>3 DEF SignOutMember, WriteReset, Insert, Activate, Suspend, BlockOrg,
                              Disable, Enable, Block, OpenSession, HandlerDies
        <3>. QED
            BY <1>3, <3>1
    <2>. QED
        BY <2>1, <2>2, <2>3
<1>10. ASSUME UNCHANGED request
       PROVE  CountInv'
    BY <1>10 DEF CountInv
<1>11. (\E u \in Login : EndSession(u)) \/ UNCHANGED vars => UNCHANGED request
    BY DEF EndSession, vars
<1>. QED
    BY <1>4, <1>5, <1>6, <1>7, <1>8, <1>9, <1>10, <1>11 DEF Next

(* "This business must keep at least one active owner." (users.ts:277): no *)
(* update takes the last one away unless the owners changed between the    *)
(* count and the write; otherwise the last one goes by a hold of CTF.      *)
THEOREM LastOwnerStays == Spec => KeepsAnOwner
<1> DEFINE Kept ==
        ActiveOwner # {} /\ ActiveOwner' = {} =>
            \/ "owners" \in lost' \/ ActiveOwner \cap lost' # {}
            \/ \E u \in ActiveOwner : user'[u].hold # None
<1>1. ASSUME IInv, CountInv, Next
      PROVE  Kept
    <2> SUFFICES ASSUME NEW o \in ActiveOwner, ActiveOwner' = {},
                        "owners" \notin lost', ActiveOwner \cap lost' = {},
                        \A u \in ActiveOwner : user'[u].hold = None
                 PROVE  FALSE
        OBVIOUS
    <2>1. o \in Login /\ o \in Member /\ user[o] \in Row
        BY <1>1 DEF ActiveOwner, Member, IInv, TypeOK
    <2>2. user'[o] # user[o]
        BY <2>1 DEF ActiveOwner, Member
    <2>3. ASSUME NEW r \in Slot, WriteUpdate(r)
          PROVE  FALSE
        <3> DEFINE q == request[r]
        <3>1. /\ q.kind = "update" /\ q.at = "write" /\ q.target = o
              /\ user' = [user EXCEPT ![o] =
                             [@ EXCEPT !.role = q.role, !.disabled = q.disabled]]
            BY <1>1, <2>1, <2>2, <2>3 DEF WriteUpdate, At, IInv, TypeOK
        <3>2. q.row = user[o] /\ (q.some # {} => q.some = ActiveOwner)
            BY <2>3, <3>1 DEF WriteUpdate, Overtaken
        <3>3. /\ user'[o] = [user[o] EXCEPT !.role = q.role, !.disabled = q.disabled]
              /\ q.role \in Role /\ q.disabled \in BOOLEAN
            BY <1>1, <2>1, <3>1, AtFacts DEF IInv, TypeOK, Request, Good
        <3>4. q.role # "owner" \/ q.disabled
            <4>1. user'[o].role = q.role /\ user'[o].disabled = q.disabled
                BY <2>1, <3>3 DEF Row
            <4>2. user'[o] \in Row
                BY <2>1, <3>3 DEF Row
            <4>. QED
                BY <2>1, <4>1, <4>2 DEF ActiveOwner, Member
        <3>5. PICK u \in q.some : u # o
            BY <1>1, <3>1, <3>2, <3>4 DEF CountInv, Counted, ActiveOwner
        <3>6. u \in ActiveOwner /\ user'[u] = user[u]
            BY <1>1, <3>1, <3>2, <3>5 DEF ActiveOwner, Member, IInv, TypeOK
        <3>. QED
            BY <3>6 DEF ActiveOwner, Member
    <2>4. ASSUME NEW r \in Slot, Insert(r)
          PROVE  FALSE
        BY <1>1, <2>1, <2>2, <2>4 DEF Insert, IInv, TypeOK
    <2>5. ASSUME NEW r \in Slot, Activate(r) \/ Suspend(r)
          PROVE  FALSE
        BY <2>2, <2>5 DEF Activate, Suspend
    <2>6. ASSUME NEW r \in Slot, BlockOrg(r)
          PROVE  FALSE
        BY <2>1, <2>6 DEF BlockOrg, Row
    <2>7. ASSUME NEW r \in Slot, Disable(r) \/ Block(r)
          PROVE  FALSE
        <3>1. user' = Held(o, "disabled") \/ user' = Held(o, "blocked")
            BY <1>1, <2>1, <2>2, <2>7 DEF Disable, Block, Held, IInv, TypeOK
        <3>2. user'[o].hold = "disabled" \/ user'[o].hold = "blocked"
            <4>1. ASSUME NEW hold, user' = Held(o, hold)
                  PROVE  user'[o].hold = hold
                <5>1. user'[o] = [user[o] EXCEPT !.disabled = TRUE, !.hold = hold]
                    BY <1>1, <2>1, <4>1 DEF Held, IInv, TypeOK
                <5>. QED
                    BY <2>1, <5>1 DEF Row
            <4>. QED
                BY <3>1, <4>1
        <3>. QED
            BY <3>2
    <2>8. ASSUME NEW r \in Slot, Enable(r)
          PROVE  FALSE
        <3>1. user' = [user EXCEPT ![o] = [@ EXCEPT !.disabled = FALSE, !.hold = None]]
            BY <1>1, <2>1, <2>2, <2>8 DEF Enable, IInv, TypeOK
        <3>2. user'[o] \in Row /\ user'[o].role = user[o].role /\ ~user'[o].disabled
            BY <1>1, <2>1, <3>1 DEF Row, IInv, TypeOK
        <3>. QED
            BY <2>1, <3>2 DEF ActiveOwner, Member
    <2>. QED
        BY <1>1, <2>2, <2>3, <2>4, <2>5, <2>6, <2>7, <2>8, WhoWrites
<1>2. Init => CountInv
    BY IdleIsGood DEF Init, CountInv, Counted, RowKind
<1>3. IInv /\ CountInv /\ [Next]_vars => [Kept]_vars
    BY <1>1
<1>. QED
    BY <1>2, <1>3, InitIInv, NextIInv, NextCountInv, PTL DEF Spec, KeepsAnOwner
=============================================================================
