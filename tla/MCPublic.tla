------------------------------ MODULE MCPublic ------------------------------
(***************************************************************************)
(* What someone without a session may begin: callback requests (Leads),    *)
(* the outreach cadence and its unsubscribe link (Outreach), and Google    *)
(* sign-up and sign-in (GoogleSignUp).  They share no table: a run         *)
(* explores each of its Parts by itself, as Init chooses.                  *)
(***************************************************************************)
EXTENDS Leads, Outreach, GoogleSignUp, TLC
CONSTANTS Parts, r1, r2, r3, p1, p2, s1, s2, c1, c2, e1, a1, a2, k1, k2, g1, g2, m1, m2, m3

MCContacts == {c1, c2}
MCEmailOf == [c \in MCContacts |-> e1]
\* Two practices with one address, and one prospect of each name.
MCIdsNamed == [c \in MCContacts |-> {c}]

\* g1 moved from m1 to m3, the address of a login that exists; m2 is another
\* spelling of m1.  No address belongs to two Google accounts.
MCIdentities == {[sub |-> g1, email |-> m1], [sub |-> g1, email |-> m3], [sub |-> g2, email |-> m2]}
MCCanonical == m1 :> m1 @@ m2 :> m1 @@ m3 :> m3

VARIABLE part
Init == LInit /\ OInit /\ GInit /\ part \in Parts
Next == \/ part = "leads" /\ LNext /\ UNCHANGED <<part, ovars, gvars>>
        \/ part = "outreach" /\ ONext /\ UNCHANGED <<part, lvars, gvars>>
        \/ part = "signup" /\ GNext /\ UNCHANGED <<part, lvars, ovars>>
Spec == Init /\ [][Next]_<<part, lvars, ovars, gvars>>
=============================================================================
