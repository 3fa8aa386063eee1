----------------------------- MODULE MCAccounts -----------------------------
(* Two logins and two requests at once.  Behaviours are followed past a    *)
(* lost update or an outliving session as long as they concern one login   *)
(* and not the founder or the organization: their first loss is checked,   *)
(* what follows from it is not.                                            *)
EXTENDS Accounts, TLC

OneLoss == lost \subseteq Login \ {Founder} /\ Cardinality(lost \cup late) <= 1

Symmetry == Permutations(Slot)
=============================================================================
