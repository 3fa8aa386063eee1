---------------------------- MODULE MCCallbacks ----------------------------
(***************************************************************************)
(* The callback queue with its waiting times scaled down to one or two     *)
(* cron intervals, in the order the code has them: a claim is lost before  *)
(* a call is stuck, Vapi is asked again before the retry of a missed call. *)
(***************************************************************************)
EXTENDS Callbacks, TLC

Interchangeable == Permutations(Run)
=============================================================================
