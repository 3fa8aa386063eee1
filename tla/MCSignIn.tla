------------------------------ MODULE MCSignIn ------------------------------
(* SignIn with three requests, two steps of the app and two attempts.      *)
EXTENDS SignIn

=============================================================================
