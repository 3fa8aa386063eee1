----------------------------- MODULE MCLiveFeed -----------------------------
(* Two calls of two lines, one line to a page: enough for a page that is   *)
(* not the last, for a call that follows another at once, and for an       *)
(* answer of the first to meet the second.                                 *)
EXTENDS LiveFeed
=============================================================================
