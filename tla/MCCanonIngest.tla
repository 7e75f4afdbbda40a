---------------------------- MODULE MCCanonIngest ----------------------------
(* Small instances of CanonIngest for TLC: two photos that appear after the *)
(* connection, or come with another card.                                   *)
EXTENDS CanonIngest
=============================================================================
