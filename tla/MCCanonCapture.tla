--------------------------- MODULE MCCanonCapture ---------------------------
(* Small instances of CanonCapture for TLC.                                *)
EXTENDS CanonCapture, TLC
=============================================================================
