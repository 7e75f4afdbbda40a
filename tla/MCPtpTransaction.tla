-------------------------- MODULE MCPtpTransaction --------------------------
(* Small instances of PtpTransaction for TLC.                              *)
EXTENDS PtpTransaction
=============================================================================
