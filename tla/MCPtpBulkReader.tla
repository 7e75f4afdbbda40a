--------------------------- MODULE MCPtpBulkReader ---------------------------
(* A small instance of PtpBulkReader for TLC.                              *)
EXTENDS PtpBulkReader
=============================================================================
