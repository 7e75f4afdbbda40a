-------------------------- MODULE MCCanonEventLoop --------------------------
(* A small instance of CanonEventLoop for TLC.  No symmetry: liveness is    *)
(* checked too.                                                             *)
EXTENDS CanonEventLoop
=============================================================================
