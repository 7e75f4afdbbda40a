------------------------- MODULE MCPluginConnection -------------------------
(* A small instance of PluginConnection for TLC: a Canon camera, which can *)
(* fall back to libgphoto2, and another one.                               *)
EXTENDS PluginConnection

MCRequests == [i \in Instances |-> IF i = 1 THEN 2 ELSE 1]
MCWants == [i \in Instances |-> IF i = 1 THEN Devices ELSE {"canon"}]
=============================================================================
