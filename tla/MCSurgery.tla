----------------------------- MODULE MCSurgery -----------------------------
(* Five nodes, each with up to two inputs: enough for a producer consumed  *)
(* twice, a diamond and a chain of three merges.                           *)
EXTENDS Surgery

MCNode == 1..5
=============================================================================
