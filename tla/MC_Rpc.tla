------------------------------- MODULE MC_Rpc -------------------------------
(* Instances of Rpc for TLC: c1 is an invoke with a timeout, c2 an invoke  *)
(* without, c3 a parallel.  c1 and c3 are given the same options object.   *)
EXTENDS Rpc

CONSTANTS c1, c2, c3, o1, o2

SharedOptions == [c \in Calls |-> IF c = c2 THEN o2 ELSE o1]
=============================================================================
