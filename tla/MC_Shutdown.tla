----------------------------- MODULE MC_Shutdown -----------------------------
(* Instances of Shutdown for TLC: two functions, f1 with messages m1 and   *)
(* m2, f2 with m3; the handler of m2 invokes another function.             *)
EXTENDS Shutdown

CONSTANTS f1, f2, m1, m2, m3

TwoFunctions == {f1, f2}
TwoMessages == {m2, m3}
ThreeMessages == {m1, m2, m3}
FunctionOfMessage == [m \in Messages |-> IF m = m3 THEN f2 ELSE f1]
OneRetry == [f \in Functions |-> 1]
RetryOnF1 == [f \in Functions |-> IF f = f1 THEN 1 ELSE 0]
=============================================================================
