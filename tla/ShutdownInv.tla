---------------------------- MODULE ShutdownInv ----------------------------
(* The inductive invariants behind the safety properties of Shutdown.      *)
EXTENDS Shutdown

(* A retry timer is only armed for a message that may be tried again.      *)
TimersMayRetry == \A m \in Messages : task[m] = "timer" => attempts[m] < Retries(m)

RegisterInv == TypeOK /\ TimersMayRetry /\ RegisterMatches

(* shutdown waits as long as something is registered, and no longer.       *)
WaitsForMessages == phase = "waiting" => \E q \in Qualifiers : current[q] > 0

Stopped(f) == consumer[f] \in {"none", "cancelled", "gone"}

(* The wait starts with no cancel pending, and so a consumer that is not   *)
(* there after it was not there when it ended.                             *)
DelayInv ==
    /\ phase \in {"waiting", "delay"} => AllCancelled
    /\ phase = "delay" => \A f \in Functions : Stopped(f) => InProgress(f) = {}
=============================================================================
