----------------------------- MODULE ServicesInv -----------------------------
(* The inductive invariants behind the safety properties of Services.      *)
EXTENDS Services

(* Every copy is one of a message that was published.                      *)
OriginsPublished == \A k \in BagToSet(copies) : k.origin \in published

(* The timer of a retry is that of a subscription, where the message has   *)
(* failed and got its headers.                                             *)
WaitingFailed ==
    \A k \in BagToSet(copies) : k.waits => k.at # Dead /\ k.count > 0 /\ k.pace # Dead

CopiesInv == TypeOK /\ OriginsPublished /\ WaitingFailed

(* The headers of a copy at a subscription that no retry of another        *)
(* reaches were written there.                                             *)
OwnPace ==
    \A k \in BagToSet(copies) : k.at # Dead /\ Unambiguous(k.at) =>
        /\ k.pace \in {Dead, k.at}
        /\ k.jitter <= RetryOf[k.at].jitter

BackoffInv == CopiesInv /\ OwnPace /\ BackoffKept

(* Such a subscription has one copy of a message, and has it once.         *)
OneEach ==
    \A s \in Subscriptions : Unambiguous(s) =>
        \A k, l \in BagToSet(copies) :
            k.at = s /\ l.at = s /\ k.origin = l.origin => k = l /\ copies[k] = 1

HomeInv == CopiesInv /\ OneEach

ReachInv == CopiesInv /\ RetryReachesItself

DeadLetterInv == CopiesInv /\ DeadLetterArrives
=============================================================================
