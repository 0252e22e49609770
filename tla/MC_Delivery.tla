----------------------------- MODULE MC_Delivery -----------------------------
(* Instances of Delivery for TLC.                                          *)
EXTENDS DeliveryInv

CONSTANTS m1, m2, w1, w2, wd

OneRpc == {m1}
TwoMessages == {m1, m2}

OneWorker == {w1}
OneWorkerAndDead == {w1, wd}
TwoWorkers == {w1, w2}

Subscription == [w \in Workers |-> IF w = wd THEN "dead" ELSE "work"]

NoRetry == [q \in Queues |-> 0]
OneRetry == [q \in Queues |-> IF q = "work" THEN 1 ELSE 0]

LimitOf(crash, close, publish, resubscribe, rethrow) ==
    [f \in Faults |-> CASE f = "crash" -> crash [] f = "close" -> close
                        [] f = "publish" -> publish [] f = "resubscribe" -> resubscribe
                        [] f = "rethrow" -> rethrow]

OnePublishFault == LimitOf(0, 0, 1, 0, 0)
OneCloseFault == LimitOf(0, 1, 0, 0, 0)
CrashAndClose == LimitOf(1, 1, 0, 0, 0)
CrashAndPublish == LimitOf(1, 0, 1, 0, 1)
WithResubscribe == LimitOf(0, 1, 0, 1, 0)
=============================================================================
