------------------------------ MODULE Shutdown ------------------------------
(***************************************************************************)
(* The graceful shutdown of one process: the register of the messages      *)
(* being consumed (message-register.js), the consumers of the process and  *)
(* carotte.shutdown, against handlers that run, fail, wait for their retry *)
(* or await the answer of an invoke.                                       *)
(*                                                                         *)
(* Each function has a channel of its own (prefetch > 0).  What happens to *)
(* the copies of a message is the matter of Delivery: here a message is    *)
(* ready or not, and an ack works only on the channel it came on.          *)
(***************************************************************************)
EXTENDS Integers, FiniteSets

CONSTANTS
    Functions,   \* qualifiers the process subscribes to
    Rpc,         \* RPC_QUALIFIER: the consumer of the answers to invoke
    Messages,    \* messages on their queues
    FunctionOf,  \* the function each message is for
    Invoking,    \* the messages whose handler awaits an invoke
    Late,        \* functions whose subscribe may be running at the shutdown
    RetryMax,    \* meta.retry.max of each function
    MaxLost      \* bound on the channels lost

Qualifiers == Functions \cup {Rpc}

ASSUME FunctionsAssumption ==
    /\ Rpc \notin Functions /\ IsFiniteSet(Messages)
    /\ FunctionOf \in [Messages -> Functions]
    /\ Invoking \subseteq Messages
    /\ Late \subseteq Functions
    /\ RetryMax \in [Functions -> Nat] /\ MaxLost \in Nat

(* How often the message may be tried again.                               *)
Retries(m) == RetryMax[FunctionOf[m]]

VARIABLES
    consumer,    \* subscription of each qualifier
    connexion,   \* the cached connection
    ready,       \* messages the broker has on their queue
    task,        \* the promise chain of each message
    attempts,    \* x-retry-count of each message
    answering,   \* messages whose answer the reply consumer is processing
    current,     \* currentMessages, counted by qualifier
    phase,       \* where the promise chain of shutdown is
    timeout,     \* whether shutdown was called with a timeout > 0
    outcome      \* how shutdownPromise settled

vars == <<consumer, connexion, ready, task, attempts, answering, current, phase, timeout, outcome>>
shutdown == <<timeout, outcome>>

Subscriptions == {"none", "subscribing", "consuming", "cancelling", "cancelled",
                  "lost", "gone", "closed"}
Tasks == {"idle", "handling", "awaiting", "resumed", "replying", "failed",
          "timer", "saving", "forwarding"}
Phases == {"up", "cancelling", "cancelled", "waiting", "delay", "done"}
Results == {"pending", "resolved", "timeout", "failed"}

TypeOK ==
    /\ consumer \in [Qualifiers -> Subscriptions]
    /\ connexion \in {"none", "open", "closed", "reopened"}
    /\ ready \subseteq Messages
    /\ task \in [Messages -> Tasks]
    /\ attempts \in [Messages -> Nat]
    /\ \A m \in Messages : attempts[m] <= Retries(m)
    /\ answering \subseteq Messages
    /\ current \in [Qualifiers -> Nat]
    /\ phase \in Phases
    /\ timeout \in BOOLEAN
    /\ outcome \in Results

Init ==
    /\ consumer = [q \in Qualifiers |-> "none"]
    /\ connexion = "none"
    /\ ready = Messages
    /\ task = [m \in Messages |-> "idle"]
    /\ attempts = [m \in Messages |-> 0]
    /\ answering = {}
    /\ current = [q \in Qualifiers |-> 0]
    /\ phase = "up"
    /\ timeout = FALSE
    /\ outcome = "pending"

-----------------------------------------------------------------------------
(* getConnection connects again whenever no connection is cached.          *)
Connected(c) == CASE c = "none" -> "open" [] c = "closed" -> "reopened" [] OTHER -> c

(* The register.                                                           *)
Started(q) == current' = [current EXCEPT ![q] = @ + 1]

Finished(q) == [current EXCEPT ![q] = @ - 1]

(* Mutant: the last message to finish does not resolve the wait.           *)
FinishUnresolved(q) ==
    /\ current' = Finished(q)
    /\ UNCHANGED phase

(* When nothing is left the promise of wait resolves, if shutdown waits.   *)
Finish(q) ==
    /\ current' = Finished(q)
    /\ phase' = IF phase = "waiting" /\ \A p \in Qualifiers : Finished(q)[p] = 0
                THEN "delay" ELSE phase

Goto(m, t) == task' = [task EXCEPT ![m] = t]

-----------------------------------------------------------------------------
(* Subscriptions.                                                          *)

(* subscribe of the application; a function that is not late is subscribed *)
(* to before the shutdown.                                                 *)
Subscribe(f) ==
    /\ consumer[f] = "none"
    /\ phase = "up" \/ (f \in Late /\ phase # "done")
    /\ consumer' = [consumer EXCEPT ![f] = "subscribing"]
    /\ connexion' = Connected(connexion)
    /\ UNCHANGED <<ready, task, attempts, answering, current, phase, shutdown>>

(* consume-ok arrives: the consumer is pushed to consumers.                *)
Subscribed(q) ==
    /\ consumer[q] = "subscribing"
    /\ consumer' = [consumer EXCEPT ![q] = "consuming"]
    /\ UNCHANGED <<connexion, ready, task, attempts, answering, current, phase, shutdown>>

Active(q) == consumer[q] \in {"consuming", "cancelling"}

(* Stages in which the message of the chain is still unacknowledged.       *)
Unacked(m) == task[m] \notin {"idle", "forwarding"}

-----------------------------------------------------------------------------
(* The consumer callback.                                                  *)

Deliver(m) ==
    /\ m \in ready /\ task[m] = "idle" /\ Active(FunctionOf[m])
    /\ ready' = ready \ {m}
    /\ Goto(m, "handling")
    /\ Started(FunctionOf[m])
    /\ UNCHANGED <<consumer, connexion, attempts, answering, phase, shutdown>>

(* The handler calls invoke, and with the first call getRpcQueue subscribes. *)
Invoke(m) ==
    /\ task[m] = "handling" /\ m \in Invoking
    /\ Goto(m, "awaiting")
    /\ consumer' = [consumer EXCEPT ![Rpc] = IF @ = "none" THEN "subscribing" ELSE @]
    /\ connexion' = Connected(connexion)
    /\ UNCHANGED <<ready, attempts, answering, current, phase, shutdown>>

(* The reply consumer gets the answer: it is a consumer like the others.   *)
(* (It is done with an answer long before the message is tried again.)     *)
AnswerArrives(m) ==
    /\ task[m] = "awaiting" /\ Active(Rpc) /\ m \notin answering
    /\ Goto(m, "resumed")
    /\ answering' = answering \cup {m}
    /\ Started(Rpc)
    /\ UNCHANGED <<consumer, connexion, ready, attempts, phase, shutdown>>

(* Its ack, or what handleRetry does when the channel is gone.             *)
AnswerAcked(m) ==
    /\ m \in answering
    /\ answering' = answering \ {m}
    /\ Finish(Rpc)
    /\ connexion' \in {connexion, Connected(connexion)}
    /\ UNCHANGED <<consumer, ready, task, attempts, shutdown>>

HandlerReturns(m) ==
    /\ task[m] = IF m \in Invoking THEN "resumed" ELSE "handling"
    /\ Goto(m, "replying")
    /\ UNCHANGED <<consumer, connexion, ready, attempts, answering, current, phase, shutdown>>

HandlerThrows(m) ==
    /\ task[m] \in {"handling", "resumed"}
    /\ Goto(m, "failed")
    /\ UNCHANGED <<consumer, connexion, ready, attempts, answering, current, phase, shutdown>>

AckWorks(m) == connexion = "open" /\ consumer[FunctionOf[m]] \notin {"lost", "gone"}

(* replyToPublisher has published; the ack throws when its channel closed. *)
ReplyAndAck(m) ==
    /\ task[m] = "replying"
    /\ IF AckWorks(m)
       THEN Goto(m, "idle") /\ Finish(FunctionOf[m]) /\ UNCHANGED connexion
       ELSE /\ Goto(m, "failed")
            /\ connexion' \in {connexion, Connected(connexion)}
            /\ UNCHANGED <<current, phase>>
    /\ UNCHANGED <<consumer, ready, attempts, answering, shutdown>>

(* Mutant: the retry path never tells the register.                        *)
RetryLaterUnfinished(m) ==
    /\ attempts[m] < Retries(m)
    /\ Goto(m, "timer")
    /\ UNCHANGED <<current, phase>>

(* handleRetry.  With a retry it returns as soon as the timer is armed, so *)
(* the register already forgets the message.  An error with a status is    *)
(* acknowledged while its answer is being published.                       *)
RetryLater(m) ==
    /\ attempts[m] < Retries(m)
    /\ Goto(m, "timer")
    /\ Finish(FunctionOf[m])

HandleRetry(m) ==
    /\ task[m] = "failed"
    /\ \/ RetryLater(m)
       \/ /\ attempts[m] >= Retries(m)
          /\ Goto(m, "saving")
          /\ UNCHANGED <<current, phase>>
       \/ /\ Goto(m, "forwarding")
          /\ UNCHANGED <<current, phase>>
    /\ connexion' = Connected(connexion)
    /\ UNCHANGED <<consumer, ready, attempts, answering, shutdown>>

(* Mutant: the register forgets the message once more when the timer fires. *)
RepublishAndFinish(m) ==
    /\ task[m] = "timer"
    /\ Goto(m, "idle")
    /\ ready' = ready \cup {m}
    /\ attempts' = [attempts EXCEPT ![m] = @ + 1]
    /\ Finish(FunctionOf[m])
    /\ connexion' = Connected(connexion)
    /\ UNCHANGED <<consumer, answering, shutdown>>

(* The timer fires: publish, then ack (which throws on a closed channel).  *)
Republish(m) ==
    /\ task[m] = "timer"
    /\ Goto(m, "idle")
    /\ ready' = ready \cup {m}
    /\ attempts' = [attempts EXCEPT ![m] = @ + 1]
    /\ connexion' = Connected(connexion)
    /\ UNCHANGED <<consumer, answering, current, phase, shutdown>>

(* The dead letter and the answer are published, and the message acked.    *)
Save(m) ==
    /\ task[m] \in {"saving", "forwarding"}
    /\ Goto(m, "idle")
    /\ Finish(FunctionOf[m])
    /\ connexion' = Connected(connexion)
    /\ UNCHANGED <<consumer, ready, attempts, answering, shutdown>>

(* While the connection is closing nothing can be published, and the chain *)
(* rejects; neither ack nor nack reaches the broker, which has the message.*)
PublishFails(m) ==
    /\ connexion = "closed"
    /\ \/ task[m] = "timer" /\ UNCHANGED <<current, phase>>
       \/ task[m] \in {"failed", "saving", "forwarding"} /\ Finish(FunctionOf[m])
    /\ Goto(m, "idle")
    /\ UNCHANGED <<consumer, connexion, ready, attempts, answering, shutdown>>

-----------------------------------------------------------------------------
(* carotte.shutdown.                                                       *)

(* c.close(): every consumer stops, and the broker takes back what is not  *)
(* acknowledged.  shutdown does not wait for the connection to be closed.  *)
Close(result) ==
    /\ phase' = "done"
    /\ outcome' = result
    /\ UNCHANGED timeout
    /\ connexion' = IF connexion = "none" THEN "none" ELSE "closed"
    /\ consumer' = [q \in Qualifiers |-> IF consumer[q] = "none" THEN "none" ELSE "closed"]
    /\ ready' = ready \cup {m \in Messages : Unacked(m)}

(* Every consumer pushed so far is cancelled.  cancel rejects at once on a *)
(* channel that is closed, which skips to the end of the chain.            *)
CallShutdown ==
    /\ phase = "up"
    /\ \A f \in Functions \ Late : consumer[f] # "subscribing"
    /\ IF \E q \in Qualifiers : consumer[q] = "lost"
       THEN Close("failed")
       ELSE /\ phase' = "cancelling"
            /\ consumer' = [q \in Qualifiers |->
                              IF consumer[q] = "consuming" THEN "cancelling" ELSE consumer[q]]
            /\ timeout' \in BOOLEAN
            /\ UNCHANGED <<connexion, ready, outcome>>
    /\ UNCHANGED <<task, attempts, answering, current>>

CancelOk(q) ==
    /\ consumer[q] = "cancelling"
    /\ consumer' = [consumer EXCEPT ![q] = "cancelled"]
    /\ UNCHANGED <<connexion, ready, task, attempts, answering, current, phase, shutdown>>

AllCancelled == \A q \in Qualifiers : consumer[q] # "cancelling"

(* Mutant: the wait starts while cancels are pending.                      *)
WaitAtOnce ==
    /\ phase = "cancelling"
    /\ phase' = IF \A q \in Qualifiers : current[q] = 0 THEN "delay" ELSE "waiting"
    /\ UNCHANGED <<consumer, connexion, ready, task, attempts, answering, current, shutdown>>

(* messageRegister.wait.                                                   *)
Wait ==
    /\ phase = "cancelling" /\ AllCancelled
    /\ phase' = IF \A q \in Qualifiers : current[q] = 0 THEN "delay" ELSE "waiting"
    /\ UNCHANGED <<consumer, connexion, ready, task, attempts, answering, current, shutdown>>

(* Mutant: the timeout runs while consumers are cancelled, not afterwards. *)
WaitTimesOutEarly ==
    /\ phase = "cancelling" /\ timeout
    /\ Close("timeout")
    /\ UNCHANGED <<task, attempts, answering, current>>

WaitTimesOut ==
    /\ phase = "waiting" /\ timeout
    /\ Close("timeout")
    /\ UNCHANGED <<task, attempts, answering, current>>

(* The two seconds after the wait are over.                                *)
DelayOver ==
    /\ phase = "delay"
    /\ Close("resolved")
    /\ UNCHANGED <<task, attempts, answering, current>>

-----------------------------------------------------------------------------
(* The channel of a consumer is closed by an error; nothing subscribes     *)
(* again.  A cancel that is pending on it rejects.  A channel whose        *)
(* consumer was cancelled (it is gone then) may still have its messages.   *)

Lost == {q \in Qualifiers : consumer[q] \in {"lost", "gone"}}

LoseChannel(q) ==
    /\ Cardinality(Lost) < MaxLost
    /\ \/ consumer[q] = "cancelling" /\ Close("failed")
       \/ /\ consumer[q] \in {"consuming", "cancelled"}
          /\ consumer' = [consumer EXCEPT ![q] = IF @ = "consuming" THEN "lost" ELSE "gone"]
          /\ ready' = ready \cup {m \in Messages : FunctionOf[m] = q /\ Unacked(m)}
          /\ UNCHANGED <<connexion, phase, shutdown>>
    /\ UNCHANGED <<task, attempts, answering, current>>

-----------------------------------------------------------------------------

TaskStep(m) ==
    \/ Deliver(m) \/ Invoke(m) \/ AnswerArrives(m) \/ AnswerAcked(m)
    \/ HandlerReturns(m) \/ HandlerThrows(m) \/ ReplyAndAck(m)
    \/ HandleRetry(m) \/ Republish(m) \/ Save(m) \/ PublishFails(m)

ShutdownStep == (\E q \in Qualifiers : CancelOk(q)) \/ Wait \/ WaitTimesOut \/ DelayOver

Next ==
    \/ \E f \in Functions : Subscribe(f)
    \/ \E q \in Qualifiers : Subscribed(q) \/ LoseChannel(q)
    \/ \E m \in Messages : TaskStep(m)
    \/ CallShutdown
    \/ ShutdownStep

Spec == Init /\ [][Next]_vars

(* The broker answers, timers fire, and a handler settles unless the       *)
(* answer it awaits does not come.  (Each step of a shutdown, and each     *)
(* consume-ok, happens once: fairness for all of them is fairness for each.) *)
FairSpec ==
    /\ Spec
    /\ WF_vars(ShutdownStep \/ \E q \in Qualifiers : Subscribed(q))
    /\ \A m \in Messages : WF_vars(TaskStep(m))

-----------------------------------------------------------------------------
(* Properties.                                                             *)

Registered == {"handling", "awaiting", "resumed", "replying", "failed", "saving", "forwarding"}
InProgress(f) == {m \in Messages : FunctionOf[m] = f /\ task[m] \in Registered}

(* The register counts exactly the chains that have neither settled nor    *)
(* been put on a retry timer: each start has its finish on every path.     *)
RegisterMatches ==
    /\ \A f \in Functions : current[f] = Cardinality(InProgress(f))
    /\ current[Rpc] = Cardinality(answering)

Running == \E m \in Messages : task[m] \in Registered

(* The shutdown takes its usual course: every consumer could be cancelled  *)
(* (what its channel met with afterwards does not matter), and no function *)
(* is subscribed to while it goes on.                                      *)
Usual ==
    /\ \A f \in Functions : consumer[f] \in {"none", "cancelled", "gone"}
    /\ consumer[Rpc] \notin {"cancelling", "lost"}

(* "await current messages being processed" (src/src/index.js:840): unless *)
(* the timeout cut the wait short, no message is being processed when      *)
(* shutdown closes the connection.                                         *)
AwaitsCurrentMessages ==
    [][outcome' \in {"resolved", "failed"} /\ outcome = "pending" /\ Usual => ~Running]_vars

(* A MessageWaitTimeoutError is raised only while messages are still being *)
(* consumed: once the register is empty the timeout is disarmed.           *)
TimesOutOnLateMessages ==
    [][outcome' = "timeout" /\ outcome = "pending" => \E q \in Qualifiers : current[q] > 0]_vars

(* A shutdown that was called ends: it closes the connection and settles   *)
(* its promise, whatever the handlers await.  Only without a timeout can   *)
(* it wait for ever, for a handler whose answer it has cut off: the reply  *)
(* consumer is cancelled like the others.  (phase does not go back, and    *)
(* what is cut off stays so: in the end no shutdown that was called waits.) *)
CutOff == \E m \in Messages : task[m] = "awaiting" /\ consumer[Rpc] \in {"cancelled", "lost", "gone"}
ShutdownSettles == <>[](phase \in {"up", "done"} \/ (~timeout /\ CutOff))

(* "wait for current messages to be acked or nacked"                       *)
(* (src/src/index.js:865): when shutdown closes the connection and reports *)
(* success, no message is unacknowledged.                                  *)
SettledBeforeClose ==
    [][outcome' = "resolved" /\ outcome = "pending" => \A m \in Messages : ~Unacked(m)]_vars

=============================================================================
