------------------------------ MODULE Delivery ------------------------------
(***************************************************************************)
(* The life of the messages of one subscription: published, delivered,     *)
(* executed, answered, acknowledged, retried, dead-lettered, across the    *)
(* loss of channels and the crash and restart of the consuming processes.  *)
(*                                                                         *)
(* Each worker is a process that subscribes to one queue with prefetch > 0,*)
(* so it consumes on a channel of its own, and publishes on the shared     *)
(* channel 0; only the former is represented, failures of the latter are   *)
(* the failures of a publish.  The broker is external: its queues, its     *)
(* delivery tags and what it does with an acknowledgement are modelled     *)
(* from how src/src/index.js uses them.                                    *)
(***************************************************************************)
EXTENDS Integers, FiniteSets

CONSTANTS
    Messages,       \* what producers publish to the subscriber's queue
    Rpc,            \* the messages that carry an x-reply-to header
    Workers,        \* processes that subscribe
    SubscribedTo,   \* the queue each worker subscribes to
    Prefetch,       \* options.prefetch
    RetryMax,       \* meta.retry.max of the subscription of each queue
    DeadLettering,  \* the queues whose subscriber has config.enableDeadLetter
    Limit,          \* bound on the occurrences of each kind of fault
    MaxCopies,      \* bound on the copies ever accepted by the broker
    None

Queues == {"work", "dead"}
Faults == {"crash", "close", "publish", "resubscribe", "rethrow"}
Copies == 1..MaxCopies

ASSUME MessagesAssumption == Rpc \subseteq Messages /\ None \notin Messages \cup Workers
ASSUME SubscriptionAssumption ==
    /\ SubscribedTo \in [Workers -> Queues]
    /\ Prefetch \in Nat \ {0}
    /\ RetryMax \in [Queues -> Nat]
    /\ DeadLettering \subseteq Queues
ASSUME BoundAssumption == Limit \in [Faults -> Nat] /\ MaxCopies \in Nat

VARIABLES
    copies,       \* every copy of a message the broker ever accepted
    accepted,     \* how many there are
    deliveries,   \* promise chains of the consumer callback, still running
    channel,      \* channels[`${qualifier}:${prefetch}`]: its number, 0 if none
    consumer,     \* the channel on which the process called consume, 0 if none
    lastChannel,  \* number of the last channel each worker opened
    lastTag,      \* last delivery tag used on it
    settled,      \* outcomes reached by the executions of each message
    replies,      \* answers published to the producer of each message
    used          \* faults so far

vars == <<copies, accepted, deliveries, channel, consumer, lastChannel, lastTag,
          settled, replies, used>>
broker == <<copies, accepted>>
channels == <<channel, consumer, lastChannel, lastTag>>

-----------------------------------------------------------------------------

(* A copy on a queue: its x-retry-count header, the broker's redelivered   *)
(* flag, and while unacknowledged the worker, channel and tag it went to.  *)
(* runs counts the executions of the handler for this copy.                *)
Copy == [message: Messages \cup {None}, queue: Queues, count: Nat, redelivered: BOOLEAN,
         state: {"absent", "ready", "unacked", "gone"},
         worker: Workers \cup {None}, channel: Nat, tag: Nat, runs: Nat]

Absent == [message |-> None, queue |-> "work", count |-> 0, redelivered |-> FALSE,
           state |-> "absent", worker |-> None, channel |-> 0, tag |-> 0, runs |-> 0]

(* Where a promise chain is: in the handler, or awaiting the publish of    *)
(* the answer, the channel of handleRetry, the timer of the retry...       *)
Stages == {"handling", "replying", "failed",
           "retryWait", "retryAck", "saving", "errorReply", "statusReply"}

(* via is the channel handleRetry got (chan), 0 before that.               *)
Delivery == [worker: Workers, copy: Copies, channel: Nat, tag: Nat, via: Nat,
             stage: Stages, status: BOOLEAN]

Outcomes == {"ok", "status", "saved", "dropped"}
Answers == {"ok", "status", "exhausted"}

TypeOK ==
    /\ copies \in [Copies -> Copy]
    /\ accepted \in 0..MaxCopies
    /\ deliveries \subseteq Delivery
    /\ channel \in [Workers -> Nat]
    /\ consumer \in [Workers -> Nat]
    /\ lastChannel \in [Workers -> Nat]
    /\ lastTag \in [Workers -> Nat]
    /\ settled \in [Queues -> [Messages -> SUBSET Outcomes]]
    /\ replies \in [Messages -> SUBSET Answers]
    /\ used \in [Faults -> Nat]

Init ==
    /\ copies = [c \in Copies |-> Absent]
    /\ accepted = 0
    /\ deliveries = {}
    /\ channel = [w \in Workers |-> 0]
    /\ consumer = [w \in Workers |-> 0]
    /\ lastChannel = [w \in Workers |-> 0]
    /\ lastTag = [w \in Workers |-> 0]
    /\ settled = [q \in Queues |-> [m \in Messages |-> {}]]
    /\ replies = [m \in Messages |-> {}]
    /\ used = [f \in Faults |-> 0]

Fault(f) == used[f] < Limit[f] /\ used' = [used EXCEPT ![f] = @ + 1]

-----------------------------------------------------------------------------
(* The broker.                                                             *)

Enqueue(m, q, n) ==
    /\ accepted < MaxCopies
    /\ accepted' = accepted + 1
    /\ copies' = [copies EXCEPT ![accepted + 1] =
                    [Absent EXCEPT !.message = m, !.queue = q, !.count = n, !.state = "ready"]]

HeldOn(c, w, ch) ==
    copies[c].state = "unacked" /\ copies[c].worker = w /\ copies[c].channel = ch

Held(c, w, ch, t) == HeldOn(c, w, ch) /\ copies[c].tag = t

Gone(c) == [copies[c] EXCEPT !.state = "gone", !.redelivered = FALSE,
                             !.worker = None, !.channel = 0, !.tag = 0]

Requeued(c) == [copies[c] EXCEPT !.state = "ready", !.redelivered = TRUE,
                                 !.worker = None, !.channel = 0, !.tag = 0]

(* The channel of w is gone: the broker takes back what it had handed over *)
(* on it, the copies still on the wire included, and w forgets it.         *)
LoseChannel(w, wire) ==
    /\ copies' = [c \in Copies |->
                    IF HeldOn(c, w, channel[w]) \/ c \in wire THEN Requeued(c) ELSE copies[c]]
    /\ channel' = [channel EXCEPT ![w] = 0]
    /\ lastTag' = [lastTag EXCEPT ![w] = 0]
    /\ UNCHANGED <<accepted, lastChannel>>

(* basic.ack and basic.nack name a message by channel and tag; a tag that  *)
(* the channel does not have outstanding is a channel error (406).         *)
Settle(w, t, requeue) ==
    \/ /\ \E c \in Copies : Held(c, w, channel[w], t)
       /\ copies' = [c \in Copies |->
                       IF ~Held(c, w, channel[w], t) THEN copies[c]
                       ELSE IF requeue THEN Requeued(c) ELSE Gone(c)]
       /\ UNCHANGED <<accepted, channel, lastChannel, lastTag>>
    \/ /\ \A c \in Copies : ~Held(c, w, channel[w], t)
       /\ LoseChannel(w, {})

BrokerNack(w, t) == Settle(w, t, TRUE)

(* An ack may also be written to the socket and never be read, because the *)
(* channel is lost meanwhile.                                              *)
BrokerAck(w, t) ==
    \/ Settle(w, t, FALSE) /\ UNCHANGED used
    \/ Fault("close") /\ LoseChannel(w, {})

-----------------------------------------------------------------------------
(* Channels and processes.                                                 *)

Consuming(w) == channel[w] # 0 /\ consumer[w] = channel[w]

(* A new channel, with no message outstanding on it.                       *)
Open(w) ==
    /\ channel' = [channel EXCEPT ![w] = lastChannel[w] + 1]
    /\ lastChannel' = [lastChannel EXCEPT ![w] = @ + 1]
    /\ lastTag' = [lastTag EXCEPT ![w] = 0]

(* The process starts, or is restarted because it no longer consumes: the  *)
(* library never subscribes again by itself.                               *)
Start(w) ==
    /\ ~Consuming(w)
    /\ deliveries' = {d \in deliveries : d.worker # w}
    /\ Open(w)
    /\ consumer' = [consumer EXCEPT ![w] = lastChannel[w] + 1]
    /\ UNCHANGED <<broker, settled, replies, used>>

(* The application calls subscribe again in a process that lost its channel. *)
Resubscribe(w) ==
    /\ Fault("resubscribe")
    /\ consumer[w] # 0 /\ ~Consuming(w)
    /\ IF channel[w] = 0 THEN Open(w) ELSE UNCHANGED <<channel, lastChannel, lastTag>>
    /\ consumer' = [consumer EXCEPT ![w] = channel'[w]]
    /\ UNCHANGED <<broker, deliveries, settled, replies>>

(* Copies the broker has sent to w that w has not started to process.      *)
OnTheWire(w) ==
    {wire \in SUBSET {c \in Copies : copies[c].state = "ready" /\ copies[c].queue = SubscribedTo[w]} :
        wire = {} \/ ( /\ Consuming(w)
                       /\ Cardinality(wire \cup {c \in Copies : HeldOn(c, w, channel[w])}) <= Prefetch)}

(* The channel, or the connection with it, is lost; the process goes on.   *)
CloseChannel(w) ==
    /\ Fault("close")
    /\ channel[w] # 0
    /\ \E wire \in OnTheWire(w) : LoseChannel(w, wire)
    /\ UNCHANGED <<consumer, deliveries, settled, replies>>

(* The process dies: its promise chains and timers die with it.            *)
Crash(w) ==
    /\ Fault("crash")
    /\ consumer[w] # 0
    /\ \E wire \in OnTheWire(w) : LoseChannel(w, wire)
    /\ consumer' = [consumer EXCEPT ![w] = 0]
    /\ deliveries' = {d \in deliveries : d.worker # w}
    /\ UNCHANGED <<settled, replies>>

-----------------------------------------------------------------------------
(* Publishing, and the consumer callback.                                  *)

Publish(m) ==
    /\ \A c \in Copies : copies[c].message # m
    /\ Enqueue(m, "work", 0)
    /\ UNCHANGED <<deliveries, channels, settled, replies, used>>

(* saveDeadLetterIfNeeded sets x-ignore-redeliver on what it publishes,    *)
(* and removes x-reply-to.                                                 *)
IgnoresRedelivery(c) == copies[c].queue = "dead"
HasReplyTo(d) == copies[d.copy].queue = "work" /\ copies[d.copy].message \in Rpc

(* Mutant: redelivered messages are executed again.                        *)
RedeliveredIgnored(c) == FALSE

RedeliveredFailure(c) == copies[c].redelivered /\ ~IgnoresRedelivery(c)

RunsAfter(c) == IF RedeliveredFailure(c) THEN copies[c].runs ELSE copies[c].runs + 1

HandedTo(w, c) == [copies[c] EXCEPT
    !.state = "unacked", !.worker = w, !.channel = channel[w], !.tag = lastTag[w] + 1,
    !.runs = RunsAfter(c)]

(* A message the broker delivered before is not executed: it counts as a   *)
(* failed attempt.                                                         *)
Received(w, c) ==
    [worker |-> w, copy |-> c, channel |-> channel[w], tag |-> lastTag[w] + 1, via |-> 0,
     stage |-> IF RedeliveredFailure(c) THEN "failed" ELSE "handling", status |-> FALSE]

Deliver(w, c) ==
    /\ Consuming(w)
    /\ copies[c].state = "ready" /\ copies[c].queue = SubscribedTo[w]
    /\ Cardinality({o \in Copies : HeldOn(o, w, channel[w])}) < Prefetch
    /\ lastTag' = [lastTag EXCEPT ![w] = @ + 1]
    /\ copies' = [copies EXCEPT ![c] = HandedTo(w, c)]
    /\ deliveries' = deliveries \cup {Received(w, c)}
    /\ UNCHANGED <<accepted, channel, consumer, lastChannel, settled, replies, used>>

Goto(d, stage) == deliveries' = (deliveries \ {d}) \cup {[d EXCEPT !.stage = stage]}
Fail(d, status) ==
    deliveries' = (deliveries \ {d}) \cup {[d EXCEPT !.stage = "failed", !.status = status]}
End(d) == deliveries' = deliveries \ {d}

Conclude(d, o) ==
    LET q == copies[d.copy].queue
        m == copies[d.copy].message
    IN  settled' = [settled EXCEPT ![q][m] = @ \cup {o}]

(* Mutant: only responses are answered, errors are not.                    *)
AnswerResponse(d, a) ==
    replies' = IF HasReplyTo(d) /\ a = "ok"
               THEN [replies EXCEPT ![copies[d.copy].message] = @ \cup {a}] ELSE replies

(* replyToPublisher publishes nothing when the message has no x-reply-to.  *)
Answer(d, a) ==
    replies' = IF HasReplyTo(d) THEN [replies EXCEPT ![copies[d.copy].message] = @ \cup {a}]
                                ELSE replies

HandlerReturns(d) ==
    /\ d.stage = "handling"
    /\ Goto(d, "replying")
    /\ UNCHANGED <<broker, channels, settled, replies, used>>

(* The handler throws or rejects, with a status property on the error or   *)
(* without; plain failures of dead-letter consumers are bounded, they      *)
(* would repeat for ever.                                                  *)
HandlerThrows(d, status) ==
    /\ d.stage = "handling"
    /\ Fail(d, status)
    /\ IF copies[d.copy].queue = "dead" /\ ~status THEN Fault("rethrow") ELSE UNCHANGED used
    /\ UNCHANGED <<broker, channels, settled, replies>>

(* replyToPublisher with the response, then channel.ack(message), on the   *)
(* channel the message came on.  amqplib throws when it is closed, and     *)
(* handleRetry catches that.                                               *)
ReplyAndAck(d) ==
    /\ d.stage = "replying"
    /\ Answer(d, "ok")
    /\ IF channel[d.worker] = d.channel
       THEN BrokerAck(d.worker, d.tag) /\ Conclude(d, "ok") /\ End(d)
       ELSE Fail(d, FALSE) /\ UNCHANGED <<broker, channel, lastChannel, lastTag, settled, used>>
    /\ UNCHANGED consumer

-----------------------------------------------------------------------------
(* handleRetry.                                                            *)

(* getChannel creates the channel again when none is cached.               *)
OpenForRetry(w) ==
    /\ channel[w] = 0
    /\ \E d \in deliveries : d.worker = w /\ d.stage = "failed"
    /\ Open(w)
    /\ UNCHANGED <<broker, deliveries, consumer, settled, replies, used>>

(* ... or fails to, which rejects the promise of the whole delivery.       *)
RetryChannelFails(d) ==
    /\ d.stage = "failed"
    /\ channel[d.worker] = 0
    /\ End(d)
    /\ UNCHANGED <<broker, channels, settled, replies, used>>

(* Mutant: the count goes down.                                            *)
CountDown(n) == n - 1

NextCount(n) == n + 1

(* Mutants: one retry too many, one too few.                               *)
MayRetryOnceMore(c) ==
    LET max == RetryMax[copies[c].queue]
    IN  max > 0 /\ copies[c].count <= max

MayRetryOnceLess(c) ==
    LET max == RetryMax[copies[c].queue]
    IN  max > 0 /\ copies[c].count + 1 < max

MayRetry(c) ==
    LET max == RetryMax[copies[c].queue]
    IN  max > 0 /\ copies[c].count + 1 <= max

(* Mutant: a failed message is acknowledged without more ado.              *)
Forgotten(d) == [d EXCEPT !.via = channel[d.worker], !.stage = "retryAck"]

Decided(d) == [d EXCEPT !.via = channel[d.worker],
                        !.stage = IF MayRetry(d.copy) THEN "retryWait" ELSE "saving"]

(* The channel it gets is whichever the process has now.  An error with a  *)
(* status is acknowledged at once, while its answer is being published.    *)
HandleRetry(d) ==
    /\ d.stage = "failed"
    /\ channel[d.worker] # 0
    /\ IF d.status
       THEN /\ BrokerAck(d.worker, d.tag)
            /\ Conclude(d, "status")
            /\ IF HasReplyTo(d) THEN Goto(d, "statusReply") ELSE End(d)
       ELSE /\ deliveries' = (deliveries \ {d}) \cup {Decided(d)}
            /\ UNCHANGED <<broker, channel, lastChannel, lastTag, settled, used>>
    /\ UNCHANGED <<consumer, replies>>

(* The timer fires and the message is published again.                     *)
Republish(d) ==
    /\ d.stage = "retryWait"
    /\ Enqueue(copies[d.copy].message, copies[d.copy].queue, NextCount(copies[d.copy].count))
    /\ Goto(d, "retryAck")
    /\ UNCHANGED <<channels, settled, replies, used>>

(* Mutant: the message is saved whatever the subscriber configured.        *)
SaveAlways(d) ==
    /\ d.stage = "saving"
    /\ Enqueue(copies[d.copy].message, "dead", copies[d.copy].count)
    /\ Conclude(d, "saved")
    /\ Goto(d, "errorReply")
    /\ UNCHANGED <<channels, replies, used>>

(* The dead letter keeps the retry headers of the message.                 *)
SaveDeadLetter(d) ==
    /\ d.stage = "saving"
    /\ IF copies[d.copy].queue \in DeadLettering
       THEN /\ Enqueue(copies[d.copy].message, "dead", copies[d.copy].count)
            /\ Conclude(d, "saved")
       ELSE /\ Conclude(d, "dropped")
            /\ UNCHANGED broker
    /\ Goto(d, "errorReply")
    /\ UNCHANGED <<channels, replies, used>>

StatusReply(d) ==
    /\ d.stage = "statusReply"
    /\ Answer(d, "status")
    /\ End(d)
    /\ UNCHANGED <<broker, channels, settled, used>>

(* chan.ack(message) at the end of the chain.  If chan is closed the ack   *)
(* throws, and so does the nack that catches it.                           *)
AckOnVia(d) ==
    IF channel[d.worker] = d.via
    THEN BrokerAck(d.worker, d.tag)
    ELSE UNCHANGED <<broker, channel, lastChannel, lastTag, used>>

(* Mutants: a failed publish ends in an ack, or in nothing.                *)
AckInstead(d) ==
    IF channel[d.worker] = d.via
    THEN Settle(d.worker, d.tag, FALSE)
    ELSE UNCHANGED <<broker, channel, lastChannel, lastTag>>
NeitherAckNorNack(d) == UNCHANGED <<broker, channel, lastChannel, lastTag>>

(* chan.nack(message), after a publish that failed.                        *)
NackOnVia(d) ==
    IF channel[d.worker] = d.via
    THEN BrokerNack(d.worker, d.tag)
    ELSE UNCHANGED <<broker, channel, lastChannel, lastTag>>

RetryAck(d) ==
    /\ d.stage = "retryAck"
    /\ AckOnVia(d)
    /\ End(d)
    /\ UNCHANGED <<consumer, settled, replies>>

ErrorReplyAndAck(d) ==
    /\ d.stage = "errorReply"
    /\ Answer(d, "exhausted")
    /\ AckOnVia(d)
    /\ End(d)
    /\ UNCHANGED <<consumer, settled>>

Publishes(d) ==
    \/ d.stage = "retryWait"
    \/ d.stage = "saving" /\ copies[d.copy].queue \in DeadLettering
    \/ d.stage \in {"replying", "errorReply", "statusReply"} /\ HasReplyTo(d)

(* A publish of the chain rejects.  The one of the response makes the      *)
(* delivery fail; the one of an error with a status has nobody to catch it;*)
(* the others are caught by chan.nack(message).                            *)
PublishFails(d) ==
    /\ Fault("publish")
    /\ Publishes(d)
    /\ IF d.stage = "replying" THEN Fail(d, FALSE) ELSE End(d)
    /\ IF d.stage \in {"retryWait", "saving", "errorReply"}
       THEN NackOnVia(d)
       ELSE UNCHANGED <<broker, channel, lastChannel, lastTag>>
    /\ UNCHANGED <<consumer, settled, replies>>

-----------------------------------------------------------------------------

(* What the processes and the broker do when nothing fails.                *)
Progress ==
    \/ \E w \in Workers : Start(w) \/ OpenForRetry(w) \/ \E c \in Copies : Deliver(w, c)
    \/ \E d \in deliveries :
          \/ HandlerReturns(d) \/ \E status \in BOOLEAN : HandlerThrows(d, status)
          \/ ReplyAndAck(d) \/ HandleRetry(d) \/ Republish(d) \/ RetryAck(d)
          \/ SaveDeadLetter(d) \/ ErrorReplyAndAck(d) \/ StatusReply(d)

Disturbance ==
    \/ \E w \in Workers : Resubscribe(w) \/ CloseChannel(w) \/ Crash(w)
    \/ \E d \in deliveries : RetryChannelFails(d) \/ PublishFails(d)

Next ==
    \/ \E m \in Messages : Publish(m)
    \/ Progress
    \/ Disturbance

Spec == Init /\ [][Next]_vars

(* Event loops run, the broker delivers, handlers settle, timers fire, and *)
(* a process that consumes nothing any more is restarted.                  *)
FairSpec == Spec /\ WF_vars(Progress)

-----------------------------------------------------------------------------
(* Properties.                                                             *)

Live(q, m) ==
    \E c \in Copies : copies[c].state \in {"ready", "unacked"}
                      /\ copies[c].queue = q /\ copies[c].message = m

(* A dead job that fails is put back on the dead-letter queue.             *)
Closed(q, m) == settled[q][m] \ (IF q = "dead" THEN {"saved"} ELSE {}) # {}

(* No message is lost: once the broker accepted a message for a queue, it  *)
(* holds a copy of it until the message was executed, answered with a      *)
(* status, saved as a dead letter, or given up because dead-lettering is   *)
(* disabled: every ack of the callback and of handleRetry comes after.     *)
(* (Not so once a process has subscribed again with old chains running:    *)
(* see SameChannelAck.)                                                    *)
NoLoss ==
    used["resubscribe"] = 0 => \A c \in Copies : copies[c].state # "absent" =>
        Live(copies[c].queue, copies[c].message) \/ Closed(copies[c].queue, copies[c].message)

(* The x-retry-count of a copy climbs one step at a time and stops at the  *)
(* max of the subscription: the copy with the count below was accepted     *)
(* before.                                                                 *)
RetryLadder ==
    \A c \in Copies : copies[c].queue = "work" /\ copies[c].count > 0 =>
        /\ copies[c].count <= RetryMax["work"]
        /\ \E p \in Copies : /\ p < c
                             /\ copies[p].message = copies[c].message
                             /\ copies[p].queue = "work"
                             /\ copies[p].count = copies[c].count - 1

(* A message reaches the dead-letter queue only after the last retry, and  *)
(* only if the subscription dead-letters.                                  *)
DeadLetterExhausted ==
    \A c \in Copies : copies[c].queue = "dead" =>
        /\ "work" \in DeadLettering
        /\ \E p \in Copies : /\ p < c
                             /\ copies[p].message = copies[c].message
                             /\ copies[p].queue = "work"
                             /\ copies[p].count = RetryMax["work"]

(* The handler is never started twice for one copy of a work message,      *)
(* whatever the broker redelivers: redelivery counts as a failed attempt.  *)
RunsOnce == \A c \in Copies : copies[c].queue = "work" => copies[c].runs <= 1

NoFault == \A f \in Faults \ {"rethrow"} : used[f] = 0

(* Without faults a message is executed at most 1 + max times, and its     *)
(* producer gets at most one answer.                                       *)
AttemptBudget ==
    NoFault => \A m \in Messages :
        /\ Cardinality({c \in Copies : copies[c].message = m /\ copies[c].queue = "work"
                                         /\ copies[c].runs > 0}) <= 1 + RetryMax["work"]
        /\ Cardinality(replies[m]) <= 1

(* When the broker has nothing left of an rpc message, its producer was    *)
(* answered, unless the handler failed with a status (see StatusReply).    *)
RpcAnswered ==
    \A c \in Copies : copies[c].message \in Rpc =>
        \/ Live("work", copies[c].message)
        \/ "status" \in settled["work"][copies[c].message]
        \/ replies[copies[c].message] # {}

(* Every message the broker accepted is eventually concluded, and leaves   *)
(* the queues.                                                             *)
Delivered ==
    \A m \in Messages : (\E c \in Copies : copies[c].message = m)
        ~> /\ Closed("work", m)
           /\ \A q \in Queues : ~Live(q, m)

(* The queues implement the promise of AtLeastOnce.                        *)
AtLeast == INSTANCE AtLeastOnce WITH
    live <- {j \in Messages \X Queues : Live(j[2], j[1])},
    outcome <- [j \in Messages \X Queues |->
                  settled[j[2]][j[1]] \ (IF j[2] = "dead" THEN {"saved"} ELSE {})]

ImplementsAtLeastOnce == AtLeast!Spec

(* "we MUST be on the same channel than the subscriber to ack a message    *)
(* otherwise channel is borked" (src/src/index.js:718): the channel        *)
(* handleRetry works with is the one the message came on.                  *)
SameChannelAck == \A d \in deliveries : d.via # 0 => d.via = d.channel

=============================================================================
