---------------------------- MODULE DeliveryInv ----------------------------
(* The inductive invariants behind the safety properties of Delivery.      *)
EXTENDS Delivery

(* Copies are accepted in the order of their numbers, and only what was    *)
(* accepted is delivered.                                                  *)
Numbered ==
    /\ \A c \in Copies :
          /\ c <= accepted => copies[c].state # "absent" /\ copies[c].message \in Messages
          /\ c > accepted => copies[c] = Absent
    /\ \A d \in deliveries : d.copy <= accepted

(* A delivery waits for its retry only if it may be retried, and is saved  *)
(* only if it may not.                                                     *)
Decisions ==
    \A d \in deliveries :
        /\ d.stage = "retryWait" => MayRetry(d.copy)
        /\ d.stage = "saving" => ~MayRetry(d.copy)

LadderInv == Numbered /\ Decisions /\ RetryLadder /\ DeadLetterExhausted

(* A work copy on the queue that is not flagged was never executed.        *)
RunsInv ==
    \A c \in Copies : copies[c].queue = "work" =>
        /\ copies[c].runs <= 1
        /\ copies[c].state \in {"absent", "ready"} /\ ~copies[c].redelivered => copies[c].runs = 0

(* A worker's channel numbers are its own, and what the broker has handed  *)
(* to it is on the channel it consumes on.                                 *)
Channels ==
    \A w \in Workers :
        /\ channel[w] <= lastChannel[w]
        /\ consumer[w] <= lastChannel[w]

Holding ==
    \A c \in Copies : copies[c].state = "unacked" =>
        /\ copies[c].worker \in Workers
        /\ copies[c].channel = channel[copies[c].worker]
        /\ Consuming(copies[c].worker)
        /\ copies[c].tag <= lastTag[copies[c].worker]

(* As long as the process does not subscribe again, its deliveries are     *)
(* those of its present consumer, and a tag names the copy it came with.   *)
Tags ==
    \A d \in deliveries :
        /\ d.channel = consumer[d.worker]
        /\ d.channel # 0
        /\ Consuming(d.worker) => d.tag <= lastTag[d.worker]
        /\ \A c \in Copies :
              copies[c].state = "unacked" /\ copies[c].worker = d.worker /\ copies[c].tag = d.tag
                  => c = d.copy

Alive(c) == copies[c].state \in {"ready", "unacked"}

(* The job of c is concluded, or a copy accepted after c still stands for it. *)
Covered(c) ==
    \/ Closed(copies[c].queue, copies[c].message)
    \/ \E s \in Copies : /\ s > c /\ Alive(s)
                         /\ copies[s].queue = copies[c].queue
                         /\ copies[s].message = copies[c].message

(* Whatever is gone, or about to be acknowledged by handleRetry, is covered. *)
Coverage ==
    /\ \A c \in Copies : copies[c].state = "gone" => Covered(c)
    /\ \A d \in deliveries : d.stage \in {"retryAck", "errorReply"} => Covered(d.copy)

LossInv == Numbered /\ Channels /\ Holding /\ Tags /\ Coverage

(* No application has called subscribe again in a process with old chains. *)
SubscribedOnce == used["resubscribe"] = 0

(* Only what the broker accepted has outcomes.                             *)
OutcomesKnown ==
    \A q \in Queues, m \in Messages : settled[q][m] # {} =>
        \E c \in Copies : copies[c].queue = q /\ copies[c].message = m

(* The copy of a request; its producer was answered, or the handler failed *)
(* with a status.                                                          *)
IsRequest(c) == copies[c].queue = "work" /\ copies[c].message \in Rpc

Answered(m) == "status" \in settled["work"][m] \/ replies[m] # {}

AnsweredLater(c) ==
    \/ Answered(copies[c].message)
    \/ \E s \in Copies : /\ s > c /\ Alive(s)
                         /\ copies[s].queue = "work"
                         /\ copies[s].message = copies[c].message

(* A request that is gone, or about to be acknowledged because it was      *)
(* published again, is answered, or a later copy of it still can be.  (At  *)
(* "errorReply" the answer is published before the ack, in the same step.) *)
AnswerInv ==
    /\ \A c \in Copies : copies[c].state = "gone" /\ IsRequest(c) => AnsweredLater(c)
    /\ \A d \in deliveries : d.stage = "retryAck" /\ HasReplyTo(d) => AnsweredLater(d.copy)

(* Without faults a process consumes on the channel it has, each chain     *)
(* holds its copy until it acknowledges it, and no copy has two chains.    *)
ChainHolds(d) ==
    IF d.stage = "statusReply"
    THEN copies[d.copy].state = "gone"
    ELSE /\ copies[d.copy].state = "unacked"
         /\ copies[d.copy].worker = d.worker
         /\ copies[d.copy].tag = d.tag

Undisturbed ==
    /\ \A w \in Workers : consumer[w] = channel[w]
    /\ \A d \in deliveries : ChainHolds(d)
    /\ \A d, e \in deliveries : d.copy = e.copy => d = e

(* A work copy that will still be executed, retried or answered.           *)
Pending(c) ==
    /\ copies[c].queue = "work"
    /\ \/ copies[c].state = "ready"
       \/ \E d \in deliveries : d.copy = c /\ d.stage # "retryAck"

SameRequest(a, b) ==
    /\ copies[a].queue = "work" /\ copies[b].queue = "work"
    /\ copies[a].message = copies[b].message

(* The work copies of a message have different counts, and the pending one *)
(* the highest: there is never more than one pending.                      *)
OneRung ==
    \A a, b \in Copies : SameRequest(a, b) =>
        /\ copies[a].count = copies[b].count /\ copies[a].message # None => a = b
        /\ Pending(a) => copies[b].count <= copies[a].count

(* A message is answered once, and is then not pending any more.           *)
OneAnswer ==
    \A m \in Messages :
        /\ replies[m] = {} \/ \E a \in Answers : replies[m] = {a}
        /\ replies[m] # {} => /\ \E c \in Copies : copies[c].message = m
                              /\ \A c \in Copies : copies[c].message = m => ~Pending(c)

BudgetInv == Undisturbed /\ OneRung /\ OneAnswer
=============================================================================
