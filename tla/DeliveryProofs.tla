--------------------------- MODULE DeliveryProofs ---------------------------
(* Theorems about Delivery, for every value of its constants.              *)
EXTENDS DeliveryInv, TLAPS

USE DEF Copies

brokerOK == copies \in [Copies -> Copy] /\ accepted \in 0..MaxCopies
channelsOK ==
    /\ channel \in [Workers -> Nat]
    /\ lastChannel \in [Workers -> Nat]
    /\ lastTag \in [Workers -> Nat]

LEMMA RequeuedType ==
    ASSUME TypeOK, NEW c \in Copies
    PROVE  Requeued(c) \in Copy /\ Gone(c) \in Copy
BY DEF TypeOK, Copy, Requeued, Gone

LEMMA Results ==
    ASSUME TypeOK, NEW c \in Copies
    PROVE  Requeued(c).state = "ready" /\ Gone(c).state = "gone"
BY DEF TypeOK, Copy, Requeued, Gone

LEMMA HolderType ==
    ASSUME NEW r \in Copy, NEW w \in Workers, NEW ch \in Nat, NEW t \in Nat, NEW n \in Nat
    PROVE  [r EXCEPT !.state = "unacked", !.worker = w, !.channel = ch, !.tag = t + 1,
                     !.runs = n] \in Copy
<1>1. t + 1 \in Nat OBVIOUS
<1> QED BY <1>1 DEF Copy

LEMMA EnqueueType ==
    ASSUME TypeOK, NEW m \in Messages \cup {None}, NEW q \in Queues, NEW n \in Nat, Enqueue(m, q, n)
    PROVE  brokerOK'
<1>1. [Absent EXCEPT !.message = m, !.queue = q, !.count = n, !.state = "ready"] \in Copy
    BY DEF Copy, Absent
<1> QED BY <1>1, BoundAssumption DEF TypeOK, Enqueue, brokerOK

LEMMA LoseChannelType ==
    ASSUME TypeOK, NEW w \in Workers, NEW wire, LoseChannel(w, wire)
    PROVE  brokerOK' /\ channelsOK'
BY RequeuedType DEF TypeOK, LoseChannel, brokerOK, channelsOK

LEMMA SettleType ==
    ASSUME TypeOK, NEW w \in Workers, NEW t, NEW requeue, Settle(w, t, requeue)
    PROVE  brokerOK' /\ channelsOK'
<1>1. CASE LoseChannel(w, {}) BY <1>1, LoseChannelType
<1>2. CASE ~LoseChannel(w, {})
    BY <1>2, RequeuedType DEF TypeOK, Settle, brokerOK, channelsOK
<1> QED BY <1>1, <1>2

LEMMA FaultType ==
    ASSUME TypeOK, NEW f \in Faults, Fault(f)
    PROVE  used' \in [Faults -> Nat]
BY DEF TypeOK, Fault

LEMMA BrokerAckType ==
    ASSUME TypeOK, NEW w \in Workers, NEW t, BrokerAck(w, t)
    PROVE  brokerOK' /\ channelsOK' /\ used' \in [Faults -> Nat]
<1>1. CASE Settle(w, t, FALSE) /\ UNCHANGED used
    BY <1>1, SettleType DEF TypeOK
<1>2. CASE Fault("close") /\ LoseChannel(w, {})
    BY <1>2, LoseChannelType, FaultType DEF Faults
<1> QED BY <1>1, <1>2 DEF BrokerAck

LEMMA OpenType ==
    ASSUME TypeOK, NEW w \in Workers, Open(w)
    PROVE  channelsOK'
BY DEF TypeOK, Open, channelsOK

LEMMA DeliveryFields ==
    ASSUME TypeOK, NEW d \in deliveries
    PROVE  /\ d \in Delivery /\ d.worker \in Workers /\ d.copy \in Copies
           /\ copies[d.copy] \in Copy
           /\ copies[d.copy].queue \in Queues /\ copies[d.copy].count \in Nat
           /\ copies[d.copy].message \in Messages \cup {None}
BY DEF TypeOK, Delivery, Copy

LEMMA StepType ==
    ASSUME TypeOK, NEW d \in deliveries
    PROVE  /\ \A s \in Stages : Goto(d, s) => deliveries' \subseteq Delivery
           /\ \A b \in BOOLEAN : Fail(d, b) => deliveries' \subseteq Delivery
           /\ End(d) => deliveries' \subseteq Delivery
BY DEF TypeOK, Goto, Fail, End, Delivery, Stages

LEMMA DecidedType ==
    ASSUME TypeOK, NEW d \in deliveries
    PROVE  Decided(d) \in Delivery
BY DEF TypeOK, Decided, Delivery, Stages

LEMMA ConcludeType ==
    ASSUME TypeOK, NEW d \in deliveries, NEW o \in Outcomes, Conclude(d, o)
    PROVE  settled' \in [Queues -> [Messages -> SUBSET Outcomes]]
BY DeliveryFields DEF TypeOK, Conclude

LEMMA AnswerType ==
    ASSUME TypeOK, NEW d \in deliveries, NEW a \in Answers, Answer(d, a)
    PROVE  replies' \in [Messages -> SUBSET Answers]
BY DEF TypeOK, Answer

(* Every state is well typed (TypeOK): whatever the faults, a retry count  *)
(* is a number, a delivery refers to a copy the broker may know, and each  *)
(* channel number stays a number.                                          *)
THEOREM TypeCorrect == Spec => []TypeOK
<1>1. Init => TypeOK
  <2>1. Absent \in Copy BY DEF Absent, Copy, Queues
  <2> QED BY <2>1, BoundAssumption DEF Init, TypeOK
<1>2. TypeOK /\ [Next]_vars => TypeOK'
  <2> SUFFICES ASSUME TypeOK, [Next]_vars PROVE TypeOK'
      OBVIOUS
  <2> USE DEF channels, broker, brokerOK, channelsOK
  <2>1. ASSUME NEW m \in Messages, Publish(m) PROVE TypeOK'
      BY <2>1, EnqueueType DEF Publish, TypeOK, Queues
  <2>2. ASSUME NEW w \in Workers, Start(w) PROVE TypeOK'
      BY <2>2, OpenType DEF Start, TypeOK
  <2>3. ASSUME NEW w \in Workers, OpenForRetry(w) PROVE TypeOK'
      BY <2>3, OpenType DEF OpenForRetry, TypeOK
  <2>4. ASSUME NEW w \in Workers, NEW c \in Copies, Deliver(w, c) PROVE TypeOK'
    <3>1. HandedTo(w, c) \in Copy
      <4>1. RunsAfter(c) \in Nat BY DEF RunsAfter, TypeOK, Copy
      <4>2. copies[c] \in Copy BY DEF TypeOK
      <4>3. channel[w] \in Nat BY DEF TypeOK
      <4>4. lastTag[w] \in Nat BY DEF TypeOK
      <4> QED BY <4>1, <4>2, <4>3, <4>4, HolderType DEF HandedTo
    <3>2. Received(w, c) \in Delivery
        BY DEF Received, TypeOK, Delivery, Stages
    <3> QED BY <2>4, <3>1, <3>2 DEF Deliver, TypeOK
  <2>5. ASSUME NEW d \in deliveries, HandlerReturns(d) PROVE TypeOK'
      BY <2>5, StepType DEF HandlerReturns, TypeOK, Stages
  <2>6. ASSUME NEW d \in deliveries, NEW status \in BOOLEAN, HandlerThrows(d, status)
        PROVE  TypeOK'
    <3>1. used' \in [Faults -> Nat]
        BY <2>6, FaultType DEF HandlerThrows, TypeOK, Faults
    <3> QED BY <2>6, <3>1, StepType DEF HandlerThrows, TypeOK
  <2>7. ASSUME NEW d \in deliveries, ReplyAndAck(d) PROVE TypeOK'
    <3>1. replies' \in [Messages -> SUBSET Answers]
        BY <2>7, AnswerType DEF ReplyAndAck, Answers
    <3>2. CASE channel[d.worker] = d.channel
      <4>1. BrokerAck(d.worker, d.tag) /\ Conclude(d, "ok") /\ End(d) /\ UNCHANGED consumer
          BY <2>7, <3>2 DEF ReplyAndAck
      <4>2. settled' \in [Queues -> [Messages -> SUBSET Outcomes]]
          BY <4>1, ConcludeType DEF Outcomes
      <4> QED BY <4>1, <4>2, <3>1, DeliveryFields, BrokerAckType, StepType DEF TypeOK
    <3>3. CASE channel[d.worker] # d.channel
        BY <2>7, <3>1, <3>3, StepType DEF ReplyAndAck, TypeOK
    <3> QED BY <3>2, <3>3
  <2>8. ASSUME NEW d \in deliveries, HandleRetry(d) PROVE TypeOK'
    <3>1. CASE d.status
      <4>1. BrokerAck(d.worker, d.tag) /\ Conclude(d, "status") /\ UNCHANGED <<consumer, replies>>
          BY <2>8, <3>1 DEF HandleRetry
      <4>2. settled' \in [Queues -> [Messages -> SUBSET Outcomes]]
          BY <4>1, ConcludeType DEF Outcomes
      <4>3. deliveries' \subseteq Delivery
          BY <2>8, <3>1, StepType DEF HandleRetry, Stages
      <4> QED BY <4>1, <4>2, <4>3, DeliveryFields, BrokerAckType DEF TypeOK
    <3>2. CASE ~d.status
      <4>1. deliveries' \subseteq Delivery
          BY <2>8, <3>2, DecidedType DEF HandleRetry, TypeOK
      <4> QED BY <2>8, <3>2, <4>1 DEF HandleRetry, TypeOK
    <3> QED BY <3>1, <3>2
  <2>9. ASSUME NEW d \in deliveries, Republish(d) PROVE TypeOK'
    <3>1. NextCount(copies[d.copy].count) \in Nat
        BY DeliveryFields DEF NextCount
    <3>2. brokerOK'
        BY <2>9, <3>1, DeliveryFields, EnqueueType DEF Republish
    <3> QED BY <2>9, <3>2, StepType DEF Republish, TypeOK, Stages
  <2>10. ASSUME NEW d \in deliveries, RetryAck(d) PROVE TypeOK'
    <3>1. brokerOK' /\ channelsOK' /\ used' \in [Faults -> Nat]
        BY <2>10, DeliveryFields, BrokerAckType DEF RetryAck, AckOnVia, TypeOK
    <3> QED BY <2>10, <3>1, StepType DEF RetryAck, TypeOK
  <2>11. ASSUME NEW d \in deliveries, SaveDeadLetter(d) PROVE TypeOK'
    <3>1. brokerOK'
        BY <2>11, DeliveryFields, EnqueueType DEF SaveDeadLetter, Queues, TypeOK
    <3>2. settled' \in [Queues -> [Messages -> SUBSET Outcomes]]
        BY <2>11, ConcludeType DEF SaveDeadLetter, Outcomes
    <3> QED BY <2>11, <3>1, <3>2, StepType DEF SaveDeadLetter, TypeOK, Stages
  <2>12. ASSUME NEW d \in deliveries, ErrorReplyAndAck(d) PROVE TypeOK'
    <3>1. brokerOK' /\ channelsOK' /\ used' \in [Faults -> Nat]
        BY <2>12, DeliveryFields, BrokerAckType DEF ErrorReplyAndAck, AckOnVia, TypeOK
    <3>2. replies' \in [Messages -> SUBSET Answers]
        BY <2>12, AnswerType DEF ErrorReplyAndAck, Answers
    <3> QED BY <2>12, <3>1, <3>2, StepType DEF ErrorReplyAndAck, TypeOK
  <2>13. ASSUME NEW d \in deliveries, StatusReply(d) PROVE TypeOK'
      BY <2>13, AnswerType, StepType DEF StatusReply, TypeOK, Answers
  <2>14. ASSUME NEW w \in Workers, Resubscribe(w) PROVE TypeOK'
    <3>1. channelsOK'
        BY <2>14, OpenType DEF Resubscribe, TypeOK
    <3> QED BY <2>14, <3>1, FaultType DEF Resubscribe, TypeOK, Faults
  <2>15. ASSUME NEW w \in Workers, CloseChannel(w) PROVE TypeOK'
    <3>1. PICK wire \in OnTheWire(w) : LoseChannel(w, wire)
        BY <2>15 DEF CloseChannel
    <3> QED BY <2>15, <3>1, LoseChannelType, FaultType DEF CloseChannel, TypeOK, Faults
  <2>16. ASSUME NEW w \in Workers, Crash(w) PROVE TypeOK'
    <3>1. PICK wire \in OnTheWire(w) : LoseChannel(w, wire)
        BY <2>16 DEF Crash
    <3> QED BY <2>16, <3>1, LoseChannelType, FaultType DEF Crash, TypeOK, Faults
  <2>17. ASSUME NEW d \in deliveries, RetryChannelFails(d) PROVE TypeOK'
      BY <2>17, StepType DEF RetryChannelFails, TypeOK
  <2>18. ASSUME NEW d \in deliveries, PublishFails(d) PROVE TypeOK'
    <3>1. brokerOK' /\ channelsOK'
        BY <2>18, DeliveryFields, SettleType DEF PublishFails, NackOnVia, BrokerNack, TypeOK
    <3>2. deliveries' \subseteq Delivery
        BY <2>18, StepType DEF PublishFails
    <3> QED BY <2>18, <3>1, <3>2, FaultType DEF PublishFails, TypeOK, Faults
  <2>19. CASE UNCHANGED vars
      BY <2>19 DEF vars, TypeOK
  <2> QED BY <2>1, <2>2, <2>3, <2>4, <2>5, <2>6, <2>7, <2>8, <2>9, <2>10, <2>11, <2>12,
             <2>13, <2>14, <2>15, <2>16, <2>17, <2>18, <2>19 DEF Next, Progress, Disturbance
<1> QED BY <1>1, <1>2, PTL DEF Spec

-----------------------------------------------------------------------------
(* What a step does to the copies, and to the deliveries.                  *)

Moved(c) ==
    \/ copies'[c] = copies[c]
    \/ copies[c].state \in {"ready", "unacked"} /\ copies'[c] = Requeued(c)
    \/ copies[c].state = "unacked" /\ copies'[c] = Gone(c)
    \/ copies[c].state = "ready" /\ \E w \in Workers : copies'[c] = HandedTo(w, c)

AllMoved == accepted' = accepted /\ \A c \in Copies : Moved(c)

(* A copy is accepted for a published message, a retry or a dead letter.   *)
Origin(m, q, n) ==
    \/ q = "work" /\ n = 0 /\ m \in Messages
    \/ \E d \in deliveries :
          /\ m = copies[d.copy].message
          /\ \/ d.stage = "retryWait" /\ q = copies[d.copy].queue /\ n = copies[d.copy].count + 1
             \/ /\ d.stage = "saving" /\ copies[d.copy].queue \in DeadLettering
                /\ q = "dead" /\ n = copies[d.copy].count

Accepts ==
    \E m \in Messages \cup {None}, q \in Queues, n \in Nat : Enqueue(m, q, n) /\ Origin(m, q, n)

LEMMA LoseChannelMoves ==
    ASSUME TypeOK, NEW w \in Workers, NEW wire, LoseChannel(w, wire),
           \A c \in wire \cap Copies : copies[c].state = "ready"
    PROVE  AllMoved
<1>1. accepted' = accepted
    BY DEF LoseChannel
<1>2. ASSUME NEW c \in Copies PROVE Moved(c)
    BY DEF LoseChannel, HeldOn, Moved
<1> QED BY <1>1, <1>2 DEF AllMoved

LEMMA SettleMoves ==
    ASSUME TypeOK, NEW w \in Workers, NEW t, NEW requeue \in BOOLEAN, Settle(w, t, requeue)
    PROVE  AllMoved
<1>1. CASE LoseChannel(w, {}) BY <1>1, LoseChannelMoves
<1>2. CASE ~LoseChannel(w, {})
  <2>1. accepted' = accepted
      BY <1>2 DEF Settle
  <2>2. ASSUME NEW c \in Copies PROVE Moved(c)
      BY <1>2 DEF Settle, Held, HeldOn, Moved
  <2> QED BY <2>1, <2>2 DEF AllMoved
<1> QED BY <1>1, <1>2

LEMMA BrokerAckMoves ==
    ASSUME TypeOK, NEW w \in Workers, NEW t, BrokerAck(w, t)
    PROVE  AllMoved
BY SettleMoves, LoseChannelMoves DEF BrokerAck

LEMMA UnchangedMoves ==
    ASSUME UNCHANGED broker
    PROVE  AllMoved
BY DEF broker, AllMoved, Moved

(* Every step either leaves the copies where they are, up to the broker    *)
(* taking one back, handing one over or forgetting one, or accepts one.    *)
LEMMA StepOnCopies ==
    ASSUME TypeOK, [Next]_vars
    PROVE  AllMoved \/ Accepts
<1> USE DEF channels
<1>1. ASSUME NEW m \in Messages, Publish(m) PROVE Accepts
    BY <1>1 DEF Publish, Accepts, Origin, Queues
<1>2. ASSUME NEW w \in Workers, Start(w) PROVE AllMoved
    BY <1>2, UnchangedMoves DEF Start
<1>3. ASSUME NEW w \in Workers, OpenForRetry(w) PROVE AllMoved
    BY <1>3, UnchangedMoves DEF OpenForRetry
<1>4. ASSUME NEW w \in Workers, NEW c \in Copies, Deliver(w, c) PROVE AllMoved
    BY <1>4 DEF Deliver, AllMoved, Moved, TypeOK
<1>5. ASSUME NEW d \in deliveries, HandlerReturns(d) PROVE AllMoved
    BY <1>5, UnchangedMoves DEF HandlerReturns
<1>6. ASSUME NEW d \in deliveries, NEW status \in BOOLEAN, HandlerThrows(d, status)
      PROVE  AllMoved
    BY <1>6, UnchangedMoves DEF HandlerThrows
<1>7. ASSUME NEW d \in deliveries, ReplyAndAck(d) PROVE AllMoved
    BY <1>7, DeliveryFields, UnchangedMoves, BrokerAckMoves DEF ReplyAndAck
<1>8. ASSUME NEW d \in deliveries, HandleRetry(d) PROVE AllMoved
    BY <1>8, DeliveryFields, UnchangedMoves, BrokerAckMoves DEF HandleRetry
<1>9. ASSUME NEW d \in deliveries, Republish(d) PROVE Accepts
  <2>1. NextCount(copies[d.copy].count) \in Nat
      BY DeliveryFields DEF NextCount
  <2>2. Origin(copies[d.copy].message, copies[d.copy].queue, NextCount(copies[d.copy].count))
      BY <1>9 DEF Republish, Origin, NextCount
  <2> QED BY <1>9, <2>1, <2>2, DeliveryFields DEF Republish, Accepts
<1>10. ASSUME NEW d \in deliveries, RetryAck(d) PROVE AllMoved
    BY <1>10, DeliveryFields, UnchangedMoves, BrokerAckMoves DEF RetryAck, AckOnVia
<1>11. ASSUME NEW d \in deliveries, SaveDeadLetter(d) PROVE AllMoved \/ Accepts
  <2>1. CASE copies[d.copy].queue \in DeadLettering
    <3>1. Enqueue(copies[d.copy].message, "dead", copies[d.copy].count)
        BY <1>11, <2>1 DEF SaveDeadLetter
    <3>2. Origin(copies[d.copy].message, "dead", copies[d.copy].count)
        BY <1>11, <2>1 DEF SaveDeadLetter, Origin
    <3> QED BY <3>1, <3>2, DeliveryFields DEF Accepts, Queues
  <2>2. CASE copies[d.copy].queue \notin DeadLettering
      BY <1>11, <2>2, UnchangedMoves DEF SaveDeadLetter
  <2> QED BY <2>1, <2>2
<1>12. ASSUME NEW d \in deliveries, ErrorReplyAndAck(d) PROVE AllMoved
    BY <1>12, DeliveryFields, UnchangedMoves, BrokerAckMoves DEF ErrorReplyAndAck, AckOnVia
<1>13. ASSUME NEW d \in deliveries, StatusReply(d) PROVE AllMoved
    BY <1>13, UnchangedMoves DEF StatusReply
<1>14. ASSUME NEW w \in Workers, Resubscribe(w) PROVE AllMoved
    BY <1>14, UnchangedMoves DEF Resubscribe
<1>15. ASSUME NEW w \in Workers, CloseChannel(w) \/ Crash(w) PROVE AllMoved
  <2>1. PICK wire \in OnTheWire(w) : LoseChannel(w, wire)
      BY <1>15 DEF CloseChannel, Crash
  <2>2. \A c \in wire \cap Copies : copies[c].state = "ready"
      BY DEF OnTheWire
  <2> QED BY <2>1, <2>2, LoseChannelMoves
<1>16. ASSUME NEW d \in deliveries, RetryChannelFails(d) PROVE AllMoved
    BY <1>16, UnchangedMoves DEF RetryChannelFails
<1>17. ASSUME NEW d \in deliveries, PublishFails(d) PROVE AllMoved
    BY <1>17, DeliveryFields, UnchangedMoves, SettleMoves DEF PublishFails, NackOnVia, BrokerNack
<1>18. CASE UNCHANGED vars
    BY <1>18, UnchangedMoves DEF vars, broker
<1> QED BY <1>1, <1>2, <1>3, <1>4, <1>5, <1>6, <1>7, <1>8, <1>9, <1>10, <1>11, <1>12,
           <1>13, <1>14, <1>15, <1>16, <1>17, <1>18 DEF Next, Progress, Disturbance

(* e continues d: same copy on the same channel, and a retry or a dead     *)
(* letter only as handleRetry decides.                                     *)
Continues(e, d) ==
    /\ e.worker = d.worker /\ e.copy = d.copy /\ e.channel = d.channel /\ e.tag = d.tag
    /\ e.stage = "retryWait" => MayRetry(d.copy)
    /\ e.stage = "saving" => ~MayRetry(d.copy)

Descends(e) ==
    \/ e \in deliveries
    \/ \E w \in Workers, c \in Copies : copies[c].state = "ready" /\ e = Received(w, c)
    \/ \E d \in deliveries : Continues(e, d)

AllDescend == \A e \in deliveries' : Descends(e)
AllContinue == \A e \in deliveries' : e \in deliveries \/ \E d \in deliveries : Continues(e, d)

LEMMA StepContinues ==
    ASSUME TypeOK, NEW d \in deliveries
    PROVE  /\ \A s \in Stages \ {"retryWait", "saving"} : Goto(d, s) => AllContinue
           /\ \A b \in BOOLEAN : Fail(d, b) => AllContinue
           /\ End(d) => AllContinue
           /\ deliveries' = (deliveries \ {d}) \cup {Decided(d)} => AllContinue
<1>1. d \in Delivery BY DEF TypeOK
<1>2. ASSUME NEW s \in Stages \ {"retryWait", "saving"}, Goto(d, s) PROVE AllContinue
  <2>1. Continues([d EXCEPT !.stage = s], d)
      BY <1>1 DEF Continues, Delivery
  <2> QED BY <1>2, <2>1 DEF Goto, AllContinue
<1>3. ASSUME NEW b \in BOOLEAN, Fail(d, b) PROVE AllContinue
  <2>1. Continues([d EXCEPT !.stage = "failed", !.status = b], d)
      BY <1>1 DEF Continues, Delivery
  <2> QED BY <1>3, <2>1 DEF Fail, AllContinue
<1>4. End(d) => AllContinue
    BY DEF End, AllContinue
<1>5. ASSUME deliveries' = (deliveries \ {d}) \cup {Decided(d)} PROVE AllContinue
  <2>1. Continues(Decided(d), d)
      BY <1>1 DEF Continues, Decided, Delivery
  <2> QED BY <1>5, <2>1 DEF AllContinue
<1> QED BY <1>2, <1>3, <1>4, <1>5

LEMMA StepOnDeliveries ==
    ASSUME TypeOK, [Next]_vars
    PROVE  AllDescend
<1> USE DEF channels
<1>0. AllContinue => AllDescend
    BY DEF AllContinue, AllDescend, Descends
<1>1. ASSUME deliveries' \subseteq deliveries PROVE AllDescend
    BY <1>1 DEF AllDescend, Descends
<1>2. ASSUME NEW m \in Messages, Publish(m) PROVE AllDescend
    BY <1>2, <1>1 DEF Publish
<1>3. ASSUME NEW w \in Workers,
             Start(w) \/ OpenForRetry(w) \/ Resubscribe(w) \/ CloseChannel(w) \/ Crash(w)
      PROVE  AllDescend
    BY <1>3, <1>1 DEF Start, OpenForRetry, Resubscribe, CloseChannel, Crash
<1>4. ASSUME NEW w \in Workers, NEW c \in Copies, Deliver(w, c) PROVE AllDescend
    BY <1>4 DEF Deliver, AllDescend, Descends
<1>5. ASSUME NEW d \in deliveries, HandlerReturns(d) PROVE AllDescend
    BY <1>5, StepContinues, <1>0 DEF HandlerReturns, Stages
<1>6. ASSUME NEW d \in deliveries, NEW status \in BOOLEAN, HandlerThrows(d, status)
      PROVE  AllDescend
    BY <1>6, StepContinues, <1>0 DEF HandlerThrows
<1>7. ASSUME NEW d \in deliveries, ReplyAndAck(d) PROVE AllDescend
    BY <1>7, StepContinues, <1>0 DEF ReplyAndAck
<1>8. ASSUME NEW d \in deliveries, HandleRetry(d) PROVE AllDescend
  <2>1. CASE d.status
      BY <1>8, <2>1, StepContinues, <1>0 DEF HandleRetry, Stages
  <2>2. CASE ~d.status
      BY <1>8, <2>2, StepContinues, <1>0 DEF HandleRetry
  <2> QED BY <2>1, <2>2
<1>9. ASSUME NEW d \in deliveries, Republish(d) PROVE AllDescend
    BY <1>9, StepContinues, <1>0 DEF Republish, Stages
<1>10. ASSUME NEW d \in deliveries, SaveDeadLetter(d) PROVE AllDescend
    BY <1>10, StepContinues, <1>0 DEF SaveDeadLetter, Stages
<1>11. ASSUME NEW d \in deliveries,
              RetryAck(d) \/ ErrorReplyAndAck(d) \/ StatusReply(d) \/ RetryChannelFails(d)
       PROVE  AllDescend
    BY <1>11, StepContinues, <1>0 DEF RetryAck, ErrorReplyAndAck, StatusReply, RetryChannelFails
<1>12. ASSUME NEW d \in deliveries, PublishFails(d) PROVE AllDescend
    BY <1>12, StepContinues, <1>0 DEF PublishFails
<1>13. CASE UNCHANGED vars
    BY <1>13, <1>1 DEF vars
<1> QED BY <1>2, <1>3, <1>4, <1>5, <1>6, <1>7, <1>8, <1>9, <1>10, <1>11, <1>12, <1>13
        DEF Next, Progress, Disturbance

-----------------------------------------------------------------------------
(* The retry ladder.                                                       *)

LEMMA MovedKeeps ==
    ASSUME TypeOK, NEW c \in Copies, Moved(c)
    PROVE  /\ copies'[c].message = copies[c].message
           /\ copies'[c].queue = copies[c].queue
           /\ copies'[c].count = copies[c].count
           /\ copies[c].state = "absent" => copies'[c] = copies[c]
           /\ copies'[c].state = "absent" => copies[c].state = "absent"
BY DEF TypeOK, Moved, Copy, Requeued, Gone, HandedTo

LEMMA EnqueueKeeps ==
    ASSUME TypeOK, NEW m, NEW q, NEW n, Enqueue(m, q, n)
    PROVE  /\ accepted + 1 \in Copies /\ accepted' = accepted + 1
           /\ \A c \in Copies : c # accepted + 1 => copies'[c] = copies[c]
           /\ copies'[accepted + 1].message = m
           /\ copies'[accepted + 1].queue = q
           /\ copies'[accepted + 1].count = n
           /\ copies'[accepted + 1].state = "ready"
           /\ ~copies'[accepted + 1].redelivered
           /\ copies'[accepted + 1].runs = 0
<1>1. accepted + 1 \in Copies
    BY BoundAssumption DEF TypeOK, Enqueue
<1> QED BY <1>1, BoundAssumption DEF TypeOK, Enqueue, Absent, Copy

LEMMA NumberedStep ==
    ASSUME TypeOK, Numbered, [Next]_vars
    PROVE  Numbered'
<1>1. CASE AllMoved
  <2>1. ASSUME NEW c \in Copies
        PROVE  /\ c <= accepted => copies'[c].state # "absent" /\ copies'[c].message \in Messages
               /\ c > accepted => copies'[c] = Absent
    <3>1. Moved(c)
        BY <1>1 DEF AllMoved
    <3>2. c > accepted => copies[c].state = "absent"
        BY DEF Numbered, Absent
    <3> QED BY <3>1, <3>2, MovedKeeps DEF Numbered
  <2>2. ASSUME NEW e \in deliveries' PROVE e.copy <= accepted
    <3>1. CASE e \in deliveries BY <3>1 DEF Numbered
    <3>2. ASSUME NEW w \in Workers, NEW c \in Copies, copies[c].state = "ready", e = Received(w, c)
          PROVE  e.copy <= accepted
        BY <3>2 DEF Received, Numbered, Absent, TypeOK
    <3>3. ASSUME NEW d \in deliveries, Continues(e, d) PROVE e.copy <= accepted
        BY <3>3 DEF Continues, Numbered
    <3> QED BY <3>1, <3>2, <3>3, StepOnDeliveries DEF AllDescend, Descends
  <2> QED BY <1>1, <2>1, <2>2 DEF Numbered, AllMoved
<1>2. CASE Accepts
  <2>1. PICK m \in Messages \cup {None}, q \in Queues, n \in Nat : Enqueue(m, q, n) /\ Origin(m, q, n)
      BY <1>2 DEF Accepts
  <2>2. m \in Messages
      BY <2>1 DEF Origin, Numbered, TypeOK, Delivery
  <2>3. ASSUME NEW c \in Copies
        PROVE  /\ c <= accepted' => copies'[c].state # "absent" /\ copies'[c].message \in Messages
               /\ c > accepted' => copies'[c] = Absent
      BY <2>1, <2>2, EnqueueKeeps DEF Numbered, TypeOK
  <2>4. ASSUME NEW e \in deliveries' PROVE e.copy <= accepted'
    <3>1. CASE e \in deliveries BY <2>1, <3>1, EnqueueKeeps DEF Numbered, TypeOK, Delivery
    <3>2. ASSUME NEW w \in Workers, NEW c \in Copies, copies[c].state = "ready", e = Received(w, c)
          PROVE  e.copy <= accepted'
      <4>1. e.copy = c /\ c <= accepted
          BY <3>2 DEF Received, Numbered, Absent, TypeOK
      <4> QED BY <2>1, <4>1, EnqueueKeeps DEF TypeOK
    <3>3. ASSUME NEW d \in deliveries, Continues(e, d) PROVE e.copy <= accepted'
      <4>1. e.copy = d.copy /\ d.copy \in Copies /\ d.copy <= accepted
          BY <3>3, DeliveryFields DEF Continues, Numbered
      <4> QED BY <2>1, <4>1, EnqueueKeeps DEF TypeOK
    <3> QED BY <3>1, <3>2, <3>3, StepOnDeliveries DEF AllDescend, Descends
  <2> QED BY <2>3, <2>4 DEF Numbered
<1> QED BY <1>1, <1>2, StepOnCopies

LEMMA LadderStep ==
    ASSUME TypeOK, LadderInv, [Next]_vars
    PROVE  LadderInv'
<1>1. Numbered'
    BY NumberedStep DEF LadderInv
<1>2. ASSUME NEW c \in Copies, c <= accepted
      PROVE  /\ copies'[c].message = copies[c].message
             /\ copies'[c].queue = copies[c].queue
             /\ copies'[c].count = copies[c].count
             /\ MayRetry(c)' <=> MayRetry(c)
  <2>1. CASE AllMoved
      BY <2>1, <1>2, MovedKeeps DEF AllMoved, MayRetry
  <2>2. CASE Accepts
      BY <2>2, <1>2, EnqueueKeeps DEF Accepts, MayRetry, TypeOK
  <2> QED BY <2>1, <2>2, StepOnCopies
<1>3. Decisions'
  <2> SUFFICES ASSUME NEW e \in deliveries'
               PROVE  /\ e.stage = "retryWait" => MayRetry(e.copy)'
                      /\ e.stage = "saving" => ~MayRetry(e.copy)'
      BY DEF Decisions
  <2>1. CASE e \in deliveries
      BY <2>1, <1>2, DeliveryFields DEF LadderInv, Decisions, Numbered
  <2>2. ASSUME NEW w \in Workers, NEW c \in Copies, e = Received(w, c)
        PROVE  e.stage # "retryWait" /\ e.stage # "saving"
      BY <2>2 DEF Received
  <2>3. ASSUME NEW d \in deliveries, Continues(e, d)
        PROVE  /\ e.stage = "retryWait" => MayRetry(e.copy)'
               /\ e.stage = "saving" => ~MayRetry(e.copy)'
      BY <2>3, <1>2, DeliveryFields DEF LadderInv, Numbered, Continues
  <2> QED BY <2>1, <2>2, <2>3, StepOnDeliveries DEF AllDescend, Descends
<1>4. CASE AllMoved
  <2>1. \A c \in Copies : /\ copies'[c].message = copies[c].message
                          /\ copies'[c].queue = copies[c].queue
                          /\ copies'[c].count = copies[c].count
      BY <1>4, MovedKeeps DEF AllMoved
  <2>2. RetryLadder'
      BY <2>1 DEF LadderInv, RetryLadder
  <2>3. DeadLetterExhausted'
      BY <2>1 DEF LadderInv, DeadLetterExhausted
  <2> QED BY <1>1, <1>3, <2>2, <2>3 DEF LadderInv
<1>5. CASE Accepts
  <2>1. PICK m \in Messages \cup {None}, q \in Queues, n \in Nat : Enqueue(m, q, n) /\ Origin(m, q, n)
      BY <1>5 DEF Accepts
  <2> DEFINE new == accepted + 1
  <2>2. /\ new \in Copies
        /\ copies'[new].message = m /\ copies'[new].queue = q /\ copies'[new].count = n
        /\ \A c \in Copies : c # new => copies'[c] = copies[c]
      BY <2>1, EnqueueKeeps
  <2>3. \A c \in Copies : c > new => copies[c].queue = "work" /\ copies[c].count = 0
      BY DEF LadderInv, Numbered, Absent, TypeOK
  <2>4. \A c \in Copies : c <= accepted => c < new /\ copies'[c] = copies[c]
      BY <2>2 DEF TypeOK
  <2>5. q = "work" /\ n > 0 => /\ n <= RetryMax["work"]
                               /\ \E p \in Copies : /\ p <= accepted /\ copies[p].message = m
                                                    /\ copies[p].queue = "work"
                                                    /\ copies[p].count = n - 1
    <3>1. CASE q = "work" /\ n = 0 BY <3>1
    <3>2. ASSUME NEW d \in deliveries, m = copies[d.copy].message,
                 d.stage = "retryWait", q = copies[d.copy].queue, n = copies[d.copy].count + 1,
                 q = "work"
          PROVE  /\ n <= RetryMax["work"]
                 /\ \E p \in Copies : /\ p <= accepted /\ copies[p].message = m
                                      /\ copies[p].queue = "work"
                                      /\ copies[p].count = n - 1
      <4>1. d.copy <= accepted /\ MayRetry(d.copy)
          BY <3>2 DEF LadderInv, Numbered, Decisions
      <4>2. copies[d.copy].count = n - 1
          BY <3>2, DeliveryFields
      <4> QED BY <3>2, <4>1, <4>2, DeliveryFields DEF MayRetry
    <3> QED BY <2>1, <3>1, <3>2 DEF Origin
  <2>6. q = "dead" => /\ "work" \in DeadLettering
                      /\ \E p \in Copies : /\ p <= accepted /\ copies[p].message = m
                                           /\ copies[p].queue = "work"
                                           /\ copies[p].count = RetryMax["work"]
    <3>1. ASSUME NEW d \in deliveries, m = copies[d.copy].message, copies[d.copy].queue = "dead"
          PROVE  /\ "work" \in DeadLettering
                 /\ \E p \in Copies : /\ p <= accepted /\ copies[p].message = m
                                      /\ copies[p].queue = "work"
                                      /\ copies[p].count = RetryMax["work"]
      <4>1. d.copy \in Copies /\ d.copy <= accepted
          BY DeliveryFields DEF LadderInv, Numbered
      <4>2. "work" \in DeadLettering
          BY <3>1, <4>1 DEF LadderInv, DeadLetterExhausted
      <4>3. PICK p \in Copies : /\ p < d.copy /\ copies[p].message = m
                                /\ copies[p].queue = "work"
                                /\ copies[p].count = RetryMax["work"]
          BY <3>1, <4>1 DEF LadderInv, DeadLetterExhausted
      <4>4. p <= accepted
          BY <4>1, <4>3 DEF TypeOK
      <4> QED BY <4>2, <4>3, <4>4
    <3>2. ASSUME NEW d \in deliveries, m = copies[d.copy].message, copies[d.copy].queue = "work",
                 d.stage = "saving"
          PROVE  \E p \in Copies : /\ p <= accepted /\ copies[p].message = m
                                   /\ copies[p].queue = "work"
                                   /\ copies[p].count = RetryMax["work"]
      <4>1. d.copy \in Copies /\ d.copy <= accepted /\ ~MayRetry(d.copy)
          BY <3>2, DeliveryFields DEF LadderInv, Numbered, Decisions
      <4>2. copies[d.copy].count \in Nat /\ RetryMax["work"] \in Nat
          BY DeliveryFields, SubscriptionAssumption DEF Queues
      <4>3. copies[d.copy].count > 0 => copies[d.copy].count <= RetryMax["work"]
          BY <3>2, <4>1 DEF LadderInv, RetryLadder
      <4>4. copies[d.copy].count = RetryMax["work"]
          BY <3>2, <4>1, <4>2, <4>3 DEF MayRetry
      <4> QED BY <3>2, <4>1, <4>4
    <3>3. CASE q = "work"
        BY <3>3
    <3>4. CASE q = "dead"
      <4>1. PICK d \in deliveries :
                /\ m = copies[d.copy].message
                /\ \/ d.stage = "retryWait" /\ copies[d.copy].queue = "dead"
                   \/ d.stage = "saving" /\ copies[d.copy].queue \in DeadLettering
          BY <2>1, <3>4 DEF Origin
      <4>2. copies[d.copy].queue \in Queues
          BY DeliveryFields
      <4>3. CASE copies[d.copy].queue = "dead"
          BY <3>1, <4>1, <4>3
      <4>4. CASE copies[d.copy].queue = "work"
          BY <3>2, <4>1, <4>4
      <4> QED BY <4>2, <4>3, <4>4 DEF Queues
    <3> QED BY <3>3, <3>4 DEF Queues
  <2>7. RetryLadder'
    <3> SUFFICES ASSUME NEW c \in Copies, copies'[c].queue = "work", copies'[c].count > 0
                 PROVE  /\ copies'[c].count <= RetryMax["work"]
                        /\ \E p \in Copies : /\ p < c
                                             /\ copies'[p].message = copies'[c].message
                                             /\ copies'[p].queue = "work"
                                             /\ copies'[p].count = copies'[c].count - 1
        BY DEF RetryLadder
    <3>1. CASE c = new
        BY <2>2, <2>4, <2>5, <3>1
    <3>2. CASE c # new
      <4>1. copies'[c] = copies[c]
          BY <2>2, <3>2
      <4>2. c < new
          BY <2>3, <3>2, <4>1 DEF TypeOK
      <4>3. PICK p \in Copies : /\ p < c /\ copies[p].message = copies[c].message
                                /\ copies[p].queue = "work"
                                /\ copies[p].count = copies[c].count - 1
          BY <4>1 DEF LadderInv, RetryLadder
      <4>4. copies'[p] = copies[p]
          BY <2>2, <4>2, <4>3
      <4> QED BY <4>1, <4>3, <4>4 DEF LadderInv, RetryLadder
    <3> QED BY <3>1, <3>2
  <2>8. DeadLetterExhausted'
    <3> SUFFICES ASSUME NEW c \in Copies, copies'[c].queue = "dead"
                 PROVE  /\ "work" \in DeadLettering
                        /\ \E p \in Copies : /\ p < c
                                             /\ copies'[p].message = copies'[c].message
                                             /\ copies'[p].queue = "work"
                                             /\ copies'[p].count = RetryMax["work"]
        BY DEF DeadLetterExhausted
    <3>1. CASE c = new
        BY <2>2, <2>4, <2>6, <3>1
    <3>2. CASE c # new
      <4>1. copies'[c] = copies[c]
          BY <2>2, <3>2
      <4>2. c < new
          BY <2>3, <3>2, <4>1 DEF TypeOK
      <4>3. PICK p \in Copies : /\ p < c /\ copies[p].message = copies[c].message
                                /\ copies[p].queue = "work"
                                /\ copies[p].count = RetryMax["work"]
          BY <4>1 DEF LadderInv, DeadLetterExhausted
      <4>4. copies'[p] = copies[p]
          BY <2>2, <4>2, <4>3
      <4>5. "work" \in DeadLettering
          BY <4>1 DEF LadderInv, DeadLetterExhausted
      <4> QED BY <4>1, <4>2, <4>3, <4>4, <4>5
    <3> QED BY <3>1, <3>2
  <2> QED BY <1>1, <1>3, <2>7, <2>8 DEF LadderInv
<1> QED BY <1>4, <1>5, StepOnCopies

LEMMA LadderInvariance == Spec => []LadderInv
<1>1. Init => LadderInv
    BY DEF Init, LadderInv, Numbered, Decisions, RetryLadder, DeadLetterExhausted, Absent
<1>2. TypeOK /\ LadderInv /\ [Next]_vars => LadderInv'
    BY LadderStep
<1> QED BY <1>1, <1>2, TypeCorrect, PTL DEF Spec

(* The retry count of a message climbs one by one and never passes max     *)
(* (RetryLadder), for any number of workers and messages and any faults,   *)
(* subscriptions within a process included.                                *)
THEOREM RetryLadderHolds == Spec => []RetryLadder
<1>1. LadderInv => RetryLadder BY DEF LadderInv
<1> QED BY <1>1, LadderInvariance, PTL

(* Only a message that was retried max times is dead-lettered, and only    *)
(* from a subscription that dead-letters (DeadLetterExhausted): the        *)
(* decision is taken on the count of a copy whose predecessors on the      *)
(* ladder all exist.                                                       *)
THEOREM DeadLettersExhausted == Spec => []DeadLetterExhausted
<1>1. LadderInv => DeadLetterExhausted BY DEF LadderInv
<1> QED BY <1>1, LadderInvariance, PTL

-----------------------------------------------------------------------------
(* No copy of a work message is executed twice.                            *)

LEMMA RunsStep ==
    ASSUME TypeOK, RunsInv, [Next]_vars
    PROVE  RunsInv'
<1>1. ASSUME NEW c \in Copies, Moved(c), copies'[c].queue = "work"
      PROVE  /\ copies'[c].runs <= 1
             /\ copies'[c].state \in {"absent", "ready"} /\ ~copies'[c].redelivered => copies'[c].runs = 0
  <2>1. copies[c] \in Copy /\ copies[c].queue = "work"
      BY <1>1, MovedKeeps DEF TypeOK
  <2>2. /\ copies[c].runs \in Nat /\ copies[c].runs <= 1
        /\ copies[c].state \in {"absent", "ready"} /\ ~copies[c].redelivered => copies[c].runs = 0
      BY <2>1 DEF RunsInv, Copy
  <2>3. CASE copies'[c] = copies[c] BY <2>2, <2>3
  <2>4. CASE copies'[c] = Requeued(c) BY <2>1, <2>2, <2>4 DEF Requeued, Copy
  <2>5. CASE copies'[c] = Gone(c) BY <2>1, <2>2, <2>5 DEF Gone, Copy
  <2>6. ASSUME NEW w \in Workers, copies'[c] = HandedTo(w, c), copies[c].state = "ready"
        PROVE  copies'[c].runs <= 1 /\ copies'[c].state = "unacked"
    <3>1. RunsAfter(c) <= 1
        BY <2>1, <2>2, <2>6 DEF RunsAfter, RedeliveredFailure, IgnoresRedelivery
    <3> QED BY <2>1, <2>6, <3>1 DEF HandedTo, Copy
  <2> QED BY <1>1, <2>3, <2>4, <2>5, <2>6 DEF Moved
<1>2. CASE AllMoved
    BY <1>1, <1>2 DEF AllMoved, RunsInv
<1>3. CASE Accepts
    BY <1>3, EnqueueKeeps DEF Accepts, RunsInv
<1> QED BY <1>2, <1>3, StepOnCopies

(* The handler never runs twice for the same copy of a work message        *)
(* (RunsOnce), however often channels are lost and processes crash.        *)
THEOREM RunsOnceHolds == Spec => []RunsOnce
<1>1. Init => RunsInv
    BY DEF Init, RunsInv, Absent
<1>2. TypeOK /\ RunsInv /\ [Next]_vars => RunsInv'
    BY RunsStep
<1>3. RunsInv => RunsOnce
    BY DEF RunsInv, RunsOnce
<1> QED BY <1>1, <1>2, <1>3, TypeCorrect, PTL DEF Spec

-----------------------------------------------------------------------------
(* What the broker has handed over is on the consumer's channel.           *)

Handing == Channels /\ Holding

LEMMA LoseChannelHolding ==
    ASSUME TypeOK, Handing, NEW w \in Workers, NEW wire, LoseChannel(w, wire),
           consumer' = consumer \/ consumer' = [consumer EXCEPT ![w] = 0]
    PROVE  Handing'
<1>1. Channels'
    BY DEF TypeOK, Handing, Channels, LoseChannel
<1>2. ASSUME NEW c \in Copies, copies'[c].state = "unacked"
      PROVE  /\ copies'[c] = copies[c] /\ copies[c].state = "unacked" /\ copies[c].worker # w
    BY <1>2 DEF TypeOK, Handing, Holding, LoseChannel, HeldOn, Requeued, Copy
<1>3. Holding'
    BY <1>2 DEF TypeOK, Handing, Holding, LoseChannel, Consuming
<1> QED BY <1>1, <1>3 DEF Handing

LEMMA SettleHolding ==
    ASSUME TypeOK, Handing, NEW w \in Workers, NEW t, NEW requeue \in BOOLEAN,
           Settle(w, t, requeue), consumer' = consumer
    PROVE  Handing'
<1>1. CASE LoseChannel(w, {}) BY <1>1, LoseChannelHolding
<1>2. CASE ~LoseChannel(w, {})
  <2>1. UNCHANGED <<channel, lastChannel, lastTag>>
      BY <1>2 DEF Settle
  <2>2. ASSUME NEW c \in Copies, copies'[c].state = "unacked"
        PROVE  copies'[c] = copies[c]
      BY <1>2, <2>2, Results DEF TypeOK, Settle
  <2> QED BY <2>1, <2>2 DEF Handing, Channels, Holding, Consuming
<1> QED BY <1>1, <1>2

LEMMA BrokerAckHolding ==
    ASSUME TypeOK, Handing, NEW w \in Workers, NEW t, BrokerAck(w, t), consumer' = consumer
    PROVE  Handing'
BY SettleHolding, LoseChannelHolding DEF BrokerAck

LEMMA OpenHolding ==
    ASSUME TypeOK, Handing, NEW w \in Workers, Open(w), ~Consuming(w), copies' = copies,
           consumer' = consumer \/ consumer' = [consumer EXCEPT ![w] = lastChannel[w] + 1]
    PROVE  Handing'
<1>1. Channels'
    BY DEF TypeOK, Handing, Channels, Open
<1>2. \A c \in Copies : copies[c].state = "unacked" => copies[c].worker # w
    BY DEF Handing, Holding
<1>3. Holding'
    BY <1>2 DEF TypeOK, Handing, Holding, Open, Consuming
<1> QED BY <1>1, <1>3 DEF Handing

LEMMA EnqueueHolding ==
    ASSUME TypeOK, Handing, NEW m, NEW q, NEW n, Enqueue(m, q, n), UNCHANGED channels
    PROVE  Handing'
<1>1. \A c \in Copies : copies'[c].state = "unacked" => copies'[c] = copies[c]
    BY EnqueueKeeps
<1> QED BY <1>1 DEF Handing, Channels, Holding, Consuming, channels

LEMMA DeliverHolding ==
    ASSUME TypeOK, Handing, NEW w \in Workers, NEW c \in Copies, Deliver(w, c)
    PROVE  Handing'
<1>1. /\ HandedTo(w, c).worker = w /\ HandedTo(w, c).channel = channel[w]
      /\ HandedTo(w, c).tag = lastTag[w] + 1
    BY DEF HandedTo, TypeOK, Copy
<1>2. copies'[c] = HandedTo(w, c) /\ \A o \in Copies : o # c => copies'[o] = copies[o]
    BY DEF Deliver, TypeOK
<1>3. lastTag'[w] = lastTag[w] + 1 /\ \A v \in Workers : v # w => lastTag'[v] = lastTag[v]
    BY DEF Deliver, TypeOK
<1>4. Channels'
    BY DEF Deliver, Handing, Channels
<1>5. ASSUME NEW o \in Copies, copies'[o].state = "unacked"
      PROVE  /\ copies'[o].worker \in Workers
             /\ copies'[o].channel = channel[copies'[o].worker]
             /\ Consuming(copies'[o].worker)
             /\ copies'[o].tag <= lastTag'[copies'[o].worker]
  <2>1. CASE o = c
      BY <1>1, <1>2, <1>3, <2>1 DEF Deliver, TypeOK
  <2>2. CASE o # c
    <3>1. copies[o].tag \in Nat /\ copies[o].tag <= lastTag[copies[o].worker] /\ copies[o].worker \in Workers
        BY <1>2, <1>5, <2>2 DEF Handing, Holding, TypeOK, Copy
    <3>2. copies[o].tag <= lastTag'[copies[o].worker]
      <4>1. CASE copies[o].worker = w BY <1>3, <3>1, <4>1 DEF TypeOK
      <4>2. CASE copies[o].worker # w BY <1>3, <3>1, <4>2
      <4> QED BY <4>1, <4>2
    <3> QED BY <1>2, <1>5, <2>2, <3>1, <3>2 DEF Handing, Holding
  <2> QED BY <2>1, <2>2
<1>6. Holding'
    BY <1>5 DEF Deliver, Holding, Consuming
<1> QED BY <1>4, <1>6 DEF Handing

LEMMA TagsKept ==
    ASSUME TypeOK, Tags, AllContinue,
           \A e \in deliveries' : consumer'[e.worker] = consumer[e.worker],
           \A w \in Workers : Consuming(w)' /\ consumer'[w] = consumer[w]
                                => Consuming(w) /\ lastTag'[w] = lastTag[w],
           \A c \in Copies : copies'[c].state = "unacked" => copies'[c] = copies[c]
    PROVE  Tags'
<1>1. ASSUME NEW e \in deliveries' PROVE \E d \in deliveries : /\ e.worker = d.worker /\ e.copy = d.copy
                                                              /\ e.channel = d.channel /\ e.tag = d.tag
    BY DEF AllContinue, Continues
<1> SUFFICES ASSUME NEW e \in deliveries'
             PROVE  /\ e.channel = consumer'[e.worker]
                    /\ e.channel # 0
                    /\ Consuming(e.worker)' => e.tag <= lastTag'[e.worker]
                    /\ \A c \in Copies : copies'[c].state = "unacked" /\ copies'[c].worker = e.worker
                                            /\ copies'[c].tag = e.tag => c = e.copy
    BY DEF Tags, Consuming
<1>2. PICK d \in deliveries : /\ e.worker = d.worker /\ e.copy = d.copy
                              /\ e.channel = d.channel /\ e.tag = d.tag
    BY <1>1
<1>3. d.worker \in Workers
    BY DeliveryFields
<1> QED BY <1>2, <1>3 DEF Tags

LEMMA DeliverTags ==
    ASSUME TypeOK, Handing, Tags, NEW w \in Workers, NEW c \in Copies, Deliver(w, c)
    PROVE  Tags'
<1>1. /\ HandedTo(w, c).worker = w /\ HandedTo(w, c).tag = lastTag[w] + 1
    BY DEF HandedTo, TypeOK, Copy
<1>2. copies'[c] = HandedTo(w, c) /\ \A o \in Copies : o # c => copies'[o] = copies[o]
    BY DEF Deliver, TypeOK
<1>3. lastTag'[w] = lastTag[w] + 1 /\ \A v \in Workers : v # w => lastTag'[v] = lastTag[v]
    BY DEF Deliver, TypeOK
<1>4. UNCHANGED <<channel, consumer>> /\ Consuming(w) /\ copies[c].state = "ready"
    BY DEF Deliver
<1>5. \A o \in Copies : copies[o].state = "unacked" /\ copies[o].worker = w
                          => copies[o].tag \in Nat /\ copies[o].tag <= lastTag[w]
    BY DEF Handing, Holding, TypeOK, Copy
<1> SUFFICES ASSUME NEW e \in deliveries'
             PROVE  /\ e.channel = consumer[e.worker]
                    /\ e.channel # 0
                    /\ Consuming(e.worker) => e.tag <= lastTag'[e.worker]
                    /\ \A o \in Copies : copies'[o].state = "unacked" /\ copies'[o].worker = e.worker
                                            /\ copies'[o].tag = e.tag => o = e.copy
    BY <1>4 DEF Tags, Consuming
<1>6. CASE e = Received(w, c)
  <2>1. e.worker = w /\ e.copy = c /\ e.channel = channel[w] /\ e.tag = lastTag[w] + 1
      BY <1>6 DEF Received
  <2>2. \A o \in Copies : copies'[o].state = "unacked" /\ copies'[o].worker = w
                            /\ copies'[o].tag = lastTag[w] + 1 => o = c
    <3> SUFFICES ASSUME NEW o \in Copies, o # c, copies'[o].state = "unacked",
                        copies'[o].worker = w, copies'[o].tag = lastTag[w] + 1
                 PROVE  FALSE
        OBVIOUS
    <3>1. copies[o].tag \in Nat /\ copies[o].tag <= lastTag[w] /\ copies[o].tag = lastTag[w] + 1
        BY <1>2, <1>5
    <3>2. lastTag[w] \in Nat
        BY DEF TypeOK
    <3> QED BY <3>1, <3>2
  <2>3. lastTag[w] + 1 <= lastTag'[w]
      BY <1>3 DEF TypeOK
  <2> QED BY <1>4, <2>1, <2>2, <2>3 DEF Consuming
<1>7. CASE e \in deliveries
  <2>1. e.worker \in Workers /\ e.tag \in Nat /\ e.channel = consumer[e.worker] /\ e.channel # 0
      BY <1>7, DeliveryFields DEF Tags, TypeOK, Delivery
  <2>2. Consuming(e.worker) => e.tag <= lastTag[e.worker]
      BY <1>7 DEF Tags
  <2>3. Consuming(e.worker) => e.tag <= lastTag'[e.worker]
    <3>1. CASE e.worker = w BY <1>3, <2>1, <2>2, <3>1 DEF TypeOK
    <3>2. CASE e.worker # w BY <1>3, <2>1, <2>2, <3>2
    <3> QED BY <3>1, <3>2
  <2>4. ASSUME NEW o \in Copies, copies'[o].state = "unacked", copies'[o].worker = e.worker,
               copies'[o].tag = e.tag
        PROVE  o = e.copy
    <3>1. CASE o # c BY <1>2, <1>7, <2>4, <3>1 DEF Tags
    <3>2. CASE o = c
      <4>1. e.worker = w /\ e.tag = lastTag[w] + 1
          BY <1>1, <1>2, <2>4, <3>2
      <4> QED BY <1>4, <2>1, <2>2, <4>1 DEF TypeOK
    <3> QED BY <3>1, <3>2
  <2> QED BY <2>1, <2>3, <2>4
<1> QED BY <1>6, <1>7 DEF Deliver

-----------------------------------------------------------------------------
(* What is gone is covered.                                                *)

Stays(c) ==
    /\ Alive(c) => Alive(c)'
    /\ copies'[c].state = "gone" => copies[c].state = "gone"

Monotone == \A q \in Queues, m \in Messages : settled[q][m] \subseteq settled'[q][m]

CoveredStages == {"retryAck", "errorReply"}

LEMMA KeptHeads ==
    ASSUME TypeOK, AllMoved \/ Accepts, NEW c \in Copies, c <= accepted
    PROVE  copies'[c].message = copies[c].message /\ copies'[c].queue = copies[c].queue
<1>1. CASE AllMoved BY <1>1, MovedKeeps DEF AllMoved
<1>2. CASE Accepts BY <1>2, EnqueueKeeps DEF Accepts, TypeOK
<1> QED BY <1>1, <1>2

LEMMA CoverKept ==
    ASSUME TypeOK, Numbered, AllMoved \/ Accepts, Monotone,
           NEW c \in Copies, c <= accepted, Covered(c),
           \A o \in Copies : o > c => Stays(o) \/ Covered(o)'
    PROVE  Covered(c)'
<1> DEFINE q == copies[c].queue
           m == copies[c].message
<1>1. q \in Queues /\ m \in Messages
    BY DEF TypeOK, Numbered, Copy
<1>2. copies'[c].queue = q /\ copies'[c].message = m
    BY KeptHeads
<1>3. CASE Closed(q, m)
  <2>1. settled[q][m] \subseteq settled'[q][m]
      BY <1>1 DEF Monotone
  <2>2. Closed(q, m)'
      BY <1>3, <2>1, <1>2 DEF Closed
  <2> QED BY <1>2, <2>2 DEF Covered
<1>4. ASSUME NEW s \in Copies, s > c, Alive(s), copies[s].queue = q, copies[s].message = m
      PROVE  Covered(c)'
  <2>1. s <= accepted
      BY <1>4 DEF Numbered, Alive, Absent, TypeOK
  <2>2. copies'[s].queue = q /\ copies'[s].message = m
      BY <1>4, <2>1, KeptHeads
  <2>3. CASE Stays(s)
      BY <1>2, <1>4, <2>2, <2>3 DEF Stays, Covered
  <2>4. CASE Covered(s)'
      BY <1>2, <1>4, <2>2, <2>4 DEF Covered
  <2> QED BY <1>4, <2>3, <2>4
<1> QED BY <1>3, <1>4 DEF Covered

LEMMA CoverageStep ==
    ASSUME TypeOK, Numbered, Coverage, AllMoved \/ Accepts, Monotone,
           \A o \in Copies : Stays(o) \/ Covered(o)',
           \A e \in deliveries' : e.stage \in CoveredStages =>
               \/ \E d \in deliveries : d.stage \in CoveredStages /\ d.copy = e.copy
               \/ Covered(e.copy)'
    PROVE  Coverage'
<1>1. ASSUME NEW c \in Copies, copies'[c].state = "gone" PROVE Covered(c)'
  <2>1. CASE ~Stays(c) BY <2>1
  <2>2. CASE Stays(c)
    <3>1. copies[c].state = "gone" /\ c <= accepted
        BY <1>1, <2>2 DEF Stays, Numbered, Absent, TypeOK
    <3> QED BY <3>1, CoverKept DEF Coverage
  <2> QED BY <2>1, <2>2
<1>2. ASSUME NEW e \in deliveries', e.stage \in CoveredStages PROVE Covered(e.copy)'
  <2>1. ASSUME NEW d \in deliveries, d.stage \in CoveredStages, d.copy = e.copy
        PROVE  Covered(e.copy)'
      BY <2>1, DeliveryFields, CoverKept DEF Coverage, CoveredStages, Numbered
  <2> QED BY <1>2, <2>1
<1> QED BY <1>1, <1>2 DEF Coverage, CoveredStages

LEMMA LoseChannelStays ==
    ASSUME TypeOK, NEW w \in Workers, NEW wire, LoseChannel(w, wire),
           \A c \in wire \cap Copies : copies[c].state = "ready", NEW o \in Copies
    PROVE  Stays(o)
<1>1. CASE copies'[o] = copies[o] BY <1>1 DEF Stays, Alive
<1>2. CASE copies'[o] = Requeued(o) BY <1>2, Results DEF Stays, Alive
<1> QED BY <1>1, <1>2 DEF LoseChannel, TypeOK

LEMMA NackStays ==
    ASSUME TypeOK, NEW w \in Workers, NEW t, BrokerNack(w, t), NEW o \in Copies
    PROVE  Stays(o)
<1>1. CASE LoseChannel(w, {}) BY <1>1, LoseChannelStays
<1>2. CASE ~LoseChannel(w, {})
  <2>1. copies'[o] = copies[o] \/ copies'[o] = Requeued(o)
      BY <1>2 DEF BrokerNack, Settle, TypeOK
  <2> QED BY <2>1, Results DEF Stays, Alive
<1> QED BY <1>1, <1>2

(* An ack only ever removes the copy of its own delivery.                  *)
LEMMA AckStays ==
    ASSUME TypeOK, Tags, NEW d \in deliveries, BrokerAck(d.worker, d.tag),
           NEW o \in Copies, o # d.copy
    PROVE  Stays(o)
<1>1. d.worker \in Workers
    BY DeliveryFields
<1>2. CASE LoseChannel(d.worker, {}) BY <1>1, <1>2, LoseChannelStays
<1>3. CASE Settle(d.worker, d.tag, FALSE) /\ ~LoseChannel(d.worker, {})
  <2>1. ~Held(o, d.worker, channel[d.worker], d.tag)
      BY DEF Tags, Held, HeldOn
  <2>2. copies'[o] = copies[o]
      BY <1>3, <2>1 DEF Settle, TypeOK
  <2> QED BY <2>2 DEF Stays, Alive
<1> QED BY <1>2, <1>3 DEF BrokerAck

LEMMA SameStays ==
    ASSUME NEW o \in Copies, copies'[o] = copies[o]
    PROVE  Stays(o)
BY DEF Stays, Alive

LEMMA EnqueueStays ==
    ASSUME TypeOK, Numbered, NEW m, NEW q, NEW n, Enqueue(m, q, n), NEW o \in Copies
    PROVE  Stays(o)
<1>1. CASE o = accepted + 1
    BY <1>1, EnqueueKeeps DEF Stays, Alive
<1>2. CASE o # accepted + 1
    BY <1>2, EnqueueKeeps, SameStays
<1> QED BY <1>1, <1>2

LEMMA ConcludeCloses ==
    ASSUME TypeOK, Numbered, NEW d \in deliveries, NEW o \in Outcomes, Conclude(d, o)
    PROVE  Monotone /\ o \in settled'[copies[d.copy].queue][copies[d.copy].message]
<1>1. copies[d.copy].queue \in Queues /\ copies[d.copy].message \in Messages
    BY DeliveryFields DEF Numbered
<1> QED BY <1>1 DEF TypeOK, Conclude, Monotone

LEMMA ConcludedCovered ==
    ASSUME TypeOK, Numbered, AllMoved \/ Accepts, NEW d \in deliveries,
           NEW o \in Outcomes, Conclude(d, o), o # "saved" \/ copies[d.copy].queue = "work"
    PROVE  Covered(d.copy)'
<1>1. d.copy \in Copies /\ d.copy <= accepted
    BY DeliveryFields DEF Numbered
<1>2. o \in settled'[copies'[d.copy].queue][copies'[d.copy].message]
    BY <1>1, ConcludeCloses, KeptHeads
<1>3. copies'[d.copy].queue = copies[d.copy].queue
    BY <1>1, KeptHeads
<1> QED BY <1>2, <1>3 DEF Covered, Closed

(* The chains that await an ack after the step awaited it before.          *)
SameAwait ==
    \A e \in deliveries' : e.stage \in CoveredStages =>
        \E d \in deliveries : d.stage \in CoveredStages /\ d.copy = e.copy

LEMMA QuietLoss ==
    ASSUME TypeOK, LossInv, AllContinue, SameAwait, Monotone, UNCHANGED <<broker, channels>>
    PROVE  Handing' /\ Tags' /\ Coverage'
<1> USE DEF broker, channels
<1>1. Handing'
    BY DEF LossInv, Handing, Channels, Holding, Consuming
<1>2. Tags'
    BY TagsKept, DeliveryFields DEF LossInv, Consuming
<1>3. Coverage'
    BY UnchangedMoves, SameStays, CoverageStep DEF LossInv, SameAwait
<1> QED BY <1>1, <1>2, <1>3

LEMMA EnqueueLoss ==
    ASSUME TypeOK, LossInv, AllContinue, Accepts, Monotone, UNCHANGED channels,
           \A e \in deliveries' : e.stage \in CoveredStages =>
               \/ \E d \in deliveries : d.stage \in CoveredStages /\ d.copy = e.copy
               \/ Covered(e.copy)'
    PROVE  Handing' /\ Tags' /\ Coverage'
<1>1. PICK m, q, n : Enqueue(m, q, n)
    BY DEF Accepts
<1>2. Handing'
    BY <1>1, EnqueueHolding DEF LossInv, Handing
<1>3. \A c \in Copies : copies'[c].state = "unacked" => copies'[c] = copies[c]
    BY <1>1, EnqueueKeeps
<1>4. Tags'
    BY <1>3, TagsKept DEF LossInv, Consuming, channels
<1>5. \A o \in Copies : Stays(o)
    BY <1>1, EnqueueStays DEF LossInv
<1>6. Coverage'
    BY <1>5, CoverageStep DEF LossInv
<1> QED BY <1>2, <1>4, <1>6

(* Losing a channel.                                                       *)
LEMMA LoseChannelLoss ==
    ASSUME TypeOK, LossInv, AllContinue, SameAwait, Monotone,
           NEW w \in Workers, NEW wire, LoseChannel(w, wire),
           \A c \in wire \cap Copies : copies[c].state = "ready",
           \/ consumer' = consumer
           \/ /\ consumer' = [consumer EXCEPT ![w] = 0]
              /\ \A e \in deliveries' : e.worker # w
    PROVE  Handing' /\ Tags' /\ Coverage'
<1>1. Handing'
    BY LoseChannelHolding DEF LossInv, Handing
<1>2. \A e \in deliveries' : e.worker \in Workers /\ consumer'[e.worker] = consumer[e.worker]
    BY DeliveryFields DEF TypeOK, AllContinue, Continues
<1>3. \A v \in Workers : Consuming(v)' => v # w /\ Consuming(v) /\ lastTag'[v] = lastTag[v]
    BY DEF LoseChannel, Consuming, TypeOK
<1>4. \A c \in Copies : copies'[c].state = "unacked" => copies'[c] = copies[c]
    BY Results DEF LoseChannel, TypeOK
<1>5. Tags'
    BY <1>2, <1>3, <1>4, TagsKept DEF LossInv
<1>6. \A o \in Copies : Stays(o)
    BY LoseChannelStays
<1>7. AllMoved
    BY LoseChannelMoves
<1>8. Coverage'
    BY <1>6, <1>7, CoverageStep DEF LossInv, SameAwait
<1> QED BY <1>1, <1>5, <1>8

LEMMA SettleLoss ==
    ASSUME TypeOK, LossInv, AllContinue, SameAwait, Monotone, consumer' = consumer,
           NEW d \in deliveries, NEW requeue \in BOOLEAN, Settle(d.worker, d.tag, requeue),
           \A o \in Copies : Stays(o) \/ Covered(o)'
    PROVE  Handing' /\ Tags' /\ Coverage'
<1>1. d.worker \in Workers
    BY DeliveryFields
<1>2. CASE LoseChannel(d.worker, {}) BY <1>1, <1>2, LoseChannelLoss
<1>3. CASE ~LoseChannel(d.worker, {})
  <2>1. Handing'
      BY <1>1, SettleHolding DEF LossInv, Handing
  <2>2. UNCHANGED <<channel, lastChannel, lastTag>>
      BY <1>3 DEF Settle
  <2>3. \A c \in Copies : copies'[c].state = "unacked" => copies'[c] = copies[c]
      BY <1>3, Results DEF Settle, TypeOK
  <2>4. Tags'
      BY <2>2, <2>3, TagsKept DEF LossInv, Consuming
  <2>5. AllMoved
      BY <1>1, SettleMoves
  <2>6. Coverage'
      BY <2>5, CoverageStep DEF LossInv, SameAwait
  <2> QED BY <2>1, <2>4, <2>6
<1> QED BY <1>2, <1>3

LEMMA AckLoss ==
    ASSUME TypeOK, LossInv, AllContinue, SameAwait, Monotone, consumer' = consumer,
           NEW d \in deliveries, BrokerAck(d.worker, d.tag),
           Covered(d.copy) \/ Covered(d.copy)'
    PROVE  Handing' /\ Tags' /\ Coverage'
<1>1. d.worker \in Workers /\ d.copy \in Copies /\ d.copy <= accepted
    BY DeliveryFields DEF LossInv, Numbered
<1>2. AllMoved
    BY <1>1, BrokerAckMoves
<1>3. \A o \in Copies : o # d.copy => Stays(o)
    BY AckStays DEF LossInv
<1>4. Covered(d.copy)'
  <2>1. CASE Covered(d.copy) BY <1>1, <1>2, <1>3, <2>1, CoverKept DEF LossInv
  <2> QED BY <2>1
<1>5. CASE LoseChannel(d.worker, {}) BY <1>1, <1>5, LoseChannelLoss
<1>6. CASE Settle(d.worker, d.tag, FALSE) BY <1>3, <1>4, <1>6, SettleLoss
<1> QED BY <1>5, <1>6 DEF BrokerAck

LEMMA LossStep ==
    ASSUME TypeOK, LossInv, [Next]_vars, used'["resubscribe"] = 0
    PROVE  Handing' /\ Tags' /\ Coverage'
<1> USE DEF CoveredStages
<1>1. ASSUME deliveries' \subseteq deliveries PROVE AllContinue /\ SameAwait
    BY <1>1 DEF AllContinue, SameAwait
<1>2. ASSUME settled' = settled PROVE Monotone
    BY <1>2 DEF Monotone
<1>3. ASSUME NEW d \in deliveries, NEW s \in Stages \ CoveredStages, Goto(d, s) PROVE SameAwait
    BY <1>3, DeliveryFields DEF Goto, SameAwait, Delivery
<1>4. ASSUME NEW d \in deliveries, NEW b \in BOOLEAN, Fail(d, b) PROVE SameAwait
    BY <1>4, DeliveryFields DEF Fail, SameAwait, Delivery
<1>5. ASSUME NEW d \in deliveries, End(d) PROVE AllContinue /\ SameAwait
    BY <1>1, <1>5 DEF End
<1>6. ASSUME NEW m \in Messages, Publish(m) PROVE Handing' /\ Tags' /\ Coverage'
  <2>1. Accepts
      BY <1>6 DEF Publish, Accepts, Origin, Queues
  <2>2. AllContinue /\ SameAwait /\ Monotone /\ UNCHANGED channels
      BY <1>1, <1>2, <1>6 DEF Publish
  <2> QED BY <2>1, <2>2, EnqueueLoss DEF SameAwait
<1>7. ASSUME NEW w \in Workers, Start(w) PROVE Handing' /\ Tags' /\ Coverage'
  <2>1. AllContinue /\ SameAwait /\ Monotone
      BY <1>1, <1>2, <1>7 DEF Start
  <2>2. Handing'
      BY <1>7, OpenHolding DEF Start, LossInv, Handing, broker
  <2>3. \A e \in deliveries' : e.worker # w /\ e.worker \in Workers
      BY <1>7, DeliveryFields DEF Start
  <2>4. \A e \in deliveries' : consumer'[e.worker] = consumer[e.worker]
      BY <1>7, <2>3 DEF Start, TypeOK
  <2>5. consumer'[w] # consumer[w]
      BY <1>7 DEF Start, TypeOK, LossInv, Channels
  <2>6. \A v \in Workers : v # w => /\ channel'[v] = channel[v] /\ lastTag'[v] = lastTag[v]
                                    /\ consumer'[v] = consumer[v]
      BY <1>7 DEF Start, Open, TypeOK
  <2>7. copies' = copies
      BY <1>7 DEF Start, broker
  <2>8. Tags'
      BY <2>1, <2>4, <2>5, <2>6, <2>7, TagsKept DEF LossInv, Consuming
  <2>9. Coverage'
      BY <1>7, <2>1, <2>7, UnchangedMoves, SameStays, CoverageStep DEF LossInv, SameAwait, Start
  <2> QED BY <2>2, <2>8, <2>9
<1>8. ASSUME NEW w \in Workers, OpenForRetry(w) PROVE Handing' /\ Tags' /\ Coverage'
  <2>1. AllContinue /\ SameAwait /\ Monotone
      BY <1>1, <1>2, <1>8 DEF OpenForRetry
  <2>2. Open(w) /\ ~Consuming(w) /\ copies' = copies /\ consumer' = consumer
      BY <1>8 DEF OpenForRetry, Consuming, broker
  <2>3. Handing'
      BY <2>2, OpenHolding DEF LossInv, Handing
  <2>4. ~Consuming(w)'
      BY <2>2 DEF Open, Consuming, TypeOK, LossInv, Channels
  <2>5. \A v \in Workers : v # w => channel'[v] = channel[v] /\ lastTag'[v] = lastTag[v]
      BY <2>2 DEF Open, TypeOK
  <2>6. Tags'
      BY <2>1, <2>2, <2>4, <2>5, TagsKept DEF LossInv, Consuming
  <2>7. Coverage'
      BY <1>8, <2>1, <2>2, UnchangedMoves, SameStays, CoverageStep
      DEF LossInv, SameAwait, OpenForRetry
  <2> QED BY <2>3, <2>6, <2>7
<1>9. ASSUME NEW w \in Workers, NEW c \in Copies, Deliver(w, c)
      PROVE  Handing' /\ Tags' /\ Coverage'
  <2>1. Handing' /\ Tags'
      BY <1>9, DeliverHolding, DeliverTags DEF LossInv, Handing
  <2>2. AllMoved
      BY <1>9 DEF Deliver, AllMoved, Moved, TypeOK
  <2>3. HandedTo(w, c).state = "unacked"
      BY DEF HandedTo, TypeOK, Copy
  <2>4. \A o \in Copies : Stays(o)
      BY <1>9, <2>3 DEF Deliver, Stays, Alive, TypeOK
  <2>5. \A e \in deliveries' : e \in deliveries \/ e = Received(w, c)
      BY <1>9 DEF Deliver
  <2>6. Received(w, c).stage \notin CoveredStages
      BY DEF Received
  <2>7. Monotone
      BY <1>2, <1>9 DEF Deliver
  <2>8. Coverage'
      BY <2>2, <2>4, <2>5, <2>6, <2>7, CoverageStep DEF LossInv
  <2> QED BY <2>1, <2>8
<1>10. ASSUME NEW d \in deliveries, HandlerReturns(d) PROVE Handing' /\ Tags' /\ Coverage'
  <2>1. AllContinue /\ SameAwait
      BY <1>3, <1>10, StepContinues DEF HandlerReturns, Stages
  <2> QED BY <1>2, <1>10, <2>1, QuietLoss DEF HandlerReturns
<1>11. ASSUME NEW d \in deliveries, NEW status \in BOOLEAN, HandlerThrows(d, status)
       PROVE  Handing' /\ Tags' /\ Coverage'
  <2>1. AllContinue /\ SameAwait
      BY <1>4, <1>11, StepContinues DEF HandlerThrows
  <2> QED BY <1>2, <1>11, <2>1, QuietLoss DEF HandlerThrows
<1>12. ASSUME NEW d \in deliveries, ReplyAndAck(d) PROVE Handing' /\ Tags' /\ Coverage'
  <2>1. CASE channel[d.worker] = d.channel
    <3>1. BrokerAck(d.worker, d.tag) /\ Conclude(d, "ok") /\ End(d) /\ consumer' = consumer
        BY <1>12, <2>1 DEF ReplyAndAck
    <3>2. Monotone
        BY <3>1, ConcludeCloses DEF Outcomes, LossInv
    <3>3. Covered(d.copy)'
        BY <3>1, DeliveryFields, BrokerAckMoves, ConcludedCovered DEF Outcomes, LossInv
    <3> QED BY <1>5, <3>1, <3>2, <3>3, AckLoss
  <2>2. CASE channel[d.worker] # d.channel
    <3>1. AllContinue /\ SameAwait
        BY <1>4, <1>12, <2>2, StepContinues DEF ReplyAndAck
    <3> QED BY <1>2, <1>12, <2>2, <3>1, QuietLoss DEF ReplyAndAck, channels
  <2> QED BY <2>1, <2>2
<1>13. ASSUME NEW d \in deliveries, HandleRetry(d) PROVE Handing' /\ Tags' /\ Coverage'
  <2>1. CASE d.status
    <3>1. BrokerAck(d.worker, d.tag) /\ Conclude(d, "status") /\ consumer' = consumer
        BY <1>13, <2>1 DEF HandleRetry
    <3>2. Monotone
        BY <3>1, ConcludeCloses DEF Outcomes, LossInv
    <3>3. Covered(d.copy)'
        BY <3>1, DeliveryFields, BrokerAckMoves, ConcludedCovered DEF Outcomes, LossInv
    <3>4. AllContinue /\ SameAwait
        BY <1>3, <1>5, <1>13, <2>1, StepContinues DEF HandleRetry, Stages
    <3> QED BY <3>1, <3>2, <3>3, <3>4, AckLoss
  <2>2. CASE ~d.status
    <3>1. deliveries' = (deliveries \ {d}) \cup {Decided(d)}
        BY <1>13, <2>2 DEF HandleRetry
    <3>2. AllContinue
        BY <3>1, StepContinues
    <3>3. Decided(d).stage \notin CoveredStages
        BY DeliveryFields DEF Decided, Delivery
    <3>4. SameAwait
        BY <3>1, <3>3 DEF SameAwait
    <3> QED BY <1>2, <1>13, <2>2, <3>2, <3>4, QuietLoss DEF HandleRetry, channels
  <2> QED BY <2>1, <2>2
<1>14. ASSUME NEW d \in deliveries, Republish(d) PROVE Handing' /\ Tags' /\ Coverage'
  <2> DEFINE q == copies[d.copy].queue
             m == copies[d.copy].message
             n == copies[d.copy].count
  <2>1. Enqueue(m, q, NextCount(n)) /\ Goto(d, "retryAck") /\ UNCHANGED channels /\ Monotone
      BY <1>2, <1>14 DEF Republish
  <2>2. NextCount(n) \in Nat
      BY DeliveryFields DEF NextCount
  <2>3. Origin(m, q, NextCount(n))
      BY <1>14 DEF Republish, Origin, NextCount
  <2>4. Accepts
      BY <2>1, <2>2, <2>3, DeliveryFields DEF Accepts
  <2>5. d.copy \in Copies /\ d.copy <= accepted
      BY DeliveryFields DEF LossInv, Numbered
  <2>6. d.copy < accepted + 1
      BY <2>5 DEF TypeOK
  <2>7. Covered(d.copy)'
      BY <2>1, <2>4, <2>5, <2>6, EnqueueKeeps, KeptHeads DEF Covered, Alive
  <2>8. \A e \in deliveries' : e \in deliveries \/ e.copy = d.copy
      BY <2>1, DeliveryFields DEF Goto, Delivery
  <2>9. AllContinue
      BY <2>1, StepContinues DEF Stages
  <2> QED BY <2>1, <2>4, <2>7, <2>8, <2>9, EnqueueLoss
<1>15. ASSUME NEW d \in deliveries, RetryAck(d) \/ ErrorReplyAndAck(d)
       PROVE  Handing' /\ Tags' /\ Coverage'
  <2>1. AckOnVia(d) /\ End(d) /\ consumer' = consumer /\ settled' = settled
      BY <1>15 DEF RetryAck, ErrorReplyAndAck
  <2>2. Covered(d.copy)
      BY <1>15 DEF RetryAck, ErrorReplyAndAck, LossInv, Coverage
  <2>3. CASE channel[d.worker] = d.via
      BY <1>2, <1>5, <2>1, <2>2, <2>3, AckLoss DEF AckOnVia
  <2>4. CASE channel[d.worker] # d.via
      BY <1>2, <1>5, <2>1, <2>4, QuietLoss DEF AckOnVia, channels
  <2> QED BY <2>3, <2>4
<1>16. ASSUME NEW d \in deliveries, SaveDeadLetter(d) PROVE Handing' /\ Tags' /\ Coverage'
  <2> DEFINE q == copies[d.copy].queue
             m == copies[d.copy].message
             n == copies[d.copy].count
  <2>1. Goto(d, "errorReply") /\ UNCHANGED channels
      BY <1>16 DEF SaveDeadLetter
  <2>2. \A e \in deliveries' : e \in deliveries \/ e.copy = d.copy
      BY <2>1, DeliveryFields DEF Goto, Delivery
  <2>3. AllContinue
      BY <2>1, StepContinues DEF Stages
  <2>4. d.copy \in Copies /\ d.copy <= accepted
      BY DeliveryFields DEF LossInv, Numbered
  <2>5. CASE q \in DeadLettering
    <3>1. Enqueue(m, "dead", n) /\ Conclude(d, "saved")
        BY <1>16, <2>5 DEF SaveDeadLetter
    <3>2. Origin(m, "dead", n)
        BY <1>16, <2>5 DEF SaveDeadLetter, Origin
    <3>3. Accepts
        BY <3>1, <3>2, DeliveryFields DEF Accepts, Queues
    <3>4. Monotone
        BY <3>1, ConcludeCloses DEF Outcomes, LossInv
    <3>5. CASE q = "work"
      <4>1. Covered(d.copy)'
          BY <3>1, <3>3, <3>5, ConcludedCovered DEF Outcomes, LossInv
      <4> QED BY <2>1, <2>2, <2>3, <3>3, <3>4, <4>1, EnqueueLoss
    <3>6. CASE q = "dead"
      <4>1. d.copy < accepted + 1
          BY <2>4 DEF TypeOK
      <4>2. Covered(d.copy)'
          BY <2>4, <3>1, <3>3, <3>6, <4>1, EnqueueKeeps, KeptHeads DEF Covered, Alive
      <4> QED BY <2>1, <2>2, <2>3, <3>3, <3>4, <4>2, EnqueueLoss
    <3> QED BY <3>5, <3>6, DeliveryFields DEF Queues
  <2>6. CASE q \notin DeadLettering
    <3>1. Conclude(d, "dropped") /\ UNCHANGED broker
        BY <1>16, <2>6 DEF SaveDeadLetter
    <3>2. AllMoved /\ Monotone
        BY <3>1, UnchangedMoves, ConcludeCloses DEF Outcomes, LossInv
    <3>3. Covered(d.copy)'
        BY <3>1, <3>2, ConcludedCovered DEF Outcomes, LossInv
    <3>4. Handing' /\ Tags'
      <4>1. Handing'
          BY <2>1, <3>1 DEF LossInv, Handing, Channels, Holding, Consuming, broker, channels
      <4>2. Tags'
          BY <2>1, <2>3, <3>1, TagsKept, DeliveryFields DEF LossInv, Consuming, broker, channels
      <4> QED BY <4>1, <4>2
    <3>5. Coverage'
        BY <2>2, <3>1, <3>2, <3>3, SameStays, CoverageStep DEF LossInv, broker
    <3> QED BY <3>4, <3>5
  <2> QED BY <2>5, <2>6
<1>17. ASSUME NEW d \in deliveries, StatusReply(d) \/ RetryChannelFails(d)
       PROVE  Handing' /\ Tags' /\ Coverage'
    BY <1>2, <1>5, <1>17, QuietLoss DEF StatusReply, RetryChannelFails
<1>18. ASSUME NEW w \in Workers, Resubscribe(w) PROVE FALSE
    BY <1>18 DEF Resubscribe, Fault, TypeOK, Faults
<1>19. ASSUME NEW w \in Workers, CloseChannel(w) \/ Crash(w)
       PROVE  Handing' /\ Tags' /\ Coverage'
  <2>1. PICK wire \in OnTheWire(w) : LoseChannel(w, wire)
      BY <1>19 DEF CloseChannel, Crash
  <2>2. \A c \in wire \cap Copies : copies[c].state = "ready"
      BY DEF OnTheWire
  <2>3. AllContinue /\ SameAwait /\ Monotone
      BY <1>1, <1>2, <1>19 DEF CloseChannel, Crash
  <2>4. \/ consumer' = consumer
        \/ consumer' = [consumer EXCEPT ![w] = 0] /\ \A e \in deliveries' : e.worker # w
      BY <1>19 DEF CloseChannel, Crash
  <2> QED BY <2>1, <2>2, <2>3, <2>4, LoseChannelLoss
<1>20. ASSUME NEW d \in deliveries, PublishFails(d) PROVE Handing' /\ Tags' /\ Coverage'
  <2>1. AllContinue /\ SameAwait
      BY <1>4, <1>5, <1>20, StepContinues DEF PublishFails
  <2>2. Monotone /\ consumer' = consumer
      BY <1>2, <1>20 DEF PublishFails
  <2>3. CASE BrokerNack(d.worker, d.tag)
      BY <2>1, <2>2, <2>3, DeliveryFields, NackStays, SettleLoss DEF BrokerNack
  <2>4. CASE UNCHANGED <<broker, channel, lastChannel, lastTag>>
      BY <2>1, <2>2, <2>4, QuietLoss DEF channels
  <2> QED BY <1>20, <2>3, <2>4 DEF PublishFails, NackOnVia
<1>21. ASSUME UNCHANGED vars PROVE Handing' /\ Tags' /\ Coverage'
    BY <1>1, <1>2, <1>21, QuietLoss DEF vars, broker, channels
<1> QED BY <1>6, <1>7, <1>8, <1>9, <1>10, <1>11, <1>12, <1>13, <1>14, <1>15, <1>16, <1>17,
           <1>18, <1>19, <1>20, <1>21 DEF Next, Progress, Disturbance

LEMMA ResubscribedForGood ==
    ASSUME TypeOK, [Next]_vars, used'["resubscribe"] = 0
    PROVE  used["resubscribe"] = 0
<1>1. ASSUME NEW f \in Faults, Fault(f) PROVE used["resubscribe"] = 0
    BY <1>1 DEF Fault, TypeOK, Faults
<1>2. ASSUME NEW w \in Workers, NEW t, BrokerAck(w, t) PROVE used["resubscribe"] = 0
    BY <1>1, <1>2 DEF BrokerAck, Faults
<1>3. ASSUME NEW m \in Messages, Publish(m) PROVE used["resubscribe"] = 0
    BY <1>3 DEF Publish
<1>4. ASSUME NEW w \in Workers, Start(w) \/ OpenForRetry(w) PROVE used["resubscribe"] = 0
    BY <1>4 DEF Start, OpenForRetry
<1>5. ASSUME NEW w \in Workers, NEW c \in Copies, Deliver(w, c) PROVE used["resubscribe"] = 0
    BY <1>5 DEF Deliver
<1>6. ASSUME NEW d \in deliveries, HandlerReturns(d) \/ Republish(d) \/ SaveDeadLetter(d) \/ StatusReply(d)
      PROVE  used["resubscribe"] = 0
    BY <1>6 DEF HandlerReturns, Republish, SaveDeadLetter, StatusReply
<1>7. ASSUME NEW d \in deliveries, NEW b \in BOOLEAN, HandlerThrows(d, b) PROVE used["resubscribe"] = 0
    BY <1>1, <1>7 DEF HandlerThrows, Faults
<1>8. ASSUME NEW d \in deliveries, ReplyAndAck(d) PROVE used["resubscribe"] = 0
    BY <1>2, <1>8, DeliveryFields DEF ReplyAndAck
<1>9. ASSUME NEW d \in deliveries, HandleRetry(d) PROVE used["resubscribe"] = 0
    BY <1>2, <1>9, DeliveryFields DEF HandleRetry
<1>10. ASSUME NEW d \in deliveries, RetryAck(d) \/ ErrorReplyAndAck(d) PROVE used["resubscribe"] = 0
    BY <1>2, <1>10, DeliveryFields DEF RetryAck, ErrorReplyAndAck, AckOnVia
<1>11. ASSUME NEW w \in Workers, Resubscribe(w) \/ CloseChannel(w) \/ Crash(w)
       PROVE  used["resubscribe"] = 0
    BY <1>1, <1>11 DEF Resubscribe, CloseChannel, Crash, Faults
<1>12. ASSUME NEW d \in deliveries, RetryChannelFails(d) \/ PublishFails(d)
       PROVE  used["resubscribe"] = 0
    BY <1>1, <1>12 DEF RetryChannelFails, PublishFails, Faults
<1>13. ASSUME UNCHANGED vars PROVE used["resubscribe"] = 0
    BY <1>13 DEF vars
<1> QED BY <1>3, <1>4, <1>5, <1>6, <1>7, <1>8, <1>9, <1>10, <1>11, <1>12, <1>13
        DEF Next, Progress, Disturbance

LEMMA LossInvariance == Spec => [](SubscribedOnce => LossInv)
<1>1. Init => LossInv
    BY DEF Init, LossInv, Numbered, Channels, Holding, Tags, Coverage, Absent, TypeOK
<1>2. TypeOK /\ (SubscribedOnce => LossInv) /\ [Next]_vars => (SubscribedOnce => LossInv)'
    BY LossStep, NumberedStep, ResubscribedForGood DEF LossInv, Handing, SubscribedOnce
<1> QED BY <1>1, <1>2, TypeCorrect, PTL DEF Spec

(* No message is lost (NoLoss), for any number of messages, workers and    *)
(* faults, as long as no process subscribes twice: the ack of a copy is    *)
(* always preceded by the outcome or by the copy that takes its place.     *)
THEOREM NoLossHolds == Spec => []NoLoss
<1>1. TypeOK /\ (SubscribedOnce => LossInv) => NoLoss
  <2> SUFFICES ASSUME TypeOK, LossInv, NEW c \in Copies, copies[c].state # "absent"
               PROVE  \/ Live(copies[c].queue, copies[c].message)
                      \/ Closed(copies[c].queue, copies[c].message)
      BY DEF NoLoss, SubscribedOnce
  <2>1. CASE copies[c].state = "gone"
      BY <2>1 DEF LossInv, Coverage, Covered, Alive, Live
  <2>2. CASE copies[c].state # "gone"
      BY <2>2 DEF TypeOK, Copy, Live
  <2> QED BY <2>1, <2>2
<1> QED BY <1>1, LossInvariance, TypeCorrect, PTL

=============================================================================
