-------------------------- MODULE DeliveryPromises --------------------------
(* What Delivery promises to those who publish: it implements AtLeastOnce, *)
(* it answers requests, and without faults it bounds their attempts.       *)
EXTENDS DeliveryProofs, FiniteSetTheorems

JobOf(c) == <<copies[c].message, copies[c].queue>>

LiveJobs == {j \in Messages \X Queues : Live(j[2], j[1])}

OutcomeOf ==
    [j \in Messages \X Queues |-> settled[j[2]][j[1]] \ (IF j[2] = "dead" THEN {"saved"} ELSE {})]

Simulates == [AtLeast!Next]_(AtLeast!vars)

-----------------------------------------------------------------------------
(* What a step does to the jobs that are live and to their outcomes.       *)

LEMMA LiveWhenAlive ==
    ASSUME TypeOK, NEW j \in Messages \X Queues
    PROVE  j \in LiveJobs <=> \E c \in Copies : Alive(c) /\ JobOf(c) = j
BY DEF LiveJobs, Live, Alive, JobOf

LEMMA LiveWhenAliveNext ==
    ASSUME NEW j \in Messages \X Queues
    PROVE  j \in LiveJobs' <=> \E c \in Copies : Alive(c)' /\ JobOf(c)' = j
BY DEF LiveJobs, Live, Alive, JobOf

LEMMA JobKept ==
    ASSUME TypeOK, AllMoved, NEW c \in Copies
    PROVE  JobOf(c)' = JobOf(c) /\ (Alive(c)' => Alive(c))
<1>1. Moved(c)
    BY DEF AllMoved
<1>2. Alive(c)' => Alive(c)
    BY <1>1, Results DEF Moved, Alive
<1> QED BY <1>1, <1>2, MovedKeeps DEF JobOf

LEMMA JobIsKnown ==
    ASSUME TypeOK, Numbered, NEW c \in Copies, c <= accepted
    PROVE  JobOf(c) \in Messages \X Queues
BY DEF JobOf, Numbered, TypeOK, Copy

LEMMA NothingRetired ==
    ASSUME TypeOK, AllMoved, \A o \in Copies : Stays(o)
    PROVE  LiveJobs' = LiveJobs
<1>1. ASSUME NEW j \in Messages \X Queues PROVE j \in LiveJobs' <=> j \in LiveJobs
    BY LiveWhenAlive, LiveWhenAliveNext, JobKept DEF Stays
<1> QED BY <1>1 DEF LiveJobs

LEMMA OneRetired ==
    ASSUME TypeOK, AllMoved, NEW x \in Copies, \A o \in Copies : o # x => Stays(o)
    PROVE  LiveJobs' \in {LiveJobs, LiveJobs \ {JobOf(x)}}
<1>1. ASSUME NEW j \in LiveJobs' PROVE j \in LiveJobs
    BY <1>1, LiveWhenAlive, LiveWhenAliveNext, JobKept DEF LiveJobs
<1>2. ASSUME NEW j \in LiveJobs, j # JobOf(x) PROVE j \in LiveJobs'
    BY <1>2, LiveWhenAlive, LiveWhenAliveNext, JobKept DEF LiveJobs, Stays
<1> QED BY <1>1, <1>2

LEMMA OneAdded ==
    ASSUME TypeOK, Numbered, NEW m \in Messages, NEW q \in Queues, NEW n, Enqueue(m, q, n)
    PROVE  LiveJobs' = LiveJobs \cup {<<m, q>>}
<1>1. PICK new \in Copies : new = accepted + 1
    BY EnqueueKeeps
<1>2. Alive(new)' /\ JobOf(new)' = <<m, q>>
    BY <1>1, EnqueueKeeps DEF Alive, JobOf
<1>5. ~Alive(new)
  <2>1. new > accepted
      BY <1>1 DEF TypeOK
  <2>2. copies[new] = Absent
      BY <1>1, <2>1 DEF Numbered
  <2> QED BY <2>2 DEF Alive, Absent
<1>6. \A c \in Copies : c # new => (Alive(c)' <=> Alive(c)) /\ JobOf(c)' = JobOf(c)
    BY <1>1, EnqueueKeeps DEF Alive, JobOf
<1>3. ASSUME NEW j \in Messages \X Queues PROVE j \in LiveJobs' <=> j \in LiveJobs \/ j = <<m, q>>
  <2>1. j \in LiveJobs' <=> \E c \in Copies : Alive(c)' /\ JobOf(c)' = j
      BY LiveWhenAliveNext
  <2>2. j \in LiveJobs <=> \E c \in Copies : Alive(c) /\ JobOf(c) = j
      BY LiveWhenAlive
  <2> QED BY <1>2, <1>5, <1>6, <2>1, <2>2
<1>4. LiveJobs \subseteq Messages \X Queues /\ LiveJobs' \subseteq Messages \X Queues
    BY DEF LiveJobs
<1> QED BY <1>3, <1>4

LEMMA SameOutcomes ==
    ASSUME settled' = settled
    PROVE  OutcomeOf' = OutcomeOf
BY DEF OutcomeOf

LEMMA OutcomeAdded ==
    ASSUME TypeOK, Numbered, NEW d \in deliveries, NEW o \in Outcomes, Conclude(d, o)
    PROVE  LET j == JobOf(d.copy)
           IN  OutcomeOf' = IF o = "saved" /\ j[2] = "dead" THEN OutcomeOf
                            ELSE [OutcomeOf EXCEPT ![j] = @ \cup {o}]
<1> DEFINE q == copies[d.copy].queue
           m == copies[d.copy].message
<1>1. q \in Queues /\ m \in Messages
    BY DeliveryFields DEF Numbered
<1>2. settled' = [settled EXCEPT ![q][m] = @ \cup {o}]
    BY DEF Conclude
<1>3. ASSUME NEW k \in Queues, NEW l \in Messages
      PROVE  settled'[k][l] = IF k = q /\ l = m THEN settled[k][l] \cup {o} ELSE settled[k][l]
    BY <1>1, <1>2 DEF TypeOK
<1>4. JobOf(d.copy) = <<m, q>>
    BY DEF JobOf
<1> HIDE DEF q, m
<1>5. ASSUME NEW j \in Messages \X Queues
      PROVE  OutcomeOf'[j] = IF j = <<m, q>> /\ ~(o = "saved" /\ q = "dead")
                             THEN OutcomeOf[j] \cup {o} ELSE OutcomeOf[j]
  <2>1. PICK l \in Messages, k \in Queues : j = <<l, k>>
      OBVIOUS
  <2>2. /\ OutcomeOf[j] = settled[k][l] \ (IF k = "dead" THEN {"saved"} ELSE {})
        /\ OutcomeOf'[j] = settled'[k][l] \ (IF k = "dead" THEN {"saved"} ELSE {})
      BY <2>1 DEF OutcomeOf
  <2>3. j = <<m, q>> <=> k = q /\ l = m
      BY <2>1
  <2> QED BY <1>3, <2>2, <2>3
<1>6. <<m, q>> \in Messages \X Queues
    BY <1>1
<1>7. CASE o = "saved" /\ q = "dead"
    BY <1>4, <1>5, <1>7 DEF OutcomeOf
<1>8. CASE ~(o = "saved" /\ q = "dead")
  <2>1. OutcomeOf' = [j \in Messages \X Queues |-> IF j = <<m, q>> THEN OutcomeOf[j] \cup {o} ELSE OutcomeOf[j]]
      BY <1>5, <1>8 DEF OutcomeOf
  <2>2. OutcomeOf' = [OutcomeOf EXCEPT ![<<m, q>>] = @ \cup {o}]
      BY <2>1, <1>6 DEF OutcomeOf
  <2> QED BY <1>4, <1>8, <2>2
<1> QED BY <1>7, <1>8

-----------------------------------------------------------------------------
(* The steps of AtLeastOnce.                                               *)

KnownJob(j) == j \in LiveJobs \/ OutcomeOf[j] # {}

LEMMA Stutters ==
    ASSUME LiveJobs' = LiveJobs, OutcomeOf' = OutcomeOf
    PROVE  Simulates
BY DEF Simulates, LiveJobs, OutcomeOf, AtLeast!vars

LEMMA Publishing ==
    ASSUME NEW m \in Messages, ~KnownJob(<<m, "work">>),
           LiveJobs' = LiveJobs \cup {<<m, "work">>}, OutcomeOf' = OutcomeOf
    PROVE  Simulates
<1>1. AtLeast!Publish(m)
    BY DEF KnownJob, LiveJobs, OutcomeOf, AtLeast!Publish, AtLeast!Known
<1> QED BY <1>1 DEF Simulates, AtLeast!Next

LEMMA Concluding ==
    ASSUME NEW j \in Messages \X Queues, NEW o \in Outcomes \ {"saved"}, KnownJob(j),
           LiveJobs' \in {LiveJobs, LiveJobs \ {j}}, OutcomeOf' = [OutcomeOf EXCEPT ![j] = @ \cup {o}]
    PROVE  Simulates
<1>1. AtLeast!Conclude(j, o)
    BY DEF KnownJob, LiveJobs, OutcomeOf, AtLeast!Conclude, AtLeast!Known
<1>2. j \in AtLeast!Jobs /\ o \in AtLeast!Outcomes \ {"saved"}
    BY DEF AtLeast!Jobs, AtLeast!Outcomes, Queues, Outcomes
<1> QED BY <1>1, <1>2 DEF Simulates, AtLeast!Next

LEMMA Saving ==
    ASSUME NEW m \in Messages, KnownJob(<<m, "work">>), LiveJobs' = LiveJobs \cup {<<m, "dead">>},
           OutcomeOf' = [OutcomeOf EXCEPT ![<<m, "work">>] = @ \cup {"saved"}]
    PROVE  Simulates
<1>1. AtLeast!DeadLetter(m)
    BY DEF KnownJob, LiveJobs, OutcomeOf, AtLeast!DeadLetter, AtLeast!Known
<1> QED BY <1>1 DEF Simulates, AtLeast!Next

LEMMA RetiringOrRepeating ==
    ASSUME NEW j \in Messages \X Queues, OutcomeOf[j] # {},
           LiveJobs' \in {LiveJobs \ {j}, LiveJobs \cup {j}}, OutcomeOf' = OutcomeOf
    PROVE  Simulates
<1>1. AtLeast!Retire(j) \/ AtLeast!Repeat(j)
    BY DEF LiveJobs, OutcomeOf, AtLeast!Retire, AtLeast!Repeat
<1>2. j \in AtLeast!Jobs
    BY DEF AtLeast!Jobs, Queues
<1> QED BY <1>1, <1>2 DEF Simulates, AtLeast!Next

-----------------------------------------------------------------------------
(* Each step of Delivery is one of these.                                  *)

LEMMA KnownNow ==
    ASSUME TypeOK, LossInv, NEW c \in Copies, c <= accepted
    PROVE  KnownJob(JobOf(c))
<1>1. JobOf(c) \in Messages \X Queues
    BY JobIsKnown DEF LossInv
<1>2. CASE Alive(c)
    BY <1>1, <1>2, LiveWhenAlive DEF KnownJob
<1>3. CASE ~Alive(c)
  <2>1. copies[c].state = "gone"
      BY <1>3 DEF LossInv, Numbered, Alive, TypeOK, Copy
  <2>2. Covered(c)
      BY <2>1 DEF LossInv, Coverage
  <2>3. CASE Closed(copies[c].queue, copies[c].message)
      BY <1>1, <2>3 DEF Closed, KnownJob, OutcomeOf, JobOf
  <2>4. CASE \E s \in Copies : Alive(s) /\ JobOf(s) = JobOf(c)
      BY <1>1, <2>4, LiveWhenAlive DEF KnownJob
  <2> QED BY <2>2, <2>3, <2>4 DEF Covered, JobOf
<1> QED BY <1>2, <1>3

LEMMA GoneConcluded ==
    ASSUME TypeOK, LossInv', NEW c \in Copies, copies'[c].state = "gone",
           JobOf(c)' \in Messages \X Queues, JobOf(c)' \notin LiveJobs'
    PROVE  OutcomeOf'[JobOf(c)'] # {}
<1>1. Covered(c)'
    BY DEF LossInv, Coverage
<1>2. CASE Closed(copies[c].queue, copies[c].message)'
    BY <1>2 DEF Closed, OutcomeOf, JobOf
<1>3. CASE \E s \in Copies : Alive(s)' /\ JobOf(s)' = JobOf(c)'
    BY <1>3, LiveWhenAliveNext
<1> QED BY <1>1, <1>2, <1>3 DEF Covered, JobOf

LEMMA QuietSimulates ==
    ASSUME TypeOK, AllMoved, settled' = settled, \A o \in Copies : Stays(o)
    PROVE  Simulates
BY NothingRetired, SameOutcomes, Stutters

LEMMA SameSimulates ==
    ASSUME TypeOK, UNCHANGED broker, settled' = settled
    PROVE  Simulates
<1>1. \A o \in Copies : Stays(o)
    BY SameStays DEF broker
<1> QED BY <1>1, UnchangedMoves, QuietSimulates

LEMMA AckSimulates ==
    ASSUME TypeOK, LossInv, LossInv', NEW d \in deliveries, BrokerAck(d.worker, d.tag),
           settled' = settled
    PROVE  Simulates
<1>1. d.worker \in Workers /\ d.copy \in Copies /\ d.copy <= accepted
    BY DeliveryFields DEF LossInv, Numbered
<1>2. PICK x \in Copies : x = d.copy
    BY <1>1
<1>3. AllMoved
    BY <1>1, BrokerAckMoves
<1>4. \A o \in Copies : o # x => Stays(o)
    BY <1>2, AckStays DEF LossInv
<1>5. JobOf(x) \in Messages \X Queues /\ JobOf(x)' = JobOf(x)
    BY <1>1, <1>2, <1>3, JobIsKnown, JobKept DEF LossInv
<1>6. CASE Stays(x)
    BY <1>3, <1>4, <1>6, QuietSimulates
<1>7. CASE ~Stays(x) /\ JobOf(x) \notin LiveJobs'
  <2>1. copies'[x].state = "gone"
      BY <1>3, <1>7, Results DEF AllMoved, Moved, Stays, Alive, HandedTo, TypeOK, Copy
  <2>2. OutcomeOf'[JobOf(x)] # {}
      BY <1>5, <1>7, <2>1, GoneConcluded
  <2>3. OutcomeOf' = OutcomeOf
      BY SameOutcomes
  <2>4. LiveJobs' = LiveJobs \ {JobOf(x)}
      BY <1>3, <1>4, <1>7, OneRetired
  <2> QED BY <1>5, <2>2, <2>3, <2>4, RetiringOrRepeating
<1>8. CASE JobOf(x) \in LiveJobs'
  <2>1. LiveJobs' = LiveJobs
      BY <1>3, <1>4, <1>8, OneRetired
  <2> QED BY <2>1, SameOutcomes, Stutters
<1> QED BY <1>6, <1>7, <1>8

LEMMA AckConcludes ==
    ASSUME TypeOK, LossInv, NEW d \in deliveries, BrokerAck(d.worker, d.tag),
           NEW o \in Outcomes \ {"saved"}, Conclude(d, o)
    PROVE  Simulates
<1>1. d.worker \in Workers /\ d.copy \in Copies /\ d.copy <= accepted
    BY DeliveryFields DEF LossInv, Numbered
<1>2. PICK x \in Copies : x = d.copy
    BY <1>1
<1>3. AllMoved /\ \A c \in Copies : c # x => Stays(c)
    BY <1>1, <1>2, BrokerAckMoves, AckStays DEF LossInv
<1>4. LiveJobs' \in {LiveJobs, LiveJobs \ {JobOf(x)}}
    BY <1>3, OneRetired
<1>5. OutcomeOf' = [OutcomeOf EXCEPT ![JobOf(x)] = @ \cup {o}]
    BY <1>2, OutcomeAdded DEF LossInv
<1>6. KnownJob(JobOf(x)) /\ JobOf(x) \in Messages \X Queues
    BY <1>1, <1>2, KnownNow, JobIsKnown DEF LossInv
<1> QED BY <1>4, <1>5, <1>6, Concluding

LEMMA RepublishSimulates ==
    ASSUME TypeOK, LossInv, NEW m \in Messages, NEW q \in Queues, NEW n, Enqueue(m, q, n),
           KnownJob(<<m, q>>), OutcomeOf' = OutcomeOf
    PROVE  Simulates
<1>1. LiveJobs' = LiveJobs \cup {<<m, q>>}
    BY OneAdded DEF LossInv
<1>2. CASE <<m, q>> \in LiveJobs
  <2>1. LiveJobs' = LiveJobs
      BY <1>1, <1>2
  <2> QED BY <2>1, Stutters
<1>3. CASE <<m, q>> \notin LiveJobs
    BY <1>1, <1>3, RetiringOrRepeating DEF KnownJob
<1> QED BY <1>2, <1>3

LEMMA PublishSimulates ==
    ASSUME TypeOK, LossInv, OutcomesKnown, NEW m \in Messages, Publish(m)
    PROVE  Simulates
<1>1. Enqueue(m, "work", 0) /\ settled' = settled /\ \A c \in Copies : copies[c].message # m
    BY DEF Publish
<1>2. LiveJobs' = LiveJobs \cup {<<m, "work">>}
    BY <1>1, OneAdded DEF LossInv, Queues
<1>3. <<m, "work">> \notin LiveJobs
    BY <1>1 DEF LiveJobs, Live
<1>4. settled["work"][m] = {}
    BY <1>1 DEF OutcomesKnown, Queues
<1>5. OutcomeOf[<<m, "work">>] = {}
    BY <1>4 DEF OutcomeOf, Queues
<1> QED BY <1>1, <1>2, <1>3, <1>5, SameOutcomes, Publishing DEF KnownJob

LEMMA SaveSimulates ==
    ASSUME TypeOK, LossInv, NEW d \in deliveries, SaveDeadLetter(d)
    PROVE  Simulates
<1>1. d.copy \in Copies /\ d.copy <= accepted
    BY DeliveryFields DEF LossInv, Numbered
<1>2. PICK x \in Copies : x = d.copy
    BY <1>1
<1>3. PICK m \in Messages, q \in Queues : JobOf(x) = <<m, q>>
    BY <1>1, <1>2, JobIsKnown DEF LossInv
<1>4. KnownJob(<<m, q>>) /\ copies[x].message = m /\ copies[x].queue = q
    BY <1>1, <1>2, <1>3, KnownNow DEF JobOf
<1>5. CASE q \notin DeadLettering
  <2>1. Conclude(d, "dropped") /\ UNCHANGED broker
      BY <1>2, <1>4, <1>5 DEF SaveDeadLetter
  <2>2. LiveJobs' = LiveJobs
      BY <2>1, SameStays, UnchangedMoves, NothingRetired DEF broker
  <2>3. OutcomeOf' = [OutcomeOf EXCEPT ![<<m, q>>] = @ \cup {"dropped"}]
      BY <1>2, <1>3, <2>1, OutcomeAdded DEF LossInv, Outcomes
  <2> QED BY <1>4, <2>2, <2>3, Concluding DEF Outcomes
<1>6. CASE q \in DeadLettering
  <2>1. Enqueue(m, "dead", copies[x].count) /\ Conclude(d, "saved")
      BY <1>2, <1>4, <1>6 DEF SaveDeadLetter
  <2>2. CASE q = "work"
    <3>1. LiveJobs' = LiveJobs \cup {<<m, "dead">>}
        BY <2>1, OneAdded DEF LossInv, Queues
    <3>2. OutcomeOf' = [OutcomeOf EXCEPT ![<<m, "work">>] = @ \cup {"saved"}]
        BY <1>2, <1>3, <2>1, <2>2, OutcomeAdded DEF LossInv, Outcomes
    <3> QED BY <1>4, <2>2, <3>1, <3>2, Saving
  <2>3. CASE q = "dead"
    <3>1. OutcomeOf' = OutcomeOf
        BY <1>2, <1>3, <2>1, <2>3, OutcomeAdded DEF LossInv, Outcomes
    <3> QED BY <1>4, <2>1, <2>3, <3>1, RepublishSimulates
  <2> QED BY <2>2, <2>3 DEF Queues
<1> QED BY <1>5, <1>6

LEMMA SimulationStep ==
    ASSUME TypeOK, LossInv, LossInv', OutcomesKnown, [Next]_vars, used'["resubscribe"] = 0
    PROVE  Simulates
<1>1. ASSUME NEW m \in Messages, Publish(m) PROVE Simulates
    BY <1>1, PublishSimulates
<1>2. ASSUME NEW w \in Workers, Start(w) \/ OpenForRetry(w) PROVE Simulates
    BY <1>2, SameSimulates DEF Start, OpenForRetry
<1>3. ASSUME NEW w \in Workers, NEW c \in Copies, Deliver(w, c) PROVE Simulates
  <2>1. AllMoved /\ settled' = settled
      BY <1>3 DEF Deliver, AllMoved, Moved, TypeOK
  <2>2. HandedTo(w, c).state = "unacked"
      BY DEF HandedTo, TypeOK, Copy
  <2>3. \A o \in Copies : Stays(o)
      BY <1>3, <2>2 DEF Deliver, Stays, Alive, TypeOK
  <2> QED BY <2>1, <2>3, QuietSimulates
<1>4. ASSUME NEW d \in deliveries,
             HandlerReturns(d) \/ StatusReply(d) \/ RetryChannelFails(d)
      PROVE  Simulates
    BY <1>4, SameSimulates DEF HandlerReturns, StatusReply, RetryChannelFails
<1>5. ASSUME NEW d \in deliveries, NEW b \in BOOLEAN, HandlerThrows(d, b) PROVE Simulates
    BY <1>5, SameSimulates DEF HandlerThrows
<1>6. ASSUME NEW d \in deliveries, ReplyAndAck(d) PROVE Simulates
  <2>1. CASE channel[d.worker] = d.channel
      BY <1>6, <2>1, AckConcludes DEF ReplyAndAck, Outcomes
  <2>2. CASE channel[d.worker] # d.channel
      BY <1>6, <2>2, SameSimulates DEF ReplyAndAck
  <2> QED BY <2>1, <2>2
<1>7. ASSUME NEW d \in deliveries, HandleRetry(d) PROVE Simulates
  <2>1. CASE d.status
      BY <1>7, <2>1, AckConcludes DEF HandleRetry, Outcomes
  <2>2. CASE ~d.status
      BY <1>7, <2>2, SameSimulates DEF HandleRetry
  <2> QED BY <2>1, <2>2
<1>8. ASSUME NEW d \in deliveries, Republish(d) PROVE Simulates
  <2>1. d.copy \in Copies /\ d.copy <= accepted
      BY DeliveryFields DEF LossInv, Numbered
  <2>2. PICK m \in Messages, q \in Queues : JobOf(d.copy) = <<m, q>>
      BY <2>1, JobIsKnown DEF LossInv
  <2>3. KnownJob(<<m, q>>)
      BY <2>1, <2>2, KnownNow
  <2>4. Enqueue(m, q, NextCount(copies[d.copy].count)) /\ settled' = settled
      BY <1>8, <2>2 DEF Republish, JobOf
  <2> QED BY <2>3, <2>4, SameOutcomes, RepublishSimulates
<1>9. ASSUME NEW d \in deliveries, RetryAck(d) \/ ErrorReplyAndAck(d) PROVE Simulates
  <2>1. AckOnVia(d) /\ settled' = settled
      BY <1>9 DEF RetryAck, ErrorReplyAndAck
  <2> QED BY <2>1, AckSimulates, SameSimulates DEF AckOnVia
<1>10. ASSUME NEW d \in deliveries, SaveDeadLetter(d) PROVE Simulates
    BY <1>10, SaveSimulates
<1>11. ASSUME NEW w \in Workers, Resubscribe(w) PROVE FALSE
    BY <1>11 DEF Resubscribe, Fault, TypeOK, Faults
<1>12. ASSUME NEW w \in Workers, CloseChannel(w) \/ Crash(w) PROVE Simulates
  <2>1. PICK wire \in OnTheWire(w) : LoseChannel(w, wire)
      BY <1>12 DEF CloseChannel, Crash
  <2>2. \A c \in wire \cap Copies : copies[c].state = "ready"
      BY DEF OnTheWire
  <2>3. AllMoved /\ \A o \in Copies : Stays(o)
      BY <2>1, <2>2, LoseChannelMoves, LoseChannelStays
  <2> QED BY <1>12, <2>3, QuietSimulates DEF CloseChannel, Crash
<1>13. ASSUME NEW d \in deliveries, PublishFails(d) PROVE Simulates
  <2>1. settled' = settled /\ d.worker \in Workers
      BY <1>13, DeliveryFields DEF PublishFails
  <2>2. CASE BrokerNack(d.worker, d.tag)
    <3>1. AllMoved /\ \A o \in Copies : Stays(o)
        BY <2>1, <2>2, SettleMoves, NackStays DEF BrokerNack
    <3> QED BY <2>1, <3>1, QuietSimulates
  <2>3. CASE UNCHANGED <<broker, channel, lastChannel, lastTag>>
      BY <2>1, <2>3, SameSimulates
  <2> QED BY <1>13, <2>2, <2>3 DEF PublishFails, NackOnVia
<1>14. ASSUME UNCHANGED vars PROVE Simulates
    BY <1>14, SameSimulates DEF vars, broker
<1> QED BY <1>1, <1>2, <1>3, <1>4, <1>5, <1>6, <1>7, <1>8, <1>9, <1>10, <1>11, <1>12, <1>13, <1>14
        DEF Next, Progress, Disturbance

LEMMA OutcomesKnownStep ==
    ASSUME TypeOK, Numbered, OutcomesKnown, [Next]_vars
    PROVE  OutcomesKnown'
<1>1. settled' = settled \/ \E d \in deliveries, o \in Outcomes : Conclude(d, o)
    BY DEF Next, Progress, Disturbance, Publish, Start, OpenForRetry, Deliver, HandlerReturns,
           HandlerThrows, ReplyAndAck, HandleRetry, Republish, RetryAck, SaveDeadLetter,
           ErrorReplyAndAck, StatusReply, Resubscribe, CloseChannel, Crash, RetryChannelFails,
           PublishFails, vars, Outcomes
<1>2. ASSUME NEW q \in Queues, NEW m \in Messages,
             \E c \in Copies : copies[c].queue = q /\ copies[c].message = m
      PROVE  \E c \in Copies : copies'[c].queue = q /\ copies'[c].message = m
  <2>1. PICK c \in Copies : copies[c].queue = q /\ copies[c].message = m
      BY <1>2
  <2>2. c <= accepted
    <3>1. c > accepted => copies[c].message = None
        BY DEF Numbered, Absent
    <3> QED BY <2>1, <3>1, MessagesAssumption, BoundAssumption DEF TypeOK, Copies
  <2> QED BY <2>1, <2>2, KeptHeads, StepOnCopies
<1>3. CASE settled' = settled
    BY <1>2, <1>3 DEF OutcomesKnown
<1>4. ASSUME NEW d \in deliveries, NEW o \in Outcomes, Conclude(d, o) PROVE OutcomesKnown'
  <2>1. ASSUME NEW q \in Queues, NEW m \in Messages, settled'[q][m] # {}
        PROVE  settled[q][m] # {} \/ (q = copies[d.copy].queue /\ m = copies[d.copy].message)
      BY <1>4, <2>1 DEF Conclude, TypeOK
  <2> QED BY <1>2, <2>1, DeliveryFields DEF OutcomesKnown
<1> QED BY <1>1, <1>3, <1>4

(* As long as no application subscribes a second time in a process with    *)
(* old chains, Delivery implements AtLeastOnce (ImplementsAtLeastOnce),    *)
(* over any number of crashes, lost channels and failed publishes: each    *)
(* step is a step of the jobs, or none.                                    *)
THEOREM AtLeastOnceImplemented == Spec /\ []SubscribedOnce => ImplementsAtLeastOnce
<1>1. Init => AtLeast!Init
    BY DEF Init, AtLeast!Init, AtLeast!Jobs, Queues, Live, Absent
<1>2. Init => OutcomesKnown
    BY DEF Init, OutcomesKnown
<1>3. TypeOK /\ LossInv /\ OutcomesKnown /\ [Next]_vars => OutcomesKnown'
    BY OutcomesKnownStep DEF LossInv
<1>4. TypeOK /\ LossInv /\ LossInv' /\ OutcomesKnown /\ [Next]_vars /\ SubscribedOnce'
         => [AtLeast!Next]_(AtLeast!vars)
    BY SimulationStep DEF SubscribedOnce, Simulates
<1> QED BY <1>1, <1>2, <1>3, <1>4, LossInvariance, TypeCorrect, PTL
        DEF Spec, ImplementsAtLeastOnce, AtLeast!Spec

-----------------------------------------------------------------------------
(* The producer of a request is answered.                                  *)

AnswersStay ==
    \A m \in Messages : replies[m] \subseteq replies'[m] /\ settled["work"][m] \subseteq settled'["work"][m]

SameAcks ==
    \A e \in deliveries' : e.stage = "retryAck" =>
        \E d \in deliveries : d.stage = "retryAck" /\ d.copy = e.copy

LEMMA AnswerLaterKept ==
    ASSUME TypeOK, Numbered, AllMoved \/ Accepts, AnswersStay,
           NEW c \in Copies, c <= accepted, IsRequest(c), AnsweredLater(c),
           \A o \in Copies : o > c => Stays(o) \/ (IsRequest(o)' => AnsweredLater(o)')
    PROVE  AnsweredLater(c)'
<1>1. PICK m \in Messages : copies[c].message = m /\ copies'[c].message = m /\ m \in Rpc
    BY KeptHeads, MessagesAssumption DEF IsRequest
<1>2. CASE Answered(m)
  <2>1. Answered(m)'
      BY <1>2 DEF Answered, AnswersStay
  <2> QED BY <1>1, <2>1 DEF AnsweredLater
<1>3. ASSUME NEW s \in Copies, s > c, Alive(s), copies[s].queue = "work", copies[s].message = m
      PROVE  AnsweredLater(c)'
  <2>1. s <= accepted
      BY <1>3, BoundAssumption DEF Numbered, Alive, Absent, TypeOK, Copies
  <2>2. copies'[s].queue = "work" /\ copies'[s].message = m
      BY <1>3, <2>1, KeptHeads
  <2>3. CASE Stays(s)
      BY <1>1, <1>3, <2>2, <2>3 DEF Stays, AnsweredLater
  <2>4. CASE AnsweredLater(s)'
    <3>1. c \in Int /\ \A o \in Copies : o \in Int
        BY BoundAssumption DEF Copies
    <3> QED BY <1>1, <1>3, <2>2, <2>4, <3>1 DEF AnsweredLater
  <2> QED BY <1>1, <1>3, <2>2, <2>3, <2>4 DEF IsRequest
<1> QED BY <1>1, <1>2, <1>3 DEF AnsweredLater

LEMMA AnswerInvStep ==
    ASSUME TypeOK, Numbered, AnswerInv, AllMoved \/ Accepts, AnswersStay,
           \A o \in Copies : Stays(o) \/ (IsRequest(o)' => AnsweredLater(o)'),
           \A e \in deliveries' : e.stage = "retryAck" =>
               \/ \E d \in deliveries : d.stage = "retryAck" /\ d.copy = e.copy
               \/ IsRequest(e.copy)' => AnsweredLater(e.copy)'
    PROVE  AnswerInv'
<1>1. ASSUME NEW c \in Copies, c <= accepted PROVE IsRequest(c)' <=> IsRequest(c)
    BY <1>1, KeptHeads DEF IsRequest
<1>2. ASSUME NEW c \in Copies, copies'[c].state = "gone", IsRequest(c)' PROVE AnsweredLater(c)'
  <2>1. CASE Stays(c)
    <3>1. copies[c].state = "gone" /\ c <= accepted
        BY <1>2, <2>1, BoundAssumption DEF Stays, Numbered, Absent, TypeOK, Copies
    <3>2. IsRequest(c) /\ AnsweredLater(c)
        BY <1>1, <1>2, <3>1 DEF AnswerInv
    <3> QED BY <3>1, <3>2, AnswerLaterKept
  <2> QED BY <1>2, <2>1
<1>3. ASSUME NEW e \in deliveries', e.stage = "retryAck", IsRequest(e.copy)' PROVE AnsweredLater(e.copy)'
  <2>1. ASSUME NEW d \in deliveries, d.stage = "retryAck", d.copy = e.copy PROVE AnsweredLater(e.copy)'
    <3>1. PICK c \in Copies : c = d.copy /\ c <= accepted
        BY DeliveryFields DEF Numbered
    <3>2. IsRequest(c)
        BY <1>1, <1>3, <2>1, <3>1
    <3>3. AnsweredLater(c)
        BY <2>1, <3>1, <3>2 DEF AnswerInv, HasReplyTo, IsRequest
    <3> QED BY <2>1, <3>1, <3>2, <3>3, AnswerLaterKept
  <2> QED BY <1>3, <2>1
<1> QED BY <1>2, <1>3 DEF AnswerInv, HasReplyTo, IsRequest

LEMMA AnswerStays ==
    ASSUME TypeOK, Numbered, NEW d \in deliveries, NEW a \in Answers, Answer(d, a)
    PROVE  /\ \A m \in Messages : replies[m] \subseteq replies'[m]
           /\ HasReplyTo(d) => a \in replies'[copies[d.copy].message]
BY DeliveryFields DEF TypeOK, Answer, Numbered

LEMMA AckAnswers ==
    ASSUME TypeOK, LossInv, AnswerInv, AnswersStay, SameAcks, NEW d \in deliveries,
           BrokerAck(d.worker, d.tag),
           \/ HasReplyTo(d) => Answered(copies[d.copy].message)'
           \/ d.stage = "retryAck"
    PROVE  AnswerInv'
<1>1. d.worker \in Workers /\ d.copy \in Copies /\ d.copy <= accepted
    BY DeliveryFields DEF LossInv, Numbered
<1>2. PICK x \in Copies : x = d.copy
    BY <1>1
<1>3. AllMoved /\ \A o \in Copies : o # x => Stays(o)
    BY <1>1, <1>2, BrokerAckMoves, AckStays DEF LossInv
<1>4. copies'[x].message = copies[x].message /\ copies'[x].queue = copies[x].queue
    BY <1>1, <1>2, <1>3, KeptHeads
<1>5. IsRequest(x)' => AnsweredLater(x)'
  <2>1. CASE HasReplyTo(d) => Answered(copies[d.copy].message)'
    <3>1. copies'[d.copy].message = copies[x].message /\ (IsRequest(x)' <=> HasReplyTo(d))
        BY <1>2, <1>4 DEF IsRequest, HasReplyTo
    <3>2. Answered(copies[d.copy].message)' <=> Answered(copies[x].message)'
        BY <1>2
    <3> QED BY <1>2, <2>1, <3>1, <3>2 DEF AnsweredLater
  <2>2. CASE d.stage = "retryAck"
    <3>1. IsRequest(x)' <=> HasReplyTo(d)
        BY <1>2, <1>4 DEF IsRequest, HasReplyTo
    <3>2. HasReplyTo(d) => AnsweredLater(x) /\ IsRequest(x)
        BY <1>2, <2>2 DEF AnswerInv, IsRequest, HasReplyTo
    <3>3. \A o \in Copies : o > x => o # x
        BY BoundAssumption DEF Copies
    <3> QED BY <1>1, <1>2, <1>3, <3>1, <3>2, <3>3, AnswerLaterKept DEF LossInv
  <2> QED BY <2>1, <2>2
<1> QED BY <1>3, <1>5, AnswerInvStep DEF LossInv, SameAcks

LEMMA QuietAnswers ==
    ASSUME TypeOK, Numbered, AnswerInv, AnswersStay, SameAcks, AllMoved \/ Accepts,
           \A o \in Copies : Stays(o)
    PROVE  AnswerInv'
BY AnswerInvStep DEF SameAcks

LEMMA SameAnswers ==
    ASSUME TypeOK, Numbered, AnswerInv, AnswersStay, SameAcks, UNCHANGED broker
    PROVE  AnswerInv'
<1>1. \A o \in Copies : Stays(o)
    BY SameStays DEF broker
<1> QED BY <1>1, UnchangedMoves, QuietAnswers

LEMMA AnswerStep ==
    ASSUME TypeOK, LossInv, AnswerInv, [Next]_vars, used'["resubscribe"] = 0
    PROVE  AnswerInv'
<1>0. Numbered
    BY DEF LossInv
<1>1. ASSUME deliveries' \subseteq deliveries PROVE SameAcks
    BY <1>1 DEF SameAcks
<1>2. ASSUME settled' = settled, replies' = replies PROVE AnswersStay
    BY <1>2 DEF AnswersStay
<1>3. ASSUME NEW d \in deliveries, NEW s \in Stages \ {"retryAck"}, Goto(d, s) PROVE SameAcks
    BY <1>3, DeliveryFields DEF Goto, SameAcks, Delivery
<1>4. ASSUME NEW d \in deliveries, NEW b \in BOOLEAN, Fail(d, b) PROVE SameAcks
    BY <1>4, DeliveryFields DEF Fail, SameAcks, Delivery
<1>5. ASSUME NEW d \in deliveries, End(d) PROVE SameAcks
    BY <1>1, <1>5 DEF End
<1>6. ASSUME NEW m, NEW q, NEW n, Enqueue(m, q, n) PROVE \A o \in Copies : Stays(o)
    BY <1>0, <1>6, EnqueueStays
<1>7. ASSUME NEW m \in Messages, Publish(m) PROVE AnswerInv'
  <2>1. Accepts
      BY <1>7 DEF Publish, Accepts, Origin, Queues
  <2> QED BY <1>0, <1>1, <1>2, <1>6, <1>7, <2>1, QuietAnswers DEF Publish
<1>8. ASSUME NEW w \in Workers, Start(w) \/ OpenForRetry(w) PROVE AnswerInv'
    BY <1>0, <1>1, <1>2, <1>8, SameAnswers DEF Start, OpenForRetry
<1>9. ASSUME NEW w \in Workers, NEW c \in Copies, Deliver(w, c) PROVE AnswerInv'
  <2>1. AllMoved /\ AnswersStay
      BY <1>2, <1>9 DEF Deliver, AllMoved, Moved, TypeOK
  <2>2. HandedTo(w, c).state = "unacked"
      BY DEF HandedTo, TypeOK, Copy
  <2>3. \A o \in Copies : Stays(o)
      BY <1>9, <2>2 DEF Deliver, Stays, Alive, TypeOK
  <2>4. SameAcks
      BY <1>9 DEF Deliver, Received, SameAcks
  <2> QED BY <1>0, <2>1, <2>3, <2>4, QuietAnswers
<1>10. ASSUME NEW d \in deliveries, HandlerReturns(d) PROVE AnswerInv'
    BY <1>0, <1>2, <1>3, <1>10, SameAnswers DEF HandlerReturns, Stages
<1>11. ASSUME NEW d \in deliveries, NEW b \in BOOLEAN, HandlerThrows(d, b) PROVE AnswerInv'
    BY <1>0, <1>2, <1>4, <1>11, SameAnswers DEF HandlerThrows
<1>12. ASSUME NEW d \in deliveries, ReplyAndAck(d) PROVE AnswerInv'
  <2>1. Answer(d, "ok")
      BY <1>12 DEF ReplyAndAck
  <2>2. /\ \A m \in Messages : replies[m] \subseteq replies'[m]
        /\ HasReplyTo(d) => replies'[copies[d.copy].message] # {}
      BY <1>0, <2>1, AnswerStays DEF Answers
  <2>3. CASE channel[d.worker] = d.channel
    <3>1. BrokerAck(d.worker, d.tag) /\ Conclude(d, "ok") /\ End(d)
        BY <1>12, <2>3 DEF ReplyAndAck
    <3>2. d.worker \in Workers /\ d.copy \in Copies /\ d.copy <= accepted
        BY <1>0, DeliveryFields DEF Numbered
    <3>3. copies'[d.copy].message = copies[d.copy].message
        BY <3>1, <3>2, BrokerAckMoves, KeptHeads
    <3>4. AnswersStay
        BY <1>0, <2>2, <3>1, ConcludeCloses DEF AnswersStay, Monotone, Queues, Outcomes
    <3>5. PICK x \in Copies : x = d.copy
        BY <3>2
    <3>6. HasReplyTo(d) => Answered(copies[d.copy].message)'
        BY <2>2, <3>3, <3>5 DEF Answered
    <3> QED BY <1>5, <3>1, <3>4, <3>6, AckAnswers
  <2>4. CASE channel[d.worker] # d.channel
    <3>1. AnswersStay
        BY <1>12, <2>2, <2>4 DEF ReplyAndAck, AnswersStay
    <3> QED BY <1>0, <1>4, <1>12, <2>4, <3>1, SameAnswers DEF ReplyAndAck
  <2> QED BY <2>3, <2>4
<1>13. ASSUME NEW d \in deliveries, HandleRetry(d) PROVE AnswerInv'
  <2>1. CASE d.status
    <3>1. BrokerAck(d.worker, d.tag) /\ Conclude(d, "status") /\ replies' = replies
        BY <1>13, <2>1 DEF HandleRetry
    <3>2. d.worker \in Workers /\ d.copy \in Copies /\ d.copy <= accepted
        BY <1>0, DeliveryFields DEF Numbered
    <3>3. copies'[d.copy].message = copies[d.copy].message
        BY <3>1, <3>2, BrokerAckMoves, KeptHeads
    <3>4. AnswersStay
        BY <1>0, <3>1, ConcludeCloses DEF AnswersStay, Monotone, Queues, Outcomes
    <3>5. "status" \in settled'[copies[d.copy].queue][copies[d.copy].message]
        BY <1>0, <3>1, ConcludeCloses DEF Outcomes
    <3>6. HasReplyTo(d) => Answered(copies[d.copy].message)'
        BY <3>3, <3>5 DEF Answered, HasReplyTo
    <3>7. SameAcks
        BY <1>3, <1>5, <1>13, <2>1 DEF HandleRetry, Stages
    <3> QED BY <3>1, <3>4, <3>6, <3>7, AckAnswers
  <2>2. CASE ~d.status
    <3>1. deliveries' = (deliveries \ {d}) \cup {Decided(d)} /\ UNCHANGED broker
        BY <1>13, <2>2 DEF HandleRetry, broker
    <3>2. Decided(d).stage # "retryAck"
        BY DeliveryFields DEF Decided, Delivery
    <3>3. SameAcks
        BY <3>1, <3>2 DEF SameAcks
    <3> QED BY <1>0, <1>2, <1>13, <2>2, <3>1, <3>3, SameAnswers DEF HandleRetry
  <2> QED BY <2>1, <2>2
<1>14. ASSUME NEW d \in deliveries, Republish(d) PROVE AnswerInv'
  <2> DEFINE q == copies[d.copy].queue
             m == copies[d.copy].message
             n == copies[d.copy].count
  <2>1. Enqueue(m, q, NextCount(n)) /\ Goto(d, "retryAck") /\ AnswersStay
      BY <1>2, <1>14 DEF Republish
  <2>2. NextCount(n) \in Nat
      BY DeliveryFields DEF NextCount
  <2>3. Accepts
      BY <1>14, <2>1, <2>2, DeliveryFields DEF Accepts, Republish, Origin, NextCount
  <2>4. PICK x \in Copies : x = d.copy /\ x <= accepted
      BY <1>0, DeliveryFields DEF Numbered
  <2>5. PICK new \in Copies : new = accepted + 1
      BY <2>1, EnqueueKeeps
  <2>6. new > x /\ new # x
      BY <2>4, <2>5, BoundAssumption DEF TypeOK, Copies
  <2>7. /\ copies'[new].message = copies[x].message
        /\ copies'[new].queue = copies[x].queue
        /\ copies'[new].state = "ready"
        /\ copies'[x] = copies[x]
      BY <2>1, <2>4, <2>5, <2>6, EnqueueKeeps
  <2>8. IsRequest(x)' => AnsweredLater(x)'
      BY <2>6, <2>7 DEF IsRequest, AnsweredLater, Alive
  <2>9. \A e \in deliveries' : e.stage = "retryAck" =>
            (\E c \in deliveries : c.stage = "retryAck" /\ c.copy = e.copy) \/ e.copy = x
      BY <2>1, <2>4, DeliveryFields DEF Goto, Delivery
  <2>10. \A o \in Copies : Stays(o)
      BY <1>6, <2>1
  <2>11. \A e \in deliveries' : e.stage = "retryAck" =>
            \/ \E c \in deliveries : c.stage = "retryAck" /\ c.copy = e.copy
            \/ IsRequest(e.copy)' => AnsweredLater(e.copy)'
      BY <2>8, <2>9
  <2> QED BY <1>0, <2>1, <2>3, <2>10, <2>11, AnswerInvStep
<1>15. ASSUME NEW d \in deliveries, RetryAck(d) PROVE AnswerInv'
  <2>1. AckOnVia(d) /\ SameAcks /\ AnswersStay /\ d.stage = "retryAck"
      BY <1>2, <1>5, <1>15 DEF RetryAck
  <2> QED BY <1>0, <2>1, AckAnswers, SameAnswers DEF AckOnVia
<1>16. ASSUME NEW d \in deliveries, ErrorReplyAndAck(d) PROVE AnswerInv'
  <2>1. AckOnVia(d) /\ SameAcks /\ Answer(d, "exhausted") /\ settled' = settled
      BY <1>5, <1>16 DEF ErrorReplyAndAck
  <2>2. /\ \A m \in Messages : replies[m] \subseteq replies'[m]
        /\ HasReplyTo(d) => replies'[copies[d.copy].message] # {}
      BY <1>0, <2>1, AnswerStays DEF Answers
  <2>3. AnswersStay
      BY <2>1, <2>2 DEF AnswersStay
  <2>4. CASE BrokerAck(d.worker, d.tag)
    <3>1. d.worker \in Workers /\ d.copy \in Copies /\ d.copy <= accepted
        BY <1>0, DeliveryFields DEF Numbered
    <3>2. copies'[d.copy].message = copies[d.copy].message
        BY <2>4, <3>1, BrokerAckMoves, KeptHeads
    <3>3. HasReplyTo(d) => Answered(copies[d.copy].message)'
        BY <2>2, <3>2 DEF Answered
    <3> QED BY <2>1, <2>3, <2>4, <3>3, AckAnswers
  <2>5. CASE UNCHANGED broker
      BY <1>0, <2>1, <2>3, <2>5, SameAnswers
  <2> QED BY <2>1, <2>4, <2>5 DEF AckOnVia
<1>17. ASSUME NEW d \in deliveries, SaveDeadLetter(d) PROVE AnswerInv'
  <2>1. SameAcks
      BY <1>3, <1>17 DEF SaveDeadLetter, Stages
  <2>2. Accepts \/ UNCHANGED broker
    <3>1. CASE copies[d.copy].queue \in DeadLettering
      <4>1. Origin(copies[d.copy].message, "dead", copies[d.copy].count)
          BY <1>17, <3>1 DEF SaveDeadLetter, Origin
      <4> QED BY <1>17, <3>1, <4>1, DeliveryFields DEF SaveDeadLetter, Accepts, Queues
    <3>2. CASE copies[d.copy].queue \notin DeadLettering
        BY <1>17, <3>2 DEF SaveDeadLetter
    <3> QED BY <3>1, <3>2
  <2>3. AnswersStay
      BY <1>0, <1>17, ConcludeCloses DEF SaveDeadLetter, AnswersStay, Monotone, Queues, Outcomes
  <2>4. CASE Accepts
      BY <1>0, <1>6, <2>1, <2>3, <2>4, QuietAnswers DEF Accepts
  <2> QED BY <1>0, <2>1, <2>2, <2>3, <2>4, SameAnswers
<1>18. ASSUME NEW d \in deliveries, StatusReply(d) \/ RetryChannelFails(d) PROVE AnswerInv'
  <2>1. AnswersStay
      BY <1>0, <1>2, <1>18, AnswerStays DEF StatusReply, RetryChannelFails, AnswersStay, Answers
  <2> QED BY <1>0, <1>5, <1>18, <2>1, SameAnswers DEF StatusReply, RetryChannelFails
<1>19. ASSUME NEW w \in Workers, Resubscribe(w) PROVE FALSE
    BY <1>19 DEF Resubscribe, Fault, TypeOK, Faults
<1>20. ASSUME NEW w \in Workers, CloseChannel(w) \/ Crash(w) PROVE AnswerInv'
  <2>1. PICK wire \in OnTheWire(w) : LoseChannel(w, wire)
      BY <1>20 DEF CloseChannel, Crash
  <2>2. \A c \in wire \cap Copies : copies[c].state = "ready"
      BY DEF OnTheWire
  <2>3. AllMoved /\ \A o \in Copies : Stays(o)
      BY <2>1, <2>2, LoseChannelMoves, LoseChannelStays
  <2> QED BY <1>0, <1>1, <1>2, <1>20, <2>3, QuietAnswers DEF CloseChannel, Crash
<1>21. ASSUME NEW d \in deliveries, PublishFails(d) PROVE AnswerInv'
  <2>1. AnswersStay /\ SameAcks /\ d.worker \in Workers
      BY <1>2, <1>4, <1>5, <1>21, DeliveryFields DEF PublishFails
  <2>2. CASE BrokerNack(d.worker, d.tag)
    <3>1. AllMoved /\ \A o \in Copies : Stays(o)
        BY <2>1, <2>2, SettleMoves, NackStays DEF BrokerNack
    <3> QED BY <1>0, <2>1, <3>1, QuietAnswers
  <2>3. CASE UNCHANGED <<broker, channel, lastChannel, lastTag>>
      BY <1>0, <2>1, <2>3, SameAnswers
  <2> QED BY <1>21, <2>2, <2>3 DEF PublishFails, NackOnVia
<1>22. ASSUME UNCHANGED vars PROVE AnswerInv'
    BY <1>0, <1>1, <1>2, <1>22, SameAnswers DEF vars, broker
<1> QED BY <1>7, <1>8, <1>9, <1>10, <1>11, <1>12, <1>13, <1>14, <1>15, <1>16, <1>17, <1>18,
           <1>19, <1>20, <1>21, <1>22 DEF Next, Progress, Disturbance

(* As long as no application subscribes a second time in a process with    *)
(* old chains, the broker never forgets a request whose producer got no    *)
(* answer (RpcAnswered), but for the status that is acknowledged before it *)
(* is answered.                                                            *)
THEOREM RequestsAnswered == Spec => [](SubscribedOnce => RpcAnswered)
<1>1. Init => AnswerInv
    BY DEF Init, AnswerInv, Absent
<1>2. TypeOK /\ (SubscribedOnce => LossInv) /\ (SubscribedOnce => AnswerInv) /\ [Next]_vars
        => (SubscribedOnce => AnswerInv)'
    BY AnswerStep, ResubscribedForGood DEF SubscribedOnce
<1>3. TypeOK /\ LossInv /\ LadderInv /\ AnswerInv => RpcAnswered
  <2> SUFFICES ASSUME TypeOK, LossInv, LadderInv, AnswerInv, NEW c \in Copies, NEW m \in Rpc,
                      copies[c].message = m
               PROVE  Live("work", m) \/ "status" \in settled["work"][m] \/ replies[m] # {}
      BY DEF RpcAnswered
  <2>1. PICK p \in Copies : copies[p].queue = "work" /\ copies[p].message = m
      BY DEF LadderInv, DeadLetterExhausted, TypeOK, Copy, Queues
  <2>2. copies[p].state # "absent"
    <3>1. p > accepted => copies[p].message = None
        BY DEF LossInv, Numbered, Absent
    <3> QED BY <2>1, <3>1, MessagesAssumption, BoundAssumption DEF LossInv, Numbered, TypeOK, Copies
  <2>3. CASE Alive(p)
      BY <2>1, <2>3 DEF Alive, Live
  <2>4. CASE copies[p].state = "gone"
      BY <2>1, <2>4 DEF AnswerInv, IsRequest, AnsweredLater, Answered, Alive, Live
  <2> QED BY <2>2, <2>3, <2>4 DEF TypeOK, Copy, Alive
<1> QED BY <1>1, <1>2, <1>3, LossInvariance, LadderInvariance, TypeCorrect, PTL DEF Spec

-----------------------------------------------------------------------------
(* Without faults a message is attempted at most 1 + max times.            *)

LEMMA NotAFault ==
    ASSUME TypeOK, NoFault', NEW f \in Faults \ {"rethrow"}
    PROVE  ~Fault(f)
BY DEF TypeOK, NoFault, Fault

LEMMA NoFaultBefore ==
    ASSUME TypeOK, NoFault', [Next]_vars
    PROVE  NoFault
<1>1. used' = used \/ \E f \in Faults : Fault(f)
    BY DEF Next, Progress, Disturbance, Publish, Start, OpenForRetry, Deliver, HandlerReturns,
           HandlerThrows, ReplyAndAck, HandleRetry, Republish, RetryAck, SaveDeadLetter,
           ErrorReplyAndAck, StatusReply, Resubscribe, CloseChannel, Crash, RetryChannelFails,
           PublishFails, AckOnVia, BrokerAck, vars, Faults
<1>2. CASE used' = used
    BY <1>2 DEF NoFault
<1>3. CASE Fault("rethrow")
    BY <1>3 DEF NoFault, Fault, TypeOK
<1> QED BY <1>1, <1>2, <1>3, NotAFault

(* What an ack does when nothing is lost.                                  *)
LEMMA AckOnly ==
    ASSUME TypeOK, LossInv, Undisturbed, NoFault', NEW d \in deliveries, d.stage # "statusReply",
           BrokerAck(d.worker, d.tag)
    PROVE  /\ copies' = [copies EXCEPT ![d.copy] = Gone(d.copy)]
           /\ UNCHANGED <<accepted, channel, lastChannel, lastTag>>
<1>1. Settle(d.worker, d.tag, FALSE)
    BY NotAFault DEF BrokerAck, Faults
<1>2. Held(d.copy, d.worker, channel[d.worker], d.tag)
    BY DeliveryFields DEF Undisturbed, ChainHolds, Held, HeldOn, LossInv, Holding
<1>3. \A c \in Copies : c # d.copy => ~Held(c, d.worker, channel[d.worker], d.tag)
    BY DEF LossInv, Tags, Held, HeldOn
<1> QED BY <1>1, <1>2, <1>3, DeliveryFields DEF Settle, TypeOK

PendingKept == \A c \in Copies : c <= accepted => (Pending(c)' => Pending(c))

(* A chain goes on, or ends, and no copy but its own moves.                *)
LEMMA ChainStep ==
    ASSUME TypeOK, Numbered, Undisturbed, UNCHANGED <<channel, consumer>>,
           NEW d \in deliveries, NEW e, deliveries' \subseteq (deliveries \ {d}) \cup {e},
           e \in deliveries' => /\ e.copy = d.copy /\ ChainHolds(e)'
                                /\ d.stage = "retryAck" => e.stage = "retryAck",
           \A c \in Copies : c <= accepted /\ c # d.copy => copies'[c] = copies[c],
           copies'[d.copy].state # "ready", copies'[d.copy].queue = copies[d.copy].queue
    PROVE  Undisturbed' /\ PendingKept
<1>1. \A f \in deliveries : f.copy \in Copies /\ f.copy <= accepted
    BY DeliveryFields DEF Numbered
<1>2. \A f \in deliveries' : f = e \/ (f \in deliveries /\ f.copy # d.copy)
    BY DEF Undisturbed
<1>3. \A f \in deliveries' : ChainHolds(f)'
  <2> SUFFICES ASSUME NEW f \in deliveries', f \in deliveries, f.copy # d.copy
               PROVE  ChainHolds(f)'
      BY <1>2
  <2>1. copies'[f.copy] = copies[f.copy]
      BY <1>1
  <2> QED BY <2>1 DEF Undisturbed, ChainHolds
<1>4. \A f, g \in deliveries' : f.copy = g.copy => f = g
    BY <1>2 DEF Undisturbed
<1>5. PendingKept
  <2> SUFFICES ASSUME NEW c \in Copies, c <= accepted, Pending(c)' PROVE Pending(c)
      BY DEF PendingKept
  <2>1. CASE c = d.copy
      BY <1>2, <2>1 DEF Pending
  <2>2. CASE c # d.copy
    <3>1. copies'[c] = copies[c]
        BY <2>2
    <3> QED BY <1>2, <2>2, <3>1 DEF Pending
  <2> QED BY <2>1, <2>2
<1> QED BY <1>3, <1>4, <1>5 DEF Undisturbed

LEMMA OldPending ==
    ASSUME TypeOK, Numbered', accepted' \in Nat, PendingKept, NEW c \in Copies, Pending(c)'
    PROVE  Pending(c) \/ (c > accepted /\ c <= accepted')
<1>1. c <= accepted'
  <2>1. c > accepted' => copies'[c].state = "absent"
      BY DEF Numbered, Absent
  <2>2. \A e \in deliveries' : e.copy <= accepted'
      BY DEF Numbered
  <2>3. copies'[c].state = "ready" \/ \E e \in deliveries' : e.copy = c
      BY DEF Pending
  <2> QED BY <2>1, <2>2, <2>3, BoundAssumption DEF Copies
<1> QED BY <1>1, BoundAssumption DEF PendingKept, TypeOK, Copies

LEMMA RungKept ==
    ASSUME TypeOK, Numbered', OneRung, PendingKept, AllMoved
    PROVE  OneRung'
<1>1. \A c \in Copies : /\ copies'[c].message = copies[c].message
                        /\ copies'[c].queue = copies[c].queue
                        /\ copies'[c].count = copies[c].count
    BY MovedKeeps DEF AllMoved
<1>2. \A c \in Copies : Pending(c)' => Pending(c)
    BY OldPending, BoundAssumption DEF AllMoved, TypeOK, Copies
<1> QED BY <1>1, <1>2 DEF OneRung, SameRequest

LEMMA RungAdded ==
    ASSUME TypeOK, Numbered, Numbered', OneRung, PendingKept, NEW m \in Messages, NEW q \in Queues,
           NEW n \in Nat, Enqueue(m, q, n),
           q = "work" => \A c \in Copies : copies[c].queue = "work" /\ copies[c].message = m
                                              => copies[c].count < n /\ ~Pending(c)'
    PROVE  OneRung'
<1>1. PICK new \in Copies : new = accepted + 1 /\ accepted' = new
    BY EnqueueKeeps
<1>2. /\ copies'[new].message = m /\ copies'[new].queue = q /\ copies'[new].count = n
      /\ \A c \in Copies : c # new => copies'[c] = copies[c]
    BY <1>1, EnqueueKeeps
<1>3. \A c \in Copies : c # new /\ Pending(c)' => Pending(c)
    BY <1>1, OldPending, BoundAssumption DEF TypeOK, Copies
<1>4. \A c \in Copies : copies[c].count \in Nat
    BY DEF TypeOK, Copy
<1> SUFFICES ASSUME NEW a \in Copies, NEW b \in Copies, SameRequest(a, b)'
             PROVE  /\ copies'[a].count = copies'[b].count /\ copies'[a].message # None => a = b
                    /\ Pending(a)' => copies'[b].count <= copies'[a].count
    BY DEF OneRung
<1>5. CASE a # new /\ b # new
    BY <1>2, <1>3, <1>5 DEF OneRung, SameRequest
<1>6. CASE a = new /\ b # new
  <2>1. copies'[b] = copies[b] /\ copies[b].count < n
      BY <1>2, <1>6 DEF SameRequest
  <2> QED BY <1>2, <1>4, <1>6, <2>1
<1>7. CASE a # new /\ b = new
  <2>1. copies'[a] = copies[a] /\ copies[a].count < n /\ ~Pending(a)'
      BY <1>2, <1>7 DEF SameRequest
  <2> QED BY <1>2, <1>4, <1>7, <2>1
<1>8. CASE a = new /\ b = new
    BY <1>2, <1>8
<1> QED BY <1>5, <1>6, <1>7, <1>8

(* Two pending copies of one message are the same.                         *)
LEMMA OnePending ==
    ASSUME TypeOK, OneRung, NEW a \in Copies, NEW b \in Copies, Pending(a), Pending(b),
           copies[a].message = copies[b].message, copies[a].message # None
    PROVE  a = b
<1>1. SameRequest(a, b) /\ SameRequest(b, a)
    BY DEF Pending, SameRequest
<1>2. copies[a].count <= copies[b].count /\ copies[b].count <= copies[a].count
    BY <1>1 DEF OneRung
<1>3. copies[a].count \in Nat /\ copies[b].count \in Nat
    BY DEF TypeOK, Copy
<1>4. copies[a].count = copies[b].count
    BY <1>2, <1>3
<1> QED BY <1>1, <1>4 DEF OneRung

LEMMA AnswersKept ==
    ASSUME TypeOK, Numbered, Numbered', OneAnswer, PendingKept, replies' = replies,
           AllMoved \/ \E m \in Messages, q \in Queues, n \in Nat :
                          Enqueue(m, q, n) /\ (q = "work" => replies[m] = {})
    PROVE  OneAnswer'
<1> SUFFICES ASSUME NEW m \in Messages, replies[m] # {}
             PROVE  /\ \E c \in Copies : copies'[c].message = m
                    /\ \A c \in Copies : copies'[c].message = m => ~Pending(c)'
    BY DEF OneAnswer
<1>1. \A c \in Copies : copies[c].message = m => c <= accepted
  <2>1. \A c \in Copies : c > accepted => copies[c].message = None
      BY DEF Numbered, Absent
  <2> QED BY <2>1, MessagesAssumption, BoundAssumption DEF TypeOK, Copies
<1>2. \A c \in Copies : c <= accepted => copies'[c].message = copies[c].message
    BY MovedKeeps, EnqueueKeeps, BoundAssumption DEF AllMoved, TypeOK, Copies
<1>3. \E c \in Copies : copies'[c].message = m
    BY <1>1, <1>2 DEF OneAnswer
<1>4. accepted' \in Nat
    BY EnqueueKeeps, BoundAssumption DEF AllMoved, TypeOK, Copies
<1>5. ASSUME NEW c \in Copies, copies'[c].message = m, Pending(c)' PROVE FALSE
  <2>1. CASE Pending(c)
    <3>1. c <= accepted
      <4>1. c > accepted => copies[c].state = "absent" /\ ~\E d \in deliveries : d.copy = c
          BY BoundAssumption DEF Numbered, Absent, TypeOK, Copies
      <4> QED BY <2>1, <4>1, BoundAssumption DEF Pending, TypeOK, Copies
    <3> QED BY <1>2, <1>5, <2>1, <3>1 DEF OneAnswer
  <2>2. CASE c > accepted /\ c <= accepted'
    <3>1. ~AllMoved
        BY <2>2, BoundAssumption DEF AllMoved, TypeOK, Copies
    <3>2. PICK l \in Messages, q \in Queues, n \in Nat : Enqueue(l, q, n) /\ (q = "work" => replies[l] = {})
        BY <3>1
    <3>3. c = accepted + 1
        BY <2>2, <3>2, EnqueueKeeps, BoundAssumption DEF TypeOK, Copies
    <3>4. l = m /\ q = "work"
        BY <1>5, <3>2, <3>3, EnqueueKeeps DEF Pending
    <3> QED BY <3>2, <3>4
  <2> QED BY <1>4, <1>5, <2>1, <2>2, OldPending
<1> QED BY <1>3, <1>5

LEMMA AnsweredOnce ==
    ASSUME TypeOK, Numbered, Numbered', OneRung, OneAnswer, PendingKept, AllMoved,
           NEW d \in deliveries, d.stage # "retryAck", NEW a \in Answers, Answer(d, a),
           ~Pending(d.copy)'
    PROVE  OneAnswer'
<1>1. CASE ~HasReplyTo(d)
    BY <1>1, AnswersKept DEF Answer
<1>2. CASE HasReplyTo(d)
  <2>1. PICK x \in Copies : x = d.copy
      BY DeliveryFields
  <2>2. PICK m \in Messages : copies[x].message = m /\ copies[x].queue = "work"
      BY <1>2, <2>1, MessagesAssumption DEF HasReplyTo
  <2>3. Pending(x)
      BY <2>1, <2>2 DEF Pending
  <2>4. replies[m] = {}
      BY <2>2, <2>3 DEF OneAnswer
  <2>5. replies' = [replies EXCEPT ![m] = {a}]
      BY <1>2, <2>1, <2>2, <2>4 DEF Answer
  <2>6. \A c \in Copies : copies'[c].message = copies[c].message
      BY MovedKeeps DEF AllMoved
  <2>7. \A c \in Copies : Pending(c)' => Pending(c)
      BY OldPending, BoundAssumption DEF AllMoved, TypeOK, Copies
  <2>8. m # None
      BY MessagesAssumption
  <2>9. \A c \in Copies : copies'[c].message = m => ~Pending(c)'
    <3> SUFFICES ASSUME NEW c \in Copies, copies[c].message = m, Pending(c)' PROVE FALSE
        BY <2>6
    <3>1. c = x
        BY <2>2, <2>3, <2>7, <2>8, OnePending
    <3> QED BY <2>1, <3>1
  <2>10. replies'[m] = {a} /\ \A l \in Messages : l # m => replies'[l] = replies[l]
      BY <2>5 DEF TypeOK
  <2>11. ASSUME NEW l \in Messages, l # m, replies[l] # {}
         PROVE  /\ \E c \in Copies : copies'[c].message = l
                /\ \A c \in Copies : copies'[c].message = l => ~Pending(c)'
      BY <2>6, <2>7, <2>11 DEF OneAnswer
  <2>12. \E c \in Copies : copies'[c].message = m
      BY <2>2, <2>6
  <2>13. ASSUME NEW l \in Messages
         PROVE  /\ replies'[l] = {} \/ \E b \in Answers : replies'[l] = {b}
                /\ replies'[l] # {} => /\ \E c \in Copies : copies'[c].message = l
                                       /\ \A c \in Copies : copies'[c].message = l => ~Pending(c)'
    <3>1. CASE l = m BY <2>9, <2>10, <2>12, <3>1
    <3>2. CASE l # m BY <2>10, <2>11, <3>2 DEF OneAnswer
    <3> QED BY <3>1, <3>2
  <2> QED BY <2>13 DEF OneAnswer
<1> QED BY <1>1, <1>2

LEMMA SameStep ==
    ASSUME TypeOK, Numbered, Numbered', BudgetInv, NEW d \in deliveries, NEW e,
           deliveries' \subseteq (deliveries \ {d}) \cup {e},
           e \in deliveries' => /\ e.copy = d.copy /\ e.worker = d.worker /\ e.tag = d.tag
                                /\ e.stage = "statusReply" <=> d.stage = "statusReply"
                                /\ d.stage = "retryAck" => e.stage = "retryAck",
           UNCHANGED <<copies, accepted, channel, consumer, replies>>
    PROVE  BudgetInv'
<1>1. ChainHolds(d)
    BY DEF BudgetInv, Undisturbed
<1>2. e \in deliveries' => ChainHolds(e)'
    BY <1>1 DEF ChainHolds
<1>3. copies[d.copy].state # "ready"
    BY <1>1 DEF ChainHolds
<1>4. Undisturbed' /\ PendingKept
    BY <1>2, <1>3, ChainStep DEF BudgetInv
<1>5. AllMoved
    BY UnchangedMoves DEF broker
<1> QED BY <1>4, <1>5, RungKept, AnswersKept DEF BudgetInv

(* A chain ends with an ack, or acknowledges and goes on to answer a       *)
(* status.                                                                 *)
LEMMA AckStep ==
    ASSUME TypeOK, Numbered, Numbered', LossInv, BudgetInv, NoFault', NEW d \in deliveries,
           d.stage # "statusReply", BrokerAck(d.worker, d.tag), consumer' = consumer,
           NEW e, deliveries' \subseteq (deliveries \ {d}) \cup {e},
           e \in deliveries' => /\ e.copy = d.copy /\ e.stage = "statusReply"
                                /\ d.stage # "retryAck"
    PROVE  /\ Undisturbed' /\ PendingKept /\ OneRung' /\ AllMoved
           /\ e \notin deliveries' => ~Pending(d.copy)'
           /\ replies' = replies => OneAnswer'
<1>1. /\ copies' = [copies EXCEPT ![d.copy] = Gone(d.copy)]
      /\ UNCHANGED <<accepted, channel, lastChannel, lastTag>>
    BY AckOnly DEF BudgetInv
<1>2. d.worker \in Workers /\ d.copy \in Copies
    BY DeliveryFields
<1>3. copies'[d.copy] = Gone(d.copy) /\ \A c \in Copies : c # d.copy => copies'[c] = copies[c]
    BY <1>1, <1>2 DEF TypeOK
<1>4. Gone(d.copy).state = "gone" /\ Gone(d.copy).queue = copies[d.copy].queue
    BY <1>2 DEF Gone, TypeOK, Copy
<1>5. e \in deliveries' => ChainHolds(e)'
    BY <1>3, <1>4 DEF ChainHolds
<1>6. Undisturbed' /\ PendingKept
    BY <1>1, <1>3, <1>4, <1>5, ChainStep DEF BudgetInv
<1>7. AllMoved
    BY <1>2, BrokerAckMoves
<1>8. OneRung'
    BY <1>6, <1>7, RungKept DEF BudgetInv
<1>9. e \notin deliveries' => ~Pending(d.copy)'
  <2>1. PICK x \in Copies : x = d.copy
      BY <1>2
  <2>2. copies'[x].state = "gone"
      BY <1>3, <1>4, <2>1
  <2>3. e \notin deliveries' => \A f \in deliveries' : f.copy # x
      BY <2>1 DEF BudgetInv, Undisturbed
  <2>4. e \notin deliveries' => ~Pending(x)'
      BY <2>2, <2>3 DEF Pending
  <2> QED BY <2>1, <2>4, <1>3, <1>4 DEF Pending
<1>10. replies' = replies => OneAnswer'
    BY <1>6, <1>7, AnswersKept DEF BudgetInv
<1> QED BY <1>6, <1>7, <1>8, <1>9, <1>10

(* A chain answers, and ends without an ack.                               *)
LEMMA AnswerEnds ==
    ASSUME TypeOK, Numbered, Numbered', BudgetInv, NEW d \in deliveries, d.stage # "retryAck",
           NEW a \in Answers, Answer(d, a), End(d),
           UNCHANGED <<copies, accepted, channel, consumer>>
    PROVE  BudgetInv'
<1>1. ChainHolds(d) /\ d.copy \in Copies
    BY DeliveryFields DEF BudgetInv, Undisturbed
<1>2. copies[d.copy].state # "ready"
    BY <1>1 DEF ChainHolds
<1>3. d \notin deliveries' /\ deliveries' \subseteq (deliveries \ {d}) \cup {d}
    BY DEF End
<1>4. Undisturbed' /\ PendingKept
    BY <1>2, <1>3, ChainStep DEF BudgetInv
<1>5. AllMoved
    BY UnchangedMoves DEF broker
<1>6. \A f \in deliveries' : f.copy # d.copy
    BY DEF BudgetInv, Undisturbed, End
<1>7. ~Pending(d.copy)'
    BY <1>2, <1>6 DEF Pending
<1> QED BY <1>4, <1>5, <1>7, RungKept, AnsweredOnce DEF BudgetInv

LEMMA AckAnswersOnce ==
    ASSUME TypeOK, Numbered, Numbered', LossInv, BudgetInv, NoFault', NEW d \in deliveries,
           d.stage \notin {"retryAck", "statusReply"}, NEW a \in Answers, Answer(d, a), End(d),
           BrokerAck(d.worker, d.tag), consumer' = consumer
    PROVE  BudgetInv'
<1>1. d \notin deliveries' /\ deliveries' \subseteq (deliveries \ {d}) \cup {d}
    BY DEF End
<1>2. Undisturbed' /\ PendingKept /\ OneRung' /\ AllMoved /\ ~Pending(d.copy)'
    BY <1>1, AckStep
<1> QED BY <1>2, AnsweredOnce DEF BudgetInv

LEMMA AddStep ==
    ASSUME TypeOK, Numbered, Numbered', BudgetInv, NEW d \in deliveries,
           d.stage \notin {"retryAck", "statusReply"},
           NEW s \in Stages \ {"statusReply"}, Goto(d, s),
           NEW m \in Messages, NEW q \in Queues, NEW n \in Nat, Enqueue(m, q, n),
           q = "work" => /\ m = copies[d.copy].message /\ copies[d.copy].queue = "work"
                         /\ n > copies[d.copy].count /\ s = "retryAck",
           UNCHANGED <<channel, consumer, replies>>
    PROVE  BudgetInv'
<1>1. PICK x \in Copies : x = d.copy /\ x <= accepted
    BY DeliveryFields DEF Numbered
<1>2. PICK e \in Delivery : e = [d EXCEPT !.stage = s] /\ deliveries' = (deliveries \ {d}) \cup {e}
  <2>1. [d EXCEPT !.stage = s] \in Delivery
      BY DeliveryFields DEF Delivery
  <2> QED BY <2>1 DEF Goto
<1>3. e.copy = x /\ e.worker = d.worker /\ e.tag = d.tag /\ e.stage = s
    BY <1>1, <1>2, DeliveryFields DEF Delivery
<1>4. \A c \in Copies : c <= accepted => copies'[c] = copies[c]
    BY EnqueueKeeps, BoundAssumption DEF TypeOK, Copies
<1>5. ChainHolds(d) /\ copies[x].state # "ready"
    BY <1>1 DEF BudgetInv, Undisturbed, ChainHolds
<1>6. ChainHolds(e)'
    BY <1>1, <1>3, <1>4, <1>5 DEF ChainHolds
<1>7. copies'[d.copy] = copies[d.copy]
    BY <1>1, <1>4
<1>8. Undisturbed' /\ PendingKept
  <2>1. deliveries' \subseteq (deliveries \ {d}) \cup {e} /\ e.copy = d.copy
      BY <1>1, <1>2, <1>3
  <2>2. copies'[d.copy].state # "ready" /\ copies'[d.copy].queue = copies[d.copy].queue
      BY <1>1, <1>5, <1>7
  <2> QED BY <1>4, <1>6, <2>1, <2>2, ChainStep DEF BudgetInv
<1>9. CASE q = "work"
  <2>1. copies[x].message = m /\ copies[x].queue = "work" /\ n > copies[x].count /\ s = "retryAck"
      BY <1>1, <1>9
  <2>2. Pending(x)
      BY <1>1, <2>1 DEF Pending
  <2>3. m # None
      BY MessagesAssumption
  <2>4. replies[m] = {}
      BY <2>1, <2>2 DEF BudgetInv, OneAnswer
  <2>5. ~Pending(x)'
    <3>1. copies'[x].state # "ready"
        BY <1>1, <1>4, <1>5
    <3>2. \A f \in deliveries' : f.copy = x => f.stage = "retryAck"
        BY <1>1, <1>2, <1>3, <2>1 DEF BudgetInv, Undisturbed
    <3> QED BY <3>1, <3>2 DEF Pending
  <2>6. ASSUME NEW c \in Copies, copies[c].queue = "work", copies[c].message = m
        PROVE  copies[c].count < n /\ ~Pending(c)'
    <3>1. SameRequest(x, c)
        BY <2>1, <2>6 DEF SameRequest
    <3>2. copies[c].count <= copies[x].count
        BY <2>2, <3>1 DEF BudgetInv, OneRung
    <3>3. copies[c].count < n
        BY <2>1, <3>2 DEF TypeOK, Copy
    <3>4. c <= accepted
      <4>1. c > accepted => copies[c].message = None
          BY DEF Numbered, Absent
      <4> QED BY <2>3, <2>6, <4>1, BoundAssumption DEF TypeOK, Copies
    <3>5. Pending(c)' => Pending(c)
        BY <1>8, <3>4 DEF PendingKept
    <3>6. Pending(c) => c = x
        BY <2>1, <2>2, <2>3, <2>6, OnePending DEF BudgetInv
    <3> QED BY <2>5, <3>3, <3>5, <3>6
  <2>7. OneRung'
      BY <1>8, <2>6, RungAdded DEF BudgetInv
  <2>8. OneAnswer'
      BY <1>8, <2>4, AnswersKept DEF BudgetInv
  <2> QED BY <1>8, <2>7, <2>8 DEF BudgetInv
<1>10. CASE q # "work"
  <2>1. OneRung'
      BY <1>8, <1>10, RungAdded DEF BudgetInv
  <2>2. OneAnswer'
      BY <1>8, <1>10, AnswersKept DEF BudgetInv
  <2> QED BY <1>8, <2>1, <2>2 DEF BudgetInv
<1> QED BY <1>9, <1>10

LEMMA PublishStep ==
    ASSUME TypeOK, Numbered, Numbered', BudgetInv, NEW m \in Messages, Publish(m)
    PROVE  BudgetInv'
<1>1. Enqueue(m, "work", 0) /\ UNCHANGED <<deliveries, channel, consumer, replies>>
    BY DEF Publish, channels
<1>2. \A c \in Copies : copies[c].message # m
    BY DEF Publish
<1>3. \A c \in Copies : c <= accepted => copies'[c] = copies[c]
    BY <1>1, EnqueueKeeps, BoundAssumption DEF TypeOK, Copies
<1>4. \A f \in deliveries : f.copy \in Copies /\ f.copy <= accepted
    BY DeliveryFields DEF Numbered
<1>5. Undisturbed'
    BY <1>1, <1>3, <1>4 DEF BudgetInv, Undisturbed, ChainHolds
<1>6. PendingKept
    BY <1>1, <1>3 DEF PendingKept, Pending
<1>7. replies[m] = {}
    BY <1>2 DEF BudgetInv, OneAnswer
<1>8. OneRung'
    BY <1>1, <1>2, <1>6, RungAdded DEF BudgetInv, Queues
<1>9. OneAnswer'
    BY <1>1, <1>6, <1>7, AnswersKept DEF BudgetInv, Queues
<1> QED BY <1>5, <1>8, <1>9 DEF BudgetInv

LEMMA DeliverStep ==
    ASSUME TypeOK, Numbered, Numbered', BudgetInv, NEW w \in Workers, NEW c \in Copies, Deliver(w, c)
    PROVE  BudgetInv'
<1>1. /\ copies[c].state = "ready" /\ copies' = [copies EXCEPT ![c] = HandedTo(w, c)]
      /\ deliveries' = deliveries \cup {Received(w, c)}
      /\ UNCHANGED <<accepted, channel, consumer, replies>>
    BY DEF Deliver
<1>2. /\ copies'[c] = HandedTo(w, c)
      /\ \A o \in Copies : o # c => copies'[o] = copies[o]
    BY <1>1 DEF TypeOK
<1>3. /\ HandedTo(w, c).state = "unacked" /\ HandedTo(w, c).worker = w
      /\ HandedTo(w, c).tag = lastTag[w] + 1 /\ HandedTo(w, c).queue = copies[c].queue
    BY DEF HandedTo, TypeOK, Copy
<1>4. \A f \in deliveries : f.copy # c /\ f.copy \in Copies
    BY <1>1, DeliveryFields DEF BudgetInv, Undisturbed, ChainHolds
<1>5. PICK r : r = Received(w, c)
    OBVIOUS
<1>6. r.copy = c /\ r.worker = w /\ r.tag = lastTag[w] + 1 /\ r.stage # "statusReply" /\ r.stage # "retryAck"
    BY <1>5 DEF Received
<1>7. ChainHolds(r)'
    BY <1>2, <1>3, <1>6 DEF ChainHolds
<1>8. \A f \in deliveries : ChainHolds(f)'
    BY <1>2, <1>4 DEF BudgetInv, Undisturbed, ChainHolds
<1>9. Undisturbed'
    BY <1>1, <1>4, <1>5, <1>6, <1>7, <1>8 DEF BudgetInv, Undisturbed
<1>10. PendingKept
    BY <1>1, <1>2, <1>3, <1>5, <1>6 DEF PendingKept, Pending
<1>11. AllMoved
    BY <1>1, <1>2 DEF AllMoved, Moved
<1> QED BY <1>1, <1>9, <1>10, <1>11, RungKept, AnswersKept DEF BudgetInv

LEMMA HandlingStep ==
    ASSUME TypeOK, Numbered, Numbered', BudgetInv, NEW d \in deliveries, d.stage = "handling",
           \/ Goto(d, "replying")
           \/ \E b \in BOOLEAN : Fail(d, b),
           UNCHANGED <<broker, channels, replies>>
    PROVE  BudgetInv'
<1>1. PICK e : /\ deliveries' = (deliveries \ {d}) \cup {e}
               /\ e.copy = d.copy /\ e.worker = d.worker /\ e.tag = d.tag
               /\ e.stage # "statusReply"
  <2>1. CASE Goto(d, "replying")
    <3>1. PICK e : e = [d EXCEPT !.stage = "replying"] OBVIOUS
    <3> QED BY <2>1, <3>1, DeliveryFields DEF Goto, Delivery
  <2>2. ASSUME NEW b \in BOOLEAN, Fail(d, b)
        PROVE  \E e : /\ deliveries' = (deliveries \ {d}) \cup {e}
                      /\ e.copy = d.copy /\ e.worker = d.worker /\ e.tag = d.tag
                      /\ e.stage # "statusReply"
    <3>1. PICK e : e = [d EXCEPT !.stage = "failed", !.status = b] OBVIOUS
    <3>2. e.copy = d.copy /\ e.worker = d.worker /\ e.tag = d.tag /\ e.stage = "failed"
        BY <3>1, DeliveryFields DEF Delivery
    <3>3. deliveries' = (deliveries \ {d}) \cup {e}
        BY <2>2, <3>1 DEF Fail
    <3> QED BY <3>2, <3>3
  <2> QED BY <2>1, <2>2
<1> QED BY <1>1, SameStep DEF broker, channels

LEMMA RetryStep ==
    ASSUME TypeOK, Numbered, Numbered', LossInv, BudgetInv, NoFault', NEW d \in deliveries, HandleRetry(d)
    PROVE  BudgetInv'
<1>1. CASE d.status
  <2>1. BrokerAck(d.worker, d.tag) /\ UNCHANGED <<consumer, replies>> /\ d.stage = "failed"
      BY <1>1 DEF HandleRetry
  <2>2. CASE End(d)
    <3>1. d \notin deliveries' /\ deliveries' \subseteq (deliveries \ {d}) \cup {d}
        BY <2>2 DEF End
    <3> QED BY <2>1, <3>1, AckStep DEF BudgetInv
  <2>3. CASE Goto(d, "statusReply")
    <3>1. PICK e : e = [d EXCEPT !.stage = "statusReply"] OBVIOUS
    <3>2. deliveries' \subseteq (deliveries \ {d}) \cup {e} /\ e.copy = d.copy /\ e.stage = "statusReply"
        BY <2>3, <3>1, DeliveryFields DEF Goto, Delivery
    <3> QED BY <2>1, <3>2, AckStep DEF BudgetInv
  <2> QED BY <1>1, <2>2, <2>3 DEF HandleRetry
<1>2. CASE ~d.status
  <2>1. PICK e : e = Decided(d) OBVIOUS
  <2>2. /\ deliveries' = (deliveries \ {d}) \cup {e} /\ d.stage = "failed"
        /\ e.copy = d.copy /\ e.worker = d.worker /\ e.tag = d.tag
        /\ e.stage # "statusReply"
      BY <1>2, <2>1, DeliveryFields DEF HandleRetry, Decided, Delivery
  <2> QED BY <1>2, <2>2, SameStep DEF HandleRetry, broker
<1> QED BY <1>1, <1>2

LEMMA ViaStep ==
    ASSUME TypeOK, Numbered, Numbered', LossInv, BudgetInv, NoFault', NEW d \in deliveries,
           RetryAck(d) \/ ErrorReplyAndAck(d)
    PROVE  BudgetInv'
<1>1. AckOnVia(d) /\ End(d) /\ consumer' = consumer
    BY DEF RetryAck, ErrorReplyAndAck
<1>2. d \notin deliveries' /\ deliveries' \subseteq (deliveries \ {d}) \cup {d}
    BY <1>1 DEF End
<1>3. CASE RetryAck(d) /\ BrokerAck(d.worker, d.tag)
    BY <1>1, <1>2, <1>3, AckStep DEF RetryAck, BudgetInv
<1>4. CASE ErrorReplyAndAck(d) /\ BrokerAck(d.worker, d.tag)
    BY <1>1, <1>4, AckAnswersOnce DEF ErrorReplyAndAck, Answers
<1>5. CASE RetryAck(d) /\ UNCHANGED <<broker, channel>>
    BY <1>1, <1>2, <1>5, SameStep DEF RetryAck, broker
<1>6. CASE ErrorReplyAndAck(d) /\ UNCHANGED <<broker, channel>>
    BY <1>1, <1>6, AnswerEnds DEF ErrorReplyAndAck, Answers, broker
<1> QED BY <1>1, <1>3, <1>4, <1>5, <1>6 DEF AckOnVia

LEMMA BudgetStep ==
    ASSUME TypeOK, Numbered', LossInv, BudgetInv, NoFault', [Next]_vars
    PROVE  BudgetInv'
<1>0. Numbered
    BY DEF LossInv
<1>1. ASSUME NEW d \in deliveries PROVE channel[d.worker] = d.channel /\ channel[d.worker] # 0
    BY DeliveryFields DEF LossInv, Tags, BudgetInv, Undisturbed
<1>2. ASSUME NEW f \in {"crash", "close", "publish", "resubscribe"}, Fault(f) PROVE FALSE
    BY <1>2, NotAFault DEF Faults
<1>3. ASSUME NEW m \in Messages, Publish(m) PROVE BudgetInv'
    BY <1>0, <1>3, PublishStep
<1>4. ASSUME NEW w \in Workers, Start(w) PROVE BudgetInv'
  <2>1. channel[w] = 0
      BY <1>4 DEF Start, Consuming, BudgetInv, Undisturbed
  <2>2. deliveries' = deliveries
      BY <1>1, <1>4, <2>1 DEF Start
  <2>3. UNCHANGED <<copies, accepted, replies>>
      BY <1>4 DEF Start, broker
  <2>4. \A v \in Workers : consumer'[v] = channel'[v]
      BY <1>4 DEF Start, Open, TypeOK, BudgetInv, Undisturbed
  <2>5. Undisturbed'
      BY <2>2, <2>3, <2>4 DEF BudgetInv, Undisturbed, ChainHolds
  <2>6. PendingKept /\ AllMoved
      BY <2>2, <2>3, UnchangedMoves DEF PendingKept, Pending, broker
  <2> QED BY <1>0, <2>3, <2>5, <2>6, RungKept, AnswersKept DEF BudgetInv
<1>5. ASSUME NEW w \in Workers, OpenForRetry(w) PROVE FALSE
    BY <1>1, <1>5 DEF OpenForRetry
<1>6. ASSUME NEW w \in Workers, NEW c \in Copies, Deliver(w, c) PROVE BudgetInv'
    BY <1>0, <1>6, DeliverStep
<1>7. ASSUME NEW d \in deliveries, HandlerReturns(d) PROVE BudgetInv'
    BY <1>0, <1>7, HandlingStep DEF HandlerReturns
<1>8. ASSUME NEW d \in deliveries, NEW b \in BOOLEAN, HandlerThrows(d, b) PROVE BudgetInv'
    BY <1>0, <1>8, HandlingStep DEF HandlerThrows
<1>9. ASSUME NEW d \in deliveries, ReplyAndAck(d) PROVE BudgetInv'
  <2>1. /\ Answer(d, "ok") /\ End(d) /\ d.stage = "replying"
        /\ BrokerAck(d.worker, d.tag) /\ consumer' = consumer
      BY <1>1, <1>9 DEF ReplyAndAck
  <2> QED BY <1>0, <2>1, AckAnswersOnce DEF Answers
<1>10. ASSUME NEW d \in deliveries, HandleRetry(d) PROVE BudgetInv'
    BY <1>0, <1>10, RetryStep
<1>11. ASSUME NEW d \in deliveries, Republish(d) PROVE BudgetInv'
  <2>1. copies[d.copy].message \in Messages
      BY <1>0, DeliveryFields DEF Numbered
  <2>2. NextCount(copies[d.copy].count) \in Nat /\ NextCount(copies[d.copy].count) > copies[d.copy].count
      BY DeliveryFields DEF NextCount
  <2> QED BY <1>0, <1>11, <2>1, <2>2, DeliveryFields, AddStep DEF Republish, Stages, channels
<1>12. ASSUME NEW d \in deliveries, RetryAck(d) \/ ErrorReplyAndAck(d) PROVE BudgetInv'
    BY <1>0, <1>12, ViaStep
<1>13. ASSUME NEW d \in deliveries, SaveDeadLetter(d) PROVE BudgetInv'
  <2>1. Goto(d, "errorReply") /\ UNCHANGED <<channel, consumer, replies>> /\ d.stage = "saving"
      BY <1>13 DEF SaveDeadLetter, channels
  <2>2. CASE copies[d.copy].queue \in DeadLettering
    <3>1. Enqueue(copies[d.copy].message, "dead", copies[d.copy].count)
        BY <1>13, <2>2 DEF SaveDeadLetter
    <3>2. copies[d.copy].message \in Messages
        BY <1>0, DeliveryFields DEF Numbered
    <3> QED BY <1>0, <2>1, <3>1, <3>2, DeliveryFields, AddStep DEF Stages, Queues
  <2>3. CASE copies[d.copy].queue \notin DeadLettering
    <3>1. UNCHANGED broker
        BY <1>13, <2>3 DEF SaveDeadLetter
    <3>2. PICK e : e = [d EXCEPT !.stage = "errorReply"]
        OBVIOUS
    <3>3. /\ deliveries' = (deliveries \ {d}) \cup {e}
          /\ e.copy = d.copy /\ e.worker = d.worker /\ e.tag = d.tag /\ e.stage = "errorReply"
        BY <2>1, <3>2, DeliveryFields DEF Goto, Delivery
    <3> QED BY <1>0, <2>1, <3>1, <3>3, SameStep DEF broker
  <2> QED BY <2>2, <2>3
<1>14. ASSUME NEW d \in deliveries, StatusReply(d) PROVE BudgetInv'
    BY <1>0, <1>14, AnswerEnds DEF StatusReply, Answers, broker, channels
<1>15. ASSUME NEW w \in Workers, Resubscribe(w) \/ CloseChannel(w) \/ Crash(w) PROVE FALSE
    BY <1>2, <1>15 DEF Resubscribe, CloseChannel, Crash
<1>16. ASSUME NEW d \in deliveries, RetryChannelFails(d) \/ PublishFails(d) PROVE FALSE
    BY <1>1, <1>2, <1>16 DEF RetryChannelFails, PublishFails
<1>17. ASSUME UNCHANGED vars PROVE BudgetInv'
  <2>1. UNCHANGED <<copies, accepted, deliveries, channel, consumer, replies>>
      BY <1>17 DEF vars
  <2>2. Undisturbed' /\ OneRung'
      BY <2>1 DEF BudgetInv, Undisturbed, ChainHolds, OneRung, SameRequest, Pending
  <2>3. OneAnswer'
      BY <2>1 DEF BudgetInv, OneAnswer, Pending
  <2> QED BY <2>2, <2>3 DEF BudgetInv
<1> QED BY <1>3, <1>4, <1>5, <1>6, <1>7, <1>8, <1>9, <1>10, <1>11, <1>12, <1>13, <1>14, <1>15,
           <1>16, <1>17 DEF Next, Progress, Disturbance

LEMMA BudgetInvariance == Spec => [](NoFault => BudgetInv)
<1>1. Init => BudgetInv
  <2> SUFFICES ASSUME Init PROVE BudgetInv
      OBVIOUS
  <2>1. Undisturbed /\ OneAnswer
      BY DEF Init, Undisturbed, OneAnswer
  <2>2. \A c \in Copies : copies[c].message = None /\ ~Pending(c)
      BY DEF Init, Absent, Pending
  <2> QED BY <2>1, <2>2 DEF BudgetInv, OneRung
<1>2. NoFault => SubscribedOnce
    BY DEF NoFault, SubscribedOnce, Faults
<1>3. TypeOK /\ LossInv /\ [Next]_vars => Numbered'
    BY NumberedStep DEF LossInv
<1>4. TypeOK /\ LossInv /\ BudgetInv /\ Numbered' /\ NoFault' /\ [Next]_vars => BudgetInv'
    BY BudgetStep
<1>5. TypeOK /\ NoFault' /\ [Next]_vars => NoFault
    BY NoFaultBefore
<1>6. TypeOK /\ (SubscribedOnce => LossInv) /\ (NoFault => BudgetInv) /\ [Next]_vars
        => (NoFault => BudgetInv)'
    BY <1>2, <1>3, <1>4, <1>5
<1> QED BY <1>1, <1>6, LossInvariance, TypeCorrect, PTL DEF Spec

(* The copies of a message on the work queue are at most 1 + max.          *)
LEMMA RungsCounted ==
    ASSUME TypeOK, LadderInv, OneRung, NEW m \in Messages,
           NEW S, S \subseteq {c \in Copies : copies[c].message = m /\ copies[c].queue = "work"}
    PROVE  Cardinality(S) <= 1 + RetryMax["work"]
<1> DEFINE max == RetryMax["work"]
           count == [c \in S |-> copies[c].count]
<1>1. max \in Nat
    BY SubscriptionAssumption DEF Queues
<1>2. \A c \in S : count[c] \in 0..max
    BY <1>1 DEF LadderInv, RetryLadder, TypeOK, Copy
<1>3. \A a, b \in S : count[a] = count[b] => a = b
    BY MessagesAssumption DEF OneRung, SameRequest
<1>4. count \in Injection(S, 0..max)
    BY <1>2, <1>3 DEF Injection, IsInjective
<1>5. IsFiniteSet(0..max) /\ Cardinality(0..max) = max + 1
    BY <1>1, FS_Interval
<1>6. Cardinality(S) <= Cardinality(0..max)
    BY <1>4, <1>5, FS_Injection
<1> QED BY <1>1, <1>5, <1>6

(* Without faults a message is executed at most 1 + max times, and its     *)
(* producer gets one answer at most (AttemptBudget): handleRetry never     *)
(* has two chains at work for one message.                                 *)
THEOREM AttemptsBudgeted == Spec => []AttemptBudget
<1>1. TypeOK /\ LadderInv /\ (NoFault => BudgetInv) => AttemptBudget
  <2> SUFFICES ASSUME TypeOK, LadderInv, BudgetInv, NEW m \in Messages
               PROVE  /\ Cardinality({c \in Copies : copies[c].message = m /\ copies[c].queue = "work"
                                                       /\ copies[c].runs > 0}) <= 1 + RetryMax["work"]
                      /\ Cardinality(replies[m]) <= 1
      BY DEF AttemptBudget
  <2>1. Cardinality({c \in Copies : copies[c].message = m /\ copies[c].queue = "work"
                                      /\ copies[c].runs > 0}) <= 1 + RetryMax["work"]
      BY RungsCounted DEF BudgetInv
  <2>2. Cardinality(replies[m]) <= 1
    <3>1. replies[m] = {} \/ \E a \in Answers : replies[m] = {a}
        BY DEF BudgetInv, OneAnswer
    <3>2. CASE replies[m] = {}
        BY <3>2, FS_EmptySet
    <3>3. CASE \E a \in Answers : replies[m] = {a}
      <4>1. PICK a \in Answers : replies[m] = {a}
          BY <3>3
      <4>2. Cardinality({a}) = 1
          BY FS_Singleton
      <4> QED BY <4>1, <4>2
    <3> QED BY <3>1, <3>2, <3>3
  <2> QED BY <2>1, <2>2
<1> QED BY <1>1, BudgetInvariance, LadderInvariance, TypeCorrect, PTL

=============================================================================
