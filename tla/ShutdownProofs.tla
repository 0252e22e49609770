--------------------------- MODULE ShutdownProofs ---------------------------
(* Theorems about Shutdown, for every value of its constants: any number   *)
(* of functions and of messages.                                           *)
EXTENDS ShutdownInv, FiniteSetTheorems, TLAPS

LEMMA FunctionType ==
    ASSUME NEW m \in Messages
    PROVE  /\ FunctionOf[m] \in Functions /\ FunctionOf[m] \in Qualifiers
           /\ FunctionOf[m] # Rpc /\ Rpc \in Qualifiers
BY FunctionsAssumption DEF Qualifiers

-----------------------------------------------------------------------------
(* Counting.                                                               *)

LEMMA CountOf ==
    ASSUME NEW S \in SUBSET Messages
    PROVE  /\ IsFiniteSet(S) /\ Cardinality(S) \in Nat
           /\ Cardinality(S) = 0 <=> S = {}
<1>1. IsFiniteSet(Messages) BY FunctionsAssumption
<1>2. IsFiniteSet(S) BY <1>1, FS_Subset
<1> QED BY <1>2, FS_CardinalityType, FS_EmptySet

LEMMA CountAdd ==
    ASSUME NEW S \in SUBSET Messages, NEW m \in Messages, m \notin S
    PROVE  Cardinality(S \cup {m}) = Cardinality(S) + 1
BY CountOf, FS_AddElement

LEMMA CountRemove ==
    ASSUME NEW S \in SUBSET Messages, NEW m \in S
    PROVE  Cardinality(S \ {m}) = Cardinality(S) - 1
BY CountOf, FS_RemoveElement

LEMMA ProgressOf ==
    ASSUME NEW f
    PROVE  InProgress(f) \in SUBSET Messages
BY DEF InProgress

(* The counts of the register, of the functions and of the reply consumer. *)
CountsTasks == \A f \in Functions : current[f] = Cardinality(InProgress(f))
CountsAnswers == current[Rpc] = Cardinality(answering)

(* How a move of the chain of m changes what is in progress.               *)
LEMMA Enters ==
    ASSUME TypeOK, NEW m \in Messages, NEW t \in Registered, Goto(m, t), task[m] \notin Registered
    PROVE  /\ m \notin InProgress(FunctionOf[m])
           /\ InProgress(FunctionOf[m])' = InProgress(FunctionOf[m]) \cup {m}
           /\ \A f \in Functions \ {FunctionOf[m]} : InProgress(f)' = InProgress(f)
BY DEF TypeOK, Goto, InProgress

LEMMA Leaves ==
    ASSUME TypeOK, NEW m \in Messages, NEW t, t \notin Registered, Goto(m, t), task[m] \in Registered
    PROVE  /\ m \in InProgress(FunctionOf[m])
           /\ InProgress(FunctionOf[m])' = InProgress(FunctionOf[m]) \ {m}
           /\ \A f \in Functions \ {FunctionOf[m]} : InProgress(f)' = InProgress(f)
BY DEF TypeOK, Goto, InProgress

LEMMA Moves ==
    ASSUME TypeOK, NEW m \in Messages, NEW t, Goto(m, t), t \in Registered <=> task[m] \in Registered
    PROVE  \A f : InProgress(f)' = InProgress(f)
BY DEF TypeOK, Goto, InProgress

LEMMA StartCounts ==
    ASSUME TypeOK, CountsTasks, NEW m \in Messages, NEW t \in Registered,
           Goto(m, t), task[m] \notin Registered, Started(FunctionOf[m])
    PROVE  CountsTasks' /\ current' \in [Qualifiers -> Nat] /\ current'[Rpc] = current[Rpc]
<1> DEFINE g == FunctionOf[m]
<1>1. g \in Functions /\ g \in Qualifiers /\ Functions \subseteq Qualifiers /\ g # Rpc
    BY FunctionType DEF Qualifiers
<1>2. current'[g] = Cardinality(InProgress(g))'
  <2>1. Cardinality(InProgress(g) \cup {m}) = Cardinality(InProgress(g)) + 1
      BY Enters, ProgressOf, CountAdd
  <2>2. InProgress(g)' = InProgress(g) \cup {m}
      BY Enters
  <2> QED BY <1>1, <2>1, <2>2 DEF TypeOK, CountsTasks, Started
<1>3. \A f \in Functions \ {g} : current'[f] = Cardinality(InProgress(f))'
    BY <1>1, Enters DEF TypeOK, CountsTasks, Started
<1>4. current' \in [Qualifiers -> Nat] /\ current'[Rpc] = current[Rpc]
    BY <1>1, FunctionType DEF TypeOK, Started
<1> QED BY <1>2, <1>3, <1>4 DEF CountsTasks

LEMMA FinishCounts ==
    ASSUME TypeOK, CountsTasks, NEW m \in Messages, NEW t, t \notin Registered,
           Goto(m, t), task[m] \in Registered, current' = Finished(FunctionOf[m])
    PROVE  CountsTasks' /\ current' \in [Qualifiers -> Nat] /\ current'[Rpc] = current[Rpc]
<1> DEFINE g == FunctionOf[m]
<1>1. g \in Functions /\ g \in Qualifiers /\ Functions \subseteq Qualifiers /\ g # Rpc
    BY FunctionType DEF Qualifiers
<1>2. current'[g] = Cardinality(InProgress(g))' /\ current'[g] \in Nat
  <2>1. Cardinality(InProgress(g) \ {m}) = Cardinality(InProgress(g)) - 1
      BY Leaves, ProgressOf, CountRemove
  <2>2. InProgress(g)' = InProgress(g) \ {m}
      BY Leaves
  <2>3. Cardinality(InProgress(g) \ {m}) \in Nat
      BY ProgressOf, CountOf
  <2> QED BY <1>1, <2>1, <2>2, <2>3 DEF TypeOK, CountsTasks, Finished
<1>3. \A f \in Functions \ {g} : current'[f] = Cardinality(InProgress(f))'
    BY <1>1, Leaves DEF TypeOK, CountsTasks, Finished
<1>4. current' \in [Qualifiers -> Nat] /\ current'[Rpc] = current[Rpc]
    BY <1>1, <1>2, FunctionType DEF TypeOK, Finished
<1> QED BY <1>2, <1>3, <1>4 DEF CountsTasks

LEMMA MoveCounts ==
    ASSUME TypeOK, CountsTasks, NEW m \in Messages, NEW t,
           Goto(m, t), t \in Registered <=> task[m] \in Registered,
           \A f \in Functions : current'[f] = current[f]
    PROVE  CountsTasks'
BY Moves DEF CountsTasks

LEMMA ArriveCounts ==
    ASSUME TypeOK, CountsAnswers, NEW m \in Messages, m \notin answering,
           answering' = answering \cup {m}, Started(Rpc)
    PROVE  /\ CountsAnswers' /\ current' \in [Qualifiers -> Nat]
           /\ \A f \in Functions : current'[f] = current[f]
<1>1. Cardinality(answering \cup {m}) = Cardinality(answering) + 1
    BY CountAdd DEF TypeOK
<1> QED BY <1>1, FunctionType, FunctionsAssumption DEF TypeOK, CountsAnswers, Started, Qualifiers

LEMMA AckCounts ==
    ASSUME TypeOK, CountsAnswers, NEW m \in answering,
           answering' = answering \ {m}, current' = Finished(Rpc)
    PROVE  /\ CountsAnswers' /\ current' \in [Qualifiers -> Nat]
           /\ \A f \in Functions : current'[f] = current[f]
<1>1. Cardinality(answering \ {m}) = Cardinality(answering) - 1
    BY CountRemove DEF TypeOK
<1>2. Cardinality(answering \ {m}) \in Nat
    BY CountOf DEF TypeOK
<1> QED BY <1>1, <1>2, FunctionsAssumption DEF TypeOK, CountsAnswers, Finished, Qualifiers

-----------------------------------------------------------------------------
(* Types of what the actions share.                                        *)

LEMMA ConnectedType ==
    ASSUME TypeOK
    PROVE  Connected(connexion) \in {"none", "open", "closed", "reopened"}
BY DEF TypeOK, Connected

LEMMA GotoType ==
    ASSUME TypeOK, NEW m, NEW t \in Tasks, Goto(m, t)
    PROVE  task' \in [Messages -> Tasks]
BY DEF TypeOK, Goto

LEMMA FinishType ==
    ASSUME TypeOK, NEW q, Finish(q)
    PROVE  phase' \in Phases /\ current' = Finished(q)
BY DEF TypeOK, Finish, Phases

LEMMA CloseType ==
    ASSUME TypeOK, NEW result \in Results, Close(result)
    PROVE  /\ consumer' \in [Qualifiers -> Subscriptions]
           /\ connexion' \in {"none", "open", "closed", "reopened"}
           /\ ready' \subseteq Messages
           /\ phase' \in Phases /\ outcome' \in Results /\ timeout' = timeout
BY DEF TypeOK, Close, Phases, Subscriptions

(* The registered chains are not changed, and nothing else that is counted.*)
LEMMA NothingCounted ==
    ASSUME RegisterInv, UNCHANGED <<task, attempts, answering, current>>
    PROVE  RegisterMatches' /\ TimersMayRetry'
BY DEF RegisterInv, RegisterMatches, TimersMayRetry, InProgress

LEMMA Matches == RegisterMatches <=> CountsTasks /\ CountsAnswers
BY DEF RegisterMatches, CountsTasks, CountsAnswers

LEMMA TimersKept ==
    ASSUME TypeOK, TimersMayRetry, NEW m, NEW t, Goto(m, t), t # "timer", UNCHANGED attempts
    PROVE  TimersMayRetry'
BY DEF TypeOK, TimersMayRetry, Goto

-----------------------------------------------------------------------------
(* The steps of the chain of a message.                                    *)

LEMMA DeliverStep ==
    ASSUME RegisterInv, NEW m \in Messages, Deliver(m)
    PROVE  RegisterInv'
<1>1. TypeOK /\ TimersMayRetry /\ CountsTasks /\ CountsAnswers
    BY Matches DEF RegisterInv
<1>2. "handling" \in Registered /\ task[m] \notin Registered /\ "handling" \in Tasks
    BY DEF Deliver, Registered, Tasks
<1>3. CountsTasks' /\ current' \in [Qualifiers -> Nat] /\ current'[Rpc] = current[Rpc]
    BY <1>1, <1>2, StartCounts DEF Deliver
<1>4. CountsAnswers'
    BY <1>1, <1>3 DEF CountsAnswers, Deliver
<1>5. task' \in [Messages -> Tasks]
    BY <1>1, <1>2, GotoType DEF Deliver
<1>6. TypeOK'
    BY <1>1, <1>3, <1>5 DEF TypeOK, Deliver, shutdown
<1>7. TimersMayRetry'
    BY <1>1, TimersKept DEF Deliver
<1> QED BY <1>3, <1>4, <1>6, <1>7 DEF RegisterInv, RegisterMatches, CountsTasks, CountsAnswers

(* A move that neither starts nor finishes, and does not arm a timer.      *)
LEMMA MoveStep ==
    ASSUME RegisterInv, NEW m \in Messages, NEW t \in Tasks, t # "timer", Goto(m, t),
           t \in Registered <=> task[m] \in Registered,
           consumer' \in [Qualifiers -> Subscriptions],
           connexion' \in {"none", "open", "closed", "reopened"},
           phase' \in Phases, ready' \subseteq Messages,
           UNCHANGED <<attempts, answering, current, shutdown>>
    PROVE  RegisterInv'
<1>1. TypeOK /\ TimersMayRetry /\ CountsTasks /\ CountsAnswers
    BY Matches DEF RegisterInv
<1>2. CountsTasks' BY <1>1, MoveCounts
<1>3. CountsAnswers' BY <1>1 DEF CountsAnswers
<1>4. task' \in [Messages -> Tasks] BY <1>1, GotoType
<1>5. TypeOK' BY <1>1, <1>4 DEF TypeOK, shutdown
<1>6. TimersMayRetry' BY <1>1, TimersKept
<1> QED BY <1>2, <1>3, <1>5, <1>6 DEF RegisterInv, RegisterMatches, CountsTasks, CountsAnswers

(* A move that finishes, without a timer.                                  *)
LEMMA FinishStep ==
    ASSUME RegisterInv, NEW m \in Messages, NEW t \in Tasks, t # "timer", Goto(m, t),
           t \notin Registered, task[m] \in Registered, Finish(FunctionOf[m]),
           connexion' \in {"none", "open", "closed", "reopened"},
           UNCHANGED <<consumer, ready, attempts, answering, shutdown>>
    PROVE  RegisterInv'
<1>1. TypeOK /\ TimersMayRetry /\ CountsTasks /\ CountsAnswers
    BY Matches DEF RegisterInv
<1>2. phase' \in Phases /\ current' = Finished(FunctionOf[m])
    BY <1>1, FinishType
<1>3. CountsTasks' /\ current' \in [Qualifiers -> Nat] /\ current'[Rpc] = current[Rpc]
    BY <1>1, <1>2, FinishCounts
<1>4. CountsAnswers' BY <1>1, <1>3 DEF CountsAnswers
<1>5. task' \in [Messages -> Tasks] BY <1>1, GotoType
<1>6. TypeOK' BY <1>1, <1>2, <1>3, <1>5 DEF TypeOK, shutdown
<1>7. TimersMayRetry' BY <1>1, TimersKept
<1> QED BY <1>3, <1>4, <1>6, <1>7 DEF RegisterInv, RegisterMatches, CountsTasks, CountsAnswers

LEMMA AnswerArrivesStep ==
    ASSUME RegisterInv, NEW m \in Messages, AnswerArrives(m)
    PROVE  RegisterInv'
<1>1. TypeOK /\ TimersMayRetry /\ CountsTasks /\ CountsAnswers
    BY Matches DEF RegisterInv
<1>2. /\ "resumed" \in Registered /\ task[m] \in Registered /\ "resumed" \in Tasks
      /\ Goto(m, "resumed")
    BY DEF AnswerArrives, Registered, Tasks
<1>3. /\ CountsAnswers' /\ current' \in [Qualifiers -> Nat]
      /\ \A f \in Functions : current'[f] = current[f]
    BY <1>1, ArriveCounts DEF AnswerArrives
<1>4. CountsTasks' BY <1>1, <1>2, <1>3, MoveCounts
<1>5. task' \in [Messages -> Tasks] BY <1>1, <1>2, GotoType
<1>6. TypeOK' BY <1>1, <1>3, <1>5 DEF TypeOK, AnswerArrives, shutdown
<1>7. TimersMayRetry' BY <1>1, <1>2, TimersKept DEF AnswerArrives
<1> QED BY <1>3, <1>4, <1>6, <1>7 DEF RegisterInv, RegisterMatches, CountsTasks, CountsAnswers

LEMMA AnswerAckedStep ==
    ASSUME RegisterInv, NEW m \in Messages, AnswerAcked(m)
    PROVE  RegisterInv'
<1>1. TypeOK /\ TimersMayRetry /\ CountsTasks /\ CountsAnswers
    BY Matches DEF RegisterInv
<1>2. phase' \in Phases /\ current' = Finished(Rpc)
    BY <1>1, FinishType DEF AnswerAcked
<1>3. /\ CountsAnswers' /\ current' \in [Qualifiers -> Nat]
      /\ \A f \in Functions : current'[f] = current[f]
    BY <1>1, <1>2, AckCounts DEF AnswerAcked
<1>4. CountsTasks' BY <1>1, <1>3 DEF AnswerAcked, CountsTasks, InProgress
<1>5. TypeOK' BY <1>1, <1>2, <1>3, ConnectedType DEF TypeOK, AnswerAcked, shutdown
<1>6. TimersMayRetry' BY <1>1 DEF AnswerAcked, TimersMayRetry
<1> QED BY <1>3, <1>4, <1>5, <1>6 DEF RegisterInv, RegisterMatches, CountsTasks, CountsAnswers

LEMMA RetryLaterStep ==
    ASSUME RegisterInv, NEW m \in Messages, task[m] = "failed", RetryLater(m),
           connexion' = Connected(connexion),
           UNCHANGED <<consumer, ready, attempts, answering, shutdown>>
    PROVE  RegisterInv'
<1>1. TypeOK /\ TimersMayRetry /\ CountsTasks /\ CountsAnswers
    BY Matches DEF RegisterInv
<1>2. /\ "timer" \notin Registered /\ task[m] \in Registered /\ "timer" \in Tasks
      /\ Goto(m, "timer")
    BY DEF RetryLater, Registered, Tasks
<1>3. phase' \in Phases /\ current' = Finished(FunctionOf[m])
    BY <1>1, FinishType DEF RetryLater
<1>4. CountsTasks' /\ current' \in [Qualifiers -> Nat] /\ current'[Rpc] = current[Rpc]
    BY <1>1, <1>2, <1>3, FinishCounts
<1>5. CountsAnswers' BY <1>1, <1>4 DEF CountsAnswers
<1>6. task' \in [Messages -> Tasks] BY <1>1, <1>2, GotoType
<1>7. TypeOK' BY <1>1, <1>3, <1>4, <1>6, ConnectedType DEF TypeOK, shutdown
<1>8. TimersMayRetry' BY <1>1, <1>2 DEF TypeOK, TimersMayRetry, RetryLater, Goto
<1> QED BY <1>4, <1>5, <1>7, <1>8 DEF RegisterInv, RegisterMatches, CountsTasks, CountsAnswers

LEMMA RetriesType == \A m \in Messages : Retries(m) \in Nat
BY FunctionsAssumption DEF Retries

LEMMA RepublishStep ==
    ASSUME RegisterInv, NEW m \in Messages, Republish(m)
    PROVE  RegisterInv'
<1>1. TypeOK /\ TimersMayRetry /\ CountsTasks /\ CountsAnswers
    BY Matches DEF RegisterInv
<1>2. /\ "idle" \notin Registered /\ task[m] \notin Registered /\ "idle" \in Tasks
      /\ Goto(m, "idle")
    BY DEF Republish, Registered, Tasks
<1>3. CountsTasks' BY <1>1, <1>2, MoveCounts DEF Republish
<1>4. CountsAnswers' BY <1>1 DEF CountsAnswers, Republish
<1>5. task' \in [Messages -> Tasks] BY <1>1, <1>2, GotoType
<1>6. /\ attempts' \in [Messages -> Nat]
      /\ \A n \in Messages : attempts'[n] <= Retries(n)
  <2>1. attempts[m] < Retries(m)
      BY <1>1 DEF TimersMayRetry, Republish
  <2>2. attempts[m] + 1 <= Retries(m) BY <1>1, <2>1, RetriesType DEF TypeOK
  <2> QED BY <1>1, <2>2 DEF TypeOK, Republish
<1>7. TypeOK' BY <1>1, <1>5, <1>6, ConnectedType DEF TypeOK, Republish, shutdown
<1>8. TimersMayRetry' BY <1>1, <1>2 DEF TypeOK, TimersMayRetry, Republish, Goto
<1> QED BY <1>3, <1>4, <1>7, <1>8 DEF RegisterInv, RegisterMatches, CountsTasks, CountsAnswers

LEMMA TaskStepInv ==
    ASSUME RegisterInv, NEW m \in Messages, TaskStep(m)
    PROVE  RegisterInv'
<1> USE DEF Registered, Tasks
<1>0. TypeOK BY DEF RegisterInv
<1>1. CASE Deliver(m) BY <1>1, DeliverStep
<1>2. CASE Invoke(m)
  <2>1. consumer' \in [Qualifiers -> Subscriptions]
      BY <1>0, <1>2 DEF TypeOK, Invoke, Subscriptions
  <2> QED BY <1>0, <1>2, <2>1, MoveStep, ConnectedType DEF TypeOK, Invoke
<1>3. CASE AnswerArrives(m) BY <1>3, AnswerArrivesStep
<1>4. CASE AnswerAcked(m) BY <1>4, AnswerAckedStep
<1>5. CASE HandlerReturns(m)
    BY <1>0, <1>5, MoveStep DEF TypeOK, HandlerReturns
<1>6. CASE HandlerThrows(m)
    BY <1>0, <1>6, MoveStep DEF TypeOK, HandlerThrows
<1>7. CASE ReplyAndAck(m)
  <2>1. CASE AckWorks(m)
      BY <1>0, <1>7, <2>1, FinishStep DEF TypeOK, ReplyAndAck
  <2>2. CASE ~AckWorks(m)
      BY <1>0, <1>7, <2>2, MoveStep, ConnectedType DEF TypeOK, ReplyAndAck
  <2> QED BY <2>1, <2>2
<1>8. CASE HandleRetry(m)
  <2>1. CASE RetryLater(m)
      BY <1>8, <2>1, RetryLaterStep DEF HandleRetry
  <2>2. CASE Goto(m, "saving") /\ UNCHANGED <<current, phase>>
      BY <1>0, <1>8, <2>2, MoveStep, ConnectedType DEF TypeOK, HandleRetry
  <2>3. CASE Goto(m, "forwarding") /\ UNCHANGED <<current, phase>>
      BY <1>0, <1>8, <2>3, MoveStep, ConnectedType DEF TypeOK, HandleRetry
  <2> QED BY <1>8, <2>1, <2>2, <2>3 DEF HandleRetry
<1>9. CASE Republish(m) BY <1>9, RepublishStep
<1>10. CASE Save(m)
    BY <1>0, <1>10, FinishStep, ConnectedType DEF Save
<1>11. CASE PublishFails(m)
  <2>1. CASE task[m] = "timer" /\ UNCHANGED <<current, phase>>
      BY <1>0, <1>11, <2>1, MoveStep DEF TypeOK, PublishFails
  <2>2. CASE task[m] \in {"failed", "saving", "forwarding"} /\ Finish(FunctionOf[m])
      BY <1>0, <1>11, <2>2, FinishStep DEF TypeOK, PublishFails
  <2> QED BY <1>11, <2>1, <2>2 DEF PublishFails
<1> QED BY <1>1, <1>2, <1>3, <1>4, <1>5, <1>6, <1>7, <1>8, <1>9, <1>10, <1>11 DEF TaskStep

LEMMA RegisterInductive == RegisterInv /\ [Next]_vars => RegisterInv'
<1> SUFFICES ASSUME RegisterInv, [Next]_vars PROVE RegisterInv'
    OBVIOUS
<1> USE DEF shutdown
<1>0. TypeOK BY DEF RegisterInv
<1>1. ASSUME NEW f \in Functions, Subscribe(f) PROVE RegisterInv'
    BY <1>0, <1>1, ConnectedType, NothingCounted DEF RegisterInv, TypeOK, Subscribe, Subscriptions
<1>2. ASSUME NEW q \in Qualifiers, Subscribed(q) PROVE RegisterInv'
    BY <1>0, <1>2, NothingCounted DEF RegisterInv, TypeOK, Subscribed, Subscriptions
<1>3. ASSUME NEW q \in Qualifiers, LoseChannel(q) PROVE RegisterInv'
  <2>1. CASE Close("failed")
      BY <1>0, <1>3, <2>1, CloseType, NothingCounted DEF RegisterInv, TypeOK, LoseChannel, Results
  <2>2. CASE ~Close("failed")
      BY <1>0, <1>3, <2>2, NothingCounted DEF RegisterInv, TypeOK, LoseChannel, Subscriptions
  <2> QED BY <2>1, <2>2
<1>4. ASSUME NEW m \in Messages, TaskStep(m) PROVE RegisterInv'
    BY <1>4, TaskStepInv
<1>5. CASE CallShutdown
  <2>1. CASE Close("failed")
      BY <1>0, <1>5, <2>1, CloseType, NothingCounted
         DEF RegisterInv, TypeOK, CallShutdown, Results
  <2>2. CASE ~Close("failed")
    <3>1. /\ consumer' \in [Qualifiers -> Subscriptions]
          /\ phase' \in Phases /\ timeout' \in BOOLEAN
          /\ UNCHANGED <<connexion, ready, outcome, task, attempts, answering, current>>
        BY <1>0, <1>5, <2>2 DEF TypeOK, CallShutdown, Subscriptions, Phases
    <3> QED BY <1>0, <3>1, NothingCounted DEF RegisterInv, TypeOK
  <2> QED BY <2>1, <2>2
<1>6. ASSUME NEW q \in Qualifiers, CancelOk(q) PROVE RegisterInv'
    BY <1>0, <1>6, NothingCounted DEF RegisterInv, TypeOK, CancelOk, Subscriptions
<1>7. CASE Wait
    BY <1>0, <1>7, NothingCounted DEF RegisterInv, TypeOK, Wait, Phases
<1>8. CASE WaitTimesOut
    BY <1>0, <1>8, CloseType, NothingCounted DEF RegisterInv, TypeOK, WaitTimesOut, Results
<1>9. CASE DelayOver
    BY <1>0, <1>9, CloseType, NothingCounted DEF RegisterInv, TypeOK, DelayOver, Results
<1>10. CASE UNCHANGED vars
    BY <1>0, <1>10, NothingCounted DEF vars, RegisterInv, TypeOK
<1> QED BY <1>1, <1>2, <1>3, <1>4, <1>5, <1>6, <1>7, <1>8, <1>9, <1>10 DEF Next, ShutdownStep

LEMMA RegisterInvariance == Spec => []RegisterInv
<1>1. Init => RegisterInv
  <2> SUFFICES ASSUME Init PROVE RegisterInv
      OBVIOUS
  <2>1. \A m \in Messages : 0 <= Retries(m) BY RetriesType
  <2>2. TypeOK
      BY <2>1 DEF Init, TypeOK, Subscriptions, Tasks, Phases, Results
  <2>3. \A f \in Functions : InProgress(f) = {}
      BY DEF Init, InProgress, Registered
  <2>4. RegisterMatches
      BY <2>3, FS_EmptySet DEF Init, RegisterMatches, Qualifiers
  <2> QED BY <2>2, <2>4 DEF Init, RegisterInv, TimersMayRetry
<1> QED BY <1>1, RegisterInductive, PTL DEF Spec

(* Every state is well typed (TypeOK): no count of currentMessages ever    *)
(* goes below zero, and no message is tried again more often than          *)
(* meta.retry.max.                                                         *)
THEOREM TypeCorrect == Spec => []TypeOK
<1>1. RegisterInv => TypeOK BY DEF RegisterInv
<1> QED BY <1>1, RegisterInvariance, PTL

(* Each start of the register has exactly one finish, on every path of a   *)
(* promise chain (RegisterMatches): currentMessages counts the chains that *)
(* have neither settled nor been put on a retry timer.                     *)
THEOREM RegisterExact == Spec => []RegisterMatches
<1>1. RegisterInv => RegisterMatches BY DEF RegisterInv
<1> QED BY <1>1, RegisterInvariance, PTL

-----------------------------------------------------------------------------
(* The wait.                                                               *)

Disjuncts(m) ==
    \/ UNCHANGED <<phase, current>>
    \/ Started(FunctionOf[m]) /\ UNCHANGED phase
    \/ Started(Rpc) /\ UNCHANGED phase
    \/ Finish(FunctionOf[m]) \/ Finish(Rpc)

LEMMA TaskStepCounts ==
    ASSUME NEW m \in Messages, TaskStep(m)
    PROVE  Disjuncts(m)
BY DEF TaskStep, Disjuncts, Deliver, Invoke, AnswerArrives, AnswerAcked, HandlerReturns,
       HandlerThrows, ReplyAndAck, HandleRetry, RetryLater, Republish, Save, PublishFails

LEMMA WaitInductive == RegisterInv /\ RegisterInv' /\ WaitsForMessages /\ [Next]_vars => WaitsForMessages'
<1> SUFFICES ASSUME RegisterInv, RegisterInv', WaitsForMessages, [Next]_vars, phase' = "waiting"
             PROVE  \E q \in Qualifiers : current'[q] > 0
    BY DEF WaitsForMessages
<1>0. current \in [Qualifiers -> Nat] /\ current' \in [Qualifiers -> Nat]
    BY DEF RegisterInv, TypeOK
<1>1. CASE UNCHANGED <<phase, current>>
    BY <1>1 DEF WaitsForMessages
<1>2. ASSUME NEW q \in Qualifiers, Started(q) PROVE \E p \in Qualifiers : current'[p] > 0
    BY <1>0, <1>2 DEF Started
<1>3. ASSUME NEW q, Finish(q) PROVE \E p \in Qualifiers : current'[p] > 0
  <2>1. \E p \in Qualifiers : current'[p] # 0
      BY <1>3 DEF Finish
  <2> QED BY <1>0, <2>1
<1>4. ASSUME NEW m \in Messages, TaskStep(m) PROVE \E p \in Qualifiers : current'[p] > 0
    BY <1>1, <1>2, <1>3, <1>4, TaskStepCounts, FunctionType DEF Disjuncts
<1>5. CASE Wait
  <2>1. \E p \in Qualifiers : current[p] # 0 /\ current' = current
      BY <1>5 DEF Wait
  <2> QED BY <1>0, <2>1
<1>6. ASSUME NEW result, Close(result) PROVE FALSE
    BY <1>6 DEF Close
<1>7. ASSUME NEW q \in Qualifiers, Subscribed(q) \/ LoseChannel(q) \/ CancelOk(q)
      PROVE  UNCHANGED <<phase, current>>
    BY <1>6, <1>7 DEF Subscribed, LoseChannel, CancelOk
<1>8. ASSUME NEW f \in Functions, Subscribe(f) PROVE UNCHANGED <<phase, current>>
    BY <1>8 DEF Subscribe
<1>9. ~CallShutdown
    BY <1>6 DEF CallShutdown
<1> QED BY <1>1, <1>4, <1>5, <1>6, <1>7, <1>8, <1>9
        DEF Next, ShutdownStep, WaitTimesOut, DelayOver, vars

LEMMA WaitInvariance == Spec => []WaitsForMessages
<1>1. Init => WaitsForMessages BY DEF Init, WaitsForMessages
<1> QED BY <1>1, WaitInductive, RegisterInvariance, PTL DEF Spec

(* shutdown only times out over a message that is still being consumed     *)
(* (TimesOutOnLateMessages): the wait that the timeout belongs to is over  *)
(* with the last of them.                                                  *)
THEOREM TimeoutHasCause == Spec => TimesOutOnLateMessages
<1>1. RegisterInv /\ WaitsForMessages /\ [Next]_vars
        => [outcome' = "timeout" /\ outcome = "pending" => \E q \in Qualifiers : current[q] > 0]_vars
  <2> SUFFICES ASSUME WaitsForMessages, [Next]_vars, outcome' = "timeout", outcome = "pending"
               PROVE  phase = "waiting"
      BY DEF WaitsForMessages
  <2>1. ASSUME NEW m \in Messages, TaskStep(m) PROVE UNCHANGED outcome
      BY <2>1 DEF TaskStep, Deliver, Invoke, AnswerArrives, AnswerAcked, HandlerReturns, shutdown,
             HandlerThrows, ReplyAndAck, HandleRetry, RetryLater, Republish, Save, PublishFails
  <2>2. ASSUME NEW q \in Qualifiers, Subscribed(q) \/ LoseChannel(q) \/ CancelOk(q)
        PROVE  outcome' # "timeout"
      BY <2>2 DEF Subscribed, LoseChannel, CancelOk, Close, shutdown
  <2>3. ASSUME NEW f \in Functions, Subscribe(f) PROVE UNCHANGED outcome
      BY <2>3 DEF Subscribe, shutdown
  <2>4. CallShutdown \/ DelayOver => outcome' # "timeout"
      BY DEF CallShutdown, DelayOver, Close
  <2> QED BY <2>1, <2>2, <2>3, <2>4 DEF Next, ShutdownStep, Wait, WaitTimesOut, vars, shutdown
<1> QED BY <1>1, RegisterInvariance, WaitInvariance, PTL DEF Spec, TimesOutOnLateMessages

-----------------------------------------------------------------------------
(* The delay after the wait.                                               *)

LEMMA EmptyRegister ==
    ASSUME RegisterInv', \A q \in Qualifiers : current'[q] = 0
    PROVE  \A f \in Functions : InProgress(f)' = {}
<1> SUFFICES ASSUME NEW f \in Functions PROVE InProgress(f)' = {}
    OBVIOUS
<1>1. Cardinality(InProgress(f)') = 0
    BY DEF RegisterInv, RegisterMatches, Qualifiers
<1>2. InProgress(f)' \in SUBSET Messages BY DEF InProgress
<1> QED BY <1>1, <1>2, CountOf

(* Only a delivery starts something.                                       *)
LEMMA NothingStarts ==
    ASSUME TypeOK, NEW m \in Messages, TaskStep(m), ~Deliver(m), NEW f \in Functions
    PROVE  InProgress(f)' \subseteq InProgress(f)
<1>1. ASSUME NEW t, Goto(m, t), t \in Registered => task[m] \in Registered
      PROVE  InProgress(f)' \subseteq InProgress(f)
    BY <1>1 DEF TypeOK, Goto, InProgress
<1>2. CASE AnswerAcked(m) BY <1>2 DEF AnswerAcked, InProgress
<1>3. CASE ~AnswerAcked(m)
    BY <1>1, <1>3 DEF TaskStep, Invoke, AnswerArrives, HandlerReturns, HandlerThrows, ReplyAndAck,
                      HandleRetry, RetryLater, Republish, Save, PublishFails, Registered
<1> QED BY <1>2, <1>3

LEMMA NothingCancelled ==
    ASSUME TypeOK, NEW m \in Messages, TaskStep(m)
    PROVE  /\ AllCancelled => AllCancelled'
           /\ \A f \in Functions : consumer'[f] = consumer[f]
<1>1. CASE Invoke(m)
    BY <1>1, FunctionsAssumption DEF TypeOK, Invoke, AllCancelled, Qualifiers
<1>2. CASE UNCHANGED consumer BY <1>2 DEF AllCancelled
<1> QED BY <1>1, <1>2
        DEF TaskStep, Deliver, AnswerArrives, AnswerAcked, HandlerReturns, HandlerThrows,
            ReplyAndAck, HandleRetry, Republish, Save, PublishFails

LEMMA DelayTask ==
    ASSUME RegisterInv, RegisterInv', DelayInv, NEW m \in Messages, TaskStep(m)
    PROVE  DelayInv'
<1>0. TypeOK BY DEF RegisterInv
<1>1. CASE UNCHANGED phase
  <2>1. phase' \in {"waiting", "delay"} => AllCancelled'
      BY <1>0, <1>1, NothingCancelled DEF DelayInv
  <2>2. ASSUME phase' = "delay", NEW f \in Functions, Stopped(f)' PROVE InProgress(f)' = {}
    <3>1. Stopped(f) /\ InProgress(f) = {}
        BY <1>0, <1>1, <2>2, NothingCancelled DEF DelayInv, Stopped
    <3>2. CASE Deliver(m)
      <4>1. f # FunctionOf[m] /\ task[m] \notin Registered /\ Goto(m, "handling")
          BY <3>1, <3>2 DEF Deliver, Active, Stopped, Registered
      <4> QED BY <1>0, <3>1, <4>1, Enters DEF Registered
    <3> QED BY <1>0, <3>1, <3>2, NothingStarts
  <2> QED BY <2>1, <2>2 DEF DelayInv
<1>2. ASSUME NEW q, Finish(q) PROVE DelayInv'
  <2>1. CASE phase' = phase BY <1>1, <2>1
  <2>2. CASE phase' # phase
    <3>1. phase = "waiting" /\ phase' = "delay" /\ \A p \in Qualifiers : current'[p] = 0
        BY <1>2, <2>2 DEF Finish
    <3>2. AllCancelled' BY <1>0, <3>1, NothingCancelled DEF DelayInv
    <3>3. \A f \in Functions : InProgress(f)' = {} BY <3>1, EmptyRegister
    <3> QED BY <3>2, <3>3 DEF DelayInv
  <2> QED BY <2>1, <2>2
<1> QED BY <1>1, <1>2, TaskStepCounts DEF Disjuncts

LEMMA DelayInductive == RegisterInv /\ RegisterInv' /\ DelayInv /\ [Next]_vars => DelayInv'
<1> SUFFICES ASSUME RegisterInv, RegisterInv', DelayInv, [Next]_vars PROVE DelayInv'
    OBVIOUS
<1>0. TypeOK BY DEF RegisterInv
<1>1. ASSUME NEW q \in Qualifiers, NEW to \in {"subscribing", "consuming", "lost", "gone"},
             to = "gone" => consumer[q] = "cancelled", consumer' = [consumer EXCEPT ![q] = to], UNCHANGED <<phase, task>>
      PROVE  DelayInv'
  <2>1. \A p \in Qualifiers : consumer'[p] \in {consumer[p], to}
      BY <1>0, <1>1 DEF TypeOK
  <2>2. AllCancelled => AllCancelled'
      BY <2>1 DEF AllCancelled
  <2>3. \A f \in Functions : Stopped(f)' => Stopped(f)
      BY <1>1, <2>1 DEF Stopped, Qualifiers
  <2>4. \A f \in Functions : InProgress(f)' = InProgress(f)
      BY <1>1 DEF InProgress
  <2> QED BY <1>1, <2>2, <2>3, <2>4 DEF DelayInv
<1>2. ASSUME phase' \notin {"waiting", "delay"} PROVE DelayInv'
    BY <1>2 DEF DelayInv
<1>3. ASSUME NEW result, Close(result) PROVE DelayInv'
    BY <1>2, <1>3 DEF Close
<1>4. ASSUME NEW f \in Functions, Subscribe(f) PROVE DelayInv'
    BY <1>1, <1>4 DEF Subscribe, Qualifiers
<1>5. ASSUME NEW q \in Qualifiers, Subscribed(q) \/ LoseChannel(q) PROVE DelayInv'
    BY <1>1, <1>3, <1>5 DEF Subscribed, LoseChannel
<1>6. ASSUME NEW m \in Messages, TaskStep(m) PROVE DelayInv'
    BY <1>6, DelayTask
<1>7. CASE CallShutdown
    BY <1>2, <1>3, <1>7 DEF CallShutdown
<1>8. ASSUME NEW q \in Qualifiers, CancelOk(q) PROVE DelayInv'
    BY <1>2, <1>8 DEF CancelOk, DelayInv, AllCancelled
<1>9. CASE Wait
  <2>1. AllCancelled' BY <1>9 DEF Wait, AllCancelled
  <2>2. phase' = "delay" => \A f \in Functions : InProgress(f)' = {}
      BY <1>9, EmptyRegister DEF Wait
  <2> QED BY <2>1, <2>2 DEF DelayInv
<1>10. CASE UNCHANGED vars
    BY <1>10 DEF vars, DelayInv, AllCancelled, Stopped, InProgress
<1> QED BY <1>3, <1>4, <1>5, <1>6, <1>7, <1>8, <1>9, <1>10
        DEF Next, ShutdownStep, WaitTimesOut, DelayOver

LEMMA DelayInvariance == Spec => []DelayInv
<1>1. Init => DelayInv BY DEF Init, DelayInv
<1> QED BY <1>1, DelayInductive, RegisterInvariance, PTL DEF Spec

(* "await current messages being processed" (src/src/index.js:840), when   *)
(* every cancel could be made and nothing is subscribed to meanwhile       *)
(* (AwaitsCurrentMessages): shutdown closes the connection with no message *)
(* being processed, the two seconds after the wait included.               *)
THEOREM ShutdownAwaits == Spec => AwaitsCurrentMessages
<1>1. RegisterInv /\ DelayInv /\ [Next]_vars
        => [outcome' \in {"resolved", "failed"} /\ outcome = "pending" /\ Usual => ~Running]_vars
  <2> SUFFICES ASSUME DelayInv, [Next]_vars, outcome' \in {"resolved", "failed"},
                      outcome = "pending", Usual
               PROVE  ~Running
      OBVIOUS
  <2>1. ASSUME NEW m \in Messages, TaskStep(m) PROVE UNCHANGED outcome
      BY <2>1 DEF TaskStep, Deliver, Invoke, AnswerArrives, AnswerAcked, HandlerReturns, shutdown,
             HandlerThrows, ReplyAndAck, HandleRetry, RetryLater, Republish, Save, PublishFails
  <2>2. ASSUME NEW q \in Qualifiers, Subscribed(q) \/ LoseChannel(q) \/ CancelOk(q)
        PROVE  UNCHANGED outcome
      BY <2>2 DEF Subscribed, LoseChannel, CancelOk, shutdown, Usual, Qualifiers
  <2>3. ASSUME NEW f \in Functions, Subscribe(f) PROVE UNCHANGED outcome
      BY <2>3 DEF Subscribe, shutdown
  <2>4. CallShutdown => UNCHANGED outcome
      BY DEF CallShutdown, Usual, Qualifiers
  <2>5. DelayOver
      BY <2>1, <2>2, <2>3, <2>4
         DEF Next, ShutdownStep, Wait, WaitTimesOut, Close, vars, shutdown
  <2>6. \A f \in Functions : InProgress(f) = {}
      BY <2>5 DEF DelayOver, DelayInv, Usual, Stopped
  <2> QED BY <2>6, FunctionType DEF Running, InProgress
<1> QED BY <1>1, RegisterInvariance, DelayInvariance, PTL DEF Spec, AwaitsCurrentMessages

=============================================================================
