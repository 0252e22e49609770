----------------------------- MODULE RpcProofs -----------------------------
(* Theorems about Rpc, for every value of its constants: any number of     *)
(* calls, answers and faults.                                              *)
EXTENDS RpcInv, TLAPS

LEMMA NoneIsNoCall ==
    ASSUME NEW c \in Calls
    PROVE  c # None
BY CallsAssumption

LEMMA ObjectOf ==
    ASSUME NEW c \in Calls
    PROVE  OptionsOf[c] \in Options
BY CallsAssumption

LEMMA IdType ==
    ASSUME TypeOK, NEW c \in Calls
    PROVE  CorrelationId(c) \in Calls
BY ObjectOf DEF TypeOK, CorrelationId

LEMMA HeardType ==
    ASSUME TypeOK, NEW c \in Calls, NEW r \in replies, Heard(c, r)
    PROVE  first' \in [Calls -> Calls \cup {None}]
BY DEF TypeOK, Heard, Reply

(* What the reply handler changes.                                         *)
LEMMA CorrelatedCall ==
    ASSUME TypeOK, NEW r \in replies, NEW c \in Correlated(r)
    PROVE  c \in Calls /\ c \in cache /\ c = r.id
BY DEF TypeOK, Correlated

LEMMA ReceiveType ==
    ASSUME RpcInv, NEW r \in replies, ReceiveReply(r)
    PROVE  RpcInv'
<1> USE DEF RpcInv
<1>1. CASE UNCHANGED <<cache, promise, callbacks, first>>
    BY <1>1 DEF TypeOK, Correlations, ReceiveReply, subscription, requests, faults
<1>2. ASSUME NEW c \in Correlated(r), c \in Parallels, Callback(c, r)
      PROVE  RpcInv'
  <2>1. r \in Reply BY DEF TypeOK
  <2>2. callbacks' \in [Calls -> SUBSET Reply]
      BY <1>2, <2>1, CorrelatedCall DEF TypeOK, Callback
  <2>3. first' \in [Calls -> Calls \cup {None}]
      BY <1>2, CorrelatedCall, HeardType DEF Callback
  <2> QED BY <1>2, <2>2, <2>3
          DEF TypeOK, Correlations, ReceiveReply, Callback, subscription, requests, faults
<1>3. ASSUME NEW c \in Correlated(r), c \notin Parallels, SettlePromise(c, r)
      PROVE  RpcInv'
  <2>1. promise' \in [Calls -> {"pending", "resolved", "rejected", "timeout"}]
      BY <1>3 DEF TypeOK, SettlePromise
  <2>2. first' \in [Calls -> Calls \cup {None}]
      BY <1>3, CorrelatedCall, HeardType DEF SettlePromise
  <2> QED BY <1>3, <2>1, <2>2
          DEF TypeOK, Correlations, ReceiveReply, SettlePromise, subscription, requests, faults
<1> QED BY <1>1, <1>2, <1>3 DEF ReceiveReply

LEMMA InvInductive == RpcInv /\ [Next]_vars => RpcInv'
<1> SUFFICES ASSUME RpcInv, [Next]_vars PROVE RpcInv'
    OBVIOUS
<1> USE CallsAssumption DEF RpcInv, TypeOK, Correlations, subscription, requests, faults
<1>1. CASE SubscribeOk BY <1>1 DEF SubscribeOk
<1>2. CASE SubscribeFails BY <1>2 DEF SubscribeFails
<1>3. CASE LoseChannel
  <2>1. lost' \in 0..MaxLost /\ consuming' \in BOOLEAN
    <3>1. lost < MaxLost /\ lost' = lost + 1 BY <1>3 DEF LoseChannel
    <3>2. lost' \in 0..MaxLost BY <3>1
    <3>3. consuming' \in BOOLEAN BY <1>3 DEF LoseChannel
    <3> QED BY <3>2, <3>3
  <2> QED BY <1>3, <2>1 DEF LoseChannel
<1>4. ASSUME NEW c \in Calls, Call(c) PROVE RpcInv'
    BY <1>4 DEF Call, GetRpcQueue
<1>5. ASSUME NEW c \in Calls, Publish(c) PROVE RpcInv'
    BY <1>5, IdType, NoneIsNoCall DEF Publish, Prepare
<1>6. ASSUME NEW c \in Calls, PublishFails(c) PROVE RpcInv'
    BY <1>6, IdType DEF PublishFails, Prepare
<1>7. ASSUME NEW c \in Calls, NEW error \in BOOLEAN, Respond(c, error) PROVE RpcInv'
  <2>1. /\ correlation[c] \in Calls
        /\ answers[c] \in Nat /\ answers[c] + 1 \in 1..MaxAnswers
      BY <1>7 DEF Respond
  <2>2. [call |-> c, id |-> correlation[c], nth |-> answers[c] + 1, error |-> error] \in Reply
      BY <2>1 DEF Reply
  <2> QED BY <1>7, <2>1, <2>2 DEF Respond
<1>8. ASSUME NEW c \in Calls, TimeoutReached(c) PROVE RpcInv'
    BY <1>8 DEF TimeoutReached
<1>9. ASSUME NEW c \in Calls, ClearParallel(c) PROVE RpcInv'
    BY <1>9 DEF ClearParallel
<1>10. ASSUME NEW r \in replies, ReceiveReply(r) PROVE RpcInv'
    BY <1>10, ReceiveType
<1>11. CASE UNCHANGED vars BY <1>11 DEF vars
<1> QED BY <1>1, <1>2, <1>3, <1>4, <1>5, <1>6, <1>7, <1>8, <1>9, <1>10, <1>11 DEF Next

LEMMA Invariance == Spec => []RpcInv
<1>1. Init => RpcInv
  <2> SUFFICES ASSUME Init PROVE TypeOK /\ Correlations
      BY DEF RpcInv
  <2>1. MaxAnswers \in Nat /\ MaxLost \in Nat /\ MaxFailed \in Nat BY CallsAssumption
  <2>2. 0 \in 0..MaxAnswers /\ 0 \in 0..MaxLost /\ 0 \in 0..MaxFailed BY <2>1
  <2>3. TypeOK BY <2>2 DEF Init, TypeOK
  <2> QED BY <2>3 DEF Init, Correlations
<1> QED BY <1>1, InvInductive, PTL DEF Spec

(* Every state is well typed (TypeOK): an answer always has the            *)
(* correlation id of a call, whatever headers the caller's options held.   *)
THEOREM TypeCorrect == Spec => []TypeOK
<1>1. RpcInv => TypeOK BY DEF RpcInv
<1> QED BY <1>1, Invariance, PTL

-----------------------------------------------------------------------------
(* The cache of the callbacks.                                             *)

LEMMA ReceiveTracks ==
    ASSUME RpcInv, CacheInv, NEW r \in replies, ReceiveReply(r)
    PROVE  CacheInv'
<1>1. r.call \in Calls /\ r.call # None
    BY NoneIsNoCall DEF RpcInv, TypeOK, Reply
<1>2. CASE UNCHANGED <<cache, promise, callbacks, first>>
    BY <1>2 DEF ReceiveReply, CacheInv, CacheTracks, Untouched
<1>3. ASSUME NEW c \in Correlated(r), c \in Parallels, Callback(c, r)
      PROVE  CacheInv'
  <2>1. c \in Calls /\ c \notin Invokes /\ stage[c] # "idle"
      BY <1>3, CorrelatedCall DEF RpcInv, TypeOK, Invokes, CacheInv, CacheTracks
  <2>2. \A d \in Calls \ {c} : first'[d] = first[d]
      BY <1>3 DEF RpcInv, TypeOK, Callback, Heard
  <2>3. UNCHANGED <<cache, stage, cleared>>
      BY <1>3 DEF Callback, ReceiveReply
  <2> QED BY <2>1, <2>2, <2>3 DEF CacheInv, CacheTracks, Untouched
<1>4. ASSUME NEW c \in Correlated(r), c \notin Parallels, SettlePromise(c, r)
      PROVE  CacheInv'
  <2>1. c \in Invokes /\ first'[c] # None /\ stage[c] # "idle"
      BY <1>1, <1>4, CorrelatedCall
         DEF RpcInv, TypeOK, SettlePromise, Heard, Invokes, CacheInv, CacheTracks
  <2>2. \A d \in Calls \ {c} : first'[d] = first[d]
      BY <1>4 DEF RpcInv, TypeOK, SettlePromise, Heard
  <2> QED BY <1>4, <2>1, <2>2 DEF CacheInv, CacheTracks, Untouched, SettlePromise, ReceiveReply
<1> QED BY <1>2, <1>3, <1>4 DEF ReceiveReply, RpcInv

LEMMA CacheInductive == RpcInv /\ CacheInv /\ [Next]_vars => CacheInv'
<1> SUFFICES ASSUME RpcInv, CacheInv, [Next]_vars PROVE CacheInv'
    OBVIOUS
<1> USE CallsAssumption DEF RpcInv, TypeOK, CacheInv, CacheTracks, Untouched, subscription, requests, faults
<1>1. CASE SubscribeOk BY <1>1 DEF SubscribeOk
<1>2. CASE SubscribeFails BY <1>2 DEF SubscribeFails
<1>3. CASE LoseChannel BY <1>3 DEF LoseChannel
<1>4. ASSUME NEW c \in Calls, Call(c) PROVE CacheInv'
    BY <1>4 DEF Call
<1>5. ASSUME NEW c \in Calls, Publish(c) PROVE CacheInv'
    BY <1>5 DEF Publish, Prepare
<1>6. ASSUME NEW c \in Calls, PublishFails(c) PROVE CacheInv'
    BY <1>6 DEF PublishFails, Prepare
<1>7. ASSUME NEW c \in Calls, NEW error \in BOOLEAN, Respond(c, error) PROVE CacheInv'
    BY <1>7 DEF Respond
<1>8. ASSUME NEW c \in Calls, TimeoutReached(c) PROVE CacheInv'
    BY <1>8 DEF TimeoutReached
<1>9. ASSUME NEW c \in Calls, ClearParallel(c) PROVE CacheInv'
    BY <1>9 DEF ClearParallel
<1>10. ASSUME NEW r \in replies, ReceiveReply(r) PROVE CacheInv'
    BY <1>10, ReceiveTracks
<1>11. CASE UNCHANGED vars BY <1>11 DEF vars
<1> QED BY <1>1, <1>2, <1>3, <1>4, <1>5, <1>6, <1>7, <1>8, <1>9, <1>10, <1>11 DEF Next

(* correlationIdCache holds exactly the calls that were neither answered   *)
(* nor cleared (CacheTracks): an invoke leaves it with its first answer,   *)
(* which may be late, a parallel when it is cleared, and nothing else ever *)
(* removes an entry.                                                       *)
THEOREM CacheExact == Spec => []CacheTracks
<1>1. Init => CacheInv BY DEF Init, CacheInv, CacheTracks, Untouched
<1>2. CacheInv => CacheTracks BY DEF CacheInv
<1> QED BY <1>1, <1>2, CacheInductive, Invariance, PTL DEF Spec

(* After clearParallel no answer reaches the callback, however many are    *)
(* still on their way (SilentOnceCleared).                                 *)
THEOREM ClearedIsSilent == Spec => SilentOnceCleared
<1>1. RpcInv /\ CacheTracks /\ [Next]_vars
        => [\A c \in cleared : callbacks'[c] = callbacks[c]]_vars
  <2> SUFFICES ASSUME RpcInv, CacheTracks, [Next]_vars, NEW c \in cleared
               PROVE  callbacks'[c] = callbacks[c]
      OBVIOUS
  <2>1. c \notin cache BY DEF CacheTracks
  <2>2. ASSUME NEW r \in replies, ReceiveReply(r) PROVE callbacks'[c] = callbacks[c]
    <3>1. ASSUME NEW d \in Correlated(r), Callback(d, r) PROVE callbacks'[c] = callbacks[c]
      <4>1. c # d /\ c \in Calls
          BY <2>1, CorrelatedCall, CallsAssumption DEF RpcInv, TypeOK
      <4> QED BY <3>1, <4>1 DEF Callback, RpcInv, TypeOK
    <3> QED BY <2>2, <3>1 DEF ReceiveReply, SettlePromise
  <2>3. CASE UNCHANGED callbacks BY <2>3
  <2> QED BY <2>2, <2>3
          DEF Next, vars, SubscribeOk, SubscribeFails, LoseChannel, Call, Publish, PublishFails,
              TimeoutReached, ClearParallel, Respond
<1> QED BY <1>1, Invariance, CacheExact, PTL DEF Spec, SilentOnceCleared

-----------------------------------------------------------------------------
(* Whose answers a call gets.                                              *)

LEMMA IdOfOptions ==
    ASSUME RpcInv, IdsOfOptions, NEW c \in Calls
    PROVE  SameOptions(CorrelationId(c), c)
BY ObjectOf DEF IdsOfOptions, SameOptions, CorrelationId

LEMMA PrepareIds ==
    ASSUME RpcInv, IdsOfOptions, NEW c \in Calls, Prepare(c)
    PROVE  \A o \in Options : headers'[o] # None => OptionsOf[headers'[o]] = o
BY IdOfOptions, ObjectOf DEF RpcInv, TypeOK, IdsOfOptions, SameOptions, Prepare

LEMMA ReceiveOptions ==
    ASSUME RpcInv, OptionsInv, NEW r \in replies, ReceiveReply(r)
    PROVE  OptionsInv'
<1> USE DEF RpcInv, OptionsInv
<1>1. IdsOfOptions'
    BY DEF IdsOfOptions, ReceiveReply, requests, SameOptions
<1>2. CASE UNCHANGED <<cache, promise, callbacks, first>>
    BY <1>1, <1>2 DEF OwnAnswer, SameOptions
<1>3. ASSUME NEW c \in Correlated(r), Heard(c, r)
      PROVE  \A d \in Calls : first'[d] # None => SameOptions(first'[d], d)
  <2>1. SameOptions(r.call, c)
      BY CorrelatedCall DEF IdsOfOptions
  <2> QED BY <1>3, <2>1 DEF Heard, OwnAnswer, TypeOK
<1>4. ASSUME NEW c \in Correlated(r), Callback(c, r)
      PROVE  OwnAnswer'
  <2>1. SameOptions(r.call, c)
      BY CorrelatedCall DEF IdsOfOptions
  <2>2. \A d \in Calls : \A a \in callbacks'[d] : SameOptions(a.call, d)
      BY <1>4, <2>1 DEF Callback, OwnAnswer, TypeOK
  <2> QED BY <1>3, <1>4, <2>2 DEF Callback, OwnAnswer, SameOptions
<1>5. ASSUME NEW c \in Correlated(r), SettlePromise(c, r)
      PROVE  OwnAnswer'
    BY <1>3, <1>5 DEF SettlePromise, OwnAnswer, SameOptions
<1> QED BY <1>1, <1>2, <1>4, <1>5 DEF ReceiveReply

LEMMA OptionsInductive == RpcInv /\ OptionsInv /\ [Next]_vars => OptionsInv'
<1> SUFFICES ASSUME RpcInv, OptionsInv, [Next]_vars PROVE OptionsInv'
    OBVIOUS
<1> USE DEF OptionsInv, OwnAnswer, SameOptions
<1>1. ASSUME NEW c \in Calls, Publish(c) PROVE OptionsInv'
  <2>1. \A d \in Calls : correlation'[d] # None => SameOptions(correlation'[d], d)
      BY <1>1, IdOfOptions DEF Publish, RpcInv, TypeOK, IdsOfOptions
  <2>2. \A o \in Options : headers'[o] # None => OptionsOf[headers'[o]] = o
      BY <1>1, PrepareIds DEF Publish
  <2> QED BY <1>1, <2>1, <2>2 DEF Publish, IdsOfOptions
<1>2. ASSUME NEW c \in Calls, PublishFails(c) PROVE OptionsInv'
  <2>1. \A o \in Options : headers'[o] # None => OptionsOf[headers'[o]] = o
      BY <1>2, PrepareIds DEF PublishFails
  <2> QED BY <1>2, <2>1 DEF PublishFails, IdsOfOptions
<1>3. ASSUME NEW c \in Calls, NEW error \in BOOLEAN, Respond(c, error) PROVE OptionsInv'
  <2>1. correlation[c] # None
      BY <1>3 DEF Respond, RpcInv, Correlations
  <2> QED BY <1>3, <2>1 DEF Respond, IdsOfOptions
<1>4. ASSUME NEW r \in replies, ReceiveReply(r) PROVE OptionsInv'
    BY <1>4, ReceiveOptions
<1>5. CASE UNCHANGED <<requests, replies, callbacks, first>>
    BY <1>5 DEF requests, IdsOfOptions
<1> QED BY <1>1, <1>2, <1>3, <1>4, <1>5
        DEF Next, vars, requests, SubscribeOk, SubscribeFails, LoseChannel, Call,
            TimeoutReached, ClearParallel

(* A call only ever gets answers of calls that were given the same options *)
(* object (OwnAnswer), whatever is late, repeated or lost: the header that *)
(* publish leaves in it is all that mixes answers.                         *)
THEOREM AnswersStayInOptions == Spec => []OwnAnswer
<1>1. Init => OptionsInv
    BY DEF Init, OptionsInv, IdsOfOptions, OwnAnswer
<1>2. OptionsInv => OwnAnswer BY DEF OptionsInv
<1> QED BY <1>1, <1>2, OptionsInductive, Invariance, PTL DEF Spec

(* Provided that no options object is given to two calls, a call gets its  *)
(* own answers only.                                                       *)
THEOREM AnswersAreOwn ==
    ASSUME OwnObjects
    PROVE  Spec => []Unmixed
<1>1. RpcInv /\ OwnAnswer => Unmixed
  <2> SUFFICES ASSUME RpcInv, OwnAnswer, NEW c \in Calls
               PROVE  /\ first[c] \in {c, None}
                      /\ \A r \in callbacks[c] : r.call = c
      BY DEF Unmixed
  <2>1. first[c] \in Calls \cup {None} /\ \A r \in callbacks[c] : r.call \in Calls
      BY DEF RpcInv, TypeOK, Reply
  <2> QED BY <2>1 DEF OwnAnswer, OwnObjects
<1> QED BY <1>1, Invariance, AnswersStayInOptions, PTL

-----------------------------------------------------------------------------
(* What stays in the cache.                                                *)

LEMMA PublishedInductive == RpcInv /\ AnswersArePublished /\ [Next]_vars => AnswersArePublished'
<1> SUFFICES ASSUME RpcInv, AnswersArePublished, [Next]_vars PROVE AnswersArePublished'
    OBVIOUS
<1>0. /\ stage \in [Calls -> {"idle", "called", "published", "unpublished"}]
      /\ replies \subseteq Reply /\ first \in [Calls -> Calls \cup {None}]
    BY DEF RpcInv, TypeOK
<1>1. \A r \in replies : r.call \in Calls
    BY <1>0 DEF Reply
<1>2. ASSUME \A c \in Calls : stage[c] = "published" => stage'[c] = "published",
             replies' \subseteq replies, UNCHANGED first
      PROVE  AnswersArePublished'
    BY <1>0, <1>1, <1>2 DEF AnswersArePublished
<1>3. ASSUME NEW c \in Calls, Call(c) \/ Publish(c) \/ PublishFails(c) PROVE AnswersArePublished'
    BY <1>0, <1>2, <1>3 DEF Call, Publish, PublishFails, Prepare
<1>4. ASSUME NEW c \in Calls, NEW error \in BOOLEAN, Respond(c, error) PROVE AnswersArePublished'
    BY <1>4 DEF Respond, AnswersArePublished
<1>5. ASSUME NEW r \in replies, ReceiveReply(r) PROVE AnswersArePublished'
  <2>1. ASSUME NEW c, Heard(c, r) PROVE \A d \in Calls : first'[d] \in {first[d], r.call}
      BY <1>0, <2>1 DEF Heard
  <2>2. \A d \in Calls : first'[d] \in {first[d], r.call}
      BY <2>1, <1>5 DEF ReceiveReply, Callback, SettlePromise
  <2> QED BY <1>5, <2>2 DEF ReceiveReply, AnswersArePublished
<1>6. CASE UNCHANGED <<stage, replies, first>>
    BY <1>2, <1>6
<1> QED BY <1>3, <1>4, <1>5, <1>6
        DEF Next, vars, requests, SubscribeOk, SubscribeFails, LoseChannel,
            TimeoutReached, ClearParallel

(* The leak of correlationIdCache: nothing removes the entry of an invoke  *)
(* whose request could not be published, a timeout of the call included.   *)
THEOREM UnpublishedStays ==
    ASSUME OwnObjects
    PROVE  Spec => []Leaked
<1>1. Init => AnswersArePublished
    BY DEF Init, AnswersArePublished
<1>2. RpcInv /\ CacheTracks /\ AnswersArePublished /\ Unmixed => Leaked
  <2> SUFFICES ASSUME RpcInv, CacheTracks, AnswersArePublished, Unmixed,
                      NEW c \in Invokes, stage[c] = "unpublished"
               PROVE  c \in cache
      BY DEF Leaked
  <2>1. c \in Calls /\ c \notin cleared
      BY DEF Invokes, RpcInv, TypeOK
  <2>2. first[c] = None
      BY <2>1 DEF AnswersArePublished, Unmixed
  <2> QED BY <2>1, <2>2 DEF CacheTracks
<1> QED BY <1>1, <1>2, PublishedInductive, Invariance, CacheExact, AnswersAreOwn, PTL DEF Spec
=============================================================================
