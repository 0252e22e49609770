-------------------------------- MODULE Rpc --------------------------------
(***************************************************************************)
(* invoke and parallel in one process: the cache of the callbacks by       *)
(* correlation id, the shared subscription to the reply queue, timeouts,   *)
(* answers that are late, repeated or missing, and the loss of the channel *)
(* of the reply consumer.                                                  *)
(*                                                                         *)
(* The functions that are called, and the broker between, are external: a  *)
(* request is answered at least once if it is published, more often when   *)
(* the subscriber runs it again or, for parallel, when there are several.  *)
(***************************************************************************)
EXTENDS Integers, FiniteSets

CONSTANTS
    Calls,        \* the uids of the calls
    Parallels,    \* those made with parallel, the others with invoke
    Timed,        \* the invokes with options.timeout
    Options,      \* options objects of the callers
    OptionsOf,    \* the object each call is given
    MaxAnswers,   \* bound on the answers to one request
    MaxLost,      \* bound on the losses of the reply consumer's channel
    MaxFailed,    \* bound on the failures of subscribe and of publish
    None

Invokes == Calls \ Parallels

ASSUME CallsAssumption ==
    /\ Parallels \subseteq Calls /\ Timed \subseteq Invokes /\ None \notin Calls
    /\ OptionsOf \in [Calls -> Options]
    /\ MaxAnswers \in Nat \ {0} /\ MaxLost \in Nat /\ MaxFailed \in Nat

VARIABLES
    replyToSubscription,   \* the cached promise of getRpcQueue
    consuming,             \* whether the reply queue has a consumer
    cache,                 \* the keys of correlationIdCache
    stage,                 \* how far each call got
    promise,               \* the promise of each invoke
    callbacks,             \* the answers given to the callback of each parallel
    first,                 \* the request whose answer was the first to reach each call
    headers,               \* x-correlation-id kept in each options object
    correlation,           \* x-correlation-id of the request of each call
    answers,               \* number of answers to each request
    replies,               \* answers on their way to the reply queue
    cleared,               \* calls given to clearParallel
    lost, failed           \* faults so far

vars == <<replyToSubscription, consuming, cache, stage, promise, callbacks, first,
          headers, correlation, answers, replies, cleared, lost, failed>>
subscription == <<replyToSubscription, consuming>>
requests == <<headers, correlation, answers>>
faults == <<lost, failed>>

(* An answer to the request of call, with the correlation id of that request. *)
Reply == [call: Calls, id: Calls, nth: 1..MaxAnswers, error: BOOLEAN]

TypeOK ==
    /\ replyToSubscription \in {"none", "pending", "ready", "failed"}
    /\ consuming \in BOOLEAN
    /\ cache \subseteq Calls
    /\ stage \in [Calls -> {"idle", "called", "published", "unpublished"}]
    /\ promise \in [Calls -> {"pending", "resolved", "rejected", "timeout"}]
    /\ callbacks \in [Calls -> SUBSET Reply]
    /\ first \in [Calls -> Calls \cup {None}]
    /\ headers \in [Options -> Calls \cup {None}]
    /\ correlation \in [Calls -> Calls \cup {None}]
    /\ answers \in [Calls -> 0..MaxAnswers]
    /\ replies \subseteq Reply
    /\ cleared \subseteq Parallels
    /\ lost \in 0..MaxLost
    /\ failed \in 0..MaxFailed

Init ==
    /\ replyToSubscription = "none"
    /\ consuming = FALSE
    /\ cache = {}
    /\ stage = [c \in Calls |-> "idle"]
    /\ promise = [c \in Calls |-> "pending"]
    /\ callbacks = [c \in Calls |-> {}]
    /\ first = [c \in Calls |-> None]
    /\ headers = [o \in Options |-> None]
    /\ correlation = [c \in Calls |-> None]
    /\ answers = [c \in Calls |-> 0]
    /\ replies = {}
    /\ cleared = {}
    /\ lost = 0
    /\ failed = 0

-----------------------------------------------------------------------------
(* getRpcQueue subscribes once.  The promise stays cached when it rejects, *)
(* and when its channel is lost: the key of channel 0 is not RPC_QUALIFIER.*)
GetRpcQueue ==
    replyToSubscription' = IF replyToSubscription = "none" THEN "pending" ELSE replyToSubscription

SubscribeOk ==
    /\ replyToSubscription = "pending"
    /\ replyToSubscription' = "ready"
    /\ consuming' = TRUE
    /\ UNCHANGED <<cache, stage, promise, callbacks, first, requests, replies, cleared, faults>>

SubscribeFails ==
    /\ failed < MaxFailed
    /\ failed' = failed + 1
    /\ replyToSubscription = "pending"
    /\ replyToSubscription' = "failed"
    /\ UNCHANGED <<consuming, cache, stage, promise, callbacks, first, requests, replies, cleared, lost>>

LoseChannel ==
    /\ consuming /\ lost < MaxLost
    /\ consuming' = FALSE
    /\ lost' = lost + 1
    /\ UNCHANGED <<replyToSubscription, cache, stage, promise, callbacks, first, requests,
                   replies, cleared, failed>>

-----------------------------------------------------------------------------
(* invoke and parallel.                                                    *)

Call(c) ==
    /\ stage[c] = "idle"
    /\ stage' = [stage EXCEPT ![c] = "called"]
    /\ cache' = cache \cup {c}
    /\ GetRpcQueue
    /\ UNCHANGED <<consuming, promise, callbacks, first, requests, replies, cleared, faults>>

(* Mutant: only the headers of the caller are sent.                        *)
CallersHeader(c) == headers[OptionsOf[c]]

(* Object.assign({ x-correlation-id }, options.headers): a header that an  *)
(* earlier call left in the same options object wins.                      *)
CorrelationId(c) ==
    IF headers[OptionsOf[c]] = None THEN c ELSE headers[OptionsOf[c]]

Prepare(c) ==
    /\ stage[c] = "called" /\ replyToSubscription = "ready"
    /\ headers' = [headers EXCEPT ![OptionsOf[c]] = CorrelationId(c)]

Publish(c) ==
    /\ Prepare(c)
    /\ correlation' = [correlation EXCEPT ![c] = CorrelationId(c)]
    /\ stage' = [stage EXCEPT ![c] = "published"]
    /\ UNCHANGED <<subscription, cache, promise, callbacks, first, answers, replies, cleared, faults>>

(* Nobody handles the rejection of the publish.                            *)
PublishFails(c) ==
    /\ failed < MaxFailed
    /\ failed' = failed + 1
    /\ Prepare(c)
    /\ stage' = [stage EXCEPT ![c] = "unpublished"]
    /\ UNCHANGED <<subscription, cache, promise, callbacks, first, correlation, answers, replies,
                   cleared, lost>>

(* A subscriber answers, with a response or an error.                      *)
Respond(c, error) ==
    /\ stage[c] = "published" /\ answers[c] < MaxAnswers
    /\ answers' = [answers EXCEPT ![c] = @ + 1]
    /\ replies' = replies \cup
          {[call |-> c, id |-> correlation[c], nth |-> answers[c] + 1, error |-> error]}
    /\ UNCHANGED <<subscription, cache, stage, promise, callbacks, first, headers, correlation,
                   cleared, faults>>

-----------------------------------------------------------------------------
(* The handler of the reply queue.                                         *)

Heard(c, r) == first' = [first EXCEPT ![c] = IF @ = None THEN r.call ELSE @]

(* Mutant: the entry stays in the cache.                                   *)
SettleAndKeep(c, r) ==
    /\ promise' = [promise EXCEPT ![c] =
          IF @ # "pending" THEN @ ELSE IF r.error THEN "rejected" ELSE "resolved"]
    /\ Heard(c, r)
    /\ UNCHANGED <<cache, callbacks>>


(* The promise settles once; the entry is deleted even if it timed out.    *)
SettlePromise(c, r) ==
    /\ promise' = [promise EXCEPT ![c] =
          IF @ # "pending" THEN @ ELSE IF r.error THEN "rejected" ELSE "resolved"]
    /\ cache' = cache \ {c}
    /\ Heard(c, r)
    /\ UNCHANGED callbacks

Callback(c, r) ==
    /\ callbacks' = [callbacks EXCEPT ![c] = @ \cup {r}]
    /\ Heard(c, r)
    /\ UNCHANGED <<cache, promise>>

(* Mutant: an answer goes to any call.                                     *)
AnyCall(r) == cache

(* The cached call an answer is for.                                       *)
Correlated(r) == {c \in cache : c = r.id}

ReceiveReply(r) ==
    /\ consuming
    /\ replies' = replies \ {r}
    /\ \/ /\ Correlated(r) = {}
          /\ UNCHANGED <<cache, promise, callbacks, first>>
       \/ \E c \in Correlated(r) : IF c \in Parallels THEN Callback(c, r) ELSE SettlePromise(c, r)
    /\ UNCHANGED <<subscription, stage, requests, cleared, faults>>

(* createDeferred: the timer starts with the call.                         *)
TimeoutReached(c) ==
    /\ c \in Timed
    /\ stage[c] # "idle" /\ promise[c] = "pending"
    /\ promise' = [promise EXCEPT ![c] = "timeout"]
    /\ UNCHANGED <<subscription, cache, stage, callbacks, first, requests, replies, cleared, faults>>

(* Mutant: clearParallel leaves the entry in the cache.                    *)
ClearNothing(c) ==
    /\ c \in Parallels \ cleared /\ stage[c] # "idle"
    /\ cleared' = cleared \cup {c}
    /\ UNCHANGED <<subscription, cache, stage, promise, callbacks, first, requests, replies, faults>>

ClearParallel(c) ==
    /\ c \in Parallels \ cleared /\ stage[c] # "idle"
    /\ cache' = cache \ {c}
    /\ cleared' = cleared \cup {c}
    /\ UNCHANGED <<subscription, stage, promise, callbacks, first, requests, replies, faults>>

-----------------------------------------------------------------------------

Next ==
    \/ SubscribeOk \/ SubscribeFails \/ LoseChannel
    \/ \E c \in Calls :
          \/ Call(c) \/ Publish(c) \/ PublishFails(c) \/ TimeoutReached(c) \/ ClearParallel(c)
          \/ \E error \in BOOLEAN : Respond(c, error)
    \/ \E r \in replies : ReceiveReply(r)

Spec == Init /\ [][Next]_vars

(* The broker answers, a published request is answered at least once, what *)
(* is on a queue that is consumed is received, and timers fire.            *)
FairSpec ==
    /\ Spec
    /\ WF_vars(SubscribeOk)
    /\ WF_vars(\E r \in replies : ReceiveReply(r))
    /\ \A c \in Calls :
          /\ WF_vars(Publish(c))
          /\ WF_vars(TimeoutReached(c))
          /\ WF_vars(answers[c] = 0 /\ \E error \in BOOLEAN : Respond(c, error))

-----------------------------------------------------------------------------
(* Properties.                                                             *)

SameOptions(c, d) == OptionsOf[c] = OptionsOf[d]

(* A call gets the answers of its own request or, because of the header    *)
(* that publish leaves in options, of a request that was made with the     *)
(* same options object; never those of another one.                        *)
OwnAnswer ==
    \A c \in Calls :
        /\ first[c] # None => SameOptions(first[c], c)
        /\ \A r \in callbacks[c] : SameOptions(r.call, c)

(* The cache holds exactly the calls made that were neither answered       *)
(* (invoke) nor cleared (parallel): it forgets none sooner, and an answer  *)
(* that is late still removes the entry.  What can no longer be answered,  *)
(* as its subscription or its publish failed, stays in it.                 *)
CacheTracks ==
    cache = {c \in Calls : stage[c] # "idle"
                           /\ c \notin cleared
                           /\ (c \in Invokes => first[c] = None)}

(* After clearParallel the callback is not called any more.                *)
SilentOnceCleared == [][\A c \in cleared : callbacks'[c] = callbacks[c]]_vars

Called(c) == stage[c] # "idle"
Settled(c) == promise[c] # "pending"


(* "return the function response" (src/src/index.js:345): an invoke whose  *)
(* request is still to be published when the reply consumer loses its      *)
(* channel gets its response all the same.                                 *)
AnsweredAfterLoss == \A c \in Invokes : (stage[c] = "called" /\ lost > 0) ~> Settled(c)

=============================================================================
