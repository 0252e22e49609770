------------------------------ MODULE Services ------------------------------
(***************************************************************************)
(* Services that subscribe over direct, topic and fanout exchanges: where  *)
(* a message goes, where it goes again when its handler fails and how much *)
(* later, where it ends; and the statistics that the autodoc agent of each *)
(* service keeps of its functions and answers the master with.             *)
(*                                                                         *)
(* The acknowledgement of each copy, and what it may lose, is the matter   *)
(* of Delivery: here a copy is handled exactly once.                       *)
(***************************************************************************)
EXTENDS Routing, Bags

CONSTANTS
    Agents,        \* the subscriptions of ensureAutodocAgent, without meta
    Origins,       \* what is published
    PublishedTo,   \* [qualifier, exchangeName] of each
    Gateway,       \* the origins that are autodoc requests of the gateway
    Unknown,       \* <<agent, origin>>: the requests an agent has no handler for
    RetryOf,       \* meta.retry of each subscription
    MaxTimeout,    \* the longest delay of setTimeout
    MaxReplyFaults \* bound on the answers that cannot be published

Retry == [max: Nat, strategy: {"direct", "exponential"}, interval: Nat, jitter: Nat]

ASSUME ServicesAssumption ==
    /\ Agents \subseteq Subscriptions /\ Gateway \subseteq Origins
    /\ Unknown \subseteq Agents \X Origins
    /\ \A o \in Origins :
          PublishedTo[o].qualifier \in Seq(STRING) /\ PublishedTo[o].qualifier # <<>>
    /\ RetryOf \in [Subscriptions -> Retry]
    /\ MaxTimeout \in Nat \ {0} /\ MaxReplyFaults \in Nat

VARIABLES
    published,     \* origins published so far
    copies,        \* bag of the copies that are queued or await their retry
    concluded,     \* <<origin, subscription>>s that were handled, or given up
    received,      \* receivedCount in the statistics of each function
    executed,      \* how often the handler of each returned
    reported,      \* how often the master was told so
    lost,          \* ... or was not, for the answer could not be published
    replyFaults    \* answers that could not be published

vars == <<published, copies, concluded, received, executed, reported, lost, replyFaults>>
statistics == <<received, executed, reported, lost>>

Functions == Subscriptions \ Agents

(* count is x-retry-count, jitter x-retry-jitter (0 if there is none), and *)
(* pace the subscription whose meta.retry is in the other retry headers;   *)
(* delay is that of the retry timer, if armed.                             *)
Copy == [origin: Origins, at: Subscriptions \cup {Dead}, count: Nat, jitter: Nat,
         pace: Subscriptions \cup {Dead}, waits: BOOLEAN, delay: 0..MaxTimeout]

TypeOK ==
    /\ published \subseteq Origins
    /\ IsABag(copies) /\ BagToSet(copies) \subseteq Copy
    /\ \A k \in BagToSet(copies) : k.waits => k.count <= RetryOf[k.at].max
    /\ concluded \subseteq Origins \X Subscriptions \X {"handled", "givenUp"}
    /\ received \in [Functions -> Nat] /\ executed \in [Functions -> Nat]
    /\ reported \in [Functions -> Nat] /\ lost \in [Functions -> Nat]
    /\ replyFaults \in 0..MaxReplyFaults

Init ==
    /\ published = {}
    /\ copies = EmptyBag
    /\ concluded = {}
    /\ received = [f \in Functions |-> 0]
    /\ executed = [f \in Functions |-> 0]
    /\ reported = [f \in Functions |-> 0]
    /\ lost = [f \in Functions |-> 0]
    /\ replyFaults = 0

-----------------------------------------------------------------------------
(* The retry headers (utils/retry.js).  pace is Dead if there are none.    *)

(* Mutant: the count is incremented for the republished message as well.   *)
IncrementTwice(k) ==
    [k EXCEPT !.count = @ + 2,
              !.pace = IF @ = Dead THEN k.at ELSE @,
              !.jitter = IF @ = 0 THEN RetryOf[k.at].jitter ELSE @]

(* A header that is there stays; a jitter of 0 is not written.             *)
Increment(k) ==
    [k EXCEPT !.count = @ + 1,
              !.pace = IF @ = Dead THEN k.at ELSE @,
              !.jitter = IF @ = 0 THEN RetryOf[k.at].jitter ELSE @]

(* setTimeout runs at once when its delay does not fit.                    *)
SetTimeout(delay) == IF delay > MaxTimeout THEN 1 ELSE delay

BackOff(retry, count) ==
    IF retry.strategy = "exponential" THEN 2^(count - 1) * retry.interval ELSE retry.interval

(* Math.floor(Math.random() * jitterRange)                                 *)
Jitters(range) == IF range = 0 THEN {0} ELSE 0..(range - 1)

(* Mutant: the delay is computed before the headers are incremented.       *)
NextCallEarly(k) ==
    {SetTimeout(BackOff(RetryOf[k.pace], k.count) \div 2 + j) : j \in Jitters(k.jitter)}

(* computeNextCall, of a copy whose headers were incremented.              *)
ComputeNextCall(k) ==
    {SetTimeout(BackOff(RetryOf[k.pace], k.count) + j) : j \in Jitters(k.jitter)}

-----------------------------------------------------------------------------
(* Publishing.                                                             *)

New(o, s) ==
    [origin |-> o, at |-> s, count |-> 0, jitter |-> 0, pace |-> Dead,
     waits |-> FALSE, delay |-> 0]

(* A copy gives way to others, or to none.                                 *)
Replace(k, ks) == copies' = (copies (-) SetToBag({k})) (+) SetToBag(ks)

Publish(o) ==
    /\ o \notin published
    /\ published' = published \cup {o}
    /\ copies' = copies (+) SetToBag({New(o, s) :
                     s \in ReceiversOf(PublishedTo[o].qualifier, PublishedTo[o].exchangeName)})
    /\ UNCHANGED <<concluded, statistics, replyFaults>>

(* The timer of a retry: the message is published to the qualifier of the  *)
(* subscription, on the exchange it came from.                             *)
Republish(k) ==
    /\ BagIn(k, copies) /\ k.waits
    /\ Replace(k, {[k EXCEPT !.at = s, !.waits = FALSE, !.delay = 0] :
               s \in ReceiversOf(QualifierOf[k.at], ExchangeNameOf[k.at])})
    /\ UNCHANGED <<published, concluded, statistics, replyFaults>>

-----------------------------------------------------------------------------
(* The autodoc agent.                                                      *)

(* logStats.  The durations and the callers do not matter here.            *)
LogStats(f) ==
    /\ received' = [received EXCEPT ![f] = @ + 1]
    /\ executed' = [executed EXCEPT ![f] = @ + 1]
    /\ UNCHANGED <<reported, lost>>

Documented(a) == {f \in Functions : ServiceOf[f] = ServiceOf[a]}

(* Mutant: what the agent answers is not a copy, and is reset before it is *)
(* sent.                                                                   *)
AnswerReset(a) == [f \in Documented(a) |-> 0]

AnswerOf(a) == [f \in Documented(a) |-> received[f]]

(* getAll, then addSubscriber for each.                                    *)
Reset(a) ==
    /\ received' = [f \in Functions |-> IF f \in Documented(a) THEN 0 ELSE received[f]]
    /\ UNCHANGED executed

-----------------------------------------------------------------------------
(* The consumer callback.                                                  *)

Ready(k) == BagIn(k, copies) /\ ~k.waits /\ k.at # Dead

Conclude(k, how) == concluded' = concluded \cup {<<k.origin, k.at, how>>}

(* handleRetry.  The dead letter is published to its own qualifier.        *)
HandleRetry(k) ==
    LET retry == RetryOf[k.at] IN
    \/ /\ retry.max > 0 /\ k.count + 1 <= retry.max
       /\ \E d \in ComputeNextCall(Increment(k)) :
             Replace(k, {[Increment(k) EXCEPT !.waits = TRUE, !.delay = d]})
       /\ UNCHANGED concluded
    \/ /\ retry.max = 0 \/ k.count + 1 > retry.max
       /\ Replace(k, {[k EXCEPT !.at = s] : s \in ReceiversOf(DeadLetterQualifier, "")})
       /\ Conclude(k, "givenUp")

Succeed(k) ==
    /\ Replace(k, {})
    /\ Conclude(k, "handled")

Handle(k) ==
    /\ Ready(k) /\ k.at \in Functions
    /\ LogStats(k.at)
    /\ Succeed(k)
    /\ UNCHANGED <<published, replyFaults>>

(* An error with a status is answered, and never tried again.              *)
HandlerThrows(k) ==
    /\ Ready(k) /\ k.at \in Functions
    /\ HandleRetry(k) \/ Succeed(k)
    /\ UNCHANGED <<published, statistics, replyFaults>>

Plus(tally, a) ==
    [f \in Functions |-> IF f \in Documented(a) THEN tally[f] + AnswerOf(a)[f] ELSE tally[f]]

(* The agent resets when it answers the master, whatever then becomes of   *)
(* the answer: if it cannot be published the request is broadcast again.   *)
AnswerMaster(k) ==
    /\ Ready(k) /\ k.at \in Agents /\ <<k.at, k.origin>> \notin Unknown /\ k.origin \notin Gateway
    /\ Reset(k.at)
    /\ \/ /\ Succeed(k)
          /\ reported' = Plus(reported, k.at)
          /\ UNCHANGED <<lost, replyFaults>>
       \/ /\ replyFaults < MaxReplyFaults
          /\ replyFaults' = replyFaults + 1
          /\ HandleRetry(k)
          /\ lost' = Plus(lost, k.at)
          /\ UNCHANGED reported
    /\ UNCHANGED published

(* There is no responseHandler[origin][type] in the version of one agent:  *)
(* it throws, and has all of them try again.                               *)
AgentThrows(k) ==
    /\ Ready(k) /\ k.at \in Agents /\ <<k.at, k.origin>> \in Unknown
    /\ HandleRetry(k)
    /\ UNCHANGED <<published, statistics, replyFaults>>

(* getControllers.                                                         *)
AnswerGateway(k) ==
    /\ Ready(k) /\ k.at \in Agents /\ <<k.at, k.origin>> \notin Unknown /\ k.origin \in Gateway
    /\ Succeed(k)
    /\ UNCHANGED <<published, statistics, replyFaults>>

-----------------------------------------------------------------------------

Next ==
    \/ \E o \in Origins : Publish(o)
    \/ \E k \in BagToSet(copies) :
          \/ Republish(k) \/ Handle(k) \/ HandlerThrows(k)
          \/ AnswerMaster(k) \/ AgentThrows(k) \/ AnswerGateway(k)

Spec == Init /\ [][Next]_vars

-----------------------------------------------------------------------------
(* Properties.                                                             *)

HeldFor(o, s) == {k \in BagToSet(copies) : k.origin = o /\ k.at = s}

(* Whatever failed at a function comes back to it, over its own bindings,  *)
(* until it was handled there or dead-lettered: no retry is published to   *)
(* where nobody listens.                                                   *)
RetryReachesItself ==
    \A o \in published :
        \A s \in ReceiversOf(PublishedTo[o].qualifier, PublishedTo[o].exchangeName) \ {Dead} :
            \/ HeldFor(o, s) # {}
            \/ \E how \in {"handled", "givenUp"} : <<o, s, how>> \in concluded

(* The retries of one function are nobody else's: where its pattern        *)
(* matches no other's name, a function never has two copies of a message   *)
(* that was published once.  (Those of a fanout are broadcast to all.)     *)
RetryStaysHome ==
    \A s \in Subscriptions : Unambiguous(s) =>
        \A o \in Origins :
            LET ks == HeldFor(o, s)
            IN  ks = {} \/ (\E k \in ks : ks = {k} /\ copies[k] = 1)

LongestDelay(retry) == BackOff(retry, retry.max) + retry.jitter

(* The retries of such a function wait as long as its own meta asks: the   *)
(* interval at least, and twice as long each time if it is exponential,    *)
(* provided that the last delay still fits the timer.                      *)
BackoffKept ==
    \A k \in BagToSet(copies) :
        k.waits /\ Unambiguous(k.at) /\ LongestDelay(RetryOf[k.at]) <= MaxTimeout =>
            k.delay >= BackOff(RetryOf[k.at], k.count)

(* "dead-lettered messages will be sent here" (src/README.md:38): a        *)
(* message that was given up is in the dead-letter queue.                  *)
DeadLetterArrives ==
    \A o \in Origins, s \in Subscriptions :
        <<o, s, "givenUp">> \in concluded => HeldFor(o, Dead) # {}

(* No execution is counted twice or forgotten: what the master was told,   *)
(* or would have been told by an answer that could not be published, and   *)
(* what is in the current statistics, are all the executions; however      *)
(* often a request is broadcast.                                           *)
NothingUncounted ==
    \A f \in Functions : executed[f] = reported[f] + lost[f] + received[f]

=============================================================================
