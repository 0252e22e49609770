---------------------------- MODULE Subscription ----------------------------
(***************************************************************************)
(* carotte.subscribe over the channels of a process: the set-up of a       *)
(* consumer as a chain of requests on its channel, against the timeout of  *)
(* the subscription and the set-ups of other subscriptions.                *)
(*                                                                         *)
(* A channel has one request at the broker at a time, the others wait in   *)
(* line (amqplib).  A bind may never be answered: that is the state of the *)
(* broker that the timeout is for.                                         *)
(***************************************************************************)
EXTENDS Channels, Sequences, Functions

CONSTANTS
    Subscriptions,   \* calls of subscribe
    QualifierOf,     \* the qualifier of each
    PrefetchOf,      \* options.prefetch of each
    Topics,          \* those whose qualifier starts with topic/
    Hanging,         \* those whose bind may never be answered
    Slow,            \* those that may take as long as subscriptionTimeout
    MaxUnacked       \* bound on the messages a consumer has in progress

ASSUME SubscriptionsAssumption ==
    /\ PrefetchOf \in [Subscriptions -> Nat]
    /\ \A s \in Subscriptions : PrefetchOf[s] > 0 => <<QualifierOf[s], PrefetchOf[s]>> \in Keys
    /\ Topics \subseteq Subscriptions /\ Hanging \subseteq Slow /\ Slow \subseteq Subscriptions
    /\ \A k \in Keys : k[2] \in Nat
    /\ MaxUnacked \in Nat

VARIABLES
    setup,       \* the chain of promises of each subscription
    outcome,     \* how the promise that subscribe returned settled
    timer,       \* whether subscriptionTimeout is armed
    waiting,     \* the requests in line on each channel
    nextLimit,   \* the limit the next consumer of each channel gets
    consumer,    \* the broker's consumers
    unacked,     \* messages in progress: pairs of a consumer and a number
    consumers,   \* the consumers shutdown will cancel
    legacy       \* RABBITMQ_PREFETCH is 'legacy': the same for a whole behaviour

vars == <<connection, setup, outcome, timer, waiting, nextLimit, consumer, unacked, consumers,
          legacy>>
broker == <<nextLimit, consumer, legacy>>

Tags == 1..MaxUnacked

Steps == {"exchange", "queue", "bind", "rebind", "limit", "consume", "unlimit"}

TypeOK ==
    /\ ChannelsTypeOK
    /\ setup \in [Subscriptions -> [step: Steps \cup {"idle", "channel", "done", "failed"},
                                    chan: 0..MaxChannels, answered: BOOLEAN]]
    /\ outcome \in [Subscriptions -> {"pending", "resolved", "rejected", "timeout"}]
    /\ timer \in [Subscriptions -> BOOLEAN]
    /\ waiting \in [Promises -> Seq(Subscriptions)]
    /\ \A a \in Promises : IsInjective(waiting[a])
    /\ nextLimit \in [Promises -> Nat]
    /\ consumer \in [Subscriptions -> [active: BOOLEAN, limit: Nat]]
    /\ unacked \subseteq Subscriptions \X Tags
    /\ consumers \subseteq Subscriptions
    /\ legacy \in BOOLEAN

Init ==
    /\ ChannelsInit
    /\ setup = [s \in Subscriptions |-> [step |-> "idle", chan |-> 0, answered |-> FALSE]]
    /\ outcome = [s \in Subscriptions |-> "pending"]
    /\ timer = [s \in Subscriptions |-> FALSE]
    /\ waiting = [a \in Promises |-> <<>>]
    /\ nextLimit = [a \in Promises |-> 0]
    /\ consumer = [s \in Subscriptions |-> [active |-> FALSE, limit |-> 0]]
    /\ unacked = {}
    /\ consumers = {}
    /\ legacy \in BOOLEAN

-----------------------------------------------------------------------------

Mine(s) == promise[setup[s].chan]

(* Mutant: every subscription has the shared channel.                      *)
SharedKey(s) == Shared

ChannelKey(s) == IF PrefetchOf[s] > 0 THEN <<QualifierOf[s], PrefetchOf[s]>> ELSE Shared

Subscribe(s) ==
    /\ setup[s].step = "idle"
    /\ GetChannel(ChannelKey(s))
    /\ setup' = [setup EXCEPT ![s].step = "channel", ![s].chan = Channel(ChannelKey(s))]
    /\ timer' = [timer EXCEPT ![s] = TRUE]
    /\ UNCHANGED <<exchangeCache, faults, outcome, waiting, broker, unacked, consumers>>

(* Mutant: the timer is cleared when the channel is ready.                 *)
TimeoutUntilChannel(s) ==
    /\ timer[s] /\ s \in Slow /\ setup[s].step = "channel"
    /\ timer' = [timer EXCEPT ![s] = FALSE]
    /\ outcome' = [outcome EXCEPT ![s] = "timeout"]
    /\ UNCHANGED <<connection, setup, waiting, broker, unacked, consumers>>

(* The race is lost, the chain goes on.                                    *)
Timeout(s) ==
    /\ timer[s] /\ s \in Slow
    /\ timer' = [timer EXCEPT ![s] = FALSE]
    /\ outcome' = [outcome EXCEPT ![s] = "timeout"]
    /\ UNCHANGED <<connection, setup, waiting, broker, unacked, consumers>>

-----------------------------------------------------------------------------
(* The chain.  Each step sends a request and awaits its answer.            *)

(* Mutant: the limit is reset before the consumer is asked for.            *)
UnlimitedBefore(s) ==
    [channel |-> "exchange", exchange |-> "queue", queue |-> "bind",
     bind |-> IF s \in Topics THEN "rebind" ELSE "limit", rebind |-> "limit",
     limit |-> "unlimit", unlimit |-> "consume", consume |-> "done"]

FollowedBy(s) ==
    [channel |-> "exchange", exchange |-> "queue", queue |-> "bind",
     bind |-> IF s \in Topics THEN "rebind" ELSE "limit", rebind |-> "limit",
     limit |-> "consume", consume |-> "unlimit", unlimit |-> "done"]

(* Its promise settles, and the timer is cleared.                          *)
End(s, step, result) ==
    /\ setup' = [setup EXCEPT ![s].step = step, ![s].answered = FALSE]
    /\ timer' = [timer EXCEPT ![s] = FALSE]
    /\ outcome' = [outcome EXCEPT ![s] = IF @ = "pending" THEN result ELSE @]

Ready(s) ==
    \/ setup[s].step = "channel" /\ Mine(s).stage = "resolved"
    \/ setup[s].step \in Steps /\ setup[s].answered

(* consume-ok is an answer too: the consumer is pushed before the last step. *)
Continue(s) ==
    LET a == setup[s].chan
        next == FollowedBy(s)[setup[s].step] IN
    /\ Ready(s)
    /\ consumers' = IF setup[s].step = "consume" THEN consumers \cup {s} ELSE consumers
    /\ \/ /\ next = "done"
          /\ End(s, "done", "resolved")
          /\ UNCHANGED waiting
       \/ /\ next # "done" /\ promise[a].open
          /\ waiting' = [waiting EXCEPT ![a] = Append(@, s)]
          /\ setup' = [setup EXCEPT ![s].step = next, ![s].answered = FALSE]
          /\ UNCHANGED <<timer, outcome>>
       \/ /\ next # "done" /\ ~promise[a].open
          /\ End(s, "failed", "rejected")
          /\ UNCHANGED waiting
    /\ UNCHANGED <<connection, broker, unacked>>

Rejected(s) ==
    \/ setup[s].step = "channel" /\ Mine(s).stage = "rejected"
    \/ setup[s].step \in Steps /\ ~setup[s].answered /\ ~Mine(s).open

(* Mutant: the error is logged and not thrown again.                       *)
FailSwallowed(s) ==
    /\ Rejected(s)
    /\ End(s, "failed", "resolved")
    /\ UNCHANGED <<connection, waiting, broker, unacked, consumers>>

(* The channel closed, over what this or another subscription asked for.   *)
Fail(s) ==
    /\ Rejected(s)
    /\ End(s, "failed", "rejected")
    /\ UNCHANGED <<connection, waiting, broker, unacked, consumers>>

-----------------------------------------------------------------------------
(* The broker.                                                             *)

(* A request is handled: prefetch sets the limit of the consumers to come. *)
Answer(s) ==
    LET a == setup[s].chan
        step == setup[s].step IN
    /\ setup[s].step \in Steps /\ promise[a].open
    /\ waiting[a] # <<>> /\ Head(waiting[a]) = s
    /\ waiting' = [waiting EXCEPT ![a] = Tail(@)]
    /\ setup' = [setup EXCEPT ![s].answered = TRUE]
    /\ nextLimit' = CASE step = "limit" -> [nextLimit EXCEPT ![a] = PrefetchOf[s]]
                      [] step = "unlimit" -> [nextLimit EXCEPT ![a] = 0]
                      [] OTHER -> nextLimit
    /\ consumer' = IF step = "consume"
                   THEN [consumer EXCEPT ![s] = [active |-> TRUE, limit |-> nextLimit[a]]]
                   ELSE consumer
    /\ UNCHANGED <<connection, outcome, timer, unacked, consumers, legacy>>

Hangs(s) == s \in Hanging /\ setup[s].step \in {"bind", "rebind"}

(* chan.prefetch(prefetch, true), before anything else is asked for, is a  *)
(* limit that the consumers of the channel share.  In legacy mode it is    *)
(* one for each consumer to come, which every subscription sets again      *)
(* before it consumes: the channel has none.                               *)
ChannelLimit(a) == IF legacy THEN 0 ELSE promise[a].key[2]

On(a) == {s \in Subscriptions : setup[s].chan = a /\ consumer[s].active}

Unacked(S) == {u \in unacked : u[1] \in S}
InProgress(a) == Cardinality(Unacked(On(a)))

Consuming(s) == consumer[s].active /\ Mine(s).open

Below(n, limit) == limit = 0 \/ n < limit

(* The number of a message is the lowest free one of its consumer.  (Of    *)
(* those that set no limit the messages do not matter here.)               *)
Deliver(s) ==
    LET a == setup[s].chan IN
    /\ Consuming(s) /\ PrefetchOf[s] > 0
    /\ Below(Cardinality(Unacked({s})), consumer[s].limit) /\ Below(InProgress(a), ChannelLimit(a))
    /\ \E t \in Tags :
          /\ <<s, t>> \notin unacked /\ \A r \in 1..(t - 1) : <<s, r>> \in unacked
          /\ unacked' = unacked \cup {<<s, t>>}
    /\ UNCHANGED <<connection, setup, outcome, timer, waiting, broker, consumers>>

Ack(s) ==
    /\ Consuming(s)
    /\ \E u \in Unacked({s}) : unacked' = unacked \ {u}
    /\ UNCHANGED <<connection, setup, outcome, timer, waiting, broker, consumers>>

(* What closes takes its requests and its consumers along.                 *)
ClosesWithConsumers ==
    /\ ChannelsFault
    /\ waiting' = [a \in Promises |-> IF promise'[a].open THEN waiting[a] ELSE <<>>]
    /\ LET gone == {s \in Subscriptions : consumer[s].active /\ ~promise'[setup[s].chan].open} IN
       /\ consumer' = [s \in Subscriptions |->
                         IF s \in gone THEN [active |-> FALSE, limit |-> 0] ELSE consumer[s]]
       /\ unacked' = unacked \ Unacked(gone)
    /\ nextLimit' = [a \in Promises |-> IF promise'[a].open THEN nextLimit[a] ELSE 0]
    /\ UNCHANGED <<setup, outcome, timer, consumers, legacy>>

-----------------------------------------------------------------------------

ChannelsStep ==
    /\ ChannelsProgress
    /\ UNCHANGED <<setup, outcome, timer, waiting, broker, unacked, consumers>>

Progress ==
    \/ ChannelsStep
    \/ \E s \in Subscriptions :
          \/ Timeout(s) \/ Continue(s) \/ Fail(s)
          \/ ~Hangs(s) /\ Answer(s)

Next ==
    \/ Progress
    \/ \E s \in Subscriptions :
          \/ Subscribe(s) \/ Deliver(s) \/ Ack(s)
          \/ Hangs(s) /\ Answer(s)
    \/ ClosesWithConsumers

(* Timers fire, callbacks run and requests are answered, but for a bind    *)
(* that hangs.  (Each of these happens a bounded number of times, so that  *)
(* fairness for all of them together is fairness for each.)                *)
Spec == Init /\ [][Next]_vars /\ WF_vars(Progress)

-----------------------------------------------------------------------------
(* Properties.                                                             *)

(* The promise of subscribe tells the truth: resolved, the consumer is     *)
(* known to shutdown and there as long as its channel is; rejected, there  *)
(* is none, unless it was the timeout that rejected.  A consumer that came *)
(* up after its timeout is known to shutdown all the same.                 *)
OutcomeIsTrue ==
    \A s \in Subscriptions :
        /\ outcome[s] = "resolved" => s \in consumers /\ (Mine(s).open => consumer[s].active)
        /\ outcome[s] = "rejected" => ~consumer[s].active
        /\ outcome[s] = "timeout" /\ setup[s].step = "done" => s \in consumers

Alone(s) == \A t \in Subscriptions \ {s} : setup[t].chan # setup[s].chan

(* options.prefetch is kept: the subscriptions that share the channel of a *)
(* qualifier set and reset the limit of its consumers in any order, and    *)
(* together never have more messages in progress than each of them asked   *)
(* for.  In legacy mode nothing but these limits holds a consumer back, so *)
(* that it takes a subscription with a channel to itself.                  *)
PrefetchBound ==
    \A s \in Subscriptions : PrefetchOf[s] > 0 /\ (legacy => Alone(s))
        => Cardinality(Unacked({t \in Subscriptions : setup[t].chan = setup[s].chan}))
              <= PrefetchOf[s]

(* "the binding step can hang forever" (src/src/index.js:477): subscribe   *)
(* settles all the same, its own bind hanging or one that is ahead of it.  *)
(* (What has settled stays so: in the end none that was called is pending.) *)
SubscribeSettles ==
    <>[](\A s \in Subscriptions : setup[s].step # "idle" => outcome[s] # "pending")

Together(s, h) ==
    \/ PrefetchOf[s] = 0 /\ PrefetchOf[h] = 0
    \/ PrefetchOf[s] = PrefetchOf[h] /\ QualifierOf[s] = QualifierOf[h]

(* A bind that hangs delays only what shares its channel: another          *)
(* subscription consumes, unless a channel is lost.                        *)
IsolatedSetup ==
    <>[](\A s \in Subscriptions :
            setup[s].step # "idle" /\ (\A h \in Hanging : ~Together(s, h))
                => consumer[s].active \/ faults > 0)

=============================================================================
