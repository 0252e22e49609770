--------------------------- MODULE SubscriptionInv ---------------------------
(* The inductive invariants behind the safety properties of Subscription.  *)
EXTENDS Subscription, ChannelsInv

(* A subscription has the channel that it asked for, resolved once used.   *)
OwnChannel ==
    \A s \in Subscriptions :
        /\ setup[s].step # "idle" => setup[s].chan \in 1..created
        /\ setup[s].step \in Steps \cup {"done"} => Mine(s).stage = "resolved"

(* What is in line on a channel awaits its answer there, and the channel   *)
(* is open: none is answered twice, and none after its channel closed.     *)
InLine ==
    \A a \in Promises : \A i \in DOMAIN waiting[a] :
        /\ setup[waiting[a][i]].step \in Steps /\ ~setup[waiting[a][i]].answered
        /\ setup[waiting[a][i]].chan = a
        /\ promise[a].open

(* The broker has a consumer from consume-ok on, for as long as the        *)
(* channel is open, and shutdown knows of it one step later.               *)
Consumes(s) ==
    \/ setup[s].step = "consume" /\ setup[s].answered
    \/ setup[s].step \in {"unlimit", "done"}

ConsumerIsUp ==
    \A s \in Subscriptions :
        /\ consumer[s].active <=> Consumes(s) /\ Mine(s).open
        /\ setup[s].step \in {"unlimit", "done"} => s \in consumers

(* Only the end of the chain resolves or, but for the timeout, rejects.    *)
OutcomeOfEnd ==
    \A s \in Subscriptions :
        /\ outcome[s] = "resolved" => setup[s].step = "done"
        /\ outcome[s] = "rejected" => setup[s].step = "failed"

(* The messages in progress are those of consumers that are there.         *)
UnackedOfActive ==
    /\ IsFiniteSet(unacked)
    /\ \A u \in unacked : consumer[u[1]].active

(* What keeps the prefetch, but for legacy mode: the consumers of a channel *)
(* share its limit.                                                        *)
SharedBound ==
    \A a \in Promises : promise[a].open /\ ChannelLimit(a) > 0
        => InProgress(a) <= ChannelLimit(a)

SetupInv ==
    /\ TypeOK
    /\ ChannelsInv
    /\ OwnChannel
    /\ InLine
    /\ ConsumerIsUp
    /\ OutcomeOfEnd
    /\ UnackedOfActive
    /\ SharedBound

-----------------------------------------------------------------------------

(* The channel has the prefetch that was asked for in its key.             *)
OwnKey ==
    \A s \in Subscriptions :
        IF setup[s].step = "idle" THEN setup[s].chan = 0 ELSE Mine(s).key = ChannelKey(s)

(* From prefetch-ok to consume-ok the next consumer of a channel that no   *)
(* other subscription uses gets the limit s set, and it keeps that limit.  *)
Limited(s) ==
    \/ setup[s].step = "limit" /\ setup[s].answered
    \/ setup[s].step = "consume" /\ ~setup[s].answered

LimitOf(s) ==
    setup[s].step \in Steps \cup {"done"} /\ Alone(s) /\ Mine(s).open =>
        /\ Limited(s) => nextLimit[setup[s].chan] = PrefetchOf[s]
        /\ consumer[s].active => consumer[s].limit = PrefetchOf[s]

OwnLimit == \A s \in Subscriptions : LimitOf(s)

(* The broker keeps the limit of each consumer.                            *)
ConsumerBound ==
    \A s \in Subscriptions :
        consumer[s].limit > 0 => Cardinality(Unacked({s})) <= consumer[s].limit

LimitInv == OwnKey /\ OwnLimit /\ ConsumerBound
=============================================================================
