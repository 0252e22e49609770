------------------------------- MODULE Routing -------------------------------
(***************************************************************************)
(* Qualifiers, exchanges, queues and bindings: who receives what is        *)
(* published.                                                              *)
(*                                                                         *)
(* A qualifier is the sequence of its segments ('topic/a/b' is             *)
(* <<"topic", "a", "b">>), "" is a segment that is empty or not there, and *)
(* a routing key or the name of a queue is a sequence of segments as well, *)
(* for a name may hold a slash.                                            *)
(***************************************************************************)
EXTENDS Naturals, Sequences, SequencesExt

CONSTANTS
    Subscriptions,       \* functions that are subscribed to, by any service
    ServiceOf,           \* config.serviceName of each
    QualifierOf,         \* the qualifier of each
    ExchangeNameOf,      \* options.exchangeName of each, or ""
    Wildcards,           \* <<pattern, key>>: the keys each topic pattern matches
    DeadLetterQualifier, \* config.deadLetterQualifier
    Dead                 \* the dead-letter queue

(* The consumer of answers (RPC_QUALIFIER, an empty qualifier) is left to  *)
(* Rpc: its queue has a name from the broker, which its qualifier does not *)
(* say, so that nothing published to that qualifier reaches it.            *)
ASSUME RoutingAssumption ==
    /\ \A s \in Subscriptions :
          QualifierOf[s] \in Seq(STRING) /\ QualifierOf[s] # <<>> /\ QualifierOf[s] # <<"">>
    /\ DeadLetterQualifier \in Seq(STRING) /\ DeadLetterQualifier # <<>>
    /\ Dead \notin Subscriptions

-----------------------------------------------------------------------------
(* configs.js.                                                             *)

Segment(q, i) == IF i \in DOMAIN q THEN q[i] ELSE ""

ParseQualifier(q) ==
    CASE q[1] # "fanout" /\ Len(q) = 1 ->
            [type |-> "direct", routingKey |-> q[1], queueName |-> ""]
      [] q[1] = "fanout" /\ Len(q) <= 2 ->
            [type |-> "fanout", routingKey |-> "", queueName |-> Segment(q, 2)]
      [] OTHER ->
            [type |-> IF q[1] = "" THEN "direct" ELSE q[1],
             routingKey |-> Segment(q, 2), queueName |-> Segment(q, 3)]

ExchangesAvailable == {"direct", "headers", "fanout", "topic"}

GetExchangeName(exchangeName, type) ==
    CASE exchangeName # "" -> <<exchangeName>>
      [] exchangeName = "" /\ type \in ExchangesAvailable -> <<"amq", type>>
      [] OTHER -> <<"">>

(* The queue of a subscription; the broker names one of its own for "".    *)
(* Where the routing key is empty the queue is bound with its own name,    *)
(* which nobody publishes to: such a name equals no key here.              *)
GetQueueName(s) ==
    LET o == ParseQualifier(QualifierOf[s]) IN
    CASE o.type = "direct" /\ o.routingKey # "" -> <<o.routingKey>>
      [] o.type # "direct" /\ ServiceOf[s] # "" /\ o.queueName # "" ->
            <<ServiceOf[s], o.queueName>>
      [] OTHER -> <<"amq.gen", s>>

-----------------------------------------------------------------------------
(* subscribe and publish.                                                  *)

TypeOf(s) == ParseQualifier(QualifierOf[s]).type

(* Mutant: a topic is not bound a second time, for its retries.            *)
BindingsOnce(s) ==
    LET key == ParseQualifier(QualifierOf[s]).routingKey
    IN  {IF key # "" THEN <<key>> ELSE GetQueueName(s)}

Bindings(s) ==
    LET key == ParseQualifier(QualifierOf[s]).routingKey
    IN  {IF key # "" THEN <<key>> ELSE GetQueueName(s)}
        \cup (IF QualifierOf[s][1] = "topic" /\ Len(QualifierOf[s]) > 1
              THEN {<<Last(QualifierOf[s])>>} ELSE {})

(* Mutant: all of a topic qualifier is kept.                               *)
DestinationWhole(q) == q

(* Of a topic qualifier publish keeps the last segment.                    *)
Destination(q) == IF q[1] = "topic" /\ Len(q) > 1 THEN <<"topic", Last(q)>> ELSE q

(* The broker: what a message published to an exchange with a key reaches. *)
Matches(type, binding, key) ==
    CASE type = "fanout" -> TRUE
      [] type = "topic" -> binding = key \/ <<binding, key>> \in Wildcards
      [] OTHER -> binding = key

ExchangeOf(s) == GetExchangeName(ExchangeNameOf[s], TypeOf(s))

(* Mutant: the dead-letter queue is declared, and not bound.               *)
ReceiversUnbound(exchange, key) ==
    {s \in Subscriptions : ExchangeOf(s) = exchange
                           /\ \E b \in Bindings(s) : Matches(TypeOf(s), b, key)}

(* getChannel binds the dead-letter queue to amq.direct under its own name. *)
Receivers(exchange, key) ==
    {s \in Subscriptions : ExchangeOf(s) = exchange
                           /\ \E b \in Bindings(s) : Matches(TypeOf(s), b, key)}
    \cup (IF exchange = <<"amq", "direct">> /\ key = DeadLetterQualifier THEN {Dead} ELSE {})

Published(q, exchangeName) ==
    LET o == ParseQualifier(Destination(q))
    IN  [exchange |-> GetExchangeName(exchangeName, o.type), key |-> <<o.routingKey>>]

ReceiversOf(q, exchangeName) ==
    LET p == Published(q, exchangeName) IN Receivers(p.exchange, p.key)

-----------------------------------------------------------------------------

(* Processes that consume one queue are one subscription, and no function  *)
(* consumes the dead-letter queue (one that does is in Delivery).  The     *)
(* broker refuses to declare an exchange again with another type.          *)
ASSUME BrokerAssumption ==
    /\ \A s \in Subscriptions : GetQueueName(s) # DeadLetterQualifier
    /\ \A r, s \in Subscriptions :
          /\ GetQueueName(r) = GetQueueName(s) => r = s
          /\ ExchangeOf(r) = ExchangeOf(s) /\ ExchangeOf(s) # <<"">> => TypeOf(r) = TypeOf(s)

(* A subscription that no retry of another reaches: a direct one, or a     *)
(* topic that no other's name matches.  Dead letters do not go there       *)
(* either.                                                                 *)
Unambiguous(s) ==
    LET others == {r \in Subscriptions \ {s} : ExchangeOf(r) = ExchangeOf(s)}
    IN  /\ \/ TypeOf(s) = "direct"
           \/ /\ TypeOf(s) = "topic"
              /\ \A r \in others, b \in Bindings(s) :
                    ~Matches("topic", b, <<Last(QualifierOf[r])>>)
        /\ s \notin ReceiversOf(DeadLetterQualifier, "")

=============================================================================
