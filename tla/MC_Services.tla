---------------------------- MODULE MC_Services ----------------------------
(* Instances of Services for TLC.  Service A has the function d of a       *)
(* direct exchange and the function t of a topic, service B the topic u    *)
(* and both an autodoc agent.  A message is published to d, one to the     *)
(* topic; the master and the gateway ask the agents, of which that of B    *)
(* does not know what the gateway asks.                                    *)
EXTENDS Services

CONSTANTS d, t, u, a, b, toD, toT, master, gateway

AllSubscriptions == {d, t, u, a, b}
OnlyDirect == {d}

ServiceNames == [s \in Subscriptions |-> IF s \in {u, b} THEN "B" ELSE "A"]

Qualifiers == [s \in Subscriptions |->
    CASE s = d -> <<"direct", "f">>
      [] s = t -> <<"topic", "hello.*", "fn">>
      [] s = u -> <<"topic", "hello.world", "gn">>
      [] OTHER -> <<"fanout">>]

ExchangeNames == [s \in Subscriptions |-> IF s \in {a, b} THEN "carotte.fanout" ELSE ""]

HelloMatches == {<<<<"hello.*">>, <<"hello.world">>>>}

OldAgent == {<<b, gateway>>}

BareName == <<"dead-letter">>
ReadmeName == <<"direct", "dead-letter">>

Targets == [o \in Origins |->
    CASE o = toD -> [qualifier |-> <<"f">>, exchangeName |-> ""]
      [] o = toT -> [qualifier |-> <<"topic", "hello.world">>, exchangeName |-> ""]
      [] OTHER -> [qualifier |-> <<"fanout">>, exchangeName |-> "carotte.fanout"]]

(* d backs off, and its delays fit the timer; that of u does not.          *)
Retries == [s \in Subscriptions |->
    CASE s = d -> [max |-> 2, strategy |-> "exponential", interval |-> 2, jitter |-> 2]
      [] s = t -> [max |-> 0, strategy |-> "direct", interval |-> 0, jitter |-> 0]
      [] s = u -> [max |-> 1, strategy |-> "direct", interval |-> 9, jitter |-> 0]
      [] OTHER -> [max |-> 1, strategy |-> "direct", interval |-> 0, jitter |-> 0]]
=============================================================================
