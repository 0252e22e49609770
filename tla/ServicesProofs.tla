--------------------------- MODULE ServicesProofs ---------------------------
(* Theorems about Services, for every value of its constants: any services,*)
(* qualifiers, retry options, messages and autodoc requests.               *)
EXTENDS ServicesInv, Integers, FiniteSetTheorems, TLAPS

-----------------------------------------------------------------------------
(* Routing.                                                                *)

LEMMA Segments ==
    ASSUME NEW q \in Seq(STRING), q # <<>>
    PROVE  /\ Len(q) \in Nat /\ Len(q) > 0 /\ DOMAIN q = 1..Len(q)
           /\ q[1] \in STRING /\ q[Len(q)] \in STRING
OBVIOUS

LEMMA Parsed ==
    ASSUME NEW q \in Seq(STRING), q # <<>>
    PROVE  /\ q[1] # "fanout" /\ Len(q) = 1 =>
                 ParseQualifier(q).type = "direct" /\ ParseQualifier(q).routingKey = q[1]
           /\ q[1] = "topic" /\ Len(q) > 1 =>
                 ParseQualifier(q).type = "topic" /\ ParseQualifier(q).routingKey = q[2]
           /\ ParseQualifier(q).type = "topic" => q[1] = "topic" /\ Len(q) > 1
<1>1. CASE q[1] # "fanout" /\ Len(q) = 1
  BY <1>1 DEF ParseQualifier
<1>2. CASE q[1] = "fanout" /\ Len(q) <= 2
  BY <1>2 DEF ParseQualifier
<1>3. CASE ~(q[1] # "fanout" /\ Len(q) = 1) /\ ~(q[1] = "fanout" /\ Len(q) <= 2)
  <2> DEFINE type == IF q[1] = "" THEN "direct" ELSE q[1]
  <2>1. ParseQualifier(q) =
            [type |-> type, routingKey |-> Segment(q, 2), queueName |-> Segment(q, 3)]
    BY <1>3 DEF ParseQualifier
  <2>2. Len(q) > 1 => Segment(q, 2) = q[2]
    <3>1. Len(q) > 1 => 2 \in DOMAIN q
      BY Segments
    <3> QED
      BY <3>1 DEF Segment
  <2>3. q[1] = "topic" <=> type = "topic"
    <3>1. CASE q[1] = ""
      <4>1. type = "direct"
        BY <3>1, Zenon
      <4> QED
        BY <3>1, <4>1
    <3>2. CASE q[1] # ""
      <4>1. type = q[1]
        BY <3>2, Zenon
      <4> QED
        BY <4>1
    <3> QED
      BY <3>1, <3>2
  <2> HIDE DEF type
  <2>4. ParseQualifier(q).type = type /\ ParseQualifier(q).routingKey = Segment(q, 2)
    BY <2>1
  <2>5. Len(q) \in Nat /\ Len(q) > 0
    BY Segments
  <2>6. ~(q[1] # "fanout" /\ Len(q) = 1)
    BY <1>3
  <2>7. q[1] = "topic" => Len(q) > 1
    <3>1. q[1] = "topic" => Len(q) # 1
      BY <2>6
    <3>2. \A n \in Nat : n > 0 /\ n # 1 => n > 1
      OBVIOUS
    <3> QED
      BY <2>5, <3>1, <3>2, Zenon
  <2> QED
    BY <2>2, <2>3, <2>4, <2>6, <2>7, Zenon
<1> QED
  BY <1>1, <1>2, <1>3

(* Publish keeps the exchange, and the last segment of a topic.            *)
LEMMA Sent ==
    ASSUME NEW q \in Seq(STRING), q # <<>>, NEW e
    PROVE  /\ Published(q, e).exchange = GetExchangeName(e, ParseQualifier(q).type)
           /\ Published(q, e).key =
                 <<IF ParseQualifier(q).type = "topic" THEN Last(q)
                   ELSE ParseQualifier(q).routingKey>>
<1>1. CASE ParseQualifier(q).type = "topic"
  <2>1. q[1] = "topic" /\ Len(q) > 1
    BY <1>1, Parsed
  <2>2. Destination(q) = <<"topic", Last(q)>> /\ <<"topic", Last(q)>> \in Seq(STRING)
    BY <2>1, Segments DEF Destination, Last
  <2>3. ParseQualifier(<<"topic", Last(q)>>).type = "topic"
        /\ ParseQualifier(<<"topic", Last(q)>>).routingKey = Last(q)
    <3> DEFINE d == <<"topic", Last(q)>>
    <3>1. d \in Seq(STRING) /\ d # <<>> /\ Len(d) = 2 /\ d[1] = "topic" /\ d[2] = Last(q)
      BY <2>2
    <3> HIDE DEF d
    <3>2. Len(d) > 1
      BY <3>1
    <3> QED
      BY <3>1, <3>2, Parsed DEF d
  <2> QED
    BY <1>1, <2>2, <2>3 DEF Published
<1>2. CASE ParseQualifier(q).type # "topic"
  BY <1>2, Parsed DEF Destination, Published
<1> QED
  BY <1>1, <1>2

(* What a subscription without a routing key is bound with is no key.      *)
LEMMA Bound ==
    ASSUME NEW s \in Subscriptions
    PROVE  /\ ParseQualifier(QualifierOf[s]).routingKey # "" =>
                 <<ParseQualifier(QualifierOf[s]).routingKey>> \in Bindings(s)
           /\ TypeOf(s) = "topic" => <<Last(QualifierOf[s])>> \in Bindings(s)
           /\ Bindings(s) # {}
           /\ TypeOf(s) # "topic" =>
                 \A b \in Bindings(s) : \A x : b = <<x>> =>
                     x = ParseQualifier(QualifierOf[s]).routingKey /\ x # ""
           /\ TypeOf(s) = "direct" /\ ParseQualifier(QualifierOf[s]).routingKey # "" =>
                 GetQueueName(s) = <<ParseQualifier(QualifierOf[s]).routingKey>>
<1> DEFINE q == QualifierOf[s]
<1> DEFINE key == ParseQualifier(q).routingKey
<1>1. q \in Seq(STRING) /\ q # <<>>
  BY RoutingAssumption
<1>2. TypeOf(s) = "topic" <=> q[1] = "topic" /\ Len(q) > 1
  BY <1>1, Parsed DEF TypeOf
<1>3. Bindings(s) = {IF key # "" THEN <<key>> ELSE GetQueueName(s)}
                    \cup (IF TypeOf(s) = "topic" THEN {<<Last(q)>>} ELSE {})
  BY <1>2 DEF Bindings
<1>4. ASSUME key = "", NEW x PROVE GetQueueName(s) # <<x>>
  <2>1. GetQueueName(s) = <<ServiceOf[s], ParseQualifier(q).queueName>>
        \/ GetQueueName(s) = <<"amq.gen", s>>
    BY <1>4 DEF GetQueueName
  <2> QED
    BY <2>1
<1>5. TypeOf(s) = "direct" /\ key # "" => GetQueueName(s) = <<key>>
  BY DEF GetQueueName, TypeOf
<1>6. ASSUME NEW b \in Bindings(s), NEW x, TypeOf(s) # "topic", b = <<x>>
      PROVE  x = key /\ x # ""
  <2>1. b = IF key # "" THEN <<key>> ELSE GetQueueName(s)
    BY <1>3, <1>6
  <2>2. key # ""
    BY <1>4, <1>6, <2>1
  <2>3. <<key>> = <<x>>
    BY <1>6, <2>1, <2>2
  <2> QED
    BY <2>2, <2>3
<1>7. /\ key # "" => <<key>> \in Bindings(s)
      /\ TypeOf(s) = "topic" => <<Last(q)>> \in Bindings(s)
      /\ Bindings(s) # {}
  BY <1>3
<1>8. TypeOf(s) # "topic" => \A b \in Bindings(s) : \A x : b = <<x>> => x = key /\ x # ""
  BY <1>6
<1> QED
  BY <1>5, <1>7, <1>8

(* Who receives what is published.                                         *)
LEMMA Received ==
    ASSUME NEW q \in Seq(STRING), q # <<>>, NEW e,
           NEW s \in Subscriptions
    PROVE  s \in ReceiversOf(q, e) <=>
              /\ ExchangeOf(s) = GetExchangeName(e, ParseQualifier(q).type)
              /\ \E b \in Bindings(s) :
                    Matches(TypeOf(s), b,
                        <<IF ParseQualifier(q).type = "topic" THEN Last(q)
                          ELSE ParseQualifier(q).routingKey>>)
<1>1. s # Dead
  BY RoutingAssumption
<1> DEFINE p == Published(q, e)
<1>2. ReceiversOf(q, e) = Receivers(p.exchange, p.key)
  BY DEF ReceiversOf
<1>4. /\ p.exchange = GetExchangeName(e, ParseQualifier(q).type)
      /\ p.key = <<IF ParseQualifier(q).type = "topic" THEN Last(q)
                   ELSE ParseQualifier(q).routingKey>>
  BY Sent
<1> HIDE DEF p
<1>3. s \in Receivers(p.exchange, p.key) <=>
         ExchangeOf(s) = p.exchange /\ \E b \in Bindings(s) : Matches(TypeOf(s), b, p.key)
  BY <1>1 DEF Receivers
<1> QED
  BY <1>2, <1>3, <1>4, Zenon

LEMMA ReceiversAre ==
    ASSUME NEW q, NEW e
    PROVE  ReceiversOf(q, e) \subseteq Subscriptions \cup {Dead}
BY DEF ReceiversOf, Receivers

(* Whoever receives a message receives its own retries.                    *)
LEMMA ReceivesItsRetries ==
    ASSUME NEW q \in Seq(STRING), q # <<>>, NEW e,
           NEW s \in Subscriptions, s \in ReceiversOf(q, e)
    PROVE  s \in ReceiversOf(QualifierOf[s], ExchangeNameOf[s])
<1> DEFINE Q == QualifierOf[s]
<1> DEFINE key == ParseQualifier(Q).routingKey
<1> DEFINE own == <<IF TypeOf(s) = "topic" THEN Last(Q) ELSE key>>
<1>1. Q \in Seq(STRING) /\ Q # <<>>
  BY RoutingAssumption
<1>2. PICK x : \E b \in Bindings(s) : Matches(TypeOf(s), b, <<x>>)
  BY Received
<1>3. \E b \in Bindings(s) : Matches(TypeOf(s), b, own)
  <2>1. CASE TypeOf(s) = "fanout"
    BY <2>1, Bound DEF Matches
  <2>2. CASE TypeOf(s) = "topic"
    <3>1. own = <<Last(Q)>>
      BY <2>2
    <3>2. <<Last(Q)>> \in Bindings(s)
      BY <2>2, Bound
    <3> HIDE DEF own
    <3> QED
      BY <2>2, <3>1, <3>2 DEF Matches
  <2>3. CASE TypeOf(s) # "fanout" /\ TypeOf(s) # "topic"
    <3>1. PICK b \in Bindings(s) : b = <<x>>
      BY <1>2, <2>3 DEF Matches
    <3>2. key # ""
      BY <2>3, <3>1, Bound
    <3>3. own = <<key>> /\ <<key>> \in Bindings(s)
      BY <2>3, <3>2, Bound
    <3> HIDE DEF own, key
    <3> QED
      BY <2>3, <3>3 DEF Matches
  <2> QED
    BY <2>1, <2>2, <2>3
<1>4. ExchangeOf(s) = GetExchangeName(ExchangeNameOf[s], ParseQualifier(Q).type)
      /\ TypeOf(s) = ParseQualifier(Q).type
  BY DEF ExchangeOf, TypeOf
<1> QED
  BY <1>1, <1>3, <1>4, Received

(* No retry of another reaches a subscription that is unambiguous.         *)
LEMMA ReceivesNoOthers ==
    ASSUME NEW r \in Subscriptions, NEW s \in Subscriptions, Unambiguous(s),
           s \in ReceiversOf(QualifierOf[r], ExchangeNameOf[r])
    PROVE  r = s
<1> DEFINE Q == QualifierOf[r]
<1> SUFFICES ASSUME r # s PROVE FALSE
  OBVIOUS
<1>1. Q \in Seq(STRING) /\ Q # <<>>
  BY RoutingAssumption
<1>2. /\ ExchangeOf(s) = GetExchangeName(ExchangeNameOf[r], ParseQualifier(Q).type)
      /\ \E b \in Bindings(s) :
            Matches(TypeOf(s), b, <<IF ParseQualifier(Q).type = "topic" THEN Last(Q)
                                    ELSE ParseQualifier(Q).routingKey>>)
  BY <1>1, Received
<1>3. ExchangeOf(s) = ExchangeOf(r)
  BY <1>2 DEF ExchangeOf, TypeOf
<1>4. TypeOf(s) \in {"direct", "topic"}
  BY DEF Unambiguous
<1>5. ExchangeOf(s) # <<"">>
  BY <1>4 DEF ExchangeOf, GetExchangeName, ExchangesAvailable
<1>6. TypeOf(r) = TypeOf(s)
  BY <1>3, <1>5, BrokerAssumption
<1>7. CASE TypeOf(s) = "direct"
  <2> DEFINE key == ParseQualifier(Q).routingKey
  <2>1. \E b \in Bindings(s) : b = <<key>>
    BY <1>2, <1>6, <1>7 DEF Matches, TypeOf
  <2> HIDE DEF key
  <2>2. key = ParseQualifier(QualifierOf[s]).routingKey /\ key # ""
    BY <1>7, <2>1, Bound
  <2>3. GetQueueName(s) = <<key>> /\ GetQueueName(r) = <<key>>
    BY <1>6, <1>7, <2>2, Bound DEF key
  <2> QED
    BY <2>3, BrokerAssumption
<1>8. CASE TypeOf(s) = "topic"
  <2>1. \E b \in Bindings(s) : Matches("topic", b, <<Last(Q)>>)
    BY <1>2, <1>6, <1>8 DEF TypeOf
  <2> QED
    BY <1>3, <1>8, <2>1 DEF Unambiguous
<1> QED
  BY <1>4, <1>7, <1>8

-----------------------------------------------------------------------------
(* Bags, and powers of two.                                                *)

LEMMA ReplaceCounts ==
    ASSUME NEW B, IsABag(B), NEW k, BagIn(k, B), NEW S,
           NEW C, C = (B (-) SetToBag({k})) (+) SetToBag(S)
    PROVE  /\ IsABag(C)
           /\ BagToSet(C) \subseteq BagToSet(B) \cup S
           /\ S \subseteq BagToSet(C)
           /\ BagToSet(B) \ {k} \subseteq BagToSet(C)
           /\ \A x \in BagToSet(C) \ S :
                 x \in BagToSet(B) /\ C[x] <= B[x] /\ (x = k => B[k] > 1)
           /\ \A x \in S : x \notin BagToSet(B) \/ (x = k /\ B[k] = 1) => C[x] = 1
BY DEF IsABag, BagIn, BagToSet, SetToBag, (-), (+)

LEMMA AddCounts ==
    ASSUME NEW B, IsABag(B), NEW S, NEW C, C = B (+) SetToBag(S)
    PROVE  /\ IsABag(C)
           /\ BagToSet(C) = BagToSet(B) \cup S
           /\ \A x \in BagToSet(C) \ S : C[x] = B[x]
           /\ \A x \in S \ BagToSet(B) : C[x] = 1
BY DEF IsABag, BagToSet, SetToBag, (+)

LEMMA PowerIsNatural ==
    ASSUME NEW n \in Nat
    PROVE  /\ IsFiniteSet(SUBSET (1..n))
           /\ Cardinality(SUBSET (1..n)) = 2^n
           /\ 2^n \in Nat
<1>1. IsFiniteSet(1..n) /\ Cardinality(1..n) = n
  <2>1. 1 \in Int /\ n \in Int
    OBVIOUS
  <2>2. IsFiniteSet(1..n) /\ Cardinality(1..n) = IF 1 > n THEN 0 ELSE n-1+1
    BY <2>1, FS_Interval, Zenon
  <2> QED
    BY <2>2
<1> DEFINE I == 1..n
<1>2. IsFiniteSet(I) /\ Cardinality(I) = n
  BY <1>1
<1> HIDE DEF I
<1>3. IsFiniteSet(SUBSET I) /\ Cardinality(SUBSET I) = 2^Cardinality(I)
  BY <1>2, FS_SUBSET
<1>4. Cardinality(SUBSET I) \in Nat
  BY <1>3, FS_CardinalityType
<1>5. Cardinality(SUBSET I) = 2^n
  BY <1>2, <1>3, Zenon
<1> QED
  BY <1>3, <1>4, <1>5, Zenon DEF I

LEMMA PowersOrdered ==
    ASSUME NEW n \in Nat, NEW m \in 0..n
    PROVE  2^m <= 2^n
<1>1. m \in Nat /\ 1..m \subseteq 1..n
  OBVIOUS
<1>2. SUBSET (1..m) \subseteq SUBSET (1..n)
  BY <1>1, Zenon
<1>3. Cardinality(SUBSET (1..m)) <= Cardinality(SUBSET (1..n))
  BY <1>2, PowerIsNatural, FS_Subset, Zenon
<1> QED
  BY <1>1, <1>3, PowerIsNatural, Zenon

-----------------------------------------------------------------------------
(* The copies.                                                             *)

LEMMA CopyType ==
    ASSUME NEW k \in Copy
    PROVE  /\ k.origin \in Origins /\ k.at \in Subscriptions \cup {Dead}
           /\ k.count \in Nat /\ k.jitter \in Nat
           /\ k.pace \in Subscriptions \cup {Dead}
           /\ k.waits \in BOOLEAN /\ k.delay \in 0..MaxTimeout
BY DEF Copy

LEMMA RetryType ==
    ASSUME NEW s \in Subscriptions
    PROVE  /\ RetryOf[s].max \in Nat /\ RetryOf[s].interval \in Nat
           /\ RetryOf[s].jitter \in Nat
BY ServicesAssumption DEF Retry

LEMMA Incremented ==
    ASSUME NEW k \in Copy, k.at \in Subscriptions
    PROVE  /\ Increment(k) \in Copy
           /\ Increment(k).origin = k.origin /\ Increment(k).at = k.at
           /\ Increment(k).count = k.count + 1
           /\ Increment(k).pace = IF k.pace = Dead THEN k.at ELSE k.pace
           /\ Increment(k).jitter = IF k.jitter = 0 THEN RetryOf[k.at].jitter ELSE k.jitter
<1> DEFINE p == IF k.pace = Dead THEN k.at ELSE k.pace
<1> DEFINE j == IF k.jitter = 0 THEN RetryOf[k.at].jitter ELSE k.jitter
<1>1. k.count + 1 \in Nat /\ p \in Subscriptions \cup {Dead} /\ j \in Nat
  BY CopyType, RetryType
<1>2. Increment(k) = [k EXCEPT !.count = k.count + 1, !.pace = p, !.jitter = j]
  BY DEF Increment, Copy
<1> HIDE DEF p, j
<1>3. /\ Increment(k) \in Copy
      /\ Increment(k).origin = k.origin /\ Increment(k).at = k.at
      /\ Increment(k).count = k.count + 1
      /\ Increment(k).pace = p /\ Increment(k).jitter = j
  BY <1>1, <1>2 DEF Copy
<1> QED
  BY <1>3 DEF p, j

LEMMA BackOffType ==
    ASSUME NEW s \in Subscriptions, NEW n \in Nat, n > 0
    PROVE  BackOff(RetryOf[s], n) \in Nat
<1>1. n - 1 \in Nat
  OBVIOUS
<1>2. 2^(n - 1) \in Nat
  BY <1>1, PowerIsNatural
<1>3. 2^(n - 1) * RetryOf[s].interval \in Nat
  <2>1. \A a, b \in Nat : a * b \in Nat
    OBVIOUS
  <2> QED
    BY <1>2, <2>1, RetryType, Zenon
<1> QED
  BY <1>3, RetryType, Zenon DEF BackOff

LEMMA NextCallType ==
    ASSUME NEW k \in Copy, k.pace \in Subscriptions, k.count > 0, NEW d \in ComputeNextCall(k)
    PROVE  d \in 0..MaxTimeout
<1> DEFINE wait == BackOff(RetryOf[k.pace], k.count)
<1>1. wait \in Nat
  BY CopyType, BackOffType
<1> HIDE DEF wait
<1>2. PICK j \in Jitters(k.jitter) : d = SetTimeout(wait + j)
  BY DEF ComputeNextCall, wait
<1>3. j \in Nat
  BY <1>2, CopyType DEF Jitters
<1> QED
  BY <1>1, <1>2, <1>3, ServicesAssumption DEF SetTimeout

(* A retry that is delayed.                                                *)
Delayed(k, d) == [Increment(k) EXCEPT !.waits = TRUE, !.delay = d]

LEMMA DelayedType ==
    ASSUME NEW k \in Copy, k.at \in Subscriptions, NEW d \in ComputeNextCall(Increment(k))
    PROVE  /\ Delayed(k, d) \in Copy
           /\ Delayed(k, d).origin = k.origin /\ Delayed(k, d).at = k.at
           /\ Delayed(k, d).count = k.count + 1
           /\ Delayed(k, d).pace = IF k.pace = Dead THEN k.at ELSE k.pace
           /\ Delayed(k, d).jitter = IF k.jitter = 0 THEN RetryOf[k.at].jitter ELSE k.jitter
           /\ Delayed(k, d).waits /\ Delayed(k, d).delay = d
<1> DEFINE i == Increment(k)
<1>1. /\ i \in Copy /\ i.origin = k.origin /\ i.at = k.at /\ i.count = k.count + 1
      /\ i.pace = IF k.pace = Dead THEN k.at ELSE k.pace
      /\ i.jitter = IF k.jitter = 0 THEN RetryOf[k.at].jitter ELSE k.jitter
  BY Incremented
<1>2. i.pace \in Subscriptions /\ i.count > 0
  BY <1>1, CopyType
<1>3. d \in 0..MaxTimeout
  BY <1>1, <1>2, NextCallType
<1>4. Delayed(k, d) = [i EXCEPT !.waits = TRUE, !.delay = d]
  BY DEF Delayed
<1> HIDE DEF i
<1> QED
  BY <1>1, <1>3, <1>4 DEF Copy

(* A copy that is sent again, or that is a dead letter.                    *)
Resent(k, s) == [k EXCEPT !.at = s, !.waits = FALSE, !.delay = 0]
Resents(k) == {Resent(k, s) : s \in ReceiversOf(QualifierOf[k.at], ExchangeNameOf[k.at])}
DeadLetter(k, s) == [k EXCEPT !.at = s]
DeadLetters(k) == {DeadLetter(k, s) : s \in ReceiversOf(DeadLetterQualifier, "")}

LEMMA ResentType ==
    ASSUME NEW k \in Copy, NEW x \in Resents(k)
    PROVE  /\ x \in Copy /\ x.origin = k.origin /\ x.pace = k.pace /\ x.jitter = k.jitter
           /\ ~x.waits
           /\ x.at \in ReceiversOf(QualifierOf[k.at], ExchangeNameOf[k.at])
           /\ x = Resent(k, x.at)
<1>1. PICK s \in ReceiversOf(QualifierOf[k.at], ExchangeNameOf[k.at]) : x = Resent(k, s)
  BY DEF Resents
<1>2. s \in Subscriptions \cup {Dead}
  BY ReceiversAre
<1>3. 0 \in 0..MaxTimeout
  BY ServicesAssumption
<1> QED
  BY <1>1, <1>2, <1>3 DEF Copy, Resent

LEMMA DeadLetterType ==
    ASSUME NEW k \in Copy, NEW x \in DeadLetters(k)
    PROVE  /\ x \in Copy /\ x.origin = k.origin /\ x.waits = k.waits
           /\ x.at \in ReceiversOf(DeadLetterQualifier, "")
<1>1. PICK s \in ReceiversOf(DeadLetterQualifier, "") : x = DeadLetter(k, s)
  BY DEF DeadLetters
<1>2. s \in Subscriptions \cup {Dead}
  BY ReceiversAre
<1> QED
  BY <1>1, <1>2 DEF Copy, DeadLetter

LEMMA NewType ==
    ASSUME NEW o \in Origins, NEW s \in Subscriptions \cup {Dead}
    PROVE  /\ New(o, s) \in Copy /\ New(o, s).origin = o /\ New(o, s).at = s
           /\ New(o, s).count = 0 /\ New(o, s).jitter = 0 /\ New(o, s).pace = Dead
           /\ ~New(o, s).waits
<1>1. 0 \in 0..MaxTimeout
  BY ServicesAssumption
<1> QED
  BY <1>1 DEF New, Copy

NewCopies(o) ==
    {New(o, s) : s \in ReceiversOf(PublishedTo[o].qualifier, PublishedTo[o].exchangeName)}

LEMMA NewCopyType ==
    ASSUME NEW o \in Origins, NEW x \in NewCopies(o)
    PROVE  /\ x \in Copy /\ x.origin = o
           /\ x.at \in ReceiversOf(PublishedTo[o].qualifier, PublishedTo[o].exchangeName)
           /\ x.count = 0 /\ x.jitter = 0 /\ x.pace = Dead /\ ~x.waits
           /\ x = New(o, x.at)
BY NewType, ReceiversAre DEF NewCopies

-----------------------------------------------------------------------------
(* What a step does to the copies: they are published, sent again,         *)
(* delayed, given up or handled.                                           *)

Sends(o) ==
    /\ o \in Origins \ published
    /\ published' = published \cup {o}
    /\ copies' = copies (+) SetToBag(NewCopies(o))
    /\ UNCHANGED concluded

SendsAgain(k) == k.waits /\ Replace(k, Resents(k)) /\ UNCHANGED concluded

Delays(k) ==
    /\ ~k.waits /\ k.at # Dead
    /\ k.count + 1 <= RetryOf[k.at].max
    /\ \E d \in ComputeNextCall(Increment(k)) : Replace(k, {Delayed(k, d)})
    /\ UNCHANGED concluded

GivesUp(k) ==
    ~k.waits /\ k.at # Dead /\ Replace(k, DeadLetters(k)) /\ Conclude(k, "givenUp")

Ends(k) == ~k.waits /\ k.at # Dead /\ Replace(k, {}) /\ Conclude(k, "handled")

Moves(k) ==
    /\ k \in BagToSet(copies) /\ UNCHANGED published
    /\ SendsAgain(k) \/ Delays(k) \/ GivesUp(k) \/ Ends(k)

LEMMA RetryMoves ==
    ASSUME NEW k \in BagToSet(copies), Ready(k), HandleRetry(k), UNCHANGED published
    PROVE  Moves(k)
BY DEF Ready, HandleRetry, Moves, Delays, GivesUp, Delayed, DeadLetter, DeadLetters

LEMMA SuccessMoves ==
    ASSUME NEW k \in BagToSet(copies), Ready(k), Succeed(k), UNCHANGED published
    PROVE  Moves(k)
BY DEF Ready, Succeed, Moves, Ends

LEMMA StepsMove ==
    ASSUME Next
    PROVE  (\E o \in Origins : Sends(o)) \/ (\E k : Moves(k))
<1>1. ASSUME NEW o \in Origins, Publish(o) PROVE Sends(o)
  BY <1>1 DEF Publish, Sends, NewCopies
<1>2. ASSUME NEW k \in BagToSet(copies), Republish(k) PROVE Moves(k)
  BY <1>2 DEF Republish, Moves, SendsAgain, Resents, Resent
<1>3. ASSUME NEW k \in BagToSet(copies),
             Handle(k) \/ HandlerThrows(k) \/ AnswerMaster(k) \/ AgentThrows(k) \/ AnswerGateway(k)
      PROVE  Moves(k)
  <2>1. Ready(k) /\ (HandleRetry(k) \/ Succeed(k)) /\ UNCHANGED published
    BY <1>3 DEF Handle, HandlerThrows, AnswerMaster, AgentThrows, AnswerGateway
  <2> QED
    BY <2>1, RetryMoves, SuccessMoves
<1> QED
  BY <1>1, <1>2, <1>3 DEF Next

(* What the copies are afterwards.                                         *)
LEMMA Replaced ==
    ASSUME TypeOK, NEW k \in BagToSet(copies), NEW S, Replace(k, S)
    PROVE  /\ IsABag(copies')
           /\ BagToSet(copies') \subseteq BagToSet(copies) \cup S
           /\ S \subseteq BagToSet(copies')
           /\ BagToSet(copies) \ {k} \subseteq BagToSet(copies')
           /\ \A x \in BagToSet(copies') \ S :
                 x \in BagToSet(copies) /\ copies'[x] <= copies[x] /\ (x = k => copies[k] > 1)
           /\ \A x \in S : x \notin BagToSet(copies) \/ (x = k /\ copies[k] = 1) => copies'[x] = 1
<1> DEFINE C == copies'
<1>1. C = (copies (-) SetToBag({k})) (+) SetToBag(S)
  BY DEF Replace
<1>2. IsABag(copies) /\ BagIn(k, copies)
  BY DEF TypeOK, BagIn
<1> HIDE DEF C
<1>3. /\ IsABag(C)
      /\ BagToSet(C) \subseteq BagToSet(copies) \cup S
      /\ S \subseteq BagToSet(C)
      /\ BagToSet(copies) \ {k} \subseteq BagToSet(C)
      /\ \A x \in BagToSet(C) \ S :
            x \in BagToSet(copies) /\ C[x] <= copies[x] /\ (x = k => copies[k] > 1)
      /\ \A x \in S : x \notin BagToSet(copies) \/ (x = k /\ copies[k] = 1) => C[x] = 1
  BY <1>1, <1>2, ReplaceCounts
<1> QED
  BY <1>3 DEF C

LEMMA MovesType ==
    ASSUME TypeOK, NEW k, Moves(k)
    PROVE  k \in BagToSet(copies) /\ k \in Copy /\ k.origin \in Origins
           /\ (k.at # Dead => k.at \in Subscriptions)
BY CopyType DEF Moves, TypeOK

-----------------------------------------------------------------------------
(* Types, and where copies come from.                                      *)

(* What every copy is, for itself.                                         *)
Proper(k) ==
    /\ k \in Copy
    /\ k.waits => k.count <= RetryOf[k.at].max /\ k.at # Dead /\ k.count > 0 /\ k.pace # Dead

LEMMA CopiesProper ==
    ASSUME CopiesInv
    PROVE  \A k \in BagToSet(copies) : Proper(k) /\ k.origin \in published
BY DEF CopiesInv, TypeOK, WaitingFailed, OriginsPublished, Proper

LEMMA MovedCopies ==
    ASSUME CopiesInv, NEW k, Moves(k)
    PROVE  /\ IsABag(copies')
           /\ \A x \in BagToSet(copies') : Proper(x) /\ x.origin \in published
<1>1. TypeOK /\ k \in BagToSet(copies) /\ Proper(k) /\ k.origin \in published /\ k \in Copy
      /\ (k.at # Dead => k.at \in Subscriptions)
  BY CopiesProper, MovesType DEF CopiesInv
<1>2. ASSUME NEW S, Replace(k, S), \A x \in S : Proper(x) /\ x.origin = k.origin
      PROVE  /\ IsABag(copies')
             /\ \A x \in BagToSet(copies') : Proper(x) /\ x.origin \in published
  <2>1. IsABag(copies') /\ BagToSet(copies') \subseteq BagToSet(copies) \cup S
    BY <1>1, <1>2, Replaced
  <2> QED
    BY <1>1, <1>2, <2>1, CopiesProper
<1>3. CASE SendsAgain(k)
  BY <1>1, <1>2, <1>3, ResentType DEF SendsAgain, Proper
<1>4. CASE Delays(k)
  <2>1. PICK d \in ComputeNextCall(Increment(k)) : Replace(k, {Delayed(k, d)})
    BY <1>4 DEF Delays
  <2>2. k.at \in Subscriptions /\ k.count + 1 <= RetryOf[k.at].max /\ k.count \in Nat
    BY <1>1, <1>4, CopyType DEF Delays
  <2>3. Dead \notin Subscriptions
    BY RoutingAssumption
  <2>4. Proper(Delayed(k, d)) /\ Delayed(k, d).origin = k.origin
    BY <1>1, <2>2, <2>3, DelayedType DEF Proper
  <2> QED
    BY <1>2, <2>1, <2>4
<1>5. CASE GivesUp(k)
  BY <1>1, <1>2, <1>5, DeadLetterType DEF GivesUp, Proper
<1>6. CASE Ends(k)
  BY <1>2, <1>6 DEF Ends
<1> QED
  BY <1>3, <1>4, <1>5, <1>6 DEF Moves

LEMMA SentCopies ==
    ASSUME CopiesInv, NEW o \in Origins, Sends(o)
    PROVE  /\ IsABag(copies')
           /\ BagToSet(copies') = BagToSet(copies) \cup NewCopies(o)
           /\ \A x \in BagToSet(copies') : Proper(x) /\ x.origin \in published'
<1>1. IsABag(copies') /\ BagToSet(copies') = BagToSet(copies) \cup NewCopies(o)
  BY AddCounts DEF CopiesInv, TypeOK, Sends
<1>2. \A x \in NewCopies(o) : Proper(x) /\ x.origin = o
  BY NewCopyType DEF Proper
<1> QED
  BY <1>1, <1>2, CopiesProper DEF Sends

(* The statistics of the agents.                                           *)
StatisticsType ==
    /\ received \in [Functions -> Nat] /\ executed \in [Functions -> Nat]
    /\ reported \in [Functions -> Nat] /\ lost \in [Functions -> Nat]
    /\ replyFaults \in 0..MaxReplyFaults

LEMMA Counted ==
    ASSUME StatisticsType, NEW f \in Functions, LogStats(f)
    PROVE  /\ received' \in [Functions -> Nat] /\ executed' \in [Functions -> Nat]
           /\ \A g \in Functions : executed'[g] - received'[g] = executed[g] - received[g]
BY DEF StatisticsType, LogStats

LEMMA Told ==
    ASSUME StatisticsType, NEW a, Reset(a), NEW tally \in [Functions -> Nat]
    PROVE  /\ received' \in [Functions -> Nat]
           /\ Plus(tally, a) \in [Functions -> Nat]
           /\ \A g \in Functions : Plus(tally, a)[g] + received'[g] = tally[g] + received[g]
<1>1. \A g \in Documented(a) : AnswerOf(a)[g] = received[g] /\ received[g] \in Nat
  BY DEF AnswerOf, Documented, StatisticsType
<1> QED
  BY <1>1 DEF StatisticsType, Reset, Plus

LEMMA StatisticsKept ==
    ASSUME StatisticsType, Next
    PROVE  StatisticsType' /\ (NothingUncounted => NothingUncounted')
<1>1. ASSUME UNCHANGED <<statistics, replyFaults>>
      PROVE  StatisticsType' /\ (NothingUncounted => NothingUncounted')
  BY <1>1 DEF StatisticsType, NothingUncounted, statistics
<1>2. ASSUME NEW o \in Origins, Publish(o) PROVE UNCHANGED <<statistics, replyFaults>>
  BY <1>2 DEF Publish
<1>3. ASSUME NEW k,
             Republish(k) \/ HandlerThrows(k) \/ AgentThrows(k) \/ AnswerGateway(k)
      PROVE  UNCHANGED <<statistics, replyFaults>>
  BY <1>3 DEF Republish, HandlerThrows, AgentThrows, AnswerGateway
<1>4. ASSUME NEW k, Handle(k)
      PROVE  StatisticsType' /\ (NothingUncounted => NothingUncounted')
  <2>1. k.at \in Functions /\ LogStats(k.at) /\ UNCHANGED <<reported, lost, replyFaults>>
    BY <1>4 DEF Handle, LogStats
  <2>2. /\ received' \in [Functions -> Nat] /\ executed' \in [Functions -> Nat]
        /\ \A g \in Functions : executed'[g] - received'[g] = executed[g] - received[g]
    BY <2>1, Counted
  <2> QED
    BY <2>1, <2>2 DEF StatisticsType, NothingUncounted
<1>5. ASSUME NEW k, AnswerMaster(k)
      PROVE  StatisticsType' /\ (NothingUncounted => NothingUncounted')
  <2>1. Reset(k.at) /\ executed' = executed
    BY <1>5 DEF AnswerMaster, Reset
  <2>2. CASE reported' = Plus(reported, k.at) /\ UNCHANGED <<lost, replyFaults>>
    <3>1. /\ received' \in [Functions -> Nat] /\ reported' \in [Functions -> Nat]
          /\ \A g \in Functions : reported'[g] + received'[g] = reported[g] + received[g]
      BY <2>1, <2>2, Told DEF StatisticsType
    <3> QED
      BY <2>1, <2>2, <3>1 DEF StatisticsType, NothingUncounted
  <2>3. CASE /\ lost' = Plus(lost, k.at) /\ reported' = reported
             /\ replyFaults < MaxReplyFaults /\ replyFaults' = replyFaults + 1
    <3>1. /\ received' \in [Functions -> Nat] /\ lost' \in [Functions -> Nat]
          /\ \A g \in Functions : lost'[g] + received'[g] = lost[g] + received[g]
      BY <2>1, <2>3, Told DEF StatisticsType
    <3>2. replyFaults' \in 0..MaxReplyFaults
      BY <2>3, ServicesAssumption DEF StatisticsType
    <3> QED
      BY <2>1, <2>3, <3>1, <3>2 DEF StatisticsType, NothingUncounted
  <2> QED
    BY <1>5, <2>2, <2>3 DEF AnswerMaster
<1> QED
  BY <1>1, <1>2, <1>3, <1>4, <1>5 DEF Next

LEMMA TypeSplits ==
    TypeOK <=>
        /\ published \subseteq Origins
        /\ IsABag(copies) /\ BagToSet(copies) \subseteq Copy
        /\ \A k \in BagToSet(copies) : k.waits => k.count <= RetryOf[k.at].max
        /\ concluded \subseteq Origins \X Subscriptions \X {"handled", "givenUp"}
        /\ StatisticsType
BY DEF TypeOK, StatisticsType

LEMMA InitialCopies ==
    ASSUME Init
    PROVE  /\ CopiesInv /\ NothingUncounted /\ BagToSet(copies) = {}
           /\ published = {} /\ concluded = {}
<1>1. IsABag(copies) /\ BagToSet(copies) = {}
  BY DEF Init, EmptyBag, SetToBag, IsABag, BagToSet
<1>2. StatisticsType
  BY ServicesAssumption DEF Init, StatisticsType
<1>3. published = {} /\ concluded = {}
  BY DEF Init
<1>4. TypeOK
  BY <1>1, <1>2, <1>3, TypeSplits
<1> QED
  BY <1>1, <1>3, <1>4 DEF Init, CopiesInv, NothingUncounted, OriginsPublished, WaitingFailed

LEMMA CopiesStep ==
    ASSUME CopiesInv, Next
    PROVE  CopiesInv'
<1>1. StatisticsType /\ published \subseteq Origins
      /\ concluded \subseteq Origins \X Subscriptions \X {"handled", "givenUp"}
  BY DEF CopiesInv, TypeOK, StatisticsType
<1>2. StatisticsType'
  BY <1>1, StatisticsKept
<1>3. /\ IsABag(copies')
      /\ \A x \in BagToSet(copies') : Proper(x) /\ x.origin \in published'
      /\ published' \subseteq Origins
      /\ concluded' \subseteq Origins \X Subscriptions \X {"handled", "givenUp"}
  <2>1. CASE \E o \in Origins : Sends(o)
    BY <1>1, <2>1, SentCopies DEF Sends
  <2>2. ASSUME NEW k, Moves(k)
        PROVE  /\ IsABag(copies')
               /\ \A x \in BagToSet(copies') : Proper(x) /\ x.origin \in published'
               /\ published' \subseteq Origins
               /\ concluded' \subseteq Origins \X Subscriptions \X {"handled", "givenUp"}
    <3>1. k.origin \in Origins /\ (k.at # Dead => k.at \in Subscriptions)
      BY <2>2, MovesType DEF CopiesInv
    <3>2. concluded' \subseteq Origins \X Subscriptions \X {"handled", "givenUp"}
      BY <1>1, <2>2, <3>1 DEF Moves, SendsAgain, Delays, GivesUp, Ends, Conclude
    <3> QED
      BY <1>1, <2>2, <3>2, MovedCopies DEF Moves
  <2> QED
    BY <2>1, <2>2, StepsMove
<1>4. CopiesInv' <=> (TypeOK' /\ OriginsPublished' /\ WaitingFailed')
  BY DEF CopiesInv
<1>5. TypeOK' <=>
        /\ published' \subseteq Origins
        /\ IsABag(copies') /\ BagToSet(copies') \subseteq Copy
        /\ \A k \in BagToSet(copies') : k.waits => k.count <= RetryOf[k.at].max
        /\ concluded' \subseteq Origins \X Subscriptions \X {"handled", "givenUp"}
        /\ StatisticsType'
  BY DEF TypeOK, StatisticsType
<1>6. TypeOK'
  BY <1>2, <1>3, <1>5 DEF Proper
<1> QED
  BY <1>3, <1>4, <1>6 DEF OriginsPublished, WaitingFailed, Proper

-----------------------------------------------------------------------------
(* The retries of one function are nobody else's.                          *)

LEMMA HomeReplaced ==
    ASSUME HomeInv, NEW k \in BagToSet(copies), NEW S, Replace(k, S),
           \A x \in S : x.origin = k.origin,
           \A x \in S : x.at \in Subscriptions /\ Unambiguous(x.at) =>
               x.at = k.at /\ \A y \in S : y.at = x.at => x = y
    PROVE  OneEach'
<1> SUFFICES ASSUME NEW s \in Subscriptions, Unambiguous(s),
                    NEW x \in BagToSet(copies'), NEW y \in BagToSet(copies'),
                    x.at = s, y.at = s, x.origin = y.origin
             PROVE  x = y /\ copies'[x] = 1
  BY DEF OneEach
<1>1. /\ IsABag(copies') /\ BagToSet(copies') \subseteq BagToSet(copies) \cup S
      /\ \A z \in BagToSet(copies') \ S :
            z \in BagToSet(copies) /\ copies'[z] <= copies[z] /\ (z = k => copies[k] > 1)
      /\ \A z \in S : z \notin BagToSet(copies) \/ (z = k /\ copies[k] = 1) => copies'[z] = 1
  BY Replaced DEF HomeInv, CopiesInv
<1>2. \A v, w \in BagToSet(copies) :
         v.at = s /\ w.at = s /\ v.origin = w.origin => v = w /\ copies[v] = 1
  BY DEF HomeInv, OneEach
<1>3. ASSUME NEW z \in S, NEW w \in BagToSet(copies'), z.at = s, w.at = s, z.origin = w.origin
      PROVE  z = w /\ copies'[z] = 1
  <2>1. k.at = s /\ k.origin = z.origin
    BY <1>3
  <2>2. copies[k] = 1
    BY <1>2, <2>1
  <2>3. copies'[z] = 1
    BY <1>1, <1>2, <1>3, <2>1, <2>2
  <2>4. CASE w \in S
    BY <1>3, <2>3, <2>4
  <2>5. CASE w \notin S
    <3>1. w \in BagToSet(copies) /\ (w = k => copies[k] > 1)
      BY <1>1, <2>5
    <3>2. w = k
      BY <1>2, <1>3, <2>1, <3>1
    <3> QED
      BY <2>2, <3>1, <3>2
  <2> QED
    BY <2>4, <2>5
<1>4. CASE x \in S
  BY <1>3, <1>4
<1>5. CASE y \in S
  BY <1>3, <1>5
<1>6. CASE x \notin S /\ y \notin S
  <2>1. x \in BagToSet(copies) /\ y \in BagToSet(copies) /\ copies'[x] <= copies[x]
    BY <1>1, <1>6
  <2>2. x = y /\ copies[x] = 1
    BY <1>2, <2>1
  <2>3. copies'[x] \in Nat /\ copies'[x] > 0
    BY <1>1 DEF IsABag, BagToSet
  <2> QED
    BY <2>1, <2>2, <2>3
<1> QED
  BY <1>4, <1>5, <1>6

LEMMA HomeStep ==
    ASSUME HomeInv, Next
    PROVE  OneEach'
<1>1. CopiesInv /\ TypeOK
  BY DEF HomeInv, CopiesInv
<1>2. ASSUME NEW o \in Origins, Sends(o) PROVE OneEach'
  <2>1. copies' = copies (+) SetToBag(NewCopies(o)) /\ IsABag(copies)
    BY <1>1, <1>2 DEF Sends, TypeOK
  <2>2. /\ \A x \in BagToSet(copies') \ NewCopies(o) : copies'[x] = copies[x]
        /\ \A x \in NewCopies(o) \ BagToSet(copies) : copies'[x] = 1
    BY <2>1, AddCounts
  <2>3. BagToSet(copies') = BagToSet(copies) \cup NewCopies(o)
    BY <1>1, <1>2, SentCopies
  <2>4. \A x \in BagToSet(copies) : x.origin # o
    BY <1>1, <1>2, CopiesProper DEF Sends
  <2>5. \A x \in NewCopies(o) : x.origin = o /\ x = New(o, x.at)
    BY NewCopyType
  <2>6. \A x, y \in NewCopies(o) : x.at = y.at => x = y
    BY <2>5
  <2>7. \A x \in NewCopies(o) : copies'[x] = 1
    BY <2>2, <2>4, <2>5
  <2> QED
    BY <2>2, <2>3, <2>4, <2>5, <2>6, <2>7 DEF HomeInv, OneEach
<1>3. ASSUME NEW k, Moves(k) PROVE OneEach'
  <2>1. /\ k \in BagToSet(copies) /\ k \in Copy /\ (k.at # Dead => k.at \in Subscriptions)
        /\ (k.waits => k.at # Dead)
    BY <1>1, <1>3, MovesType DEF CopiesInv, WaitingFailed
  <2>2. CASE SendsAgain(k)
    <3>1. ASSUME NEW x \in Resents(k), x.at \in Subscriptions, Unambiguous(x.at)
          PROVE  x.at = k.at
      BY <2>1, <2>2, <3>1, ResentType, ReceivesNoOthers DEF SendsAgain
    <3>2. \A x \in Resents(k) : x.origin = k.origin /\ x = Resent(k, x.at)
      BY <2>1, ResentType
    <3>3. \A x, y \in Resents(k) : x.at = y.at => x = y
      BY <3>2
    <3> QED
      BY <2>1, <2>2, <3>1, <3>2, <3>3, HomeReplaced DEF SendsAgain
  <2>3. CASE Delays(k)
    <3>1. PICK d \in ComputeNextCall(Increment(k)) : Replace(k, {Delayed(k, d)})
      BY <2>3 DEF Delays
    <3>2. Delayed(k, d).origin = k.origin /\ Delayed(k, d).at = k.at
      BY <2>1, <2>3, DelayedType DEF Delays
    <3> QED
      BY <2>1, <3>1, <3>2, HomeReplaced
  <2>4. CASE GivesUp(k)
    <3>1. \A x \in DeadLetters(k) : x.origin = k.origin /\ ~Unambiguous(x.at)
      BY <2>1, DeadLetterType DEF Unambiguous
    <3> QED
      BY <2>1, <2>4, <3>1, HomeReplaced DEF GivesUp
  <2>5. CASE Ends(k)
    BY <2>1, <2>5, HomeReplaced DEF Ends
  <2> QED
    BY <1>3, <2>2, <2>3, <2>4, <2>5 DEF Moves
<1> QED
  BY <1>2, <1>3, StepsMove

-----------------------------------------------------------------------------
(* A retry waits as long as its function asks.                             *)

Paced(k) ==
    k.at # Dead /\ Unambiguous(k.at) =>
        k.pace \in {Dead, k.at} /\ k.jitter <= RetryOf[k.at].jitter

Kept(k) ==
    k.waits /\ Unambiguous(k.at) /\ LongestDelay(RetryOf[k.at]) <= MaxTimeout =>
        k.delay >= BackOff(RetryOf[k.at], k.count)

LEMMA BackOffGrows ==
    ASSUME NEW s \in Subscriptions, NEW m \in Nat, NEW n \in Nat, 0 < n, n <= m
    PROVE  BackOff(RetryOf[s], n) <= BackOff(RetryOf[s], m)
<1> DEFINE p == 2^(n - 1)
<1> DEFINE q == 2^(m - 1)
<1> DEFINE i == RetryOf[s].interval
<1>1. n - 1 \in 0..(m - 1) /\ n - 1 \in Nat /\ m - 1 \in Nat
  OBVIOUS
<1>2. p \in Nat /\ q \in Nat /\ p <= q
  BY <1>1, PowerIsNatural, PowersOrdered
<1>3. i \in Nat
  BY RetryType
<1>4. BackOff(RetryOf[s], n) = (IF RetryOf[s].strategy = "exponential" THEN p * i ELSE i)
      /\ BackOff(RetryOf[s], m) = (IF RetryOf[s].strategy = "exponential" THEN q * i ELSE i)
  BY Zenon DEF BackOff
<1> HIDE DEF p, q, i
<1>5. p * i <= q * i
  <2>1. \A a, b, c \in Nat : a <= b => a * c <= b * c
    OBVIOUS
  <2> QED
    BY <1>2, <1>3, <2>1
<1> QED
  BY <1>3, <1>4, <1>5

LEMMA DelayKept ==
    ASSUME NEW k \in Copy, k.at \in Subscriptions, Paced(k), Unambiguous(k.at),
           k.count + 1 <= RetryOf[k.at].max, NEW d \in ComputeNextCall(Increment(k))
    PROVE  Paced(Delayed(k, d)) /\ Kept(Delayed(k, d))
<1> DEFINE i == Increment(k)
<1> DEFINE x == Delayed(k, d)
<1> DEFINE s == k.at
<1>1. /\ i.count = k.count + 1
      /\ i.pace = IF k.pace = Dead THEN s ELSE k.pace
      /\ i.jitter = IF k.jitter = 0 THEN RetryOf[s].jitter ELSE k.jitter
  BY Incremented
<1>2. /\ x.at = s /\ x.count = k.count + 1 /\ x.delay = d
      /\ x.pace = i.pace /\ x.jitter = i.jitter
  BY <1>1, DelayedType
<1>3. k.pace \in {Dead, s} /\ k.jitter <= RetryOf[s].jitter /\ s # Dead
  BY RoutingAssumption DEF Paced
<1>4. i.pace = s /\ i.jitter <= RetryOf[s].jitter /\ i.jitter \in Nat
  BY <1>1, <1>3, CopyType, RetryType
<1>5. Paced(x)
  BY <1>2, <1>4 DEF Paced
<1>6. ASSUME LongestDelay(RetryOf[s]) <= MaxTimeout
      PROVE  d >= BackOff(RetryOf[s], k.count + 1)
  <2> DEFINE wait == BackOff(RetryOf[s], k.count + 1)
  <2> DEFINE last == BackOff(RetryOf[s], RetryOf[s].max)
  <2>1. k.count \in Nat /\ RetryOf[s].max \in Nat /\ RetryOf[s].jitter \in Nat
    BY CopyType, RetryType
  <2>2. k.count + 1 \in Nat /\ k.count + 1 > 0 /\ RetryOf[s].max > 0
    BY <2>1
  <2>3. wait \in Nat /\ last \in Nat
    BY <2>1, <2>2, BackOffType
  <2>4. wait <= last
    BY <2>1, <2>2, BackOffGrows
  <2>5. last + RetryOf[s].jitter <= MaxTimeout
    BY <1>6 DEF LongestDelay
  <2>6. ComputeNextCall(i) = {SetTimeout(wait + j) : j \in Jitters(i.jitter)}
    BY <1>1, <1>4 DEF ComputeNextCall
  <2> HIDE DEF wait, last, i
  <2>7. PICK j \in Jitters(i.jitter) : d = SetTimeout(wait + j)
    BY <2>6 DEF i
  <2>8. j \in Nat /\ j <= i.jitter
    BY <1>4, <2>7 DEF Jitters
  <2>9. wait + j <= MaxTimeout
    BY <1>4, <2>1, <2>3, <2>4, <2>5, <2>8, ServicesAssumption
  <2>10. d = wait + j
    BY <2>3, <2>7, <2>8, <2>9, ServicesAssumption DEF SetTimeout
  <2>11. d >= wait
    BY <2>3, <2>8, <2>10
  <2> QED
    BY <2>11 DEF wait
<1>7. Kept(x)
  BY <1>2, <1>6 DEF Kept
<1> QED
  BY <1>5, <1>7

LEMMA BackoffStep ==
    ASSUME BackoffInv, Next
    PROVE  OwnPace' /\ BackoffKept'
<1>1. CopiesInv /\ \A k \in BagToSet(copies) : Paced(k) /\ Kept(k)
  BY DEF BackoffInv, OwnPace, BackoffKept, Paced, Kept
<1>2. SUFFICES \A k \in BagToSet(copies') : Paced(k) /\ Kept(k)
  BY DEF OwnPace, BackoffKept, Paced, Kept
<1>3. ASSUME NEW o \in Origins, Sends(o)
      PROVE  \A k \in BagToSet(copies') : Paced(k) /\ Kept(k)
  <2>1. ASSUME NEW x \in NewCopies(o) PROVE Paced(x) /\ Kept(x)
    <3>1. x \in Copy /\ x.pace = Dead /\ x.jitter = 0 /\ ~x.waits
      BY NewCopyType
    <3>2. x.at # Dead => x.at \in Subscriptions
      BY <3>1, CopyType
    <3> QED
      BY <3>1, <3>2, RetryType DEF Paced, Kept
  <2> QED
    BY <1>1, <1>3, <2>1, SentCopies
<1>4. ASSUME NEW k, Moves(k)
      PROVE  \A x \in BagToSet(copies') : Paced(x) /\ Kept(x)
  <2>1. /\ TypeOK /\ k \in BagToSet(copies) /\ k \in Copy
        /\ (k.at # Dead => k.at \in Subscriptions) /\ (k.waits => k.at # Dead)
        /\ Paced(k) /\ Kept(k)
    BY <1>1, <1>4, MovesType DEF CopiesInv, WaitingFailed
  <2>2. ASSUME NEW S, Replace(k, S), \A x \in S : Paced(x) /\ Kept(x)
        PROVE  \A x \in BagToSet(copies') : Paced(x) /\ Kept(x)
    <3>1. BagToSet(copies') \subseteq BagToSet(copies) \cup S
      BY <2>1, <2>2, Replaced
    <3> QED
      BY <1>1, <2>2, <3>1
  <2>3. CASE SendsAgain(k)
    <3>1. ASSUME NEW x \in Resents(k) PROVE Paced(x) /\ Kept(x)
      <4>1. /\ x \in Copy /\ x.pace = k.pace /\ x.jitter = k.jitter /\ ~x.waits
            /\ x.at \in ReceiversOf(QualifierOf[k.at], ExchangeNameOf[k.at])
        BY <2>1, ResentType
      <4>2. x.at # Dead /\ Unambiguous(x.at) => x.at = k.at /\ k.at # Dead
        BY <2>1, <2>3, <4>1, CopyType, ReceivesNoOthers DEF SendsAgain
      <4> QED
        BY <2>1, <4>1, <4>2 DEF Paced, Kept
    <3> QED
      BY <2>2, <2>3, <3>1 DEF SendsAgain
  <2>4. CASE Delays(k)
    <3>1. PICK d \in ComputeNextCall(Increment(k)) : Replace(k, {Delayed(k, d)})
      BY <2>4 DEF Delays
    <3>2. k.at \in Subscriptions /\ k.count + 1 <= RetryOf[k.at].max
      BY <2>1, <2>4 DEF Delays
    <3>3. Paced(Delayed(k, d)) /\ Kept(Delayed(k, d))
      <4>1. CASE Unambiguous(k.at)
        BY <2>1, <3>2, <4>1, DelayKept
      <4>2. CASE ~Unambiguous(k.at)
        BY <2>1, <3>2, <4>2, DelayedType DEF Paced, Kept
      <4> QED
        BY <4>1, <4>2
    <3> QED
      BY <2>2, <3>1, <3>3
  <2>5. CASE GivesUp(k)
    <3>1. \A x \in DeadLetters(k) : ~Unambiguous(x.at)
      BY <2>1, DeadLetterType DEF Unambiguous
    <3> QED
      BY <2>2, <2>5, <3>1 DEF GivesUp, Paced, Kept
  <2>6. CASE Ends(k)
    BY <2>2, <2>6 DEF Ends
  <2> QED
    BY <1>4, <2>3, <2>4, <2>5, <2>6 DEF Moves
<1> QED
  BY <1>3, <1>4, StepsMove

-----------------------------------------------------------------------------
(* A retry reaches its function, and a dead letter its queue.              *)

LEMMA OutcomesStay ==
    ASSUME NEW k, Moves(k)
    PROVE  concluded \subseteq concluded'
BY DEF Moves, SendsAgain, Delays, GivesUp, Ends, Conclude

LEMMA ReachStep ==
    ASSUME ReachInv, Next
    PROVE  RetryReachesItself'
<1> DEFINE To(o) == ReceiversOf(PublishedTo[o].qualifier, PublishedTo[o].exchangeName) \ {Dead}
<1> SUFFICES ASSUME NEW o \in published', NEW s \in To(o)
             PROVE  \/ \E x \in BagToSet(copies') : x.origin = o /\ x.at = s
                    \/ \E how \in {"handled", "givenUp"} : <<o, s, how>> \in concluded'
  BY DEF RetryReachesItself, HeldFor
<1>1. CopiesInv /\ TypeOK /\ s \in Subscriptions
  BY ReceiversAre DEF ReachInv, CopiesInv
<1>2. ASSUME o \in published
      PROVE  \/ \E x \in BagToSet(copies) : x.origin = o /\ x.at = s
             \/ \E how \in {"handled", "givenUp"} : <<o, s, how>> \in concluded
  BY <1>2 DEF ReachInv, RetryReachesItself, HeldFor
<1>3. ASSUME NEW p \in Origins, Sends(p)
      PROVE  \/ \E x \in BagToSet(copies') : x.origin = o /\ x.at = s
             \/ \E how \in {"handled", "givenUp"} : <<o, s, how>> \in concluded'
  <2>1. BagToSet(copies') = BagToSet(copies) \cup NewCopies(p)
    BY <1>1, <1>3, SentCopies
  <2>2. CASE o \in published
    BY <1>2, <1>3, <2>1, <2>2 DEF Sends
  <2>3. CASE o = p
    <3>1. New(o, s) \in NewCopies(o) /\ New(o, s).origin = o /\ New(o, s).at = s
      BY <1>1, <2>3, NewType DEF NewCopies
    <3> QED
      BY <2>1, <2>3, <3>1
  <2> QED
    BY <1>3, <2>2, <2>3 DEF Sends
<1>4. ASSUME NEW k, Moves(k)
      PROVE  \/ \E x \in BagToSet(copies') : x.origin = o /\ x.at = s
             \/ \E how \in {"handled", "givenUp"} : <<o, s, how>> \in concluded'
  <2>1. o \in published /\ concluded \subseteq concluded'
    BY <1>4, OutcomesStay DEF Moves
  <2>2. /\ k \in BagToSet(copies) /\ k \in Copy /\ o \in Origins
        /\ Dead \notin Subscriptions
    BY <1>1, <1>4, <2>1, MovesType, RoutingAssumption DEF TypeOK
  <2>3. ASSUME NEW S, Replace(k, S)
        PROVE  S \subseteq BagToSet(copies') /\ BagToSet(copies) \ {k} \subseteq BagToSet(copies')
    BY <1>1, <2>2, <2>3, Replaced
  <2>4. \E S : Replace(k, S)
    BY <1>4 DEF Moves, SendsAgain, Delays, GivesUp, Ends
  <2>5. CASE \E how \in {"handled", "givenUp"} : <<o, s, how>> \in concluded
    BY <2>1, <2>5
  <2>6. ASSUME NEW x \in BagToSet(copies), x.origin = o, x.at = s, x # k
        PROVE  x \in BagToSet(copies')
    BY <2>3, <2>4, <2>6
  <2>7. CASE k.origin = o /\ k.at = s
    <3>1. CASE SendsAgain(k)
      <4>1. PublishedTo[o].qualifier \in Seq(STRING) /\ PublishedTo[o].qualifier # <<>>
        BY <2>2, ServicesAssumption
      <4>2. s \in ReceiversOf(QualifierOf[s], ExchangeNameOf[s])
        BY <1>1, <4>1, ReceivesItsRetries
      <4>3. Resent(k, s) \in Resents(k)
        BY <2>7, <4>2 DEF Resents
      <4>4. Resent(k, s).origin = o /\ Resent(k, s).at = s
        BY <2>2, <2>7 DEF Resent, Copy
      <4> QED
        BY <2>3, <3>1, <4>3, <4>4 DEF SendsAgain
    <3>2. CASE Delays(k)
      <4>1. PICK d \in ComputeNextCall(Increment(k)) : Replace(k, {Delayed(k, d)})
        BY <3>2 DEF Delays
      <4>2. Delayed(k, d).origin = o /\ Delayed(k, d).at = s
        BY <1>1, <2>2, <2>7, DelayedType
      <4>3. Delayed(k, d) \in BagToSet(copies')
        BY <2>3, <4>1
      <4> QED
        BY <4>2, <4>3
    <3>3. CASE GivesUp(k) \/ Ends(k)
      BY <2>7, <3>3 DEF GivesUp, Ends, Conclude
    <3> QED
      BY <1>4, <3>1, <3>2, <3>3 DEF Moves
  <2> QED
    BY <1>2, <2>1, <2>5, <2>6, <2>7
<1> QED
  BY <1>3, <1>4, StepsMove

(* A dead-letter qualifier without a type: one that publish does not       *)
(* split.                                                                  *)
BareDeadLetter == Len(DeadLetterQualifier) = 1 /\ DeadLetterQualifier # <<"fanout">>

LEMMA DeadReceives ==
    ASSUME BareDeadLetter
    PROVE  Dead \in ReceiversOf(DeadLetterQualifier, "")
<1> DEFINE q == DeadLetterQualifier
<1>1. q \in Seq(STRING) /\ q # <<>> /\ Len(q) = 1
  BY RoutingAssumption DEF BareDeadLetter
<1>2. q = <<q[1]>>
  BY <1>1
<1>3. q[1] # "fanout"
  BY <1>2 DEF BareDeadLetter
<1>4. ParseQualifier(q).type = "direct" /\ ParseQualifier(q).routingKey = q[1]
  BY <1>1, <1>3, Parsed
<1>5. Published(q, "").exchange = GetExchangeName("", "direct")
      /\ Published(q, "").key = <<q[1]>>
  BY <1>1, <1>4, Sent
<1>6. GetExchangeName("", "direct") = <<"amq", "direct">>
  BY DEF GetExchangeName, ExchangesAvailable
<1> DEFINE p == Published(q, "")
<1>7. p.exchange = <<"amq", "direct">> /\ p.key = DeadLetterQualifier
  BY <1>2, <1>5, <1>6
<1>8. ReceiversOf(q, "") = Receivers(p.exchange, p.key)
  BY DEF ReceiversOf
<1> HIDE DEF p
<1>9. Dead \in Receivers(p.exchange, p.key)
  BY <1>7 DEF Receivers
<1> QED
  BY <1>8, <1>9

LEMMA DeadLetterStep ==
    ASSUME BareDeadLetter, DeadLetterInv, Next
    PROVE  DeadLetterArrives'
<1> SUFFICES ASSUME NEW o \in Origins, NEW s \in Subscriptions, <<o, s, "givenUp">> \in concluded'
             PROVE  \E x \in BagToSet(copies') : x.origin = o /\ x.at = Dead
  BY DEF DeadLetterArrives, HeldFor
<1>1. CopiesInv /\ TypeOK
  BY DEF DeadLetterInv, CopiesInv
<1>2. ASSUME <<o, s, "givenUp">> \in concluded
      PROVE  \E x \in BagToSet(copies) : x.origin = o /\ x.at = Dead
  BY <1>2 DEF DeadLetterInv, DeadLetterArrives, HeldFor
<1>3. ASSUME NEW p \in Origins, Sends(p)
      PROVE  \E x \in BagToSet(copies') : x.origin = o /\ x.at = Dead
  BY <1>1, <1>2, <1>3, SentCopies DEF Sends
<1>4. ASSUME NEW k, Moves(k)
      PROVE  \E x \in BagToSet(copies') : x.origin = o /\ x.at = Dead
  <2>1. k \in BagToSet(copies) /\ k \in Copy /\ k.at # Dead
    BY <1>1, <1>4, MovesType DEF CopiesInv, WaitingFailed, Moves, SendsAgain, Delays, GivesUp, Ends
  <2>2. ASSUME NEW S, Replace(k, S)
        PROVE  S \subseteq BagToSet(copies') /\ BagToSet(copies) \ {k} \subseteq BagToSet(copies')
    BY <1>1, <2>1, <2>2, Replaced
  <2>3. \E S : Replace(k, S)
    BY <1>4 DEF Moves, SendsAgain, Delays, GivesUp, Ends
  <2>4. CASE <<o, s, "givenUp">> \in concluded
    BY <1>2, <2>1, <2>2, <2>3, <2>4
  <2>5. CASE <<o, s, "givenUp">> \notin concluded
    <3>1. GivesUp(k) /\ k.origin = o
      BY <1>4, <2>5 DEF Moves, SendsAgain, Delays, GivesUp, Ends, Conclude
    <3>2. DeadLetter(k, Dead) \in DeadLetters(k)
      BY DeadReceives DEF DeadLetters
    <3>3. DeadLetter(k, Dead).origin = o /\ DeadLetter(k, Dead).at = Dead
      BY <2>1, <3>1 DEF DeadLetter, Copy
    <3> QED
      BY <2>2, <3>1, <3>2, <3>3 DEF GivesUp
  <2> QED
    BY <2>4, <2>5
<1> QED
  BY <1>3, <1>4, StepsMove

-----------------------------------------------------------------------------
(* The theorems.                                                           *)

LEMMA CopiesInvariant == Spec => []CopiesInv
<1>1. Init => CopiesInv
  BY InitialCopies
<1>2. CopiesInv /\ [Next]_vars => CopiesInv'
  <2>1. CASE UNCHANGED vars
    BY <2>1 DEF vars, statistics, CopiesInv, TypeOK, OriginsPublished, WaitingFailed
  <2> QED
    BY <2>1, CopiesStep
<1> QED
  BY <1>1, <1>2, PTL DEF Spec

(* Types are kept, and no retry timer is armed beyond retry.max.           *)
THEOREM TypeCorrect == Spec => []TypeOK
<1>1. CopiesInv => TypeOK
  BY DEF CopiesInv
<1> QED
  BY <1>1, CopiesInvariant, PTL

(* The executions of every function are those the master was told, would   *)
(* have been told by an answer that was not published, or will be told:    *)
(* whatever services share an agent, and however often a request is        *)
(* broadcast.                                                              *)
THEOREM ExecutionsCounted == Spec => []NothingUncounted
<1>1. Init => NothingUncounted
  BY InitialCopies
<1>2. CopiesInv /\ NothingUncounted /\ [Next]_vars => NothingUncounted'
  <2>1. CASE UNCHANGED vars
    BY <2>1 DEF vars, statistics, NothingUncounted
  <2>2. ASSUME CopiesInv, NothingUncounted, Next PROVE NothingUncounted'
    BY <2>2, StatisticsKept DEF CopiesInv, TypeOK, StatisticsType
  <2> QED
    BY <2>1, <2>2
<1> QED
  BY <1>1, <1>2, CopiesInvariant, PTL DEF Spec

(* Whatever the qualifiers, exchanges and patterns: what failed at a       *)
(* function comes back to it until it is handled or given up there.        *)
THEOREM RetriesComeBack == Spec => []RetryReachesItself
<1>1. Init => RetryReachesItself
  BY InitialCopies DEF RetryReachesItself
<1>2. ReachInv /\ [Next]_vars => RetryReachesItself'
  <2>1. CASE UNCHANGED vars
    BY <2>1 DEF vars, ReachInv, RetryReachesItself, HeldFor
  <2> QED
    BY <2>1, ReachStep
<1>3. ReachInv <=> CopiesInv /\ RetryReachesItself
  BY DEF ReachInv
<1> QED
  BY <1>1, <1>2, <1>3, CopiesInvariant, PTL DEF Spec

(* A function that no retry of another reaches never has two copies of     *)
(* what was published once.                                                *)
THEOREM RetriesStayHome == Spec => []RetryStaysHome
<1>1. Init => OneEach
  BY InitialCopies DEF OneEach
<1>2. HomeInv /\ [Next]_vars => OneEach'
  <2>1. CASE UNCHANGED vars
    BY <2>1 DEF vars, HomeInv, OneEach
  <2> QED
    BY <2>1, HomeStep
<1>3. HomeInv <=> CopiesInv /\ OneEach
  BY DEF HomeInv
<1>4. OneEach => RetryStaysHome
  <2> SUFFICES ASSUME OneEach, NEW s \in Subscriptions, Unambiguous(s), NEW o \in Origins
               PROVE  HeldFor(o, s) = {}
                      \/ \E k \in HeldFor(o, s) : HeldFor(o, s) = {k} /\ copies[k] = 1
    BY DEF RetryStaysHome
  <2>1. \A k, l \in HeldFor(o, s) : k = l /\ copies[k] = 1
    BY DEF OneEach, HeldFor
  <2> QED
    BY <2>1
<1> QED
  BY <1>1, <1>2, <1>3, <1>4, CopiesInvariant, PTL DEF Spec

(* Its retries wait as long as its own retry options ask.                  *)
THEOREM RetriesBackOff == Spec => []BackoffKept
<1>1. Init => OwnPace /\ BackoffKept
  BY InitialCopies DEF OwnPace, BackoffKept
<1>2. BackoffInv /\ [Next]_vars => OwnPace' /\ BackoffKept'
  <2>1. CASE UNCHANGED vars
    BY <2>1 DEF vars, BackoffInv, OwnPace, BackoffKept
  <2> QED
    BY <2>1, BackoffStep
<1>3. BackoffInv <=> CopiesInv /\ OwnPace /\ BackoffKept
  BY DEF BackoffInv
<1> QED
  BY <1>1, <1>2, <1>3, CopiesInvariant, PTL DEF Spec

(* With a dead-letter qualifier that has no type, whatever was given up    *)
(* is in the dead-letter queue.                                            *)
THEOREM DeadLettersReachQueue ==
    ASSUME BareDeadLetter
    PROVE  Spec => []DeadLetterArrives
<1>1. Init => DeadLetterArrives
  BY InitialCopies DEF DeadLetterArrives
<1>2. DeadLetterInv /\ [Next]_vars => DeadLetterArrives'
  <2>1. CASE UNCHANGED vars
    BY <2>1 DEF vars, DeadLetterInv, DeadLetterArrives, HeldFor
  <2> QED
    BY <2>1, DeadLetterStep
<1>3. DeadLetterInv <=> CopiesInv /\ DeadLetterArrives
  BY DEF DeadLetterInv
<1> QED
  BY <1>1, <1>2, <1>3, CopiesInvariant, PTL DEF Spec
=============================================================================
