------------------------- MODULE SubscriptionProofs -------------------------
(* Theorems about Subscription, for every value of its constants: any      *)
(* number of subscriptions, channels, messages and faults.                 *)
EXTENDS SubscriptionInv, ChannelsProofs, SequenceTheorems

AllSteps == Steps \cup {"idle", "channel", "done", "failed"}
SetupRecord == [step: AllSteps, chan: 0..MaxChannels, answered: BOOLEAN]
Outcomes == {"pending", "resolved", "rejected", "timeout"}
ConsumerRecord == [active: BOOLEAN, limit: Nat]

LEMMA Parameters ==
    /\ PrefetchOf \in [Subscriptions -> Nat]
    /\ \A s \in Subscriptions : ChannelKey(s) \in Keys
    /\ \A k \in Keys : k[2] \in Nat
BY SubscriptionsAssumption, ChannelsAssumption DEF ChannelKey

LEMMA SetupType ==
    ASSUME TypeOK, NEW s \in Subscriptions
    PROVE  /\ setup[s] \in SetupRecord
           /\ setup[s].step \in AllSteps /\ setup[s].chan \in 0..MaxChannels
           /\ setup[s].answered \in BOOLEAN
BY DEF TypeOK, SetupRecord, AllSteps

LEMMA SetupMoves ==
    ASSUME TypeOK, NEW s \in Subscriptions, NEW step \in AllSteps, NEW answered \in BOOLEAN,
           setup' = [setup EXCEPT ![s].step = step, ![s].answered = answered]
    PROVE  /\ setup' \in [Subscriptions -> SetupRecord]
           /\ setup'[s].step = step /\ setup'[s].answered = answered
           /\ setup'[s].chan = setup[s].chan
           /\ \A t \in Subscriptions \ {s} : setup'[t] = setup[t]
BY SetupType DEF TypeOK, SetupRecord, AllSteps

LEMMA ChannelOfSetup ==
    ASSUME SetupInv, NEW s \in Subscriptions, setup[s].step # "idle"
    PROVE  setup[s].chan \in Promises /\ setup[s].chan \in 1..created
BY PromiseNumbers DEF SetupInv, OwnChannel, ChannelsInv

LEMMA OpenIsCreated ==
    ASSUME ChannelsInv, NEW a \in Promises, promise[a].open
    PROVE  a \in 1..created
BY PromiseNumbers DEF ChannelsInv, ConnectionMatches, CreatedInOrder, Promises

-----------------------------------------------------------------------------
(* What a step of the channels does to those that are in use.              *)

(* A channel that was ready and closed does not open again.                *)
NoneReopened ==
    \A a \in 1..created : promise[a].stage = "resolved" /\ promise'[a].open => promise[a].open

NoneClosed == \A a \in Promises : promise[a].open => promise'[a].open

LEMMA GetChannelMoves ==
    ASSUME ChannelsInv, NEW k \in Keys, GetChannel(k)
    PROVE  PromisesKept /\ NoneReopened /\ NoneClosed
BY GetChannelKeeps, OpenIsCreated DEF NoneReopened, NoneClosed

LEMMA StageMoves ==
    ASSUME ChannelsTypeOK, NEW a \in Promises, NEW s,
           promise' = [promise EXCEPT ![a].stage = s], UNCHANGED created
    PROVE  NoneReopened /\ NoneClosed
<1>1. /\ promise'[a] = [promise[a] EXCEPT !.stage = s]
      /\ \A b \in Promises \ {a} : promise'[b] = promise[b]
    BY DEF ChannelsTypeOK
<1>2. promise'[a].open = promise[a].open
    BY <1>1, PromiseType DEF Promise
<1> QED BY <1>1, <1>2, PromiseNumbers DEF NoneReopened, NoneClosed

LEMMA BecomeMoves ==
    ASSUME ChannelsTypeOK, NEW from, NEW to \in Stages, Become(from, to)
    PROVE  NoneReopened /\ NoneClosed
<1>1. \A a \in Promises : promise'[a].open = promise[a].open
  <2> SUFFICES ASSUME NEW a \in Promises PROVE promise'[a].open = promise[a].open
      OBVIOUS
  <2>1. promise'[a] = IF promise[a].stage = from THEN [promise[a] EXCEPT !.stage = to] ELSE promise[a]
      BY DEF Become
  <2> QED BY <2>1, PromiseType DEF Promise
<1> QED BY <1>1, PromiseNumbers DEF NoneReopened, NoneClosed

LEMMA ProgressMoves ==
    ASSUME ChannelsInv, ChannelsProgress
    PROVE  NoneReopened /\ NoneClosed
<1>0. ChannelsTypeOK BY DEF ChannelsInv
<1>1. CASE Connected
    BY <1>0, <1>1, BecomeMoves DEF Connected, Stages
<1>2. ASSUME NEW a \in Promises, Opened(a) PROVE NoneReopened /\ NoneClosed
  <2>1. promise[a].stage = "opening"
      BY <1>2 DEF Opened
  <2>2. \A b \in Promises \ {a} : promise'[b] = promise[b]
      BY <1>0, <1>2 DEF Opened, ChannelsTypeOK
  <2>3. promise'[a].open
      BY <1>0, <1>2, PromiseType DEF Opened, ChannelsTypeOK, Promise
  <2> QED BY <1>0, <2>1, <2>2, <2>3, PromiseNumbers DEF NoneReopened, NoneClosed
<1>3. ASSUME NEW a \in Promises, DeadLetterBound(a) \/ LateCatch(a)
      PROVE  NoneReopened /\ NoneClosed
    BY <1>0, <1>3, StageMoves DEF DeadLetterBound, LateCatch
<1> QED BY <1>1, <1>2, <1>3 DEF ChannelsProgress

LEMMA FaultMoves ==
    ASSUME ChannelsInv, ChannelsFault
    PROVE  NoneReopened
<1>0. ChannelsTypeOK /\ 1..created \subseteq Promises BY PromiseNumbers DEF ChannelsInv
<1>1. CASE ConnectFails
    BY <1>0, <1>1, BecomeMoves DEF ConnectFails, Stages
<1>2. CASE ConnectionCloses
  <2>1. \A a \in Promises : promise'[a] = promise[a] \/ promise'[a] = Closed(a)
      BY <1>2 DEF ConnectionCloses
  <2> QED BY <1>0, <2>1, ClosedType DEF NoneReopened
<1>3. ASSUME NEW a \in Promises, OpenFails(a) PROVE NoneReopened
    BY <1>0, <1>3, StageMoves DEF OpenFails
<1>4. ASSUME NEW a \in Promises, ChannelCloses(a) PROVE NoneReopened
  <2>1. \A b \in Promises : promise'[b] = promise[b] \/ promise'[b] = Closed(b)
      BY <1>0, <1>4 DEF ChannelCloses, CloseChannel, ChannelsTypeOK
  <2> QED BY <1>0, <2>1, ClosedType DEF NoneReopened
<1> QED BY <1>1, <1>2, <1>3, <1>4 DEF ChannelsFault

-----------------------------------------------------------------------------
(* What a step leaves of the invariants when it changes little.            *)

(* The channels that are used are open after the step if before it.        *)
SameOpen ==
    \A s \in Subscriptions : setup[s].step \in Steps \cup {"done"} =>
        /\ setup[s].chan \in 1..created /\ promise[setup[s].chan].stage = "resolved"
        /\ promise'[setup[s].chan].open <=> promise[setup[s].chan].open

LEMMA UsedStayOpen ==
    ASSUME SetupInv, NoneReopened, NoneClosed
    PROVE  SameOpen
<1> SUFFICES ASSUME NEW s \in Subscriptions, setup[s].step \in Steps \cup {"done"}
             PROVE  /\ setup[s].chan \in 1..created /\ promise[setup[s].chan].stage = "resolved"
                    /\ promise'[setup[s].chan].open <=> promise[setup[s].chan].open
    BY DEF SameOpen
<1>1. setup[s].chan \in 1..created /\ setup[s].chan \in Promises
    BY ChannelOfSetup DEF Steps
<1>2. promise[setup[s].chan].stage = "resolved"
    BY DEF SetupInv, OwnChannel, Mine
<1>3. promise[setup[s].chan].open \in BOOLEAN
    BY <1>1, PromiseType DEF SetupInv, ChannelsInv
<1> QED BY <1>1, <1>2, <1>3 DEF NoneReopened, NoneClosed

LEMMA OwnChannelKept ==
    ASSUME SetupInv, PromisesKept, created' \in Nat,
           NEW s \in Subscriptions, setup'[s].chan = setup[s].chan,
           setup[s].step # "idle" \/ setup'[s].step = "idle",
           setup'[s].step \in Steps \cup {"done"} => setup[s].step \in Steps \cup {"done"}
    PROVE  /\ setup'[s].step # "idle" => setup'[s].chan \in 1..created'
           /\ setup'[s].step \in Steps \cup {"done"} => promise'[setup'[s].chan].stage = "resolved"
BY PromiseNumbers DEF SetupInv, ChannelsInv, OwnChannel, PromisesKept, Mine, Steps

LEMMA FiniteSubset ==
    ASSUME NEW S, NEW R, IsFiniteSet(S), R \subseteq S
    PROVE  /\ IsFiniteSet(R) /\ Cardinality(R) <= Cardinality(S)
           /\ Cardinality(R) \in Nat /\ Cardinality(S) \in Nat
BY FS_Subset, FS_CardinalityType

LEMMA OneMore ==
    ASSUME NEW O, NEW N, NEW u, NEW limit \in Nat,
           IsFiniteSet(O), N \subseteq O \cup {u}, Cardinality(O) < limit
    PROVE  Cardinality(N) <= limit
<1>1. /\ IsFiniteSet(O \cup {u})
      /\ Cardinality(O \cup {u}) = IF u \in O THEN Cardinality(O) ELSE Cardinality(O) + 1
    BY FS_AddElement, Zenon
<1>2. /\ Cardinality(N) <= Cardinality(O \cup {u})
      /\ Cardinality(N) \in Nat /\ Cardinality(O) \in Nat
    BY <1>1, FiniteSubset
<1> QED BY <1>1, <1>2

LEMMA BoundKept ==
    ASSUME SetupInv, PromisesKept, ChannelsInv', unacked' \subseteq unacked, UNCHANGED legacy,
           \A u \in unacked' : setup'[u[1]].chan = setup[u[1]].chan
    PROVE  SharedBound'
<1> SUFFICES ASSUME NEW a \in Promises, promise'[a].open, ~legacy, promise'[a].key[2] > 0
             PROVE  Cardinality(Unacked(On(a))') <= promise'[a].key[2]
    BY DEF SharedBound, InProgress, ChannelLimit
<1>1. Unacked(On(a))' \subseteq Unacked(On(a))
    BY DEF SetupInv, UnackedOfActive, Unacked, On
<1>2. IsFiniteSet(Unacked(On(a)))
    BY FiniteSubset DEF SetupInv, UnackedOfActive, Unacked
<1>3. promise'[a].key[2] \in Nat
    BY Parameters DEF ChannelsInv, ChannelsTypeOK
<1>4. CASE promise[a].open
  <2>1. promise'[a].key = promise[a].key
      BY <1>4, OpenIsCreated DEF SetupInv, PromisesKept
  <2>2. Cardinality(Unacked(On(a))) <= promise[a].key[2]
      BY <1>4, <2>1 DEF SetupInv, SharedBound, InProgress, ChannelLimit
  <2> QED BY <1>1, <1>2, <1>3, <2>1, <2>2, FiniteSubset
<1>5. CASE ~promise[a].open
  <2>1. On(a) = {}
      BY <1>5 DEF SetupInv, ConsumerIsUp, Mine, On
  <2>2. Unacked(On(a))' = {}
      BY <1>1, <2>1 DEF Unacked
  <2> QED BY <1>3, <2>2, FS_EmptySet
<1> QED BY <1>4, <1>5

LEMMA SameChannels ==
    ASSUME SetupInv, UNCHANGED connection
    PROVE  /\ ChannelsInv' /\ PromisesKept /\ SameOpen /\ created' \in Nat
           /\ promise' = promise
<1>1. ChannelsInv' /\ PromisesKept BY ConnectionUnchanged DEF SetupInv
<1>2. NoneReopened /\ NoneClosed
    BY DEF connection, NoneReopened, NoneClosed
<1> QED BY <1>1, <1>2, UsedStayOpen, PromiseNumbers DEF SetupInv, ChannelsInv, connection

(* Where the consumers and the channels in use stay as they are.           *)
LEMMA ConsumersKept ==
    ASSUME SetupInv, SameOpen, UNCHANGED consumer,
           \A s \in Subscriptions :
              /\ Consumes(s) \/ Consumes(s)' => setup'[s].chan = setup[s].chan
              /\ Consumes(s)' /\ Mine(s)'.open <=> Consumes(s) /\ Mine(s)'.open
              /\ setup'[s].step \in {"unlimit", "done"} => s \in consumers'
    PROVE  ConsumerIsUp'
<1> SUFFICES ASSUME NEW s \in Subscriptions
             PROVE  consumer'[s].active <=> Consumes(s)' /\ Mine(s)'.open
    BY DEF ConsumerIsUp
<1>1. consumer'[s].active <=> Consumes(s) /\ Mine(s).open
    BY DEF SetupInv, ConsumerIsUp
<1>2. Consumes(s) => (promise'[setup[s].chan].open <=> promise[setup[s].chan].open)
    BY DEF SameOpen, Consumes, Steps
<1> QED BY <1>1, <1>2 DEF Mine

(* Who is in line on a.                                                    *)
LEMMA WaitsInLine ==
    ASSUME SetupInv, NEW a \in Promises, NEW i \in DOMAIN waiting[a]
    PROVE  /\ waiting[a][i] \in Subscriptions
           /\ setup[waiting[a][i]].step \in Steps /\ ~setup[waiting[a][i]].answered
           /\ setup[waiting[a][i]].chan = a
           /\ promise[a].open
<1>1. waiting[a] \in Seq(Subscriptions) BY DEF SetupInv, TypeOK
<1> QED BY <1>1, LenProperties, ElementOfSeq DEF SetupInv, InLine

(* Where no one enters the line or leaves what it is at.                   *)
LEMMA InLineKept ==
    ASSUME SetupInv, SameOpen, UNCHANGED waiting,
           \A s \in Subscriptions :
               setup[s].step \in Steps /\ ~setup[s].answered /\ promise[setup[s].chan].open
                   => setup'[s] = setup[s]
    PROVE  InLine'
<1> SUFFICES ASSUME NEW a \in Promises, NEW i \in DOMAIN waiting[a]
             PROVE  /\ setup'[waiting[a][i]].step \in Steps /\ ~setup'[waiting[a][i]].answered
                    /\ setup'[waiting[a][i]].chan = a
                    /\ promise'[a].open
    BY DEF InLine
<1>1. /\ waiting[a][i] \in Subscriptions
      /\ setup[waiting[a][i]].step \in Steps /\ ~setup[waiting[a][i]].answered
      /\ setup[waiting[a][i]].chan = a
      /\ promise[a].open
    BY WaitsInLine
<1> QED BY <1>1 DEF SameOpen

LEMMA SubscribeInv ==
    ASSUME SetupInv, NEW s \in Subscriptions, Subscribe(s)
    PROVE  SetupInv'
<1> DEFINE k == ChannelKey(s)
<1>0. /\ setup[s].step = "idle" /\ GetChannel(k)
      /\ setup' = [setup EXCEPT ![s].step = "channel", ![s].chan = Channel(k)]
      /\ timer' = [timer EXCEPT ![s] = TRUE]
      /\ UNCHANGED <<exchangeCache, faults, outcome, waiting, nextLimit, consumer, legacy, unacked, consumers>>
    BY DEF Subscribe, broker
<1>1. k \in Keys /\ TypeOK /\ ChannelsInv BY Parameters DEF SetupInv
<1>2. ChannelsInv' /\ PromisesKept /\ SameOpen /\ created' \in Nat
  <2>1. ChannelsInv'
      BY <1>0, <1>1, GetChannelInv DEF ChannelsInv, ChannelsTypeOK
  <2>2. created' \in Nat BY <2>1, Bounds DEF ChannelsInv, ChannelsTypeOK
  <2> QED BY <1>0, <1>1, <2>1, <2>2, GetChannelMoves, UsedStayOpen
<1>3. Channel(k) \in 1..created' /\ Channel(k) \in 0..MaxChannels
    BY <1>0, <1>1, ChannelIs, Bounds DEF Promises
<1>4. /\ setup' \in [Subscriptions -> SetupRecord]
      /\ setup'[s].step = "channel" /\ setup'[s].chan = Channel(k)
      /\ \A t \in Subscriptions \ {s} : setup'[t] = setup[t]
    BY <1>0, <1>1, <1>3, SetupType DEF TypeOK, SetupRecord, AllSteps
<1>5. TypeOK'
    BY <1>0, <1>1, <1>2, <1>4 DEF TypeOK, ChannelsInv, SetupRecord, AllSteps
<1>6. OwnChannel'
  <2> SUFFICES ASSUME NEW t \in Subscriptions
               PROVE  /\ setup'[t].step # "idle" => setup'[t].chan \in 1..created'
                      /\ setup'[t].step \in Steps \cup {"done"} => promise'[setup'[t].chan].stage = "resolved"
      BY DEF OwnChannel, Mine
  <2>1. CASE t = s BY <1>3, <1>4, <2>1 DEF Steps
  <2>2. CASE t # s BY <1>2, <1>4, <2>2, OwnChannelKept
  <2> QED BY <2>1, <2>2
<1>7. InLine'
    BY <1>0, <1>2, <1>4, InLineKept DEF Steps
<1>8. ConsumerIsUp'
    BY <1>0, <1>2, <1>4, ConsumersKept DEF SetupInv, ConsumerIsUp, Consumes
<1>9. OutcomeOfEnd'
    BY <1>0, <1>4 DEF SetupInv, OutcomeOfEnd
<1>10. UnackedOfActive'
    BY <1>0 DEF SetupInv, UnackedOfActive
<1>11. SharedBound'
  <2>1. \A u \in unacked : setup'[u[1]].chan = setup[u[1]].chan
      BY <1>0, <1>1, <1>4 DEF SetupInv, UnackedOfActive, ConsumerIsUp, Consumes, TypeOK
  <2> QED BY <1>0, <1>2, <2>1, BoundKept
<1> QED BY <1>2, <1>5, <1>6, <1>7, <1>8, <1>9, <1>10, <1>11 DEF SetupInv

LEMMA TimeoutInv ==
    ASSUME SetupInv, NEW s \in Subscriptions, Timeout(s)
    PROVE  SetupInv'
<1>0. /\ timer' = [timer EXCEPT ![s] = FALSE]
      /\ outcome' = [outcome EXCEPT ![s] = "timeout"]
      /\ UNCHANGED <<connection, setup, waiting, nextLimit, consumer, legacy, unacked, consumers>>
    BY DEF Timeout, broker
<1>1. TypeOK BY DEF SetupInv
<1>2. ChannelsInv' /\ PromisesKept /\ SameOpen /\ created' \in Nat /\ promise' = promise
    BY <1>0, SameChannels
<1>3. TypeOK'
    BY <1>0, <1>1, <1>2 DEF TypeOK, ChannelsInv
<1>4. OwnChannel'
    BY <1>0, <1>2 DEF SetupInv, OwnChannel, Mine, connection
<1>5. InLine'
    BY <1>0, <1>2, InLineKept
<1>6. ConsumerIsUp'
    BY <1>0, <1>2 DEF SetupInv, ConsumerIsUp, Consumes, Mine
<1>7. OutcomeOfEnd'
    BY <1>0, <1>1 DEF SetupInv, OutcomeOfEnd, TypeOK
<1>8. UnackedOfActive'
    BY <1>0 DEF SetupInv, UnackedOfActive
<1>9. SharedBound'
    BY <1>0, <1>2, BoundKept
<1> QED BY <1>2, <1>3, <1>4, <1>5, <1>6, <1>7, <1>8, <1>9 DEF SetupInv

LEMMA EndType ==
    ASSUME TypeOK, NEW s \in Subscriptions, NEW step \in {"done", "failed"},
           NEW result \in {"resolved", "rejected"}, End(s, step, result)
    PROVE  /\ setup' \in [Subscriptions -> SetupRecord]
           /\ setup'[s].step = step /\ ~setup'[s].answered
           /\ setup'[s].chan = setup[s].chan
           /\ \A t \in Subscriptions \ {s} : setup'[t] = setup[t] /\ outcome'[t] = outcome[t]
           /\ timer' \in [Subscriptions -> BOOLEAN]
           /\ outcome' \in [Subscriptions -> Outcomes]
           /\ outcome'[s] = IF outcome[s] = "pending" THEN result ELSE outcome[s]
<1>1. setup' = [setup EXCEPT ![s].step = step, ![s].answered = FALSE] BY DEF End
<1>2. step \in AllSteps /\ FALSE \in BOOLEAN BY DEF AllSteps
<1>3. /\ timer' \in [Subscriptions -> BOOLEAN]
      /\ outcome' \in [Subscriptions -> Outcomes]
      /\ outcome'[s] = IF outcome[s] = "pending" THEN result ELSE outcome[s]
      /\ \A t \in Subscriptions \ {s} : outcome'[t] = outcome[t]
    BY DEF End, TypeOK, Outcomes
<1> QED BY <1>1, <1>2, <1>3, SetupMoves

LEMMA FailInv ==
    ASSUME SetupInv, NEW s \in Subscriptions, Fail(s)
    PROVE  SetupInv'
<1>0. /\ Rejected(s) /\ End(s, "failed", "rejected")
      /\ UNCHANGED <<connection, waiting, nextLimit, consumer, legacy, unacked, consumers>>
    BY DEF Fail, broker
<1>1. TypeOK /\ \A t \in Subscriptions : setup[t].step \in AllSteps
    BY SetupType DEF SetupInv
<1>2. ChannelsInv' /\ PromisesKept /\ SameOpen /\ created' \in Nat /\ promise' = promise
    BY <1>0, SameChannels
<1>3. /\ setup' \in [Subscriptions -> SetupRecord]
      /\ setup'[s].step = "failed" /\ ~setup'[s].answered
      /\ setup'[s].chan = setup[s].chan
      /\ \A t \in Subscriptions \ {s} : setup'[t] = setup[t] /\ outcome'[t] = outcome[t]
      /\ timer' \in [Subscriptions -> BOOLEAN]
      /\ outcome' \in [Subscriptions -> Outcomes]
      /\ outcome'[s] = IF outcome[s] = "pending" THEN "rejected" ELSE outcome[s]
    BY <1>0, <1>1, EndType
<1>4. TypeOK'
    BY <1>0, <1>1, <1>2, <1>3 DEF TypeOK, ChannelsInv, SetupRecord, AllSteps, Outcomes
<1>5. setup[s].step \in Steps \cup {"channel"} /\ (setup[s].step \in Steps => ~Mine(s).open)
    BY <1>0 DEF Rejected, Steps
<1>6. OwnChannel'
  <2>1. ASSUME NEW t \in Subscriptions
        PROVE  /\ setup'[t].step # "idle" => setup'[t].chan \in 1..created'
               /\ setup'[t].step \in Steps \cup {"done"} => promise'[setup'[t].chan].stage = "resolved"
    <3>1. /\ setup'[t].chan = setup[t].chan
          /\ setup[t].step # "idle" \/ setup'[t].step = "idle"
          /\ setup'[t].step \in Steps \cup {"done"} => setup[t].step \in Steps \cup {"done"}
        BY <1>3, <1>5 DEF Steps
    <3> QED BY <1>2, <3>1, OwnChannelKept
  <2> QED BY <2>1 DEF OwnChannel, Mine
<1>7. InLine'
    BY <1>0, <1>2, <1>3, <1>5, InLineKept DEF Mine
<1>8. ConsumerIsUp'
  <2>1. ASSUME NEW t \in Subscriptions
        PROVE  /\ setup'[t].chan = setup[t].chan
               /\ Consumes(t)' /\ Mine(t)'.open <=> Consumes(t) /\ Mine(t)'.open
               /\ setup'[t].step \in {"unlimit", "done"} => t \in consumers'
    <3>1. CASE t # s
        BY <1>0, <1>3, <3>1 DEF SetupInv, ConsumerIsUp, Consumes
    <3>2. CASE t = s
        BY <1>2, <1>3, <1>5, <3>2 DEF Consumes, Mine, Steps
    <3> QED BY <3>1, <3>2
  <2> QED BY <1>0, <1>2, <2>1, ConsumersKept
<1>9. OutcomeOfEnd'
    BY <1>1, <1>3, <1>5 DEF SetupInv, OutcomeOfEnd, Steps
<1>10. UnackedOfActive'
    BY <1>0 DEF SetupInv, UnackedOfActive
<1>11. SharedBound'
  <2>1. \A u \in unacked : setup'[u[1]].chan = setup[u[1]].chan
      BY <1>1, <1>3 DEF TypeOK
  <2> QED BY <1>0, <1>2, <2>1, BoundKept
<1> QED BY <1>2, <1>4, <1>6, <1>7, <1>8, <1>9, <1>10, <1>11 DEF SetupInv

LEMMA Follows ==
    ASSUME NEW s \in Subscriptions, NEW step \in Steps \cup {"channel"}
    PROVE  /\ FollowedBy(s)[step] \in Steps \cup {"done"}
           /\ FollowedBy(s)[step] = "done" <=> step = "unlimit"
           /\ FollowedBy(s)[step] = "unlimit" <=> step = "consume"
<1>1. CASE step = "channel" BY <1>1 DEF FollowedBy, Steps
<1>2. CASE step = "exchange" BY <1>2 DEF FollowedBy, Steps
<1>3. CASE step = "queue" BY <1>3 DEF FollowedBy, Steps
<1>4. CASE step = "bind" BY <1>4 DEF FollowedBy, Steps
<1>5. CASE step = "rebind" BY <1>5 DEF FollowedBy, Steps
<1>6. CASE step = "limit" BY <1>6 DEF FollowedBy, Steps
<1>7. CASE step = "consume" BY <1>7 DEF FollowedBy, Steps
<1>8. CASE step = "unlimit" BY <1>8 DEF FollowedBy, Steps
<1> QED BY <1>1, <1>2, <1>3, <1>4, <1>5, <1>6, <1>7, <1>8 DEF Steps

LEMMA Appended ==
    ASSUME NEW S, NEW q \in Seq(S), NEW e \in S, IsInjective(q), \A i \in DOMAIN q : q[i] # e
    PROVE  /\ Append(q, e) \in Seq(S) /\ IsInjective(Append(q, e))
           /\ \A i \in DOMAIN Append(q, e) :
                 Append(q, e)[i] = e \/ (i \in DOMAIN q /\ Append(q, e)[i] = q[i])
<1>1. DOMAIN q = 1..Len(q) /\ Len(q) \in Nat BY LenProperties
<1> PICK r : r = Append(q, e) OBVIOUS
<1>2. /\ r \in Seq(S) /\ Len(r) = Len(q) + 1
      /\ \A i \in 1..Len(q) : r[i] = q[i]
      /\ r[Len(q) + 1] = e
    BY AppendProperties
<1>3. DOMAIN r = 1..(Len(q) + 1) BY <1>2, LenProperties
<1>4. \A i \in DOMAIN r : i \in DOMAIN q \/ i = Len(q) + 1 BY <1>1, <1>3
<1>5. \A i \in DOMAIN r : r[i] = e \/ (i \in DOMAIN q /\ r[i] = q[i])
    BY <1>1, <1>2, <1>4
<1>6. IsInjective(r)
    BY <1>1, <1>2, <1>4 DEF IsInjective
<1> QED BY <1>2, <1>5, <1>6

LEMMA Shortened ==
    ASSUME NEW S, NEW q \in Seq(S), q # <<>>, IsInjective(q)
    PROVE  /\ Tail(q) \in Seq(S) /\ IsInjective(Tail(q))
           /\ \A i \in DOMAIN Tail(q) : \E j \in DOMAIN q : Tail(q)[i] = q[j] /\ q[j] # Head(q)
<1>1. DOMAIN q = 1..Len(q) /\ Len(q) \in Nat /\ Len(q) > 0
    BY LenProperties, EmptySeq
<1>2. /\ Tail(q) \in Seq(S) /\ Len(Tail(q)) = Len(q) - 1
      /\ \A i \in 1..Len(Tail(q)) : Tail(q)[i] = q[i + 1]
    BY HeadTailProperties
<1>3. DOMAIN Tail(q) = 1..(Len(q) - 1) BY <1>2, LenProperties
<1>4. Head(q) = q[1] BY <1>1
<1>5. \A i \in DOMAIN Tail(q) : i + 1 \in DOMAIN q /\ i + 1 # 1 /\ Tail(q)[i] = q[i + 1]
    BY <1>1, <1>2, <1>3
<1>6. \A i \in DOMAIN Tail(q) : q[i + 1] # q[1]
  <2>1. 1 \in DOMAIN q BY <1>1
  <2> QED BY <1>5, <2>1 DEF IsInjective
<1>7. IsInjective(Tail(q))
  <2> SUFFICES ASSUME NEW i \in DOMAIN Tail(q), NEW j \in DOMAIN Tail(q), Tail(q)[i] = Tail(q)[j]
               PROVE  i = j
      BY DEF IsInjective
  <2>1. i + 1 \in DOMAIN q /\ j + 1 \in DOMAIN q /\ q[i + 1] = q[j + 1]
      BY <1>5
  <2>2. i + 1 = j + 1
      BY <2>1 DEF IsInjective
  <2> QED BY <1>1, <1>3, <2>2
<1> QED BY <1>2, <1>4, <1>5, <1>6, <1>7

(* A step of the chain that ends it, or sends the next request.            *)
LEMMA ContinueInv ==
    ASSUME SetupInv, NEW s \in Subscriptions, Continue(s)
    PROVE  SetupInv'
<1> DEFINE a == setup[s].chan
           next == FollowedBy(s)[setup[s].step]
           Settles == \/ next = "done" /\ End(s, "done", "resolved")
                      \/ next # "done" /\ ~promise[a].open /\ End(s, "failed", "rejected")
           Sends == /\ next # "done" /\ promise[a].open
                    /\ waiting' = [waiting EXCEPT ![a] = Append(@, s)]
                    /\ setup' = [setup EXCEPT ![s].step = next, ![s].answered = FALSE]
                    /\ UNCHANGED <<timer, outcome>>
<1>0. /\ Ready(s)
      /\ (Settles /\ UNCHANGED waiting) \/ Sends
      /\ consumers' = IF setup[s].step = "consume" THEN consumers \cup {s} ELSE consumers
      /\ UNCHANGED <<connection, nextLimit, consumer, legacy, unacked>>
    BY DEF Continue, broker
<1>1. TypeOK /\ \A t \in Subscriptions : setup[t].step \in AllSteps
    BY SetupType DEF SetupInv
<1>2. ChannelsInv' /\ PromisesKept /\ SameOpen /\ created' \in Nat /\ promise' = promise
    BY <1>0, SameChannels
<1>3. /\ setup[s].step \in Steps \cup {"channel"} /\ promise[a].stage = "resolved"
      /\ setup[s].step # "channel" => setup[s].answered
      /\ a \in 1..created /\ a \in Promises
  <2>1. setup[s].step \in Steps \cup {"channel"}
      BY <1>0 DEF Ready
  <2> QED BY <1>0, <2>1, ChannelOfSetup DEF SetupInv, OwnChannel, Ready, Mine, Steps
<1>4. /\ next \in Steps \cup {"done"}
      /\ next = "done" <=> setup[s].step = "unlimit"
      /\ next = "unlimit" <=> setup[s].step = "consume"
    BY <1>3, Follows
<1> HIDE DEF next
<1>5. /\ setup' \in [Subscriptions -> SetupRecord]
      /\ ~setup'[s].answered /\ setup'[s].chan = setup[s].chan
      /\ \A t \in Subscriptions \ {s} : setup'[t] = setup[t] /\ outcome'[t] = outcome[t]
      /\ timer' \in [Subscriptions -> BOOLEAN]
      /\ outcome' \in [Subscriptions -> Outcomes]
      /\ \/ next = "done" /\ setup'[s].step = "done"
            /\ outcome'[s] = IF outcome[s] = "pending" THEN "resolved" ELSE outcome[s]
         \/ next # "done" /\ ~promise[a].open /\ setup'[s].step = "failed"
            /\ outcome'[s] = IF outcome[s] = "pending" THEN "rejected" ELSE outcome[s]
         \/ next # "done" /\ promise[a].open /\ setup'[s].step = next /\ outcome'[s] = outcome[s]
  <2>1. CASE Settles
    <3>1. CASE next = "done" /\ End(s, "done", "resolved")
        BY <1>1, <3>1, EndType
    <3>2. CASE next # "done" /\ ~promise[a].open /\ End(s, "failed", "rejected")
        BY <1>1, <3>2, EndType
    <3> QED BY <2>1, <3>1, <3>2
  <2>2. CASE Sends
    <3>1. next \in AllSteps /\ FALSE \in BOOLEAN BY <1>4 DEF AllSteps
    <3>2. /\ setup' \in [Subscriptions -> SetupRecord]
          /\ setup'[s].step = next /\ ~setup'[s].answered /\ setup'[s].chan = setup[s].chan
          /\ \A t \in Subscriptions \ {s} : setup'[t] = setup[t]
        BY <1>1, <2>2, <3>1, SetupMoves
    <3> QED BY <1>1, <2>2, <3>2 DEF TypeOK, Outcomes
  <2> QED BY <1>0, <2>1, <2>2
<1>6. /\ waiting' \in [Promises -> Seq(Subscriptions)]
      /\ \A b \in Promises : IsInjective(waiting'[b])
      /\ \A b \in Promises : \A i \in DOMAIN waiting'[b] :
            \/ i \in DOMAIN waiting[b] /\ waiting'[b][i] = waiting[b][i]
            \/ Sends /\ b = a /\ waiting'[b][i] = s
  <2>1. CASE UNCHANGED waiting
      BY <1>1, <2>1 DEF TypeOK
  <2>2. CASE Sends
    <3>1. \A i \in DOMAIN waiting[a] : waiting[a][i] # s
        BY <1>3, WaitsInLine DEF Steps
    <3>2. /\ waiting'[a] = Append(waiting[a], s)
          /\ \A b \in Promises \ {a} : waiting'[b] = waiting[b]
        BY <1>1, <1>3, <2>2 DEF TypeOK
    <3>3. /\ waiting'[a] \in Seq(Subscriptions) /\ IsInjective(waiting'[a])
          /\ \A i \in DOMAIN waiting'[a] :
                waiting'[a][i] = s \/ (i \in DOMAIN waiting[a] /\ waiting'[a][i] = waiting[a][i])
      <4>1. waiting[a] \in Seq(Subscriptions) /\ IsInjective(waiting[a])
          BY <1>1, <1>3 DEF TypeOK
      <4>2. PICK q : q = waiting[a]
          OBVIOUS
      <4>3. /\ q \in Seq(Subscriptions) /\ IsInjective(q)
            /\ \A i \in DOMAIN q : q[i] # s
          BY <3>1, <4>1, <4>2
      <4>4. /\ Append(q, s) \in Seq(Subscriptions) /\ IsInjective(Append(q, s))
            /\ \A i \in DOMAIN Append(q, s) :
                  Append(q, s)[i] = s \/ (i \in DOMAIN q /\ Append(q, s)[i] = q[i])
          BY <4>3, Appended
      <4> QED BY <3>2, <4>2, <4>4
    <3> QED BY <1>1, <2>2, <3>2, <3>3 DEF TypeOK
  <2> QED BY <1>0, <2>1, <2>2
<1>7. TypeOK'
    BY <1>0, <1>1, <1>2, <1>5, <1>6
       DEF TypeOK, ChannelsInv, SetupRecord, AllSteps, Outcomes
<1>8. OwnChannel'
  <2> SUFFICES ASSUME NEW t \in Subscriptions
               PROVE  /\ setup'[t].step # "idle" => setup'[t].chan \in 1..created'
                      /\ setup'[t].step \in Steps \cup {"done"} => promise'[setup'[t].chan].stage = "resolved"
      BY DEF OwnChannel, Mine
  <2>1. CASE t = s BY <1>0, <1>2, <1>3, <1>5, <2>1 DEF connection
  <2>2. CASE t # s BY <1>2, <1>5, <2>2, OwnChannelKept
  <2> QED BY <2>1, <2>2
<1>9. InLine'
  <2> SUFFICES ASSUME NEW b \in Promises, NEW i \in DOMAIN waiting'[b]
               PROVE  /\ setup'[waiting'[b][i]].step \in Steps /\ ~setup'[waiting'[b][i]].answered
                      /\ setup'[waiting'[b][i]].chan = b
                      /\ promise'[b].open
      BY DEF InLine
  <2>1. CASE i \in DOMAIN waiting[b] /\ waiting'[b][i] = waiting[b][i]
    <3>1. /\ waiting[b][i] \in Subscriptions
          /\ setup[waiting[b][i]].step \in Steps /\ ~setup[waiting[b][i]].answered
          /\ setup[waiting[b][i]].chan = b /\ promise[b].open
        BY <2>1, WaitsInLine
    <3>2. waiting[b][i] # s BY <1>3, <3>1 DEF Steps
    <3> QED BY <1>2, <1>5, <2>1, <3>1, <3>2
  <2>2. CASE Sends /\ b = a /\ waiting'[b][i] = s
      BY <1>2, <1>4, <1>5, <2>2
  <2> QED BY <1>6, <2>1, <2>2
<1>10. ConsumerIsUp'
  <2>1. ASSUME NEW t \in Subscriptions
        PROVE  /\ setup'[t].chan = setup[t].chan
               /\ Consumes(t)' /\ Mine(t)'.open <=> Consumes(t) /\ Mine(t)'.open
               /\ setup'[t].step \in {"unlimit", "done"} => t \in consumers'
    <3>1. CASE t # s
        BY <1>0, <1>5, <3>1 DEF SetupInv, ConsumerIsUp, Consumes
    <3>2. CASE t = s
      <4>1. setup'[t].step \in {"unlimit", "done"} => t \in consumers'
          BY <1>0, <1>4, <1>5, <3>2 DEF SetupInv, ConsumerIsUp
      <4>2. Consumes(s) <=> setup[s].step \in {"consume", "unlimit"}
          BY <1>3 DEF Consumes, Steps
      <4>3. Mine(s)'.open => (Consumes(s)' <=> next \in {"unlimit", "done"})
          BY <1>2, <1>5 DEF Consumes, Mine
      <4> QED BY <1>4, <1>5, <3>2, <4>1, <4>2, <4>3
    <3> QED BY <3>1, <3>2
  <2> QED BY <1>0, <1>2, <2>1, ConsumersKept
<1>11. OutcomeOfEnd'
    BY <1>1, <1>3, <1>5 DEF SetupInv, OutcomeOfEnd, Steps
<1>12. UnackedOfActive'
    BY <1>0 DEF SetupInv, UnackedOfActive
<1>13. SharedBound'
  <2>1. \A u \in unacked : setup'[u[1]].chan = setup[u[1]].chan
      BY <1>1, <1>5 DEF TypeOK
  <2> QED BY <1>0, <1>2, <2>1, BoundKept
<1> QED BY <1>2, <1>7, <1>8, <1>9, <1>10, <1>11, <1>12, <1>13 DEF SetupInv

-----------------------------------------------------------------------------
(* The broker.                                                             *)

LEMMA AnswerInv ==
    ASSUME SetupInv, NEW s \in Subscriptions, Answer(s)
    PROVE  SetupInv'
<1> DEFINE a == setup[s].chan
           step == setup[s].step
<1>0. /\ step \in Steps /\ promise[a].open
      /\ waiting[a] # <<>> /\ Head(waiting[a]) = s
      /\ waiting' = [waiting EXCEPT ![a] = Tail(@)]
      /\ setup' = [setup EXCEPT ![s].answered = TRUE]
      /\ nextLimit' = nextLimit \/ \E n \in Nat : nextLimit' = [nextLimit EXCEPT ![a] = n]
      /\ consumer' = IF step = "consume"
                     THEN [consumer EXCEPT ![s] = [active |-> TRUE, limit |-> nextLimit[a]]]
                     ELSE consumer
      /\ UNCHANGED <<connection, outcome, timer, unacked, consumers, legacy>>
  <2>1. /\ nextLimit' = CASE step = "limit" -> [nextLimit EXCEPT ![a] = PrefetchOf[s]]
                         [] step = "unlimit" -> [nextLimit EXCEPT ![a] = 0]
                         [] OTHER -> nextLimit
        /\ PrefetchOf[s] \in Nat
      BY Parameters DEF Answer
  <2> QED BY <2>1 DEF Answer
<1>1. TypeOK /\ a \in Promises /\ a \in 1..created
    BY <1>0, ChannelOfSetup DEF SetupInv, Steps
<1>2. ChannelsInv' /\ PromisesKept /\ SameOpen /\ created' \in Nat /\ promise' = promise
    BY <1>0, SameChannels
<1>3. waiting[a] \in Seq(Subscriptions) /\ IsInjective(waiting[a])
    BY <1>1 DEF TypeOK
<1>4. ~setup[s].answered
  <2>1. 1 \in DOMAIN waiting[a] /\ waiting[a][1] = s
      BY <1>0, <1>3, LenProperties, EmptySeq
  <2> QED BY <1>1, <2>1, WaitsInLine
<1>5. /\ setup' \in [Subscriptions -> SetupRecord]
      /\ setup'[s].step = step /\ setup'[s].answered /\ setup'[s].chan = a
      /\ \A t \in Subscriptions \ {s} : setup'[t] = setup[t]
    BY <1>0, <1>1, SetupType DEF TypeOK, SetupRecord, AllSteps
<1>6. /\ waiting' \in [Promises -> Seq(Subscriptions)]
      /\ \A b \in Promises : IsInjective(waiting'[b])
      /\ \A b \in Promises : \A i \in DOMAIN waiting'[b] : \E j \in DOMAIN waiting[b] :
            waiting'[b][i] = waiting[b][j] /\ waiting[b][j] # s
  <2>1. waiting'[a] = Tail(waiting[a]) /\ \A b \in Promises \ {a} : waiting'[b] = waiting[b]
      BY <1>0, <1>1 DEF TypeOK
  <2>2. /\ Tail(waiting[a]) \in Seq(Subscriptions) /\ IsInjective(Tail(waiting[a]))
        /\ \A i \in DOMAIN Tail(waiting[a]) : \E j \in DOMAIN waiting[a] :
              Tail(waiting[a])[i] = waiting[a][j] /\ waiting[a][j] # s
    <3>1. PICK q : q = waiting[a] OBVIOUS
    <3>2. q \in Seq(Subscriptions) /\ IsInjective(q) /\ q # <<>> /\ Head(q) = s
        BY <1>0, <1>3, <3>1
    <3>3. /\ Tail(q) \in Seq(Subscriptions) /\ IsInjective(Tail(q))
          /\ \A i \in DOMAIN Tail(q) : \E j \in DOMAIN q : Tail(q)[i] = q[j] /\ q[j] # s
        BY <3>2, Shortened
    <3> QED BY <3>1, <3>3
  <2>3. \A b \in Promises \ {a} : \A i \in DOMAIN waiting[b] : waiting[b][i] # s
      BY WaitsInLine
  <2>4. waiting' \in [Promises -> Seq(Subscriptions)]
      BY <1>0, <1>1, <2>2 DEF TypeOK
  <2>5. ASSUME NEW b \in Promises
        PROVE  /\ IsInjective(waiting'[b])
               /\ \A i \in DOMAIN waiting'[b] : \E j \in DOMAIN waiting[b] :
                     waiting'[b][i] = waiting[b][j] /\ waiting[b][j] # s
    <3>1. CASE b = a BY <2>1, <2>2, <3>1
    <3>2. CASE b # a BY <1>1, <2>1, <2>3, <3>2 DEF TypeOK
    <3> QED BY <3>1, <3>2
  <2> QED BY <2>4, <2>5
<1>7. nextLimit' \in [Promises -> Nat]
    BY <1>0, <1>1 DEF TypeOK
<1>8. /\ consumer' \in [Subscriptions -> ConsumerRecord]
      /\ \A t \in Subscriptions :
            consumer'[t].active <=> consumer[t].active \/ (t = s /\ step = "consume")
  <2>1. [active |-> TRUE, limit |-> nextLimit[a]] \in ConsumerRecord
      BY <1>1 DEF TypeOK, ConsumerRecord
  <2> QED BY <1>0, <1>1, <2>1 DEF TypeOK, ConsumerRecord
<1>9. TypeOK'
    BY <1>0, <1>1, <1>2, <1>5, <1>6, <1>7, <1>8
       DEF TypeOK, ChannelsInv, SetupRecord, AllSteps, ConsumerRecord
<1>10. OwnChannel'
  <2> SUFFICES ASSUME NEW t \in Subscriptions
               PROVE  /\ setup'[t].step # "idle" => setup'[t].chan \in 1..created'
                      /\ setup'[t].step \in Steps \cup {"done"} => promise'[setup'[t].chan].stage = "resolved"
      BY DEF OwnChannel, Mine
  <2>1. setup'[t].chan = setup[t].chan /\ setup'[t].step = setup[t].step
      BY <1>5
  <2> QED BY <1>2, <2>1, OwnChannelKept
<1>11. InLine'
  <2> SUFFICES ASSUME NEW b \in Promises, NEW i \in DOMAIN waiting'[b]
               PROVE  /\ setup'[waiting'[b][i]].step \in Steps /\ ~setup'[waiting'[b][i]].answered
                      /\ setup'[waiting'[b][i]].chan = b
                      /\ promise'[b].open
      BY DEF InLine
  <2>1. PICK j \in DOMAIN waiting[b] : waiting'[b][i] = waiting[b][j] /\ waiting[b][j] # s
      BY <1>6
  <2>2. /\ waiting[b][j] \in Subscriptions
        /\ setup[waiting[b][j]].step \in Steps /\ ~setup[waiting[b][j]].answered
        /\ setup[waiting[b][j]].chan = b /\ promise[b].open
      BY WaitsInLine
  <2> QED BY <1>2, <1>5, <2>1, <2>2
<1>12. ConsumerIsUp'
  <2> SUFFICES ASSUME NEW t \in Subscriptions
               PROVE  /\ consumer'[t].active <=> Consumes(t)' /\ Mine(t)'.open
                      /\ setup'[t].step \in {"unlimit", "done"} => t \in consumers'
      BY DEF ConsumerIsUp
  <2>1. /\ consumer[t].active <=> Consumes(t) /\ Mine(t).open
        /\ setup[t].step \in {"unlimit", "done"} => t \in consumers
      BY DEF SetupInv, ConsumerIsUp
  <2>2. CASE t # s
      BY <1>0, <1>2, <1>5, <1>8, <2>1, <2>2 DEF Consumes, Mine
  <2>3. CASE t = s
    <3>1. Consumes(s) <=> step = "unlimit"
        BY <1>0, <1>4 DEF Consumes, Steps
    <3>2. Consumes(s)' <=> step \in {"consume", "unlimit"}
        BY <1>0, <1>5 DEF Consumes, Steps
    <3>3. Mine(s).open /\ Mine(s)'.open
        BY <1>0, <1>2, <1>5 DEF Mine
    <3> QED BY <1>0, <1>5, <1>8, <2>1, <2>3, <3>1, <3>2, <3>3
  <2> QED BY <2>2, <2>3
<1>13. OutcomeOfEnd'
    BY <1>0, <1>5 DEF SetupInv, OutcomeOfEnd
<1>14. UnackedOfActive'
    BY <1>0, <1>1, <1>8 DEF SetupInv, UnackedOfActive, TypeOK
<1>15. SharedBound'
  <2>1. \A u \in unacked : setup'[u[1]].chan = setup[u[1]].chan
      BY <1>1, <1>5 DEF TypeOK
  <2> QED BY <1>0, <1>2, <2>1, BoundKept
<1> QED BY <1>2, <1>9, <1>10, <1>11, <1>12, <1>13, <1>14, <1>15 DEF SetupInv

(* Where only the messages in progress change.                             *)
LEMMA OnlyUnacked ==
    ASSUME SetupInv,
           UNCHANGED <<connection, setup, outcome, timer, waiting, nextLimit, consumer, legacy, consumers>>,
           unacked' \subseteq Subscriptions \X Tags, UnackedOfActive', SharedBound'
    PROVE  SetupInv'
<1>1. ChannelsInv' /\ SameOpen /\ promise' = promise /\ created' = created
    BY SameChannels DEF connection
<1>2. TypeOK'
    BY <1>1 DEF SetupInv, TypeOK, ChannelsInv
<1>3. OwnChannel' /\ ConsumerIsUp' /\ OutcomeOfEnd'
    BY <1>1 DEF SetupInv, OwnChannel, ConsumerIsUp, Consumes, OutcomeOfEnd, Mine
<1>4. InLine'
    BY <1>1, InLineKept
<1> QED BY <1>1, <1>2, <1>3, <1>4 DEF SetupInv

LEMMA DeliverInv ==
    ASSUME SetupInv, NEW s \in Subscriptions, Deliver(s)
    PROVE  SetupInv'
<1> DEFINE a == setup[s].chan
<1>0. /\ Consuming(s) /\ Below(InProgress(a), ChannelLimit(a))
      /\ UNCHANGED <<connection, setup, outcome, timer, waiting, nextLimit, consumer, legacy, consumers>>
    BY DEF Deliver, broker
<1>1. PICK t \in Tags : <<s, t>> \notin unacked /\ unacked' = unacked \cup {<<s, t>>}
    BY DEF Deliver
<1>2. unacked \subseteq Subscriptions \X Tags /\ IsFiniteSet(unacked) /\ consumer[s].active
    BY <1>0 DEF SetupInv, TypeOK, UnackedOfActive, Consuming
<1>3. unacked' \subseteq Subscriptions \X Tags
    BY <1>1, <1>2
<1>4. UnackedOfActive'
  <2>1. IsFiniteSet(unacked') BY <1>1, <1>2, FS_AddElement
  <2> QED BY <1>0, <1>1, <1>2, <2>1 DEF SetupInv, UnackedOfActive
<1>5. SharedBound'
  <2> SUFFICES ASSUME NEW b \in Promises, promise[b].open, ~legacy, promise[b].key[2] > 0
               PROVE  Cardinality(Unacked(On(b))') <= promise[b].key[2]
      BY <1>0 DEF SharedBound, InProgress, ChannelLimit, connection
  <2>1. promise[b].key[2] \in Nat
      BY Parameters DEF SetupInv, ChannelsInv, ChannelsTypeOK
  <2>2. /\ Cardinality(Unacked(On(b))) <= promise[b].key[2]
        /\ IsFiniteSet(Unacked(On(b))) /\ Cardinality(Unacked(On(b))) \in Nat
      BY <1>2, FiniteSubset DEF SetupInv, SharedBound, InProgress, ChannelLimit, Unacked
  <2>3. On(b)' = On(b)
      BY <1>0 DEF On
  <2>4. CASE b = a
    <3>1. Cardinality(Unacked(On(b))) < promise[b].key[2]
        BY <1>0, <2>2, <2>4 DEF Below, ChannelLimit, InProgress
    <3>2. Unacked(On(b))' \subseteq Unacked(On(b)) \cup {<<s, t>>}
        BY <1>1, <2>3 DEF Unacked
    <3> QED BY <2>1, <2>2, <3>1, <3>2, OneMore
  <2>5. CASE b # a
    <3>1. Unacked(On(b))' = Unacked(On(b))
        BY <1>1, <2>3, <2>5 DEF Unacked, On
    <3> QED BY <2>2, <3>1
  <2> QED BY <2>4, <2>5
<1> QED BY <1>0, <1>3, <1>4, <1>5, OnlyUnacked

LEMMA FewerUnacked ==
    ASSUME SetupInv, unacked' \subseteq unacked,
           UNCHANGED <<connection, setup, outcome, timer, waiting, nextLimit, consumer, legacy, consumers>>
    PROVE  SetupInv'
<1>1. UnackedOfActive'
    BY FiniteSubset DEF SetupInv, UnackedOfActive
<1>2. SharedBound'
    BY SameChannels, BoundKept
<1> QED BY <1>1, <1>2, OnlyUnacked DEF SetupInv, TypeOK

LEMMA AckInv ==
    ASSUME SetupInv, NEW s \in Subscriptions, Ack(s)
    PROVE  SetupInv'
BY FewerUnacked DEF Ack, Unacked, broker

LEMMA ClosesInv ==
    ASSUME SetupInv, ClosesWithConsumers
    PROVE  SetupInv'
<1> DEFINE gone == {s \in Subscriptions : consumer[s].active /\ ~promise'[setup[s].chan].open}
<1>0. /\ ChannelsFault
      /\ waiting' = [a \in Promises |-> IF promise'[a].open THEN waiting[a] ELSE <<>>]
      /\ consumer' = [s \in Subscriptions |->
                        IF s \in gone THEN [active |-> FALSE, limit |-> 0] ELSE consumer[s]]
      /\ unacked' = unacked \ Unacked(gone)
      /\ nextLimit' = [a \in Promises |-> IF promise'[a].open THEN nextLimit[a] ELSE 0]
      /\ UNCHANGED <<setup, outcome, timer, consumers, legacy>>
    BY DEF ClosesWithConsumers
<1>1. TypeOK BY DEF SetupInv
<1>2. ChannelsInv' /\ PromisesKept /\ NoneReopened /\ created' \in Nat
  <2>1. ChannelsInv' BY <1>0, ChannelsFaultInv DEF SetupInv
  <2>2. created' \in Nat BY <2>1, Bounds DEF ChannelsInv, ChannelsTypeOK
  <2> QED BY <1>0, <2>1, <2>2, FaultKeeps, FaultMoves DEF SetupInv
<1>3. /\ consumer' \in [Subscriptions -> ConsumerRecord]
      /\ \A s \in Subscriptions : consumer'[s].active <=>
            consumer[s].active /\ promise'[setup[s].chan].open
    BY <1>0, <1>1 DEF TypeOK, ConsumerRecord
<1>4. /\ waiting' \in [Promises -> Seq(Subscriptions)]
      /\ \A a \in Promises : IsInjective(waiting'[a])
    BY <1>0, <1>1 DEF TypeOK, IsInjective
<1>5. TypeOK'
    BY <1>0, <1>1, <1>2, <1>3, <1>4 DEF TypeOK, ChannelsInv, ConsumerRecord
<1>6. OwnChannel'
  <2> SUFFICES ASSUME NEW s \in Subscriptions
               PROVE  /\ setup'[s].step # "idle" => setup'[s].chan \in 1..created'
                      /\ setup'[s].step \in Steps \cup {"done"} => promise'[setup'[s].chan].stage = "resolved"
      BY DEF OwnChannel, Mine
  <2> QED BY <1>0, <1>2, OwnChannelKept
<1>7. InLine'
  <2> SUFFICES ASSUME NEW a \in Promises, NEW i \in DOMAIN waiting'[a]
               PROVE  /\ setup'[waiting'[a][i]].step \in Steps /\ ~setup'[waiting'[a][i]].answered
                      /\ setup'[waiting'[a][i]].chan = a
                      /\ promise'[a].open
      BY DEF InLine
  <2>1. promise'[a].open /\ waiting'[a] = waiting[a]
      BY <1>0
  <2> QED BY <1>0, <2>1, WaitsInLine
<1>8. ConsumerIsUp'
  <2> SUFFICES ASSUME NEW s \in Subscriptions
               PROVE  /\ consumer'[s].active <=> Consumes(s)' /\ Mine(s)'.open
                      /\ setup'[s].step \in {"unlimit", "done"} => s \in consumers'
      BY DEF ConsumerIsUp
  <2>1. /\ consumer[s].active <=> Consumes(s) /\ Mine(s).open
        /\ setup[s].step \in {"unlimit", "done"} => s \in consumers
      BY DEF SetupInv, ConsumerIsUp
  <2>2. Consumes(s) /\ Mine(s)'.open => Mine(s).open
    <3>1. Consumes(s) => setup[s].chan \in 1..created /\ Mine(s).stage = "resolved"
        BY ChannelOfSetup DEF SetupInv, OwnChannel, Consumes, Steps
    <3> QED BY <1>0, <1>2, <3>1 DEF NoneReopened, Mine
  <2> QED BY <1>0, <1>3, <2>1, <2>2 DEF Consumes, Mine
<1>9. OutcomeOfEnd'
    BY <1>0 DEF SetupInv, OutcomeOfEnd
<1>10. UnackedOfActive'
  <2>1. IsFiniteSet(unacked')
      BY <1>0, FiniteSubset DEF SetupInv, UnackedOfActive
  <2>2. ASSUME NEW u \in unacked' PROVE consumer'[u[1]].active
    <3>1. u \in unacked /\ u[1] \notin gone /\ u[1] \in Subscriptions /\ consumer[u[1]].active
        BY <1>0, <1>1, <2>2 DEF Unacked, SetupInv, UnackedOfActive, TypeOK
    <3> QED BY <1>3, <3>1
  <2> QED BY <2>1, <2>2 DEF UnackedOfActive
<1>11. SharedBound'
    BY <1>0, <1>2, BoundKept
<1> QED BY <1>2, <1>5, <1>6, <1>7, <1>8, <1>9, <1>10, <1>11 DEF SetupInv

LEMMA ChannelsStepInv ==
    ASSUME SetupInv, ChannelsStep
    PROVE  SetupInv'
<1>0. /\ ChannelsProgress
      /\ UNCHANGED <<setup, outcome, timer, waiting, nextLimit, consumer, legacy, unacked, consumers>>
    BY DEF ChannelsStep, broker
<1>1. ChannelsInv' /\ PromisesKept /\ SameOpen /\ created' \in Nat
  <2>1. ChannelsInv' BY <1>0, ChannelsProgressInv DEF SetupInv
  <2>2. created' \in Nat BY <2>1, Bounds DEF ChannelsInv, ChannelsTypeOK
  <2> QED BY <1>0, <2>1, <2>2, ProgressKeeps, ProgressMoves, UsedStayOpen DEF SetupInv
<1>2. TypeOK'
    BY <1>0, <1>1 DEF SetupInv, TypeOK, ChannelsInv
<1>3. OwnChannel'
  <2> SUFFICES ASSUME NEW s \in Subscriptions
               PROVE  /\ setup'[s].step # "idle" => setup'[s].chan \in 1..created'
                      /\ setup'[s].step \in Steps \cup {"done"} => promise'[setup'[s].chan].stage = "resolved"
      BY DEF OwnChannel, Mine
  <2> QED BY <1>0, <1>1, OwnChannelKept
<1>4. InLine'
    BY <1>0, <1>1, InLineKept
<1>5. ConsumerIsUp'
    BY <1>0, <1>1, ConsumersKept DEF SetupInv, ConsumerIsUp, Consumes
<1>6. OutcomeOfEnd' /\ UnackedOfActive'
    BY <1>0 DEF SetupInv, OutcomeOfEnd, UnackedOfActive
<1>7. SharedBound'
    BY <1>0, <1>1, BoundKept
<1> QED BY <1>1, <1>2, <1>3, <1>4, <1>5, <1>6, <1>7 DEF SetupInv

-----------------------------------------------------------------------------

LEMMA SetupInit ==
    ASSUME Init
    PROVE  SetupInv
<1>1. ChannelsInv BY ChannelsInitInv DEF Init
<1>2. \A s \in Subscriptions : setup[s] = [step |-> "idle", chan |-> 0, answered |-> FALSE]
    BY DEF Init
<1>3. TypeOK
  <2>1. setup \in [Subscriptions -> SetupRecord]
      BY Bounds DEF Init, SetupRecord, AllSteps
  <2>2. waiting \in [Promises -> Seq(Subscriptions)] /\ \A a \in Promises : IsInjective(waiting[a])
      BY DEF Init, IsInjective
  <2> QED BY <1>1, <2>1, <2>2 DEF Init, TypeOK, ChannelsInv, SetupRecord, AllSteps
<1>4. OwnChannel BY <1>2 DEF OwnChannel, Steps
<1>5. InLine BY DEF Init, InLine
<1>6. ConsumerIsUp BY <1>2 DEF Init, ConsumerIsUp, Consumes
<1>7. OutcomeOfEnd BY DEF Init, OutcomeOfEnd
<1>8. UnackedOfActive BY FS_EmptySet DEF Init, UnackedOfActive
<1>9. SharedBound
    BY <1>1 DEF Init, ChannelsInit, SharedBound
<1> QED BY <1>1, <1>3, <1>4, <1>5, <1>6, <1>7, <1>8, <1>9 DEF SetupInv

LEMMA SetupStep ==
    ASSUME SetupInv, [Next]_vars
    PROVE  SetupInv'
<1>1. CASE Progress
    BY <1>1, ChannelsStepInv, TimeoutInv, ContinueInv, FailInv, AnswerInv DEF Progress
<1>2. CASE \E s \in Subscriptions : Subscribe(s) \/ Answer(s) \/ Deliver(s) \/ Ack(s)
    BY <1>2, SubscribeInv, AnswerInv, DeliverInv, AckInv
<1>3. CASE ClosesWithConsumers
    BY <1>3, ClosesInv
<1>4. CASE UNCHANGED vars
    BY <1>4, FewerUnacked DEF vars
<1> QED BY <1>1, <1>2, <1>3, <1>4 DEF Next

LEMMA SetupInvariance == Spec => []SetupInv
BY SetupInit, SetupStep, PTL DEF Spec

(* Every state is well typed (TypeOK): no subscription is twice in the     *)
(* line of requests of a channel.                                          *)
THEOREM TypeCorrect == Spec => []TypeOK
<1>1. SetupInv => TypeOK BY DEF SetupInv
<1> QED BY <1>1, SetupInvariance, PTL

(* What subscribe resolved to is so, what it rejected never consumes       *)
(* (OutcomeIsTrue), however set-ups and lost channels interleave: what     *)
(* settles the promise is the end of a chain that knows its consumer.      *)
THEOREM OutcomesTrue == Spec => []OutcomeIsTrue
<1>1. SetupInv => OutcomeIsTrue
  <2> SUFFICES ASSUME SetupInv, NEW s \in Subscriptions
               PROVE  /\ outcome[s] = "resolved" => s \in consumers /\ (Mine(s).open => consumer[s].active)
                      /\ outcome[s] = "rejected" => ~consumer[s].active
                      /\ outcome[s] = "timeout" /\ setup[s].step = "done" => s \in consumers
      BY DEF OutcomeIsTrue
  <2>1. /\ outcome[s] = "resolved" => setup[s].step = "done"
        /\ outcome[s] = "rejected" => setup[s].step = "failed"
      BY DEF SetupInv, OutcomeOfEnd
  <2> QED BY <2>1 DEF SetupInv, ConsumerIsUp, Consumes
<1> QED BY <1>1, SetupInvariance, PTL

-----------------------------------------------------------------------------
(* The limits of the consumers.                                            *)

(* Only a subscription that begins gets a channel, and keeps it.           *)
ChannelsKept ==
    \A t \in Subscriptions :
        /\ setup'[t].chan = setup[t].chan
        /\ setup'[t].step = "idle" <=> setup[t].step = "idle"

(* None gets a new limit, or messages beyond the one it has.               *)
LimitsKept ==
    /\ unacked' \subseteq unacked
    /\ \A t \in Subscriptions : consumer'[t] = consumer[t] \/ consumer'[t].limit = 0

LEMMA OwnKeyKept ==
    ASSUME SetupInv, OwnKey, PromisesKept, ChannelsKept
    PROVE  OwnKey'
<1> SUFFICES ASSUME NEW s \in Subscriptions
             PROVE  IF setup'[s].step = "idle" THEN setup'[s].chan = 0
                    ELSE promise'[setup'[s].chan].key = ChannelKey(s)
    BY DEF OwnKey, Mine, ChannelKey
<1>1. setup[s].step # "idle" => setup[s].chan \in 1..created
    BY ChannelOfSetup
<1> QED BY <1>1 DEF OwnKey, Mine, ChannelsKept, PromisesKept

LEMMA ConsumerBoundKept ==
    ASSUME SetupInv, ConsumerBound, LimitsKept
    PROVE  ConsumerBound'
<1> SUFFICES ASSUME NEW s \in Subscriptions, consumer'[s].limit > 0
             PROVE  Cardinality(Unacked({s})') <= consumer'[s].limit
    BY DEF ConsumerBound
<1>1. consumer'[s] = consumer[s] /\ consumer[s].limit \in Nat
    BY DEF LimitsKept, SetupInv, TypeOK
<1>2. Cardinality(Unacked({s})) <= consumer[s].limit
    BY <1>1 DEF ConsumerBound
<1>3. IsFiniteSet(Unacked({s})) /\ Unacked({s})' \subseteq Unacked({s})
    BY FiniteSubset DEF SetupInv, UnackedOfActive, Unacked, LimitsKept
<1> QED BY <1>1, <1>2, <1>3, FiniteSubset

(* A subscription that has a channel to itself had it already.             *)
LEMMA AloneBefore ==
    ASSUME SetupInv, OwnKey, NEW t \in Subscriptions, setup[t].step \in Steps \cup {"done"},
           setup'[t].chan = setup[t].chan, Alone(t)',
           \A u \in Subscriptions : setup'[u].chan = setup[u].chan \/ setup[u].step = "idle"
    PROVE  Alone(t)
<1>1. setup[t].chan \in 1..created /\ created \in Nat
    BY ChannelOfSetup, PromiseNumbers DEF Steps, SetupInv, ChannelsInv
<1>2. \A u \in Subscriptions : setup[u].step = "idle" => setup[u].chan # setup[t].chan
    BY <1>1 DEF OwnKey
<1> QED BY <1>2 DEF Alone

(* What a step keeps of the limit of a subscription whose set-up it leaves. *)
LEMMA LimitOfKept ==
    ASSUME SetupInv, OwnKey, OwnLimit, NEW t \in Subscriptions, setup'[t] = setup[t],
           \A u \in Subscriptions : setup'[u].chan = setup[u].chan \/ setup[u].step = "idle",
           setup[t].step \in Steps \cup {"done"} /\ Alone(t)' /\ promise'[setup[t].chan].open =>
               /\ promise[setup[t].chan].open
               /\ nextLimit'[setup[t].chan] = nextLimit[setup[t].chan]
               /\ consumer'[t] = consumer[t]
    PROVE  LimitOf(t)'
<1> SUFFICES ASSUME setup[t].step \in Steps \cup {"done"}, Alone(t)', promise'[setup[t].chan].open
             PROVE  /\ Limited(t)' => nextLimit'[setup'[t].chan] = PrefetchOf[t]
                    /\ consumer'[t].active => consumer'[t].limit = PrefetchOf[t]
    BY DEF LimitOf, Mine
<1>1. Alone(t) BY AloneBefore
<1>2. Limited(t)' <=> Limited(t) BY DEF Limited
<1> QED BY <1>1, <1>2 DEF OwnLimit, LimitOf, Mine

(* Every step but those of a chain and the broker's.                       *)
LEMMA LimitInvKept ==
    ASSUME SetupInv, LimitInv, PromisesKept, UNCHANGED setup, LimitsKept,
           \A t \in Subscriptions :
               setup[t].step \in Steps \cup {"done"} /\ promise'[setup[t].chan].open =>
                  /\ promise[setup[t].chan].open
                  /\ nextLimit'[setup[t].chan] = nextLimit[setup[t].chan]
                  /\ consumer'[t] = consumer[t]
    PROVE  LimitInv'
<1>1. OwnKey' BY OwnKeyKept DEF LimitInv, ChannelsKept
<1>2. OwnLimit' BY LimitOfKept DEF LimitInv, OwnLimit
<1>3. ConsumerBound' BY ConsumerBoundKept DEF LimitInv
<1> QED BY <1>1, <1>2, <1>3 DEF LimitInv

LEMMA SubscribeLimit ==
    ASSUME SetupInv, LimitInv, NEW s \in Subscriptions, Subscribe(s)
    PROVE  LimitInv'
<1> DEFINE k == ChannelKey(s)
<1>0. /\ setup[s].step = "idle" /\ GetChannel(k)
      /\ setup' = [setup EXCEPT ![s].step = "channel", ![s].chan = Channel(k)]
      /\ UNCHANGED <<nextLimit, consumer, unacked>>
    BY DEF Subscribe, broker
<1>1. k \in Keys /\ TypeOK /\ ChannelsInv /\ PromisesKept /\ SameOpen
    BY <1>0, Parameters, GetChannelMoves, UsedStayOpen DEF SetupInv
<1>2. /\ setup'[s].step = "channel" /\ setup'[s].chan = Channel(k)
      /\ \A t \in Subscriptions \ {s} : setup'[t] = setup[t]
    BY <1>0, <1>1, SetupType DEF TypeOK, SetupRecord, AllSteps
<1>3. promise'[Channel(k)].key = k
    BY <1>0, <1>1, ChannelIs
<1>4. OwnKey'
  <2> SUFFICES ASSUME NEW t \in Subscriptions
               PROVE  IF setup'[t].step = "idle" THEN setup'[t].chan = 0
                      ELSE promise'[setup'[t].chan].key = ChannelKey(t)
      BY DEF OwnKey, Mine, ChannelKey
  <2>1. CASE t = s BY <1>2, <1>3, <2>1
  <2>2. CASE t # s
    <3>1. setup[t].step # "idle" => setup[t].chan \in 1..created
        BY ChannelOfSetup
    <3> QED BY <1>1, <1>2, <2>2, <3>1 DEF LimitInv, OwnKey, Mine, PromisesKept
  <2> QED BY <2>1, <2>2
<1>5. OwnLimit'
  <2> SUFFICES ASSUME NEW t \in Subscriptions PROVE LimitOf(t)'
      BY DEF OwnLimit
  <2>1. CASE t = s BY <1>2, <2>1 DEF LimitOf, Steps
  <2>2. CASE t # s
      BY <1>0, <1>1, <1>2, <2>2, LimitOfKept DEF LimitInv, SameOpen
  <2> QED BY <2>1, <2>2
<1>6. ConsumerBound'
    BY <1>0, ConsumerBoundKept DEF LimitInv, LimitsKept
<1> QED BY <1>4, <1>5, <1>6 DEF LimitInv

(* The chain of s goes on, or ends.                                        *)
LEMMA ChainLimit ==
    ASSUME SetupInv, LimitInv, NEW s \in Subscriptions, Continue(s) \/ Fail(s)
    PROVE  LimitInv'
<1>0. UNCHANGED <<connection, nextLimit, consumer, unacked>>
    BY DEF Continue, Fail, broker
<1>1. TypeOK /\ PromisesKept /\ promise' = promise
    BY <1>0, SameChannels DEF SetupInv
<1>2. setup[s].step \in Steps \cup {"channel"}
    BY DEF Continue, Fail, Ready, Rejected
<1>3. /\ setup'[s].chan = setup[s].chan
      /\ \A t \in Subscriptions \ {s} : setup'[t] = setup[t]
      /\ \/ setup'[s].step \in {"done", "failed"}
         \/ /\ setup'[s].step \in Steps
            /\ setup'[s].step = "limit" => ~setup'[s].answered
            /\ setup'[s].step = "consume" => setup[s].step = "limit" /\ setup[s].answered
  <2>1. ASSUME NEW step \in {"done", "failed"}, NEW result \in {"resolved", "rejected"},
               End(s, step, result)
        PROVE  /\ setup'[s].step \in {"done", "failed"} /\ setup'[s].chan = setup[s].chan
               /\ \A t \in Subscriptions \ {s} : setup'[t] = setup[t]
      BY <1>1, <2>1, EndType
  <2>2. ASSUME Continue(s), setup' = [setup EXCEPT ![s].step = FollowedBy(s)[setup[s].step],
                                                  ![s].answered = FALSE],
               FollowedBy(s)[setup[s].step] # "done"
        PROVE  <1>3
    <3>1. PICK next : next = FollowedBy(s)[setup[s].step] OBVIOUS
    <3>2. next \in Steps BY <1>2, <2>2, <3>1, Follows
    <3>3. next = "consume" => setup[s].step = "limit" /\ setup[s].answered
      <4>1. next = "consume" => setup[s].step = "limit"
          BY <1>2, <3>1 DEF FollowedBy, Steps
      <4> QED BY <2>2, <4>1 DEF Continue, Ready
    <3>4. /\ setup'[s].step = next /\ ~setup'[s].answered /\ setup'[s].chan = setup[s].chan
          /\ \A t \in Subscriptions \ {s} : setup'[t] = setup[t]
        BY <1>1, <2>2, <3>1, <3>2, SetupMoves DEF AllSteps
    <3> QED BY <3>2, <3>3, <3>4
  <2>3. CASE Fail(s) BY <2>1, <2>3 DEF Fail
  <2>4. CASE Continue(s) BY <2>1, <2>2, <2>4 DEF Continue
  <2> QED BY <2>3, <2>4
<1>4. OwnKey'
    BY <1>1, <1>2, <1>3, OwnKeyKept DEF LimitInv, ChannelsKept, Steps
<1>5. OwnLimit'
  <2> SUFFICES ASSUME NEW t \in Subscriptions PROVE LimitOf(t)'
      BY DEF OwnLimit
  <2>1. CASE t = s
    <3> SUFFICES ASSUME setup'[s].step \in Steps \cup {"done"}, Alone(s)', promise[setup[s].chan].open
                 PROVE  /\ Limited(s)' => nextLimit[setup[s].chan] = PrefetchOf[s]
                        /\ consumer[s].active => consumer[s].limit = PrefetchOf[s]
        BY <1>0, <1>1, <1>3, <2>1 DEF LimitOf, Mine
    <3>1. setup[s].step \in Steps => Alone(s)
        BY <1>3, AloneBefore DEF LimitInv
    <3>2. Limited(s)' => Limited(s) /\ setup[s].step \in Steps
        BY <1>3 DEF Limited, Steps
    <3>3. consumer[s].active => setup[s].step \in Steps
        BY <1>2 DEF SetupInv, ConsumerIsUp, Consumes
    <3> QED BY <3>1, <3>2, <3>3 DEF LimitInv, OwnLimit, LimitOf, Mine
  <2>2. CASE t # s
      BY <1>0, <1>1, <1>3, <2>2, LimitOfKept DEF LimitInv
  <2> QED BY <2>1, <2>2
<1>6. ConsumerBound'
    BY <1>0, ConsumerBoundKept DEF LimitInv, LimitsKept
<1> QED BY <1>4, <1>5, <1>6 DEF LimitInv

LEMMA AnswerLimit ==
    ASSUME SetupInv, LimitInv, NEW s \in Subscriptions, Answer(s)
    PROVE  LimitInv'
<1> DEFINE a == setup[s].chan
           step == setup[s].step
<1>0. /\ step \in Steps /\ promise[a].open
      /\ setup' = [setup EXCEPT ![s].answered = TRUE]
      /\ UNCHANGED <<connection, unacked>>
    BY DEF Answer
<1>1. TypeOK /\ PromisesKept /\ promise' = promise /\ a \in Promises
    BY <1>0, SameChannels, ChannelOfSetup DEF SetupInv, Steps
<1>2. /\ setup'[s].step = step /\ setup'[s].answered /\ setup'[s].chan = a
      /\ \A t \in Subscriptions \ {s} : setup'[t] = setup[t]
    BY <1>0, <1>1, SetupType DEF TypeOK, SetupRecord
<1>3. ~setup[s].answered
  <2>1. waiting[a] \in Seq(Subscriptions) /\ waiting[a] # <<>> /\ Head(waiting[a]) = s
      BY <1>1 DEF Answer, TypeOK
  <2>2. 1 \in DOMAIN waiting[a] /\ waiting[a][1] = s
      BY <2>1, LenProperties, EmptySeq
  <2> QED BY <1>1, <2>2, WaitsInLine
<1>4. /\ \A b \in Promises \ {a} : nextLimit'[b] = nextLimit[b]
      /\ step = "limit" => nextLimit'[a] = PrefetchOf[s]
    BY <1>1 DEF Answer, TypeOK
<1>5. /\ \A t \in Subscriptions \ {s} : consumer'[t] = consumer[t]
      /\ consumer'[s] = IF step = "consume" THEN [active |-> TRUE, limit |-> nextLimit[a]]
                        ELSE consumer[s]
    BY <1>1 DEF Answer, TypeOK
<1>6. OwnKey'
    BY <1>1, <1>2, OwnKeyKept DEF LimitInv, ChannelsKept
<1>7. OwnLimit'
  <2> SUFFICES ASSUME NEW t \in Subscriptions PROVE LimitOf(t)'
      BY DEF OwnLimit
  <2>1. CASE t = s
    <3> SUFFICES ASSUME Alone(s)'
                 PROVE  /\ Limited(s)' => nextLimit'[a] = PrefetchOf[s]
                        /\ consumer'[s].active => consumer'[s].limit = PrefetchOf[s]
        BY <1>2, <2>1 DEF LimitOf, Mine
    <3>1. Alone(s)
        BY <1>0, <1>2, AloneBefore DEF LimitInv
    <3>2. Limited(s)' => step = "limit"
        BY <1>2 DEF Limited
    <3>3. step = "consume" => nextLimit[a] = PrefetchOf[s]
        BY <1>0, <1>3, <3>1 DEF LimitInv, OwnLimit, LimitOf, Limited, Mine
    <3>4. consumer[s].active => consumer[s].limit = PrefetchOf[s]
        BY <1>0, <3>1 DEF LimitInv, OwnLimit, LimitOf, Mine
    <3> QED BY <1>4, <1>5, <3>2, <3>3, <3>4
  <2>2. CASE t # s
    <3>1. /\ setup'[t] = setup[t]
          /\ \A u \in Subscriptions : setup'[u].chan = setup[u].chan
        BY <1>2, <2>2
    <3>2. setup[t].step \in Steps \cup {"done"} /\ Alone(t)' => nextLimit'[setup[t].chan] = nextLimit[setup[t].chan]
      <4>1. Alone(t)' => setup[t].chan # a
          BY <1>2, <2>2 DEF Alone
      <4>2. setup[t].step \in Steps \cup {"done"} => setup[t].chan \in Promises
          BY ChannelOfSetup DEF Steps
      <4> QED BY <1>4, <4>1, <4>2
    <3> QED BY <1>1, <1>5, <2>2, <3>1, <3>2, LimitOfKept DEF LimitInv
  <2> QED BY <2>1, <2>2
<1>8. ConsumerBound'
  <2> SUFFICES ASSUME NEW t \in Subscriptions, consumer'[t].limit > 0
               PROVE  Cardinality(Unacked({t})) <= consumer'[t].limit
      BY <1>0 DEF ConsumerBound, Unacked
  <2>1. CASE consumer'[t] = consumer[t]
      BY <2>1 DEF LimitInv, ConsumerBound
  <2>2. CASE consumer'[t] # consumer[t]
    <3>1. t = s /\ step = "consume" /\ consumer'[t].limit = nextLimit[a] /\ nextLimit[a] \in Nat
        BY <1>1, <1>5, <2>2 DEF TypeOK
    <3>2. ~consumer[s].active
        BY <1>3, <3>1 DEF SetupInv, ConsumerIsUp, Consumes
    <3>3. Unacked({t}) = {}
        BY <3>1, <3>2 DEF Unacked, SetupInv, UnackedOfActive
    <3> QED BY <3>1, <3>3, FS_EmptySet
  <2> QED BY <2>1, <2>2
<1> QED BY <1>6, <1>7, <1>8 DEF LimitInv

LEMMA DeliverLimit ==
    ASSUME SetupInv, LimitInv, NEW s \in Subscriptions, Deliver(s)
    PROVE  LimitInv'
<1>0. /\ Below(Cardinality(Unacked({s})), consumer[s].limit)
      /\ UNCHANGED <<connection, setup, nextLimit, consumer>>
    BY DEF Deliver, broker
<1>1. PICK u : u[1] = s /\ unacked' = unacked \cup {u}
    BY DEF Deliver
<1>2. PromisesKept /\ promise' = promise
    BY <1>0, SameChannels
<1>3. OwnKey'
    BY <1>0, <1>2, OwnKeyKept DEF LimitInv, ChannelsKept
<1>4. OwnLimit'
    BY <1>0, <1>2, LimitOfKept DEF LimitInv, OwnLimit
<1>5. ConsumerBound'
  <2> SUFFICES ASSUME NEW t \in Subscriptions, consumer[t].limit > 0
               PROVE  Cardinality(Unacked({t})') <= consumer[t].limit
      BY <1>0 DEF ConsumerBound
  <2>1. /\ Cardinality(Unacked({t})) <= consumer[t].limit
        /\ IsFiniteSet(Unacked({t})) /\ consumer[t].limit \in Nat
      BY FiniteSubset DEF LimitInv, ConsumerBound, SetupInv, TypeOK, UnackedOfActive, Unacked
  <2>2. CASE t = s
    <3>1. Cardinality(Unacked({s})) < consumer[s].limit
        BY <1>0, <2>2 DEF Below
    <3>2. Unacked({t})' \subseteq Unacked({t}) \cup {u}
        BY <1>1 DEF Unacked
    <3> QED BY <2>1, <2>2, <3>1, <3>2, OneMore
  <2>3. CASE t # s
    <3>1. Unacked({t})' = Unacked({t})
        BY <1>1, <2>3 DEF Unacked
    <3> QED BY <2>1, <3>1
  <2> QED BY <2>2, <2>3
<1> QED BY <1>3, <1>4, <1>5 DEF LimitInv

LEMMA LimitStep ==
    ASSUME SetupInv, LimitInv, [Next]_vars
    PROVE  LimitInv'
<1>1. CASE ChannelsStep
  <2>1. PromisesKept /\ SameOpen
      BY <1>1, ProgressKeeps, ProgressMoves, UsedStayOpen DEF ChannelsStep, SetupInv
  <2> QED BY <1>1, <2>1, LimitInvKept DEF ChannelsStep, broker, LimitsKept, SameOpen
<1>2. ASSUME NEW s \in Subscriptions, Subscribe(s)
      PROVE  LimitInv'
    BY <1>2, SubscribeLimit
<1>3. ASSUME NEW s \in Subscriptions, Continue(s) \/ Fail(s)
      PROVE  LimitInv'
    BY <1>3, ChainLimit
<1>4. ASSUME NEW s \in Subscriptions, Answer(s)
      PROVE  LimitInv'
    BY <1>4, AnswerLimit
<1>5. ASSUME NEW s \in Subscriptions, Deliver(s)
      PROVE  LimitInv'
    BY <1>5, DeliverLimit
<1>6. ASSUME NEW s \in Subscriptions, Timeout(s) \/ Ack(s)
      PROVE  LimitInv'
  <2>1. UNCHANGED <<connection, setup, nextLimit, consumer>> /\ unacked' \subseteq unacked
      BY <1>6 DEF Timeout, Ack, broker
  <2>2. PromisesKept /\ promise' = promise BY <2>1, SameChannels
  <2> QED BY <2>1, <2>2, LimitInvKept DEF LimitsKept
<1>7. CASE ClosesWithConsumers
  <2> DEFINE gone == {s \in Subscriptions : consumer[s].active /\ ~promise'[setup[s].chan].open}
  <2>1. /\ ChannelsFault
        /\ consumer' = [s \in Subscriptions |->
                          IF s \in gone THEN [active |-> FALSE, limit |-> 0] ELSE consumer[s]]
        /\ unacked' \subseteq unacked
        /\ nextLimit' = [a \in Promises |-> IF promise'[a].open THEN nextLimit[a] ELSE 0]
        /\ UNCHANGED setup
      BY <1>7 DEF ClosesWithConsumers
  <2>2. PromisesKept /\ NoneReopened
      BY <2>1, FaultKeeps, FaultMoves DEF SetupInv
  <2>3. \A t \in Subscriptions : consumer'[t] = consumer[t] \/ consumer'[t].limit = 0
      BY <2>1
  <2>4. ASSUME NEW t \in Subscriptions, setup[t].step \in Steps \cup {"done"},
               promise'[setup[t].chan].open
        PROVE  /\ promise[setup[t].chan].open
               /\ nextLimit'[setup[t].chan] = nextLimit[setup[t].chan]
               /\ consumer'[t] = consumer[t]
    <3>1. /\ setup[t].chan \in 1..created /\ setup[t].chan \in Promises
          /\ promise[setup[t].chan].stage = "resolved"
        BY <2>4, ChannelOfSetup DEF SetupInv, OwnChannel, Mine, Steps
    <3> QED BY <2>1, <2>2, <2>4, <3>1 DEF NoneReopened
  <2> QED BY <2>1, <2>2, <2>3, <2>4, LimitInvKept DEF LimitsKept
<1>8. CASE UNCHANGED vars
  <2>1. PromisesKept /\ promise' = promise BY <1>8, SameChannels DEF vars
  <2> QED BY <1>8, <2>1, LimitInvKept DEF vars, LimitsKept
<1> QED BY <1>1, <1>2, <1>3, <1>4, <1>5, <1>6, <1>7, <1>8 DEF Next, Progress

LEMMA LimitInvariance == Spec => []LimitInv
<1>1. Init => LimitInv
  <2> SUFFICES ASSUME Init PROVE LimitInv
      OBVIOUS
  <2>1. OwnKey /\ OwnLimit
      BY DEF Init, OwnKey, OwnLimit, LimitOf, Steps
  <2>2. ConsumerBound
      BY DEF Init, ConsumerBound
  <2> QED BY <2>1, <2>2 DEF LimitInv
<1>2. SetupInv /\ LimitInv /\ [Next]_vars => LimitInv'
    BY LimitStep
<1> QED BY <1>1, <1>2, SetupInvariance, PTL DEF Spec

(* options.prefetch is kept (PrefetchBound), however many subscriptions    *)
(* share a channel and set and reset the limits of its consumers; in       *)
(* legacy mode by the order of prefetch, consume and prefetch(0) in the    *)
(* set-up, for a subscription with a channel to itself.                    *)
THEOREM PrefetchKept == Spec => []PrefetchBound
<1>1. SetupInv /\ LimitInv => PrefetchBound
  <2> SUFFICES ASSUME SetupInv, LimitInv, NEW s \in Subscriptions, PrefetchOf[s] > 0,
                      legacy => Alone(s)
               PROVE  Cardinality(Unacked({t \in Subscriptions : setup[t].chan = setup[s].chan}))
                         <= PrefetchOf[s]
      BY DEF PrefetchBound
  <2> DEFINE a == setup[s].chan
             On_a == {t \in Subscriptions : setup[t].chan = a}
  <2>0. PrefetchOf[s] \in Nat /\ legacy \in BOOLEAN
      BY Parameters DEF SetupInv, TypeOK
  <2>1. \A u \in unacked : u[1] \in Subscriptions /\ consumer[u[1]].active
      BY DEF SetupInv, TypeOK, UnackedOfActive
  <2>2. \A t \in On_a : consumer[t].active =>
           promise[a].open /\ setup[t].step \in Steps \cup {"done"} /\ a \in Promises /\ a \in 1..created
      BY ChannelOfSetup DEF SetupInv, ConsumerIsUp, Consumes, Mine, Steps
  <2>3. CASE \A t \in On_a : ~consumer[t].active
    <3>1. Unacked(On_a) = {} BY <2>1, <2>3 DEF Unacked
    <3> QED BY <2>0, <3>1, FS_EmptySet
  <2>4. CASE ~legacy /\ \E t \in On_a : consumer[t].active
    <3>1. promise[a].open /\ a \in Promises /\ a \in 1..created
        BY <2>2, <2>4
    <3>2. setup[s].step # "idle"
        BY <3>1, PromiseNumbers DEF LimitInv, OwnKey, SetupInv, ChannelsInv
    <3>3. promise[a].key[2] = PrefetchOf[s]
      <4>1. promise[a].key = ChannelKey(s)
          BY <3>2 DEF LimitInv, OwnKey, Mine
      <4>2. ChannelKey(s) = <<QualifierOf[s], PrefetchOf[s]>>
          BY DEF ChannelKey
      <4> QED BY <4>1, <4>2
    <3>4. Unacked(On_a) = Unacked(On(a))
        BY <2>1 DEF Unacked, On
    <3> QED BY <2>4, <3>1, <3>3, <3>4 DEF SetupInv, SharedBound, InProgress, ChannelLimit
  <2>5. CASE legacy /\ \E t \in On_a : consumer[t].active
    <3>1. On_a = {s} BY <2>5 DEF Alone
    <3>2. consumer[s].active BY <2>5, <3>1
    <3>3. consumer[s].limit = PrefetchOf[s]
        BY <2>2, <2>5, <3>1, <3>2 DEF LimitInv, OwnLimit, LimitOf, Mine
    <3>4. Cardinality(Unacked({s})) <= consumer[s].limit
        BY <3>3 DEF LimitInv, ConsumerBound
    <3> QED BY <3>1, <3>3, <3>4
  <2> HIDE DEF On_a
  <2> QED BY <2>0, <2>3, <2>4, <2>5
<1> QED BY <1>1, SetupInvariance, LimitInvariance, PTL

=============================================================================
