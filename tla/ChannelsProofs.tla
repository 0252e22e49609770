--------------------------- MODULE ChannelsProofs ---------------------------
(* What the operations of Channels keep, for every value of the constants; *)
(* for the proofs about the modules that are composed with it.             *)
EXTENDS ChannelsInv, FiniteSetTheorems, TLAPS

Promise == [key: Keys, stage: Stages, open: BOOLEAN]

LEMMA Bounds ==
    /\ MaxChannels \in Nat /\ MaxAsserts \in Nat /\ MaxFaults \in Nat
    /\ 0 \in 0..MaxAsserts /\ 0 \in 0..MaxChannels
    /\ Shared \in Keys /\ Shared \notin DebugKeys
BY ChannelsAssumption

LEMMA FaultType ==
    ASSUME ChannelsTypeOK, Fault
    PROVE  faults' \in 0..MaxFaults
BY Bounds DEF ChannelsTypeOK, Fault

LEMMA PromiseType ==
    ASSUME ChannelsTypeOK, NEW a \in Promises
    PROVE  promise[a] \in Promise /\ promise[a].key \in Keys /\ promise[a].stage \in Stages
           /\ promise[a].open \in BOOLEAN
BY DEF ChannelsTypeOK, Promise

LEMMA CachedPromise ==
    ASSUME ChannelsInv, NEW k \in Keys, channels[k] # 0
    PROVE  channels[k] \in Promises /\ channels[k] \in 1..created
BY Bounds DEF ChannelsInv, ChannelsTypeOK, CreatedInOrder, Promises

LEMMA ForgetType ==
    ASSUME ChannelsTypeOK, NEW a \in Promises, Forget(a)
    PROVE  /\ channels' \in [Keys -> 0..MaxChannels]
           /\ exchangeCache' \in [Exchanges -> 0..MaxAsserts]
           /\ \A k \in Keys : channels'[k] = IF k = promise[a].key THEN 0 ELSE channels[k]
BY Bounds, PromiseType DEF ChannelsTypeOK, Forget, CleanExchangeCache

LEMMA ForgetAllType ==
    ASSUME ForgetAll
    PROVE  /\ channels' \in [Keys -> 0..MaxChannels]
           /\ exchangeCache' \in [Exchanges -> 0..MaxAsserts]
           /\ \A k \in Keys : channels'[k] = 0
           /\ connexion' = "none"
BY Bounds DEF ForgetAll, CleanExchangeCache

(* The promise that is created.                                            *)
LEMMA RequestedType ==
    ASSUME ChannelsTypeOK, NEW k \in Keys
    PROVE  /\ Requested(k) \in Promise /\ Requested(k).key = k /\ ~Requested(k).open
           /\ Requested(k).stage = IF connexion = "open" THEN "opening" ELSE "connecting"
BY DEF Requested, Promise, Stages

LEMMA ClosedType ==
    ASSUME ChannelsTypeOK, NEW a \in Promises
    PROVE  /\ Closed(a) \in Promise /\ Closed(a).key = promise[a].key /\ ~Closed(a).open
           /\ Closed(a).stage = IF promise[a].stage = "resolved" THEN "resolved" ELSE "failing"
BY PromiseType DEF Closed, Promise, Stages

-----------------------------------------------------------------------------

LEMMA GetChannelInv ==
    ASSUME ChannelsInv, NEW k \in Keys, GetChannel(k),
           exchangeCache' \in [Exchanges -> 0..MaxAsserts], faults' \in 0..MaxFaults
    PROVE  ChannelsInv'
<1>1. CASE channels[k] # 0
  <2>1. UNCHANGED <<connexion, channels, promise, created>> BY <1>1 DEF GetChannel
  <2> QED BY <2>1 DEF ChannelsInv, ChannelsTypeOK, CreatedInOrder, ConnectionMatches,
                      ChannelCacheAlive, LiveIsCached, NoneFailed, Failed, Live
<1>2. CASE channels[k] = 0
  <2> DEFINE new == created + 1
  <2>0. ChannelsTypeOK BY DEF ChannelsInv
  <2>1. /\ new \in Promises /\ created \in Nat /\ new \in 0..MaxChannels /\ created' = new
        /\ channels' = [channels EXCEPT ![k] = new]
        /\ promise' = [promise EXCEPT ![new] = Requested(k)]
        /\ connexion' = IF connexion = "none" THEN "connecting" ELSE connexion
      BY <1>2, <2>0, Bounds DEF GetChannel, ChannelsTypeOK, Promises
  <2>2. /\ promise' \in [Promises -> Promise]
        /\ promise'[new] = Requested(k) /\ \A a \in Promises \ {new} : promise'[a] = promise[a]
      BY <2>0, <2>1, RequestedType DEF ChannelsTypeOK, Promise
  <2>3. /\ channels' \in [Keys -> 0..MaxChannels]
        /\ channels'[k] = new /\ \A j \in Keys \ {k} : channels'[j] = channels[j]
      BY <2>0, <2>1 DEF ChannelsTypeOK
  <2>4. ~promise'[new].open /\ promise'[new].key = k
        /\ promise'[new].stage = IF connexion = "open" THEN "opening" ELSE "connecting"
      BY <2>0, <2>2, RequestedType
  <2>5. connexion' \in {"connecting", "open"} /\ (connexion = "open" <=> connexion' = "open")
        /\ (connexion = "connecting" => connexion' = "connecting")
      BY <2>0, <2>1 DEF ChannelsTypeOK
  <2>6. \A a \in Promises : promise'[a].open => connexion' = "open"
      BY <2>0, <2>2, <2>4, <2>5 DEF ChannelsTypeOK
  <2>7. ChannelsTypeOK'
      BY <2>1, <2>2, <2>3, <2>5, <2>6 DEF ChannelsTypeOK, Promise
  <2>8. CreatedInOrder'
    <3>1. \A a \in Promises : promise'[a].stage # "absent" <=> a <= created'
        BY <2>1, <2>2, <2>4 DEF ChannelsInv, CreatedInOrder, Promises
    <3>2. \A j \in Keys : channels'[j] <= created'
        BY <2>0, <2>1, <2>3 DEF ChannelsInv, CreatedInOrder, ChannelsTypeOK
    <3> QED BY <3>1, <3>2 DEF CreatedInOrder
  <2>9. ConnectionMatches'
      BY <2>0, <2>2, <2>4, <2>5 DEF ChannelsInv, ConnectionMatches, ChannelsTypeOK
  <2>10. ChannelCacheAlive'
    <3>1. ASSUME NEW j \in Keys \ {k}, channels'[j] # 0
          PROVE  channels'[j] \in Promises \ {new} /\ channels'[j] = channels[j]
        BY <2>1, <2>3, <3>1, CachedPromise
    <3> QED BY <2>2, <2>3, <2>4, <3>1 DEF ChannelsInv, ChannelCacheAlive, Live
  <2>11. LiveIsCached'
    <3> SUFFICES ASSUME NoneFailed', NEW a \in Promises, Live(a)'
                 PROVE  channels'[promise'[a].key] = a
        BY DEF LiveIsCached
    <3>1. CASE a = new BY <2>3, <2>4, <3>1
    <3>2. CASE a # new
      <4>1. NoneFailed
        <5>1. \A b \in Promises \ {new} : ~Failed(b) BY <2>2 DEF NoneFailed, Failed
        <5>2. ~Failed(new)
            BY <2>1 DEF ChannelsInv, CreatedInOrder, Failed
        <5> QED BY <5>1, <5>2 DEF NoneFailed
      <4>2. Live(a) /\ promise'[a].key = promise[a].key BY <2>2, <3>2 DEF Live
      <4>3. channels[promise[a].key] = a BY <4>1, <4>2 DEF ChannelsInv, LiveIsCached
      <4>4. a # 0 BY DEF Promises
      <4>5. promise[a].key # k /\ promise[a].key \in Keys BY <1>2, <2>0, <4>3, <4>4, PromiseType
      <4> QED BY <2>3, <4>2, <4>3, <4>5
    <3> QED BY <3>1, <3>2
  <2> QED BY <2>7, <2>8, <2>9, <2>10, <2>11 DEF ChannelsInv
<1> QED BY <1>1, <1>2

-----------------------------------------------------------------------------
(* A promise goes on to p, and nothing is forgotten.                       *)
LEMMA AdvanceInv ==
    ASSUME ChannelsInv, NEW a \in Promises, NEW p \in Promise,
           promise' = [promise EXCEPT ![a] = p],
           promise[a].stage \in {"opening", "asserting"}, p.key = promise[a].key,
           p.stage \in {"asserting", "resolved", "failing"},
           p.open <=> p.stage \in {"asserting", "resolved"},
           promise[a].stage = "asserting" => p.stage = "resolved",
           UNCHANGED <<connexion, channels, created, exchangeCache>>,
           faults' \in 0..MaxFaults
    PROVE  ChannelsInv'
<1>0. ChannelsTypeOK BY DEF ChannelsInv
<1>1. /\ promise' \in [Promises -> Promise]
      /\ promise'[a] = p /\ \A b \in Promises \ {a} : promise'[b] = promise[b]
    BY <1>0 DEF ChannelsTypeOK, Promise
<1>2. connexion = "open"
    BY <1>0 DEF ChannelsInv, ConnectionMatches, ChannelsTypeOK
<1>3. ChannelsTypeOK'
    BY <1>0, <1>1, <1>2 DEF ChannelsTypeOK, Promise
<1>4. CreatedInOrder'
    BY <1>1 DEF ChannelsInv, CreatedInOrder
<1>5. ConnectionMatches'
    BY <1>1, <1>2 DEF ChannelsInv, ConnectionMatches
<1>6. ChannelCacheAlive'
  <2>1. Live(a)' \/ promise'[a].stage = "failing"
      BY <1>1 DEF Live
  <2>2. \A b \in Promises : promise'[b].key = promise[b].key
      BY <1>1
  <2> QED BY <1>1, <2>1, <2>2, CachedPromise DEF ChannelsInv, ChannelCacheAlive, Live
<1>7. LiveIsCached'
  <2> SUFFICES ASSUME NoneFailed', NEW b \in Promises, Live(b)'
               PROVE  channels'[promise'[b].key] = b
      BY DEF LiveIsCached
  <2>1. NoneFailed
      BY <1>1 DEF NoneFailed, Failed
  <2>2. Live(b)
    <3>1. b = a => promise[a].stage = "opening" \/ promise[a].open
        BY DEF ChannelsInv, ConnectionMatches
    <3> QED BY <1>1, <3>1 DEF Live
  <2> QED BY <1>1, <2>1, <2>2 DEF ChannelsInv, LiveIsCached
<1> QED BY <1>3, <1>4, <1>5, <1>6, <1>7 DEF ChannelsInv

LEMMA OpenedInv ==
    ASSUME ChannelsInv, NEW a \in Promises, Opened(a)
    PROVE  ChannelsInv'
<1> DEFINE s == IF DeadLettering /\ promise[a].key \notin DebugKeys THEN "asserting" ELSE "resolved"
           p == [promise[a] EXCEPT !.open = TRUE, !.stage = s]
<1>0. ChannelsTypeOK BY DEF ChannelsInv
<1>1. p \in Promise /\ p.key = promise[a].key /\ p.open /\ p.stage = s
    BY <1>0, PromiseType DEF Promise, Stages
<1>2. promise' = [promise EXCEPT ![a] = p]
    BY <1>0 DEF Opened, ChannelsTypeOK
<1>3. faults' \in 0..MaxFaults BY <1>0 DEF Opened, ChannelsTypeOK
<1>4. promise[a].stage = "opening" /\ UNCHANGED <<connexion, channels, created, exchangeCache>>
    BY DEF Opened
<1> HIDE DEF p
<1> QED BY <1>1, <1>2, <1>3, <1>4, AdvanceInv

LEMMA DeadLetterBoundInv ==
    ASSUME ChannelsInv, NEW a \in Promises, DeadLetterBound(a)
    PROVE  ChannelsInv'
<1> DEFINE p == [promise[a] EXCEPT !.stage = "resolved"]
<1>0. ChannelsTypeOK BY DEF ChannelsInv
<1>1. p \in Promise /\ p.key = promise[a].key /\ p.open /\ p.stage = "resolved"
    BY <1>0, PromiseType DEF Promise, Stages, DeadLetterBound
<1>2. promise' = [promise EXCEPT ![a] = p]
    BY <1>0 DEF DeadLetterBound, ChannelsTypeOK
<1>3. faults' \in 0..MaxFaults BY <1>0 DEF DeadLetterBound, ChannelsTypeOK
<1>4. promise[a].stage = "asserting" /\ UNCHANGED <<connexion, channels, created, exchangeCache>>
    BY DEF DeadLetterBound
<1> HIDE DEF p
<1> QED BY <1>1, <1>2, <1>3, <1>4, AdvanceInv

LEMMA OpenFailsInv ==
    ASSUME ChannelsInv, NEW a \in Promises, OpenFails(a)
    PROVE  ChannelsInv'
<1> DEFINE p == [promise[a] EXCEPT !.stage = "failing"]
<1>0. ChannelsTypeOK BY DEF ChannelsInv
<1>1. promise[a].stage = "opening" /\ UNCHANGED <<connexion, channels, created, exchangeCache>>
    BY DEF OpenFails
<1>2. ~promise[a].open
    BY <1>1 DEF ChannelsInv, ConnectionMatches
<1>3. p \in Promise /\ p.key = promise[a].key /\ ~p.open /\ p.stage = "failing"
    BY <1>0, <1>2, PromiseType DEF Promise, Stages
<1>4. promise' = [promise EXCEPT ![a] = p]
    BY <1>0 DEF OpenFails, ChannelsTypeOK
<1>5. faults' \in 0..MaxFaults BY <1>0, FaultType DEF OpenFails
<1> HIDE DEF p
<1> QED BY <1>1, <1>3, <1>4, <1>5, AdvanceInv

LEMMA BecomeType ==
    ASSUME ChannelsTypeOK, NEW from, NEW to \in Stages, Become(from, to)
    PROVE  /\ promise' \in [Promises -> Promise]
           /\ \A a \in Promises :
                 /\ promise'[a].key = promise[a].key
                 /\ promise'[a].open <=> promise[a].open
                 /\ promise'[a].stage = IF promise[a].stage = from THEN to ELSE promise[a].stage
<1>1. \A a \in Promises : [promise[a] EXCEPT !.stage = to] \in Promise
    BY PromiseType DEF Promise
<1>2. promise' \in [Promises -> Promise]
    BY <1>1, PromiseType DEF Become
<1>3. \A a \in Promises : promise[a].stage = from =>
          /\ promise'[a] = [promise[a] EXCEPT !.stage = to] /\ promise[a] \in Promise
    BY PromiseType DEF Become
<1>4. \A a \in Promises : promise[a].stage # from => promise'[a] = promise[a]
    BY DEF Become
<1> QED BY <1>2, <1>3, <1>4 DEF Promise

LEMMA ConnectedInv ==
    ASSUME ChannelsInv, Connected
    PROVE  ChannelsInv'
<1>0. ChannelsTypeOK BY DEF ChannelsInv
<1>1. /\ promise' \in [Promises -> Promise]
      /\ \A a \in Promises :
            /\ promise'[a].key = promise[a].key
            /\ promise'[a].open <=> promise[a].open
            /\ promise'[a].stage =
                  IF promise[a].stage = "connecting" THEN "opening" ELSE promise[a].stage
    BY <1>0, BecomeType DEF Connected, Stages
<1>2. connexion = "connecting" /\ connexion' = "open"
      /\ UNCHANGED <<channels, created, exchangeCache, faults>>
    BY DEF Connected
<1>3. ChannelsTypeOK' BY <1>0, <1>1, <1>2 DEF ChannelsTypeOK, Promise
<1>4. CreatedInOrder' BY <1>1, <1>2 DEF ChannelsInv, CreatedInOrder
<1>5. ConnectionMatches' BY <1>1, <1>2 DEF ChannelsInv, ConnectionMatches
<1>6. ChannelCacheAlive'
    BY <1>1, <1>2, CachedPromise DEF ChannelsInv, ChannelCacheAlive, Live
<1>7. LiveIsCached'
    BY <1>1, <1>2 DEF ChannelsInv, LiveIsCached, NoneFailed, Failed, Live
<1> QED BY <1>3, <1>4, <1>5, <1>6, <1>7 DEF ChannelsInv

LEMMA ConnectFailsInv ==
    ASSUME ChannelsInv, ConnectFails
    PROVE  ChannelsInv'
<1>0. ChannelsTypeOK BY DEF ChannelsInv
<1>1. /\ promise' \in [Promises -> Promise]
      /\ \A a \in Promises :
            /\ promise'[a].key = promise[a].key
            /\ promise'[a].open <=> promise[a].open
            /\ promise'[a].stage =
                  IF promise[a].stage = "connecting" THEN "failing" ELSE promise[a].stage
    BY <1>0, BecomeType DEF ConnectFails, Stages
<1>2. connexion = "connecting" /\ ForgetAll /\ faults' \in 0..MaxFaults /\ UNCHANGED created
    BY <1>0, FaultType DEF ConnectFails
<1>3. \A a \in Promises : ~promise[a].open /\ promise[a].stage # "opening"
    BY <1>0, <1>2 DEF ChannelsInv, ConnectionMatches, ChannelsTypeOK
<1>4. ChannelsTypeOK'
    BY <1>0, <1>1, <1>2, <1>3, ForgetAllType DEF ChannelsTypeOK, Promise
<1>5. CreatedInOrder'
  <2>1. \A k \in Keys : channels'[k] <= created'
      BY <1>0, <1>2, ForgetAllType DEF ChannelsTypeOK
  <2> QED BY <1>1, <1>2, <2>1 DEF ChannelsInv, CreatedInOrder
<1>6. ConnectionMatches' BY <1>1, <1>3 DEF ChannelsInv, ConnectionMatches
<1>7. ChannelCacheAlive' BY <1>2, ForgetAllType DEF ChannelCacheAlive
<1>8. LiveIsCached' BY <1>1, <1>3 DEF LiveIsCached, Live
<1> QED BY <1>4, <1>5, <1>6, <1>7, <1>8 DEF ChannelsInv

LEMMA CloseChannelInv ==
    ASSUME ChannelsInv, NEW a \in Promises, promise[a].open, CloseChannel(a),
           faults' \in 0..MaxFaults
    PROVE  ChannelsInv'
<1>0. ChannelsTypeOK BY DEF ChannelsInv
<1>1. promise[a].stage \in {"asserting", "resolved"}
    BY DEF ChannelsInv, ConnectionMatches
<1>2. /\ promise' \in [Promises -> Promise]
      /\ promise'[a].key = promise[a].key /\ ~promise'[a].open
      /\ promise'[a].stage = IF promise[a].stage = "resolved" THEN "resolved" ELSE "failing"
      /\ \A b \in Promises \ {a} : promise'[b] = promise[b]
    BY <1>0, ClosedType DEF ChannelsTypeOK, Promise, CloseChannel
<1>3. /\ channels' \in [Keys -> 0..MaxChannels]
      /\ exchangeCache' \in [Exchanges -> 0..MaxAsserts]
      /\ \A k \in Keys : channels'[k] = IF k = promise[a].key THEN 0 ELSE channels[k]
      /\ UNCHANGED <<connexion, created>>
    BY <1>0, ForgetType DEF CloseChannel
<1>4. ChannelsTypeOK'
    BY <1>0, <1>2, <1>3 DEF ChannelsTypeOK, Promise
<1>5. CreatedInOrder'
  <2>1. \A k \in Keys : channels'[k] <= created'
      BY <1>0, <1>3 DEF ChannelsInv, CreatedInOrder, ChannelsTypeOK
  <2> QED BY <1>1, <1>2, <1>3, <2>1 DEF ChannelsInv, CreatedInOrder
<1>6. ConnectionMatches' BY <1>1, <1>2, <1>3 DEF ChannelsInv, ConnectionMatches
<1>7. ChannelCacheAlive'
  <2> SUFFICES ASSUME NEW k \in Keys, channels'[k] # 0
               PROVE  /\ promise'[channels'[k]].key = k
                      /\ Live(channels[k])' \/ promise'[channels'[k]].stage = "failing"
      BY DEF ChannelCacheAlive
  <2>1. channels'[k] = channels[k] /\ k # promise[a].key BY <1>3
  <2>2. channels[k] \in Promises /\ channels[k] # a
      BY <2>1, CachedPromise DEF ChannelsInv, ChannelCacheAlive
  <2> QED BY <1>2, <2>1, <2>2 DEF ChannelsInv, ChannelCacheAlive, Live
<1>8. LiveIsCached'
  <2> SUFFICES ASSUME NoneFailed', NEW b \in Promises, Live(b)'
               PROVE  channels'[promise'[b].key] = b
      BY DEF LiveIsCached
  <2>1. b # a BY <1>1, <1>2 DEF Live
  <2>2. NoneFailed BY <1>1, <1>2 DEF NoneFailed, Failed
  <2>3. Live(a) /\ Live(b) /\ promise'[b].key = promise[b].key
      BY <1>2, <2>1 DEF Live
  <2>4. channels[promise[b].key] = b /\ channels[promise[a].key] = a
      BY <2>2, <2>3 DEF ChannelsInv, LiveIsCached
  <2>5. promise[b].key \in Keys BY <1>0, PromiseType
  <2> QED BY <1>3, <2>1, <2>3, <2>4, <2>5
<1> QED BY <1>4, <1>5, <1>6, <1>7, <1>8 DEF ChannelsInv

LEMMA ConnectionClosesInv ==
    ASSUME ChannelsInv, ConnectionCloses
    PROVE  ChannelsInv'
<1>0. ChannelsTypeOK BY DEF ChannelsInv
<1>1. connexion = "open" /\ ForgetAll /\ faults' \in 0..MaxFaults /\ UNCHANGED created
    BY <1>0, FaultType DEF ConnectionCloses
<1>2. \A a \in Promises :
          promise'[a] = IF promise[a].open \/ promise[a].stage = "opening" THEN Closed(a)
                        ELSE promise[a]
    BY DEF ConnectionCloses
<1>3. promise' \in [Promises -> Promise]
    BY <1>0, ClosedType, PromiseType DEF ConnectionCloses
<1>4. \A a \in Promises : promise[a].stage # "connecting"
    BY <1>1 DEF ChannelsInv, ConnectionMatches
<1>5. \A a \in Promises :
          /\ promise'[a].key = promise[a].key
          /\ ~promise'[a].open
          /\ promise'[a].stage \notin {"connecting", "opening", "asserting"}
          /\ promise'[a].stage = "absent" <=> promise[a].stage = "absent"
  <2> SUFFICES ASSUME NEW a \in Promises
               PROVE  /\ promise'[a].key = promise[a].key
                      /\ ~promise'[a].open
                      /\ promise'[a].stage \notin {"connecting", "opening", "asserting"}
                      /\ promise'[a].stage = "absent" <=> promise[a].stage = "absent"
      OBVIOUS
  <2>1. CASE promise[a].open \/ promise[a].stage = "opening"
    <3>1. promise[a].stage # "absent" BY <2>1 DEF ChannelsInv, ConnectionMatches
    <3> QED BY <1>0, <1>2, <2>1, <3>1, ClosedType
  <2>2. CASE ~(promise[a].open \/ promise[a].stage = "opening")
      BY <1>2, <1>4, <2>2 DEF ChannelsInv, ConnectionMatches
  <2> QED BY <2>1, <2>2
<1>6. ChannelsTypeOK'
    BY <1>0, <1>1, <1>3, <1>5, ForgetAllType DEF ChannelsTypeOK, Promise
<1>7. CreatedInOrder'
  <2>1. \A k \in Keys : channels'[k] <= created'
      BY <1>0, <1>1, ForgetAllType DEF ChannelsTypeOK
  <2> QED BY <1>1, <1>5, <2>1 DEF ChannelsInv, CreatedInOrder
<1>8. ConnectionMatches' BY <1>5 DEF ConnectionMatches
<1>9. ChannelCacheAlive' BY <1>1, ForgetAllType DEF ChannelCacheAlive
<1>10. LiveIsCached' BY <1>5 DEF LiveIsCached, Live
<1> QED BY <1>6, <1>7, <1>8, <1>9, <1>10 DEF ChannelsInv

LEMMA LateCatchInv ==
    ASSUME ChannelsInv, NEW a \in Promises, LateCatch(a)
    PROVE  ChannelsInv'
<1>0. ChannelsTypeOK BY DEF ChannelsInv
<1>1. promise[a].stage = "failing" BY DEF LateCatch
<1>2. /\ promise' \in [Promises -> Promise]
      /\ promise'[a].key = promise[a].key /\ (promise'[a].open <=> promise[a].open)
      /\ promise'[a].stage = "rejected"
      /\ \A b \in Promises \ {a} : promise'[b] = promise[b]
  <2>1. [promise[a] EXCEPT !.stage = "rejected"] \in Promise
      BY <1>0, PromiseType DEF Promise, Stages
  <2>2. promise' = [promise EXCEPT ![a] = [promise[a] EXCEPT !.stage = "rejected"]]
      BY <1>0 DEF LateCatch, ChannelsTypeOK
  <2> QED BY <1>0, <2>1, <2>2, PromiseType DEF ChannelsTypeOK, Promise
<1>3. /\ channels' \in [Keys -> 0..MaxChannels]
      /\ exchangeCache' \in [Exchanges -> 0..MaxAsserts]
      /\ \A k \in Keys : channels'[k] = IF k = promise[a].key THEN 0 ELSE channels[k]
      /\ UNCHANGED <<connexion, created, faults>>
    BY <1>0, ForgetType DEF LateCatch
<1>4. ChannelsTypeOK'
    BY <1>0, <1>2, <1>3 DEF ChannelsTypeOK, Promise
<1>5. CreatedInOrder'
  <2>1. \A k \in Keys : channels'[k] <= created'
      BY <1>0, <1>3 DEF ChannelsInv, CreatedInOrder, ChannelsTypeOK
  <2> QED BY <1>1, <1>2, <1>3, <2>1 DEF ChannelsInv, CreatedInOrder
<1>6. ConnectionMatches' BY <1>1, <1>2, <1>3 DEF ChannelsInv, ConnectionMatches
<1>7. ChannelCacheAlive'
  <2> SUFFICES ASSUME NEW k \in Keys, channels'[k] # 0
               PROVE  /\ promise'[channels'[k]].key = k
                      /\ Live(channels[k])' \/ promise'[channels'[k]].stage = "failing"
      BY DEF ChannelCacheAlive
  <2>1. channels'[k] = channels[k] /\ k # promise[a].key BY <1>3
  <2>2. channels[k] \in Promises /\ channels[k] # a
      BY <2>1, CachedPromise DEF ChannelsInv, ChannelCacheAlive
  <2> QED BY <1>2, <2>1, <2>2 DEF ChannelsInv, ChannelCacheAlive, Live
<1>8. LiveIsCached' BY <1>2 DEF LiveIsCached, NoneFailed, Failed
<1> QED BY <1>4, <1>5, <1>6, <1>7, <1>8 DEF ChannelsInv

-----------------------------------------------------------------------------

LEMMA ChannelsInitInv ==
    ASSUME ChannelsInit
    PROVE  ChannelsInv
<1>1. [key |-> Shared, stage |-> "absent", open |-> FALSE] \in Promise
    BY Bounds DEF Promise, Stages
<1>2. \A a \in Promises : promise[a].stage = "absent" /\ ~promise[a].open
    BY DEF ChannelsInit
<1>3. \A k \in Keys : channels[k] = 0
    BY DEF ChannelsInit
<1>4. ChannelsTypeOK
  <2>1. 0 \in 0..MaxFaults BY Bounds
  <2> QED BY <1>1, <1>2, <2>1, Bounds DEF ChannelsInit, ChannelsTypeOK, Promise
<1>5. CreatedInOrder
    BY <1>2, <1>3, Bounds DEF ChannelsInit, CreatedInOrder, Promises
<1> QED BY <1>2, <1>3, <1>4, <1>5
        DEF ChannelsInv, ConnectionMatches, ChannelCacheAlive, LiveIsCached, Live

LEMMA ChannelsProgressInv ==
    ASSUME ChannelsInv, ChannelsProgress
    PROVE  ChannelsInv'
BY ConnectedInv, OpenedInv, DeadLetterBoundInv, LateCatchInv DEF ChannelsProgress

LEMMA ChannelsFaultInv ==
    ASSUME ChannelsInv, ChannelsFault
    PROVE  ChannelsInv'
<1>1. ASSUME NEW a \in Promises, ChannelCloses(a) PROVE ChannelsInv'
  <2>1. faults' \in 0..MaxFaults BY <1>1, FaultType DEF ChannelCloses, ChannelsInv
  <2> QED BY <1>1, <2>1, CloseChannelInv DEF ChannelCloses
<1> QED BY <1>1, ConnectFailsInv, ConnectionClosesInv, OpenFailsInv DEF ChannelsFault

LEMMA UnchangedInv ==
    ASSUME ChannelsInv, UNCHANGED connection
    PROVE  ChannelsInv'
BY DEF connection, ChannelsInv, ChannelsTypeOK, CreatedInOrder, ConnectionMatches,
       ChannelCacheAlive, LiveIsCached, NoneFailed, Failed, Live

(* Only the assertion of an exchange is remembered.                        *)
LEMMA AssertInv ==
    ASSUME ChannelsInv, UNCHANGED <<connexion, channels, promise, created, faults>>,
           exchangeCache' \in [Exchanges -> 0..MaxAsserts]
    PROVE  ChannelsInv'
BY DEF ChannelsInv, ChannelsTypeOK, CreatedInOrder, ConnectionMatches,
       ChannelCacheAlive, LiveIsCached, NoneFailed, Failed, Live

LEMMA OnePerKey ==
    ASSUME ChannelsInv
    PROVE  OneChannelPerKey
<1> SUFFICES ASSUME NoneFailed, NEW k \in Keys
             PROVE  Cardinality({a \in Promises : promise[a].key = k /\ Live(a)}) <= 1
    BY DEF OneChannelPerKey, NoneFailed, Failed
<1> DEFINE S == {a \in Promises : promise[a].key = k /\ Live(a)}
<1>1. S \subseteq {channels[k]}
    BY DEF ChannelsInv, LiveIsCached
<1>2. IsFiniteSet({channels[k]}) /\ Cardinality({channels[k]}) = 1
    BY FS_Singleton
<1>3. Cardinality(S) <= Cardinality({channels[k]}) BY <1>1, <1>2, FS_Subset
<1> QED BY <1>2, <1>3

(* The promise that getChannel returns.                                    *)
LEMMA ChannelIs ==
    ASSUME ChannelsInv, NEW k \in Keys, GetChannel(k)
    PROVE  /\ Channel(k) \in 1..created' /\ Channel(k) \in Promises
           /\ channels'[k] = Channel(k) /\ promise'[Channel(k)].key = k
<1>0. ChannelsTypeOK BY DEF ChannelsInv
<1>1. CASE channels[k] # 0
    BY <1>1, CachedPromise DEF GetChannel, Channel, ChannelsInv, ChannelCacheAlive
<1>2. CASE channels[k] = 0
  <2>1. created \in Nat /\ created + 1 \in Promises /\ created' = created + 1
      BY <1>0, <1>2, Bounds DEF GetChannel, ChannelsTypeOK, Promises
  <2>2. promise'[created + 1] = Requested(k) /\ channels'[k] = created + 1
      BY <1>0, <1>2, <2>1 DEF GetChannel, ChannelsTypeOK
  <2> QED BY <1>0, <1>2, <2>1, <2>2, RequestedType DEF Channel
<1> QED BY <1>1, <1>2

-----------------------------------------------------------------------------
(* How the promises of channels and the exchanges may change.              *)

(* A promise keeps its key, and resolves for good.                         *)
PromisesKept ==
    /\ created <= created'
    /\ \A a \in 1..created :
          /\ promise'[a].key = promise[a].key
          /\ promise[a].stage = "resolved" => promise'[a].stage = "resolved"

(* Exchanges are forgotten, or no channel that may have asserted one closes. *)
ExchangesKept ==
    \/ \A e \in Exchanges : exchangeCache'[e] = 0
    \/ /\ exchangeCache' = exchangeCache
       /\ \A a \in Promises :
             promise[a].key \notin DebugKeys /\ promise[a].open => promise'[a].open

LEMMA PromiseNumbers ==
    ASSUME ChannelsTypeOK
    PROVE  1..created \subseteq Promises /\ created \in Nat
BY Bounds DEF ChannelsTypeOK, Promises

LEMMA GetChannelKeeps ==
    ASSUME ChannelsInv, NEW k \in Keys, GetChannel(k)
    PROVE  PromisesKept /\ \A a \in 1..created : promise'[a] = promise[a]
<1>0. ChannelsTypeOK /\ created \in Nat /\ 1..created \subseteq Promises
    BY PromiseNumbers DEF ChannelsInv
<1>1. CASE channels[k] # 0 BY <1>0, <1>1 DEF GetChannel, PromisesKept
<1>2. CASE channels[k] = 0
  <2>1. created' = created + 1 /\ promise' = [promise EXCEPT ![created + 1] = Requested(k)]
      BY <1>2 DEF GetChannel
  <2>2. \A a \in 1..created : promise'[a] = promise[a]
      BY <1>0, <2>1 DEF ChannelsTypeOK
  <2> QED BY <1>0, <2>1, <2>2 DEF PromisesKept
<1> QED BY <1>1, <1>2

LEMMA CloseKeeps ==
    ASSUME ChannelsTypeOK, NEW a \in Promises, CloseChannel(a)
    PROVE  PromisesKept /\ ExchangesKept
<1>1. /\ \A b \in Promises \ {a} : promise'[b] = promise[b]
      /\ promise'[a].key = promise[a].key
      /\ promise[a].stage = "resolved" => promise'[a].stage = "resolved"
      /\ created' = created
    BY ClosedType DEF CloseChannel, ChannelsTypeOK
<1>2. PromisesKept
    BY <1>1, PromiseNumbers DEF PromisesKept
<1>3. CASE promise[a].key \in DebugKeys
    BY <1>1, <1>2, <1>3 DEF CloseChannel, Forget, ExchangesKept
<1>4. CASE promise[a].key \notin DebugKeys
    BY <1>2, <1>4 DEF CloseChannel, Forget, CleanExchangeCache, ExchangesKept
<1> QED BY <1>3, <1>4

LEMMA BecomeKeeps ==
    ASSUME ChannelsTypeOK, NEW from, NEW to \in Stages, from # "resolved",
           Become(from, to), UNCHANGED created
    PROVE  PromisesKept /\ \A a \in Promises : promise[a].open => promise'[a].open
BY BecomeType, PromiseNumbers DEF PromisesKept

LEMMA StageKeeps ==
    ASSUME ChannelsTypeOK, NEW a \in Promises, NEW s,
           promise' = [promise EXCEPT ![a].stage = s], promise[a].stage # "resolved",
           UNCHANGED created
    PROVE  PromisesKept /\ \A b \in Promises : promise[b].open => promise'[b].open
<1>1. /\ promise'[a] = [promise[a] EXCEPT !.stage = s]
      /\ \A b \in Promises \ {a} : promise'[b] = promise[b]
    BY DEF ChannelsTypeOK
<1>2. promise'[a].key = promise[a].key /\ promise'[a].open = promise[a].open
    BY <1>1, PromiseType DEF Promise
<1> QED BY <1>1, <1>2, PromiseNumbers DEF PromisesKept

LEMMA ProgressKeeps ==
    ASSUME ChannelsInv, ChannelsProgress
    PROVE  PromisesKept /\ ExchangesKept
<1>0. ChannelsTypeOK BY DEF ChannelsInv
<1>1. CASE Connected
    BY <1>0, <1>1, BecomeKeeps DEF Connected, Stages, ExchangesKept
<1>2. ASSUME NEW a \in Promises, Opened(a) PROVE PromisesKept /\ ExchangesKept
  <2>1. promise[a].stage = "opening" /\ UNCHANGED <<created, exchangeCache>>
      BY <1>2 DEF Opened
  <2>2. \A b \in Promises \ {a} : promise'[b] = promise[b]
      BY <1>0, <1>2 DEF Opened, ChannelsTypeOK
  <2>3. promise'[a].key = promise[a].key /\ promise'[a].open
      BY <1>0, <1>2, PromiseType DEF Opened, ChannelsTypeOK, Promise
  <2> QED BY <1>0, <2>1, <2>2, <2>3, PromiseNumbers DEF PromisesKept, ExchangesKept
<1>3. ASSUME NEW a \in Promises, DeadLetterBound(a) PROVE PromisesKept /\ ExchangesKept
    BY <1>0, <1>3, StageKeeps DEF DeadLetterBound, ExchangesKept
<1>4. ASSUME NEW a \in Promises, LateCatch(a) PROVE PromisesKept /\ ExchangesKept
  <2>1. PromisesKept /\ \A b \in Promises : promise[b].open => promise'[b].open
      BY <1>0, <1>4, StageKeeps DEF LateCatch
  <2> QED BY <1>4, <2>1 DEF LateCatch, Forget, CleanExchangeCache, ExchangesKept
<1> QED BY <1>1, <1>2, <1>3, <1>4 DEF ChannelsProgress

LEMMA FaultKeeps ==
    ASSUME ChannelsInv, ChannelsFault
    PROVE  PromisesKept /\ ExchangesKept
<1>0. ChannelsTypeOK BY DEF ChannelsInv
<1>1. CASE ConnectFails
    BY <1>0, <1>1, BecomeKeeps
       DEF ConnectFails, Stages, ForgetAll, CleanExchangeCache, ExchangesKept
<1>2. CASE ConnectionCloses
  <2>1. \A a \in Promises :
            /\ promise'[a].key = promise[a].key
            /\ promise[a].stage = "resolved" => promise'[a].stage = "resolved"
    <3>1. \A a \in Promises : promise'[a] = promise[a] \/ promise'[a] = Closed(a)
        BY <1>2 DEF ConnectionCloses
    <3>2. \A a \in Promises : Closed(a).key = promise[a].key
                             /\ (promise[a].stage = "resolved" => Closed(a).stage = "resolved")
        BY <1>0, ClosedType
    <3> QED BY <3>1, <3>2
  <2> QED BY <1>0, <1>2, <2>1, PromiseNumbers
          DEF ConnectionCloses, ForgetAll, CleanExchangeCache, PromisesKept, ExchangesKept
<1>3. ASSUME NEW a \in Promises, OpenFails(a) PROVE PromisesKept /\ ExchangesKept
    BY <1>0, <1>3, StageKeeps DEF OpenFails, ExchangesKept
<1>4. ASSUME NEW a \in Promises, ChannelCloses(a) PROVE PromisesKept /\ ExchangesKept
    BY <1>0, <1>4, CloseKeeps DEF ChannelCloses
<1> QED BY <1>1, <1>2, <1>3, <1>4 DEF ChannelsFault

LEMMA UnchangedKeeps ==
    ASSUME ChannelsInv, UNCHANGED <<promise, created>>
    PROVE  PromisesKept
BY PromiseNumbers DEF ChannelsInv, PromisesKept

LEMMA ConnectionUnchanged ==
    ASSUME ChannelsInv, UNCHANGED connection
    PROVE  ChannelsInv' /\ PromisesKept /\ ExchangesKept
<1>1. ChannelsInv' BY UnchangedInv
<1>2. PromisesKept BY UnchangedKeeps DEF connection
<1> QED BY <1>1, <1>2 DEF connection, ExchangesKept

LEMMA GetChannelExchanges ==
    ASSUME ChannelsInv, NEW k \in Keys, GetChannel(k), UNCHANGED exchangeCache
    PROVE  ExchangesKept
<1>1. created \in Nat BY PromiseNumbers DEF ChannelsInv
<1>2. \A a \in Promises : promise[a].open => a \in 1..created
    BY <1>1 DEF ChannelsInv, ConnectionMatches, CreatedInOrder, Promises
<1>3. \A a \in 1..created : promise'[a] = promise[a]
    BY GetChannelKeeps
<1> QED BY <1>2, <1>3 DEF ExchangesKept

=============================================================================
