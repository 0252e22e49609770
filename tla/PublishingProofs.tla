-------------------------- MODULE PublishingProofs --------------------------
(* Theorems about Publishing, for every value of its constants: any number *)
(* of calls, channels, exchanges and faults.                               *)
EXTENDS PublishingInv, ChannelsProofs

CallRecord == [stage: CallStages, chan: 0..MaxChannels, debug: BOOLEAN,
               via: 0..MaxAsserts, tries: 0..MaxTries]
Assertion == [chan: 0..MaxChannels, asked: BOOLEAN, ok: BOOLEAN]

(* What TypeOK says of the calls and of the assertions.                    *)
PublishingTypeOK ==
    /\ call \in [Calls -> CallRecord]
    /\ asserts \in [Assertions -> Assertion]
    /\ asserted \in 0..MaxAsserts
    /\ written \in [Calls -> Nat]

LEMMA Types == TypeOK <=> ChannelsTypeOK /\ PublishingTypeOK
BY DEF TypeOK, PublishingTypeOK, CallRecord, Assertion

LEMMA KeyTypes ==
    /\ DebugKey \in Keys /\ DebugKey \in DebugKeys
    /\ Shared \in Keys /\ Shared \notin DebugKeys /\ DebugKey # Shared
    /\ MaxTries \in Nat /\ Served \subseteq Debugged
    /\ \A c \in Calls : ExchangeOf[c] \in Exchanges
BY CallsAssumption, ChannelsAssumption

LEMMA CallType ==
    ASSUME PublishingTypeOK, NEW c \in Calls
    PROVE  /\ call[c] \in CallRecord
           /\ call[c].stage \in CallStages /\ call[c].chan \in 0..MaxChannels
           /\ call[c].debug \in BOOLEAN
           /\ call[c].via \in 0..MaxAsserts /\ call[c].tries \in 0..MaxTries
BY DEF PublishingTypeOK, CallRecord

(* The call c becomes p, and no other changes.                             *)
Becomes(c, p) ==
    /\ call'[c] = p
    /\ \A d \in Calls \ {c} : call'[d] = call[d]

LEMMA BecomesType ==
    ASSUME PublishingTypeOK, NEW c \in Calls, NEW p \in CallRecord, call' = [call EXCEPT ![c] = p]
    PROVE  Becomes(c, p) /\ call' \in [Calls -> CallRecord]
BY DEF PublishingTypeOK, Becomes

LEMMA GotoType ==
    ASSUME PublishingTypeOK, NEW c \in Calls, NEW stage \in CallStages, Goto(c, stage)
    PROVE  /\ call' \in [Calls -> CallRecord]
           /\ \A d \in Calls \ {c} : call'[d] = call[d]
           /\ call'[c].stage = stage
           /\ call'[c].chan = IF stage \in {"checking", "exchange"} THEN call[c].chan ELSE 0
           /\ call'[c].via = IF stage = "exchange" THEN call[c].via ELSE 0
           /\ call'[c].debug = call[c].debug /\ call'[c].tries = call[c].tries
<1> DEFINE p == [call[c] EXCEPT
                    !.stage = stage,
                    !.chan = IF stage \in {"checking", "exchange"} THEN call[c].chan ELSE 0,
                    !.via = IF stage = "exchange" THEN call[c].via ELSE 0]
<1>1. 0 \in 0..MaxChannels /\ 0 \in 0..MaxAsserts BY Bounds
<1>2. call' = [call EXCEPT ![c] = p] BY DEF PublishingTypeOK, Goto
<1>3. /\ p \in CallRecord /\ p.stage = stage
      /\ p.chan = IF stage \in {"checking", "exchange"} THEN call[c].chan ELSE 0
      /\ p.via = IF stage = "exchange" THEN call[c].via ELSE 0
      /\ p.debug = call[c].debug /\ p.tries = call[c].tries
    BY <1>1, CallType DEF CallRecord
<1> HIDE DEF p
<1> QED BY <1>2, <1>3, BecomesType DEF Becomes

LEMMA AwaitType ==
    ASSUME PublishInv, NEW c \in Calls, NEW k \in Keys, NEW stage \in CallStages, Await(c, k, stage)
    PROVE  /\ call' \in [Calls -> CallRecord]
           /\ \A d \in Calls \ {c} : call'[d] = call[d]
           /\ call'[c].stage = stage /\ call'[c].chan = Channel(k)
           /\ call'[c].debug = call[c].debug /\ call'[c].tries = call[c].tries
<1> DEFINE p == [call[c] EXCEPT !.stage = stage, !.chan = Channel(k)]
<1>0. PublishingTypeOK /\ ChannelsTypeOK BY Types DEF PublishInv
<1>1. Channel(k) \in 0..MaxChannels
    BY ChannelIs, Bounds DEF Await, PublishInv, Promises
<1>2. call' = [call EXCEPT ![c] = p] BY <1>0 DEF PublishingTypeOK, Await
<1>3. /\ p \in CallRecord /\ p.stage = stage /\ p.chan = Channel(k)
      /\ p.debug = call[c].debug /\ p.tries = call[c].tries
    BY <1>0, <1>1, CallType DEF CallRecord
<1> HIDE DEF p
<1> QED BY <1>0, <1>2, <1>3, BecomesType DEF Becomes

-----------------------------------------------------------------------------
(* What is kept.                                                           *)

LEMMA InvParts ==
    ASSUME PublishInv
    PROVE  /\ ChannelsTypeOK /\ PublishingTypeOK /\ ChannelsInv /\ OwnChannel
           /\ asserted \in Nat /\ created \in Nat
           /\ asserted \in 0..MaxAsserts /\ MaxAsserts \in Nat
           /\ 1..created \subseteq Promises
BY Types, Bounds, PromiseNumbers DEF PublishInv, PublishingTypeOK

LEMMA OthersOwn ==
    ASSUME PublishInv, NEW d \in Calls, call'[d] = call[d], PromisesKept,
           created' \in Nat, asserted' \in Nat, asserted <= asserted'
    PROVE  Own(d)'
<1>0. Own(d) /\ created \in Nat /\ asserted \in Nat BY InvParts DEF OwnChannel
<1> USE DEF OfDebug, OfShared, At, Mine
<1>1. CASE OfDebug(d) \/ OfShared(d)
  <2>1. call[d].chan \in 1..created BY <1>0, <1>1 DEF Own
  <2>2. /\ call[d].chan \in 1..created'
        /\ promise'[call[d].chan].key = promise[call[d].chan].key
        /\ promise[call[d].chan].stage = "resolved" => promise'[call[d].chan].stage = "resolved"
      BY <1>0, <2>1 DEF PromisesKept
  <2>3. call[d].via \in 1..asserted => call[d].via \in 1..asserted' BY <1>0
  <2> QED BY <1>0, <2>2, <2>3 DEF Own
<1>2. CASE ~(OfDebug(d) \/ OfShared(d)) BY <1>2 DEF Own
<1> QED BY <1>1, <1>2

LEMMA AssertsKept ==
    ASSUME PublishInv, PromisesKept, ExchangesKept, created' \in Nat,
           UNCHANGED <<asserts, asserted>>
    PROVE  AssertedOnShared' /\ ExchangeCacheAlive'
<1>0. /\ AssertedOnShared /\ ExchangeCacheAlive
      /\ asserted \in Nat /\ created \in Nat /\ 1..created \subseteq Promises
      /\ asserts \in [Assertions -> Assertion]
      /\ asserted \in 0..MaxAsserts /\ MaxAsserts \in Nat
      /\ exchangeCache \in [Exchanges -> 0..MaxAsserts]
    BY InvParts DEF PublishInv, PublishingTypeOK, ChannelsTypeOK
<1>1. \A n \in Assertions : n <= asserted =>
          /\ asserts[n].chan \in 1..created'
          /\ promise'[asserts[n].chan].key = Shared
          /\ promise'[asserts[n].chan].stage = "resolved"
    BY <1>0 DEF AssertedOnShared, PromisesKept
<1>2. \A e \in Exchanges : exchangeCache'[e] <= asserted
    BY <1>0 DEF AssertedOnShared, ExchangesKept
<1>3. AssertedOnShared'
    BY <1>0, <1>1, <1>2 DEF AssertedOnShared
<1>4. ExchangeCacheAlive'
  <2> SUFFICES ASSUME NEW e \in Exchanges, exchangeCache'[e] # 0, asserts[exchangeCache'[e]].ok
               PROVE  promise'[asserts[exchangeCache'[e]].chan].open
      BY DEF ExchangeCacheAlive
  <2>1. /\ exchangeCache'[e] = exchangeCache[e]
        /\ \A a \in Promises :
              promise[a].key \notin DebugKeys /\ promise[a].open => promise'[a].open
      BY DEF ExchangesKept
  <2> DEFINE n == exchangeCache[e]
  <2>2. n \in Assertions /\ n <= asserted
      BY <1>0, <2>1 DEF AssertedOnShared, Assertions
  <2>3. promise[asserts[n].chan].open
      BY <1>0, <2>1 DEF ExchangeCacheAlive
  <2>4. asserts[n].chan \in Promises /\ promise[asserts[n].chan].key \notin DebugKeys
      BY <1>0, <2>2, KeyTypes DEF AssertedOnShared
  <2> QED BY <2>1, <2>3, <2>4
<1> QED BY <1>3, <1>4

(* A step of the call c that neither asserts an exchange nor writes.       *)
LEMMA CallStepInv ==
    ASSUME PublishInv, NEW c \in Calls, call' \in [Calls -> CallRecord],
           \A d \in Calls \ {c} : call'[d] = call[d],
           At(c, "resolved")' <=> At(c, "resolved"), Own(c)',
           ChannelsInv', PromisesKept, ExchangesKept, UNCHANGED <<asserts, asserted, written>>
    PROVE  PublishInv'
<1>0. /\ PublishingTypeOK /\ created' \in Nat /\ asserted \in Nat /\ ChannelsTypeOK'
    BY InvParts, Bounds DEF ChannelsInv, ChannelsTypeOK
<1>1. TypeOK'
    BY <1>0 DEF TypeOK, PublishingTypeOK, CallRecord, Assertion
<1>2. OwnChannel'
    BY <1>0, OthersOwn DEF OwnChannel
<1>3. AssertedOnShared' /\ ExchangeCacheAlive' BY <1>0, AssertsKept
<1>4. WrittenWhenResolved' BY DEF PublishInv, WrittenWhenResolved, At
<1> QED BY <1>1, <1>2, <1>3, <1>4 DEF PublishInv

LEMMA ChannelsStepInv ==
    ASSUME PublishInv, ChannelsInv', PromisesKept, ExchangesKept, UNCHANGED publishing
    PROVE  PublishInv'
<1>0. /\ PublishingTypeOK /\ created' \in Nat /\ asserted \in Nat /\ ChannelsTypeOK'
      /\ UNCHANGED <<call, asserts, asserted, written>>
    BY InvParts, Bounds DEF ChannelsInv, ChannelsTypeOK, publishing
<1>1. TypeOK'
    BY <1>0 DEF TypeOK, PublishingTypeOK, CallRecord, Assertion
<1>2. OwnChannel'
    BY <1>0, OthersOwn DEF OwnChannel
<1>3. AssertedOnShared' /\ ExchangeCacheAlive' BY <1>0, AssertsKept
<1>4. WrittenWhenResolved' BY <1>0 DEF PublishInv, WrittenWhenResolved, At
<1> QED BY <1>1, <1>2, <1>3, <1>4 DEF PublishInv

-----------------------------------------------------------------------------
(* The steps of a call.                                                    *)

LEMMA IdleOwn ==
    ASSUME NEW c \in Calls,
           call'[c].stage \notin {"debugChannel", "checking", "channel", "exchange"}
    PROVE  Own(c)'
BY DEF Own, OfDebug, OfShared, At

(* c goes to where it has no channel.                                      *)
LEMMA LeaveInv ==
    ASSUME PublishInv, NEW c \in Calls, NEW stage \in CallStages, Goto(c, stage),
           stage \notin {"debugChannel", "checking", "channel", "exchange", "resolved"},
           ~At(c, "resolved"),
           ChannelsInv', PromisesKept, ExchangesKept, UNCHANGED <<asserts, asserted, written>>
    PROVE  PublishInv'
<1>1. /\ call' \in [Calls -> CallRecord]
      /\ \A d \in Calls \ {c} : call'[d] = call[d]
      /\ call'[c].stage = stage
    BY InvParts, GotoType
<1>2. Own(c)' BY <1>1, IdleOwn
<1>3. At(c, "resolved")' <=> At(c, "resolved") BY <1>1 DEF At
<1> QED BY <1>1, <1>2, <1>3, CallStepInv

LEMMA AwaitInv ==
    ASSUME PublishInv, NEW c \in Calls, NEW k \in Keys, NEW stage \in CallStages,
           Await(c, k, stage), ~At(c, "resolved"),
           \/ k = DebugKey /\ stage = "debugChannel"
           \/ k = Shared /\ stage = "channel",
           UNCHANGED <<asserts, asserted, written>>
    PROVE  PublishInv'
<1>0. ChannelsInv /\ GetChannel(k) /\ UNCHANGED <<exchangeCache, faults>>
    BY DEF Await, PublishInv
<1>1. /\ call' \in [Calls -> CallRecord]
      /\ \A d \in Calls \ {c} : call'[d] = call[d]
      /\ call'[c].stage = stage /\ call'[c].chan = Channel(k)
    BY AwaitType
<1>2. ChannelsInv' /\ PromisesKept /\ ExchangesKept
    BY <1>0, GetChannelInv, GetChannelKeeps, GetChannelExchanges DEF ChannelsInv, ChannelsTypeOK
<1>3. Channel(k) \in 1..created' /\ promise'[Channel(k)].key = k
    BY <1>0, ChannelIs
<1>4. Own(c)'
    BY <1>1, <1>3, KeyTypes DEF Own, OfDebug, OfShared, At, Mine
<1>5. At(c, "resolved")' <=> At(c, "resolved") BY <1>1 DEF At
<1> QED BY <1>1, <1>2, <1>4, <1>5, CallStepInv

LEMMA SendCheckInv ==
    ASSUME PublishInv, NEW c \in Calls, SendCheck(c)
    PROVE  PublishInv'
<1>1. ChannelsInv' /\ PromisesKept /\ ExchangesKept /\ UNCHANGED <<asserts, asserted, written>>
    BY ConnectionUnchanged DEF PublishInv, SendCheck
<1>2. CASE Goto(c, "rejected") \/ Goto(c, "checked")
    BY <1>1, <1>2, LeaveInv DEF SendCheck, At, CallStages
<1>3. CASE Goto(c, "checking") /\ Mine(c).stage = "resolved"
  <2>1. /\ call' \in [Calls -> CallRecord]
        /\ \A d \in Calls \ {c} : call'[d] = call[d]
        /\ call'[c].stage = "checking" /\ call'[c].chan = call[c].chan
      BY <1>3, InvParts, GotoType DEF CallStages
  <2>2. Own(c) /\ At(c, "debugChannel") BY InvParts DEF OwnChannel, SendCheck
  <2>3. Own(c)'
      BY <1>3, <2>1, <2>2 DEF SendCheck, connection, Own, OfDebug, OfShared, At, Mine
  <2>4. At(c, "resolved")' <=> At(c, "resolved") BY <2>1, <2>2 DEF At
  <2> QED BY <1>1, <2>1, <2>3, <2>4, CallStepInv
<1> QED BY <1>2, <1>3 DEF SendCheck

LEMMA QueueExistsInv ==
    ASSUME PublishInv, NEW c \in Calls, QueueExists(c)
    PROVE  PublishInv'
<1>1. ChannelsInv' /\ PromisesKept /\ ExchangesKept /\ UNCHANGED <<asserts, asserted, written>>
    BY ConnectionUnchanged DEF PublishInv, QueueExists
<1> DEFINE p == [call[c] EXCEPT !.stage = "checked", !.chan = 0, !.debug = TRUE]
<1>2. p \in CallRecord /\ p.stage = "checked"
    BY InvParts, CallType, Bounds DEF CallRecord, CallStages
<1>3. call' = [call EXCEPT ![c] = p] BY InvParts DEF PublishingTypeOK, QueueExists
<1> HIDE DEF p
<1>4. call' \in [Calls -> CallRecord] /\ Becomes(c, p)
    BY <1>2, <1>3, InvParts, BecomesType
<1>5. Own(c)' BY <1>2, <1>4, IdleOwn DEF Becomes
<1>6. At(c, "resolved")' <=> At(c, "resolved") BY <1>2, <1>4 DEF At, Becomes, QueueExists
<1> QED BY <1>1, <1>4, <1>5, <1>6, CallStepInv DEF Becomes

LEMMA PublishAgainInv ==
    ASSUME PublishInv, NEW c \in Calls, PublishAgain(c)
    PROVE  PublishInv'
<1>1. ChannelsInv' /\ PromisesKept /\ ExchangesKept /\ UNCHANGED <<asserts, asserted, written>>
    BY ConnectionUnchanged DEF PublishInv, PublishAgain
<1> DEFINE p == [call[c] EXCEPT !.stage = FirstStage(c), !.debug = FALSE, !.tries = call[c].tries + 1]
<1>2. p \in CallRecord /\ p.stage \in {"queued", "checked"}
  <2>1. call[c].tries + 1 \in 0..MaxTries
      BY InvParts, CallType, KeyTypes DEF PublishAgain
  <2> QED BY <2>1, InvParts, CallType DEF CallRecord, CallStages, FirstStage
<1>3. call' = [call EXCEPT ![c] = p] BY InvParts DEF PublishingTypeOK, PublishAgain
<1> HIDE DEF p
<1>4. call' \in [Calls -> CallRecord] /\ Becomes(c, p)
    BY <1>2, <1>3, InvParts, BecomesType
<1>5. Own(c)' BY <1>2, <1>4, IdleOwn DEF Becomes
<1>6. At(c, "resolved")' <=> At(c, "resolved") BY <1>2, <1>4 DEF At, Becomes, PublishAgain
<1> QED BY <1>1, <1>4, <1>5, <1>6, CallStepInv DEF Becomes

LEMMA QueueMissingInv ==
    ASSUME PublishInv, NEW c \in Calls, QueueMissing(c)
    PROVE  PublishInv'
<1>1. call[c].chan \in Promises
    BY InvParts DEF OwnChannel, Own, OfDebug, QueueMissing, At
<1>2. faults' \in 0..MaxFaults
    BY InvParts DEF QueueMissing, ChannelsTypeOK
<1>3. ChannelsInv'
    BY <1>1, <1>2, InvParts, CloseChannelInv DEF QueueMissing, Mine
<1>4. PromisesKept /\ ExchangesKept
    BY <1>1, InvParts, CloseKeeps DEF QueueMissing
<1> QED BY <1>3, <1>4, LeaveInv DEF QueueMissing, At, CallStages

LEMMA WriteInv ==
    ASSUME PublishInv, NEW c \in Calls, Write(c)
    PROVE  PublishInv'
<1>1. ChannelsInv' /\ PromisesKept /\ ExchangesKept /\ UNCHANGED <<asserts, asserted>>
    BY ConnectionUnchanged DEF PublishInv, Write
<1>2. CASE ~Mine(c).open
    BY <1>1, <1>2, LeaveInv DEF Write, At, CallStages
<1>3. CASE Mine(c).open
  <2>0. /\ PublishingTypeOK /\ created' \in Nat /\ asserted \in Nat /\ ChannelsTypeOK'
      BY <1>1, InvParts, Bounds DEF ChannelsInv, ChannelsTypeOK
  <2>1. /\ call' \in [Calls -> CallRecord]
        /\ \A d \in Calls \ {c} : call'[d] = call[d]
        /\ call'[c].stage = "resolved"
      BY <1>3, <2>0, GotoType DEF Write, CallStages
  <2>2. written[c] = 0 /\ written' = [written EXCEPT ![c] = written[c] + 1]
      BY <1>3 DEF Write, At, PublishInv, WrittenWhenResolved
  <2>3. written' \in [Calls -> Nat] /\ WrittenWhenResolved'
      BY <2>0, <2>1, <2>2 DEF PublishingTypeOK, PublishInv, WrittenWhenResolved, At
  <2>4. TypeOK'
      BY <1>1, <2>0, <2>1, <2>3 DEF TypeOK, PublishingTypeOK, CallRecord, Assertion
  <2>5. OwnChannel'
      BY <1>1, <2>0, <2>1, OthersOwn, IdleOwn DEF OwnChannel
  <2>6. AssertedOnShared' /\ ExchangeCacheAlive' BY <1>1, <2>0, AssertsKept
  <2> QED BY <1>1, <2>3, <2>4, <2>5, <2>6 DEF PublishInv
<1> QED BY <1>2, <1>3

LEMMA AssertExchangeInv ==
    ASSUME PublishInv, NEW c \in Calls, AssertExchange(c)
    PROVE  PublishInv'
<1> DEFINE e == ExchangeOf[c]
           n == IF exchangeCache[e] # 0 THEN exchangeCache[e] ELSE asserted + 1
           p == [call[c] EXCEPT !.stage = "exchange", !.via = n]
<1>0. /\ At(c, "channel") /\ Mine(c).stage = "resolved" /\ e \in Exchanges
      /\ UNCHANGED <<connexion, channels, promise, created, faults, written>>
      /\ PublishingTypeOK /\ ChannelsTypeOK
      /\ asserted \in 0..MaxAsserts /\ MaxAsserts \in Nat /\ asserted \in Nat
      /\ created \in Nat
    BY InvParts, KeyTypes DEF AssertExchange
<1>1. Own(c) /\ call[c].chan \in 1..created /\ Mine(c).key = Shared
    BY <1>0, InvParts DEF OwnChannel, Own, OfShared, At
<1>2. /\ exchangeCache' \in [Exchanges -> 0..MaxAsserts]
      /\ asserts' \in [Assertions -> Assertion]
      /\ asserted' \in 0..MaxAsserts /\ asserted <= asserted'
      /\ n \in 1..asserted' /\ n \in 0..MaxAsserts
      /\ \A m \in 1..asserted : asserts'[m] = asserts[m]
      /\ \A m \in Assertions : m > asserted' => asserts'[m] = asserts[m]
      /\ asserted' # asserted => /\ asserted' = asserted + 1 /\ asserted' \in Assertions
                                 /\ asserts'[asserted'].chan = call[c].chan
                                 /\ ~asserts'[asserted'].ok
      /\ \A x \in Exchanges : exchangeCache'[x] \in {exchangeCache[x], asserted'}
      /\ asserted' = asserted => exchangeCache' = exchangeCache
  <2>1. CASE exchangeCache[e] # 0
    <3>1. UNCHANGED <<exchangeCache, asserts, asserted>> BY <2>1 DEF AssertExchange
    <3>2. exchangeCache[e] \in 1..asserted
        BY <1>0, <2>1 DEF PublishInv, AssertedOnShared, ChannelsTypeOK
    <3> QED BY <1>0, <2>1, <3>1, <3>2 DEF PublishingTypeOK, ChannelsTypeOK
  <2>2. CASE exchangeCache[e] = 0
    <3> DEFINE r == [chan |-> call[c].chan, asked |-> Mine(c).open, ok |-> FALSE]
    <3>1. /\ asserted < MaxAsserts /\ asserted' = asserted + 1
          /\ asserts' = [asserts EXCEPT ![asserted + 1] = r]
          /\ exchangeCache' = [exchangeCache EXCEPT ![e] = asserted + 1]
        BY <2>2 DEF AssertExchange
    <3>2. asserted + 1 \in Assertions /\ asserted + 1 \in 0..MaxAsserts
        BY <1>0, <3>1 DEF Assertions
    <3>3. r \in Assertion /\ r.chan = call[c].chan /\ ~r.ok
        BY <1>0, <1>1, InvParts, PromiseType, CallType DEF Assertion, Mine
    <3> HIDE DEF r
    <3>4. /\ asserts' \in [Assertions -> Assertion]
          /\ asserts'[asserted + 1] = r
          /\ \A m \in Assertions \ {asserted + 1} : asserts'[m] = asserts[m]
        BY <1>0, <3>1, <3>2, <3>3 DEF PublishingTypeOK
    <3>5. /\ exchangeCache' \in [Exchanges -> 0..MaxAsserts]
          /\ \A x \in Exchanges : exchangeCache'[x] \in {exchangeCache[x], asserted + 1}
        BY <1>0, <3>1, <3>2 DEF ChannelsTypeOK
    <3> QED BY <1>0, <2>2, <3>1, <3>2, <3>3, <3>4, <3>5 DEF Assertions
  <2> QED BY <2>1, <2>2
<1>3. p \in CallRecord /\ p.stage = "exchange" /\ p.chan = call[c].chan /\ p.via = n
    BY <1>0, <1>2, CallType DEF CallRecord, CallStages
<1>4. call' = [call EXCEPT ![c] = p]
    BY <1>0 DEF AssertExchange, PublishingTypeOK
<1> HIDE DEF p, n
<1>5. call' \in [Calls -> CallRecord] /\ Becomes(c, p)
    BY <1>0, <1>3, <1>4, BecomesType
<1>6. ChannelsInv' BY <1>0, <1>2, InvParts, AssertInv
<1>7. TypeOK'
    BY <1>0, <1>2, <1>5, <1>6
       DEF TypeOK, PublishingTypeOK, CallRecord, Assertion, ChannelsInv
<1>8. OwnChannel'
  <2>1. Own(c)'
      BY <1>0, <1>1, <1>2, <1>3, <1>5 DEF Becomes, Own, OfDebug, OfShared, At, Mine
  <2>2. PromisesKept BY <1>0, InvParts, UnchangedKeeps
  <2>3. asserted' \in Nat /\ created' \in Nat BY <1>0, <1>2
  <2> QED BY <1>2, <1>5, <2>1, <2>2, <2>3, OthersOwn DEF Becomes, OwnChannel
<1>9. AssertedOnShared'
  <2>1. \A x \in Exchanges : exchangeCache'[x] <= asserted'
      BY <1>0, <1>2 DEF PublishInv, AssertedOnShared, ChannelsTypeOK
  <2>2. ASSUME NEW m \in Assertions, m <= asserted'
        PROVE  /\ asserts'[m].chan \in 1..created'
               /\ promise'[asserts'[m].chan].key = Shared
               /\ promise'[asserts'[m].chan].stage = "resolved"
    <3>1. CASE m <= asserted
      <4>1. asserts'[m] = asserts[m] BY <1>0, <1>2, <3>1 DEF Assertions
      <4> QED BY <1>0, <3>1, <4>1 DEF PublishInv, AssertedOnShared
    <3>2. CASE ~(m <= asserted)
      <4>1. m = asserted' /\ asserted' # asserted
          BY <1>0, <1>2, <2>2, <3>2 DEF Assertions
      <4> QED BY <1>0, <1>1, <1>2, <4>1 DEF Mine
    <3> QED BY <3>1, <3>2
  <2>3. ASSUME NEW m \in Assertions, m > asserted'
        PROVE  ~asserts'[m].asked /\ ~asserts'[m].ok
    <3>1. m > asserted /\ asserts'[m] = asserts[m]
        BY <1>0, <1>2, <2>3 DEF Assertions
    <3> QED BY <3>1 DEF PublishInv, AssertedOnShared
  <2> QED BY <2>1, <2>2, <2>3 DEF AssertedOnShared
<1>10. ExchangeCacheAlive'
  <2> SUFFICES ASSUME NEW x \in Exchanges, exchangeCache'[x] # 0, asserts'[exchangeCache'[x]].ok
               PROVE  promise'[asserts'[exchangeCache'[x]].chan].open
      BY DEF ExchangeCacheAlive
  <2>1. exchangeCache'[x] = exchangeCache[x]
      BY <1>2
  <2>2. exchangeCache[x] \in 1..asserted
      BY <1>0, <2>1 DEF PublishInv, AssertedOnShared, ChannelsTypeOK
  <2>3. asserts'[exchangeCache[x]] = asserts[exchangeCache[x]]
      BY <1>2, <2>2
  <2> QED BY <1>0, <2>1, <2>3 DEF PublishInv, ExchangeCacheAlive
<1>11. WrittenWhenResolved'
  <2>1. \A d \in Calls : At(d, "resolved")' <=> At(d, "resolved")
      BY <1>0, <1>3, <1>5 DEF Becomes, At
  <2> QED BY <1>0, <2>1 DEF PublishInv, WrittenWhenResolved
<1> QED BY <1>6, <1>7, <1>8, <1>9, <1>10, <1>11 DEF PublishInv

LEMMA AssertOkInv ==
    ASSUME PublishInv, NEW n \in Assertions, AssertOk(n)
    PROVE  PublishInv'
<1> DEFINE r == [asserts[n] EXCEPT !.ok = TRUE]
<1>0. /\ asserts[n].asked /\ promise[asserts[n].chan].open
      /\ UNCHANGED <<connection, call, asserted, written>>
      /\ PublishingTypeOK /\ ChannelsTypeOK
    BY InvParts DEF AssertOk
<1>1. r \in Assertion /\ r.chan = asserts[n].chan /\ asserts' = [asserts EXCEPT ![n] = r]
    BY <1>0 DEF AssertOk, PublishingTypeOK, Assertion
<1> HIDE DEF r
<1>2. /\ asserts' \in [Assertions -> Assertion] /\ asserts'[n] = r
      /\ \A m \in Assertions \ {n} : asserts'[m] = asserts[m]
    BY <1>0, <1>1 DEF PublishingTypeOK
<1>3. ChannelsInv' /\ UNCHANGED <<promise, created, exchangeCache>>
    BY <1>0, InvParts, ConnectionUnchanged DEF connection
<1>4. TypeOK'
    BY <1>0, <1>2, <1>3 DEF TypeOK, PublishingTypeOK, CallRecord, Assertion, ChannelsInv
<1>5. OwnChannel'
  <2>1. PromisesKept BY <1>3, InvParts, UnchangedKeeps
  <2> QED BY <1>0, <1>3, <2>1, InvParts, OthersOwn DEF OwnChannel
<1>6. AssertedOnShared'
  <2>1. n <= asserted
      BY <1>0, InvParts DEF PublishInv, AssertedOnShared, Assertions
  <2>2. \A m \in Assertions : m > asserted => asserts'[m] = asserts[m]
      BY <1>2, <2>1, InvParts DEF Assertions
  <2>3. \A m \in Assertions : asserts'[m].chan = asserts[m].chan
      BY <1>1, <1>2
  <2> QED BY <1>0, <1>3, <2>2, <2>3 DEF PublishInv, AssertedOnShared
<1>7. ExchangeCacheAlive'
  <2> SUFFICES ASSUME NEW x \in Exchanges, exchangeCache'[x] # 0, asserts'[exchangeCache'[x]].ok
               PROVE  promise'[asserts'[exchangeCache'[x]].chan].open
      BY DEF ExchangeCacheAlive
  <2>1. CASE exchangeCache[x] = n BY <1>0, <1>1, <1>2, <1>3, <2>1
  <2>2. CASE exchangeCache[x] # n
    <3>1. exchangeCache[x] \in Assertions
        BY <1>0, <1>3, Bounds DEF ChannelsTypeOK, Assertions
    <3> QED BY <1>2, <1>3, <2>2, <3>1 DEF PublishInv, ExchangeCacheAlive
  <2> QED BY <2>1, <2>2
<1>8. WrittenWhenResolved' BY <1>0 DEF PublishInv, WrittenWhenResolved, At
<1> QED BY <1>3, <1>4, <1>5, <1>6, <1>7, <1>8 DEF PublishInv

-----------------------------------------------------------------------------

LEMMA CallInv ==
    ASSUME PublishInv, NEW c \in Calls, CallStep(c)
    PROVE  PublishInv'
<1> USE DEF CallStages, At
<1>1. CASE Check(c) BY <1>1, AwaitInv, KeyTypes DEF Check
<1>2. CASE SendCheck(c) BY <1>2, SendCheckInv
<1>3. CASE QueueExists(c) BY <1>3, QueueExistsInv
<1>4. CASE QueueMissing(c) BY <1>4, QueueMissingInv
<1>5. CASE CheckFails(c)
    BY <1>5, InvParts, ConnectionUnchanged, LeaveInv DEF CheckFails
<1>6. CASE AskChannel(c) BY <1>6, AwaitInv, KeyTypes DEF AskChannel
<1>7. CASE AssertExchange(c) BY <1>7, AssertExchangeInv
<1>8. CASE NoChannel(c)
    BY <1>8, InvParts, ConnectionUnchanged, LeaveInv DEF NoChannel
<1>9. CASE Write(c) BY <1>9, WriteInv
<1>10. CASE NoExchange(c)
    BY <1>10, InvParts, ConnectionUnchanged, LeaveInv DEF NoExchange
<1>11. CASE Reject(c)
    BY <1>11, InvParts, ConnectionUnchanged, LeaveInv DEF Reject
<1>12. CASE PublishAgain(c) BY <1>12, PublishAgainInv
<1> QED BY <1>1, <1>2, <1>3, <1>4, <1>5, <1>6, <1>7, <1>8, <1>9, <1>10, <1>11, <1>12 DEF CallStep

LEMMA PublishInductive == PublishInv /\ [Next]_vars => PublishInv'
<1> SUFFICES ASSUME PublishInv, [Next]_vars PROVE PublishInv'
    OBVIOUS
<1>0. ChannelsInv BY DEF PublishInv
<1>1. ASSUME NEW c \in Calls, Publish(c) PROVE PublishInv'
    BY <1>0, <1>1, ConnectionUnchanged, LeaveInv DEF Publish, FirstStage, CallStages, At
<1>2. ASSUME NEW c \in Calls, CallStep(c) PROVE PublishInv'
    BY <1>2, CallInv
<1>3. ASSUME NEW n \in Assertions, AssertOk(n) PROVE PublishInv'
    BY <1>3, AssertOkInv
<1>4. CASE ChannelsProgress /\ UNCHANGED publishing
    BY <1>0, <1>4, ChannelsProgressInv, ProgressKeeps, ChannelsStepInv
<1>5. CASE ChannelsFault /\ UNCHANGED publishing
    BY <1>0, <1>5, ChannelsFaultInv, FaultKeeps, ChannelsStepInv
<1>6. CASE UNCHANGED vars
  <2>1. UNCHANGED connection /\ UNCHANGED publishing BY <1>6 DEF vars, publishing
  <2> QED BY <1>0, <2>1, ConnectionUnchanged, ChannelsStepInv
<1> QED BY <1>1, <1>2, <1>3, <1>4, <1>5, <1>6 DEF Next, Progress

LEMMA PublishInit == Init => PublishInv
<1> SUFFICES ASSUME Init PROVE PublishInv
    OBVIOUS
<1>1. ChannelsInv BY ChannelsInitInv DEF Init
<1>2. 0 \in 0..MaxTries /\ 0 \in 0..MaxAsserts /\ 0 \in 0..MaxChannels /\ asserted = 0
    BY KeyTypes, Bounds DEF Init
<1>3. [stage |-> "idle", chan |-> 0, debug |-> FALSE, via |-> 0, tries |-> 0] \in CallRecord
    BY <1>2 DEF CallRecord, CallStages
<1>4. [chan |-> 0, asked |-> FALSE, ok |-> FALSE] \in Assertion
    BY <1>2 DEF Assertion
<1>5. PublishingTypeOK
    BY <1>2, <1>3, <1>4 DEF Init, PublishingTypeOK
<1>6. \A c \in Calls : call[c].stage = "idle" /\ written[c] = 0
    BY DEF Init
<1>7. OwnChannel
    BY <1>6 DEF OwnChannel, Own, OfDebug, OfShared, At
<1>8. \A e \in Exchanges : exchangeCache[e] = 0
    BY DEF Init, ChannelsInit
<1>9. AssertedOnShared
    BY <1>2, <1>8 DEF Init, AssertedOnShared, Assertions
<1>10. ExchangeCacheAlive BY <1>8 DEF ExchangeCacheAlive
<1>11. WrittenWhenResolved BY <1>6 DEF WrittenWhenResolved, At
<1> QED BY <1>1, <1>5, <1>7, <1>9, <1>10, <1>11, Types DEF PublishInv, ChannelsInv

LEMMA PublishInvariance == Spec => []PublishInv
BY PublishInit, PublishInductive, PTL DEF Spec

(* Every state is well typed (TypeOK).                                     *)
THEOREM TypeCorrect == Spec => []TypeOK
<1>1. PublishInv => TypeOK BY DEF PublishInv
<1> QED BY <1>1, PublishInvariance, PTL

(* A publish resolves once its message was written, exactly once, and      *)
(* rejects only if it was not (WrittenOnce), over any number of channels   *)
(* lost and of times it is repeated.                                       *)
THEOREM PublishWritesOnce == Spec => []WrittenOnce
<1>1. PublishInv => WrittenOnce BY DEF PublishInv, WrittenWhenResolved, WrittenOnce
<1> QED BY <1>1, PublishInvariance, PTL

(* No channel that closed, or could not be created, stays in the cache of  *)
(* getChannel (ChannelCacheAlive), but for one whose rejection is about to *)
(* be caught.                                                              *)
THEOREM CachedChannelsLive == Spec => []ChannelCacheAlive
<1>1. PublishInv => ChannelCacheAlive BY DEF PublishInv, ChannelsInv
<1> QED BY <1>1, PublishInvariance, PTL

(* Two requests of one key never get two channels, as long as none failed  *)
(* to open (OneChannelPerKey).                                             *)
THEOREM ChannelsAreShared == Spec => []OneChannelPerKey
<1>1. PublishInv => OneChannelPerKey BY OnePerKey DEF PublishInv
<1> QED BY <1>1, PublishInvariance, PTL

(* An exchange is taken for asserted only while the channel it was         *)
(* asserted on is open (ExchangeCacheAlive).                               *)
THEOREM CachedExchangesLive == Spec => []ExchangeCacheAlive
<1>1. PublishInv => ExchangeCacheAlive BY DEF PublishInv
<1> QED BY <1>1, PublishInvariance, PTL

-----------------------------------------------------------------------------
(* Without a fault.                                                        *)

(* What a call sees of the channels then.                                  *)
LEMMA Healthy ==
    ASSUME PublishInv, SharedLive, CheckOnCached, NEW c \in Calls
    PROVE  /\ OfDebug(c) \/ OfShared(c) => Mine(c).stage # "rejected"
           /\ (OfDebug(c) \/ OfShared(c)) /\ Mine(c).stage = "resolved" => Mine(c).open
           /\ At(c, "exchange") => ~AssertFailed(call[c].via)
<1>0. Own(c) /\ 1..created \subseteq Promises BY InvParts DEF OwnChannel
<1>1. OfDebug(c) \/ OfShared(c) => call[c].chan \in Promises /\ ~Failed(call[c].chan)
    BY <1>0 DEF Own, SharedLive, NoneFailed
<1>2. OfDebug(c) /\ Mine(c).stage = "resolved" => Mine(c).open
  <2> SUFFICES ASSUME OfDebug(c), Mine(c).stage = "resolved" PROVE Mine(c).open
      OBVIOUS
  <2>1. channels[DebugKey] = call[c].chan /\ channels[DebugKey] # 0
      BY <1>1 DEF CheckOnCached, Promises
  <2>2. Live(call[c].chan) \/ promise[call[c].chan].stage = "failing"
      BY <2>1, KeyTypes DEF PublishInv, ChannelsInv, ChannelCacheAlive
  <2> QED BY <2>2 DEF Mine, Live
<1>3. OfShared(c) /\ Mine(c).stage = "resolved" => Mine(c).open
    BY <1>0, <1>1 DEF Own, Mine, Live, SharedLive
<1>4. At(c, "exchange") => ~AssertFailed(call[c].via)
  <2> SUFFICES ASSUME At(c, "exchange") PROVE ~AssertFailed(call[c].via)
      OBVIOUS
  <2>1. call[c].via \in Assertions /\ call[c].via <= asserted
      BY <1>0, InvParts DEF Own, Assertions
  <2> DEFINE a == asserts[call[c].via].chan
  <2>2. a \in Promises /\ promise[a].key = Shared /\ promise[a].stage = "resolved"
      BY <1>0, <2>1 DEF PublishInv, AssertedOnShared
  <2>3. promise[a].open BY <2>2 DEF SharedLive, Live
  <2> QED BY <2>3 DEF AssertFailed
<1> QED BY <1>1, <1>2, <1>3, <1>4 DEF Mine, Failed

LEMMA GetChannelHealthy ==
    ASSUME ChannelsInv, SharedLive, NEW k \in Keys, GetChannel(k)
    PROVE  /\ SharedLive'
           /\ \A j \in Keys : channels[j] # 0 => channels'[j] = channels[j]
<1>0. ChannelsTypeOK /\ created \in Nat /\ 1..created \subseteq Promises
    BY PromiseNumbers DEF ChannelsInv
<1>1. CASE channels[k] # 0
    BY <1>1 DEF GetChannel, SharedLive, NoneFailed, Failed, Live
<1>2. CASE channels[k] = 0
  <2>1. /\ created + 1 \in Promises
        /\ channels' = [channels EXCEPT ![k] = created + 1]
        /\ promise' = [promise EXCEPT ![created + 1] = Requested(k)]
      BY <1>0, <1>2, Bounds DEF GetChannel, Promises
  <2>2. /\ promise'[created + 1] = Requested(k)
        /\ \A a \in Promises \ {created + 1} : promise'[a] = promise[a]
        /\ \A j \in Keys \ {k} : channels'[j] = channels[j]
      BY <1>0, <2>1 DEF ChannelsTypeOK
  <2>3. promise'[created + 1].stage \in {"opening", "connecting"}
      BY <1>0, <2>2, RequestedType
  <2> QED BY <1>2, <2>2, <2>3 DEF SharedLive, NoneFailed, Failed, Live
<1> QED BY <1>1, <1>2

LEMMA ProgressHealthy ==
    ASSUME ChannelsInv, SharedLive, ChannelsProgress
    PROVE  SharedLive' /\ channels' = channels
<1>0. ChannelsTypeOK BY DEF ChannelsInv
<1>1. CASE Connected
  <2>1. \A a \in Promises :
            /\ promise'[a].key = promise[a].key
            /\ promise'[a].open <=> promise[a].open
            /\ promise'[a].stage =
                  IF promise[a].stage = "connecting" THEN "opening" ELSE promise[a].stage
      BY <1>0, <1>1, BecomeType DEF Connected, Stages
  <2> QED BY <1>1, <2>1 DEF Connected, SharedLive, NoneFailed, Failed, Live
<1>2. ASSUME NEW a \in Promises, Opened(a) \/ DeadLetterBound(a)
      PROVE  SharedLive' /\ channels' = channels
  <2>1. /\ \A b \in Promises \ {a} : promise'[b] = promise[b]
        /\ channels' = channels
      BY <1>0, <1>2 DEF Opened, DeadLetterBound, ChannelsTypeOK
  <2>2. promise'[a].open /\ promise'[a].stage \in {"asserting", "resolved"}
    <3>1. CASE Opened(a)
        BY <1>0, <3>1, PromiseType DEF Opened, ChannelsTypeOK, Promise
    <3>2. CASE DeadLetterBound(a)
        BY <1>0, <3>2, PromiseType DEF DeadLetterBound, ChannelsTypeOK, Promise
    <3> QED BY <1>2, <3>1, <3>2
  <2> QED BY <2>1, <2>2 DEF SharedLive, NoneFailed, Failed, Live
<1>3. ASSUME NEW a \in Promises PROVE ~LateCatch(a)
    BY DEF LateCatch, SharedLive, NoneFailed, Failed
<1> QED BY <1>1, <1>2, <1>3 DEF ChannelsProgress

LEMMA CloseHealthy ==
    ASSUME ChannelsInv, SharedLive, NEW a \in Promises, CloseChannel(a),
           promise[a].key # Shared, promise[a].stage = "resolved"
    PROVE  SharedLive'
<1>1. /\ \A b \in Promises \ {a} : promise'[b] = promise[b]
      /\ promise'[a].key = promise[a].key /\ promise'[a].stage = "resolved"
    BY ClosedType DEF CloseChannel, ChannelsInv, ChannelsTypeOK
<1> QED BY <1>1 DEF SharedLive, NoneFailed, Failed, Live

LEMMA GotoCheck ==
    ASSUME PublishInv, CheckInv, NEW c \in Calls, NEW stage \in CallStages, Goto(c, stage),
           UNCHANGED connection, stage # "debugChannel",
           stage = "checking" => OfDebug(c),
           faults = 0 => /\ stage \notin {"failed", "rejected"}
                         /\ c \in Served /\ stage \in {"checked", "channel", "exchange", "resolved"}
                              => call[c].debug
    PROVE  CheckInv'
<1>1. /\ \A d \in Calls \ {c} : call'[d] = call[d]
      /\ call'[c].stage = stage /\ call'[c].debug = call[c].debug
      /\ stage = "checking" => call'[c].chan = call[c].chan
    BY InvParts, GotoType
<1>2. UNCHANGED <<channels, promise, faults>> BY DEF connection
<1>3. OneCheck' BY <1>1 DEF CheckInv, OneCheck, OfDebug
<1>4. SharedStays'
  <2>1. SharedLive => SharedLive' BY <1>2 DEF SharedLive, NoneFailed, Failed, Live
  <2>2. CheckOnCached => CheckOnCached'
    <3> SUFFICES ASSUME CheckOnCached, NEW d \in Calls, OfDebug(d)'
                 PROVE  channels'[DebugKey] = call'[d].chan
        BY DEF CheckOnCached
    <3>1. OfDebug(d) /\ call'[d].chan = call[d].chan BY <1>1 DEF OfDebug
    <3> QED BY <1>2, <3>1 DEF CheckOnCached
  <2> QED BY <1>2, <2>1, <2>2 DEF CheckInv, SharedStays
<1>5. CheckedRight'
  <2> SUFFICES ASSUME faults = 0, NEW d \in Calls PROVE Right(d)'
      BY <1>2 DEF CheckedRight
  <2>1. CASE d = c BY <1>1, <2>1 DEF Right
  <2>2. CASE d # c BY <1>1, <2>2 DEF CheckInv, CheckedRight, Right
  <2> QED BY <2>1, <2>2
<1> QED BY <1>3, <1>4, <1>5 DEF CheckInv

LEMMA AwaitCheck ==
    ASSUME PublishInv, CheckInv, NEW c \in Calls, NEW k \in Keys, NEW stage \in CallStages,
           Await(c, k, stage),
           \/ /\ k = DebugKey /\ stage = "debugChannel"
              /\ \A d \in Calls : ~OfDebug(d)
           \/ k = Shared /\ stage = "channel" /\ At(c, "checked")
    PROVE  CheckInv'
<1>0. ChannelsInv /\ GetChannel(k) /\ faults' = faults
    BY DEF Await, PublishInv
<1>1. /\ \A d \in Calls \ {c} : call'[d] = call[d]
      /\ call'[c].stage = stage /\ call'[c].chan = Channel(k) /\ call'[c].debug = call[c].debug
    BY AwaitType
<1>2. OneCheck' BY <1>1 DEF CheckInv, OneCheck, OfDebug
<1>3. CheckedRight'
    BY <1>0, <1>1 DEF CheckInv, CheckedRight, Right, At
<1>4. SharedStays'
  <2> SUFFICES ASSUME faults = 0 PROVE SharedLive' /\ CheckOnCached'
      BY <1>0 DEF SharedStays
  <2>1. SharedLive /\ CheckOnCached BY DEF CheckInv, SharedStays
  <2>2. SharedLive' /\ \A j \in Keys : channels[j] # 0 => channels'[j] = channels[j]
      BY <1>0, <2>1, GetChannelHealthy
  <2>3. CheckOnCached'
    <3>1. CASE stage = "debugChannel"
        BY <1>0, <1>1, <3>1, ChannelIs DEF CheckOnCached, OfDebug
    <3>2. CASE stage = "channel"
      <4> SUFFICES ASSUME NEW d \in Calls, OfDebug(d)' PROVE channels'[DebugKey] = call'[d].chan
          BY DEF CheckOnCached
      <4>1. d # c /\ OfDebug(d) /\ call'[d] = call[d] BY <1>1, <3>2 DEF OfDebug
      <4>2. channels[DebugKey] = call[d].chan /\ call[d].chan # 0
          BY <2>1, <4>1, InvParts DEF CheckOnCached, OwnChannel, Own
      <4> QED BY <2>2, <4>1, <4>2, KeyTypes
    <3> QED BY <3>1, <3>2
  <2> QED BY <2>2, <2>3
<1> QED BY <1>2, <1>3, <1>4 DEF CheckInv

LEMMA QueueMissingCheck ==
    ASSUME PublishInv, CheckInv, NEW c \in Calls, QueueMissing(c)
    PROVE  CheckInv'
<1>1. /\ \A d \in Calls \ {c} : call'[d] = call[d]
      /\ call'[c].stage = "checked"
    BY InvParts, GotoType DEF QueueMissing, CallStages
<1>2. OfDebug(c) /\ c \notin Served /\ faults' = faults BY DEF QueueMissing, OfDebug, At
<1>3. \A d \in Calls : ~OfDebug(d)'
    BY <1>1, <1>2 DEF CheckInv, OneCheck, OfDebug
<1>4. CheckedRight' BY <1>1, <1>2 DEF CheckInv, CheckedRight, Right
<1>5. SharedStays'
  <2>1. /\ call[c].chan \in Promises
        /\ promise[call[c].chan].key # Shared /\ promise[call[c].chan].stage = "resolved"
      BY <1>2, InvParts, KeyTypes DEF OwnChannel, Own, Mine, QueueMissing, At
  <2>2. SharedLive => SharedLive' BY <2>1, InvParts, CloseHealthy DEF QueueMissing
  <2> QED BY <1>2, <1>3, <2>2 DEF CheckInv, SharedStays, CheckOnCached
<1> QED BY <1>3, <1>4, <1>5 DEF CheckInv, OneCheck

(* The others leave the channels alone, and move no call to a check.       *)
LEMMA OtherCheck ==
    ASSUME PublishInv, CheckInv, UNCHANGED <<channels, promise, faults>>,
           \A d \in Calls : OfDebug(d)' => OfDebug(d) /\ call'[d].chan = call[d].chan,
           \A d \in Calls : faults = 0 /\ Right(d) => Right(d)'
    PROVE  CheckInv'
<1>1. OneCheck' BY DEF CheckInv, OneCheck
<1>2. SharedStays'
  <2>1. SharedLive => SharedLive' BY DEF SharedLive, NoneFailed, Failed, Live
  <2>2. CheckOnCached => CheckOnCached' BY DEF CheckOnCached
  <2> QED BY <2>1, <2>2 DEF CheckInv, SharedStays
<1>3. CheckedRight' BY DEF CheckInv, CheckedRight
<1> QED BY <1>1, <1>2, <1>3 DEF CheckInv

LEMMA CallCheck ==
    ASSUME PublishInv, CheckInv, NEW c \in Calls, CallStep(c)
    PROVE  CheckInv'
<1> USE DEF CallStages
<1>0. faults = 0 => /\ SharedLive /\ CheckOnCached /\ Right(c)
    BY DEF CheckInv, SharedStays, CheckedRight
<1>1. CASE Check(c)
    BY <1>1, AwaitCheck, KeyTypes DEF Check, OfDebug
<1>2. CASE SendCheck(c)
  <2>1. OfDebug(c) /\ UNCHANGED connection BY <1>2 DEF SendCheck, OfDebug, At
  <2>2. CASE Goto(c, "rejected") /\ Mine(c).stage = "rejected"
      BY <1>0, <2>1, <2>2, Healthy, GotoCheck
  <2>3. CASE Goto(c, "checked") /\ Mine(c).stage = "resolved" /\ ~Mine(c).open
      BY <1>0, <2>1, <2>3, Healthy, GotoCheck
  <2>4. CASE Goto(c, "checking") BY <2>1, <2>4, GotoCheck
  <2> QED BY <1>2, <2>2, <2>3, <2>4 DEF SendCheck
<1>3. CASE QueueExists(c)
  <2> DEFINE p == [call[c] EXCEPT !.stage = "checked", !.chan = 0, !.debug = TRUE]
  <2>1. p \in CallRecord /\ p.stage = "checked" /\ p.debug
      BY InvParts, CallType, Bounds DEF CallRecord
  <2>2. call' = [call EXCEPT ![c] = p] BY <1>3, InvParts DEF PublishingTypeOK, QueueExists
  <2> HIDE DEF p
  <2>3. Becomes(c, p) BY <2>1, <2>2, InvParts, BecomesType
  <2>4. \A d \in Calls : OfDebug(d)' => OfDebug(d) /\ call'[d].chan = call[d].chan
      BY <2>1, <2>3 DEF Becomes, OfDebug
  <2>5. Right(c)' BY <2>1, <2>3 DEF Becomes, Right
  <2>6. \A d \in Calls \ {c} : Right(d) => Right(d)' BY <2>3 DEF Becomes, Right
  <2> QED BY <1>3, <2>4, <2>5, <2>6, OtherCheck DEF QueueExists, connection
<1>4. CASE QueueMissing(c) BY <1>4, QueueMissingCheck
<1>5. CASE CheckFails(c)
  <2>1. OfDebug(c) /\ Mine(c).stage = "resolved"
      BY <1>5, InvParts DEF CheckFails, OfDebug, At, OwnChannel, Own
  <2> QED BY <1>0, <1>5, <2>1, Healthy, GotoCheck DEF CheckFails
<1>6. CASE AskChannel(c) BY <1>6, AwaitCheck, KeyTypes DEF AskChannel
<1>7. CASE AssertExchange(c)
  <2>1. /\ \A d \in Calls \ {c} : call'[d] = call[d]
        /\ call'[c].stage = "exchange" /\ call'[c].debug = call[c].debug
    <3> DEFINE n == IF exchangeCache[ExchangeOf[c]] # 0 THEN exchangeCache[ExchangeOf[c]]
                    ELSE asserted + 1
               p == [call[c] EXCEPT !.stage = "exchange", !.via = n]
    <3>1. call' = [call EXCEPT ![c] = p]
        BY <1>7, InvParts DEF PublishingTypeOK, AssertExchange
    <3>2. p.stage = "exchange" /\ p.debug = call[c].debug
        BY InvParts, CallType DEF CallRecord
    <3> HIDE DEF p
    <3> QED BY <3>1, <3>2, InvParts DEF PublishingTypeOK
  <2>2. \A d \in Calls : OfDebug(d)' => OfDebug(d) /\ call'[d].chan = call[d].chan
      BY <2>1 DEF OfDebug
  <2>3. \A d \in Calls : Right(d) => Right(d)'
    <3>1. At(c, "channel") BY <1>7 DEF AssertExchange
    <3>2. Right(c) => Right(c)' BY <2>1, <3>1 DEF Right, At
    <3>3. \A d \in Calls \ {c} : Right(d) => Right(d)' BY <2>1 DEF Right
    <3> QED BY <3>2, <3>3
  <2> QED BY <1>7, <2>2, <2>3, OtherCheck DEF AssertExchange
<1>8. CASE NoChannel(c)
  <2>1. OfShared(c) BY <1>8 DEF NoChannel, OfShared, At
  <2> QED BY <1>0, <1>8, <2>1, Healthy, GotoCheck DEF NoChannel
<1>9. CASE Write(c)
  <2>1. OfShared(c) /\ Mine(c).stage = "resolved" /\ At(c, "exchange")
      BY <1>9, InvParts DEF Write, OfShared, At, OwnChannel, Own
  <2>2. CASE Mine(c).open
      BY <1>0, <1>9, <2>1, <2>2, GotoCheck DEF Write, Right, At
  <2>3. CASE ~Mine(c).open
      BY <1>0, <1>9, <2>1, <2>3, Healthy, GotoCheck DEF Write
  <2> QED BY <2>2, <2>3
<1>10. CASE NoExchange(c)
  <2>1. faults # 0 BY <1>0, <1>10, Healthy DEF NoExchange
  <2> QED BY <1>10, <2>1, GotoCheck DEF NoExchange
<1>11. CASE Reject(c)
  <2>1. faults # 0 BY <1>0, <1>11 DEF Reject, Right, At
  <2> QED BY <1>11, <2>1, GotoCheck DEF Reject
<1>12. CASE PublishAgain(c)
  <2> DEFINE p == [call[c] EXCEPT !.stage = FirstStage(c), !.debug = FALSE,
                                  !.tries = call[c].tries + 1]
  <2>1. p.stage \in {"queued", "checked"}
      BY InvParts, CallType DEF CallRecord, FirstStage
  <2>2. call' = [call EXCEPT ![c] = p] BY <1>12, InvParts DEF PublishingTypeOK, PublishAgain
  <2> HIDE DEF p
  <2>3. Becomes(c, p) BY <2>2, InvParts DEF Becomes, PublishingTypeOK
  <2>4. \A d \in Calls : OfDebug(d)' => OfDebug(d) /\ call'[d].chan = call[d].chan
      BY <2>1, <2>3 DEF Becomes, OfDebug
  <2>5. faults # 0 BY <1>0, <1>12 DEF PublishAgain, Right, At
  <2> QED BY <1>12, <2>4, <2>5, OtherCheck DEF PublishAgain, connection
<1> QED BY <1>1, <1>2, <1>3, <1>4, <1>5, <1>6, <1>7, <1>8, <1>9, <1>10, <1>11, <1>12 DEF CallStep

LEMMA CheckInductive == PublishInv /\ CheckInv /\ [Next]_vars => CheckInv'
<1> SUFFICES ASSUME PublishInv, CheckInv, [Next]_vars PROVE CheckInv'
    OBVIOUS
<1>0. ChannelsInv BY DEF PublishInv
<1>1. ASSUME NEW c \in Calls, Publish(c) PROVE CheckInv'
    BY <1>1, GotoCheck, KeyTypes DEF Publish, FirstStage, CallStages
<1>2. ASSUME NEW c \in Calls, CallStep(c) PROVE CheckInv'
    BY <1>2, CallCheck
<1>3. ASSUME UNCHANGED <<channels, promise, faults, call>> PROVE CheckInv'
    BY <1>3, OtherCheck DEF OfDebug, Right
<1>4. ASSUME NEW n \in Assertions, AssertOk(n) PROVE CheckInv'
    BY <1>3, <1>4 DEF AssertOk, connection
<1>5. CASE ChannelsProgress /\ UNCHANGED publishing
  <2>1. UNCHANGED <<call, faults>>
      BY <1>5 DEF publishing, ChannelsProgress, Connected, Opened, DeadLetterBound, LateCatch
  <2>2. OneCheck' BY <2>1 DEF CheckInv, OneCheck, OfDebug
  <2>3. CheckedRight' BY <2>1 DEF CheckInv, CheckedRight, Right
  <2>4. SharedStays'
    <3>1. SharedLive => SharedLive' /\ channels' = channels
        BY <1>0, <1>5, ProgressHealthy
    <3> QED BY <2>1, <3>1 DEF CheckInv, SharedStays, CheckOnCached, OfDebug
  <2> QED BY <2>2, <2>3, <2>4 DEF CheckInv
<1>6. CASE ChannelsFault /\ UNCHANGED publishing
  <2>1. UNCHANGED call BY <1>6 DEF publishing
  <2>2. Fault BY <1>6 DEF ChannelsFault, ConnectFails, ConnectionCloses, OpenFails, ChannelCloses
  <2>3. faults' # 0 BY <2>2, InvParts, Bounds DEF Fault, ChannelsTypeOK
  <2>4. OneCheck' BY <2>1 DEF CheckInv, OneCheck, OfDebug
  <2> QED BY <2>3, <2>4 DEF CheckInv, SharedStays, CheckedRight
<1>7. CASE UNCHANGED vars
    BY <1>3, <1>7 DEF vars, connection
<1> QED BY <1>1, <1>2, <1>4, <1>5, <1>6, <1>7 DEF Next, Progress

LEMMA CheckInvariance == Spec => []CheckInv
<1>1. Init => CheckInv
  <2> SUFFICES ASSUME Init PROVE CheckInv
      OBVIOUS
  <2>1. \A c \in Calls : call[c].stage = "idle" BY DEF Init
  <2>2. \A a \in Promises : promise[a].stage = "absent" BY DEF Init, ChannelsInit
  <2> QED BY <2>1, <2>2 DEF CheckInv, OneCheck, SharedStays, CheckedRight, OfDebug, SharedLive,
                            NoneFailed, Failed, CheckOnCached, Right
<1> QED BY <1>1, CheckInductive, PublishInvariance, PTL DEF Spec

(* The sequential limiter does what its comment asks for                   *)
(* (src/src/utils.js:148): as long as nothing is lost every publish with a *)
(* debug token whose queue exists is routed to it (RoutedToDebug), however *)
(* many checks make the broker close their channel.                        *)
THEOREM DebugIsRouted == Spec => []RoutedToDebug
<1>1. PublishInv /\ CheckInv => RoutedToDebug
    BY CallsAssumption DEF CheckInv, CheckedRight, Right, RoutedToDebug, At
<1> QED BY <1>1, PublishInvariance, CheckInvariance, PTL

(* As long as nothing is lost no publish rejects (RejectedHasCause): the   *)
(* channels the checks cost are never those that publish.                  *)
THEOREM PublishSucceeds == Spec => []RejectedHasCause
<1>1. CheckInv => RejectedHasCause
    BY DEF CheckInv, CheckedRight, Right, RejectedHasCause, At
<1> QED BY <1>1, CheckInvariance, PTL

=============================================================================
