------------------------------ MODULE Channels ------------------------------
(***************************************************************************)
(* The connection and the channels of one process, as promises that are    *)
(* cached under a key: connexion, channels, and the handlers that clear    *)
(* them.                                                                   *)
(*                                                                         *)
(* What is asked of amqplib is answered, or not, later; the continuation   *)
(* of a settled promise runs later still (amqplib's are bluebird promises, *)
(* continued by setImmediate), so that a channel can be closed, and        *)
(* another one asked for, in between.                                      *)
(***************************************************************************)
EXTENDS Integers, FiniteSets

CONSTANTS
    Keys,            \* keys of channels: `${name}:${prefetch}`, or 0
    Shared,          \* the key 0
    DebugKeys,       \* keys of the channels created with isDebug
    DeadLettering,   \* config.enableDeadLetter
    Exchanges,       \* names of exchanges
    MaxChannels,     \* bound on the channels ever asked for
    MaxAsserts,      \* bound on the exchanges ever asserted by publish
    MaxFaults        \* bound on lost connections and channels

ASSUME ChannelsAssumption ==
    /\ Shared \in Keys \ DebugKeys /\ DebugKeys \subseteq Keys
    /\ DeadLettering \in BOOLEAN
    /\ MaxChannels \in Nat /\ MaxAsserts \in Nat /\ MaxFaults \in Nat

VARIABLES
    connexion,       \* the cached connection
    channels,        \* the cached promise of each key, 0 if undefined
    promise,         \* every promise of a channel, by the order of creation
    created,         \* how many there are
    exchangeCache,   \* the cached assertion of each exchange, 0 if none
    faults           \* faults so far

connection == <<connexion, channels, promise, created, exchangeCache, faults>>

Promises == 1..MaxChannels

(* resolved does not mean open: the channel may have closed since.         *)
Stages == {"absent", "connecting", "opening", "asserting", "resolved", "failing", "rejected"}

ChannelsTypeOK ==
    /\ connexion \in {"none", "connecting", "open"}
    /\ channels \in [Keys -> 0..MaxChannels]
    /\ promise \in [Promises -> [key: Keys, stage: Stages, open: BOOLEAN]]
    /\ created \in 0..MaxChannels
    /\ exchangeCache \in [Exchanges -> 0..MaxAsserts]
    /\ faults \in 0..MaxFaults
    /\ \A a \in Promises : promise[a].open => connexion = "open"

ChannelsInit ==
    /\ connexion = "none"
    /\ channels = [k \in Keys |-> 0]
    /\ promise = [a \in Promises |-> [key |-> Shared, stage |-> "absent", open |-> FALSE]]
    /\ created = 0
    /\ exchangeCache = [e \in Exchanges |-> 0]
    /\ faults = 0

Fault == faults < MaxFaults /\ faults' = faults + 1

-----------------------------------------------------------------------------
(* getConnection and getChannel.                                           *)

(* The promise getChannel returns for k.                                   *)
Channel(k) == IF channels[k] # 0 THEN channels[k] ELSE created + 1

(* Mutant: the channel is asked for without waiting for the connection.    *)
RequestedAtOnce(k) == [key |-> k, stage |-> "opening", open |-> FALSE]

Requested(k) == [key |-> k, stage |-> IF connexion = "open" THEN "opening" ELSE "connecting",
                 open |-> FALSE]

(* Mutant: a channel is cached when it is open, not when it is asked for.  *)
GetChannelUncached(k) ==
    IF channels[k] # 0
    THEN UNCHANGED <<connexion, channels, promise, created>>
    ELSE /\ created < MaxChannels
         /\ created' = created + 1
         /\ promise' = [promise EXCEPT ![created + 1] = Requested(k)]
         /\ connexion' = IF connexion = "none" THEN "connecting" ELSE connexion
         /\ UNCHANGED channels

GetChannel(k) ==
    IF channels[k] # 0
    THEN UNCHANGED <<connexion, channels, promise, created>>
    ELSE /\ created < MaxChannels
         /\ created' = created + 1
         /\ channels' = [channels EXCEPT ![k] = created + 1]
         /\ promise' = [promise EXCEPT ![created + 1] = Requested(k)]
         /\ connexion' = IF connexion = "none" THEN "connecting" ELSE connexion

Become(from, to) ==
    promise' = [a \in Promises |-> IF promise[a].stage = from
                                   THEN [promise[a] EXCEPT !.stage = to] ELSE promise[a]]

Connected ==
    /\ connexion = "connecting"
    /\ connexion' = "open"
    /\ Become("connecting", "opening")
    /\ UNCHANGED <<channels, created, exchangeCache, faults>>

CleanExchangeCache == exchangeCache' = [e \in Exchanges |-> 0]

ForgetAll ==
    /\ connexion' = "none"
    /\ channels' = [k \in Keys |-> 0]
    /\ CleanExchangeCache

ConnectFails ==
    /\ Fault
    /\ connexion = "connecting"
    /\ ForgetAll
    /\ Become("connecting", "failing")
    /\ UNCHANGED created

(* createChannel resolves; its handlers are attached, and unless it is for *)
(* debugging the dead-letter queue is asserted and bound on it.            *)
Opened(a) ==
    /\ promise[a].stage = "opening"
    /\ promise' = [promise EXCEPT
          ![a].open = TRUE,
          ![a].stage = IF DeadLettering /\ promise[a].key \notin DebugKeys
                       THEN "asserting" ELSE "resolved"]
    /\ UNCHANGED <<connexion, channels, created, exchangeCache, faults>>

DeadLetterBound(a) ==
    /\ promise[a].stage = "asserting" /\ promise[a].open
    /\ promise' = [promise EXCEPT ![a].stage = "resolved"]
    /\ UNCHANGED <<connexion, channels, created, exchangeCache, faults>>

OpenFails(a) ==
    /\ Fault
    /\ promise[a].stage = "opening"
    /\ promise' = [promise EXCEPT ![a].stage = "failing"]
    /\ UNCHANGED <<connexion, channels, created, exchangeCache>>

-----------------------------------------------------------------------------
(* What closes, and the handlers of it.                                    *)

Closed(a) == [promise[a] EXCEPT !.open = FALSE,
                                !.stage = IF @ = "resolved" THEN @ ELSE "failing"]

(* The key and, unless it is a debug channel, the exchanges are forgotten. *)
Forget(a) ==
    /\ channels' = [channels EXCEPT ![promise[a].key] = 0]
    /\ IF promise[a].key \in DebugKeys THEN UNCHANGED exchangeCache ELSE CleanExchangeCache

(* Mutant: the close handler forgets the channel, not what it asserted.    *)
CloseKeepsExchanges(a) ==
    /\ promise' = [promise EXCEPT ![a] = Closed(a)]
    /\ channels' = [channels EXCEPT ![promise[a].key] = 0]
    /\ UNCHANGED <<connexion, created, exchangeCache>>

(* Mutant: without the close handler.                                      *)
CloseUnnoticed(a) ==
    /\ promise' = [promise EXCEPT ![a] = Closed(a)]
    /\ UNCHANGED <<connexion, channels, created, exchangeCache>>

(* The broker closes the channel over an error of what was asked on it.    *)
CloseChannel(a) ==
    /\ promise' = [promise EXCEPT ![a] = Closed(a)]
    /\ Forget(a)
    /\ UNCHANGED <<connexion, created>>

ChannelCloses(a) == Fault /\ promise[a].open /\ CloseChannel(a)

ConnectionCloses ==
    /\ Fault
    /\ connexion = "open"
    /\ ForgetAll
    /\ promise' = [a \in Promises |->
          IF promise[a].open \/ promise[a].stage = "opening" THEN Closed(a) ELSE promise[a]]
    /\ UNCHANGED created

(* The catch of getChannel runs at the end of the chain of promises: by    *)
(* then the key may have a new channel.                                    *)
LateCatch(a) ==
    /\ promise[a].stage = "failing"
    /\ promise' = [promise EXCEPT ![a].stage = "rejected"]
    /\ Forget(a)
    /\ UNCHANGED <<connexion, created, faults>>

ChannelsProgress ==
    \/ Connected
    \/ \E a \in Promises : Opened(a) \/ DeadLetterBound(a) \/ LateCatch(a)

ChannelsFault ==
    \/ ConnectFails \/ ConnectionCloses
    \/ \E a \in Promises : OpenFails(a) \/ ChannelCloses(a)

-----------------------------------------------------------------------------
(* Properties.                                                             *)

Live(a) == promise[a].open \/ promise[a].stage \in {"connecting", "opening"}

(* A channel that closed, or could not be created, is not in the cache: a  *)
(* late handler may empty an entry too many, and never leaves one behind.  *)
ChannelCacheAlive ==
    \A k \in Keys : channels[k] # 0 =>
        /\ promise[channels[k]].key = k
        /\ Live(channels[k]) \/ promise[channels[k]].stage = "failing"

(* "Create or get a channel in cache" (src/src/index.js:119): as long as   *)
(* no channel failed to open, two requests never get two channels of one   *)
(* key, however they overlap.  (A failure may orphan a channel: LateCatch.)*)
OneChannelPerKey ==
    (\A a \in Promises : promise[a].stage \notin {"failing", "rejected"}) =>
        \A k \in Keys : Cardinality({a \in Promises : promise[a].key = k /\ Live(a)}) <= 1

=============================================================================
