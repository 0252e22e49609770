----------------------------- MODULE Publishing -----------------------------
(***************************************************************************)
(* carotte.publish over the channels of a process: the existence check of  *)
(* the debug queue on a channel of its own, the shared channel, the cache  *)
(* of the exchanges asserted, and the publish that is repeated.            *)
(*                                                                         *)
(* Callbacks interleave: what a call has read (its channel, its assertion) *)
(* may be closed or forgotten by the time the call goes on.                *)
(***************************************************************************)
EXTENDS Channels

CONSTANTS
    Calls,        \* calls of publish
    ExchangeOf,   \* the exchange each of them publishes to
    Debugged,     \* calls with a debug token
    Served,       \* those whose debug queue exists
    DebugKey,     \* key of the channel of the existence checks
    MaxTries      \* bound on the times a call is repeated

ASSUME CallsAssumption ==
    /\ ExchangeOf \in [Calls -> Exchanges]
    /\ Served \subseteq Debugged /\ Debugged \subseteq Calls
    /\ DebugKey \in DebugKeys /\ MaxTries \in Nat

VARIABLES
    call,         \* the promise chain of each call
    asserts,      \* every assertion of an exchange, by the order of creation
    asserted,     \* how many there are
    written       \* how often each message was written to a channel

vars == <<connection, call, asserts, asserted, written>>
publishing == <<call, asserts, asserted, written>>

CallStages == {"idle", "queued", "debugChannel", "checking", "checked", "channel",
               "exchange", "failed", "resolved", "rejected"}
Settled == {"resolved", "rejected"}

Assertions == 1..MaxAsserts

TypeOK ==
    /\ ChannelsTypeOK
    /\ call \in [Calls -> [stage: CallStages, chan: 0..MaxChannels, debug: BOOLEAN,
                           via: 0..MaxAsserts, tries: 0..MaxTries]]
    /\ asserts \in [Assertions -> [chan: 0..MaxChannels, asked: BOOLEAN, ok: BOOLEAN]]
    /\ asserted \in 0..MaxAsserts
    /\ written \in [Calls -> Nat]

Init ==
    /\ ChannelsInit
    /\ call = [c \in Calls |-> [stage |-> "idle", chan |-> 0, debug |-> FALSE,
                                via |-> 0, tries |-> 0]]
    /\ asserts = [n \in Assertions |-> [chan |-> 0, asked |-> FALSE, ok |-> FALSE]]
    /\ asserted = 0
    /\ written = [c \in Calls |-> 0]

-----------------------------------------------------------------------------

At(c, stage) == call[c].stage = stage
Goto(c, stage) ==
    call' = [call EXCEPT
                ![c].stage = stage,
                ![c].chan = IF stage \in {"checking", "exchange"} THEN @ ELSE 0,
                ![c].via = IF stage = "exchange" THEN @ ELSE 0]

(* The channel of a call, once its promise has settled.                    *)
Mine(c) == promise[call[c].chan]

(* getChannel, of which the continuation is stage.                         *)
Await(c, k, stage) ==
    /\ GetChannel(k)
    /\ call' = [call EXCEPT ![c].stage = stage, ![c].chan = Channel(k)]
    /\ UNCHANGED <<exchangeCache, faults>>

-----------------------------------------------------------------------------
(* debugDestinationExists.                                                 *)

FirstStage(c) == IF c \in Debugged THEN "queued" ELSE "checked"

Publish(c) ==
    /\ At(c, "idle")
    /\ Goto(c, FirstStage(c))
    /\ UNCHANGED <<connection, asserts, asserted, written>>

(* Mutant: the checks are not sequential.                                  *)
CheckAtOnce(c) ==
    /\ At(c, "queued")
    /\ Await(c, DebugKey, "debugChannel")
    /\ UNCHANGED <<asserts, asserted, written>>

(* Mutant: the check is made on the shared channel.                        *)
CheckShared(c) ==
    /\ At(c, "queued")
    /\ \A d \in Calls : call[d].stage \notin {"debugChannel", "checking"}
    /\ Await(c, Shared, "debugChannel")
    /\ UNCHANGED <<asserts, asserted, written>>

(* Mutant: the limiter is held for the whole of publish, which calls       *)
(* itself when it is repeated, and so waits for its own slot.              *)
CheckNested(c) ==
    /\ At(c, "queued")
    /\ \A d \in Debugged : \/ call[d].stage \in {"idle"} \cup Settled
                           \/ At(d, "queued") /\ call[d].tries = 0
    /\ Await(c, DebugKey, "debugChannel")
    /\ UNCHANGED <<asserts, asserted, written>>

(* sequential lets one check at a time ask for the channel.                *)
Check(c) ==
    /\ At(c, "queued")
    /\ \A d \in Calls : call[d].stage \notin {"debugChannel", "checking"}
    /\ Await(c, DebugKey, "debugChannel")
    /\ UNCHANGED <<asserts, asserted, written>>

(* A debug channel that failed resolves to undefined: the TypeError is     *)
(* thrown outside the catch of the check and outside that of publish.  On  *)
(* a channel that is closed checkQueue rejects, and is caught.             *)
SendCheck(c) ==
    /\ At(c, "debugChannel")
    /\ \/ Mine(c).stage = "rejected" /\ Goto(c, "rejected")
       \/ Mine(c).stage = "resolved" /\ Goto(c, IF Mine(c).open THEN "checking" ELSE "checked")
    /\ UNCHANGED <<connection, asserts, asserted, written>>

QueueExists(c) ==
    /\ At(c, "checking") /\ Mine(c).open /\ c \in Served
    /\ call' = [call EXCEPT ![c].stage = "checked", ![c].chan = 0, ![c].debug = TRUE]
    /\ UNCHANGED <<connection, asserts, asserted, written>>

(* The broker closes a channel that checks a queue it does not have.       *)
QueueMissing(c) ==
    /\ At(c, "checking") /\ Mine(c).open /\ c \notin Served
    /\ CloseChannel(call[c].chan)
    /\ Goto(c, "checked")
    /\ UNCHANGED <<faults, asserts, asserted, written>>

(* The channel is lost meanwhile: the call keeps the queue it was given.   *)
CheckFails(c) ==
    /\ At(c, "checking") /\ ~Mine(c).open
    /\ Goto(c, "checked")
    /\ UNCHANGED <<connection, asserts, asserted, written>>

-----------------------------------------------------------------------------
(* publish.                                                                *)

AskChannel(c) ==
    /\ At(c, "checked")
    /\ Await(c, Shared, "channel")
    /\ UNCHANGED <<asserts, asserted, written>>

(* The assertion is cached when it is asked for, be the channel open or    *)
(* not: one that was asked on a closed channel has been rejected already.  *)
AssertExchange(c) ==
    LET e == ExchangeOf[c] IN
    /\ At(c, "channel") /\ Mine(c).stage = "resolved"
    /\ IF exchangeCache[e] # 0
       THEN /\ call' = [call EXCEPT ![c].stage = "exchange", ![c].via = exchangeCache[e]]
            /\ UNCHANGED <<exchangeCache, asserts, asserted>>
       ELSE /\ asserted < MaxAsserts
            /\ asserted' = asserted + 1
            /\ asserts' = [asserts EXCEPT ![asserted + 1] =
                              [chan |-> call[c].chan, asked |-> Mine(c).open, ok |-> FALSE]]
            /\ exchangeCache' = [exchangeCache EXCEPT ![e] = asserted + 1]
            /\ call' = [call EXCEPT ![c].stage = "exchange", ![c].via = asserted + 1]
    /\ UNCHANGED <<connexion, channels, promise, created, faults, written>>

NoChannel(c) ==
    /\ At(c, "channel") /\ Mine(c).stage = "rejected"
    /\ Goto(c, "failed")
    /\ UNCHANGED <<connection, asserts, asserted, written>>

AssertOk(n) ==
    /\ asserts[n].asked /\ ~asserts[n].ok /\ promise[asserts[n].chan].open
    /\ asserts' = [asserts EXCEPT ![n].ok = TRUE]
    /\ UNCHANGED <<connection, call, asserted, written>>

AssertFailed(n) == ~asserts[n].ok /\ ~promise[asserts[n].chan].open

(* Mutant: the message is written without waiting for the assertion.       *)
WriteEarly(c) ==
    /\ At(c, "exchange")
    /\ \/ /\ written[c] = 0 /\ Mine(c).open
          /\ written' = [written EXCEPT ![c] = 1]
          /\ UNCHANGED call
       \/ /\ asserts[call[c].via].ok
          /\ Goto(c, IF written[c] = 1 THEN "resolved" ELSE "rejected")
          /\ UNCHANGED written
    /\ UNCHANGED <<connection, asserts, asserted>>

(* chan.publish, which throws on a channel that closed meanwhile; "Channel *)
(* closed" is not an error to publish again on.                            *)
Write(c) ==
    /\ At(c, "exchange") /\ asserts[call[c].via].ok
    /\ IF Mine(c).open
       THEN Goto(c, "resolved") /\ written' = [written EXCEPT ![c] = @ + 1]
       ELSE Goto(c, "rejected") /\ UNCHANGED written
    /\ UNCHANGED <<connection, asserts, asserted>>

NoExchange(c) ==
    /\ At(c, "exchange") /\ AssertFailed(call[c].via)
    /\ Goto(c, IF asserts[call[c].via].asked THEN "failed" ELSE "rejected")
    /\ UNCHANGED <<connection, asserts, asserted, written>>

(* What the catch makes of the error depends on its text.                  *)
Reject(c) ==
    /\ At(c, "failed")
    /\ Goto(c, "rejected")
    /\ UNCHANGED <<connection, asserts, asserted, written>>

PublishAgain(c) ==
    /\ At(c, "failed") /\ call[c].tries < MaxTries
    /\ call' = [call EXCEPT ![c].stage = FirstStage(c), ![c].debug = FALSE, ![c].tries = @ + 1]
    /\ UNCHANGED <<connection, asserts, asserted, written>>

-----------------------------------------------------------------------------

CallStep(c) ==
    \/ Check(c) \/ SendCheck(c) \/ QueueExists(c) \/ QueueMissing(c) \/ CheckFails(c)
    \/ AskChannel(c) \/ AssertExchange(c) \/ NoChannel(c) \/ Write(c) \/ NoExchange(c)
    \/ Reject(c) \/ PublishAgain(c)

Progress ==
    \/ \E c \in Calls : CallStep(c)
    \/ \E n \in Assertions : AssertOk(n)
    \/ ChannelsProgress /\ UNCHANGED publishing

Next ==
    \/ \E c \in Calls : Publish(c)
    \/ Progress
    \/ ChannelsFault /\ UNCHANGED publishing

(* Nothing in Progress waits for more than an answer or a callback: a      *)
(* broker that does not answer is a broker whose connection is lost.       *)
Spec == Init /\ [][Next]_vars /\ WF_vars(Progress)

-----------------------------------------------------------------------------
(* Properties.                                                             *)

(* publish resolves "when message is published" (src/src/index.js:243):    *)
(* the message was written once, and never for a publish that rejected.    *)
(* Whatever is closed while the call waits, and however it is repeated.    *)
WrittenOnce ==
    \A c \in Calls : call[c].stage \in Settled =>
        written[c] = (IF At(c, "resolved") THEN 1 ELSE 0)

(* A cached exchange that was asserted was asserted on a channel that has  *)
(* not closed since: no publish trusts what an earlier channel declared.   *)
ExchangeCacheAlive ==
    \A e \in Exchanges :
        LET n == exchangeCache[e] IN
        n # 0 /\ asserts[n].ok => promise[asserts[n].chan].open

(* The race the comment of debugDestinationExists is about                 *)
(* (src/src/utils.js:148): as long as nothing is lost, no check fails over *)
(* the channel that another check made the broker close.                   *)
RoutedToDebug ==
    faults = 0 => \A c \in Served : At(c, "resolved") => call[c].debug

(* As long as nothing is lost no publish is rejected, although each check  *)
(* for a missing queue costs a channel.                                    *)
RejectedHasCause == faults = 0 => \A c \in Calls : ~At(c, "rejected")

(* Every publish settles, repeated or not: it waits for promises that      *)
(* settle, and a check gives the limiter back before the publish goes on,  *)
(* be it that it went wrong.  (What settled stays so: in the end no        *)
(* publish that was called is pending.)                                    *)
PublishSettles == <>[](\A c \in Calls : At(c, "idle") \/ call[c].stage \in Settled)

=============================================================================
