---------------------------- MODULE PublishingInv ----------------------------
(* The inductive invariants behind the safety properties of Publishing.     *)
EXTENDS Publishing, ChannelsInv

OfDebug(c) == call[c].stage \in {"debugChannel", "checking"}
OfShared(c) == call[c].stage \in {"channel", "exchange"}

(* A call awaits a channel of the right key, which is there once it is used. *)
Own(c) ==
    /\ OfDebug(c) \/ OfShared(c) => call[c].chan \in 1..created
    /\ OfDebug(c) => Mine(c).key = DebugKey
    /\ OfShared(c) => Mine(c).key = Shared
    /\ call[c].stage \in {"checking", "exchange"} => Mine(c).stage = "resolved"
    /\ At(c, "exchange") => call[c].via \in 1..asserted

OwnChannel == \A c \in Calls : Own(c)

(* An exchange is asserted on a shared channel, once that is there.        *)
AssertedOnShared ==
    /\ \A e \in Exchanges : exchangeCache[e] <= asserted
    /\ \A n \in Assertions : n <= asserted =>
          /\ asserts[n].chan \in 1..created
          /\ promise[asserts[n].chan].key = Shared
          /\ promise[asserts[n].chan].stage = "resolved"
    /\ \A n \in Assertions : n > asserted => ~asserts[n].asked /\ ~asserts[n].ok

(* A message is written by the step that resolves the publish.             *)
WrittenWhenResolved == \A c \in Calls : written[c] = (IF At(c, "resolved") THEN 1 ELSE 0)

PublishInv ==
    /\ TypeOK
    /\ ChannelsInv
    /\ OwnChannel
    /\ AssertedOnShared
    /\ ExchangeCacheAlive
    /\ WrittenWhenResolved

(* One check at a time.                                                    *)
OneCheck == \A c, d \in Calls : OfDebug(c) /\ OfDebug(d) => c = d

(* No channel failed, and the shared one is not closed.                    *)
SharedLive ==
    /\ NoneFailed
    /\ \A a \in Promises : promise[a].key = Shared /\ promise[a].stage # "absent" => Live(a)

(* A check is made on the debug channel that is in the cache.              *)
CheckOnCached == \A c \in Calls : OfDebug(c) => channels[DebugKey] = call[c].chan

(* Without a fault no channel fails, and only those of checks are closed.  *)
SharedStays == faults = 0 => SharedLive /\ CheckOnCached

(* Without a fault a call is as far as its check allows, and none fails.   *)
Right(c) ==
    /\ call[c].stage \notin {"failed", "rejected"}
    /\ c \in Served /\ call[c].stage \in {"checked", "channel", "exchange", "resolved"}
          => call[c].debug

CheckedRight == faults = 0 => \A c \in Calls : Right(c)

CheckInv == OneCheck /\ SharedStays /\ CheckedRight
=============================================================================
