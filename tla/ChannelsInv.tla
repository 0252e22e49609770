----------------------------- MODULE ChannelsInv -----------------------------
(* The inductive invariants behind the safety properties of Channels, that  *)
(* its compositions keep.                                                   *)
EXTENDS Channels

(* Promises are created in order.                                          *)
CreatedInOrder ==
    /\ \A a \in Promises : promise[a].stage # "absent" <=> a <= created
    /\ \A k \in Keys : channels[k] <= created

(* What a promise of a channel waits for is there: the connection that is  *)
(* being made, or the one that is open.                                    *)
ConnectionMatches ==
    \A a \in Promises :
        /\ promise[a].stage = "connecting" => connexion = "connecting"
        /\ promise[a].stage = "opening" => connexion = "open"
        /\ promise[a].stage = "asserting" => promise[a].open
        /\ promise[a].open => promise[a].stage \in {"asserting", "resolved"}

Failed(a) == promise[a].stage \in {"failing", "rejected"}
NoneFailed == \A a \in Promises : ~Failed(a)

(* As long as none failed a channel that lives is the cached one.          *)
LiveIsCached == NoneFailed => \A a \in Promises : Live(a) => channels[promise[a].key] = a

ChannelsInv ==
    /\ ChannelsTypeOK
    /\ CreatedInOrder
    /\ ConnectionMatches
    /\ ChannelCacheAlive
    /\ LiveIsCached
=============================================================================
