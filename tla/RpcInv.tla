------------------------------- MODULE RpcInv -------------------------------
(* The inductive invariants behind the safety properties of Rpc.           *)
EXTENDS Rpc

(* A request that is on its way carries a correlation id.                  *)
Correlations == \A c \in Calls : stage[c] = "published" => correlation[c] # None

RpcInv == TypeOK /\ Correlations

(* Nothing happens to a call that was not made yet.                        *)
Untouched == \A c \in Calls : stage[c] = "idle" => c \notin cleared /\ first[c] = None

CacheInv == CacheTracks /\ Untouched

(* A correlation id is left in an options object by a call that was given  *)
(* that object, and so it travels: to a request, to an answer, to a call.  *)
IdsOfOptions ==
    /\ \A o \in Options : headers[o] # None => OptionsOf[headers[o]] = o
    /\ \A c \in Calls : correlation[c] # None => SameOptions(correlation[c], c)
    /\ \A r \in replies : SameOptions(r.call, r.id)

OptionsInv == IdsOfOptions /\ OwnAnswer

(* Every call is made with an options object of its own, or with none (the *)
(* default of the parameter makes a new one).                              *)
OwnObjects == \A c, d \in Calls : SameOptions(c, d) => c = d

(* Then a call gets the answers of its own request only.                   *)
Unmixed ==
    \A c \in Calls :
        /\ first[c] \in {c, None}
        /\ \A r \in callbacks[c] : r.call = c

(* An answer, on its way or received, is that of a published request.      *)
AnswersArePublished ==
    /\ \A r \in replies : stage[r.call] = "published"
    /\ \A c \in Calls : first[c] # None => stage[first[c]] = "published"

(* The leak: the entry of an invoke that could not be published.           *)
Leaked == \A c \in Invokes : stage[c] = "unpublished" => c \in cache
=============================================================================
