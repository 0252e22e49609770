---------------------------- MODULE AtLeastOnce ----------------------------
(***************************************************************************)
(* What a subscription of carotte-amqp promises for the messages of its    *)
(* queue, whatever happens to the processes that consume it.               *)
(*                                                                         *)
(* A job is a message on one of two queues: the subscriber's own ("work")  *)
(* and the dead-letter queue ("dead").  A job is live while the broker     *)
(* holds a copy of it.  It may be given up only after it has an outcome:   *)
(*   "ok"       the handler returned,                                      *)
(*   "status"   the handler failed with an error that carries a status,    *)
(*   "saved"    the retries ran out, a dead job took its place,            *)
(*   "dropped"  the retries ran out and dead-lettering is disabled.        *)
(***************************************************************************)
EXTENDS Naturals

CONSTANT Messages

Jobs == Messages \X {"work", "dead"}
Outcomes == {"ok", "status", "saved", "dropped"}

VARIABLES live, outcome
vars == <<live, outcome>>

TypeOK ==
    /\ live \subseteq Jobs
    /\ outcome \in [Jobs -> SUBSET Outcomes]

Init ==
    /\ live = {}
    /\ outcome = [j \in Jobs |-> {}]

Known(j) == j \in live \/ outcome[j] # {}

Publish(m) ==
    /\ ~Known(<<m, "work">>)
    /\ live' = live \cup {<<m, "work">>}
    /\ UNCHANGED outcome

(* One execution of a job ends; the broker may still hold other copies.    *)
Conclude(j, o) ==
    /\ Known(j)
    /\ outcome' = [outcome EXCEPT ![j] = @ \cup {o}]
    /\ live' \in {live, live \ {j}}

(* The work job is concluded by creating its dead job, in one step.        *)
DeadLetter(m) ==
    /\ Known(<<m, "work">>)
    /\ outcome' = [outcome EXCEPT ![<<m, "work">>] = @ \cup {"saved"}]
    /\ live' = live \cup {<<m, "dead">>}

(* The last copy of a job that has an outcome is acknowledged.             *)
Retire(j) ==
    /\ outcome[j] # {}
    /\ live' = live \ {j}
    /\ UNCHANGED outcome

(* A late retry puts a job back that was already concluded.                *)
Repeat(j) ==
    /\ outcome[j] # {}
    /\ live' = live \cup {j}
    /\ UNCHANGED outcome

Next ==
    \/ \E m \in Messages : Publish(m) \/ DeadLetter(m)
    \/ \E j \in Jobs : Retire(j) \/ Repeat(j) \/ \E o \in Outcomes \ {"saved"} : Conclude(j, o)

Spec == Init /\ [][Next]_vars

=============================================================================
