--------------------------- MODULE MC_Subscription ---------------------------
(* An instance of Subscription for TLC: s1 and the topic s2 subscribe to   *)
(* one qualifier with a prefetch, and the bind of s2 may hang; s3 has the  *)
(* channel 0.                                                              *)
EXTENDS Subscription

CONSTANTS s1, s2, s3

Channel0 == <<"", 0>>
TwoKeys == {Channel0, <<"f", 1>>}
Qualifiers == [s \in Subscriptions |-> IF s = s3 THEN "g" ELSE "f"]
Prefetches == [s \in Subscriptions |-> IF s = s3 THEN 0 ELSE 1]
=============================================================================
