------------------------- MODULE MCAccountLifecycle -------------------------
(* Two subscriptions of one account, on one login or on two.  With one     *)
(* login the subscriptions, like the sessions, are interchangeable.        *)
EXTENDS AccountLifecycle, TLC

CONSTANTS s1, s2

OneLogin == [s \in {s1, s2} |-> "login"]
TwoLogins == [s \in {s1, s2} |-> IF s = s1 THEN "login" ELSE "other"]

Symmetry == Permutations(Procs) \cup Permutations(Subs)
=============================================================================
