-------------------------- MODULE MCApiSubscription --------------------------
(* ApiSubscription for TLC: the leaves and values are model values.         *)
EXTENDS ApiSubscription, TLC

\* Leaves of one kind are interchangeable, and so are the values.
Symmetric ==
    Permutations(CdbPaths) \cup Permutations(ExtPaths) \cup Permutations(Vals)
===============================================================================
