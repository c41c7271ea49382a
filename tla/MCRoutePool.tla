------------------------------- MODULE MCRoutePool -------------------------------
(***************************************************************************)
(* Small instances of the Route Pool.                                      *)
(***************************************************************************)
EXTENDS RoutePoolProperties

CONSTANTS a, b  \* two routes

\* A pool of one route that is banned at its second failure, and the same pool
\* after the operator asked for a ban at the first one (a threshold and a duration
\* of 0 are read as 1).
Strict  == [enabled |-> TRUE, order |-> <<a>>, resolved |-> {a},
            failureThreshold |-> 0, banSeconds |-> 0]
Lenient == [Strict EXCEPT !.failureThreshold = 2, !.banSeconds = 2]
Off      == [Strict EXCEPT !.enabled = FALSE]
OneRoute == {Strict, Lenient, Off}
OnlyStrict == {Strict}

\* Two routes; the provider of the second one can be missing from the configuration.
Pair      == [enabled |-> TRUE, order |-> <<a, b>>, resolved |-> {a, b},
              failureThreshold |-> 1, banSeconds |-> 1]
TwoRoutes == {Pair}
Orphaned  == {Pair, [Pair EXCEPT !.resolved = {a}]}

SlotSymmetry == Permutations(Slots)

================================================================================
