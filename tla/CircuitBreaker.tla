----------------------------- MODULE CircuitBreaker -----------------------------
(***************************************************************************)
(* What the Route Pool promises about each route, whoever uses it: a       *)
(* circuit breaker with a failure counter and a time until which it is     *)
(* open.  A breaker opens only by a failure that reaches a threshold, for  *)
(* a bounded time counted from that failure; it never ignores a failure    *)
(* that reaches every threshold in use; it closes early only by a success, *)
(* by the operator or by a restart, and an operator who lifts a ban does   *)
(* not forgive the failures that led to it.                                *)
(***************************************************************************)
EXTENDS Integers

CONSTANTS
    Routes,
    MinThreshold, MaxThreshold,  \* the thresholds configurations use
    MaxBan,                      \* the longest ban a configuration asks for
    MaxCount                     \* where the failure counter saturates

VARIABLES
    now,
    failures,  \* route -> failures since the last success
    openUntil  \* route -> the end of the ban, 0 if there is none

vars == <<now, failures, openUntil>>

Init ==
    /\ now = 0
    /\ failures = [rt \in Routes |-> 0]
    /\ openUntil = [rt \in Routes |-> 0]

\* A failure that was observed at some earlier or present time `at`.
Failure(rt) ==
    /\ failures' = [failures EXCEPT ![rt] = IF @ < MaxCount THEN @ + 1 ELSE @]
    /\ \/ /\ failures'[rt] < MaxThreshold
          /\ UNCHANGED openUntil
       \/ /\ failures'[rt] >= MinThreshold
          /\ \E at \in 0..now : \E ban \in 1..MaxBan :
               openUntil' = [openUntil EXCEPT ![rt] = at + ban]
    /\ UNCHANGED now

\* A success, or the operator's reset of the route.
Close(rt) ==
    /\ failures' = [failures EXCEPT ![rt] = 0]
    /\ openUntil' = [openUntil EXCEPT ![rt] = 0]
    /\ UNCHANGED now

\* The operator lifts a ban; the failures still count.
LiftBan(rt) ==
    /\ openUntil' = [openUntil EXCEPT ![rt] = 0]
    /\ UNCHANGED <<now, failures>>

Restart ==
    /\ failures' = [rt \in Routes |-> 0]
    /\ openUntil' = [rt \in Routes |-> 0]
    /\ UNCHANGED now

Tick ==
    /\ now' = now + 1
    /\ UNCHANGED <<failures, openUntil>>

Next ==
    \/ \E rt \in Routes : Failure(rt) \/ Close(rt) \/ LiftBan(rt)
    \/ Restart
    \/ Tick

Spec == Init /\ [][Next]_vars

================================================================================
