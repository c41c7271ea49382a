--------------------------- MODULE RoutePoolProperties ---------------------------
(***************************************************************************)
(* What is checked, and partly proved, of the Route Pool.                  *)
(***************************************************************************)
EXTENDS RoutePool, FiniteSets

PCs == {"idle", "filter", "skipped", "try", "sending", "failing", "reportFailed",
        "reportBanned", "reportRecovered", "deliver", "reportExhausted"}

BreakerType == [failures: 0..MaxCount, bannedUntil: Nat, hasError: BOOLEAN,
                lastFailure: Nat]

RequestType ==
    [pc: PCs, cfg: Configs, queue: Seq(Routes), attempts: Seq(Routes),
     tried: Seq(Routes), stamp: Nat, route: Routes \cup {None}, banned: BOOLEAN,
     lastError: Routes \cup {None}, stream: BOOLEAN, pending: BOOLEAN, recorded: Nat]

EventType ==
    [type: {"skipped", "failed", "banned", "recovered", "exhausted", "ban_cleared",
            "reset"}, route: Routes \cup {None}]

AdminType == {NoAdmin} \cup [type: {"ban_cleared", "reset"}, route: Routes]

\* Types of the variables; the history never outgrows ROUTE_POOL_EVENT_HISTORY_LIMIT.
TypeOK ==
    /\ now \in Nat
    /\ config \in Configs
    /\ routeState \in [Routes -> BreakerType]
    /\ events \in Seq(EventType) /\ Len(events) <= EventLimit
    /\ req \in [Slots -> RequestType]
    /\ admin \in AdminType
    /\ cleared \in SUBSET Routes
    /\ unreported \in [Changes -> [Routes -> Int]]

--------------------------------------------------------------------------------
CONSTANTS MinThreshold, MaxThreshold, MaxBan  \* bounds of what configurations ask for

ASSUME BoundsAssumption ==
    /\ MinThreshold \in Nat \ {0} /\ MaxThreshold \in Nat /\ MaxBan \in Nat
    /\ \A c \in Configs : /\ Threshold(c) \in MinThreshold..MaxThreshold
                          /\ BanSeconds(c) \in 1..MaxBan

\* The fields of a breaker, each written by several concurrent requests and by the
\* operator, always tell one story: an error is shown exactly while failures are
\* counted, and only a route with enough failures is banned, never beyond one ban
\* duration from the present, even if the failure that bans it was observed earlier.
BreakerConsistent ==
    \A rt \in Routes :
      LET st == routeState[rt]
      IN  /\ st.hasError <=> st.failures > 0
          /\ st.lastFailure <= now
          /\ st.bannedUntil > 0 => /\ st.failures >= MinThreshold
                                   /\ st.bannedUntil <= now + MaxBan

\* Once a route has failed as often as any threshold asks, it holds a ban (running
\* or expired) until it succeeds or the operator intervenes: no interleaving of late
\* answers, reloads and admin calls leaves it unbanned otherwise.
TripsAtThreshold ==
    \A rt \in Routes :
      routeState[rt].failures >= MaxThreshold =>
        routeState[rt].bannedUntil > 0 \/ rt \in cleared

\* The candidates of a request appear in priority order, each at most once, in what
\* it has tried, will try and has yet to look at: fail-over never goes back to a
\* route of higher priority and never repeats one.
IsSubsequence(s, t) ==
    \E f \in [1..Len(s) -> 1..Len(t)] :
      /\ \A i, j \in 1..Len(s) : i < j => f[i] < f[j]
      /\ \A i \in 1..Len(s) : s[i] = t[f[i]]

FailoverOrder ==
    \A s \in Slots :
      LET q == req[s]
      IN  IsSubsequence(q.tried \o q.attempts \o q.queue, Candidates(q.cfg))

\* Every attempt of a request is recorded once, whatever order failures, late
\* successes and reports happen in; only a stream's last attempt may be pending.
AttemptsAccounted ==
    \A s \in Slots :
      LET q == req[s]
      IN  /\ q.pc \in {"try", "reportExhausted"} => q.recorded = Len(q.tried)
          /\ q.pc = "deliver" =>
               q.recorded + (IF q.pending THEN 1 ELSE 0) = Len(q.tried)

\* Request q has yet to report a change of the breaker of rt.
YetToTell(q, change, rt) ==
    /\ q.route = rt
    /\ \/ change = "failed"    /\ q.pc = "reportFailed"
       \/ change = "banned"    /\ q.pc = "reportBanned"
       \/ change = "banned"    /\ q.pc = "reportFailed" /\ q.banned
       \/ change = "recovered" /\ q.pc = "reportRecovered"

Reporters(change, rt) == {s \in Slots : YetToTell(req[s], change, rt)}

\* Breakers change in one lock section and the history is told in another, but every
\* failure, every ban (also one that renews an older one, or that another request
\* lifts at once) and every recovery is told exactly once: what has not been told yet
\* is what requests are about to tell, a failure before the ban that it caused, and
\* nothing is told that never was.  When no request is under way, nothing is missing.
ChangesAreReported ==
    \A change \in Changes, rt \in Routes :
      unreported[change][rt] = Cardinality(Reporters(change, rt))

\* A request that gives up blames the last route it really tried; only one that
\* tried nothing borrows the error of another request, and from its own candidates.
LastTriedIsBlamed ==
    \A s \in Slots :
      LET q == req[s]
      IN  q.pc = "reportExhausted" =>
            /\ q.queue = <<>> /\ q.attempts = <<>>
            /\ IF q.tried # <<>> THEN q.lastError = Last(q.tried)
               ELSE q.lastError \in ToSet(Candidates(q.cfg)) \cup {None}

\* The routes implement the circuit breaker promised to the operator.
Breaker == INSTANCE CircuitBreaker WITH
    failures  <- [rt \in Routes |-> routeState[rt].failures],
    openUntil <- [rt \in Routes |-> routeState[rt].bannedUntil]

ImplementsBreaker == Breaker!Spec

\* Every accepted request ends: with an answer, or by reporting that the pool is
\* exhausted, whatever the other requests and the operator do.
EveryRequestEnds ==
    \A s \in Slots : req[s].pc # "idle" ~> req[s].pc = "idle"

================================================================================
