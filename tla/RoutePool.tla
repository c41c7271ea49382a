------------------------------- MODULE RoutePool -------------------------------
(***************************************************************************)
(* The Route Pool of the server (ccr-server/src/runtime/route_pool.rs): an *)
(* ordered list of upstream routes, one circuit breaker per route, and the *)
(* loop that fails a client request over from one route to the next.       *)
(*                                                                         *)
(* Requests run concurrently.  The only state they share is a map from     *)
(* route to breaker and a bounded event history, each behind a mutex of    *)
(* its own, so a request is a chain of small atomic steps: every lock      *)
(* acquisition, every await and every reading of the clock that is used    *)
(* after a later lock is a step.  Clients come and go, upstream answers    *)
(* arrive in any order, the operator clears bans and resets routes, the    *)
(* configuration is reloaded under running requests, and the process may   *)
(* be restarted.                                                           *)
(*                                                                         *)
(* Left out: the text of errors and events (an error is represented by the *)
(* route that it blames), last_success_epoch_secs (only displayed), the    *)
(* application log, and the request metrics (one append per request).      *)
(***************************************************************************)
EXTENDS Integers, SequencesExt

CONSTANTS
    Routes,      \* the route strings that configurations may name
    Slots,       \* requests that can be in flight at the same time
    Configs,     \* the configurations a reload can install
    Streaming,   \* whether client requests may ask for a stream: a subset of BOOLEAN
    MaxCount,    \* the largest value of the failure counter (u32::MAX)
    EventLimit,  \* ROUTE_POOL_EVENT_HISTORY_LIMIT
    MaxTime,     \* bound of the model: the clock stops here
    None         \* Option::None

\* What the breaker reads of a configuration.  `order` is the list computed by
\* active_route_pool_routes, `resolved` are the routes that find_provider resolves.
ConfigType == [enabled: BOOLEAN, order: Seq(Routes), resolved: SUBSET Routes,
               failureThreshold: Nat, banSeconds: Nat]

ASSUME ConstantsAssumption ==
    /\ Configs # {} /\ Configs \subseteq ConfigType
    /\ \A c \in Configs : IsInjective(c.order)
    /\ Streaming \in SUBSET BOOLEAN
    /\ IsFiniteSet(Slots)
    /\ MaxCount \in Nat \ {0} /\ EventLimit \in Nat \ {0} /\ MaxTime \in Nat
    /\ \A c \in Configs : c.failureThreshold <= MaxCount
    /\ None \notin Routes

VARIABLES
    now,         \* the wall clock, in seconds
    config,      \* the configuration held by ReloadableConfig
    routeState,  \* route -> breaker; a route with no map entry has NewState
    events,      \* the event history, oldest first
    req,         \* slot -> the local state of send_with_route_pool
    admin,       \* the operator's request that has yet to record its event
    cleared,     \* history variable: routes whose ban the operator lifted and
                 \* that have neither failed nor succeeded since
    unreported   \* history variable: how often requests changed the breaker of a
                 \* route in each way, less how often the history was told so

vars == <<now, config, routeState, events, req, admin, cleared, unreported>>

--------------------------------------------------------------------------------
\* The configuration helpers.
Candidates(c) == IF c.enabled THEN c.order ELSE <<>>
Threshold(c)  == IF c.failureThreshold >= 1 THEN c.failureThreshold ELSE 1
BanSeconds(c) == IF c.banSeconds >= 1 THEN c.banSeconds ELSE 1

\* A breaker.  bannedUntil = 0 stands for None: a ban ends after the epoch.
NewState == [failures |-> 0, bannedUntil |-> 0, hasError |-> FALSE, lastFailure |-> 0]

IsBanned(rt, at) == routeState[rt].bannedUntil > at

SaturatingInc(n) == IF n < MaxCount THEN n + 1 ELSE n

\* Mutant: the threshold must be exceeded.
AfterFailureOffByOne(st, c, at) ==
    LET n == SaturatingInc(st.failures)
    IN  [failures |-> n, hasError |-> TRUE, lastFailure |-> at,
         bannedUntil |-> IF n > Threshold(c) THEN at + BanSeconds(c) ELSE st.bannedUntil]

\* Mutant: a further failure prolongs the running ban.
AfterFailureProlongs(st, c, at) ==
    LET n == SaturatingInc(st.failures)
    IN  [failures |-> n, hasError |-> TRUE, lastFailure |-> at,
         bannedUntil |-> IF n >= Threshold(c) THEN Max({st.bannedUntil, at}) + BanSeconds(c)
                         ELSE st.bannedUntil]

AfterFailure(st, c, at) ==
    LET n == SaturatingInc(st.failures)
    IN  [failures    |-> n,
         bannedUntil |-> IF n >= Threshold(c) THEN at + BanSeconds(c) ELSE st.bannedUntil,
         hasError    |-> TRUE,
         lastFailure |-> at]

\* Mutant: a success forgets to take the ban.
AfterSuccessKeepsBan(st) == [st EXCEPT !.failures = 0, !.hasError = FALSE]

AfterSuccess(st) ==
    [st EXCEPT !.failures = 0, !.bannedUntil = 0, !.hasError = FALSE]

AfterClear(st) == [st EXCEPT !.bannedUntil = 0]

\* The error to report when this request attempted nothing: that of the last
\* route in configured order that has one.
LastRoutePoolError(order) ==
    LET last == {i \in DOMAIN order :
                   /\ routeState[order[i]].hasError
                   /\ \A j \in (i + 1)..Len(order) : ~routeState[order[j]].hasError}
    IN  IF last = {} THEN None ELSE order[CHOOSE i \in last : TRUE]

\* The ways in which requests change breakers, named as the events that report them.
Changes == {"failed", "banned", "recovered"}

NothingUnreported == [change \in Changes |-> [rt \in Routes |-> 0]]

Reported(type, rt) ==
    unreported' = IF type \in Changes THEN [unreported EXCEPT ![type][rt] = @ - 1]
                  ELSE unreported

\* Mutant: the oldest event is never dropped.
RecordEventUnbounded(type, rt) ==
    /\ events' = Append(events, [type |-> type, route |-> rt])
    /\ Reported(type, rt)

\* record_route_pool_event
RecordEvent(type, rt) ==
    /\ events' = Append(IF Len(events) >= EventLimit THEN Tail(events) ELSE events,
                        [type |-> type, route |-> rt])
    /\ Reported(type, rt)

AnyConfig == CHOOSE c \in Configs : TRUE

IdleRequest ==
    [pc |-> "idle", cfg |-> AnyConfig, queue |-> <<>>, attempts |-> <<>>,
     tried |-> <<>>, stamp |-> 0, route |-> None, banned |-> FALSE,
     lastError |-> None, stream |-> FALSE, pending |-> FALSE, recorded |-> 0]

NoAdmin == [type |-> None, route |-> None]

Init ==
    /\ now = 0
    /\ config \in Configs
    /\ routeState = [rt \in Routes |-> NewState]
    /\ events = <<>>
    /\ req = [s \in Slots |-> IdleRequest]
    /\ admin = NoAdmin
    /\ cleared = {}
    /\ unreported = NothingUnreported

--------------------------------------------------------------------------------
(***************************************************************************)
(* A request: snapshot the configuration, drop the banned candidates.      *)
(***************************************************************************)
\* A pool that is disabled or has no candidate answers at once and changes
\* nothing; the slot stays idle, so it is not a step.
Start(s) ==
    /\ req[s].pc = "idle"
    /\ Candidates(config) # <<>>
    /\ \E stream \in Streaming :
         req' = [req EXCEPT ![s] = [IdleRequest EXCEPT
                    !.pc = "filter", !.cfg = config, !.queue = Candidates(config),
                    !.stamp = now, !.stream = stream]]
    /\ UNCHANGED <<now, config, routeState, events, admin, cleared, unreported>>

FilterNext(s) == IF Len(req[s].queue) = 1 THEN "try" ELSE "filter"

\* The candidate was not banned when its breaker was read: it will be attempted.
Keep(s) ==
    /\ req[s].pc = "filter"
    /\ ~IsBanned(Head(req[s].queue), req[s].stamp)
    /\ req' = [req EXCEPT ![s].pc = FilterNext(s), ![s].queue = Tail(@),
                          ![s].attempts = Append(@, Head(req[s].queue))]
    /\ UNCHANGED <<now, config, routeState, events, admin, cleared, unreported>>

Skip(s) ==
    /\ req[s].pc = "filter"
    /\ IsBanned(Head(req[s].queue), req[s].stamp)
    /\ req' = [req EXCEPT ![s].pc = "skipped"]
    /\ UNCHANGED <<now, config, routeState, events, admin, cleared, unreported>>

\* Mutant: the candidate is looked at again until its ban is over.
ReportSkippedWaits(s) ==
    /\ req[s].pc = "skipped"
    /\ RecordEvent("skipped", Head(req[s].queue))
    /\ req' = [req EXCEPT ![s].pc = "filter"]
    /\ UNCHANGED <<now, config, routeState, admin, cleared>>

ReportSkipped(s) ==
    /\ req[s].pc = "skipped"
    /\ RecordEvent("skipped", Head(req[s].queue))
    /\ req' = [req EXCEPT ![s].pc = FilterNext(s), ![s].queue = Tail(@)]
    /\ UNCHANGED <<now, config, routeState, admin, cleared>>

(***************************************************************************)
(* The attempt loop.                                                       *)
(***************************************************************************)
\* Mutant: the route stays in the list and is attempted again.
NextAttemptAgain(s, pc) ==
    /\ req[s].pc = "try"
    /\ req[s].attempts # <<>>
    /\ req' = [req EXCEPT ![s].pc = pc, ![s].route = Head(req[s].attempts),
                          ![s].tried = Append(@, Head(req[s].attempts)),
                          ![s].stamp = IF pc = "failing" THEN now ELSE @]
    /\ UNCHANGED <<now, config, routeState, events, admin, cleared, unreported>>

\* Take the next attempt.  Nothing reads the breaker again here.
NextAttempt(s, pc) ==
    /\ req[s].pc = "try"
    /\ req[s].attempts # <<>>
    /\ req' = [req EXCEPT ![s].pc = pc, ![s].attempts = Tail(@),
                          ![s].route = Head(req[s].attempts),
                          ![s].tried = Append(@, Head(req[s].attempts)),
                          ![s].stamp = IF pc = "failing" THEN now ELSE @]
    /\ UNCHANGED <<now, config, routeState, events, admin, cleared, unreported>>

\* find_provider knows the route and the upstream request could be built.
Send(s) ==
    /\ NextAttempt(s, "sending")
    /\ Head(req[s].attempts) \in req[s].cfg.resolved

\* The provider is unknown, or it is known and build_upstream_request fails,
\* which depends on the request's body: either way no request is sent.
CannotBuild(s) == NextAttempt(s, "failing")

\* A network error, a timeout, or status 5xx, 429, 401 or 403; the clock is read
\* before the lock is taken.
UpstreamFails(s) ==
    /\ req[s].pc = "sending"
    /\ req' = [req EXCEPT ![s].pc = "failing", ![s].stamp = now]
    /\ UNCHANGED <<now, config, routeState, events, admin, cleared, unreported>>

\* A failure of rt was counted, and banned the route or not.
FailureToReport(rt, banned) ==
    unreported' = [unreported EXCEPT !["failed"][rt] = @ + 1,
                                     !["banned"][rt] = IF banned THEN @ + 1 ELSE @]

\* Mutant: the request does not remember its own error.
ApplyFailureSilently(s) ==
    /\ req[s].pc = "failing"
    /\ LET rt     == req[s].route
           after  == AfterFailure(routeState[rt], req[s].cfg, req[s].stamp)
           banned == after.failures >= Threshold(req[s].cfg)
       IN  /\ routeState' = [routeState EXCEPT ![rt] = after]
           /\ req' = [req EXCEPT ![s].pc = "reportFailed", ![s].banned = banned]
           /\ cleared' = cleared \ {rt}
           /\ FailureToReport(rt, banned)
    /\ UNCHANGED <<now, config, events, admin>>

\* Mutant: a ban is reported only if the route had none, running or expired.
ApplyFailureOfTheUnbanned(s) ==
    /\ req[s].pc = "failing"
    /\ LET rt     == req[s].route
           after  == AfterFailure(routeState[rt], req[s].cfg, req[s].stamp)
           banned == after.failures >= Threshold(req[s].cfg)
       IN  /\ routeState' = [routeState EXCEPT ![rt] = after]
           /\ req' = [req EXCEPT ![s].pc = "reportFailed", ![s].lastError = rt,
                         ![s].banned = banned /\ routeState[rt].bannedUntil = 0]
           /\ cleared' = cleared \ {rt}
           /\ FailureToReport(rt, banned)
    /\ UNCHANGED <<now, config, events, admin>>

ApplyFailure(s) ==
    /\ req[s].pc = "failing"
    /\ LET rt     == req[s].route
           after  == AfterFailure(routeState[rt], req[s].cfg, req[s].stamp)
           banned == after.failures >= Threshold(req[s].cfg)
       IN  /\ routeState' = [routeState EXCEPT ![rt] = after]
           /\ req' = [req EXCEPT ![s].pc = "reportFailed", ![s].lastError = rt,
                         ![s].banned = banned]
           /\ cleared' = cleared \ {rt}
           /\ FailureToReport(rt, banned)
    /\ UNCHANGED <<now, config, events, admin>>

\* After the events of a failure its attempt metric is recorded and the loop goes on.
ReportFailed(s) ==
    /\ req[s].pc = "reportFailed"
    /\ RecordEvent("failed", req[s].route)
    /\ req' = IF req[s].banned
              THEN [req EXCEPT ![s].pc = "reportBanned"]
              ELSE [req EXCEPT ![s].pc = "try", ![s].recorded = @ + 1]
    /\ UNCHANGED <<now, config, routeState, admin, cleared>>

ReportBanned(s) ==
    /\ req[s].pc = "reportBanned"
    /\ RecordEvent("banned", req[s].route)
    /\ req' = [req EXCEPT ![s].pc = "try", ![s].banned = FALSE, ![s].recorded = @ + 1]
    /\ UNCHANGED <<now, config, routeState, admin, cleared>>

\* Mutant: a stream's attempt is recorded at its headers and at its first chunk.
DeliverTwice(s) ==
    [req EXCEPT ![s].pc = "deliver", ![s].pending = req[s].stream, ![s].recorded = @ + 1]

\* The attempt's metric is recorded before a plain answer is returned; that of a
\* stream waits for the first chunk.
Deliver(s) ==
    [req EXCEPT ![s].pc = "deliver", ![s].pending = req[s].stream,
                ![s].recorded = IF req[s].stream THEN @ ELSE @ + 1]

\* Status 2xx.
ApplySuccess(s) ==
    /\ req[s].pc = "sending"
    /\ LET rt == req[s].route
       IN  /\ routeState' = [routeState EXCEPT ![rt] = AfterSuccess(@)]
           /\ req' = IF routeState[rt].bannedUntil # 0
                     THEN [req EXCEPT ![s].pc = "reportRecovered"]
                     ELSE Deliver(s)
           /\ cleared' = cleared \ {rt}
           /\ unreported' = IF routeState[rt].bannedUntil # 0
                            THEN [unreported EXCEPT !["recovered"][rt] = @ + 1]
                            ELSE unreported
    /\ UNCHANGED <<now, config, events, admin>>

ReportRecovered(s) ==
    /\ req[s].pc = "reportRecovered"
    /\ RecordEvent("recovered", req[s].route)
    /\ req' = Deliver(s)
    /\ UNCHANGED <<now, config, routeState, admin, cleared>>

\* Any other status, such as 400 or 404: neither a failure nor a success.
UpstreamRejects(s) ==
    /\ req[s].pc = "sending"
    /\ req' = Deliver(s)
    /\ UNCHANGED <<now, config, routeState, events, admin, cleared, unreported>>

Exhausted(s) ==
    /\ req[s].pc = "try"
    /\ req[s].attempts = <<>>
    /\ req' = [req EXCEPT ![s].pc = "reportExhausted",
                  ![s].lastError = IF @ # None THEN @
                                   ELSE LastRoutePoolError(Candidates(req[s].cfg))]
    /\ UNCHANGED <<now, config, routeState, events, admin, cleared, unreported>>

ReportExhausted(s) ==
    /\ req[s].pc = "reportExhausted"
    /\ RecordEvent("exhausted", None)
    /\ req' = [req EXCEPT ![s] = IdleRequest]
    /\ UNCHANGED <<now, config, routeState, admin, cleared>>

(***************************************************************************)
(* The answer's body.  Its failure is reported to the client alone.        *)
(***************************************************************************)
FirstChunk(s) ==
    /\ req[s].pc = "deliver"
    /\ req[s].pending
    /\ req' = [req EXCEPT ![s].pending = FALSE, ![s].recorded = @ + 1]
    /\ UNCHANGED <<now, config, routeState, events, admin, cleared, unreported>>

BodyEnds(s) ==
    /\ req[s].pc = "deliver"
    /\ req' = [req EXCEPT ![s] = IdleRequest]
    /\ UNCHANGED <<now, config, routeState, events, admin, cleared, unreported>>

\* The client disconnects: the handler is dropped where it awaits the upstream.
Cancel(s) ==
    /\ req[s].pc = "sending"
    /\ req' = [req EXCEPT ![s] = IdleRequest]
    /\ UNCHANGED <<now, config, routeState, events, admin, cleared, unreported>>

--------------------------------------------------------------------------------
(***************************************************************************)
(* The operator and the environment.                                       *)
(***************************************************************************)
ClearBan(rt) ==
    /\ admin = NoAdmin
    /\ rt \in ToSet(Candidates(config))
    /\ routeState' = [routeState EXCEPT ![rt] = AfterClear(@)]
    /\ cleared' = IF routeState[rt].bannedUntil # 0 THEN cleared \cup {rt} ELSE cleared
    /\ admin' = [type |-> "ban_cleared", route |-> rt]
    /\ UNCHANGED <<now, config, events, req, unreported>>

ResetRoute(rt) ==
    /\ admin = NoAdmin
    /\ rt \in ToSet(Candidates(config))
    /\ routeState' = [routeState EXCEPT ![rt] = NewState]
    /\ cleared' = cleared \ {rt}
    /\ admin' = [type |-> "reset", route |-> rt]
    /\ UNCHANGED <<now, config, events, req, unreported>>

ReportAdmin ==
    /\ admin # NoAdmin
    /\ RecordEvent(admin.type, admin.route)
    /\ admin' = NoAdmin
    /\ UNCHANGED <<now, config, routeState, req, cleared>>

Reload ==
    /\ config' \in Configs
    /\ UNCHANGED <<now, routeState, events, req, admin, cleared, unreported>>

\* All of it lives in memory: a restart forgets every ban and every request.
Restart ==
    /\ routeState' = [rt \in Routes |-> NewState]
    /\ events' = <<>>
    /\ req' = [s \in Slots |-> IdleRequest]
    /\ admin' = NoAdmin
    /\ cleared' = {}
    /\ unreported' = NothingUnreported
    /\ UNCHANGED <<now, config>>

Tick ==
    /\ now < MaxTime
    /\ now' = now + 1
    /\ UNCHANGED <<config, routeState, events, req, admin, cleared, unreported>>

--------------------------------------------------------------------------------
\* The steps a request in flight takes by itself.
RequestStep(s) ==
    \/ Keep(s) \/ Skip(s) \/ ReportSkipped(s)
    \/ Send(s) \/ CannotBuild(s)
    \/ UpstreamFails(s) \/ ApplyFailure(s) \/ ReportFailed(s) \/ ReportBanned(s)
    \/ ApplySuccess(s) \/ ReportRecovered(s) \/ UpstreamRejects(s)
    \/ Exhausted(s) \/ ReportExhausted(s)
    \/ BodyEnds(s)

Next ==
    \/ \E s \in Slots : Start(s) \/ RequestStep(s) \/ FirstChunk(s) \/ Cancel(s)
    \/ \E rt \in Routes : ClearBan(rt) \/ ResetRoute(rt)
    \/ ReportAdmin \/ Reload \/ Restart \/ Tick

Spec == Init /\ [][Next]_vars

\* A request is scheduled, and the HTTP client gives an upstream 300 seconds.
Fairness == \A s \in Slots : WF_vars(RequestStep(s))

FairSpec == Spec /\ Fairness

================================================================================
