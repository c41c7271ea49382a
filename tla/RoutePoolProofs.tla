---------------------------- MODULE RoutePoolProofs ----------------------------
(***************************************************************************)
(* Proofs about the Route Pool, for any number of routes, of concurrent    *)
(* requests and of configurations, any thresholds and ban durations, and   *)
(* an unbounded clock bound: its breakers, that it implements the abstract *)
(* one, the fail-over loop of a request and the reports of its changes.    *)
(***************************************************************************)
EXTENDS RoutePoolProperties, FiniteSetTheorems, SequenceTheorems, TLAPS

\* What a request in flight relies on: it never holds a time from the future, it
\* looks at a candidate only if there is one, and it answers for a real route.
RequestInv ==
    \A s \in Slots :
      /\ req[s].stamp <= now
      /\ req[s].pc \in {"filter", "skipped"} => req[s].queue # <<>>
      /\ req[s].pc \in {"sending", "failing", "reportFailed", "reportBanned",
                        "reportRecovered", "deliver"} => req[s].route \in Routes

IInv == TypeOK /\ RequestInv /\ BreakerConsistent /\ TripsAtThreshold

--------------------------------------------------------------------------------
LEMMA TailFacts ==
    ASSUME NEW seq \in Seq(Routes), seq # <<>>
    PROVE  /\ Head(seq) \in Routes /\ Tail(seq) \in Seq(Routes)
           /\ Len(seq) # 1 => Tail(seq) # <<>>
<1>1. Len(Tail(seq)) = Len(seq) - 1 /\ Len(seq) \in Nat
    BY HeadTailProperties, EmptySeq
<1>2. Len(seq) # 1 => Len(Tail(seq)) # 0
    BY <1>1
<1> QED
    BY <1>2, HeadTailProperties, EmptySeq

LEMMA ConfigFacts ==
    ASSUME NEW c \in Configs
    PROVE  /\ c \in ConfigType
           /\ Candidates(c) \in Seq(Routes)
           /\ Threshold(c) \in Nat /\ Threshold(c) >= 1 /\ Threshold(c) <= MaxCount
           /\ MinThreshold <= Threshold(c) /\ Threshold(c) <= MaxThreshold
           /\ BanSeconds(c) \in Nat /\ BanSeconds(c) >= 1 /\ BanSeconds(c) <= MaxBan
    BY ConstantsAssumption, BoundsAssumption
    DEF ConfigType, Candidates, Threshold, BanSeconds

\* Recording an event keeps the history well-typed and within its limit.
LEMMA RecordEventFacts ==
    ASSUME TypeOK,
           NEW type \in {"skipped", "failed", "banned", "recovered", "exhausted",
                         "ban_cleared", "reset"},
           NEW rt \in Routes \cup {None},
           RecordEvent(type, rt)
    PROVE  events' \in Seq(EventType) /\ Len(events') <= EventLimit
<1> DEFINE e    == [type |-> type, route |-> rt]
           kept == IF Len(events) >= EventLimit THEN Tail(events) ELSE events
<1>1. e \in EventType
    BY DEF EventType
<1>2. kept \in Seq(EventType) /\ Len(kept) <= EventLimit - 1
    BY ConstantsAssumption DEF TypeOK
<1>3. events' = Append(kept, e)
    BY DEF RecordEvent
<1> HIDE DEF e, kept
<1> QED
    BY <1>1, <1>2, <1>3, ConstantsAssumption

LEMMA BreakerFacts ==
    ASSUME NEW st \in BreakerType, NEW c \in Configs, NEW at \in Nat
    PROVE  /\ NewState \in BreakerType
           /\ AfterFailure(st, c, at) \in BreakerType
           /\ AfterSuccess(st) \in BreakerType
           /\ AfterClear(st) \in BreakerType
<1>1. Threshold(c) \in Nat /\ BanSeconds(c) \in Nat
    BY ConfigFacts
<1>2. SaturatingInc(st.failures) \in 0..MaxCount
    BY ConstantsAssumption DEF SaturatingInc, BreakerType
<1>3. AfterFailure(st, c, at) \in BreakerType
    BY <1>1, <1>2 DEF AfterFailure, BreakerType
<1>4. 0 \in 0..MaxCount
    BY ConstantsAssumption
<1>5. AfterSuccess(st) \in BreakerType /\ AfterClear(st) \in BreakerType
    BY <1>4 DEF AfterSuccess, AfterClear, BreakerType
<1>6. NewState \in BreakerType
    BY <1>4 DEF NewState, BreakerType
<1> QED
    BY <1>3, <1>5, <1>6

LEMMA IdleRequestType == IdleRequest \in RequestType
<1>1. AnyConfig \in Configs
    BY ConstantsAssumption DEF AnyConfig
<1> QED
    BY <1>1 DEF IdleRequest, RequestType, PCs

LEMMA NothingUnreportedType == NothingUnreported \in [Changes -> [Routes -> Int]]
    BY DEF NothingUnreported

LEMMA InitIInv == Init => IInv
<1> SUFFICES ASSUME Init PROVE IInv
    OBVIOUS
<1>1. NewState \in BreakerType
    BY ConstantsAssumption DEF NewState, BreakerType
<1>2. TypeOK
    BY <1>1, IdleRequestType, NothingUnreportedType, ConstantsAssumption
    DEF Init, TypeOK, AdminType
<1>3. RequestInv
    BY DEF Init, RequestInv, IdleRequest
<1>4. BreakerConsistent
    BY BoundsAssumption DEF Init, BreakerConsistent, NewState
<1>5. TripsAtThreshold
  <2>1. PICK c \in Configs : TRUE
    BY ConstantsAssumption
  <2>2. MaxThreshold >= 1
    BY <2>1, ConfigFacts, BoundsAssumption
  <2> QED
    BY <2>2, BoundsAssumption DEF Init, TripsAtThreshold, NewState
<1> QED
    BY <1>2, <1>3, <1>4, <1>5 DEF IInv

--------------------------------------------------------------------------------
(***************************************************************************)
(* The requests.  Every step of a request replaces its own local state.    *)
(***************************************************************************)
\* The part of RequestInv that concerns one local state r at time t.
LocalInv(r, t) ==
    /\ r.stamp <= t
    /\ r.pc \in {"filter", "skipped"} => r.queue # <<>>
    /\ r.pc \in {"sending", "failing", "reportFailed", "reportBanned",
                 "reportRecovered", "deliver"} => r.route \in Routes

LEMMA OneRequestMoves ==
    ASSUME TypeOK, RequestInv, now' = now, NEW s \in Slots,
           NEW r \in RequestType, LocalInv(r, now), req' = [req EXCEPT ![s] = r]
    PROVE  req' \in [Slots -> RequestType] /\ RequestInv'
<1>1. req' \in [Slots -> RequestType]
    BY DEF TypeOK
<1>2. \A t \in Slots : req'[t] = IF t = s THEN r ELSE req[t]
    BY DEF TypeOK
<1> QED
    BY <1>1, <1>2 DEF RequestInv, LocalInv

\* Every request step leaves the types of the requests and RequestInv intact.
LEMMA RequestSteps ==
    ASSUME TypeOK, RequestInv, NEW s \in Slots,
           Start(s) \/ RequestStep(s) \/ FirstChunk(s) \/ Cancel(s)
    PROVE  req' \in [Slots -> RequestType] /\ RequestInv'
<1> DEFINE q == req[s]
<1>q. /\ q \in RequestType /\ LocalInv(q, now)
      /\ now \in Nat /\ config \in Configs /\ q.cfg \in Configs
      /\ q.queue \in Seq(Routes) /\ q.attempts \in Seq(Routes) /\ q.tried \in Seq(Routes)
      /\ q.recorded \in Nat /\ q.recorded + 1 \in Nat
    BY DEF TypeOK, RequestInv, LocalInv, RequestType
<1>t. now' = now
    BY DEF Start, RequestStep, FirstChunk, Cancel, Keep, Skip, ReportSkipped, Send,
           CannotBuild, NextAttempt, UpstreamFails, ApplyFailure, ReportFailed,
           ReportBanned, ApplySuccess, ReportRecovered, UpstreamRejects, Exhausted,
           ReportExhausted, BodyEnds
<1> SUFFICES \E r \in RequestType : LocalInv(r, now) /\ req' = [req EXCEPT ![s] = r]
    BY <1>t, OneRequestMoves
<1>idle. /\ IdleRequest \in RequestType /\ LocalInv(IdleRequest, now)
    BY <1>q, IdleRequestType DEF LocalInv, IdleRequest
<1>1. CASE Start(s)
  <2>1. PICK stream \in Streaming :
           req' = [req EXCEPT ![s] = [IdleRequest EXCEPT
                      !.pc = "filter", !.cfg = config, !.queue = Candidates(config),
                      !.stamp = now, !.stream = stream]]
    BY <1>1 DEF Start
  <2>2. stream \in BOOLEAN /\ Candidates(config) \in Seq(Routes) /\ Candidates(config) # <<>>
    BY <1>1, <1>q, ConfigFacts, ConstantsAssumption DEF Start
  <2> DEFINE r == [IdleRequest EXCEPT !.pc = "filter", !.cfg = config,
                     !.queue = Candidates(config), !.stamp = now, !.stream = stream]
  <2>3. r \in RequestType
    BY <2>2, <1>q, IdleRequestType, Zenon DEF RequestType, PCs
  <2>4. LocalInv(r, now)
    BY <2>2, <1>q DEF LocalInv, IdleRequest
  <2> QED
    BY <2>1, <2>3, <2>4
<1>2. ASSUME q.queue # <<>>
      PROVE  /\ Head(q.queue) \in Routes /\ Tail(q.queue) \in Seq(Routes)
             /\ FilterNext(s) \in {"filter", "try"}
             /\ FilterNext(s) = "filter" => Tail(q.queue) # <<>>
    BY <1>2, <1>q, TailFacts DEF FilterNext
<1>3. CASE Keep(s)
  <2> DEFINE r == [q EXCEPT !.pc = FilterNext(s), !.queue = Tail(q.queue),
                            !.attempts = Append(q.attempts, Head(q.queue))]
  <2>1. req' = [req EXCEPT ![s] = r]
    BY <1>3 DEF Keep
  <2>2. q.queue # <<>> /\ q.pc = "filter"
    BY <1>3, <1>q DEF Keep, LocalInv
  <2>3. Append(q.attempts, Head(q.queue)) \in Seq(Routes) /\ FilterNext(s) \in PCs
    BY <2>2, <1>2, <1>q DEF PCs
  <2>4. r \in RequestType
    BY <2>2, <2>3, <1>2, <1>q, Zenon DEF RequestType
  <2>5. r.pc = FilterNext(s) /\ r.stamp = q.stamp /\ r.queue = Tail(q.queue)
    BY <1>q, Zenon DEF RequestType
  <2>6. LocalInv(r, now)
    BY <2>2, <2>5, <1>2, <1>q DEF LocalInv
  <2> QED
    BY <2>1, <2>4, <2>6
<1>4. CASE Skip(s)
  <2> DEFINE r == [q EXCEPT !.pc = "skipped"]
  <2>1. req' = [req EXCEPT ![s] = r] /\ q.pc = "filter"
    BY <1>4 DEF Skip
  <2>2. r \in RequestType
    BY <1>q, "skipped" \in PCs, Zenon DEF RequestType, PCs
  <2>3. r.pc = "skipped" /\ r.stamp = q.stamp /\ r.queue = q.queue
    BY <1>q, Zenon DEF RequestType
  <2> QED
    BY <2>1, <2>2, <2>3, <1>q DEF LocalInv
<1>5. CASE ReportSkipped(s)
  <2> DEFINE r == [q EXCEPT !.pc = FilterNext(s), !.queue = Tail(q.queue)]
  <2>1. req' = [req EXCEPT ![s] = r] /\ q.pc = "skipped"
    BY <1>5 DEF ReportSkipped
  <2>2. q.queue # <<>>
    BY <2>1, <1>q DEF LocalInv
  <2>3. r \in RequestType
    BY <2>2, <1>2, <1>q, Zenon DEF RequestType, PCs
  <2>4. r.pc = FilterNext(s) /\ r.stamp = q.stamp /\ r.queue = Tail(q.queue)
    BY <1>q, Zenon DEF RequestType
  <2> QED
    BY <2>1, <2>2, <2>3, <2>4, <1>2, <1>q DEF LocalInv
<1>6. ASSUME NEW pc \in {"sending", "failing"}, NextAttempt(s, pc)
      PROVE  \E r \in RequestType : LocalInv(r, now) /\ req' = [req EXCEPT ![s] = r]
  <2> DEFINE stamp == IF pc = "failing" THEN now ELSE q.stamp
             rt    == Head(q.attempts)
             tried == Append(q.tried, rt)
             r     == [q EXCEPT !.pc = pc, !.attempts = Tail(q.attempts), !.route = rt,
                                !.tried = tried, !.stamp = stamp]
  <2>1. req' = [req EXCEPT ![s] = r] /\ q.attempts # <<>>
    BY <1>6 DEF NextAttempt
  <2>2. rt \in Routes /\ Tail(q.attempts) \in Seq(Routes) /\ tried \in Seq(Routes)
    BY <2>1, <1>q, TailFacts
  <2>3. stamp \in Nat /\ stamp <= now
    BY <1>q DEF RequestType, LocalInv
  <2> HIDE DEF stamp, rt, tried
  <2>4. r \in RequestType
    BY <2>2, <2>3, <1>q, Zenon DEF RequestType, PCs
  <2>5. r.pc = pc /\ r.stamp = stamp /\ r.route = rt
    BY <1>q, Zenon DEF RequestType
  <2>6. LocalInv(r, now)
    BY <2>2, <2>3, <2>5 DEF LocalInv
  <2> QED
    BY <2>1, <2>4, <2>6
<1>7. CASE UpstreamFails(s)
  <2> DEFINE r == [q EXCEPT !.pc = "failing", !.stamp = now]
  <2>1. req' = [req EXCEPT ![s] = r] /\ q.pc = "sending"
    BY <1>7 DEF UpstreamFails
  <2>2. r \in RequestType
    BY <1>q, Zenon DEF RequestType, PCs
  <2>3. r.pc = "failing" /\ r.stamp = now /\ r.route = q.route
    BY <1>q, Zenon DEF RequestType
  <2>4. LocalInv(r, now)
    BY <2>1, <2>3, <1>q DEF LocalInv
  <2> QED
    BY <2>1, <2>2, <2>4
<1>8. CASE ApplyFailure(s)
  <2> DEFINE after  == AfterFailure(routeState[q.route], q.cfg, q.stamp)
             banned == after.failures >= Threshold(q.cfg)
             r      == [q EXCEPT !.pc = "reportFailed", !.lastError = q.route,
                                 !.banned = banned]
  <2>1. req' = [req EXCEPT ![s] = r] /\ q.pc = "failing"
    BY <1>8 DEF ApplyFailure
  <2>2. banned \in BOOLEAN /\ q.route \in Routes
    BY <2>1, <1>q DEF LocalInv
  <2> HIDE DEF banned
  <2>3. r \in RequestType
    BY <2>2, <1>q, Zenon DEF RequestType, PCs
  <2>4. r.pc = "reportFailed" /\ r.stamp = q.stamp /\ r.route = q.route
    BY <1>q, Zenon DEF RequestType
  <2> QED
    BY <2>1, <2>2, <2>3, <2>4, <1>q DEF LocalInv
<1>9. CASE ReportFailed(s)
  <2> DEFINE r1 == [q EXCEPT !.pc = "reportBanned"]
             r2 == [q EXCEPT !.pc = "try", !.recorded = q.recorded + 1]
  <2>1. /\ q.pc = "reportFailed"
        /\ \/ req' = [req EXCEPT ![s] = r1]
           \/ req' = [req EXCEPT ![s] = r2]
    BY <1>9 DEF ReportFailed
  <2>2. r1 \in RequestType /\ r2 \in RequestType
    BY <1>q, Zenon DEF RequestType, PCs
  <2>3. /\ r1.pc = "reportBanned" /\ r1.stamp = q.stamp /\ r1.route = q.route
        /\ r2.pc = "try" /\ r2.stamp = q.stamp
    BY <1>q, Zenon DEF RequestType
  <2>4. LocalInv(r1, now) /\ LocalInv(r2, now)
    BY <2>1, <2>3, <1>q DEF LocalInv
  <2> HIDE DEF r1, r2
  <2> QED
    BY <2>1, <2>2, <2>4
<1>10. CASE ReportBanned(s)
  <2> DEFINE r == [q EXCEPT !.pc = "try", !.banned = FALSE, !.recorded = q.recorded + 1]
  <2>1. req' = [req EXCEPT ![s] = r]
    BY <1>10 DEF ReportBanned
  <2>2. r \in RequestType
    BY <1>q, Zenon DEF RequestType, PCs
  <2>3. r.pc = "try" /\ r.stamp = q.stamp
    BY <1>q, Zenon DEF RequestType
  <2> QED
    BY <2>1, <2>2, <2>3, <1>q DEF LocalInv
<1>11. ASSUME q.pc \in {"sending", "reportRecovered"}, req' = Deliver(s)
       PROVE  \E r \in RequestType : LocalInv(r, now) /\ req' = [req EXCEPT ![s] = r]
  <2> DEFINE n == IF q.stream THEN q.recorded ELSE q.recorded + 1
             r == [q EXCEPT !.pc = "deliver", !.pending = q.stream, !.recorded = n]
  <2>1. req' = [req EXCEPT ![s] = r]
    BY <1>11 DEF Deliver
  <2>2. n \in Nat /\ q.stream \in BOOLEAN
    BY <1>q DEF RequestType
  <2> HIDE DEF n
  <2>3. r \in RequestType
    BY <2>2, <1>q, Zenon DEF RequestType, PCs
  <2>4. r.pc = "deliver" /\ r.stamp = q.stamp /\ r.route = q.route
    BY <1>q, Zenon DEF RequestType
  <2> QED
    BY <2>1, <2>3, <2>4, <1>11, <1>q DEF LocalInv
<1>12. CASE ApplySuccess(s)
  <2>1. CASE req' = Deliver(s)
    BY <2>1, <1>11, <1>12 DEF ApplySuccess
  <2>2. CASE req' = [req EXCEPT ![s].pc = "reportRecovered"]
    <3> DEFINE r == [q EXCEPT !.pc = "reportRecovered"]
    <3>1. req' = [req EXCEPT ![s] = r] /\ q.pc = "sending"
      BY <1>12, <2>2 DEF ApplySuccess
    <3>2. r \in RequestType
      BY <1>q, Zenon DEF RequestType, PCs
    <3>3. r.pc = "reportRecovered" /\ r.stamp = q.stamp /\ r.route = q.route
      BY <1>q, Zenon DEF RequestType
    <3> QED
      BY <3>1, <3>2, <3>3, <1>q DEF LocalInv
  <2> QED
    BY <2>1, <2>2, <1>12 DEF ApplySuccess
<1>13. CASE ReportRecovered(s) \/ UpstreamRejects(s)
    BY <1>13, <1>11 DEF ReportRecovered, UpstreamRejects
<1>14. CASE Exhausted(s)
  <2> DEFINE order == Candidates(q.cfg)
             e     == IF q.lastError # None THEN q.lastError ELSE LastRoutePoolError(order)
             r     == [q EXCEPT !.pc = "reportExhausted", !.lastError = e]
  <2>1. req' = [req EXCEPT ![s] = r]
    BY <1>14 DEF Exhausted
  <2>2. \A i \in DOMAIN order : order[i] \in Routes
    BY <1>q, ConfigFacts, ElementOfSeq
  <2>3. LastRoutePoolError(order) \in Routes \cup {None}
    BY <2>2 DEF LastRoutePoolError
  <2>4. e \in Routes \cup {None}
    BY <2>3, <1>q DEF RequestType
  <2> HIDE DEF e
  <2>5. r \in RequestType
    BY <2>4, <1>q, Zenon DEF RequestType, PCs
  <2>6. r.pc = "reportExhausted" /\ r.stamp = q.stamp
    BY <1>q, Zenon DEF RequestType
  <2> QED
    BY <2>1, <2>5, <2>6, <1>q DEF LocalInv
<1>15. CASE FirstChunk(s)
  <2> DEFINE r == [q EXCEPT !.pending = FALSE, !.recorded = q.recorded + 1]
  <2>1. req' = [req EXCEPT ![s] = r]
    BY <1>15 DEF FirstChunk
  <2>2. r \in RequestType
    BY <1>q, Zenon DEF RequestType
  <2>3. r.pc = q.pc /\ r.stamp = q.stamp /\ r.route = q.route /\ r.queue = q.queue
    BY <1>q, Zenon DEF RequestType
  <2> QED
    BY <2>1, <2>2, <2>3, <1>q DEF LocalInv
<1>16. CASE ReportExhausted(s) \/ BodyEnds(s) \/ Cancel(s)
    BY <1>16, <1>idle DEF ReportExhausted, BodyEnds, Cancel
<1> QED
    BY <1>1, <1>3, <1>4, <1>5, <1>6, <1>7, <1>8, <1>9, <1>10, <1>12, <1>13, <1>14,
       <1>15, <1>16
    DEF RequestStep, Send, CannotBuild

--------------------------------------------------------------------------------
(***************************************************************************)
(* The breakers.                                                           *)
(***************************************************************************)
\* What BreakerConsistent and TripsAtThreshold say of the breaker st of route rt at
\* time t, where `lifted` are the routes whose ban the operator lifted.
BreakerInv(st, t, rt, lifted) ==
    /\ st.hasError <=> st.failures > 0
    /\ st.lastFailure <= t
    /\ st.bannedUntil > 0 => st.failures >= MinThreshold /\ st.bannedUntil <= t + MaxBan
    /\ st.failures >= MaxThreshold => st.bannedUntil > 0 \/ rt \in lifted

LEMMA BreakerInvDef ==
    BreakerConsistent /\ TripsAtThreshold
        <=> \A rt \in Routes : BreakerInv(routeState[rt], now, rt, cleared)
    BY DEF BreakerConsistent, TripsAtThreshold, BreakerInv

\* A failure re-establishes the invariant whether or not a ban had been lifted.
LEMMA FailureKeepsInv ==
    ASSUME NEW st \in BreakerType, NEW c \in Configs, NEW t \in Nat,
           NEW at \in Nat, at <= t, NEW rt, NEW lifted, BreakerInv(st, t, rt, lifted)
    PROVE  BreakerInv(AfterFailure(st, c, at), t, rt, lifted \ {rt})
<1> DEFINE n     == SaturatingInc(st.failures)
           after == AfterFailure(st, c, at)
<1>1. n \in Nat /\ n > 0 /\ n >= st.failures /\ st.bannedUntil \in Nat
    BY ConstantsAssumption DEF SaturatingInc, BreakerType
<1>2. /\ after.failures = n /\ after.hasError = TRUE /\ after.lastFailure = at
      /\ after.bannedUntil = IF n >= Threshold(c) THEN at + BanSeconds(c) ELSE st.bannedUntil
    BY DEF AfterFailure
<1> SUFFICES BreakerInv(after, t, rt, lifted \ {rt})
    OBVIOUS
<1> HIDE DEF n, after
<1>3. CASE n >= Threshold(c)
    BY <1>1, <1>2, <1>3, ConfigFacts, BoundsAssumption DEF BreakerInv
<1>4. CASE ~(n >= Threshold(c))
  <2>1. n < MaxThreshold
    BY <1>1, <1>4, ConfigFacts, BoundsAssumption
  <2>2. after.bannedUntil > 0 => n >= MinThreshold /\ after.bannedUntil <= t + MaxBan
    BY <1>1, <1>2, <1>4, BoundsAssumption DEF BreakerInv, BreakerType
  <2> QED
    BY <2>1, <2>2, <1>1, <1>2, BoundsAssumption DEF BreakerInv
<1> QED
    BY <1>3, <1>4

LEMMA OtherUpdatesKeepInv ==
    ASSUME NEW st \in BreakerType, NEW t \in Nat, NEW rt, NEW lifted,
           BreakerInv(st, t, rt, lifted)
    PROVE  /\ BreakerInv(NewState, t, rt, lifted \ {rt})
           /\ BreakerInv(AfterSuccess(st), t, rt, lifted \ {rt})
           /\ BreakerInv(AfterClear(st), t, rt,
                         IF st.bannedUntil # 0 THEN lifted \cup {rt} ELSE lifted)
           /\ BreakerInv(st, t + 1, rt, lifted)
<1>1. MaxThreshold >= 1
  <2>1. PICK c \in Configs : TRUE
    BY ConstantsAssumption
  <2> QED
    BY <2>1, ConfigFacts, BoundsAssumption
<1>2. /\ AfterSuccess(st).failures = 0 /\ AfterSuccess(st).bannedUntil = 0
      /\ AfterSuccess(st).hasError = FALSE /\ AfterSuccess(st).lastFailure = st.lastFailure
    BY DEF AfterSuccess, BreakerType
<1>3. /\ AfterClear(st).failures = st.failures /\ AfterClear(st).bannedUntil = 0
      /\ AfterClear(st).hasError = st.hasError
      /\ AfterClear(st).lastFailure = st.lastFailure
    BY DEF AfterClear, BreakerType
<1>4. BreakerInv(NewState, t, rt, lifted \ {rt})
    BY <1>1, BoundsAssumption DEF BreakerInv, NewState
<1>5. BreakerInv(AfterSuccess(st), t, rt, lifted \ {rt})
    BY <1>1, <1>2, BoundsAssumption DEF BreakerInv
<1>6. BreakerInv(AfterClear(st), t, rt,
                 IF st.bannedUntil # 0 THEN lifted \cup {rt} ELSE lifted)
    BY <1>3, BoundsAssumption DEF BreakerInv, BreakerType
<1>7. BreakerInv(st, t + 1, rt, lifted)
    BY BoundsAssumption DEF BreakerInv, BreakerType
<1> QED
    BY <1>4, <1>5, <1>6, <1>7

\* One breaker changes, to a value that satisfies the invariant.
LEMMA OneBreakerMoves ==
    ASSUME TypeOK, BreakerConsistent, TripsAtThreshold, now' = now,
           NEW rt \in Routes, NEW st \in BreakerType,
           routeState' = [routeState EXCEPT ![rt] = st],
           cleared' \ {rt} = cleared \ {rt},
           BreakerInv(st, now, rt, cleared')
    PROVE  /\ routeState' \in [Routes -> BreakerType] /\ cleared' \in SUBSET Routes
           /\ BreakerConsistent' /\ TripsAtThreshold'
<1>1. routeState' \in [Routes -> BreakerType] /\ cleared' \in SUBSET Routes
    BY DEF TypeOK
<1>2. \A x \in Routes : routeState'[x] = IF x = rt THEN st ELSE routeState[x]
    BY DEF TypeOK
<1>3. \A x \in Routes : BreakerInv(routeState'[x], now, x, cleared')
  <2> SUFFICES ASSUME NEW x \in Routes
               PROVE  BreakerInv(routeState'[x], now, x, cleared')
    OBVIOUS
  <2>1. CASE x = rt
    BY <2>1, <1>2
  <2>2. CASE x # rt
    BY <2>2, <1>2, BreakerInvDef DEF BreakerInv
  <2> QED
    BY <2>1, <2>2
<1>4. BreakerConsistent' /\ TripsAtThreshold'
    BY <1>3 DEF BreakerConsistent, TripsAtThreshold, BreakerInv
<1> QED
    BY <1>1, <1>4

\* Steps that change no breaker leave BreakerConsistent and TripsAtThreshold alone.
LEMMA BreakersUntouched ==
    ASSUME BreakerConsistent, TripsAtThreshold, UNCHANGED <<now, routeState, cleared>>
    PROVE  BreakerConsistent' /\ TripsAtThreshold'
    BY DEF BreakerConsistent, TripsAtThreshold

\* The two steps of a request that change a breaker change that of its own route.
LEMMA RequestBreakerSteps ==
    ASSUME TypeOK, RequestInv, BreakerConsistent, TripsAtThreshold, NEW s \in Slots,
           ApplyFailure(s) \/ ApplySuccess(s)
    PROVE  /\ routeState' \in [Routes -> BreakerType] /\ cleared' \in SUBSET Routes
           /\ BreakerConsistent' /\ TripsAtThreshold'
<1> DEFINE q  == req[s]
           rt == q.route
           st == routeState[rt]
<1>1. rt \in Routes /\ q.stamp \in Nat /\ q.stamp <= now /\ q.cfg \in Configs
    BY DEF ApplyFailure, ApplySuccess, TypeOK, RequestInv, RequestType
<1>2. st \in BreakerType /\ BreakerInv(st, now, rt, cleared) /\ now \in Nat
    BY <1>1, BreakerInvDef DEF TypeOK
<1>3. CASE ApplyFailure(s)
  <2> DEFINE after == AfterFailure(st, q.cfg, q.stamp)
  <2>1. /\ routeState' = [routeState EXCEPT ![rt] = after]
        /\ cleared' = cleared \ {rt} /\ now' = now
    BY <1>3 DEF ApplyFailure
  <2>2. after \in BreakerType
    BY <1>1, <1>2, BreakerFacts
  <2>3. BreakerInv(after, now, rt, cleared')
    BY <2>1, <1>1, <1>2, FailureKeepsInv
  <2> HIDE DEF after, rt
  <2> QED
    BY <2>1, <2>2, <2>3, <1>1, OneBreakerMoves
<1>4. CASE ApplySuccess(s)
  <2> DEFINE after == AfterSuccess(st)
  <2>1. /\ routeState' = [routeState EXCEPT ![rt] = after]
        /\ cleared' = cleared \ {rt} /\ now' = now
    BY <1>4 DEF ApplySuccess
  <2>2. after \in BreakerType
    BY <1>1, <1>2, BreakerFacts
  <2>3. BreakerInv(after, now, rt, cleared')
    BY <2>1, <1>2, OtherUpdatesKeepInv
  <2> HIDE DEF after, rt
  <2> QED
    BY <2>1, <2>2, <2>3, <1>1, OneBreakerMoves
<1> QED
    BY <1>3, <1>4

LEMMA AdminBreakerSteps ==
    ASSUME TypeOK, BreakerConsistent, TripsAtThreshold, NEW rt \in Routes,
           ClearBan(rt) \/ ResetRoute(rt)
    PROVE  /\ routeState' \in [Routes -> BreakerType] /\ cleared' \in SUBSET Routes
           /\ BreakerConsistent' /\ TripsAtThreshold'
<1> DEFINE st == routeState[rt]
<1>1. st \in BreakerType /\ BreakerInv(st, now, rt, cleared) /\ now \in Nat
    BY BreakerInvDef DEF TypeOK
<1>2. CASE ClearBan(rt)
  <2> DEFINE after == AfterClear(st)
  <2>1. /\ routeState' = [routeState EXCEPT ![rt] = after] /\ now' = now
        /\ cleared' = IF st.bannedUntil # 0 THEN cleared \cup {rt} ELSE cleared
    BY <1>2 DEF ClearBan
  <2>2. after \in BreakerType
    BY <1>1, BreakerFacts, ConstantsAssumption
  <2>3. BreakerInv(after, now, rt, cleared')
    BY <2>1, <1>1, OtherUpdatesKeepInv
  <2> HIDE DEF after
  <2> QED
    BY <2>1, <2>2, <2>3, OneBreakerMoves
<1>3. CASE ResetRoute(rt)
  <2>1. /\ routeState' = [routeState EXCEPT ![rt] = NewState]
        /\ cleared' = cleared \ {rt} /\ now' = now
    BY <1>3 DEF ResetRoute
  <2>2. NewState \in BreakerType
    BY ConstantsAssumption DEF NewState, BreakerType
  <2>3. BreakerInv(NewState, now, rt, cleared')
    BY <2>1, <1>1, OtherUpdatesKeepInv
  <2> QED
    BY <2>1, <2>2, <2>3, OneBreakerMoves
<1> QED
    BY <1>2, <1>3

--------------------------------------------------------------------------------
(***************************************************************************)
(* The inductive step.                                                     *)
(***************************************************************************)
\* The history stays well-typed whatever a request or the operator records in it.
LEMMA EventSteps ==
    ASSUME TypeOK, RequestInv,
           \/ \E s \in Slots : Start(s) \/ RequestStep(s) \/ FirstChunk(s) \/ Cancel(s)
           \/ \E rt \in Routes : ClearBan(rt) \/ ResetRoute(rt)
           \/ ReportAdmin
    PROVE  events' \in Seq(EventType) /\ Len(events') <= EventLimit
<1>1. CASE UNCHANGED events
    BY <1>1 DEF TypeOK
<1>2. ASSUME NEW s \in Slots, ReportSkipped(s)
      PROVE  RecordEvent("skipped", Head(req[s].queue)) /\ Head(req[s].queue) \in Routes
  <2>1. req[s].queue \in Seq(Routes) /\ req[s].queue # <<>>
    BY <1>2 DEF ReportSkipped, TypeOK, RequestInv, RequestType
  <2> QED
    BY <2>1, <1>2, TailFacts DEF ReportSkipped
<1>3. ASSUME NEW s \in Slots, ReportFailed(s) \/ ReportBanned(s) \/ ReportRecovered(s)
      PROVE  /\ req[s].route \in Routes
             /\ \E type \in {"failed", "banned", "recovered"} :
                  RecordEvent(type, req[s].route)
    BY <1>3 DEF ReportFailed, ReportBanned, ReportRecovered, RequestInv
<1>4. ASSUME NEW s \in Slots, ReportExhausted(s)
      PROVE  RecordEvent("exhausted", None)
    BY <1>4 DEF ReportExhausted
<1>5. ASSUME ReportAdmin
      PROVE  /\ RecordEvent(admin.type, admin.route)
             /\ admin.route \in Routes /\ admin.type \in {"ban_cleared", "reset"}
    BY <1>5 DEF ReportAdmin, TypeOK, AdminType
<1>6. CASE \E s \in Slots : \/ ReportSkipped(s) \/ ReportFailed(s) \/ ReportBanned(s)
                            \/ ReportRecovered(s) \/ ReportExhausted(s)
    BY <1>2, <1>3, <1>4, <1>6, RecordEventFacts
<1>7. CASE ReportAdmin
    BY <1>5, <1>7, RecordEventFacts
<1>8. CASE \E s \in Slots : Start(s) \/ RequestStep(s) \/ FirstChunk(s) \/ Cancel(s)
  <2> PICK s \in Slots : Start(s) \/ RequestStep(s) \/ FirstChunk(s) \/ Cancel(s)
    BY <1>8
  <2> QED
    BY <1>1, <1>6 DEF Start, RequestStep, FirstChunk, Cancel, Keep, Skip, Send, CannotBuild,
       NextAttempt, UpstreamFails, ApplyFailure, ApplySuccess, UpstreamRejects, Exhausted,
       BodyEnds
<1>9. CASE \E rt \in Routes : ClearBan(rt) \/ ResetRoute(rt)
    BY <1>1, <1>9 DEF ClearBan, ResetRoute
<1> QED
    BY <1>7, <1>8, <1>9

\* The tally of what has not been reported keeps its type.
LEMMA UnreportedSteps ==
    ASSUME TypeOK, RequestInv, NEW s \in Slots,
           Start(s) \/ RequestStep(s) \/ FirstChunk(s) \/ Cancel(s)
    PROVE  unreported' \in [Changes -> [Routes -> Int]]
<1>t. unreported \in [Changes -> [Routes -> Int]]
    BY DEF TypeOK
<1>1. CASE unreported' = unreported
    BY <1>1, <1>t
<1>2. ASSUME NEW type \in Changes, NEW rt \in Routes, Reported(type, rt)
      PROVE  unreported' \in [Changes -> [Routes -> Int]]
    BY <1>2, <1>t DEF Reported
<1>3. CASE ApplyFailure(s)
  <2>1. \E banned \in BOOLEAN : FailureToReport(req[s].route, banned)
    <3> DEFINE banned == AfterFailure(routeState[req[s].route], req[s].cfg, req[s].stamp).failures
                           >= Threshold(req[s].cfg)
    <3>1. FailureToReport(req[s].route, banned)
      BY <1>3 DEF ApplyFailure
    <3>2. banned \in BOOLEAN
      OBVIOUS
    <3> HIDE DEF banned
    <3> QED
      BY <3>1, <3>2
  <2>2. PICK rt \in Routes, banned \in BOOLEAN : FailureToReport(rt, banned)
    BY <1>3, <2>1 DEF ApplyFailure, RequestInv
  <2> QED
    BY <2>2, <1>t DEF FailureToReport, Changes
<1>4. CASE ApplySuccess(s)
  <2>1. \/ unreported' = unreported
        \/ \E rt \in Routes : unreported' = [unreported EXCEPT !["recovered"][rt] = @ + 1]
    BY <1>4 DEF ApplySuccess, RequestInv
  <2> QED
    BY <2>1, <1>t DEF Changes
<1>5. CASE ReportSkipped(s) \/ ReportFailed(s) \/ ReportBanned(s)
           \/ ReportRecovered(s) \/ ReportExhausted(s)
  <2>1. CASE ReportSkipped(s) \/ ReportExhausted(s)
    BY <2>1, <1>1 DEF ReportSkipped, ReportExhausted, RecordEvent, Reported, Changes
  <2>2. CASE ReportFailed(s) \/ ReportBanned(s) \/ ReportRecovered(s)
    <3>1. PICK type \in Changes, rt \in Routes : Reported(type, rt)
      BY <2>2 DEF ReportFailed, ReportBanned, ReportRecovered, RecordEvent, RequestInv, Changes
    <3> QED
      BY <3>1, <1>2
  <2> QED
    BY <2>1, <2>2, <1>5
<1>6. CASE ~(ApplyFailure(s) \/ ApplySuccess(s) \/ ReportSkipped(s) \/ ReportFailed(s)
             \/ ReportBanned(s) \/ ReportRecovered(s) \/ ReportExhausted(s))
  <2>1. unreported' = unreported
    BY <1>6 DEF Start, RequestStep, FirstChunk, Cancel, Keep, Skip, Send, CannotBuild,
       NextAttempt, UpstreamFails, UpstreamRejects, Exhausted, BodyEnds
  <2> QED
    BY <2>1, <1>1
<1> QED
    BY <1>3, <1>4, <1>5, <1>6

LEMMA NextIInv == IInv /\ [Next]_vars => IInv'
<1> SUFFICES ASSUME IInv, [Next]_vars PROVE IInv'
    OBVIOUS
<1>i. TypeOK /\ RequestInv /\ BreakerConsistent /\ TripsAtThreshold
    BY DEF IInv
<1>t. /\ now \in Nat /\ config \in Configs /\ routeState \in [Routes -> BreakerType]
      /\ req \in [Slots -> RequestType] /\ admin \in AdminType /\ cleared \in SUBSET Routes
      /\ events \in Seq(EventType) /\ Len(events) <= EventLimit
      /\ unreported \in [Changes -> [Routes -> Int]]
    BY <1>i DEF TypeOK
<1>1. ASSUME NEW s \in Slots, Start(s) \/ RequestStep(s) \/ FirstChunk(s) \/ Cancel(s)
      PROVE  IInv'
  <2>1. events' \in Seq(EventType) /\ Len(events') <= EventLimit
    BY <1>1, <1>i, EventSteps
  <2>2. req' \in [Slots -> RequestType] /\ RequestInv'
    BY <1>1, <1>i, RequestSteps
  <2>3. UNCHANGED <<now, config, admin>>
    BY <1>1 DEF Start, RequestStep, FirstChunk, Cancel, Keep, Skip, ReportSkipped, Send,
       CannotBuild, NextAttempt, UpstreamFails, ApplyFailure, ReportFailed, ReportBanned,
       ApplySuccess, ReportRecovered, UpstreamRejects, Exhausted, ReportExhausted, BodyEnds
  <2>u. unreported' \in [Changes -> [Routes -> Int]]
    BY <1>1, <1>i, UnreportedSteps
  <2>4. CASE ApplyFailure(s) \/ ApplySuccess(s)
    BY <2>1, <2>2, <2>3, <2>u, <2>4, <1>i, <1>t, RequestBreakerSteps DEF IInv, TypeOK
  <2>5. CASE ~(ApplyFailure(s) \/ ApplySuccess(s))
    <3>1. UNCHANGED <<routeState, cleared>>
      BY <1>1, <2>5 DEF Start, RequestStep, FirstChunk, Cancel, Keep, Skip, ReportSkipped,
         Send, CannotBuild, NextAttempt, UpstreamFails, ReportFailed, ReportBanned,
         ReportRecovered, UpstreamRejects, Exhausted, ReportExhausted, BodyEnds
    <3>2. BreakerConsistent' /\ TripsAtThreshold'
      BY <3>1, <2>3, <1>i, BreakersUntouched
    <3> QED
      BY <3>1, <3>2, <2>1, <2>2, <2>3, <2>u, <1>t DEF IInv, TypeOK
  <2> QED
    BY <2>4, <2>5
<1>2. ASSUME NEW rt \in Routes, ClearBan(rt) \/ ResetRoute(rt)
      PROVE  IInv'
  <2>1. UNCHANGED <<now, config, events, req, unreported>> /\ admin' \in AdminType
    BY <1>2 DEF ClearBan, ResetRoute, AdminType
  <2>2. RequestInv'
    BY <2>1, <1>i DEF RequestInv
  <2> QED
    BY <2>1, <2>2, <1>2, <1>i, <1>t, AdminBreakerSteps DEF IInv, TypeOK
<1>3. CASE ReportAdmin
  <2>1. events' \in Seq(EventType) /\ Len(events') <= EventLimit
    BY <1>3, <1>i, EventSteps
  <2>2. UNCHANGED <<now, config, routeState, req, cleared>> /\ admin' \in AdminType
    BY <1>3 DEF ReportAdmin, AdminType
  <2>u. unreported' = unreported
    BY <1>3, <1>t DEF ReportAdmin, RecordEvent, Reported, AdminType, NoAdmin, Changes
  <2>3. RequestInv' /\ BreakerConsistent' /\ TripsAtThreshold'
    BY <2>2, <1>i, BreakersUntouched DEF RequestInv
  <2> QED
    BY <2>1, <2>2, <2>3, <2>u, <1>t DEF IInv, TypeOK
<1>4. CASE Reload
  <2>1. UNCHANGED <<now, routeState, events, req, admin, cleared, unreported>> /\ config' \in Configs
    BY <1>4 DEF Reload
  <2>2. RequestInv' /\ BreakerConsistent' /\ TripsAtThreshold'
    BY <2>1, <1>i, BreakersUntouched DEF RequestInv
  <2> QED
    BY <2>1, <2>2, <1>t DEF IInv, TypeOK
<1>5. CASE Restart
  <2>1. NewState \in BreakerType
    BY ConstantsAssumption DEF NewState, BreakerType
  <2>2. TypeOK'
    BY <2>1, <1>5, <1>t, IdleRequestType, NothingUnreportedType, ConstantsAssumption
    DEF Restart, TypeOK, AdminType
  <2>3. RequestInv'
    BY <1>5, <1>t DEF Restart, RequestInv, IdleRequest
  <2>4. BreakerConsistent' /\ TripsAtThreshold'
    <3>1. PICK c \in Configs : TRUE
      BY ConstantsAssumption
    <3>2. MaxThreshold >= 1
      BY <3>1, ConfigFacts, BoundsAssumption
    <3> QED
      BY <3>2, <1>5, <1>t, BoundsAssumption
      DEF Restart, BreakerConsistent, TripsAtThreshold, NewState
  <2> QED
    BY <2>2, <2>3, <2>4 DEF IInv
<1>6. CASE Tick
  <2>1. now' = now + 1 /\ UNCHANGED <<config, routeState, events, req, admin, cleared, unreported>>
    BY <1>6 DEF Tick
  <2>2. RequestInv'
    BY <2>1, <1>i, <1>t DEF RequestInv, RequestType
  <2>3. \A rt \in Routes : BreakerInv(routeState[rt], now + 1, rt, cleared)
    BY <1>i, <1>t, BreakerInvDef, OtherUpdatesKeepInv
  <2>4. BreakerConsistent' /\ TripsAtThreshold'
    BY <2>1, <2>3 DEF BreakerConsistent, TripsAtThreshold, BreakerInv
  <2> QED
    BY <2>1, <2>2, <2>4, <1>t DEF IInv, TypeOK
<1>7. CASE UNCHANGED vars
    BY <1>7, <1>i DEF vars, IInv, TypeOK, RequestInv, BreakerConsistent, TripsAtThreshold
<1> QED
    BY <1>1, <1>2, <1>3, <1>4, <1>5, <1>6, <1>7 DEF Next

--------------------------------------------------------------------------------
\* In every reachable state the variables have their types and the event history is
\* within its limit, for any number of routes, requests and configurations.
THEOREM TypeCorrect == Spec => []TypeOK
<1>1. IInv => TypeOK
    BY DEF IInv
<1> QED
    BY <1>1, InitIInv, NextIInv, PTL DEF Spec

\* Concurrent failures, late successes, reloads and the operator's calls leave every
\* breaker (RoutePoolRouteState) consistent.
THEOREM BreakersConsistent == Spec => []BreakerConsistent
<1>1. IInv => BreakerConsistent
    BY DEF IInv
<1> QED
    BY <1>1, InitIInv, NextIInv, PTL DEF Spec

\* A route that has reached every threshold in use is banned or was cleared by the
\* operator: apply_route_pool_failure is the only way up and always trips there.
THEOREM BreakersTrip == Spec => []TripsAtThreshold
<1>1. IInv => TripsAtThreshold
    BY DEF IInv
<1> QED
    BY <1>1, InitIInv, NextIInv, PTL DEF Spec

--------------------------------------------------------------------------------
(***************************************************************************)
(* The Route Pool implements the abstract CircuitBreaker: every step of a  *)
(* request, of the operator or of the environment changes the breakers of  *)
(* at most one route, and as the abstract breaker may, or is invisible to  *)
(* it.                                                                     *)
(***************************************************************************)
\* The abstract variables, as the refinement mapping computes them.
Failures  == [rt \in Routes |-> routeState[rt].failures]
OpenUntil == [rt \in Routes |-> routeState[rt].bannedUntil]

LEMMA InitRefines == Init => Breaker!Init
    BY DEF Init, Breaker!Init, NewState

\* Replacing one breaker replaces one entry of each abstract function.
LEMMA MapOneBreaker ==
    ASSUME NEW rt \in Routes, NEW st, routeState \in [Routes -> BreakerType],
           routeState' = [routeState EXCEPT ![rt] = st]
    PROVE  /\ Failures' = [Failures EXCEPT ![rt] = st.failures]
           /\ OpenUntil' = [OpenUntil EXCEPT ![rt] = st.bannedUntil]
    BY DEF Failures, OpenUntil

\* A recorded failure is a Failure of the abstract breaker.
LEMMA FailureRefines ==
    ASSUME IInv, NEW s \in Slots, ApplyFailure(s), NEW rt \in Routes, rt = req[s].route
    PROVE  Breaker!Failure(rt)
<1> DEFINE q     == req[s]
           st    == routeState[rt]
           after == AfterFailure(st, q.cfg, q.stamp)
           n     == SaturatingInc(st.failures)
<1>1. /\ routeState \in [Routes -> BreakerType] /\ now \in Nat /\ q.cfg \in Configs
      /\ q.stamp \in Nat /\ q.stamp <= now
    BY DEF IInv, TypeOK, RequestInv, RequestType, ApplyFailure
<1>2. routeState' = [routeState EXCEPT ![rt] = after] /\ now' = now
    BY DEF ApplyFailure
<1>3. /\ after.failures = n
      /\ after.bannedUntil = IF n >= Threshold(q.cfg) THEN q.stamp + BanSeconds(q.cfg)
                             ELSE st.bannedUntil
    BY DEF AfterFailure
<1>4. /\ Failures[rt] = st.failures /\ OpenUntil[rt] = st.bannedUntil
      /\ Failures' = [Failures EXCEPT ![rt] = after.failures]
      /\ OpenUntil' = [OpenUntil EXCEPT ![rt] = after.bannedUntil]
    BY <1>1, <1>2, MapOneBreaker DEF Failures, OpenUntil
<1>5. n \in Nat
    BY <1>1, ConstantsAssumption DEF SaturatingInc, BreakerType
<1>6. Failures'[rt] = n /\ Failures' = [Failures EXCEPT ![rt] = IF @ < MaxCount THEN @ + 1 ELSE @]
    BY <1>1, <1>3, <1>4 DEF SaturatingInc, Failures
<1>7. Threshold(q.cfg) \in MinThreshold..MaxThreshold /\ BanSeconds(q.cfg) \in 1..MaxBan
    BY <1>1, BoundsAssumption
<1>8. CASE n >= Threshold(q.cfg)
  <2>1. n >= MinThreshold
    BY <1>5, <1>7, <1>8, BoundsAssumption
  <2>2. /\ q.stamp \in 0..now /\ BanSeconds(q.cfg) \in 1..MaxBan
        /\ OpenUntil' = [OpenUntil EXCEPT ![rt] = q.stamp + BanSeconds(q.cfg)]
    BY <1>1, <1>3, <1>4, <1>7, <1>8
  <2> HIDE DEF n, q, st, after
  <2>3. \E at \in 0..now : \E ban \in 1..MaxBan :
           OpenUntil' = [OpenUntil EXCEPT ![rt] = at + ban]
    BY <2>2
  <2> QED
    BY <2>1, <2>3, <1>2, <1>6 DEF Failures, OpenUntil, Breaker!Failure
<1>9. CASE ~(n >= Threshold(q.cfg))
  <2>1. n < MaxThreshold
    BY <1>5, <1>7, <1>9, BoundsAssumption
  <2>2. OpenUntil' = OpenUntil
    BY <1>3, <1>4, <1>9, <1>1 DEF OpenUntil
  <2> HIDE DEF n, q, st, after
  <2> QED
    BY <2>1, <2>2, <1>1, <1>2, <1>6
    DEF Failures, OpenUntil, Breaker!Failure
<1> QED
    BY <1>8, <1>9

\* A success and a reset close the abstract breaker, a cleared ban lifts it.
LEMMA OtherUpdatesRefine ==
    ASSUME IInv, NEW rt \in Routes, now' = now,
           \/ routeState' = [routeState EXCEPT ![rt] = AfterSuccess(@)]
           \/ routeState' = [routeState EXCEPT ![rt] = NewState]
           \/ routeState' = [routeState EXCEPT ![rt] = AfterClear(@)]
    PROVE  Breaker!Next
<1> DEFINE st == routeState[rt]
<1>1. routeState \in [Routes -> BreakerType] /\ st \in BreakerType
    BY DEF IInv, TypeOK
<1>2. /\ AfterSuccess(st).failures = 0 /\ AfterSuccess(st).bannedUntil = 0
      /\ NewState.failures = 0 /\ NewState.bannedUntil = 0
      /\ AfterClear(st).failures = st.failures /\ AfterClear(st).bannedUntil = 0
    BY <1>1 DEF AfterSuccess, NewState, AfterClear, BreakerType
<1>3. CASE \/ routeState' = [routeState EXCEPT ![rt] = AfterSuccess(@)]
           \/ routeState' = [routeState EXCEPT ![rt] = NewState]
  <2>1. Failures' = [Failures EXCEPT ![rt] = 0] /\ OpenUntil' = [OpenUntil EXCEPT ![rt] = 0]
    BY <1>1, <1>2, <1>3, MapOneBreaker
  <2> QED
    BY <2>1 DEF Failures, OpenUntil, Breaker!Next, Breaker!Close
<1>4. CASE routeState' = [routeState EXCEPT ![rt] = AfterClear(@)]
  <2>1. /\ Failures' = [Failures EXCEPT ![rt] = st.failures]
        /\ OpenUntil' = [OpenUntil EXCEPT ![rt] = 0]
    <3> DEFINE after == AfterClear(st)
    <3>1. routeState' = [routeState EXCEPT ![rt] = after]
      BY <1>4
    <3>2. after.failures = st.failures /\ after.bannedUntil = 0
      BY <1>2
    <3> HIDE DEF after
    <3>3. /\ Failures' = [Failures EXCEPT ![rt] = after.failures]
          /\ OpenUntil' = [OpenUntil EXCEPT ![rt] = after.bannedUntil]
      BY <1>1, <3>1, MapOneBreaker
    <3> QED
      BY <3>2, <3>3
  <2>2. Failures' = Failures
    BY <2>1 DEF Failures
  <2>3. Breaker!LiftBan(rt)
    BY <2>1, <2>2 DEF Failures, OpenUntil, Breaker!LiftBan
  <2> QED
    BY <2>3 DEF Breaker!Next
<1> QED
    BY <1>3, <1>4

LEMMA StepRefines == IInv /\ [Next]_vars => [Breaker!Next]_(Breaker!vars)
<1> SUFFICES ASSUME IInv, [Next]_vars PROVE [Breaker!Next]_(Breaker!vars)
    OBVIOUS
<1>1. CASE UNCHANGED <<now, routeState>>
    BY <1>1 DEF Breaker!vars
<1>2. ASSUME NEW s \in Slots, Start(s) \/ RequestStep(s) \/ FirstChunk(s) \/ Cancel(s)
      PROVE  [Breaker!Next]_(Breaker!vars)
  <2>1. CASE ApplyFailure(s)
    <3>1. PICK rt \in Routes : rt = req[s].route
      BY <2>1 DEF ApplyFailure, IInv, RequestInv
    <3>2. Breaker!Failure(rt)
      BY <2>1, <3>1, FailureRefines
    <3> QED
      BY <3>2 DEF Breaker!Next
  <2>2. CASE ApplySuccess(s)
    <3>1. /\ req[s].route \in Routes /\ now' = now
          /\ routeState' = [routeState EXCEPT ![req[s].route] = AfterSuccess(@)]
      BY <2>2 DEF ApplySuccess, IInv, RequestInv
    <3> QED
      BY <3>1, OtherUpdatesRefine
  <2>3. CASE ~(ApplyFailure(s) \/ ApplySuccess(s))
    BY <1>2, <2>3, <1>1 DEF Start, RequestStep, FirstChunk, Cancel, Keep, Skip,
       ReportSkipped, Send, CannotBuild, NextAttempt, UpstreamFails, ReportFailed,
       ReportBanned, ReportRecovered, UpstreamRejects, Exhausted, ReportExhausted, BodyEnds
  <2> QED
    BY <2>1, <2>2, <2>3
<1>3. ASSUME NEW rt \in Routes, ClearBan(rt) \/ ResetRoute(rt)
      PROVE  [Breaker!Next]_(Breaker!vars)
    BY <1>3, OtherUpdatesRefine DEF ClearBan, ResetRoute
<1>4. CASE Restart
  <2>1. now' = now /\ \A rt \in Routes : routeState'[rt] = NewState
    BY <1>4 DEF Restart
  <2>2. Failures' = [rt \in Routes |-> 0] /\ OpenUntil' = [rt \in Routes |-> 0]
    BY <2>1 DEF Failures, OpenUntil, NewState
  <2> QED
    BY <2>1, <2>2 DEF Failures, OpenUntil, Breaker!Next, Breaker!Restart
<1>5. CASE Tick
    BY <1>5 DEF Tick, Breaker!Next, Breaker!Tick
<1>6. CASE ReportAdmin \/ Reload \/ UNCHANGED vars
    BY <1>1, <1>6 DEF ReportAdmin, Reload, vars
<1> QED
    BY <1>2, <1>3, <1>4, <1>5, <1>6 DEF Next

\* send_with_route_pool, the admin handlers, reloads and restarts together implement
\* the circuit breaker promised for each route.
THEOREM PoolImplementsBreaker == Spec => ImplementsBreaker
<1>1. Init => IInv
    BY InitIInv
<1>2. IInv /\ [Next]_vars => IInv'
    BY NextIInv
<1> QED
    BY <1>1, <1>2, InitRefines, StepRefines, PTL DEF Spec, ImplementsBreaker, Breaker!Spec

--------------------------------------------------------------------------------
(***************************************************************************)
(* Sequences: what the loop moves from one list to the next.               *)
(***************************************************************************)
LEMMA HeadAndTail ==
    ASSUME NEW S, NEW c \in Seq(S), c # <<>>
    PROVE  /\ Head(c) \in S /\ Tail(c) \in Seq(S)
           /\ c = <<Head(c)>> \o Tail(c)
<1>1. Head(c) \in S /\ Tail(c) \in Seq(S) /\ Len(c) \in Nat \ {0}
    BY HeadTailProperties, EmptySeq
<1>2. Len(Tail(c)) = Len(c) - 1 /\ \A i \in 1..Len(Tail(c)) : Tail(c)[i] = c[i + 1]
    BY HeadTailProperties
<1> DEFINE h == <<Head(c)>>
<1>3. h \in Seq(S) /\ Len(h) = 1 /\ h[1] = c[1]
    BY <1>1
<1> HIDE DEF h
<1>4. /\ h \o Tail(c) \in Seq(S) /\ Len(h \o Tail(c)) = Len(c)
      /\ \A i \in 1..Len(c) : (h \o Tail(c))[i] = IF i <= 1 THEN h[i] ELSE Tail(c)[i - 1]
  <2>1. /\ h \o Tail(c) \in Seq(S) /\ Len(h \o Tail(c)) = Len(h) + Len(Tail(c))
        /\ \A i \in 1..(Len(h) + Len(Tail(c))) :
              (h \o Tail(c))[i] = IF i <= Len(h) THEN h[i] ELSE Tail(c)[i - Len(h)]
    BY <1>1, <1>3, ConcatProperties
  <2>2. Len(h) + Len(Tail(c)) = Len(c)
    BY <1>1, <1>2, <1>3
  <2> QED
    BY <2>1, <2>2, <1>3
<1>5. \A i \in 1..Len(c) : (h \o Tail(c))[i] = c[i]
  <2> SUFFICES ASSUME NEW i \in 1..Len(c) PROVE (h \o Tail(c))[i] = c[i]
    OBVIOUS
  <2>1. CASE i = 1
    BY <2>1, <1>3, <1>4
  <2>2. CASE i # 1
    <3>1. i - 1 \in 1..Len(Tail(c))
      BY <2>2, <1>1, <1>2
    <3> QED
      BY <2>2, <3>1, <1>1, <1>2, <1>4
  <2> QED
    BY <2>1, <2>2
<1>6. h \o Tail(c) = c
    BY <1>4, <1>5, SeqEqual
<1> QED
    BY <1>1, <1>6 DEF h

\* The head of one list, appended to the list before it, stays where it was in both.
LEMMA MoveHead ==
    ASSUME NEW S, NEW b \in Seq(S), NEW c \in Seq(S), c # <<>>
    PROVE  Append(b, Head(c)) \o Tail(c) = b \o c
<1>1. Head(c) \in S /\ Tail(c) \in Seq(S) /\ c = <<Head(c)>> \o Tail(c)
    BY HeadAndTail
<1>2. Append(b, Head(c)) = b \o <<Head(c)>> /\ <<Head(c)>> \in Seq(S)
    BY <1>1, AppendIsConcat
<1>3. (b \o <<Head(c)>>) \o Tail(c) = b \o (<<Head(c)>> \o Tail(c))
    BY <1>1, <1>2, ConcatAssociative
<1> QED
    BY <1>1, <1>2, <1>3

LEMMA SubsequenceOfItself ==
    ASSUME NEW S, NEW c \in Seq(S)
    PROVE  IsSubsequence(c, c)
<1>1. Len(c) \in Nat
    BY LenProperties
<1> DEFINE f == [i \in 1..Len(c) |-> i]
<1>2. f \in [1..Len(c) -> 1..Len(c)]
    OBVIOUS
<1>3. \A i, j \in 1..Len(c) : i < j => f[i] < f[j]
    OBVIOUS
<1>4. \A i \in 1..Len(c) : c[i] = c[f[i]]
    OBVIOUS
<1> QED
    BY <1>2, <1>3, <1>4 DEF IsSubsequence

\* Dropping a candidate leaves a subsequence.
LEMMA SubsequenceWithout ==
    ASSUME NEW S, NEW p \in Seq(S), NEW c \in Seq(S), c # <<>>, NEW t \in Seq(S),
           IsSubsequence(p \o c, t)
    PROVE  IsSubsequence(p \o Tail(c), t)
<1> DEFINE s == p \o c
           r == p \o Tail(c)
           n == Len(p)
<1>1. /\ n \in Nat /\ Len(c) \in Nat \ {0} /\ Len(t) \in Nat /\ Tail(c) \in Seq(S)
      /\ Len(Tail(c)) = Len(c) - 1
      /\ \A i \in 1..(Len(c) - 1) : Tail(c)[i] = c[i + 1]
    BY HeadTailProperties, EmptySeq, LenProperties
<1>2. Len(s) = n + Len(c) /\ \A i \in 1..(n + Len(c)) : s[i] = IF i <= n THEN p[i] ELSE c[i - n]
    BY ConcatProperties
<1>3. /\ Len(r) = n + Len(c) - 1
      /\ \A i \in 1..(n + Len(c) - 1) : r[i] = IF i <= n THEN p[i] ELSE Tail(c)[i - n]
  <2>1. /\ Len(r) = n + Len(Tail(c))
        /\ \A i \in 1..(n + Len(Tail(c))) : r[i] = IF i <= n THEN p[i] ELSE Tail(c)[i - n]
    BY <1>1, ConcatProperties
  <2> QED
    BY <2>1, <1>1
<1> HIDE DEF s, r, n
<1>4. PICK f \in [1..Len(s) -> 1..Len(t)] :
          /\ \A i, j \in 1..Len(s) : i < j => f[i] < f[j]
          /\ \A i \in 1..Len(s) : s[i] = t[f[i]]
    BY DEF IsSubsequence, s
<1> DEFINE at(i) == IF i <= n THEN i ELSE i + 1
           g     == [i \in 1..Len(r) |-> f[at(i)]]
<1>5. \A i \in 1..Len(r) : at(i) \in 1..Len(s) /\ r[i] = s[at(i)]
  <2> SUFFICES ASSUME NEW i \in 1..Len(r) PROVE at(i) \in 1..Len(s) /\ r[i] = s[at(i)]
    OBVIOUS
  <2>1. CASE i <= n
    BY <2>1, <1>1, <1>2, <1>3
  <2>2. CASE ~(i <= n)
    <3>1. i - n \in 1..(Len(c) - 1)
      BY <2>2, <1>1, <1>3
    <3>2. r[i] = c[i - n + 1]
      BY <2>2, <3>1, <1>1, <1>3
    <3>3. i + 1 \in 1..Len(s) /\ s[i + 1] = c[i + 1 - n]
      BY <2>2, <1>1, <1>2, <1>3
    <3>4. i - n + 1 = i + 1 - n
      BY <1>1, <1>3
    <3> QED
      BY <2>2, <3>2, <3>3, <3>4
  <2> QED
    BY <2>1, <2>2
<1>6. \A i, j \in 1..Len(r) : i < j => at(i) < at(j)
    BY <1>1, <1>3
<1> HIDE DEF at
<1>7. g \in [1..Len(r) -> 1..Len(t)]
    BY <1>4, <1>5
<1>8. \A i, j \in 1..Len(r) : i < j => g[i] < g[j]
    BY <1>4, <1>5, <1>6
<1>9. \A i \in 1..Len(r) : r[i] = t[g[i]]
    BY <1>4, <1>5
<1> HIDE DEF g
<1> QED
    BY <1>7, <1>8, <1>9 DEF IsSubsequence, r

--------------------------------------------------------------------------------
(***************************************************************************)
(* The loop of one request, whose local state is q.                        *)
(***************************************************************************)
InOrder(q) == IsSubsequence(q.tried \o q.attempts \o q.queue, Candidates(q.cfg))

\* What has been recorded and remembered of the attempts, at each point of the loop.
Accounts(q) ==
    /\ q.pc \in {"filter", "skipped"} =>
         q.tried = <<>> /\ q.recorded = 0 /\ q.lastError = None
    /\ q.pc \notin {"filter", "skipped"} => q.queue = <<>>
    /\ q.pc \in {"try", "reportExhausted"} => q.recorded = Len(q.tried)
    /\ q.pc \in {"sending", "failing", "reportFailed", "reportBanned", "reportRecovered"} =>
         q.recorded + 1 = Len(q.tried) /\ q.route = Last(q.tried)
    /\ q.pc = "deliver" => q.recorded + (IF q.pending THEN 1 ELSE 0) = Len(q.tried)
    /\ q.pc = "try" => q.lastError = IF q.tried = <<>> THEN None ELSE Last(q.tried)
    /\ q.pc \in {"reportFailed", "reportBanned"} => q.lastError = q.route
    /\ q.pc = "reportExhausted" =>
         /\ q.attempts = <<>>
         /\ IF q.tried # <<>> THEN q.lastError = Last(q.tried)
            ELSE q.lastError \in ToSet(Candidates(q.cfg)) \cup {None}

FailoverInv == \A s \in Slots : InOrder(req[s]) /\ Accounts(req[s])

LEMMA IdleIsInOrder == InOrder(IdleRequest) /\ Accounts(IdleRequest)
<1>1. AnyConfig \in Configs
    BY ConstantsAssumption DEF AnyConfig
<1>2. <<>> \o <<>> \o <<>> = <<>> /\ <<>> \in Seq(Routes)
    OBVIOUS
<1>3. IsSubsequence(<<>>, Candidates(AnyConfig))
  <2> DEFINE t == Candidates(AnyConfig)
             f == [i \in {} |-> 0]
  <2>1. 1..Len(<<>>) = {} /\ f \in [{} -> 1..Len(t)]
    OBVIOUS
  <2> HIDE DEF t, f
  <2> QED
    BY <2>1 DEF IsSubsequence, t
<1>4. /\ IdleRequest.tried = <<>> /\ IdleRequest.attempts = <<>> /\ IdleRequest.queue = <<>>
      /\ IdleRequest.cfg = AnyConfig /\ IdleRequest.pc = "idle"
    BY DEF IdleRequest
<1>5. InOrder(IdleRequest)
    BY <1>2, <1>3, <1>4 DEF InOrder
<1> QED
    BY <1>4, <1>5 DEF Accounts

LEMMA OneLoopMoves ==
    ASSUME TypeOK, FailoverInv, NEW s \in Slots, NEW r, req' = [req EXCEPT ![s] = r],
           InOrder(r), Accounts(r)
    PROVE  FailoverInv'
<1>1. \A t \in Slots : req'[t] = IF t = s THEN r ELSE req[t]
    BY DEF TypeOK
<1> SUFFICES ASSUME NEW t \in Slots PROVE InOrder(req'[t]) /\ Accounts(req'[t])
    BY DEF FailoverInv, InOrder, Accounts
<1>2. CASE t = s
    BY <1>1, <1>2
<1>3. CASE t # s
    BY <1>1, <1>3 DEF FailoverInv
<1> QED
    BY <1>2, <1>3

\* A step that leaves the lists of the request alone leaves them in order.
LEMMA ListsUntouched ==
    ASSUME NEW q, NEW r, InOrder(q), r.tried = q.tried, r.attempts = q.attempts,
           r.queue = q.queue, r.cfg = q.cfg
    PROVE  InOrder(r)
    BY DEF InOrder

\* The steps before the first attempt: the candidates move into the list of attempts, or
\* are dropped.
LEMMA FilterSteps ==
    ASSUME TypeOK, RequestInv, FailoverInv, NEW s \in Slots,
           Start(s) \/ Keep(s) \/ Skip(s) \/ ReportSkipped(s)
    PROVE  FailoverInv'
<1> DEFINE q == req[s]
<1>q. /\ q \in RequestType /\ InOrder(q) /\ Accounts(q)
      /\ q.pc \in {"filter", "skipped"} => q.queue # <<>>
      /\ q.queue \in Seq(Routes) /\ q.attempts \in Seq(Routes) /\ q.tried \in Seq(Routes)
      /\ q.cfg \in Configs /\ config \in Configs
    BY DEF TypeOK, RequestInv, RequestType, FailoverInv
<1> SUFFICES \E r : req' = [req EXCEPT ![s] = r] /\ InOrder(r) /\ Accounts(r)
    BY OneLoopMoves
<1>1. CASE Start(s)
  <2>1. PICK stream \in Streaming :
           req' = [req EXCEPT ![s] = [IdleRequest EXCEPT
                      !.pc = "filter", !.cfg = config, !.queue = Candidates(config),
                      !.stamp = now, !.stream = stream]]
    BY <1>1 DEF Start
  <2> DEFINE r == [IdleRequest EXCEPT !.pc = "filter", !.cfg = config,
                     !.queue = Candidates(config), !.stamp = now, !.stream = stream]
  <2>2. /\ r.pc = "filter" /\ r.cfg = config /\ r.queue = Candidates(config)
        /\ r.tried = <<>> /\ r.attempts = <<>> /\ r.recorded = 0 /\ r.lastError = None
    BY DEF IdleRequest
  <2>3. Candidates(config) \in Seq(Routes)
    BY <1>q, ConfigFacts
  <2>4. <<>> \o <<>> \o Candidates(config) = Candidates(config)
    BY <2>3, ConcatEmptySeq
  <2>5. InOrder(r)
    BY <2>2, <2>3, <2>4, SubsequenceOfItself DEF InOrder
  <2>6. Accounts(r)
    BY <2>2 DEF Accounts
  <2> QED
    BY <2>1, <2>5, <2>6
<1>2. ASSUME q.queue # <<>>
      PROVE  /\ FilterNext(s) \in {"filter", "try"}
             /\ FilterNext(s) = "try" => Tail(q.queue) = <<>>
  <2> DEFINE rest == Tail(q.queue)
  <2>1. rest \in Seq(Routes) /\ Len(rest) = Len(q.queue) - 1
    BY <1>2, <1>q, HeadTailProperties
  <2> HIDE DEF rest
  <2>2. Len(q.queue) = 1 => rest = <<>>
    BY <2>1, EmptySeq
  <2> QED
    BY <2>2 DEF FilterNext, rest
<1>3. CASE Keep(s)
  <2> DEFINE r == [q EXCEPT !.pc = FilterNext(s), !.queue = Tail(q.queue),
                            !.attempts = Append(q.attempts, Head(q.queue))]
  <2>1. req' = [req EXCEPT ![s] = r] /\ q.pc = "filter" /\ q.queue # <<>>
    BY <1>3, <1>q DEF Keep
  <2>2. /\ r.pc = FilterNext(s) /\ r.queue = Tail(q.queue) /\ r.cfg = q.cfg
        /\ r.attempts = Append(q.attempts, Head(q.queue)) /\ r.tried = q.tried
        /\ r.recorded = q.recorded /\ r.lastError = q.lastError
    BY <1>q, Zenon DEF RequestType
  <2>3. q.tried \o r.attempts \o r.queue = q.tried \o q.attempts \o q.queue
    <3> HIDE DEF r
    <3>h. Head(q.queue) \in Routes /\ Tail(q.queue) \in Seq(Routes)
      BY <2>1, <1>q, TailFacts
    <3>m. Append(q.attempts, Head(q.queue)) \o Tail(q.queue) = q.attempts \o q.queue
      BY <2>1, <1>q, MoveHead
    <3>a. Append(q.attempts, Head(q.queue)) \in Seq(Routes)
      BY <3>h, <1>q, AppendProperties
    <3>1. /\ r.attempts \o r.queue = q.attempts \o q.queue
          /\ r.attempts \in Seq(Routes) /\ r.queue \in Seq(Routes)
      BY <2>2, <3>h, <3>m, <3>a
    <3>c. \A b, c, d \in Seq(Routes) : b \o c \o d = b \o (c \o d)
      BY ConcatAssociative
    <3>2. q.tried \o r.attempts \o r.queue = q.tried \o (r.attempts \o r.queue)
      BY <3>1, <3>c, <1>q
    <3>3. q.tried \o q.attempts \o q.queue = q.tried \o (q.attempts \o q.queue)
      BY <3>c, <1>q
    <3> QED
      BY <3>1, <3>2, <3>3
  <2>4. InOrder(r)
    BY <2>2, <2>3, <1>q DEF InOrder
  <2>5. Accounts(r)
    BY <2>1, <2>2, <1>2, <1>q, EmptySeq DEF Accounts
  <2> QED
    BY <2>1, <2>4, <2>5
<1>4. CASE Skip(s)
  <2> DEFINE r == [q EXCEPT !.pc = "skipped"]
  <2>1. req' = [req EXCEPT ![s] = r] /\ q.pc = "filter"
    BY <1>4 DEF Skip
  <2>2. /\ r.pc = "skipped" /\ r.queue = q.queue /\ r.cfg = q.cfg /\ r.attempts = q.attempts
        /\ r.tried = q.tried /\ r.recorded = q.recorded /\ r.lastError = q.lastError
    BY <1>q, Zenon DEF RequestType
  <2>3. InOrder(r)
    BY <2>2, <1>q, ListsUntouched
  <2>4. Accounts(r)
    BY <2>1, <2>2, <1>q DEF Accounts
  <2> QED
    BY <2>1, <2>3, <2>4
<1>5. CASE ReportSkipped(s)
  <2> DEFINE r == [q EXCEPT !.pc = FilterNext(s), !.queue = Tail(q.queue)]
  <2>1. req' = [req EXCEPT ![s] = r] /\ q.pc = "skipped" /\ q.queue # <<>>
    BY <1>5, <1>q DEF ReportSkipped
  <2>2. /\ r.pc = FilterNext(s) /\ r.queue = Tail(q.queue) /\ r.cfg = q.cfg
        /\ r.attempts = q.attempts /\ r.tried = q.tried
        /\ r.recorded = q.recorded /\ r.lastError = q.lastError
    BY <1>q, Zenon DEF RequestType
  <2>3. /\ q.tried \o q.attempts \in Seq(Routes) /\ Candidates(q.cfg) \in Seq(Routes)
    BY <1>q, ConfigFacts, ConcatProperties
  <2>4. IsSubsequence(q.tried \o q.attempts \o Tail(q.queue), Candidates(q.cfg))
    BY <2>1, <2>3, <1>q, SubsequenceWithout DEF InOrder
  <2>5. InOrder(r)
    BY <2>2, <2>4 DEF InOrder
  <2>6. Accounts(r)
    BY <2>1, <2>2, <1>2, <1>q, EmptySeq DEF Accounts
  <2> QED
    BY <2>1, <2>5, <2>6
<1> QED
    BY <1>1, <1>3, <1>4, <1>5

\* An attempt: the head of the attempts is tried.
LEMMA AttemptSteps ==
    ASSUME TypeOK, FailoverInv, NEW s \in Slots, NEW pc \in {"sending", "failing"},
           NextAttempt(s, pc)
    PROVE  FailoverInv'
<1> DEFINE q     == req[s]
           rt    == Head(q.attempts)
           tried == Append(q.tried, rt)
           stamp == IF pc = "failing" THEN now ELSE q.stamp
           r     == [q EXCEPT !.pc = pc, !.attempts = Tail(q.attempts), !.route = rt,
                              !.tried = tried, !.stamp = stamp]
<1>q. /\ q \in RequestType /\ InOrder(q) /\ Accounts(q)
      /\ q.queue \in Seq(Routes) /\ q.attempts \in Seq(Routes) /\ q.tried \in Seq(Routes)
    BY DEF TypeOK, RequestType, FailoverInv
<1>1. req' = [req EXCEPT ![s] = r] /\ q.pc = "try" /\ q.attempts # <<>>
    BY DEF NextAttempt
<1>2. rt \in Routes /\ Tail(q.attempts) \in Seq(Routes)
    BY <1>1, <1>q, HeadTailProperties
<1>3. /\ tried \in Seq(Routes) /\ Len(tried) = Len(q.tried) + 1 /\ Last(tried) = rt
    BY <1>2, <1>q, AppendProperties, LenProperties DEF Last
<1>4. tried \o Tail(q.attempts) = q.tried \o q.attempts
    BY <1>1, <1>q, MoveHead
<1> HIDE DEF rt, tried, stamp
<1>5. /\ r.pc = pc /\ r.attempts = Tail(q.attempts) /\ r.route = rt /\ r.tried = tried
      /\ r.queue = q.queue /\ r.cfg = q.cfg /\ r.recorded = q.recorded
    BY <1>q, Zenon DEF RequestType
<1>6. InOrder(r)
    BY <1>4, <1>5, <1>q DEF InOrder
<1>7. Accounts(r)
    BY <1>1, <1>3, <1>5, <1>q DEF Accounts
<1> QED
    BY <1>1, <1>6, <1>7, OneLoopMoves

\* What is known of the local state of a request, and what is asked of the next one.
LEMMA FailoverFacts ==
    ASSUME TypeOK, FailoverInv, NEW s \in Slots
    PROVE  /\ req[s] \in RequestType /\ InOrder(req[s]) /\ Accounts(req[s])
           /\ req[s].recorded \in Nat /\ req[s].tried \in Seq(Routes)
           /\ Len(req[s].tried) \in Nat /\ req[s].cfg \in Configs
           /\ req[s].stream \in BOOLEAN /\ req[s].lastError \in Routes \cup {None}
    BY LenProperties DEF TypeOK, FailoverInv, RequestType

\* The steps of an attempt that fails.
LEMMA FailureSteps ==
    ASSUME TypeOK, FailoverInv, NEW s \in Slots,
           UpstreamFails(s) \/ ApplyFailure(s) \/ ReportFailed(s) \/ ReportBanned(s)
    PROVE  FailoverInv'
<1> DEFINE q == req[s]
<1>q. /\ q \in RequestType /\ InOrder(q) /\ Accounts(q)
      /\ q.recorded \in Nat /\ Len(q.tried) \in Nat
    BY FailoverFacts
<1>n. q.tried = <<>> => Len(q.tried) = 0
    OBVIOUS
<1> SUFFICES \E r : req' = [req EXCEPT ![s] = r] /\ InOrder(r) /\ Accounts(r)
    BY OneLoopMoves
<1>1. CASE UpstreamFails(s)
  <2> DEFINE r == [q EXCEPT !.pc = "failing", !.stamp = now]
  <2>1. req' = [req EXCEPT ![s] = r] /\ q.pc = "sending"
    BY <1>1 DEF UpstreamFails
  <2>2. /\ r.pc = "failing" /\ r.queue = q.queue /\ r.cfg = q.cfg /\ r.attempts = q.attempts
        /\ r.tried = q.tried /\ r.recorded = q.recorded /\ r.route = q.route
    BY <1>q, Zenon DEF RequestType
  <2> HIDE DEF r
  <2>3. InOrder(r) /\ Accounts(r)
    BY <2>1, <2>2, <1>q, ListsUntouched DEF Accounts
  <2> QED
    BY <2>1, <2>3
<1>2. CASE ApplyFailure(s)
  <2> DEFINE banned == AfterFailure(routeState[q.route], q.cfg, q.stamp).failures
                         >= Threshold(q.cfg)
             r      == [q EXCEPT !.pc = "reportFailed", !.lastError = q.route,
                                 !.banned = banned]
  <2>1. req' = [req EXCEPT ![s] = r] /\ q.pc = "failing"
    BY <1>2 DEF ApplyFailure
  <2> HIDE DEF banned
  <2>2. /\ r.pc = "reportFailed" /\ r.queue = q.queue /\ r.cfg = q.cfg
        /\ r.attempts = q.attempts /\ r.tried = q.tried /\ r.recorded = q.recorded
        /\ r.route = q.route /\ r.lastError = q.route
    BY <1>q, Zenon DEF RequestType
  <2> HIDE DEF r
  <2>3. InOrder(r) /\ Accounts(r)
    BY <2>1, <2>2, <1>q, ListsUntouched DEF Accounts
  <2> QED
    BY <2>1, <2>3
<1>3. CASE ReportFailed(s)
  <2> DEFINE r1 == [q EXCEPT !.pc = "reportBanned"]
             r2 == [q EXCEPT !.pc = "try", !.recorded = q.recorded + 1]
  <2>1. /\ q.pc = "reportFailed"
        /\ \/ req' = [req EXCEPT ![s] = r1]
           \/ req' = [req EXCEPT ![s] = r2]
    BY <1>3 DEF ReportFailed
  <2>2. /\ r1.pc = "reportBanned" /\ r1.queue = q.queue /\ r1.cfg = q.cfg
        /\ r1.attempts = q.attempts /\ r1.tried = q.tried /\ r1.recorded = q.recorded
        /\ r1.route = q.route /\ r1.lastError = q.lastError
    BY <1>q, Zenon DEF RequestType
  <2>3. /\ r2.pc = "try" /\ r2.queue = q.queue /\ r2.cfg = q.cfg
        /\ r2.attempts = q.attempts /\ r2.tried = q.tried
        /\ r2.recorded = q.recorded + 1 /\ r2.lastError = q.lastError
    BY <1>q, Zenon DEF RequestType
  <2> HIDE DEF r1, r2
  <2>4. InOrder(r1) /\ Accounts(r1)
    BY <2>1, <2>2, <1>q, ListsUntouched DEF Accounts
  <2>5. InOrder(r2) /\ Accounts(r2)
    BY <2>1, <2>3, <1>q, <1>n, ListsUntouched DEF Accounts
  <2> QED
    BY <2>1, <2>4, <2>5
<1>4. CASE ReportBanned(s)
  <2> DEFINE r == [q EXCEPT !.pc = "try", !.banned = FALSE, !.recorded = q.recorded + 1]
  <2>1. req' = [req EXCEPT ![s] = r] /\ q.pc = "reportBanned"
    BY <1>4 DEF ReportBanned
  <2>2. /\ r.pc = "try" /\ r.queue = q.queue /\ r.cfg = q.cfg /\ r.attempts = q.attempts
        /\ r.tried = q.tried /\ r.recorded = q.recorded + 1 /\ r.lastError = q.lastError
    BY <1>q, Zenon DEF RequestType
  <2> HIDE DEF r
  <2>3. InOrder(r) /\ Accounts(r)
    BY <2>1, <2>2, <1>q, <1>n, ListsUntouched DEF Accounts
  <2> QED
    BY <2>1, <2>3
<1> QED
    BY <1>1, <1>2, <1>3, <1>4

\* The steps of an attempt that is answered.
LEMMA AnswerSteps ==
    ASSUME TypeOK, FailoverInv, NEW s \in Slots,
           ApplySuccess(s) \/ ReportRecovered(s) \/ UpstreamRejects(s) \/ FirstChunk(s)
    PROVE  FailoverInv'
<1> DEFINE q == req[s]
<1>q. /\ q \in RequestType /\ InOrder(q) /\ Accounts(q)
      /\ q.recorded \in Nat /\ Len(q.tried) \in Nat /\ q.stream \in BOOLEAN
    BY FailoverFacts
<1> SUFFICES \E r : req' = [req EXCEPT ![s] = r] /\ InOrder(r) /\ Accounts(r)
    BY OneLoopMoves
<1>1. ASSUME q.pc \in {"sending", "reportRecovered"}, req' = Deliver(s)
      PROVE  \E r : req' = [req EXCEPT ![s] = r] /\ InOrder(r) /\ Accounts(r)
  <2> DEFINE n == IF q.stream THEN q.recorded ELSE q.recorded + 1
             r == [q EXCEPT !.pc = "deliver", !.pending = q.stream, !.recorded = n]
  <2>1. req' = [req EXCEPT ![s] = r]
    BY <1>1 DEF Deliver
  <2>2. n + (IF q.stream THEN 1 ELSE 0) = q.recorded + 1
    BY <1>q
  <2> HIDE DEF n
  <2>3. /\ r.pc = "deliver" /\ r.queue = q.queue /\ r.cfg = q.cfg /\ r.attempts = q.attempts
        /\ r.tried = q.tried /\ r.recorded = n /\ r.pending = q.stream
    BY <1>q, Zenon DEF RequestType
  <2> HIDE DEF r
  <2>4. InOrder(r) /\ Accounts(r)
    BY <2>2, <2>3, <1>1, <1>q, ListsUntouched DEF Accounts
  <2> QED
    BY <2>1, <2>4
<1>2. CASE ApplySuccess(s)
  <2> DEFINE r == [q EXCEPT !.pc = "reportRecovered"]
  <2>1. q.pc = "sending" /\ (req' = [req EXCEPT ![s] = r] \/ req' = Deliver(s))
    BY <1>2 DEF ApplySuccess
  <2>2. /\ r.pc = "reportRecovered" /\ r.queue = q.queue /\ r.cfg = q.cfg
        /\ r.attempts = q.attempts /\ r.tried = q.tried /\ r.recorded = q.recorded
        /\ r.route = q.route
    BY <1>q, Zenon DEF RequestType
  <2> HIDE DEF r
  <2>3. InOrder(r) /\ Accounts(r)
    BY <2>1, <2>2, <1>q, ListsUntouched DEF Accounts
  <2> QED
    BY <2>1, <2>3, <1>1
<1>3. CASE ReportRecovered(s) \/ UpstreamRejects(s)
    BY <1>1, <1>3 DEF ReportRecovered, UpstreamRejects
<1>4. CASE FirstChunk(s)
  <2> DEFINE r == [q EXCEPT !.pending = FALSE, !.recorded = q.recorded + 1]
  <2>1. req' = [req EXCEPT ![s] = r] /\ q.pc = "deliver" /\ q.pending
    BY <1>4 DEF FirstChunk
  <2>2. /\ r.pc = q.pc /\ r.queue = q.queue /\ r.cfg = q.cfg /\ r.attempts = q.attempts
        /\ r.tried = q.tried /\ r.recorded = q.recorded + 1 /\ r.pending = FALSE
    BY <1>q, Zenon DEF RequestType
  <2> HIDE DEF r
  <2>3. InOrder(r)
    BY <2>2, <1>q, ListsUntouched
  <2>4. q.queue = <<>> /\ q.recorded + 1 = Len(q.tried)
    BY <2>1, <1>q DEF Accounts
  <2>5. Accounts(r)
    BY <2>1, <2>2, <2>4, <1>q DEF Accounts
  <2> QED
    BY <2>1, <2>3, <2>5
<1> QED
    BY <1>2, <1>3, <1>4

\* The error that a request borrows is one of its own candidates, if it is an error.
LEMMA BorrowedError ==
    ASSUME NEW order \in Seq(Routes)
    PROVE  LastRoutePoolError(order) \in ToSet(order) \cup {None}
<1> DEFINE last == {i \in DOMAIN order :
                      /\ routeState[order[i]].hasError
                      /\ \A j \in (i + 1)..Len(order) : ~routeState[order[j]].hasError}
<1>1. CASE last = {}
    BY <1>1 DEF LastRoutePoolError
<1>2. CASE last # {}
  <2>1. (CHOOSE i \in last : TRUE) \in DOMAIN order
    BY <1>2
  <2> QED
    BY <2>1, <1>2 DEF LastRoutePoolError, ToSet
<1> QED
    BY <1>1, <1>2

\* The steps that end a request.
LEMMA EndSteps ==
    ASSUME TypeOK, FailoverInv, NEW s \in Slots,
           Exhausted(s) \/ ReportExhausted(s) \/ BodyEnds(s) \/ Cancel(s)
    PROVE  FailoverInv'
<1> DEFINE q == req[s]
<1>q. /\ q \in RequestType /\ InOrder(q) /\ Accounts(q)
      /\ q.recorded \in Nat /\ q.tried \in Seq(Routes) /\ q.cfg \in Configs
    BY FailoverFacts
<1>1. CASE Exhausted(s)
  <2> DEFINE order == Candidates(q.cfg)
             e     == IF q.lastError # None THEN q.lastError ELSE LastRoutePoolError(order)
             r     == [q EXCEPT !.pc = "reportExhausted", !.lastError = e]
  <2>1. req' = [req EXCEPT ![s] = r] /\ q.pc = "try" /\ q.attempts = <<>>
    BY <1>1 DEF Exhausted
  <2>2. q.lastError = IF q.tried = <<>> THEN None ELSE Last(q.tried)
    BY <2>1, <1>q DEF Accounts
  <2>3. q.tried # <<>> => Last(q.tried) \in Routes /\ Last(q.tried) # None
    BY <1>q, EmptySeq, ElementOfSeq, LenProperties, ConstantsAssumption DEF Last
  <2>4. LastRoutePoolError(order) \in ToSet(order) \cup {None}
    BY <1>q, ConfigFacts, BorrowedError
  <2>5. IF q.tried # <<>> THEN e = Last(q.tried) ELSE e \in ToSet(order) \cup {None}
    BY <2>2, <2>3, <2>4
  <2> HIDE DEF e
  <2>6. /\ r.pc = "reportExhausted" /\ r.queue = q.queue /\ r.cfg = q.cfg
        /\ r.attempts = q.attempts /\ r.tried = q.tried /\ r.recorded = q.recorded
        /\ r.lastError = e
    BY <1>q, Zenon DEF RequestType
  <2> HIDE DEF r
  <2>7. InOrder(r)
    BY <2>6, <1>q, ListsUntouched
  <2>8. Accounts(r)
    BY <2>1, <2>5, <2>6, <1>q DEF Accounts
  <2> QED
    BY <2>1, <2>7, <2>8, OneLoopMoves
<1>2. CASE ReportExhausted(s) \/ BodyEnds(s) \/ Cancel(s)
  <2>1. req' = [req EXCEPT ![s] = IdleRequest]
    BY <1>2 DEF ReportExhausted, BodyEnds, Cancel
  <2> QED
    BY <2>1, IdleIsInOrder, OneLoopMoves
<1> QED
    BY <1>1, <1>2

LEMMA InitFailoverInv == Init => FailoverInv
    BY IdleIsInOrder DEF Init, FailoverInv

LEMMA NextFailoverInv == IInv /\ FailoverInv /\ [Next]_vars => FailoverInv'
<1> SUFFICES ASSUME IInv, FailoverInv, [Next]_vars PROVE FailoverInv'
    OBVIOUS
<1>i. TypeOK /\ RequestInv
    BY DEF IInv
<1>1. ASSUME NEW s \in Slots, Start(s) \/ RequestStep(s) \/ FirstChunk(s) \/ Cancel(s)
      PROVE  FailoverInv'
  <2>1. CASE Start(s) \/ Keep(s) \/ Skip(s) \/ ReportSkipped(s)
    BY <2>1, <1>i, FilterSteps
  <2>2. CASE Send(s) \/ CannotBuild(s)
    BY <2>2, <1>i, AttemptSteps DEF Send, CannotBuild
  <2>3. CASE UpstreamFails(s) \/ ApplyFailure(s) \/ ReportFailed(s) \/ ReportBanned(s)
    BY <2>3, <1>i, FailureSteps
  <2>4. CASE ApplySuccess(s) \/ ReportRecovered(s) \/ UpstreamRejects(s) \/ FirstChunk(s)
    BY <2>4, <1>i, AnswerSteps
  <2>5. CASE Exhausted(s) \/ ReportExhausted(s) \/ BodyEnds(s) \/ Cancel(s)
    BY <2>5, <1>i, EndSteps
  <2> QED
    BY <1>1, <2>1, <2>2, <2>3, <2>4, <2>5 DEF RequestStep
<1>2. CASE UNCHANGED req
    BY <1>2 DEF FailoverInv, InOrder, Accounts
<1>3. CASE Restart
    BY <1>3, IdleIsInOrder DEF Restart, FailoverInv, InOrder, Accounts
<1>4. ASSUME NEW rt \in Routes, ClearBan(rt) \/ ResetRoute(rt) PROVE UNCHANGED req
    BY <1>4 DEF ClearBan, ResetRoute
<1> QED
    BY <1>1, <1>2, <1>3, <1>4 DEF Next, vars, ReportAdmin, Reload, Tick

\* Fail-over follows the configured order and attempts no route twice, whatever
\* configuration is installed while the request runs (send_with_route_pool).
THEOREM FailoverIsOrdered == Spec => []FailoverOrder
<1>1. FailoverInv => FailoverOrder
    BY DEF FailoverInv, FailoverOrder, InOrder
<1> QED
    BY <1>1, InitIInv, NextIInv, InitFailoverInv, NextFailoverInv, PTL DEF Spec

\* When a request gives up or is answered, every attempt it made has been recorded once;
\* only the last attempt of a stream may still wait for its first chunk.
THEOREM AttemptsAreAccounted == Spec => []AttemptsAccounted
<1>1. FailoverInv => AttemptsAccounted
    BY DEF FailoverInv, AttemptsAccounted, Accounts
<1> QED
    BY <1>1, InitIInv, NextIInv, InitFailoverInv, NextFailoverInv, PTL DEF Spec

\* The error reported for an exhausted pool is the one of the request's own last attempt,
\* or, if it attempted nothing, one of its candidates' (last_route_pool_error).
THEOREM TheLastTriedIsBlamed == Spec => []LastTriedIsBlamed
<1>1. FailoverInv => LastTriedIsBlamed
    BY DEF FailoverInv, LastTriedIsBlamed, Accounts
<1> QED
    BY <1>1, InitIInv, NextIInv, InitFailoverInv, NextFailoverInv, PTL DEF Spec

--------------------------------------------------------------------------------
(***************************************************************************)
(* The reports.  A step of a request moves the tally of its route and the  *)
(* set of the requests that have yet to report by the same amount.         *)
(***************************************************************************)
Owes(q, change, rt) == IF YetToTell(q, change, rt) THEN 1 ELSE 0

LEMMA OneTellerMoves ==
    ASSUME TypeOK, ChangesAreReported, NEW s \in Slots, NEW r,
           req' = [req EXCEPT ![s] = r],
           \A change \in Changes, rt \in Routes :
              unreported'[change][rt] =
                unreported[change][rt] + Owes(r, change, rt) - Owes(req[s], change, rt)
    PROVE  ChangesAreReported'
<1> SUFFICES ASSUME NEW change \in Changes, NEW rt \in Routes
             PROVE  unreported'[change][rt] = Cardinality(Reporters(change, rt)')
    BY DEF ChangesAreReported
<1> DEFINE before == Reporters(change, rt)
           rest   == before \ {s}
           after  == {x \in Slots : YetToTell(req'[x], change, rt)}
<1>1. /\ \A x \in Slots : req'[x] = IF x = s THEN r ELSE req[x]
      /\ Reporters(change, rt)' = after
    BY DEF TypeOK, Reporters, YetToTell
<1>2. IsFiniteSet(before) /\ before \subseteq Slots
    BY ConstantsAssumption, FS_Subset DEF Reporters
<1>3. /\ IsFiniteSet(rest) /\ Cardinality(before) \in Nat /\ Cardinality(rest) \in Nat
      /\ Cardinality(rest) = Cardinality(before) - Owes(req[s], change, rt)
  <2>1. s \in before <=> YetToTell(req[s], change, rt)
    BY DEF Reporters
  <2> HIDE DEF before
  <2>2. /\ IsFiniteSet(before \ {s})
        /\ Cardinality(before \ {s}) = IF s \in before THEN Cardinality(before) - 1
                                       ELSE Cardinality(before)
    BY ONLY <1>2, FS_RemoveElement
  <2>3. Cardinality(before) \in Nat /\ Cardinality(rest) \in Nat
    BY <1>2, <2>2, FS_CardinalityType
  <2> QED
    BY <2>1, <2>2, <2>3 DEF Owes
<1>4. after = IF YetToTell(r, change, rt) THEN rest \cup {s} ELSE rest
    BY <1>1 DEF Reporters
<1>5. Cardinality(after) = Cardinality(rest) + Owes(r, change, rt)
  <2>1. s \notin rest
    OBVIOUS
  <2> HIDE DEF rest, after
  <2>2. Cardinality(rest \cup {s}) = Cardinality(rest) + 1
    BY ONLY <1>3, <2>1, FS_AddElement
  <2> QED
    BY <1>3, <1>4, <2>2 DEF Owes
<1>6. unreported[change][rt] = Cardinality(before)
    BY DEF ChangesAreReported
<1>7. Owes(r, change, rt) \in Nat /\ Owes(req[s], change, rt) \in Nat
    BY DEF Owes
<1> HIDE DEF before, rest, after
<1> QED
    BY <1>1, <1>3, <1>5, <1>6, <1>7

\* A request that reports nothing before or after its step, and a tally that stays.
LEMMA QuietStep ==
    ASSUME TypeOK, ChangesAreReported, NEW s \in Slots, NEW r,
           req' = [req EXCEPT ![s] = r], unreported' = unreported,
           req[s].pc \notin {"reportFailed", "reportBanned", "reportRecovered"},
           r.pc \notin {"reportFailed", "reportBanned", "reportRecovered"}
    PROVE  ChangesAreReported'
<1>1. \A change \in Changes, rt \in Routes :
        /\ Owes(r, change, rt) = 0 /\ Owes(req[s], change, rt) = 0
        /\ unreported[change][rt] \in Int
    BY DEF Owes, YetToTell, TypeOK
<1>2. \A change \in Changes, rt \in Routes :
        unreported'[change][rt] =
          unreported[change][rt] + Owes(r, change, rt) - Owes(req[s], change, rt)
    BY <1>1
<1> QED
    BY <1>2, OneTellerMoves

LEMMA RequestTallies ==
    ASSUME TypeOK, RequestInv, ChangesAreReported, NEW s \in Slots,
           Start(s) \/ RequestStep(s) \/ FirstChunk(s) \/ Cancel(s)
    PROVE  ChangesAreReported'
<1> DEFINE q     == req[s]
           Quiet == {"reportFailed", "reportBanned", "reportRecovered"}
<1>q. /\ q \in RequestType /\ req \in [Slots -> RequestType]
      /\ unreported \in [Changes -> [Routes -> Int]]
    BY DEF TypeOK
<1>n. \A type, rt : type \notin Changes /\ Reported(type, rt) => unreported' = unreported
    BY DEF Reported
<1>1. CASE \/ Start(s) \/ Keep(s) \/ Skip(s) \/ ReportSkipped(s) \/ Send(s) \/ CannotBuild(s)
           \/ UpstreamFails(s) \/ UpstreamRejects(s) \/ Exhausted(s) \/ ReportExhausted(s)
           \/ BodyEnds(s) \/ FirstChunk(s) \/ Cancel(s)
  <2>1. unreported' = unreported /\ q.pc \notin Quiet
    BY <1>1, <1>n DEF Start, Keep, Skip, ReportSkipped, Send, CannotBuild, NextAttempt,
       UpstreamFails, UpstreamRejects, Exhausted, ReportExhausted, BodyEnds, FirstChunk,
       Cancel, RecordEvent, Changes
  <2>2. \E r : req' = [req EXCEPT ![s] = r]
    BY <1>1 DEF Start, Keep, Skip, ReportSkipped, Send, CannotBuild, NextAttempt,
       UpstreamFails, UpstreamRejects, Exhausted, ReportExhausted, BodyEnds, FirstChunk,
       Cancel, Deliver
  <2>3. req'[s].pc \notin Quiet
    <3>1. CASE Start(s)
      BY <3>1, <1>q DEF Start, IdleRequest, RequestType
    <3>2. CASE Keep(s) \/ Skip(s) \/ ReportSkipped(s)
      BY <3>2, <1>q DEF Keep, Skip, ReportSkipped, FilterNext, RequestType
    <3>3. CASE Send(s) \/ CannotBuild(s)
      BY <3>3, <1>q DEF Send, CannotBuild, NextAttempt, RequestType
    <3>4. CASE UpstreamFails(s) \/ UpstreamRejects(s) \/ FirstChunk(s)
      BY <3>4, <1>q DEF UpstreamFails, UpstreamRejects, FirstChunk, Deliver, RequestType
    <3>5. CASE Exhausted(s)
      BY <3>5, <1>q DEF Exhausted, RequestType
    <3>6. CASE ReportExhausted(s) \/ BodyEnds(s) \/ Cancel(s)
      BY <3>6, <1>q DEF ReportExhausted, BodyEnds, Cancel, IdleRequest, RequestType
    <3> QED
      BY <1>1, <3>1, <3>2, <3>3, <3>4, <3>5, <3>6
  <2>4. PICK r : req' = [req EXCEPT ![s] = r]
    BY <2>2
  <2>5. r.pc \notin Quiet
    BY <2>3, <2>4, <1>q
  <2> QED
    BY <2>1, <2>4, <2>5, QuietStep
<1>2. ASSUME NEW r, req' = [req EXCEPT ![s] = r],
             \A change \in Changes, rt \in Routes :
               unreported'[change][rt] =
                 unreported[change][rt] + Owes(r, change, rt) - Owes(q, change, rt)
      PROVE  ChangesAreReported'
    BY <1>2, OneTellerMoves
<1>3. CASE ApplyFailure(s)
  <2> DEFINE banned == AfterFailure(routeState[q.route], q.cfg, q.stamp).failures
                         >= Threshold(q.cfg)
             r == [q EXCEPT !.pc = "reportFailed", !.lastError = q.route, !.banned = banned]
  <2>1. q.pc = "failing" /\ req' = [req EXCEPT ![s] = r] /\ FailureToReport(q.route, banned)
    BY <1>3, <1>q DEF ApplyFailure
  <2>2. q.route \in Routes
    BY <2>1 DEF RequestInv
  <2>3. banned \in BOOLEAN
    OBVIOUS
  <2> HIDE DEF banned
  <2>4. r.pc = "reportFailed" /\ r.route = q.route /\ r.banned = banned
    BY <1>q DEF RequestType
  <2> HIDE DEF r
  <2>5. ASSUME NEW change \in Changes, NEW rt \in Routes
        PROVE  unreported'[change][rt] =
                 unreported[change][rt] + Owes(r, change, rt) - Owes(q, change, rt)
    <3>1. Owes(q, change, rt) = 0
      BY <2>1 DEF Owes, YetToTell
    <3>2. Owes(r, change, rt) = IF rt = q.route /\ (change = "failed" \/ (change = "banned" /\ banned))
                                THEN 1 ELSE 0
      BY <2>4, <2>3, <2>5 DEF Owes, YetToTell, Changes
    <3>3. unreported'[change][rt] =
            IF rt = q.route /\ (change = "failed" \/ (change = "banned" /\ banned))
            THEN unreported[change][rt] + 1 ELSE unreported[change][rt]
      BY <2>1, <2>2, <1>q, <2>5 DEF FailureToReport, Changes
    <3>4. unreported[change][rt] \in Int
      BY <1>q, <2>5
    <3> QED
      BY <3>1, <3>2, <3>3, <3>4
  <2> QED
    BY <2>1, <2>5, <1>2
<1>4. CASE ApplySuccess(s)
  <2> DEFINE lifts == routeState[q.route].bannedUntil # 0
  <2>1. q.pc = "sending" /\ q.route \in Routes
    BY <1>4 DEF ApplySuccess, RequestInv
  <2>2. CASE ~lifts
    <3>1. unreported' = unreported
      BY <1>4, <2>2 DEF ApplySuccess
    <3> DEFINE r == [q EXCEPT !.pc = "deliver", !.pending = q.stream,
                              !.recorded = IF q.stream THEN @ ELSE @ + 1]
    <3>2. req' = [req EXCEPT ![s] = r] /\ r.pc = "deliver"
      BY <1>4, <2>2, <1>q DEF ApplySuccess, Deliver, RequestType
    <3> HIDE DEF r
    <3> QED
      BY <2>1, <3>1, <3>2, QuietStep
  <2>3. CASE lifts
    <3> DEFINE r == [q EXCEPT !.pc = "reportRecovered"]
    <3>1. /\ req' = [req EXCEPT ![s] = r]
          /\ unreported' = [unreported EXCEPT !["recovered"][q.route] = @ + 1]
      BY <1>4, <2>3, <1>q DEF ApplySuccess
    <3>2. r.pc = "reportRecovered" /\ r.route = q.route
      BY <1>q DEF RequestType
    <3> HIDE DEF r
    <3>3. ASSUME NEW change \in Changes, NEW rt \in Routes
          PROVE  unreported'[change][rt] =
                   unreported[change][rt] + Owes(r, change, rt) - Owes(q, change, rt)
      <4>1. /\ Owes(q, change, rt) = 0
            /\ Owes(r, change, rt) = IF rt = q.route /\ change = "recovered" THEN 1 ELSE 0
        BY <2>1, <3>2 DEF Owes, YetToTell, Changes
      <4>2. unreported'[change][rt] =
              IF rt = q.route /\ change = "recovered" THEN unreported[change][rt] + 1
              ELSE unreported[change][rt]
        BY <3>1, <2>1, <1>q, <3>3 DEF Changes
      <4>3. unreported[change][rt] \in Int
        BY <1>q, <3>3
      <4> QED
        BY <4>1, <4>2, <4>3
    <3> QED
      BY <3>1, <3>3, <1>2
  <2> QED
    BY <2>2, <2>3
\* A report: the request no longer owes it, and owes what it owed besides.
<1>5. ASSUME NEW type \in Changes, NEW r, Reported(type, q.route),
             req' = [req EXCEPT ![s] = r], q.route \in Routes,
             \A change \in Changes, rt \in Routes :
               Owes(q, change, rt) =
                 Owes(r, change, rt) + (IF change = type /\ rt = q.route THEN 1 ELSE 0)
      PROVE  ChangesAreReported'
  <2>1. ASSUME NEW change \in Changes, NEW rt \in Routes
        PROVE  unreported'[change][rt] =
                 unreported[change][rt] + Owes(r, change, rt) - Owes(q, change, rt)
    <3>1. unreported'[change][rt] =
            IF change = type /\ rt = q.route THEN unreported[change][rt] - 1
            ELSE unreported[change][rt]
      BY <1>5, <1>q, <2>1 DEF Reported
    <3>2. unreported[change][rt] \in Int /\ Owes(r, change, rt) \in Int
      BY <1>q, <2>1 DEF Owes
    <3>3. Owes(q, change, rt) =
            Owes(r, change, rt) + (IF change = type /\ rt = q.route THEN 1 ELSE 0)
      BY <1>5, <2>1
    <3> QED
      BY <3>1, <3>2, <3>3
  <2> QED
    BY <2>1, <1>5, <1>2
<1>6. CASE ReportFailed(s)
  <2>1. q.pc = "reportFailed" /\ Reported("failed", q.route) /\ q.route \in Routes
    BY <1>6 DEF ReportFailed, RecordEvent, RequestInv
  <2> DEFINE r == IF q.banned THEN [q EXCEPT !.pc = "reportBanned"]
                  ELSE [q EXCEPT !.pc = "try", !.recorded = @ + 1]
  <2>2. /\ req' = [req EXCEPT ![s] = r] /\ r.route = q.route
        /\ r.pc = IF q.banned THEN "reportBanned" ELSE "try"
    BY <1>6, <1>q DEF ReportFailed, RequestType
  <2> HIDE DEF r
  <2>3. \A change \in Changes, rt \in Routes :
          Owes(q, change, rt) =
            Owes(r, change, rt) + (IF change = "failed" /\ rt = q.route THEN 1 ELSE 0)
    <3> SUFFICES ASSUME NEW change \in Changes, NEW rt \in Routes
                 PROVE  Owes(q, change, rt) = Owes(r, change, rt)
                          + (IF change = "failed" /\ rt = q.route THEN 1 ELSE 0)
      OBVIOUS
    <3>1. CASE q.banned
      BY <3>1, <2>1, <2>2 DEF Owes, YetToTell, Changes
    <3>2. CASE ~q.banned
      BY <3>2, <2>1, <2>2 DEF Owes, YetToTell, Changes
    <3> QED
      BY <3>1, <3>2
  <2> QED
    BY <2>1, <2>2, <2>3, <1>5 DEF Changes
<1>7. CASE ReportBanned(s)
  <2>1. q.pc = "reportBanned" /\ Reported("banned", q.route) /\ q.route \in Routes
    BY <1>7 DEF ReportBanned, RecordEvent, RequestInv
  <2> DEFINE r == [q EXCEPT !.pc = "try", !.banned = FALSE, !.recorded = @ + 1]
  <2>2. req' = [req EXCEPT ![s] = r] /\ r.pc = "try"
    BY <1>7, <1>q DEF ReportBanned, RequestType
  <2> HIDE DEF r
  <2>3. \A change \in Changes, rt \in Routes :
          Owes(q, change, rt) =
            Owes(r, change, rt) + (IF change = "banned" /\ rt = q.route THEN 1 ELSE 0)
    BY <2>1, <2>2 DEF Owes, YetToTell, Changes
  <2> QED
    BY <2>1, <2>2, <2>3, <1>5 DEF Changes
<1>8. CASE ReportRecovered(s)
  <2>1. q.pc = "reportRecovered" /\ Reported("recovered", q.route) /\ q.route \in Routes
    BY <1>8 DEF ReportRecovered, RecordEvent, RequestInv
  <2> DEFINE r == [q EXCEPT !.pc = "deliver", !.pending = q.stream,
                            !.recorded = IF q.stream THEN @ ELSE @ + 1]
  <2>2. req' = [req EXCEPT ![s] = r] /\ r.pc = "deliver"
    BY <1>8, <1>q DEF ReportRecovered, Deliver, RequestType
  <2> HIDE DEF r
  <2>3. \A change \in Changes, rt \in Routes :
          Owes(q, change, rt) =
            Owes(r, change, rt) + (IF change = "recovered" /\ rt = q.route THEN 1 ELSE 0)
    BY <2>1, <2>2 DEF Owes, YetToTell, Changes
  <2> QED
    BY <2>1, <2>2, <2>3, <1>5 DEF Changes
<1> QED
    BY <1>1, <1>3, <1>4, <1>6, <1>7, <1>8 DEF RequestStep

\* No request under way, nothing unreported.
LEMMA NobodyOwes ==
    ASSUME unreported = NothingUnreported, \A s \in Slots : req[s] = IdleRequest
    PROVE  ChangesAreReported
<1> SUFFICES ASSUME NEW change \in Changes, NEW rt \in Routes
             PROVE  unreported[change][rt] = Cardinality(Reporters(change, rt))
    BY DEF ChangesAreReported
<1>1. Reporters(change, rt) = {}
    BY DEF Reporters, YetToTell, IdleRequest
<1> QED
    BY <1>1, FS_EmptySet DEF NothingUnreported

LEMMA NextReported == IInv /\ ChangesAreReported /\ [Next]_vars => ChangesAreReported'
<1> SUFFICES ASSUME IInv, ChangesAreReported, [Next]_vars PROVE ChangesAreReported'
    OBVIOUS
<1>i. TypeOK /\ RequestInv
    BY DEF IInv
<1>1. ASSUME NEW s \in Slots, Start(s) \/ RequestStep(s) \/ FirstChunk(s) \/ Cancel(s)
      PROVE  ChangesAreReported'
    BY <1>1, <1>i, RequestTallies
<1>2. CASE UNCHANGED <<req, unreported>>
    BY <1>2 DEF ChangesAreReported, Reporters, YetToTell
<1>3. ASSUME NEW rt \in Routes, ClearBan(rt) \/ ResetRoute(rt)
      PROVE  ChangesAreReported'
    BY <1>2, <1>3 DEF ClearBan, ResetRoute
<1>4. CASE ReportAdmin
  <2>1. req' = req /\ unreported' = unreported
    BY <1>4, <1>i DEF ReportAdmin, RecordEvent, Reported, TypeOK, AdminType, NoAdmin, Changes
  <2> QED
    BY <2>1, <1>2
<1>5. CASE Restart
  <2>1. unreported' = NothingUnreported /\ \A s \in Slots : req'[s] = IdleRequest
    BY <1>5 DEF Restart
  <2>2. \A change \in Changes, rt \in Routes : Reporters(change, rt)' = {}
    BY <2>1 DEF Reporters, YetToTell, IdleRequest
  <2> QED
    BY <2>1, <2>2, FS_EmptySet DEF ChangesAreReported, NothingUnreported
<1>6. CASE Reload \/ Tick \/ UNCHANGED vars
    BY <1>2, <1>6 DEF Reload, Tick, vars
<1> QED
    BY <1>1, <1>3, <1>4, <1>5, <1>6 DEF Next

\* Every failure, ban and recovery that apply_route_pool_failure and
\* apply_route_pool_success make is recorded exactly once, a failure before its ban:
\* what is missing in the history is what requests have yet to record, for any number
\* of concurrent requests, whatever the operator and reloads do meanwhile.
THEOREM EveryChangeIsReported == Spec => []ChangesAreReported
<1>1. Init => ChangesAreReported
    BY NobodyOwes DEF Init
<1> QED
    BY <1>1, InitIInv, NextIInv, NextReported, PTL DEF Spec

================================================================================
