------------------------ MODULE ControlPlaneProofs -------------------------
(***************************************************************************)
(* The safety properties of the control plane, proved for every set of     *)
(* regions, every weight scale, every period and every threshold.          *)
(***************************************************************************)
EXTENDS ControlPlane, TrafficShaperProofs

-----------------------------------------------------------------------------
\* The weight policy, one operation of the shaper at a time.

\* Advice leaves a region that is not heading for the full weight alone.
LEMMA UpdateBanditWeightsPolicy ==
  ASSUME NEW s \in State, NEW rw \in RegionWeight, NEW w \in Nat, WeightPolicy(s, rw)
  PROVE  WeightPolicy(s, UpdateBanditWeights(rw, w))
<1>1. CASE UpdateBanditWeights(rw, w) = rw
  BY <1>1
<1>2. CASE UpdateBanditWeights(rw, w) # rw
  <2>1. ~ rw.hardFail /\ rw.target = FullWeight
    BY <1>2 DEF UpdateBanditWeights
  <2>2. UpdateBanditWeights(rw, w).hardFail = rw.hardFail
    BY DEF UpdateBanditWeights, RegionWeight
  <2>3. s \notin {"DEGRADED", "HEALING"}
    BY <2>1, Constants DEF WeightPolicy
  <2>4. s # "FAILED"
    BY <2>1 DEF WeightPolicy, Snapped
  <2> QED BY <2>1, <2>2, <2>3, <2>4 DEF WeightPolicy
<1> QED BY <1>1, <1>2

\* So does a tick: it changes no target and no mode, and nothing that stands.
LEMMA TickWeightPolicy ==
  ASSUME NEW s \in State, NEW rw \in RegionWeight, WellDirected(rw), WeightPolicy(s, rw)
  PROVE  WeightPolicy(s, TickWeight(rw))
<1>1. /\ TickWeight(rw).target = rw.target
      /\ TickWeight(rw).hardFail = rw.hardFail
      /\ rw.rate = 0 => TickWeight(rw) = rw
  BY TickWeightDirection
<1>2. rw = Snapped(MinimumWeight, TRUE) => rw.rate = 0
  BY DEF Snapped
<1> QED BY <1>1, <1>2 DEF WeightPolicy

\* A transition that rewrites the weight establishes the policy of the new
\* state, the others keep what the policy of the old state gives them.
LEMMA EnterWeightPolicy ==
  ASSUME NEW from \in State, NEW to \in State, NEW e \in Event, Moves(from, e, to),
         NEW rw \in RegionWeight,
         ~ Rewrites(from, to) => WeightPolicy(from, rw)
  PROVE  WeightPolicy(to, EnterWeight(from, to, rw))
<1>1. CASE to = "DEGRADED"
  <2>1. EnterWeight(from, to, rw) = OnDegraded(rw)
    BY <1>1 DEF EnterWeight
  <2>2. OnDegraded(rw).target = MinimumWeight /\ ~ OnDegraded(rw).hardFail
    BY DEF OnDegraded, RegionWeight
  <2> QED BY <1>1, <2>1, <2>2 DEF WeightPolicy
<1>2. CASE to = "FAILED"
  <2>1. EnterWeight(from, to, rw) = Snapped(MinimumWeight, TRUE)
    BY <1>2 DEF EnterWeight, OnFailed
  <2> QED BY <1>2, <2>1 DEF WeightPolicy
<1>3. CASE to = "RECOVERED"
  <2>1. EnterWeight(from, to, rw) = OnRecovering(rw)
    BY <1>3 DEF EnterWeight
  <2>2. ~ OnRecovering(rw).hardFail
    BY DEF OnRecovering, RegionWeight, Snapped
  <2> QED BY <1>3, <2>1, <2>2 DEF WeightPolicy
<1>4. CASE to = "HEALTHY" /\ from = "RECOVERED"
  <2>1. EnterWeight(from, to, rw) = Snapped(FullWeight, FALSE)
    BY <1>4 DEF EnterWeight, OnHealthy
  <2>2. ~ Snapped(FullWeight, FALSE).hardFail
    BY DEF Snapped
  <2> QED BY <1>4, <2>1, <2>2 DEF WeightPolicy
<1>5. CASE to = "HEALTHY" /\ from # "RECOVERED"
  <2>1. from = "FAILED"
    BY <1>5 DEF Moves, Table
  <2>2. EnterWeight(from, to, rw) = rw /\ ~ Rewrites(from, to)
    BY <1>5, <2>1 DEF EnterWeight, Rewrites
  <2> QED BY <1>5, <2>1, <2>2 DEF WeightPolicy
<1>6. CASE to = "HEALING"
  <2>1. from = "DEGRADED"
    BY <1>6 DEF Moves, Table
  <2>2. EnterWeight(from, to, rw) = rw /\ ~ Rewrites(from, to)
    BY <1>6, <2>1 DEF EnterWeight, Rewrites
  <2> QED BY <1>6, <2>1, <2>2 DEF WeightPolicy
<1> QED BY <1>1, <1>2, <1>3, <1>4, <1>5, <1>6 DEF State

\* Whatever a transition does to a weight, it stays well directed.
LEMMA EnterWeightDirection ==
  ASSUME NEW from \in State, NEW to \in State,
         NEW rw \in RegionWeight, WellDirected(rw)
  PROVE  /\ EnterWeight(from, to, rw) \in RegionWeight
         /\ WellDirected(EnterWeight(from, to, rw))
<1>1. OnFailed(rw) \in RegionWeight /\ WellDirected(OnFailed(rw))
  <2>1. MinimumWeight \in Nat /\ 0 \in Int /\ MinimumWeight <= FullWeight
    BY Constants
  <2>2. OnFailed(rw) \in RegionWeight
    BY <2>1, Zenon DEF OnFailed, Snapped, RegionWeight
  <2>3. WellDirected(OnFailed(rw))
    BY <2>1, SMT DEF OnFailed, Snapped, WellDirected
  <2> QED BY <2>2, <2>3
<1>2. OnHealthy(rw) \in RegionWeight /\ WellDirected(OnHealthy(rw))
  <2>1. FullWeight \in Nat /\ 0 \in Int
    BY Constants
  <2>2. OnHealthy(rw) \in RegionWeight
    BY <2>1, Zenon DEF OnHealthy, Snapped, RegionWeight
  <2>3. WellDirected(OnHealthy(rw))
    BY <2>1, SMT DEF OnHealthy, Snapped, WellDirected
  <2> QED BY <2>2, <2>3
<1> QED BY <1>1, <1>2, OnDegradedDirection, OnRecoveringDirection DEF EnterWeight

-----------------------------------------------------------------------------
\* Types. WellTyped is TypeOK with the one fact about weights that the ticks
\* need to stay in it.
WellTyped == TypeOK /\ RatePointsToTarget

\* What TypeOK says of the main loop, by the value of its `at'.
LEMMA LoopFields ==
  ASSUME loop \in Loop
  PROVE  /\ loop.at = "metric" => loop.region \in Region /\ loop.kind \in MetricKind
         /\ loop.at = "send" => loop.region \in Region /\ loop.event \in Event
BY DEF Loop, Idle

\* A transition of one region, and what it leaves alone.
LEMMA TransitionEffect ==
  ASSUME TypeOK, NEW r \in Region, NEW to \in State, NEW by \in {"loop", "caller"},
         Transition(r, to, by)
  PROVE  /\ state'[r] = to
         /\ weight'[r] = EnterWeight(state[r], to, weight[r])
         /\ forced'[r] <=> forced[r] /\ ~ Rewrites(state[r], to)
         /\ mutex'[r] = IF EnterCall(state[r], to) = "none" THEN Free
                        ELSE [by |-> by, op |-> EnterCall(state[r], to)]
         /\ \A q \in Region \ {r} : /\ state'[q] = state[q] /\ weight'[q] = weight[q]
                                    /\ mutex'[q] = mutex[q] /\ forced'[q] = forced[q]
BY DEF Transition, TypeOK

LEMMA TransitionType ==
  ASSUME WellTyped, NEW r \in Region, NEW to \in State, NEW by \in {"loop", "caller"},
         Transition(r, to, by)
  PROVE  /\ state' \in [Region -> State]
         /\ weight' \in [Region -> RegionWeight]
         /\ forced' \in [Region -> BOOLEAN]
         /\ mutex' \in [Region -> Mutex]
         /\ RatePointsToTarget'
<1> DEFINE op == EnterCall(state[r], to)
           new == EnterWeight(state[r], to, weight[r])
<1>1. state[r] \in State /\ weight[r] \in RegionWeight /\ WellDirected(weight[r])
  BY DEF WellTyped, TypeOK, RatePointsToTarget
<1>2. new \in RegionWeight /\ WellDirected(new)
  BY <1>1, EnterWeightDirection
<1>3. op \in {"drain", "restore", "failover", "none"}
  BY DEF EnterCall
<1>4. (IF op = "none" THEN Free ELSE [by |-> by, op |-> op]) \in Mutex
  BY <1>3 DEF Mutex
<1>5. state' \in [Region -> State] /\ mutex' \in [Region -> Mutex]
  BY <1>4 DEF Transition, WellTyped, TypeOK
<1>6. forced' \in [Region -> BOOLEAN]
  BY Zenon DEF Transition, WellTyped, TypeOK
<1>7. weight' = [weight EXCEPT ![r] = new] /\ weight \in [Region -> RegionWeight]
  BY DEF Transition, WellTyped, TypeOK
<1> HIDE DEF new
<1>8. weight' \in [Region -> RegionWeight]
  BY <1>2, <1>7
<1>9. RatePointsToTarget'
  BY <1>2, <1>7 DEF RatePointsToTarget, WellTyped
<1> QED BY <1>5, <1>6, <1>8, <1>9

\* The new memory of a process is what Init says.
LEMMA FreshType ==
  /\ FreshState \in [Region -> State] /\ FreshWeight \in [Region -> RegionWeight]
  /\ FreshCounts \in [Region -> 0 .. CriticalSignalsThreshold - 1]
  /\ FreshMutex \in [Region -> Mutex] /\ FreshTable \in TableWeights
  /\ NotForced \in [Region -> BOOLEAN]
  /\ \A r \in Region : WellDirected(FreshWeight[r])
<1>1. InitialWeight \in RegionWeight /\ WellDirected(InitialWeight)
  <2>1. FullWeight \in Nat /\ 0 \in Int
    BY Constants
  <2>2. InitialWeight \in RegionWeight
    BY <2>1, Zenon DEF InitialWeight, Snapped, RegionWeight
  <2> QED BY <2>1, <2>2, SMT DEF InitialWeight, Snapped, WellDirected
<1>2. FreshWeight \in [Region -> RegionWeight] /\ \A r \in Region : WellDirected(FreshWeight[r])
  BY <1>1 DEF FreshWeight
<1>3. FreshCounts \in [Region -> 0 .. CriticalSignalsThreshold - 1]
  BY ControlPlaneAssumption, SMT DEF FreshCounts
<1>4. FreshTable \in TableWeights
  BY Constants DEF FreshTable, TableWeights
<1>5. NotForced \in [Region -> BOOLEAN]
  BY Zenon DEF NotForced
<1> QED BY <1>2, <1>3, <1>4, <1>5 DEF FreshState, State, FreshMutex, Mutex

LEMMA InitType == Init => WellTyped
<1> SUFFICES ASSUME Init PROVE WellTyped
  OBVIOUS
<1>1. restarts \in 0 .. MaxRestarts
  BY ControlPlaneAssumption, SMT DEF Init
<1>2. loop \in Loop /\ tick \in Tick
  BY DEF Init, Loop, Tick, Idle
<1>3. upsert \in [Region -> {"none", "drain", "restore"}] /\ hop \in [Region -> Region]
  BY DEF Init
<1> QED BY <1>1, <1>2, <1>3, FreshType DEF Init, WellTyped, TypeOK, RatePointsToTarget

\* The main loop's steps keep the types.
LEMMA MainLoopType == WellTyped /\ MainLoop => WellTyped'
<1> SUFFICES ASSUME WellTyped, MainLoop PROVE WellTyped'
  OBVIOUS
<1> USE DEF WellTyped
<1>1. ASSUME NEW r \in Region, NEW k \in Kind, NEW w \in Advice, ReceiveMetric(r, k, w)
      PROVE  WellTyped'
  <2> DEFINE new == UpdateBanditWeights(weight[r], w)
  <2>1. w \in Nat /\ w <= FullWeight /\ k \in MetricKind
    BY Constants, ControlPlaneAssumption
  <2>2. weight[r] \in RegionWeight /\ WellDirected(weight[r])
    BY DEF TypeOK, RatePointsToTarget
  <2>3. new \in RegionWeight /\ WellDirected(new)
    BY <2>1, <2>2, UpdateBanditWeightsDirection
  <2>4. weight' = [weight EXCEPT ![r] = new] /\ weight \in [Region -> RegionWeight]
    BY <1>1 DEF ReceiveMetric, TypeOK
  <2> HIDE DEF new
  <2>5. weight' \in [Region -> RegionWeight] /\ RatePointsToTarget'
    BY <2>3, <2>4 DEF RatePointsToTarget
  <2>6. loop' \in Loop
    BY <1>1, <2>1 DEF ReceiveMetric, Loop
  <2> QED BY <1>1, <2>5, <2>6 DEF ReceiveMetric, TypeOK, tableVars, awsVars
<1>2. CASE Decide
  <2>1. loop.region \in Region /\ loop.kind \in MetricKind
    BY <1>2, LoopFields DEF Decide, TypeOK
  <2>2. criticalCounts[loop.region] \in 0 .. CriticalSignalsThreshold - 1
    BY <2>1 DEF TypeOK
  <2>3. Counted(loop.kind, state[loop.region], criticalCounts[loop.region])
          \in 0 .. CriticalSignalsThreshold - 1
    BY <2>2, ControlPlaneAssumption, SMT DEF Counted
  <2>4. criticalCounts' \in [Region -> 0 .. CriticalSignalsThreshold - 1]
    BY <1>2, <2>1, <2>3 DEF Decide, TypeOK
  <2>5. loop' \in Loop
    BY <1>2, <2>1 DEF Decide, Decided, Loop
  <2> QED BY <1>2, <2>4, <2>5 DEF Decide, TypeOK, RatePointsToTarget, tableVars, awsVars
<1>3. CASE LoopSend
  <2>1. loop.region \in Region /\ loop.event \in Event
    BY <1>3, LoopFields DEF LoopSend, TypeOK
  <2>2. loop' \in Loop
    BY <1>3, <2>1 DEF LoopSend, LoopAfter, Loop
  <2>3. CASE \E to \in State : Transition(loop.region, to, "loop")
    BY <1>3, <2>1, <2>2, <2>3, TransitionType DEF LoopSend, TypeOK, tableVars, awsVars
  <2>4. CASE UNCHANGED <<state, weight, forced, mutex>>
    BY <1>3, <2>2, <2>4 DEF LoopSend, TypeOK, RatePointsToTarget, tableVars, awsVars
  <2> QED BY <1>3, <2>3, <2>4 DEF LoopSend
<1>4. ASSUME NEW r \in Region, CheckTimeouts(r)
      PROVE  WellTyped'
  <2>1. PICK to \in State : Transition(r, to, "loop")
    BY <1>4 DEF CheckTimeouts
  <2>2. loop' \in Loop
    BY <1>4 DEF CheckTimeouts, LoopAfter, Loop
  <2> QED BY <1>4, <2>1, <2>2, TransitionType DEF CheckTimeouts, TypeOK, tableVars, awsVars
<1> QED BY <1>1, <1>2, <1>3, <1>4 DEF MainLoop

\* So do the callers' steps: a forced weight is within the full one.
LEMMA CallersType == WellTyped /\ Callers => WellTyped'
<1> SUFFICES ASSUME WellTyped, Callers PROVE WellTyped'
  OBVIOUS
<1> USE DEF WellTyped
<1>1. ASSUME NEW r \in Region, NEW e \in CallerEvent, CallerSend(r, e)
      PROVE  WellTyped'
  <2>1. PICK to \in State : Transition(r, to, "caller")
    BY <1>1 DEF CallerSend
  <2> QED BY <1>1, <2>1, TransitionType DEF CallerSend, TypeOK, tableVars, awsVars
<1>2. ASSUME NEW r \in Region, NEW w \in ForcedWeights, ForceRegion(r, w)
      PROVE  WellTyped'
  <2> DEFINE new == ForceWeight(weight[r], w)
  <2>1. w \in Nat /\ w <= FullWeight /\ 0 \in Int
    BY Constants, ControlPlaneAssumption
  <2>2. new \in RegionWeight
    BY <2>1, Zenon DEF ForceWeight, Snapped, RegionWeight
  <2>3. WellDirected(new)
    BY <2>1, SMT DEF ForceWeight, Snapped, WellDirected
  <2>4. weight' = [weight EXCEPT ![r] = new] /\ weight \in [Region -> RegionWeight]
    BY <1>2 DEF ForceRegion, TypeOK
  <2> HIDE DEF new
  <2>5. weight' \in [Region -> RegionWeight] /\ RatePointsToTarget'
    BY <2>2, <2>3, <2>4 DEF RatePointsToTarget
  <2>6. forced' \in [Region -> BOOLEAN]
    BY <1>2, Zenon DEF ForceRegion, TypeOK
  <2> QED BY <1>2, <2>5, <2>6 DEF ForceRegion, TypeOK, tableVars, awsVars
<1> QED BY <1>1, <1>2 DEF Callers

\* What Release does to the mutexes and the main loop.
LEMMA ReleaseType ==
  ASSUME TypeOK, NEW r \in Region, Release(r)
  PROVE  mutex' \in [Region -> Mutex] /\ loop' \in Loop
BY DEF Release, TypeOK, Mutex, Loop

\* So do the AWS calls.
LEMMA CallsType == WellTyped /\ Calls => WellTyped'
<1> SUFFICES ASSUME WellTyped, NEW r \in Region, Upsert(r) \/ SelectNextHop(r) \/ Reroute(r)
             PROVE  WellTyped'
  BY DEF Calls
<1> USE DEF WellTyped
<1>1. CASE Upsert(r)
  <2>1. upsert' \in [Region -> {"none", "drain", "restore"}]
    BY <1>1 DEF Upsert, TypeOK
  <2> QED BY <1>1, <2>1, ReleaseType DEF Upsert, TypeOK, RatePointsToTarget, tableVars
<1>2. CASE SelectNextHop(r)
  <2>1. mutex' \in [Region -> Mutex] /\ loop' \in Loop
    <3>1. mutex[r] \in Mutex /\ mutex[r].op = "failover"
      BY <1>2 DEF SelectNextHop, TypeOK
    <3>2. mutex[r].by \in {"loop", "caller"}
      BY <3>1 DEF Mutex, Free
    <3>3. ASSUME NEW n \in NextHops(r),
                 mutex' = [mutex EXCEPT ![r] = [by |-> @.by, op |-> "reroute", via |-> n]],
                 UNCHANGED loop
          PROVE  mutex' \in [Region -> Mutex] /\ loop' \in Loop
      <4>1. [by |-> mutex[r].by, op |-> "reroute", via |-> n] \in Mutex
        BY <3>2 DEF Mutex, NextHops
      <4> QED BY <3>3, <4>1 DEF TypeOK
    <3> QED BY <1>2, <3>3, ReleaseType DEF SelectNextHop
  <2> QED BY <1>2, <2>1 DEF SelectNextHop, TypeOK, RatePointsToTarget, tableVars, awsVars
<1>3. CASE Reroute(r)
  <2>1. mutex[r].via \in Region
    BY <1>3 DEF Reroute, TypeOK, Mutex, Free
  <2>2. hop' \in [Region -> Region] /\ tableWeights' \in TableWeights
    BY <1>3, <2>1 DEF Reroute, TypeOK, TableWeights
  <2> QED BY <1>3, <2>2, ReleaseType DEF Reroute, TypeOK, RatePointsToTarget
<1> QED BY <1>1, <1>2, <1>3

\* So does the shaper's tick loop.
LEMMA TickLoopType == WellTyped /\ TickLoop => WellTyped'
<1> SUFFICES ASSUME WellTyped, TickLoop PROVE WellTyped'
  OBVIOUS
<1> USE DEF WellTyped
<1>1. CASE ShaperTick
  <2>1. \A r \in Region : TickWeight(weight[r]) \in RegionWeight
                          /\ WellDirected(TickWeight(weight[r]))
    BY TickWeightDirection DEF TypeOK, RatePointsToTarget
  <2>2. weight' \in [Region -> RegionWeight] /\ RatePointsToTarget'
    BY <1>1, <2>1 DEF ShaperTick, RatePointsToTarget
  <2>3. tick' \in Tick
    BY <1>1 DEF ShaperTick, Tick
  <2> QED BY <1>1, <2>2, <2>3 DEF ShaperTick, TypeOK, awsVars
<1>2. CASE ReadWeights
  <2>1. Currents \in TableWeights
    BY DEF Currents, TableWeights, TypeOK, RegionWeight
  <2>2. [r \in Region |-> FullWeight] \in TableWeights
    BY Constants DEF TableWeights
  <2>3. tick' \in Tick
    BY <1>2, <2>1, <2>2 DEF ReadWeights, Tick
  <2> QED BY <1>2, <2>3 DEF ReadWeights, TypeOK, RatePointsToTarget, awsVars
<1>3. CASE UpdateWeights
  <2>1. tick' \in Tick
    BY <1>3 DEF UpdateWeights, Tick
  <2>2. tick.snapshot \in TableWeights
    BY <1>3 DEF UpdateWeights, TypeOK, Tick, Idle
  <2> QED BY <1>3, <2>1, <2>2 DEF UpdateWeights, TypeOK, RatePointsToTarget, awsVars
<1> QED BY <1>1, <1>2, <1>3 DEF TickLoop

\* And a restart.
LEMMA RestartType == WellTyped /\ Restart => WellTyped'
<1> SUFFICES ASSUME WellTyped, Restart PROVE WellTyped'
  OBVIOUS
<1>1. restarts' \in 0 .. MaxRestarts
  BY ControlPlaneAssumption, SMT DEF Restart, WellTyped, TypeOK
<1>2. loop' \in Loop /\ tick' \in Tick
  BY DEF Restart, Loop, Tick, Idle
<1>3. RatePointsToTarget'
  BY FreshType DEF Restart, RatePointsToTarget
<1> QED BY <1>1, <1>2, <1>3, FreshType DEF Restart, WellTyped, TypeOK, awsVars

LEMMA StutterType == WellTyped /\ UNCHANGED vars => WellTyped'
BY DEF WellTyped, TypeOK, RatePointsToTarget, vars

LEMMA WellTypedAlways == Spec => []WellTyped
<1>1. Init => WellTyped
  BY InitType
<1>2. WellTyped /\ [Next]_vars => WellTyped'
  BY MainLoopType, CallersType, CallsType, TickLoopType, RestartType, StutterType DEF Next
<1> QED BY <1>1, <1>2, PTL DEF Spec

\* Every variable keeps the type of the code's field: counters stay below
\* their threshold, weights are never negative.
THEOREM TypeCorrect == Spec => []TypeOK
<1>1. WellTyped => TypeOK
  BY DEF WellTyped
<1> QED BY <1>1, WellTypedAlways, PTL

\* A rate always points to its target, and no weight exceeds the full one.
THEOREM RatesPointToTargets == Spec => []RatePointsToTarget
<1>1. WellTyped => RatePointsToTarget
  BY DEF WellTyped
<1> QED BY <1>1, WellTypedAlways, PTL

-----------------------------------------------------------------------------
\* The weight policy.

\* A transition of a region keeps it: the enter actions rewrite the weight
\* whenever the new state asks for another one.
LEMMA TransitionPolicy ==
  ASSUME WellTyped, WeightMatchesState, NEW r \in Region, NEW to \in State, NEW e \in Event,
         Moves(state[r], e, to), NEW by \in {"loop", "caller"}, Transition(r, to, by)
  PROVE  WeightMatchesState'
<1>1. state[r] \in State /\ weight[r] \in RegionWeight
  BY DEF WellTyped, TypeOK
<1>2. ASSUME ~ forced'[r]
      PROVE  WeightPolicy(state'[r], weight'[r])
  <2>1. ~ Rewrites(state[r], to) => WeightPolicy(state[r], weight[r])
    BY <1>2, TransitionEffect DEF WeightMatchesState, WellTyped
  <2>2. WeightPolicy(to, EnterWeight(state[r], to, weight[r]))
    BY <1>1, <2>1, EnterWeightPolicy
  <2> QED BY <2>2, TransitionEffect DEF WellTyped
<1>3. ASSUME NEW q \in Region \ {r}, ~ forced'[q]
      PROVE  WeightPolicy(state'[q], weight'[q])
  <2>1. state'[q] = state[q] /\ weight'[q] = weight[q] /\ forced'[q] = forced[q]
    BY TransitionEffect DEF WellTyped
  <2>2. ~ forced[q]
    BY <1>3, <2>1, Zenon
  <2>3. WeightPolicy(state[q], weight[q])
    BY <2>2 DEF WeightMatchesState
  <2> QED BY <2>1, <2>3
<1> QED BY <1>2, <1>3 DEF WeightMatchesState

LEMMA MainLoopPolicy == WellTyped /\ WeightMatchesState /\ MainLoop => WeightMatchesState'
<1> SUFFICES ASSUME WellTyped, WeightMatchesState, MainLoop PROVE WeightMatchesState'
  OBVIOUS
<1>1. ASSUME NEW r \in Region, NEW k \in Kind, NEW w \in Advice, ReceiveMetric(r, k, w)
      PROVE  WeightMatchesState'
  <2>1. w \in Nat
    BY Constants, ControlPlaneAssumption
  <2>2. /\ weight'[r] = UpdateBanditWeights(weight[r], w)
        /\ \A q \in Region \ {r} : weight'[q] = weight[q]
        /\ state' = state /\ forced' = forced
    BY <1>1 DEF ReceiveMetric, WellTyped, TypeOK
  <2>3. state[r] \in State /\ weight[r] \in RegionWeight
    BY DEF WellTyped, TypeOK
  <2>4. WeightPolicy(state[r], weight[r]) => WeightPolicy(state[r], weight'[r])
    BY <2>1, <2>2, <2>3, UpdateBanditWeightsPolicy
  <2> QED BY <2>2, <2>4 DEF WeightMatchesState
<1>2. CASE Decide
  BY <1>2 DEF Decide, WeightMatchesState
<1>3. CASE LoopSend
  <2>1. loop.region \in Region /\ loop.event \in Event
    BY <1>3, LoopFields DEF LoopSend, WellTyped, TypeOK
  <2>2. CASE \E to \in State : /\ Moves(state[loop.region], loop.event, to)
                               /\ Transition(loop.region, to, "loop")
    BY <2>1, <2>2, TransitionPolicy
  <2>3. CASE UNCHANGED <<state, weight, forced, mutex>>
    BY <2>3 DEF WeightMatchesState
  <2> QED BY <1>3, <2>2, <2>3 DEF LoopSend
<1>4. ASSUME NEW r \in Region, CheckTimeouts(r)
      PROVE  WeightMatchesState'
  <2>1. PICK to \in State : /\ Moves(state[r], "TTL_EXPIRED", to)
                            /\ Transition(r, to, "loop")
    BY <1>4 DEF CheckTimeouts
  <2>2. "TTL_EXPIRED" \in Event
    BY DEF Event
  <2> QED BY <2>1, <2>2, TransitionPolicy
<1> QED BY <1>1, <1>2, <1>3, <1>4 DEF MainLoop

LEMMA CallersPolicy == WellTyped /\ WeightMatchesState /\ Callers => WeightMatchesState'
<1> SUFFICES ASSUME WellTyped, WeightMatchesState, Callers PROVE WeightMatchesState'
  OBVIOUS
<1>1. ASSUME NEW r \in Region, NEW e \in CallerEvent, CallerSend(r, e)
      PROVE  WeightMatchesState'
  <2>1. PICK to \in State : Moves(state[r], e, to) /\ Transition(r, to, "caller")
    BY <1>1 DEF CallerSend
  <2>2. e \in Event
    BY DEF CallerEvent, Event
  <2> QED BY <2>1, <2>2, TransitionPolicy
<1>2. ASSUME NEW r \in Region, NEW w \in ForcedWeights, ForceRegion(r, w)
      PROVE  WeightMatchesState'
  <2>1. /\ forced'[r] = TRUE
        /\ \A q \in Region \ {r} : weight'[q] = weight[q] /\ forced'[q] = forced[q]
        /\ state' = state
    BY <1>2 DEF ForceRegion, WellTyped, TypeOK
  <2> QED BY <2>1 DEF WeightMatchesState
<1> QED BY <1>1, <1>2 DEF Callers

LEMMA TickLoopPolicy == WellTyped /\ WeightMatchesState /\ TickLoop => WeightMatchesState'
<1> SUFFICES ASSUME WellTyped, WeightMatchesState, TickLoop PROVE WeightMatchesState'
  OBVIOUS
<1>1. CASE ShaperTick
  <2>1. \A r \in Region : WeightPolicy(state[r], weight[r])
                          => WeightPolicy(state[r], TickWeight(weight[r]))
    BY TickWeightPolicy DEF WellTyped, TypeOK, RatePointsToTarget
  <2>2. /\ \A r \in Region : weight'[r] = TickWeight(weight[r])
        /\ state' = state /\ forced' = forced
    BY <1>1 DEF ShaperTick
  <2> QED BY <2>1, <2>2 DEF WeightMatchesState
<1>2. CASE ReadWeights \/ UpdateWeights
  BY <1>2 DEF ReadWeights, UpdateWeights, WeightMatchesState
<1> QED BY <1>1, <1>2 DEF TickLoop

\* A new region, as New and a restart make it, satisfies the policy.
LEMMA FreshPolicy == \A r \in Region : WeightPolicy(FreshState[r], FreshWeight[r])
<1>1. ~ InitialWeight.hardFail
  BY DEF InitialWeight, Snapped
<1> QED BY <1>1 DEF FreshState, FreshWeight, WeightPolicy

\* The weight policy follows the state machine in every reachable state.
THEOREM WeightsMatchStates == Spec => []WeightMatchesState
<1>1. Init => WeightMatchesState
  BY FreshPolicy DEF Init, WeightMatchesState
<1>2. WellTyped /\ WeightMatchesState /\ [Next]_vars => WeightMatchesState'
  <2> SUFFICES ASSUME WellTyped, WeightMatchesState, [Next]_vars PROVE WeightMatchesState'
    OBVIOUS
  <2>1. CASE Calls
    BY <2>1 DEF Calls, Upsert, SelectNextHop, Reroute, WeightMatchesState
  <2>2. CASE Restart
    BY <2>2, FreshPolicy DEF Restart, WeightMatchesState
  <2>3. CASE UNCHANGED vars
    BY <2>3 DEF vars, WeightMatchesState
  <2> QED BY <2>1, <2>2, <2>3, MainLoopPolicy, CallersPolicy, TickLoopPolicy DEF Next
<1> QED BY <1>1, <1>2, WellTypedAlways, PTL DEF Spec

-----------------------------------------------------------------------------
\* The mutexes of the state machines.

\* The calls and the holder go together: each invariant needs the other only
\* through the types, but a step that takes or frees a mutex touches both.
CallsInOrder == CallMatchesState /\ LoopHoldsOneMutex

\* A transition under a free mutex: the call it starts is the one its new
\* state asks for, and the sender holds the mutex for it.
LEMMA TransitionCalls ==
  ASSUME TypeOK, CallMatchesState, NEW r \in Region, NEW to \in State,
         NEW e \in Event, Moves(state[r], e, to),
         NEW by \in {"loop", "caller"}, Transition(r, to, by)
  PROVE  /\ CallMatchesState'
         /\ mutex'[r].by = by \/ mutex'[r] = Free
<1>1. state'[r] = to /\ mutex'[r] = IF EnterCall(state[r], to) = "none" THEN Free
                                    ELSE [by |-> by, op |-> EnterCall(state[r], to)]
  BY TransitionEffect
<1>2. \A q \in Region \ {r} : state'[q] = state[q] /\ mutex'[q] = mutex[q]
  BY TransitionEffect
<1>3. /\ mutex'[r].op = "drain" => to = "DEGRADED"
      /\ mutex'[r].op = "restore" => to = "HEALTHY"
      /\ mutex'[r].op = "failover" => to = "FAILED"
      /\ mutex'[r].op # "reroute"
  BY <1>1 DEF EnterCall, Free
<1> QED BY <1>1, <1>2, <1>3 DEF CallMatchesState

\* The main loop's steps: it takes a mutex only when it holds none.
LEMMA MainLoopCalls == TypeOK /\ CallsInOrder /\ MainLoop => CallsInOrder'
<1> SUFFICES ASSUME TypeOK, CallsInOrder, MainLoop PROVE CallsInOrder'
  OBVIOUS
<1> USE DEF CallsInOrder
<1>1. ASSUME NEW r \in Region, NEW to \in State, NEW e \in Event, Moves(state[r], e, to),
             loop.at # "blocked", Transition(r, to, "loop"), LoopAfter(r)
      PROVE  CallsInOrder'
  <2>1. CallMatchesState' /\ (mutex'[r].by = "loop" \/ mutex'[r] = Free)
    BY <1>1, TransitionCalls
  <2>2. \A q \in Region : mutex[q].by # "loop"
    BY <1>1 DEF LoopHoldsOneMutex
  <2>3. \A q \in Region \ {r} : mutex'[q] = mutex[q]
    BY <1>1, TransitionEffect
  <2>4. LoopHoldsOneMutex'
    BY <1>1, <2>1, <2>2, <2>3 DEF LoopHoldsOneMutex, LoopAfter, Free, Idle
  <2> QED BY <2>1, <2>4
<1>2. ASSUME loop.at # "blocked", loop'.at # "blocked", UNCHANGED <<state, mutex>>
      PROVE  CallsInOrder'
  BY <1>2 DEF CallMatchesState, LoopHoldsOneMutex
<1>3. ASSUME NEW r \in Region, NEW k \in Kind, NEW w \in Advice, ReceiveMetric(r, k, w)
      PROVE  CallsInOrder'
  BY <1>2, <1>3 DEF ReceiveMetric, Idle
<1>4. CASE Decide
  BY <1>2, <1>4 DEF Decide, Idle
<1>5. CASE LoopSend
  <2>1. loop.region \in Region /\ loop.event \in Event /\ loop.at # "blocked"
    BY <1>5, LoopFields DEF LoopSend, TypeOK
  <2>2. CASE \E to \in State : /\ Moves(state[loop.region], loop.event, to)
                               /\ Transition(loop.region, to, "loop")
                               /\ LoopAfter(loop.region)
    BY <1>1, <2>1, <2>2
  <2>3. CASE loop' = Idle /\ UNCHANGED <<state, weight, forced, mutex>>
    BY <1>2, <2>1, <2>3 DEF Idle
  <2> QED BY <1>5, <2>2, <2>3 DEF LoopSend
<1>6. ASSUME NEW r \in Region, CheckTimeouts(r)
      PROVE  CallsInOrder'
  <2>1. PICK to \in State : /\ Moves(state[r], "TTL_EXPIRED", to)
                            /\ Transition(r, to, "loop")
    BY <1>6 DEF CheckTimeouts
  <2>2. LoopAfter(r) /\ loop.at # "blocked" /\ "TTL_EXPIRED" \in Event
    BY <1>6 DEF CheckTimeouts, Idle, Event
  <2> QED BY <1>1, <2>1, <2>2
<1> QED BY <1>3, <1>4, <1>5, <1>6 DEF MainLoop

LEMMA CallersCalls == TypeOK /\ CallsInOrder /\ Callers => CallsInOrder'
<1> SUFFICES ASSUME TypeOK, CallsInOrder, Callers PROVE CallsInOrder'
  OBVIOUS
<1> USE DEF CallsInOrder
<1>1. ASSUME NEW r \in Region, NEW e \in CallerEvent, CallerSend(r, e)
      PROVE  CallsInOrder'
  <2>1. PICK to \in State : Moves(state[r], e, to) /\ Transition(r, to, "caller")
    BY <1>1 DEF CallerSend
  <2>2. e \in Event /\ mutex[r] = Free /\ loop' = loop
    BY <1>1 DEF CallerSend, CallerEvent, Event
  <2>3. CallMatchesState' /\ (mutex'[r].by = "caller" \/ mutex'[r] = Free)
    BY <2>1, <2>2, TransitionCalls
  <2>4. \A q \in Region \ {r} : mutex'[q] = mutex[q]
    BY <2>1, TransitionEffect
  <2> QED BY <2>2, <2>3, <2>4 DEF LoopHoldsOneMutex, Free
<1>2. ASSUME NEW r \in Region, NEW w \in ForcedWeights, ForceRegion(r, w)
      PROVE  CallsInOrder'
  BY <1>2 DEF ForceRegion, CallMatchesState, LoopHoldsOneMutex
<1> QED BY <1>1, <1>2 DEF Callers

\* The end of a call frees its mutex, and the main loop if it was waiting.
LEMMA ReleaseCalls ==
  ASSUME TypeOK, CallsInOrder, NEW r \in Region, Release(r), state' = state,
         mutex[r].op # "none"
  PROVE  CallsInOrder'
<1>1. mutex'[r] = Free /\ \A q \in Region \ {r} : mutex'[q] = mutex[q]
  BY DEF Release, TypeOK
<1>2. CallMatchesState'
  BY <1>1 DEF CallsInOrder, CallMatchesState, Free
<1>3. LoopHoldsOneMutex'
  BY <1>1 DEF CallsInOrder, LoopHoldsOneMutex, Release, Free, Idle
<1> QED BY <1>2, <1>3 DEF CallsInOrder

LEMMA CallsCalls == TypeOK /\ CallsInOrder /\ Calls => CallsInOrder'
<1> SUFFICES ASSUME TypeOK, CallsInOrder, NEW r \in Region,
                    Upsert(r) \/ SelectNextHop(r) \/ Reroute(r)
             PROVE  CallsInOrder'
  BY DEF Calls
<1>1. CASE Upsert(r)
  BY <1>1, ReleaseCalls DEF Upsert
<1>2. CASE SelectNextHop(r)
  <2>1. CASE Release(r)
    BY <1>2, <2>1, ReleaseCalls DEF SelectNextHop
  <2>2. ASSUME NEW n \in NextHops(r), UNCHANGED loop,
               mutex' = [mutex EXCEPT ![r] = [by |-> @.by, op |-> "reroute", via |-> n]]
        PROVE  CallsInOrder'
    <3>1. /\ mutex'[r] = [by |-> mutex[r].by, op |-> "reroute", via |-> n]
          /\ \A q \in Region \ {r} : mutex'[q] = mutex[q]
          /\ state' = state /\ state[r] = "FAILED" /\ n # r
      BY <1>2, <2>2 DEF SelectNextHop, TypeOK, CallsInOrder, CallMatchesState, NextHops
    <3>2. CallMatchesState'
      BY <3>1 DEF CallsInOrder, CallMatchesState
    <3>3. LoopHoldsOneMutex'
      BY <2>2, <3>1 DEF CallsInOrder, LoopHoldsOneMutex
    <3> QED BY <3>2, <3>3 DEF CallsInOrder
  <2> QED BY <1>2, <2>1, <2>2 DEF SelectNextHop
<1>3. CASE Reroute(r)
  BY <1>3, ReleaseCalls DEF Reroute
<1> QED BY <1>1, <1>2, <1>3

\* Drains, restores and failovers of a region are made in the state that asked
\* for them, by the one holder of its mutex.
LEMMA CallsAlwaysInOrder == Spec => []CallsInOrder
<1>1. Init => CallsInOrder
  BY DEF Init, CallsInOrder, CallMatchesState, LoopHoldsOneMutex, FreshMutex, Free, Idle
<1>2. TypeOK /\ CallsInOrder /\ [Next]_vars => CallsInOrder'
  <2> SUFFICES ASSUME TypeOK, CallsInOrder, [Next]_vars PROVE CallsInOrder'
    OBVIOUS
  <2>1. CASE TickLoop
    BY <2>1 DEF TickLoop, ShaperTick, ReadWeights, UpdateWeights, CallsInOrder,
                CallMatchesState, LoopHoldsOneMutex
  <2>2. CASE Restart
    BY <2>2 DEF Restart, CallsInOrder, CallMatchesState, LoopHoldsOneMutex, FreshMutex,
                Free, Idle
  <2>3. CASE UNCHANGED vars
    BY <2>3 DEF vars, CallsInOrder, CallMatchesState, LoopHoldsOneMutex
  <2> QED BY <2>1, <2>2, <2>3, MainLoopCalls, CallersCalls, CallsCalls DEF Next
<1> QED BY <1>1, <1>2, TypeCorrect, PTL DEF Spec

\* No AWS call of a region is made in another state than the one whose entry
\* asked for it: calls of one region never overlap.
THEOREM CallsMatchStates == Spec => []CallMatchesState
<1>1. CallsInOrder => CallMatchesState
  BY DEF CallsInOrder
<1> QED BY <1>1, CallsAlwaysInOrder, PTL

\* The main loop holds the mutex of exactly the region it is blocked on.
THEOREM LoopHoldsAtMostOne == Spec => []LoopHoldsOneMutex
<1>1. CallsInOrder => LoopHoldsOneMutex
  BY DEF CallsInOrder
<1> QED BY <1>1, CallsAlwaysInOrder, PTL

-----------------------------------------------------------------------------
\* What a step may do to the traffic of an unhealthy region.

\* Entering DEGRADED or FAILED raises no weight that is not below the floor,
\* and between unhealthy states no other enter action touches it.
LEMMA EnterWeightKeepsDown ==
  ASSUME NEW from \in State, NEW to \in Unhealthy, NEW rw \in RegionWeight,
         rw.current >= MinimumWeight
  PROVE  EnterWeight(from, to, rw).current <= rw.current
<1>1. rw.current \in Nat /\ OnDegraded(rw).current = rw.current
  BY DEF RegionWeight, OnDegraded
<1>2. OnFailed(rw).current = MinimumWeight
  BY DEF OnFailed, Snapped
<1>3. EnterWeight(from, to, rw) \in {rw, OnDegraded(rw), OnFailed(rw)}
  BY DEF EnterWeight, Unhealthy
<1> QED BY <1>1, <1>2, <1>3, Constants

\* The region of a transition keeps its traffic down, the others keep theirs.
LEMMA TransitionKeepsDown ==
  ASSUME TypeOK, NEW r \in Region, NEW to \in State, NEW by \in {"loop", "caller"},
         Transition(r, to, by)
  PROVE  KeepsTrafficDown
<1>1. ASSUME state'[r] \in Unhealthy, weight[r].current >= MinimumWeight
      PROVE  weight'[r].current <= weight[r].current
  <2>1. state[r] \in State /\ weight[r] \in RegionWeight /\ to \in Unhealthy
    BY <1>1, TransitionEffect DEF TypeOK
  <2>2. EnterWeight(state[r], to, weight[r]).current <= weight[r].current
    BY <1>1, <2>1, EnterWeightKeepsDown
  <2> QED BY <2>2, TransitionEffect
<1>2. ASSUME NEW q \in Region \ {r}
      PROVE  weight'[q].current <= weight[q].current
  <2>1. weight'[q] = weight[q] /\ weight[q].current \in Nat
    BY TransitionEffect DEF TypeOK, RegionWeight
  <2> QED BY <2>1
<1> QED BY <1>1, <1>2 DEF KeepsTrafficDown

\* No traffic comes back to a region that is being drained, healed or kept out.
THEOREM TrafficStaysDown == Spec => NoTrafficRaiseWhileUnhealthy
<1>1. WellTyped /\ WeightMatchesState /\ [Next]_vars => [KeepsTrafficDown]_vars
  <2> SUFFICES ASSUME WellTyped, WeightMatchesState, Next PROVE KeepsTrafficDown
    OBVIOUS
  <2>1. \A r \in Region : weight[r] \in RegionWeight /\ weight[r].current \in Nat
                          /\ WellDirected(weight[r])
    BY DEF WellTyped, TypeOK, RatePointsToTarget, RegionWeight
  <2>2. CASE weight' = weight
    BY <2>1, <2>2 DEF KeepsTrafficDown
  <2>3. ASSUME NEW r \in Region, NEW k \in Kind, NEW w \in Advice, ReceiveMetric(r, k, w)
        PROVE  KeepsTrafficDown
    <3>1. \A q \in Region : weight'[q].current = weight[q].current
      BY <2>3 DEF ReceiveMetric, UpdateBanditWeights, WellTyped, TypeOK, RegionWeight
    <3> QED BY <2>1, <3>1 DEF KeepsTrafficDown
  <2>4. CASE LoopSend
    <3>1. loop.region \in Region
      BY <2>4, LoopFields DEF LoopSend, WellTyped, TypeOK
    <3> QED BY <2>2, <2>4, <3>1, TransitionKeepsDown DEF LoopSend, WellTyped
  <2>5. ASSUME NEW r \in Region, CheckTimeouts(r)
        PROVE  KeepsTrafficDown
    BY <2>5, TransitionKeepsDown DEF CheckTimeouts, WellTyped
  <2>6. ASSUME NEW r \in Region, NEW e \in CallerEvent, CallerSend(r, e)
        PROVE  KeepsTrafficDown
    BY <2>6, TransitionKeepsDown DEF CallerSend, WellTyped
  <2>7. ASSUME NEW r \in Region, NEW w \in ForcedWeights, ForceRegion(r, w)
        PROVE  KeepsTrafficDown
    <3>1. forced'[r] = TRUE /\ \A q \in Region \ {r} : weight'[q] = weight[q]
      BY <2>7 DEF ForceRegion, WellTyped, TypeOK
    <3> QED BY <2>1, <3>1 DEF KeepsTrafficDown
  <2>8. CASE ShaperTick
    <3>1. ASSUME NEW r \in Region, state[r] \in Unhealthy, ~ forced'[r],
                 weight[r].current >= MinimumWeight
          PROVE  weight'[r].current <= weight[r].current
      <4>1. ~ forced[r]
        BY <2>8, <3>1, Zenon DEF ShaperTick
      <4>2. WeightPolicy(state[r], weight[r])
        BY <4>1 DEF WeightMatchesState
      <4>3. weight[r].target = MinimumWeight
        BY <3>1, <4>2 DEF WeightPolicy, Unhealthy, Snapped
      <4>4. TickWeight(weight[r]).current <= weight[r].current
        BY <2>1, <3>1, <4>3, TickWeightDirection
      <4> QED BY <2>8, <4>4 DEF ShaperTick
    <3> QED BY <3>1 DEF KeepsTrafficDown
  <2>9. CASE Restart
    BY <2>9 DEF Restart, FreshState, Unhealthy, KeepsTrafficDown
  <2>10. Decide \/ Calls \/ ReadWeights \/ UpdateWeights => weight' = weight
    BY DEF Decide, Calls, Upsert, SelectNextHop, Reroute, ReadWeights, UpdateWeights
  <2> QED BY <2>2, <2>3, <2>4, <2>5, <2>6, <2>7, <2>8, <2>9, <2>10
             DEF Next, MainLoop, Callers, TickLoop
<1> QED BY <1>1, WellTypedAlways, WeightsMatchStates, PTL
           DEF Spec, NoTrafficRaiseWhileUnhealthy

\* The region of a transition gets the full target only out of HEALING.
LEMMA TransitionLiftsTarget ==
  ASSUME TypeOK, NEW r \in Region, NEW to \in State, NEW e \in Event,
         Moves(state[r], e, to), NEW by \in {"loop", "caller"}, Transition(r, to, by)
  PROVE  LiftsTargetOnRecovery
<1>1. ASSUME state[r] \in Unhealthy, weight[r].target = MinimumWeight,
             weight'[r].target = FullWeight
      PROVE  state[r] = "HEALING" /\ state'[r] = "RECOVERED"
  <2>1. weight[r] \in RegionWeight /\ weight'[r] = EnterWeight(state[r], to, weight[r])
    BY TransitionEffect DEF TypeOK
  <2>2. OnDegraded(weight[r]).target = MinimumWeight
    BY <2>1 DEF OnDegraded, RegionWeight
  <2>3. OnFailed(weight[r]).target = MinimumWeight
    BY DEF OnFailed, Snapped
  <2>4. to = "RECOVERED"
    BY <1>1, <2>1, <2>2, <2>3, Constants DEF EnterWeight, Unhealthy, Moves, Table
  <2>5. state[r] = "HEALING"
    BY <2>4 DEF Moves, Table
  <2> QED BY <2>4, <2>5, TransitionEffect
<1>2. \A q \in Region \ {r} : weight'[q] = weight[q]
  BY TransitionEffect
<1> QED BY <1>1, <1>2, Constants DEF LiftsTargetOnRecovery

\* Traffic returns to an unhealthy region only through RECOVERED.
THEOREM TrafficReturnsThroughRecovery == Spec => FullTargetNeedsRecovery
<1>1. TypeOK /\ [Next]_vars => [LiftsTargetOnRecovery]_vars
  <2> SUFFICES ASSUME TypeOK, Next PROVE LiftsTargetOnRecovery
    OBVIOUS
  <2>1. \A r \in Region : weight[r] \in RegionWeight
    BY DEF TypeOK
  <2>2. CASE \A r \in Region : weight'[r].target = weight[r].target
    BY <2>2, Constants DEF LiftsTargetOnRecovery
  <2>3. ASSUME NEW r \in Region, NEW k \in Kind, NEW w \in Advice, ReceiveMetric(r, k, w)
        PROVE  LiftsTargetOnRecovery
    <3>1. weight'[r] = UpdateBanditWeights(weight[r], w)
          /\ \A q \in Region \ {r} : weight'[q] = weight[q]
      BY <2>3 DEF ReceiveMetric, TypeOK
    <3>2. weight[r].target = MinimumWeight => weight'[r] = weight[r]
      BY <3>1, Constants DEF UpdateBanditWeights
    <3> QED BY <3>1, <3>2, Constants DEF LiftsTargetOnRecovery
  <2>4. CASE LoopSend
    <3>1. loop.region \in Region /\ loop.event \in Event
      BY <2>4, LoopFields DEF LoopSend, TypeOK
    <3>2. CASE weight' = weight
      BY <2>2, <3>2
    <3> QED BY <2>4, <3>1, <3>2, TransitionLiftsTarget DEF LoopSend
  <2>5. ASSUME NEW r \in Region, CheckTimeouts(r)
        PROVE  LiftsTargetOnRecovery
    <3>1. PICK to \in State : /\ Moves(state[r], "TTL_EXPIRED", to)
                              /\ Transition(r, to, "loop")
      BY <2>5 DEF CheckTimeouts
    <3>2. "TTL_EXPIRED" \in Event
      BY DEF Event
    <3> QED BY <3>1, <3>2, TransitionLiftsTarget
  <2>6. ASSUME NEW r \in Region, NEW e \in CallerEvent, CallerSend(r, e)
        PROVE  LiftsTargetOnRecovery
    <3>1. PICK to \in State : Moves(state[r], e, to) /\ Transition(r, to, "caller")
      BY <2>6 DEF CallerSend
    <3>2. e \in Event
      BY DEF CallerEvent, Event
    <3> QED BY <3>1, <3>2, TransitionLiftsTarget
  <2>7. ASSUME NEW r \in Region, NEW w \in ForcedWeights, ForceRegion(r, w)
        PROVE  LiftsTargetOnRecovery
    <3>1. forced'[r] = TRUE /\ \A q \in Region \ {r} : weight'[q] = weight[q]
      BY <2>7 DEF ForceRegion, TypeOK
    <3> QED BY <3>1, Constants DEF LiftsTargetOnRecovery
  <2>8. CASE ShaperTick
    <3>1. \A r \in Region : TickWeight(weight[r]).target = weight[r].target
      BY <2>1 DEF TickWeight, RegionWeight
    <3> QED BY <2>2, <2>8, <3>1 DEF ShaperTick
  <2>9. CASE Restart
    BY <2>9, ControlPlaneAssumption DEF Restart, TypeOK, LiftsTargetOnRecovery
  <2>10. Decide \/ Calls \/ ReadWeights \/ UpdateWeights => weight' = weight
    BY DEF Decide, Calls, Upsert, SelectNextHop, Reroute, ReadWeights, UpdateWeights
  <2> QED BY <2>2, <2>3, <2>4, <2>5, <2>6, <2>7, <2>8, <2>9, <2>10
             DEF Next, MainLoop, Callers, TickLoop
<1> QED BY <1>1, TypeCorrect, PTL DEF Spec, FullTargetNeedsRecovery

=============================================================================
