--------------------------- MODULE LearningProofs ---------------------------
(***************************************************************************)
(* Theorems about Learning, for any samples, flows and answers, any limits  *)
(* of the buffer and of a retrain, and any number of retrains and faults.   *)
(***************************************************************************)
EXTENDS Learning, ScoringProofs, FiniteSetTheorems

-----------------------------------------------------------------------------
\* The inductive invariant, in parts.

\* What the worker has loaded grows with its place.
AfterLoad == {"train", "swapForest", "swapXgb", "saveForest", "saveXgb", "stats"}

LoadedHasItsPlace ==
  /\ rt.at \in {"idle", "load"} => rt = [at |-> rt.at]
  /\ rt.at = "split" => rt = [at |-> "split", lines |-> rt.lines]
  /\ rt.at \in AfterLoad =>
       rt = [at |-> rt.at, lines |-> rt.lines, normal |-> rt.normal,
             anomalies |-> rt.anomalies]
  /\ rt.at \in {"split"} \cup AfterLoad => rt.lines \in [Sample -> Nat]
  /\ rt.at \in {"load", "split", "train"} => gen < MaxRetrains

MetricInHand ==
  handler.at = "classify" =>
    handler.flow \in Flow /\ handler.region \in Region /\ handler.rtt \in RTT

\* The counter counts samples of this process.
CountedAreLived == since <= Cardinality(lived)

FlywheelTypes ==
  /\ buffer \in Seq(Sample) /\ store \in [Sample -> Nat]
  /\ since \in 0 .. Cardinality(Sample) /\ flush \in [Thread -> Int]
  /\ lived \subseteq Sample /\ CountedAreLived

ModelTypes ==
  /\ rt.at \in {"idle", "load", "split"} \cup AfterLoad /\ LoadedHasItsPlace
  /\ gen \in 0 .. MaxRetrains
  /\ forest \in Model /\ xgb \in Model
  /\ forestFile \in Model \cup {Torn} /\ xgbFile \in Model \cup {Torn}
  /\ result \in [success : BOOLEAN, swapped : BOOLEAN]
  /\ learnt \subseteq Sample /\ cut \in BOOLEAN

HandlerTypes ==
  /\ handler.at \in {"idle", "ingest", "classify", "report"} /\ MetricInHand
  /\ up \in BOOLEAN /\ faults \in 0 .. MaxFaults

TypeInv == ScoringInv /\ FlywheelTypes /\ ModelTypes /\ HandlerTypes

\* A flush is part of a handler or of one of the two loads.
FlushHasItsCaller ==
  /\ Flushing("loop") => handler.at = "ingest"
  /\ Flushing("worker") => rt.at \in {"load", "split"}

\* The buffer holds samples of this process, each once.
BufferIsLived ==
  /\ \A n \in 1 .. Len(buffer) : buffer[n] \in lived
  /\ \A m, n \in 1 .. Len(buffer) : m # n => buffer[m] # buffer[n]

\* What the event loop has passed in its flush is in the file, unless the worker
\* flushes beside it.
PassedIsStored ==
  faults = 0 /\ ~Flushing("worker") =>
    \A n \in 1 .. Len(buffer) :
      flush["loop"] = Written \/ n < flush["loop"] => store[buffer[n]] > 0

\* What a thread that flushes alone has still to write is not in the file.
AheadIsNew ==
  faults = 0 =>
    \A t, u \in Thread : \A n \in 1 .. Len(buffer) :
      t # u /\ ~Flushing(u) /\ flush[t] # Written /\ n >= flush[t] => store[buffer[n]] = 0

FlushInv == FlushHasItsCaller /\ BufferIsLived /\ PassedIsStored /\ AheadIsNew

\* The swap and the saves, in their order.
SwapsInOrder ==
  /\ rt.at \in {"swapXgb", "saveForest", "saveXgb", "stats"} => forest = NewForest
  /\ rt.at \in {"saveForest", "saveXgb", "stats"} => xgb = NewXgb
  /\ rt.at \in {"saveXgb", "stats"} => forestFile = forest
  /\ rt.at = "stats" => xgbFile = xgb

\* A swap that was reported is on disk, and what a retrain or a death leaves of
\* its files is the models that serve, or nothing that could be loaded.
SwappedIsSaved ==
  result.swapped =>
    /\ xgbFile.trained \/ xgbFile = Torn
    /\ up /\ rt.at \in {"idle", "load", "split", "train", "swapForest"} =>
         forestFile = forest /\ xgbFile = xgb

\* A forest that cannot score passed no gate against one that can.
GatePassed == rt.at = "swapForest" => rt.normal # 0 \/ ~forest.trained

DownIsIdle == ~up => rt.at = "idle"

ModelInv == SwapsInOrder /\ SwappedIsSaved /\ GatePassed /\ DownIsIdle /\ OneGeneration

\* What was loaded or learnt is in the file.
LearntIsStored ==
  /\ rt.at \in {"split"} \cup AfterLoad => \A s \in Sample : rt.lines[s] <= store[s]
  /\ \A s \in learnt : store[s] > 0

CountInv == LearntIsStored /\ CountsOnlyNewSamples

-----------------------------------------------------------------------------
\* Which step touches what.

LEMMA ScoringSteppers ==
  [Next]_vars => \/ ClassifyMetric \/ (\E f \in Flow : Reset(f)) \/ Die
                 \/ UNCHANGED scoringVars
  BY DEF Next, Loop, Worker, Ingest, BeginScore, Report, Retrain, WriteLine, CloseFile,
    ClearBuffer, Load, Split, Train, SwapForest, SwapXgb, SaveForest, SaveXgb, UpdateStats,
    WriteFails, SaveFails, Restart, vars

LEMMA FlywheelSteppers ==
  [Next]_vars =>
    \/ \E s \in Sample : Ingest(s)
    \/ \E t \in Thread : WriteLine(t) \/ CloseFile(t) \/ ClearBuffer(t) \/ WriteFails(t)
    \/ Retrain \/ Load \/ UpdateStats \/ Die
    \/ UNCHANGED flywheelVars
  BY DEF Next, Loop, Worker, BeginScore, ClassifyMetric, Report, Reset, Split, Train,
    SwapForest, SwapXgb, SaveForest, SaveXgb, SaveFails, Restart, vars, Thread

LEMMA ModelSteppers ==
  [Next]_vars =>
    \/ Retrain \/ Load \/ Split \/ Train \/ SwapForest \/ SwapXgb \/ SaveForest \/ SaveXgb
    \/ UpdateStats \/ SaveFails \/ Die \/ Restart \/ WriteFails("worker")
    \/ UNCHANGED <<modelVars, up>>
  <1>1. WriteFails("loop") => UNCHANGED <<modelVars, up>>
    BY DEF WriteFails, modelVars
  <1> QED
    BY <1>1 DEF Next, Loop, Worker, Ingest, BeginScore, ClassifyMetric, Report, Reset,
      WriteLine, CloseFile, ClearBuffer, vars, Thread

LEMMA HandlerSteppers ==
  [Next]_vars =>
    \/ \E s \in Sample : Ingest(s)
    \/ \E f \in Flow, r \in Region, rtt \in RTT : BeginScore(f, r, rtt)
    \/ ClassifyMetric \/ Report \/ Die \/ ClearBuffer("loop") \/ WriteFails("loop")
    \/ UNCHANGED handler
  <1>1. ClearBuffer("worker") \/ WriteFails("worker") => UNCHANGED handler
    BY DEF WriteFails, ClearBuffer
  <1> QED
    BY <1>1 DEF Next, Loop, Worker, Reset, Retrain, WriteLine, CloseFile, Load, Split, Train,
      SwapForest, SwapXgb, SaveForest, SaveXgb, UpdateStats, SaveFails, Restart, vars, Thread

LEMMA FaultSteppers ==
  [Next]_vars => \/ (faults < MaxFaults /\ faults' = faults + 1) \/ faults' = faults
  BY DEF Next, Loop, Worker, Ingest, BeginScore, ClassifyMetric, Report, Reset, Retrain,
    WriteLine, CloseFile, ClearBuffer, Load, Split, Train, SwapForest, SwapXgb, SaveForest,
    SaveXgb, UpdateStats, WriteFails, SaveFails, Die, Restart, vars

-----------------------------------------------------------------------------
\* Types.

LEMMA TypesAreTypes == TypeInv => TypeOK
  BY DEF TypeInv, TypeOK, ScoringInv, FlywheelTypes, ModelTypes, HandlerTypes, AfterLoad

LEMMA LearningStarts == Init => TypeInv
  <1> SUFFICES ASSUME Init PROVE TypeInv
    OBVIOUS
  <1>1. IsFiniteSet(Sample) /\ MaxRetrains \in Nat /\ MaxFaults \in Nat
    BY LearningAssumption DEF LearningAssumption
  <1>2. ScoringInv
    BY ScoringStarts DEF Init
  <1>3. FlywheelTypes
    <2>1. Cardinality(Sample) \in Nat /\ Cardinality({}) = 0
      BY <1>1, FS_CardinalityType, FS_EmptySet
    <2>2. buffer = <<>> /\ since = 0 /\ lived = {} /\ store \in [Sample -> Nat]
          /\ flush \in [Thread -> Int]
      BY DEF Init, NotFlushing
    <2>3. buffer \in Seq(Sample)
      BY <2>2
    <2> QED
      BY <2>1, <2>2, <2>3 DEF FlywheelTypes, CountedAreLived
  <1>4. ModelTypes
    <2>1. 0 \in 0 .. MaxRetrains
      BY <1>1
    <2>2. forest \in Model
      BY <2>1 DEF Init, Model
    <2>3. /\ rt = [at |-> "idle"] /\ gen = 0 /\ xgb = forest /\ forestFile = forest
          /\ xgbFile = forest /\ result = [success |-> FALSE, swapped |-> FALSE]
          /\ learnt = {} /\ cut = FALSE
      BY DEF Init, Idle
    <2> QED
      BY <2>1, <2>2, <2>3 DEF ModelTypes, LoadedHasItsPlace, AfterLoad
  <1>5. HandlerTypes
    <2>1. 0 \in 0 .. MaxFaults
      BY <1>1
    <2> QED
      BY <2>1 DEF Init, HandlerTypes, MetricInHand, Idle
  <1> QED
    BY <1>2, <1>3, <1>4, <1>5 DEF TypeInv

LEMMA ScoringStays == TypeInv /\ [Next]_vars => ScoringInv'
  <1> SUFFICES ASSUME TypeInv, [Next]_vars PROVE ScoringInv'
    OBVIOUS
  <1>1. CASE ClassifyMetric
    <2>1. /\ handler.flow \in Flow /\ handler.region \in Region /\ handler.rtt \in RTT
          /\ Push(handler.flow)
          /\ Decide(handler.region, handler.rtt) \/ UNCHANGED <<prevRTT, beta>>
      BY <1>1 DEF ClassifyMetric, TypeInv, HandlerTypes, MetricInHand
    <2>2. ScoringTypeOK /\ SeenAreScored /\ WindowIsSuffix
      BY DEF TypeInv, ScoringInv
    <2>3. prevRTT' \in [Region -> RTT \cup {0}] /\ beta' \in [Region -> Int]
      BY <2>1, <2>2, DecideKeepsArms DEF ScoringTypeOK
    <2>4. /\ flows' \in Seq(Flow) /\ Len(flows') <= MaxFlows
          /\ window' \in [Flow -> Seq(1 .. MaxScores)]
          /\ seen' \in [Flow -> 0 .. MaxScores] /\ scored' \in 0 .. MaxScores
          /\ SeenAreScored' /\ WindowIsSuffix'
      BY <2>1, <2>2, PushKeepsWindows
    <2> QED
      BY <2>3, <2>4 DEF ScoringInv, ScoringTypeOK
  <1>2. ASSUME NEW f \in Flow, Reset(f) PROVE ScoringInv'
    BY <1>2, ResetKeepsWindows DEF Reset, TypeInv
  <1>3. CASE Die
    <2>1. /\ flows' = <<>> /\ window' = [f \in Flow |-> <<>>]
          /\ UNCHANGED <<seen, scored>>
      BY <1>3 DEF Die
    <2>2. prevRTT' \in [Region -> RTT \cup {0}] /\ beta' \in [Region -> Int]
      BY <1>3 DEF Die
    <2>3. flows' \in Seq(Flow) /\ Len(flows') <= MaxFlows
      BY <2>1, ScoringAssumption DEF ScoringAssumption
    <2>4. window' \in [Flow -> Seq(1 .. MaxScores)]
      <3>1. <<>> \in Seq(1 .. MaxScores)
        OBVIOUS
      <3> QED
        BY <2>1, <3>1
    <2>5. WindowIsSuffix'
      <3>1. \A f \in Flow : window'[f] = <<>> /\ ~\E n \in 1 .. Len(window'[f]) : TRUE
        BY <2>1
      <3> QED
        BY <3>1 DEF WindowIsSuffix
    <2> QED
      BY <2>1, <2>2, <2>3, <2>4, <2>5 DEF TypeInv, ScoringInv, ScoringTypeOK, SeenAreScored
  <1>4. CASE UNCHANGED scoringVars
    BY <1>4, ScoringSteps DEF TypeInv
  <1> QED
    BY <1>1, <1>2, <1>3, <1>4, ScoringSteppers

\* A flush begins with the first sample of the buffer, if there is one.
LEMMA StartFlushType ==
  ASSUME NEW f \in [Thread -> Int], flush = f, NEW t \in Thread, NEW b, StartFlush(t, b)
  PROVE  /\ flush' \in [Thread -> Int] /\ flush'[t] \in {NotFlushing, 1}
         /\ b # <<>> => flush'[t] = 1
         /\ \A u \in Thread : u # t => flush'[u] = flush[u]
  BY DEF StartFlush, NotFlushing

\* A sample that was not ingested before is one more.
LEMMA OneMoreLived ==
  ASSUME FlywheelTypes, NEW s \in Sample, s \notin lived
  PROVE  /\ Cardinality(lived \cup {s}) = Cardinality(lived) + 1
         /\ Cardinality(lived) \in Nat /\ Cardinality(Sample) \in Nat
         /\ Cardinality(lived \cup {s}) <= Cardinality(Sample)
  <1>1. IsFiniteSet(Sample) /\ lived \in SUBSET Sample /\ lived \cup {s} \in SUBSET Sample
    BY LearningAssumption DEF LearningAssumption, FlywheelTypes
  <1>2. IsFiniteSet(lived) /\ Cardinality(lived \cup {s}) <= Cardinality(Sample)
    BY <1>1, FS_Subset
  <1>3. Cardinality(lived \cup {s}) = Cardinality(lived) + 1
    BY <1>2, FS_AddElement
  <1> QED
    BY <1>1, <1>2, <1>3, FS_CardinalityType

\* A line is written: the store holds it once more, or not.
LEMMA WriteLineStores ==
  ASSUME FlywheelTypes, NEW t \in Thread, WriteLine(t)
  PROVE  /\ flush[t] \in 1 .. Len(buffer) /\ buffer[flush[t]] \in Sample
         /\ store' \in [Sample -> Nat] /\ \A s \in Sample : store'[s] >= store[s]
         /\ flush' \in [Thread -> Int] /\ flush'[t] = flush[t] + 1
         /\ \A u \in Thread : u # t => flush'[u] = flush[u]
         /\ \/ /\ store'[buffer[flush[t]]] = store[buffer[flush[t]]] + 1
               /\ \A s \in Sample : s # buffer[flush[t]] => store'[s] = store[s]
            \/ (\A u \in Thread : Flushing(u)) /\ store' = store
  <1>0. /\ buffer \in Seq(Sample) /\ store \in [Sample -> Nat] /\ flush \in [Thread -> Int]
        /\ flush[t] \in 1 .. Len(buffer)
    BY DEF FlywheelTypes, WriteLine
  <1>1. buffer[flush[t]] \in Sample
    BY <1>0
  <1>2. flush' \in [Thread -> Int] /\ flush'[t] = flush[t] + 1
        /\ \A u \in Thread : u # t => flush'[u] = flush[u]
    <2> DEFINE next == flush[t] + 1
    <2>1. next \in Int /\ flush' = [flush EXCEPT ![t] = next]
      BY <1>0 DEF WriteLine
    <2> HIDE DEF next
    <2>2. flush' \in [Thread -> Int] /\ flush'[t] = next
          /\ \A u \in Thread : u # t => flush'[u] = flush[u]
      BY <1>0, <2>1
    <2> QED
      BY <2>2 DEF next
  <1>3. CASE store' = [store EXCEPT ![buffer[flush[t]]] = @ + 1]
    <2> DEFINE s == buffer[flush[t]]
               next == store[s] + 1
    <2>1. next \in Nat /\ next >= store[s] /\ s \in Sample
      BY <1>0, <1>1
    <2>2. store' = [store EXCEPT ![s] = next]
      BY <1>3
    <2> HIDE DEF next, s
    <2>3. store' \in [Sample -> Nat] /\ store'[s] = next
          /\ \A r \in Sample : r # s => store'[r] = store[r]
      BY <1>0, <2>1, <2>2
    <2>4. \A r \in Sample : store'[r] >= store[r]
      BY <1>0, <2>1, <2>3
    <2> QED
      BY <1>0, <1>1, <1>2, <2>3, <2>4 DEF next, s
  <1>4. CASE (\A u \in Thread : Flushing(u)) /\ store' = store
    <2>1. \A s \in Sample : store'[s] >= store[s]
      BY <1>0, <1>4
    <2> QED
      BY <1>0, <1>1, <1>2, <1>4, <2>1
  <1> QED
    BY <1>3, <1>4 DEF WriteLine

\* A step that moves a flush, or ends it, and may empty the buffer.
LEMMA FlushMoves ==
  ASSUME FlywheelTypes, NEW t \in Thread, CloseFile(t) \/ ClearBuffer(t) \/ WriteFails(t)
  PROVE  /\ UNCHANGED <<store, since, lived>> /\ buffer' \in {buffer, <<>>}
         /\ flush' \in [Thread -> Int] /\ flush'[t] \in {Written, NotFlushing}
         /\ \A u \in Thread : u # t => flush'[u] = flush[u]
         /\ CloseFile(t) => buffer' = buffer /\ flush'[t] = Written /\ flush[t] > Len(buffer)
         /\ ClearBuffer(t) => buffer' = <<>> /\ flush'[t] = NotFlushing /\ flush[t] = Written
         /\ WriteFails(t) => flush'[t] = NotFlushing /\ flush[t] # NotFlushing
  <1>1. /\ UNCHANGED <<store, since, lived>> /\ buffer' \in {buffer, <<>>}
        /\ CloseFile(t) => buffer' = buffer /\ flush[t] > Len(buffer)
        /\ ClearBuffer(t) => buffer' = <<>> /\ flush[t] = Written
        /\ WriteFails(t) => flush[t] # NotFlushing
    BY DEF CloseFile, ClearBuffer, WriteFails, Flushing
  <1>2. flush \in [Thread -> Int] /\ NotFlushing \in Int /\ Written \in Int
    BY DEF FlywheelTypes, NotFlushing, Written
  <1>3. /\ CloseFile(t) => flush' = [flush EXCEPT ![t] = Written]
        /\ ClearBuffer(t) \/ WriteFails(t) => flush' = [flush EXCEPT ![t] = NotFlushing]
    BY DEF CloseFile, ClearBuffer, WriteFails
  <1> QED
    BY <1>1, <1>2, <1>3

LEMMA FlywheelStays == TypeInv /\ [Next]_vars => FlywheelTypes'
  <1> SUFFICES ASSUME TypeInv, [Next]_vars PROVE FlywheelTypes'
    OBVIOUS
  <1>0. FlywheelTypes
    BY DEF TypeInv
  <1>1. ASSUME NEW s \in Sample, Ingest(s) PROVE FlywheelTypes'
    <2>1. /\ s \notin lived /\ buffer' = Append(buffer, s) /\ since' = since + 1
          /\ lived' = lived \cup {s} /\ store' = store
      BY <1>1 DEF Ingest
    <2>2. flush' \in [Thread -> Int]
      BY <1>0, <1>1, StartFlushType DEF Ingest, FlywheelTypes, Thread
    <2>3. buffer' \in Seq(Sample)
      BY <1>0, <2>1 DEF FlywheelTypes
    <2>4. since' \in 0 .. Cardinality(Sample) /\ since' <= Cardinality(lived')
      <3>1. since \in Nat /\ since <= Cardinality(lived)
        BY <1>0, <2>1, OneMoreLived DEF FlywheelTypes, CountedAreLived
      <3> QED
        BY <1>0, <2>1, <3>1, OneMoreLived
    <2> QED
      BY <1>0, <2>1, <2>2, <2>3, <2>4 DEF FlywheelTypes, CountedAreLived
  <1>2. ASSUME NEW t \in Thread, WriteLine(t) PROVE FlywheelTypes'
    <2>1. UNCHANGED <<buffer, since, lived>>
      BY <1>2 DEF WriteLine
    <2> QED
      BY <1>0, <1>2, <2>1, WriteLineStores DEF FlywheelTypes, CountedAreLived
  <1>3. ASSUME NEW t \in Thread, CloseFile(t) \/ ClearBuffer(t) \/ WriteFails(t)
        PROVE  FlywheelTypes'
    <2>1. /\ UNCHANGED <<store, since, lived>> /\ buffer' \in {buffer, <<>>}
          /\ flush' \in [Thread -> Int]
      BY <1>0, <1>3, FlushMoves
    <2>2. buffer' \in Seq(Sample)
      <3>1. buffer \in Seq(Sample) /\ <<>> \in Seq(Sample)
        BY <1>0 DEF FlywheelTypes
      <3> QED
        BY <2>1, <3>1
    <2> QED
      BY <1>0, <2>1, <2>2 DEF FlywheelTypes, CountedAreLived
  <1>4. CASE Retrain \/ Load
    <2>1. UNCHANGED <<buffer, store, since, lived>> /\ StartFlush("worker", buffer)
      BY <1>4 DEF Retrain, Load
    <2>2. flush' \in [Thread -> Int]
      BY <1>0, <2>1, StartFlushType DEF FlywheelTypes, Thread
    <2> QED
      BY <1>0, <2>1, <2>2 DEF FlywheelTypes, CountedAreLived
  <1>5. IsFiniteSet(Sample) /\ Cardinality(Sample) \in Nat
    BY LearningAssumption, FS_CardinalityType DEF LearningAssumption
  <1>6. CASE UpdateStats
    <2>1. UNCHANGED <<buffer, store, flush, lived>> /\ since' = 0
      BY <1>6 DEF UpdateStats
    <2>2. IsFiniteSet(lived) /\ Cardinality(lived) \in Nat
      <3>1. lived \in SUBSET Sample
        BY <1>0 DEF FlywheelTypes
      <3>2. IsFiniteSet(lived)
        BY <1>5, <3>1, FS_Subset
      <3> QED
        BY <3>2, FS_CardinalityType
    <2> QED
      BY <1>0, <1>5, <2>1, <2>2 DEF FlywheelTypes, CountedAreLived
  <1>7. CASE Die
    <2>1. buffer' = <<>> /\ since' = 0 /\ lived' = {} /\ store' = store
          /\ flush' \in [Thread -> Int]
      BY <1>7 DEF Die, NotFlushing
    <2>2. buffer' \in Seq(Sample)
      BY <2>1
    <2> QED
      BY <1>0, <1>5, <2>1, <2>2, FS_EmptySet DEF FlywheelTypes, CountedAreLived
  <1>8. CASE UNCHANGED flywheelVars
    BY <1>0, <1>8 DEF FlywheelTypes, CountedAreLived, flywheelVars
  <1> QED
    BY <1>1, <1>2, <1>3, <1>4, <1>6, <1>7, <1>8, FlywheelSteppers

\* The worker keeps what it loaded when it moves.
LEMMA LoadedIsKept ==
  ASSUME LoadedHasItsPlace, rt.at \in AfterLoad, NEW to \in AfterLoad,
         rt' = [rt EXCEPT !.at = to]
  PROVE  /\ rt' = [at |-> to, lines |-> rt.lines, normal |-> rt.normal,
                   anomalies |-> rt.anomalies]
         /\ rt'.at = to /\ rt'.lines = rt.lines /\ rt'.normal = rt.normal
         /\ to # "train" => LoadedHasItsPlace'
  <1>1. rt = [at |-> rt.at, lines |-> rt.lines, normal |-> rt.normal,
              anomalies |-> rt.anomalies] /\ rt.lines \in [Sample -> Nat]
    BY DEF LoadedHasItsPlace
  <1>2. /\ rt' = [at |-> to, lines |-> rt.lines, normal |-> rt.normal,
                  anomalies |-> rt.anomalies]
    BY <1>1
  <1> QED
    BY <1>1, <1>2 DEF LoadedHasItsPlace, AfterLoad

\* The models that a retrain makes are models, and not what a torn file holds.
LEMMA NewModels ==
  ASSUME ModelTypes
  PROVE  NewForest \in Model /\ NewXgb \in Model /\ NewForest # Torn /\ NewXgb # Torn
         /\ NewForest.gen = gen /\ NewXgb.gen = gen /\ NewXgb.trained
         /\ (NewForest.trained <=> rt.normal # 0) /\ Torn \notin Model
  <1>1. gen \in 0 .. MaxRetrains /\ (rt.normal # 0) \in BOOLEAN
    BY DEF ModelTypes
  <1>2. Torn \notin Model
    <2>1. Torn.gen = -1 /\ -1 \notin 0 .. MaxRetrains
      BY DEF Torn
    <2> QED
      BY <2>1 DEF Model
  <1>3. NewForest \in Model /\ NewXgb \in Model
    BY <1>1 DEF NewForest, NewXgb, Model
  <1>4. NewForest.gen = gen /\ NewXgb.gen = gen /\ NewXgb.trained
        /\ (NewForest.trained <=> rt.normal # 0)
    BY DEF NewForest, NewXgb
  <1> QED
    BY <1>2, <1>3, <1>4

\* The end of a retrain, and of what it had loaded.
LEMMA FinishType ==
  ASSUME NEW success \in BOOLEAN, NEW swapped \in BOOLEAN, Finish(success, swapped)
  PROVE  /\ rt'.at = "idle" /\ result' \in [success : BOOLEAN, swapped : BOOLEAN]
         /\ result'.swapped = swapped /\ LoadedHasItsPlace'
  <1>1. rt' = [at |-> "idle"] /\ result' = [success |-> success, swapped |-> swapped]
    BY DEF Finish, Idle
  <1> QED
    BY <1>1 DEF LoadedHasItsPlace, AfterLoad

\* A model that is saved, or a file that is cut short.
LEMMA TruncatedFiles ==
  ASSUME ModelTypes, Truncated \/ UNCHANGED <<forestFile, xgbFile>>
  PROVE  /\ forestFile' \in Model \cup {Torn} /\ xgbFile' \in Model \cup {Torn}
         /\ forestFile' # forestFile => rt.at = "saveForest"
         /\ xgbFile' # xgbFile => rt.at = "saveXgb" /\ xgbFile' = Torn
  BY DEF ModelTypes, Truncated

\* The step of a retrain after its training goes on to the next place.
LEMMA MovesOn ==
  ASSUME ModelTypes, NEW from \in AfterLoad, NEW to \in AfterLoad \ {"train"},
         Moves(from, to)
  PROVE  /\ rt.at = from /\ rt'.at = to /\ rt'.lines = rt.lines /\ rt'.normal = rt.normal
         /\ LoadedHasItsPlace' /\ result' = result
  <1>1. /\ rt.at = from /\ rt' = [rt EXCEPT !.at = to] /\ result' = result
        /\ LoadedHasItsPlace /\ to \in AfterLoad /\ to # "train"
    BY DEF Moves, ModelTypes
  <1> QED
    BY <1>1, LoadedIsKept

LEMMA ModelStays == TypeInv /\ [Next]_vars => ModelTypes'
  <1> SUFFICES ASSUME TypeInv, [Next]_vars PROVE ModelTypes'
    OBVIOUS
  <1>0. ModelTypes /\ MaxRetrains \in Nat /\ gen \in 0 .. MaxRetrains
    BY LearningAssumption DEF TypeInv, ModelTypes, LearningAssumption
  <1>1. CASE Retrain
    <2>1. rt' = [at |-> "load"] /\ gen < MaxRetrains
          /\ UNCHANGED <<gen, forest, xgb, forestFile, xgbFile, result, learnt, cut>>
      BY <1>1 DEF Retrain
    <2>2. LoadedHasItsPlace' /\ rt'.at = "load"
      BY <2>1 DEF LoadedHasItsPlace, AfterLoad
    <2> QED
      BY <1>0, <2>1, <2>2 DEF ModelTypes
  <1>2. CASE Load
    <2>1. rt.at = "load" /\ rt' = [at |-> "split", lines |-> store]
          /\ UNCHANGED <<gen, forest, xgb, forestFile, xgbFile, result, learnt, cut>>
      BY <1>2 DEF Load
    <2>2. LoadedHasItsPlace' /\ rt'.at = "split"
      BY <1>0, <2>1 DEF LoadedHasItsPlace, AfterLoad, ModelTypes, TypeInv, FlywheelTypes
    <2> QED
      BY <1>0, <2>1, <2>2 DEF ModelTypes
  <1>3. CASE Split
    <2>1. rt.at = "split"
          /\ UNCHANGED <<gen, forest, xgb, forestFile, xgbFile, learnt, cut>>
      BY <1>3 DEF Split
    <2>2. CASE Finish(FALSE, FALSE)
      BY <1>0, <2>1, <2>2, FinishType DEF ModelTypes
    <2>3. CASE ~Finish(FALSE, FALSE)
      <3>1. /\ rt' = [at |-> "train", lines |-> rt.lines, normal |-> Lines(Baseline),
                       anomalies |-> Lines(Sample \ Baseline)]
            /\ UNCHANGED result
        BY <1>3, <2>3 DEF Split
      <3>2. rt'.at = "train" /\ LoadedHasItsPlace'
        BY <1>0, <2>1, <3>1 DEF LoadedHasItsPlace, AfterLoad, ModelTypes
      <3> QED
        BY <1>0, <2>1, <3>1, <3>2 DEF ModelTypes, AfterLoad
    <2> QED
      BY <2>2, <2>3
  <1>4. CASE Train
    <2>1. rt.at = "train"
          /\ UNCHANGED <<forest, xgb, forestFile, xgbFile, learnt, cut>>
      BY <1>4 DEF Train
    <2>2. gen' \in 0 .. MaxRetrains
      <3>1. gen < MaxRetrains
        BY <1>0, <2>1 DEF ModelTypes, LoadedHasItsPlace
      <3>2. gen' = gen + 1 \/ gen' = gen
        BY <1>4 DEF Train
      <3> QED
        BY <1>0, <3>1, <3>2
    <2>3. CASE Finish(FALSE, FALSE) \/ Finish(TRUE, FALSE)
      BY <1>0, <2>1, <2>2, <2>3, FinishType DEF ModelTypes
    <2>4. CASE rt' = [rt EXCEPT !.at = "swapForest"] /\ UNCHANGED result
      <3>1. rt'.at = "swapForest" /\ LoadedHasItsPlace'
        BY <1>0, <2>1, <2>4, LoadedIsKept DEF ModelTypes, AfterLoad
      <3> QED
        BY <1>0, <2>1, <2>2, <2>4, <3>1 DEF ModelTypes, AfterLoad
    <2> QED
      BY <1>4, <2>3, <2>4 DEF Train
  <1>5. CASE SwapForest \/ SwapXgb \/ SaveForest \/ SaveXgb
    <2>1. LoadedHasItsPlace' /\ result' = result /\ rt'.at \in AfterLoad
      <3>1. \E from \in AfterLoad, to \in AfterLoad \ {"train"} : Moves(from, to)
        BY <1>5 DEF SwapForest, SwapXgb, SaveForest, SaveXgb, AfterLoad
      <3> QED
        BY <1>0, <3>1, MovesOn
    <2>2. UNCHANGED <<gen, cut>> /\ learnt' \subseteq Sample
      BY <1>0, <1>5 DEF SwapForest, SwapXgb, SaveForest, SaveXgb, ModelTypes
    <2>3. /\ forest' \in Model /\ xgb' \in Model
          /\ forestFile' \in Model \cup {Torn} /\ xgbFile' \in Model \cup {Torn}
      BY <1>0, <1>5, NewModels DEF SwapForest, SwapXgb, SaveForest, SaveXgb, ModelTypes
    <2> QED
      BY <1>0, <2>1, <2>2, <2>3 DEF ModelTypes
  <1>6. CASE UpdateStats
    <2>1. Finish(TRUE, TRUE)
          /\ UNCHANGED <<gen, forest, xgb, forestFile, xgbFile, learnt, cut>>
      BY <1>6 DEF UpdateStats
    <2> QED
      BY <1>0, <2>1, FinishType DEF ModelTypes
  <1>7. CASE SaveFails
    <2>1. Finish(FALSE, FALSE) /\ Truncated /\ cut' = TRUE
          /\ UNCHANGED <<gen, forest, xgb, learnt>>
      BY <1>7 DEF SaveFails
    <2> QED
      BY <1>0, <2>1, FinishType, TruncatedFiles DEF ModelTypes
  <1>8. CASE Die
    <2>1. rt' = [at |-> "idle"] /\ (Truncated \/ UNCHANGED <<forestFile, xgbFile>>)
          /\ UNCHANGED <<gen, forest, xgb, result, learnt>>
      BY <1>8 DEF Die, Idle
    <2>2. LoadedHasItsPlace' /\ rt'.at = "idle"
      BY <2>1 DEF LoadedHasItsPlace, AfterLoad
    <2>3. cut' \in BOOLEAN
      BY <1>8 DEF Die
    <2> QED
      BY <1>0, <2>1, <2>2, <2>3, TruncatedFiles DEF ModelTypes
  <1>9. CASE Restart
    <2>1. /\ Torn \notin {forestFile, xgbFile} /\ forest' = forestFile /\ xgb' = xgbFile
          /\ UNCHANGED <<rt, gen, forestFile, xgbFile, result, learnt, cut>>
      BY <1>9 DEF Restart
    <2> QED
      BY <1>0, <2>1 DEF ModelTypes, LoadedHasItsPlace
  <1>10. CASE WriteFails("worker")
    <2>1. Finish(FALSE, FALSE)
          /\ UNCHANGED <<gen, forest, xgb, forestFile, xgbFile, learnt, cut>>
      BY <1>10 DEF WriteFails
    <2> QED
      BY <1>0, <2>1, FinishType DEF ModelTypes
  <1>11. CASE UNCHANGED modelVars
    BY <1>0, <1>11 DEF ModelTypes, LoadedHasItsPlace, modelVars
  <1> QED
    BY <1>1, <1>2, <1>3, <1>4, <1>5, <1>6, <1>7, <1>8, <1>9, <1>10, <1>11, ModelSteppers

LEMMA HandlerStays == TypeInv /\ [Next]_vars => HandlerTypes'
  <1> SUFFICES ASSUME TypeInv, [Next]_vars PROVE HandlerTypes'
    OBVIOUS
  <1>1. HandlerTypes
    BY DEF TypeInv
  <1>2. faults' \in 0 .. MaxFaults
    <2>1. MaxFaults \in Nat /\ faults \in 0 .. MaxFaults
      BY <1>1, LearningAssumption DEF HandlerTypes, LearningAssumption
    <2> QED
      BY <2>1, FaultSteppers
  <1>3. up' \in BOOLEAN
    <2>1. \/ UNCHANGED up \/ Die \/ Restart
      BY DEF Next, Loop, Worker, Ingest, BeginScore, ClassifyMetric, Report, Reset, Retrain,
        WriteLine, CloseFile, ClearBuffer, Load, Split, Train, SwapForest, SwapXgb,
        SaveForest, SaveXgb, UpdateStats, WriteFails, SaveFails, vars
    <2> QED
      BY <1>1, <2>1 DEF HandlerTypes, Die, Restart
  <1>4. handler'.at \in {"idle", "ingest", "classify", "report"} /\ MetricInHand'
    <2>1. ASSUME NEW s \in Sample, Ingest(s)
          PROVE  handler'.at \in {"idle", "ingest"}
      BY <2>1 DEF Ingest, Idle
    <2>2. ASSUME NEW f \in Flow, NEW r \in Region, NEW rtt \in RTT, BeginScore(f, r, rtt)
          PROVE  /\ handler'.at = "classify" /\ handler'.flow \in Flow
                 /\ handler'.region \in Region /\ handler'.rtt \in RTT
      BY <2>2 DEF BeginScore
    <2>3. ASSUME ClassifyMetric PROVE handler'.at \in {"idle", "report"}
      BY <2>3 DEF ClassifyMetric, Idle
    <2>4. ASSUME Report \/ Die \/ ClearBuffer("loop") \/ WriteFails("loop")
          PROVE  handler'.at = "idle"
      BY <2>4 DEF Report, Die, ClearBuffer, WriteFails, Idle
    <2>5. ASSUME UNCHANGED handler
          PROVE  handler'.at \in {"idle", "ingest", "classify", "report"} /\ MetricInHand'
      BY <1>1, <2>5 DEF HandlerTypes, MetricInHand
    <2> QED
      BY <2>1, <2>2, <2>3, <2>4, <2>5, HandlerSteppers DEF MetricInHand
  <1> QED
    BY <1>2, <1>3, <1>4 DEF HandlerTypes

LEMMA TypesStay == TypeInv /\ [Next]_vars => TypeInv'
  BY ScoringStays, FlywheelStays, ModelStays, HandlerStays DEF TypeInv

LEMMA TypesAlways == Spec => []TypeInv
  BY LearningStarts, TypesStay, PTL DEF Spec

\* The buffer and the store, the models and their files, the handler and the
\* retrain, the windows and the arms keep their types. The flows that have a
\* window are never more than MaxFlows.
THEOREM TypeCorrect == Spec => []TypeOK
  BY TypesAlways, TypesAreTypes, PTL

\* Beside retrains, failures and restarts too every window holds the latest
\* metrics of its own flow, in order and without a gap.
THEOREM WindowsStaySuffixes == Spec => []WindowIsSuffix
  <1>1. TypeInv => WindowIsSuffix
    BY DEF TypeInv, ScoringInv
  <1> QED
    BY <1>1, TypesAlways, PTL

-----------------------------------------------------------------------------
\* The verdict.

\* A verdict for failover stands when the hint, the clamp of an unsure CRITICAL
\* and the answer for a short window are applied to what it was made from.
LEMMA AdjustmentsAreSafe ==
  ASSUME NEW a, NEW n, Failover(a.forest, ArgMax(a.p), a.lstm, a.weight)
  PROVE  Failover(a.forest, Classify(a.p, a.synFlood), Confidence(n, a.lstm), a.weight)
  <1>1. CASE a.forest >= 70 \/ (a.weight < 20 /\ a.forest >= 50)
    BY <1>1 DEF Failover
  <1>2. CASE ArgMax(a.p) >= DEGRADED /\ a.lstm >= 60
    <2>1. ArgMax(a.p) # 0
      BY <1>2 DEF DEGRADED
    <2>2. Hinted(a.p, a.synFlood) = a.p
      BY <2>1 DEF Hinted
    <2>3. Classify(a.p, a.synFlood) \in {ArgMax(a.p), DEGRADED}
      BY <2>2 DEF Classify
    <2>4. Classify(a.p, a.synFlood) >= DEGRADED
      BY <1>2, <2>3 DEF DEGRADED
    <2>5. Confidence(n, a.lstm) >= 60
      BY <1>2 DEF Confidence
    <2> QED
      BY <2>4, <2>5 DEF Failover
  <1> QED
    BY <1>1, <1>2 DEF Failover

\* Whatever the models answer, no adjustment of their answers withdraws a
\* failover.
THEOREM FailoversStand == Spec => []NoFailoverWithdrawn
  <1>1. Init => NoFailoverWithdrawn
    BY DEF Init, NoFailoverWithdrawn, Idle
  <1>2. NoFailoverWithdrawn /\ [Next]_vars => NoFailoverWithdrawn'
    <2> SUFFICES ASSUME NoFailoverWithdrawn, [Next]_vars, handler'.at = "report"
                 PROVE  handler'.asked => handler'.failover
      BY DEF NoFailoverWithdrawn
    <2>1. CASE UNCHANGED handler
      BY <2>1 DEF NoFailoverWithdrawn
    <2>2. CASE ClassifyMetric
      <3>1. PICK a \in Answer :
              LET n == Len(window'[handler.flow]) IN
              handler' = [at |-> "report", forest |-> handler.forest, xgb |-> xgb.gen,
                          asked |-> Failover(a.forest, ArgMax(a.p), a.lstm, a.weight),
                          failover |-> Failover(a.forest, Classify(a.p, a.synFlood),
                                                Confidence(n, a.lstm), a.weight)]
        BY <2>2 DEF ClassifyMetric, Idle
      <3> DEFINE n == Len(window'[handler.flow])
                 ask == Failover(a.forest, ArgMax(a.p), a.lstm, a.weight)
                 given == Failover(a.forest, Classify(a.p, a.synFlood),
                                   Confidence(n, a.lstm), a.weight)
      <3>2. handler'.asked = ask /\ handler'.failover = given
        BY <3>1
      <3>3. ask => given
        BY AdjustmentsAreSafe
      <3> QED
        BY <3>2, <3>3
    <2>3. ~(Report \/ Die \/ ClearBuffer("loop") \/ WriteFails("loop"))
      BY DEF Report, Die, ClearBuffer, WriteFails, Idle
    <2>4. ~\E s \in Sample : Ingest(s) /\ ~UNCHANGED handler
      BY DEF Ingest
    <2>5. ~\E f \in Flow, r \in Region, rtt \in RTT : BeginScore(f, r, rtt)
      BY DEF BeginScore
    <2> QED
      BY <2>1, <2>2, <2>3, <2>4, <2>5, HandlerSteppers
  <1> QED
    BY <1>1, <1>2, PTL DEF Spec

-----------------------------------------------------------------------------
\* The models and their files.

LEMMA ModelInit == Init => ModelInv
  <1> SUFFICES ASSUME Init PROVE ModelInv
    OBVIOUS
  <1>1. /\ rt.at = "idle" /\ up = TRUE /\ ~result.swapped /\ xgb = forest
        /\ forestFile = forest /\ xgbFile = forest /\ forest.gen = 0
    BY DEF Init, Idle
  <1>2. Torn # forestFile
    BY <1>1 DEF Torn
  <1> QED
    BY <1>1, <1>2 DEF ModelInv, SwapsInOrder, SwappedIsSaved, GatePassed, DownIsIdle,
      OneGeneration

\* A retrain that ends before its swap leaves the models and the files alone.
LEMMA EndsBeforeSwap ==
  ASSUME ModelInv, NEW success \in BOOLEAN, Finish(success, FALSE),
         rt.at \in {"load", "split", "train"},
         UNCHANGED <<forest, xgb, forestFile, xgbFile, cut, up>>
  PROVE  ModelInv'
  <1>1. rt'.at = "idle" /\ ~result'.swapped
    BY FinishType
  <1> QED
    BY <1>1 DEF ModelInv, SwapsInOrder, SwappedIsSaved, GatePassed, DownIsIdle, OneGeneration

\* So does one that goes on.
LEMMA GoesOnBeforeSwap ==
  ASSUME ModelInv, rt.at \in {"idle", "load", "split"}, rt'.at \in {"load", "split", "train"},
         up, UNCHANGED <<forest, xgb, forestFile, xgbFile, result, cut, up>>
  PROVE  ModelInv'
  BY DEF ModelInv, SwapsInOrder, SwappedIsSaved, GatePassed, DownIsIdle, OneGeneration

LEMMA ModelTrain == TypeInv /\ ModelInv /\ Train => ModelInv'
  <1> SUFFICES ASSUME TypeInv, ModelInv, Train PROVE ModelInv'
    OBVIOUS
  <1>1. rt.at = "train" /\ UNCHANGED <<forest, xgb, forestFile, xgbFile, cut, up>>
    BY DEF Train
  <1>2. CASE Finish(FALSE, FALSE) \/ Finish(TRUE, FALSE)
    BY <1>1, <1>2, EndsBeforeSwap
  <1>3. CASE GateMayPass /\ rt' = [rt EXCEPT !.at = "swapForest"] /\ UNCHANGED result
    <2>1. rt'.at = "swapForest" /\ rt'.normal = rt.normal
      BY <1>1, <1>3, LoadedIsKept DEF TypeInv, ModelTypes, AfterLoad
    <2> QED
      BY <1>1, <1>3, <2>1 DEF ModelInv, SwapsInOrder, SwappedIsSaved, GatePassed, DownIsIdle,
        OneGeneration, GateMayPass
  <1> QED
    BY <1>2, <1>3 DEF Train

\* The forest and the classifier are replaced one after the other.
LEMMA ModelSwaps == TypeInv /\ ModelInv /\ (SwapForest \/ SwapXgb) => ModelInv'
  <1> SUFFICES ASSUME TypeInv, ModelInv, SwapForest \/ SwapXgb PROVE ModelInv'
    OBVIOUS
  <1>0. ModelTypes
    BY DEF TypeInv
  <1>1. CASE SwapForest
    <2>1. Moves("swapForest", "swapXgb") /\ forest' = NewForest
          /\ UNCHANGED <<gen, xgb, forestFile, xgbFile, cut, up>>
      BY <1>1 DEF SwapForest
    <2>2. /\ rt.at = "swapForest" /\ rt'.at = "swapXgb" /\ rt'.normal = rt.normal
          /\ result' = result
      BY <1>0, <2>1, MovesOn DEF AfterLoad
    <2>3. NewForest' = NewForest
      BY <2>1, <2>2 DEF NewForest
    <2> QED
      BY <2>1, <2>2, <2>3 DEF ModelInv, SwapsInOrder, SwappedIsSaved, GatePassed, DownIsIdle,
        OneGeneration
  <1>2. CASE SwapXgb
    <2>1. Moves("swapXgb", "saveForest") /\ xgb' = NewXgb
          /\ UNCHANGED <<gen, forest, forestFile, xgbFile, cut, up>>
      BY <1>2 DEF SwapXgb
    <2>2. /\ rt.at = "swapXgb" /\ rt'.at = "saveForest" /\ rt'.normal = rt.normal
          /\ result' = result
      BY <1>0, <2>1, MovesOn DEF AfterLoad
    <2>3. NewForest' = NewForest /\ NewXgb' = NewXgb
      BY <2>1, <2>2 DEF NewForest, NewXgb
    <2>4. forest'.gen = xgb'.gen
      BY <1>0, <2>1, <2>2, NewModels DEF ModelInv, SwapsInOrder
    <2> QED
      BY <2>1, <2>2, <2>3, <2>4 DEF ModelInv, SwapsInOrder, SwappedIsSaved, GatePassed,
        DownIsIdle, OneGeneration
  <1> QED
    BY <1>1, <1>2

\* They are saved in the same order.
LEMMA ModelSaves ==
  TypeInv /\ ModelInv /\ (SaveForest \/ SaveXgb \/ UpdateStats) => ModelInv'
  <1> SUFFICES ASSUME TypeInv, ModelInv, SaveForest \/ SaveXgb \/ UpdateStats
               PROVE  ModelInv'
    OBVIOUS
  <1>0. ModelTypes
    BY DEF TypeInv
  <1>1. CASE SaveForest
    <2>1. Moves("saveForest", "saveXgb") /\ forestFile' = NewForest
          /\ UNCHANGED <<gen, forest, xgb, xgbFile, cut, up>>
      BY <1>1 DEF SaveForest
    <2>2. /\ rt.at = "saveForest" /\ rt'.at = "saveXgb" /\ rt'.normal = rt.normal
          /\ result' = result
      BY <1>0, <2>1, MovesOn DEF AfterLoad
    <2>3. NewForest' = NewForest /\ NewXgb' = NewXgb
      BY <2>1, <2>2 DEF NewForest, NewXgb
    <2>4. forest = NewForest /\ xgb = NewXgb
      BY <2>2 DEF ModelInv, SwapsInOrder
    <2>5. SwapsInOrder'
      BY <2>1, <2>2, <2>3, <2>4 DEF SwapsInOrder
    <2>6. OneGeneration'
      BY <2>1, <2>2 DEF ModelInv, OneGeneration
    <2> QED
      BY <2>1, <2>2, <2>5, <2>6 DEF ModelInv, SwappedIsSaved, GatePassed, DownIsIdle
  <1>2. CASE SaveXgb
    <2>1. Moves("saveXgb", "stats") /\ xgbFile' = NewXgb
          /\ UNCHANGED <<gen, forest, xgb, forestFile, cut, up>>
      BY <1>2 DEF SaveXgb
    <2>2. /\ rt.at = "saveXgb" /\ rt'.at = "stats" /\ rt'.normal = rt.normal
          /\ result' = result
      BY <1>0, <2>1, MovesOn DEF AfterLoad
    <2>3. NewForest' = NewForest /\ NewXgb' = NewXgb
      BY <2>1, <2>2 DEF NewForest, NewXgb
    <2>4. /\ forestFile = NewForest /\ forest = NewForest /\ xgb = NewXgb
          /\ NewForest # Torn /\ NewForest.gen = NewXgb.gen /\ NewXgb.trained
      BY <1>0, <2>2, NewModels DEF ModelInv, SwapsInOrder
    <2> QED
      BY <2>1, <2>2, <2>3, <2>4 DEF ModelInv, SwapsInOrder, SwappedIsSaved, GatePassed,
        DownIsIdle, OneGeneration
  <1>3. CASE UpdateStats
    <2>1. rt.at = "stats" /\ Finish(TRUE, TRUE)
          /\ UNCHANGED <<gen, forest, xgb, forestFile, xgbFile, cut, up>>
      BY <1>3 DEF UpdateStats
    <2>2. rt'.at = "idle"
      BY <2>1, FinishType
    <2>3. forestFile = forest /\ xgbFile = xgb /\ xgb.trained
      BY <1>0, <2>1, NewModels DEF ModelInv, SwapsInOrder
    <2> QED
      BY <2>1, <2>2, <2>3 DEF ModelInv, SwapsInOrder, SwappedIsSaved, GatePassed, DownIsIdle,
        OneGeneration
  <1> QED
    BY <1>1, <1>2, <1>3

\* A save that fails, or a death, leaves what a restart finds or cannot load.
LEMMA ModelBreaks == TypeInv /\ ModelInv /\ (SaveFails \/ Die \/ Restart) => ModelInv'
  <1> SUFFICES ASSUME TypeInv, ModelInv, SaveFails \/ Die \/ Restart PROVE ModelInv'
    OBVIOUS
  <1>0. ModelTypes
    BY DEF TypeInv
  <1>1. CASE SaveFails
    <2>1. Finish(FALSE, FALSE) /\ cut' = TRUE /\ up' = up
      BY <1>1 DEF SaveFails
    <2>2. rt'.at = "idle" /\ ~result'.swapped
      BY <2>1, FinishType
    <2> QED
      BY <2>1, <2>2 DEF ModelInv, SwapsInOrder, SwappedIsSaved, GatePassed, DownIsIdle,
        OneGeneration
  <1>2. CASE Die
    <2>1. /\ up' = FALSE /\ rt'.at = "idle" /\ (Truncated \/ UNCHANGED <<forestFile, xgbFile>>)
          /\ UNCHANGED <<forest, xgb, result>>
          /\ cut' = (cut \/ rt.at \in {"swapXgb", "saveForest", "saveXgb", "stats"})
      BY <1>2 DEF Die, Idle
    <2>2. /\ forestFile' # forestFile => rt.at = "saveForest"
          /\ xgbFile' # xgbFile => rt.at = "saveXgb" /\ xgbFile' = Torn
      BY <1>0, <2>1, TruncatedFiles
    <2>3. OneGeneration'
      BY <2>1, <2>2 DEF ModelInv, OneGeneration
    <2>4. SwappedIsSaved'
      BY <2>1, <2>2 DEF ModelInv, SwappedIsSaved
    <2> QED
      BY <2>1, <2>3, <2>4 DEF ModelInv, SwapsInOrder, GatePassed, DownIsIdle
  <1>3. CASE Restart
    <2>1. /\ ~up /\ Torn \notin {forestFile, xgbFile} /\ forest' = forestFile /\ xgb' = xgbFile
          /\ up' = TRUE /\ UNCHANGED <<rt, gen, forestFile, xgbFile, result, cut>>
      BY <1>3 DEF Restart
    <2>2. rt.at = "idle"
      BY <2>1 DEF ModelInv, DownIsIdle
    <2> QED
      BY <2>1, <2>2 DEF ModelInv, SwapsInOrder, SwappedIsSaved, GatePassed, DownIsIdle,
        OneGeneration
  <1> QED
    BY <1>1, <1>2, <1>3

LEMMA ModelNext == TypeInv /\ FlushHasItsCaller /\ ModelInv /\ [Next]_vars => ModelInv'
  <1> SUFFICES ASSUME TypeInv, FlushHasItsCaller, ModelInv, [Next]_vars PROVE ModelInv'
    OBVIOUS
  <1>0. ~up => rt.at = "idle"
    BY DEF ModelInv, DownIsIdle
  <1>1. CASE Retrain
    <2>1. /\ up /\ rt.at = "idle" /\ rt'.at = "load"
          /\ UNCHANGED <<forest, xgb, forestFile, xgbFile, result, cut, up>>
      BY <1>1 DEF Retrain, Idle
    <2> QED
      BY <2>1, GoesOnBeforeSwap
  <1>2. CASE Load
    <2>1. /\ rt.at = "load" /\ rt'.at = "split"
          /\ UNCHANGED <<forest, xgb, forestFile, xgbFile, result, cut, up>>
      BY <1>2 DEF Load
    <2> QED
      BY <1>0, <2>1, GoesOnBeforeSwap
  <1>3. CASE Split
    <2>1. rt.at = "split" /\ UNCHANGED <<forest, xgb, forestFile, xgbFile, cut, up>>
      BY <1>3 DEF Split
    <2>2. CASE Finish(FALSE, FALSE)
      BY <2>1, <2>2, EndsBeforeSwap
    <2>3. CASE ~Finish(FALSE, FALSE)
      <3>1. /\ rt' = [at |-> "train", lines |-> rt.lines, normal |-> Lines(Baseline),
                       anomalies |-> Lines(Sample \ Baseline)]
            /\ UNCHANGED result
        BY <1>3, <2>3 DEF Split
      <3>2. rt'.at = "train"
        BY <3>1
      <3> QED
        BY <1>0, <2>1, <3>1, <3>2, GoesOnBeforeSwap
    <2> QED
      BY <2>2, <2>3
  <1>4. CASE WriteFails("worker")
    <2>1. /\ rt.at \in {"load", "split"} /\ Finish(FALSE, FALSE)
          /\ UNCHANGED <<forest, xgb, forestFile, xgbFile, cut, up>>
      BY <1>4 DEF WriteFails, FlushHasItsCaller
    <2> QED
      BY <2>1, EndsBeforeSwap
  <1>5. CASE UNCHANGED <<modelVars, up>>
    BY <1>5 DEF modelVars, ModelInv, SwapsInOrder, SwappedIsSaved, GatePassed, DownIsIdle,
      OneGeneration, NewForest, NewXgb
  <1> QED
    BY <1>1, <1>2, <1>3, <1>4, <1>5, ModelTrain, ModelSwaps, ModelSaves, ModelBreaks,
      ModelSteppers

-----------------------------------------------------------------------------
\* The buffer and the store.

LEMMA FlushInit == Init => FlushInv
  <1> SUFFICES ASSUME Init PROVE FlushInv
    OBVIOUS
  <1>1. buffer = <<>> /\ flush["loop"] = NotFlushing /\ flush["worker"] = NotFlushing
    BY DEF Init, Thread
  <1>2. ~\E n \in 1 .. Len(buffer) : TRUE
    BY <1>1
  <1> QED
    BY <1>1, <1>2 DEF FlushInv, FlushHasItsCaller, BufferIsLived, PassedIsStored, AheadIsNew,
      Flushing

LEMMA TwoThreads ==
  /\ Thread = {"loop", "worker"} /\ "loop" # "worker"
  /\ NotFlushing = 0 /\ Written = -1
  BY DEF Thread, NotFlushing, Written

\* What the steps of a flush do to it, and who takes them.
LEMMA CallersStay ==
  TypeInv /\ FlushHasItsCaller /\ [Next]_vars => FlushHasItsCaller'
  <1> SUFFICES ASSUME TypeInv, FlushHasItsCaller, [Next]_vars PROVE FlushHasItsCaller'
    OBVIOUS
  <1>0. FlywheelTypes /\ flush \in [Thread -> Int]
    BY DEF TypeInv, FlywheelTypes
  <1>1. Flushing("loop")' => handler'.at = "ingest"
    <2>1. ASSUME NEW s \in Sample, Ingest(s) PROVE Flushing("loop")' => handler'.at = "ingest"
      <3>1. CASE handler' = [at |-> "ingest"]
        BY <3>1
      <3>2. CASE UNCHANGED <<flush, handler>>
        BY <3>2 DEF FlushHasItsCaller, Flushing
      <3> QED
        BY <2>1, <3>1, <3>2 DEF Ingest
    <2>2. ASSUME NEW t \in Thread, CloseFile(t) \/ ClearBuffer(t) \/ WriteFails(t)
          PROVE  Flushing("loop")' => handler'.at = "ingest"
      <3>1. CASE t = "loop"
        BY <1>0, <2>2, <3>1, FlushMoves, TwoThreads DEF CloseFile, ClearBuffer, WriteFails,
          FlushHasItsCaller, Flushing
      <3>2. CASE t = "worker"
        BY <1>0, <2>2, <3>2, FlushMoves, TwoThreads DEF CloseFile, ClearBuffer, WriteFails,
          FlushHasItsCaller, Flushing
      <3> QED
        BY <3>1, <3>2 DEF Thread
    <2>3. ASSUME NEW t \in Thread, WriteLine(t)
          PROVE  Flushing("loop")' => handler'.at = "ingest"
      <3>1. handler' = handler /\ flush[t] # 0
        BY <1>0, <2>3, WriteLineStores DEF WriteLine
      <3>2. Flushing("loop")' => Flushing("loop")
        BY <1>0, <2>3, <3>1, WriteLineStores DEF Flushing, NotFlushing, Thread
      <3> QED
        BY <3>1, <3>2 DEF FlushHasItsCaller
    <2>4. CASE Retrain \/ Load
      BY <1>0, <2>4, StartFlushType, TwoThreads DEF Retrain, Load, FlushHasItsCaller, Flushing
    <2>5. CASE UpdateStats
      BY <2>5 DEF UpdateStats, FlushHasItsCaller, Flushing
    <2>6. CASE Die
      BY <2>6 DEF Die, Flushing, Thread
    <2>7. ASSUME UNCHANGED flywheelVars, handler' # handler
          PROVE  ~Flushing("loop")'
      <3>1. ~Flushing("loop")
        <4>1. \/ (\E s \in Sample : Ingest(s))
              \/ (\E f \in Flow, r \in Region, rtt \in RTT : BeginScore(f, r, rtt))
              \/ ClassifyMetric \/ Report \/ Die \/ ClearBuffer("loop") \/ WriteFails("loop")
          BY <2>7, HandlerSteppers
        <4>2. CASE \E s \in Sample : Ingest(s)
          BY <4>2 DEF Ingest, Idle, FlushHasItsCaller
        <4>3. CASE \E f \in Flow, r \in Region, rtt \in RTT : BeginScore(f, r, rtt)
          BY <4>3 DEF BeginScore, Idle, FlushHasItsCaller
        <4>4. CASE ClassifyMetric \/ Report
          BY <4>4 DEF ClassifyMetric, Report, FlushHasItsCaller
        <4>5. CASE Die
          BY <2>7, <4>5 DEF Die, flywheelVars, Flushing, Thread
        <4>6. CASE ClearBuffer("loop") \/ WriteFails("loop")
          <5>1. flush'["loop"] = NotFlushing
            BY <1>0, <4>6, FlushMoves DEF Thread
          <5> QED
            BY <2>7, <5>1 DEF flywheelVars, Flushing
        <4> QED
          BY <4>1, <4>2, <4>3, <4>4, <4>5, <4>6
      <3> QED
        BY <2>7, <3>1 DEF Flushing, flywheelVars
    <2>8. CASE UNCHANGED flywheelVars /\ handler' = handler
      BY <2>8 DEF FlushHasItsCaller, Flushing, flywheelVars
    <2> QED
      BY <2>1, <2>2, <2>3, <2>4, <2>5, <2>6, <2>7, <2>8, FlywheelSteppers
  <1>2. Flushing("worker")' => rt'.at \in {"load", "split"}
    <2>1. ASSUME NEW s \in Sample, Ingest(s) PROVE Flushing("worker")' => rt'.at \in {"load", "split"}
      <3>1. rt' = rt /\ (StartFlush("loop", buffer') \/ UNCHANGED flush)
        BY <2>1 DEF Ingest, modelVars
      <3>2. flush'["worker"] = flush["worker"]
        BY <1>0, <3>1, StartFlushType, TwoThreads
      <3> QED
        BY <3>1, <3>2 DEF FlushHasItsCaller, Flushing
    <2>2. ASSUME NEW t \in Thread, CloseFile(t) \/ ClearBuffer(t) \/ WriteFails(t)
          PROVE  Flushing("worker")' => rt'.at \in {"load", "split"}
      <3>1. CASE t = "loop"
        <4>1. rt' = rt
          BY <2>2, <3>1 DEF CloseFile, ClearBuffer, WriteFails, modelVars
        <4>2. flush'["worker"] = flush["worker"]
          BY <1>0, <2>2, <3>1, FlushMoves, TwoThreads
        <4> QED
          BY <4>1, <4>2 DEF FlushHasItsCaller, Flushing
      <3>2. CASE t = "worker"
        <4>1. CASE CloseFile(t)
          <5>1. rt' = rt
            BY <4>1 DEF CloseFile, modelVars
          <5>2. flush["worker"] > Len(buffer)
            BY <1>0, <3>2, <4>1, FlushMoves, TwoThreads
          <5>3. Flushing("worker")
            BY <1>0, <5>2, TwoThreads DEF Flushing, FlywheelTypes
          <5> QED
            BY <5>1, <5>3 DEF FlushHasItsCaller
        <4>2. CASE ClearBuffer(t) \/ WriteFails(t)
          BY <1>0, <3>2, <4>2, FlushMoves, TwoThreads DEF Flushing
        <4> QED
          BY <2>2, <4>1, <4>2
      <3> QED
        BY <3>1, <3>2 DEF Thread
    <2>3. ASSUME NEW t \in Thread, WriteLine(t)
          PROVE  Flushing("worker")' => rt'.at \in {"load", "split"}
      <3>1. rt' = rt /\ flush[t] # 0
        BY <1>0, <2>3, WriteLineStores DEF WriteLine, modelVars
      <3>2. Flushing("worker")' => Flushing("worker")
        BY <1>0, <2>3, <3>1, WriteLineStores DEF Flushing, NotFlushing, Thread
      <3> QED
        BY <3>1, <3>2 DEF FlushHasItsCaller
    <2>4. CASE Retrain \/ Load
      BY <2>4 DEF Retrain, Load
    <2>5. CASE UpdateStats
      BY <2>5 DEF UpdateStats, FlushHasItsCaller, Flushing
    <2>6. CASE Die
      BY <2>6 DEF Die, Flushing, Thread
    <2>7. ASSUME UNCHANGED flywheelVars, rt' # rt
          PROVE  ~Flushing("worker")'
      <3>1. ~Flushing("worker")
        <4>1. \/ Retrain \/ Load \/ Split \/ Train \/ SwapForest \/ SwapXgb \/ SaveForest
              \/ SaveXgb \/ UpdateStats \/ SaveFails \/ Die \/ Restart \/ WriteFails("worker")
          BY <2>7, ModelSteppers DEF modelVars
        <4>2. CASE Retrain
          BY <4>2 DEF Retrain, FlushHasItsCaller, Idle
        <4>3. CASE Load \/ Split
          BY <4>3 DEF Load, Split
        <4>4. CASE Train \/ UpdateStats \/ SaveFails
          BY <4>4 DEF Train, UpdateStats, SaveFails, FlushHasItsCaller
        <4>5. CASE SwapForest \/ SwapXgb \/ SaveForest \/ SaveXgb
          BY <4>5 DEF SwapForest, SwapXgb, SaveForest, SaveXgb, Moves, FlushHasItsCaller
        <4>6. CASE Die
          BY <2>7, <4>6 DEF Die, flywheelVars, Flushing, Thread
        <4>7. CASE Restart
          BY <2>7, <4>7 DEF Restart
        <4>8. CASE WriteFails("worker")
          <5>1. flush'["worker"] = NotFlushing
            BY <1>0, <4>8, FlushMoves DEF Thread
          <5> QED
            BY <2>7, <5>1 DEF flywheelVars, Flushing
        <4> QED
          BY <4>1, <4>2, <4>3, <4>4, <4>5, <4>6, <4>7, <4>8
      <3> QED
        BY <2>7, <3>1 DEF Flushing, flywheelVars
    <2>8. CASE UNCHANGED flywheelVars /\ rt' = rt
      BY <2>8 DEF FlushHasItsCaller, Flushing, flywheelVars
    <2> QED
      BY <2>1, <2>2, <2>3, <2>4, <2>5, <2>6, <2>7, <2>8, FlywheelSteppers
  <1> QED
    BY <1>1, <1>2 DEF FlushHasItsCaller

\* The buffer stays without doubles.
LEMMA BufferStaysLived == TypeInv /\ BufferIsLived /\ [Next]_vars => BufferIsLived'
  <1> SUFFICES ASSUME TypeInv, BufferIsLived, [Next]_vars PROVE BufferIsLived'
    OBVIOUS
  <1>0. FlywheelTypes
    BY DEF TypeInv
  <1>1. CASE UNCHANGED <<buffer, lived>>
    BY <1>1 DEF BufferIsLived
  <1>2. CASE buffer' = <<>>
    <2>1. ~\E n \in 1 .. Len(buffer') : TRUE
      BY <1>2
    <2> QED
      BY <2>1 DEF BufferIsLived
  <1>3. ASSUME NEW s \in Sample, Ingest(s) PROVE BufferIsLived'
    <2>1. buffer' = Append(buffer, s) /\ lived' = lived \cup {s} /\ s \notin lived
      BY <1>3 DEF Ingest
    <2>2. /\ Len(buffer) \in Nat /\ Len(buffer') = Len(buffer) + 1
          /\ \A n \in 1 .. Len(buffer) : buffer'[n] = buffer[n]
          /\ buffer'[Len(buffer) + 1] = s
      BY <1>0, <2>1 DEF FlywheelTypes
    <2>3. \A n \in 1 .. Len(buffer') : n \in 1 .. Len(buffer) \/ n = Len(buffer) + 1
      BY <2>2
    <2> QED
      BY <2>1, <2>2, <2>3 DEF BufferIsLived
  <1>4. UNCHANGED lived \/ (\E s \in Sample : Ingest(s)) \/ buffer' = <<>>
    BY <1>0, FlywheelSteppers, FlushMoves DEF Retrain, Load, UpdateStats, Die, flywheelVars, WriteLine
  <1>5. UNCHANGED buffer \/ (\E s \in Sample : Ingest(s)) \/ buffer' = <<>>
    BY <1>0, FlywheelSteppers, FlushMoves DEF Retrain, Load, UpdateStats, Die, flywheelVars, WriteLine
  <1> QED
    BY <1>1, <1>2, <1>3, <1>4, <1>5

\* The steps that may break what the file and the buffer have to do with one
\* another: all others leave both and the flushes alone.
LEMMA FlushSteps ==
  TypeInv /\ FlushHasItsCaller /\ [Next]_vars =>
    \/ \E s \in Sample : Ingest(s)
    \/ \E t \in Thread : WriteLine(t)
    \/ \E t \in Thread : CloseFile(t)
    \/ StartFlush("worker", buffer) /\ ~Flushing("worker") /\ UNCHANGED <<buffer, store, faults>>
    \/ buffer' = <<>> \/ faults' # 0
    \/ UNCHANGED <<buffer, store, flush, faults>>
  <1> SUFFICES ASSUME TypeInv, FlushHasItsCaller, [Next]_vars
               PROVE  \/ \E s \in Sample : Ingest(s)
                      \/ \E t \in Thread : WriteLine(t)
                      \/ \E t \in Thread : CloseFile(t)
                      \/ /\ StartFlush("worker", buffer) /\ ~Flushing("worker")
                         /\ UNCHANGED <<buffer, store, faults>>
                      \/ buffer' = <<>> \/ faults' # 0
                      \/ UNCHANGED <<buffer, store, flush, faults>>
    OBVIOUS
  <1>0. faults \in Nat
    BY DEF TypeInv, HandlerTypes
  <1>1. CASE UNCHANGED flywheelVars
    BY <1>0, <1>1, FaultSteppers DEF flywheelVars, WriteFails, SaveFails, Die
  <1>2. CASE Die
    BY <1>2 DEF Die
  <1>3. ASSUME NEW t \in Thread, ClearBuffer(t) \/ WriteFails(t)
        PROVE  buffer' = <<>> \/ faults' # 0
    <2>1. WriteFails(t) => faults' = faults + 1
      BY DEF WriteFails
    <2> QED
      BY <1>0, <1>3, <2>1 DEF ClearBuffer
  <1>4. CASE UpdateStats
    BY <1>4 DEF UpdateStats
  <1>5. CASE Load
    BY <1>5 DEF Load
  <1>6. CASE Retrain
    BY <1>6 DEF Retrain, Idle, FlushHasItsCaller
  <1> QED
    BY <1>1, <1>2, <1>3, <1>4, <1>5, <1>6, FlywheelSteppers

\* A thread that flushes alone writes what was not in the file, and what the
\* event loop has passed stays there.
LEMMA StoreStays == TypeInv /\ FlushInv /\ [Next]_vars => PassedIsStored' /\ AheadIsNew'
  <1> SUFFICES ASSUME TypeInv, FlushInv, [Next]_vars PROVE PassedIsStored' /\ AheadIsNew'
    OBVIOUS
  <1>0. /\ FlywheelTypes /\ PassedIsStored /\ AheadIsNew /\ FlushHasItsCaller /\ BufferIsLived
        /\ buffer \in Seq(Sample) /\ Len(buffer) \in Nat /\ flush \in [Thread -> Int]
        /\ store \in [Sample -> Nat]
        /\ \A n \in 1 .. Len(buffer) : buffer[n] \in Sample
        /\ faults \in Nat /\ faults' \in {faults, faults + 1}
    BY FaultSteppers DEF TypeInv, FlywheelTypes, FlushInv, HandlerTypes
  <1>1. ASSUME NEW s \in Sample, Ingest(s) PROVE PassedIsStored' /\ AheadIsNew'
    <2>1. /\ buffer' = Append(buffer, s) /\ store[s] = 0 /\ UNCHANGED <<store, faults>>
          /\ flush["loop"] = NotFlushing
      BY <1>0, <1>1 DEF Ingest, Idle, FlushHasItsCaller, Flushing
    <2>2. /\ Len(buffer') = Len(buffer) + 1
          /\ \A n \in 1 .. Len(buffer) : buffer'[n] = buffer[n]
          /\ buffer'[Len(buffer) + 1] = s
      BY <1>0, <2>1
    <2>3. \A n \in 1 .. Len(buffer') : n \in 1 .. Len(buffer) \/ n = Len(buffer) + 1
      BY <1>0, <2>2
    <2>4. flush'["loop"] \in {0, 1} /\ flush'["worker"] = flush["worker"]
      <3>1. CASE StartFlush("loop", buffer')
        BY <1>0, <3>1, StartFlushType, TwoThreads
      <3>2. CASE UNCHANGED flush
        BY <2>1, <3>2, TwoThreads
      <3> QED
        BY <1>1, <3>1, <3>2 DEF Ingest
    <2>5. PassedIsStored'
      <3>1. \A n \in 1 .. Len(buffer') : ~(flush'["loop"] = Written \/ n < flush'["loop"])
        BY <2>4, TwoThreads
      <3> QED
        BY <3>1 DEF PassedIsStored
    <2>6. AheadIsNew'
      <3> SUFFICES ASSUME faults' = 0, NEW t \in Thread, NEW u \in Thread,
                          NEW n \in 1 .. Len(buffer'), t # u, ~Flushing(u)',
                          flush'[t] # Written, n >= flush'[t]
                   PROVE  store'[buffer'[n]] = 0
        BY DEF AheadIsNew
      <3>1. CASE n = Len(buffer) + 1
        BY <2>1, <2>2, <3>1
      <3>2. CASE n \in 1 .. Len(buffer) /\ t = "loop"
        <4>1. u = "worker" /\ ~Flushing(u)
          BY <2>4, <3>2, TwoThreads DEF Flushing
        <4>2. flush[t] # Written /\ n >= flush[t]
          BY <2>1, <3>2, TwoThreads
        <4> QED
          BY <1>0, <2>1, <2>2, <3>2, <4>1, <4>2 DEF AheadIsNew
      <3>3. CASE n \in 1 .. Len(buffer) /\ t = "worker"
        <4>1. u = "loop" /\ ~Flushing(u)
          BY <2>1, <3>3, TwoThreads DEF Flushing
        <4>2. flush[t] # Written /\ n >= flush[t]
          BY <2>4, <3>3, TwoThreads
        <4> QED
          BY <1>0, <2>1, <2>2, <3>3, <4>1, <4>2 DEF AheadIsNew
      <3> QED
        BY <2>3, <3>1, <3>2, <3>3, TwoThreads
    <2> QED
      BY <2>5, <2>6
  <1>2. ASSUME NEW t \in Thread, WriteLine(t) PROVE PassedIsStored' /\ AheadIsNew'
    <2>1. UNCHANGED <<buffer, faults>>
      BY <1>2 DEF WriteLine
    <2>2. /\ flush[t] \in 1 .. Len(buffer) /\ flush'[t] = flush[t] + 1
          /\ \A u \in Thread : u # t => flush'[u] = flush[u]
          /\ \A s \in Sample : store'[s] >= store[s]
          /\ store' \in [Sample -> Nat]
      BY <1>0, <1>2, WriteLineStores
    <2>3. Flushing(t) /\ Flushing(t)' /\ flush'[t] # Written
      BY <2>2, TwoThreads DEF Flushing
    <2>4. ASSUME NEW u \in Thread, u # t, ~Flushing(u)
          PROVE  /\ store'[buffer[flush[t]]] > 0
                 /\ \A n \in 1 .. Len(buffer) : n # flush[t] => store'[buffer[n]] = store[buffer[n]]
      <3>1. /\ store'[buffer[flush[t]]] = store[buffer[flush[t]]] + 1
            /\ \A s \in Sample : s # buffer[flush[t]] => store'[s] = store[s]
        BY <1>0, <1>2, <2>4, WriteLineStores
      <3>2. store[buffer[flush[t]]] \in Nat
        BY <1>0, <2>2
      <3>3. \A n \in 1 .. Len(buffer) : n # flush[t] => buffer[n] # buffer[flush[t]]
        BY <1>0, <2>2 DEF BufferIsLived
      <3> QED
        BY <1>0, <3>1, <3>2, <3>3
    <2>5. PassedIsStored'
      <3> SUFFICES ASSUME faults' = 0, ~Flushing("worker")', NEW n \in 1 .. Len(buffer),
                          flush'["loop"] = Written \/ n < flush'["loop"]
                   PROVE  store'[buffer[n]] > 0
        BY <2>1 DEF PassedIsStored
      <3>1. t = "loop" /\ ~Flushing("worker")
        BY <2>2, <2>3, TwoThreads DEF Flushing
      <3>2. CASE n = flush["loop"]
        BY <2>4, <3>1, <3>2, TwoThreads
      <3>3. CASE n # flush["loop"]
        <4>1. n < flush["loop"]
          BY <2>2, <2>3, <3>1, <3>3
        <4>2. store[buffer[n]] > 0
          BY <1>0, <2>1, <3>1, <4>1 DEF PassedIsStored
        <4>3. store'[buffer[n]] = store[buffer[n]]
          BY <2>4, <3>1, <3>3, TwoThreads
        <4> QED
          BY <4>2, <4>3
      <3> QED
        BY <3>2, <3>3
    <2>6. AheadIsNew'
      <3> SUFFICES ASSUME faults' = 0, NEW a \in Thread, NEW u \in Thread,
                          NEW n \in 1 .. Len(buffer), a # u, ~Flushing(u)',
                          flush'[a] # Written, n >= flush'[a]
                   PROVE  store'[buffer[n]] = 0
        BY <2>1 DEF AheadIsNew
      <3>1. a = t /\ ~Flushing(u)
        BY <2>2, <2>3, TwoThreads DEF Flushing
      <3>2. n > flush[t] /\ flush[t] # Written
        BY <2>2, <3>1, TwoThreads
      <3>3. store[buffer[n]] = 0
        BY <1>0, <2>1, <2>2, <3>1, <3>2 DEF AheadIsNew
      <3>4. store'[buffer[n]] = store[buffer[n]]
        BY <2>2, <2>4, <3>1, <3>2
      <3> QED
        BY <3>3, <3>4
    <2> QED
      BY <2>5, <2>6
  <1>3. ASSUME NEW t \in Thread, CloseFile(t) PROVE PassedIsStored' /\ AheadIsNew'
    <2>1. UNCHANGED <<buffer, store, faults>>
      BY <1>3 DEF CloseFile
    <2>2. /\ flush'[t] = Written /\ flush[t] > Len(buffer)
          /\ \A u \in Thread : u # t => flush'[u] = flush[u]
      BY <1>0, <1>3, FlushMoves
    <2>3. Flushing(t)'
      BY <2>2, TwoThreads DEF Flushing
    <2>4. PassedIsStored'
      <3> SUFFICES ASSUME faults' = 0, ~Flushing("worker")', NEW n \in 1 .. Len(buffer)
                   PROVE  store[buffer[n]] > 0
        BY <2>1 DEF PassedIsStored
      <3>1. t = "loop" /\ ~Flushing("worker")
        BY <2>2, <2>3, TwoThreads DEF Flushing
      <3>2. n < flush["loop"]
        BY <1>0, <2>2, <3>1, TwoThreads
      <3> QED
        BY <1>0, <2>1, <3>1, <3>2 DEF PassedIsStored
    <2>5. AheadIsNew'
      <3> SUFFICES ASSUME faults' = 0, NEW a \in Thread, NEW u \in Thread,
                          NEW n \in 1 .. Len(buffer), a # u, ~Flushing(u)',
                          flush'[a] # Written, n >= flush'[a]
                   PROVE  FALSE
        BY <2>1 DEF AheadIsNew
      <3> QED
        BY <2>2, <2>3, TwoThreads
    <2> QED
      BY <2>4, <2>5
  <1>4. CASE StartFlush("worker", buffer) /\ ~Flushing("worker") /\ UNCHANGED <<buffer, store, faults>>
    <2>1. CASE buffer = <<>>
      <3>1. ~\E n \in 1 .. Len(buffer') : TRUE
        BY <1>4, <2>1
      <3> QED
        BY <3>1 DEF PassedIsStored, AheadIsNew
    <2>2. CASE buffer # <<>>
      <3>1. flush'["worker"] = 1 /\ flush'["loop"] = flush["loop"]
        BY <1>0, <1>4, <2>2, StartFlushType, TwoThreads
      <3>2. Flushing("worker")'
        BY <3>1, TwoThreads DEF Flushing
      <3>3. AheadIsNew'
        <4> SUFFICES ASSUME faults' = 0, NEW a \in Thread, NEW u \in Thread,
                            NEW n \in 1 .. Len(buffer), a # u, ~Flushing(u)'
                     PROVE  store[buffer[n]] = 0
          BY <1>4 DEF AheadIsNew
        <4>1. u = "loop" /\ a = "worker" /\ ~Flushing(u)
          BY <3>1, <3>2, TwoThreads DEF Flushing
        <4>2. flush[a] # Written /\ n >= flush[a]
          BY <1>4, <4>1, TwoThreads DEF Flushing
        <4> QED
          BY <1>0, <1>4, <4>1, <4>2 DEF AheadIsNew
      <3> QED
        BY <3>2, <3>3 DEF PassedIsStored
    <2> QED
      BY <2>1, <2>2
  <1>5. CASE buffer' = <<>>
    <2>1. ~\E n \in 1 .. Len(buffer') : TRUE
      BY <1>5
    <2> QED
      BY <2>1 DEF PassedIsStored, AheadIsNew
  <1>6. CASE faults' # 0
    BY <1>6 DEF PassedIsStored, AheadIsNew
  <1>7. CASE UNCHANGED <<buffer, store, flush, faults>>
    BY <1>0, <1>7 DEF PassedIsStored, AheadIsNew, Flushing
  <1> QED
    BY <1>0, <1>1, <1>2, <1>3, <1>4, <1>5, <1>6, <1>7, FlushSteps

LEMMA FlushAlways == Spec => [](TypeInv /\ FlushInv)
  <1>1. Init => TypeInv /\ FlushInv
    BY LearningStarts, FlushInit
  <1>2. TypeInv /\ FlushInv /\ [Next]_vars => (TypeInv /\ FlushInv)'
    BY TypesStay, CallersStay, BufferStaysLived, StoreStays DEF FlushInv
  <1> QED
    BY <1>1, <1>2, PTL DEF Spec

LEMMA LossSteps ==
  TypeInv /\ FlushInv /\ [Next]_vars =>
    \A s \in Sample : Held(s) /\ ~Held(s)' => Flushing("worker") \/ faults' > 0
  <1> SUFFICES ASSUME TypeInv, FlushInv, [Next]_vars, NEW s \in Sample,
                      Held(s), ~Held(s)', ~Flushing("worker")
               PROVE  faults' > 0
    OBVIOUS
  <1>0. /\ FlywheelTypes /\ PassedIsStored /\ faults \in Nat /\ faults' \in {faults, faults + 1}
        /\ buffer \in Seq(Sample) /\ Len(buffer) \in Nat
        /\ flush \in [Thread -> Int] /\ store \in [Sample -> Nat]
    BY FaultSteppers DEF TypeInv, FlywheelTypes, FlushInv, HandlerTypes
  <1>1. ~UNCHANGED <<buffer, store>>
    BY DEF Held
  <1>2. ASSUME NEW t \in Sample, Ingest(t) PROVE FALSE
    <2>1. buffer' = Append(buffer, t) /\ store' = store
      BY <1>2 DEF Ingest
    <2>2. \A n \in 1 .. Len(buffer) : n \in 1 .. Len(buffer') /\ buffer'[n] = buffer[n]
      BY <1>0, <2>1
    <2> QED
      BY <2>1, <2>2 DEF Held
  <1>3. ASSUME NEW t \in Thread, WriteLine(t) PROVE FALSE
    <2>1. buffer' = buffer
      BY <1>3 DEF WriteLine
    <2>2. store'[s] >= store[s] /\ store'[s] \in Nat
      BY <1>0, <1>3, WriteLineStores
    <2> QED
      BY <1>0, <2>1, <2>2 DEF Held
  <1>4. ASSUME NEW t \in Thread, CloseFile(t) PROVE FALSE
    BY <1>1, <1>4 DEF CloseFile
  <1>5. ASSUME NEW t \in Thread, ClearBuffer(t), faults = 0 PROVE FALSE
    <2>1. flush[t] = Written /\ store' = store
      BY <1>5 DEF ClearBuffer
    <2>2. flush["loop"] = Written
      BY <2>1, TwoThreads DEF Flushing
    <2>3. \A n \in 1 .. Len(buffer) : store[buffer[n]] > 0
      BY <1>0, <1>5, <2>2 DEF PassedIsStored
    <2>4. store[s] > 0
      BY <2>3 DEF Held
    <2> QED
      BY <2>1, <2>4 DEF Held
  <1>6. ASSUME NEW t \in Thread, WriteFails(t) PROVE faults' > 0
    BY <1>0, <1>6 DEF WriteFails
  <1>7. CASE Die
    BY <1>0, <1>7 DEF Die
  <1>8. ~(Retrain \/ Load \/ UpdateStats \/ UNCHANGED flywheelVars)
    BY <1>1 DEF Retrain, Load, UpdateStats, flywheelVars
  <1>9. ASSUME NEW t \in Thread, ClearBuffer(t) PROVE faults' > 0
    BY <1>0, <1>5, <1>9
  <1> QED
    BY <1>2, <1>3, <1>4, <1>6, <1>7, <1>8, <1>9, FlywheelSteppers

\* Only faults and a flush of the retrain's thread take a sample that was
\* ingested out of the buffer and the file (LostOnlyBesideARetrain): without
\* them, _flush_buffer clears a list of which every entry is written.
THEOREM LossesAreExplained == Spec => LostOnlyBesideARetrain
  <1>1. TypeInv /\ FlushInv /\ [Next]_vars =>
          [\A s \in Sample : Held(s) /\ ~Held(s)' => Flushing("worker") \/ faults' > 0]_vars
    BY LossSteps
  <1> QED
    BY <1>1, FlushAlways, PTL DEF Spec, LostOnlyBesideARetrain

LEMMA SecondLineSteps ==
  TypeInv /\ FlushInv /\ [Next]_vars =>
    \A s \in Sample : store[s] > 0 /\ store'[s] > store[s] =>
      (\A t \in Thread : Flushing(t)) \/ faults > 0
  <1> SUFFICES ASSUME TypeInv, FlushInv, [Next]_vars, NEW s \in Sample,
                      store[s] > 0, store'[s] > store[s], NEW u \in Thread, ~Flushing(u)
               PROVE  faults > 0
    OBVIOUS
  <1>0. /\ FlywheelTypes /\ AheadIsNew /\ faults \in Nat
        /\ flush \in [Thread -> Int] /\ store \in [Sample -> Nat]
    BY DEF TypeInv, FlywheelTypes, FlushInv, HandlerTypes
  <1>1. PICK t \in Thread : WriteLine(t)
    <2>1. store' # store
      BY <1>0
    <2>2. ASSUME NEW t \in Thread, CloseFile(t) \/ ClearBuffer(t) \/ WriteFails(t)
          PROVE  store' = store
      BY <1>0, <2>2, FlushMoves
    <2> QED
      BY <2>1, <2>2, FlywheelSteppers DEF Ingest, Retrain, Load, UpdateStats, Die, flywheelVars
  <1>2. /\ flush[t] \in 1 .. Len(buffer) /\ buffer[flush[t]] \in Sample
        /\ \A a \in Sample : a # buffer[flush[t]] => store'[a] = store[a]
    BY <1>0, <1>1, WriteLineStores
  <1>3. s = buffer[flush[t]]
    BY <1>0, <1>2
  <1>4. u # t /\ flush[t] # Written
    BY <1>2, TwoThreads DEF Flushing
  <1> QED
    BY <1>0, <1>2, <1>3, <1>4 DEF AheadIsNew

\* A sample gets a second readable line in the file only while both threads
\* flush, or after a fault (StoredOnce): a flush that is alone writes nothing that
\* an earlier one has written.
THEOREM SecondLinesAreExplained == Spec => StoredOnce
  <1>1. TypeInv /\ FlushInv /\ [Next]_vars =>
          [\A s \in Sample : store[s] > 0 /\ store'[s] > store[s] =>
             (\A t \in Thread : Flushing(t)) \/ faults > 0]_vars
    BY SecondLineSteps
  <1> QED
    BY <1>1, FlushAlways, PTL DEF Spec, StoredOnce

-----------------------------------------------------------------------------
\* The models that serve and the models that are saved.

LEMMA ModelAlways == Spec => [](TypeInv /\ FlushInv /\ ModelInv)
  <1>1. TypeInv /\ FlushInv /\ ModelInv /\ [Next]_vars => ModelInv'
    BY ModelNext DEF FlushInv
  <1> QED
    BY <1>1, ModelInit, FlushAlways, PTL DEF Spec

\* The forest and the classifier that serve are of one generation except between
\* the assignments of the swap, and so are the two files except between the saves,
\* unless a retrain broke off between its swap and its end.
THEOREM ModelsServeTogether == Spec => []OneGeneration
  <1>1. ModelInv => OneGeneration
    BY DEF ModelInv
  <1> QED
    BY <1>1, ModelAlways, PTL

\* After a retrain that the history reports as a swap, the files hold the models
\* that serve, and its classifier can classify: a restart finds them.
THEOREM ReportedSwapsLast == Spec => []ReportedSwapIsDurable
  <1>1. TypeInv /\ ModelInv => ReportedSwapIsDurable
    <2> SUFFICES ASSUME TypeInv, ModelInv, result.swapped, rt = Idle, up
                 PROVE  forestFile = forest /\ xgbFile = xgb /\ xgb.trained
      BY DEF ReportedSwapIsDurable
    <2>1. rt.at = "idle"
      BY DEF Idle
    <2>2. forestFile = forest /\ xgbFile = xgb /\ (xgbFile.trained \/ xgbFile = Torn)
      BY <2>1 DEF ModelInv, SwappedIsSaved
    <2>3. xgb # Torn
      BY NewModels DEF TypeInv, ModelTypes
    <2> QED
      BY <2>2, <2>3
  <1> QED
    BY <1>1, ModelAlways, PTL

LEMMA ServingSteps ==
  TypeInv /\ ModelInv /\ [Next]_vars =>
    (up /\ up' => (forest.trained => forest'.trained) /\ (xgb.trained => xgb'.trained))
  <1> SUFFICES ASSUME TypeInv, ModelInv, [Next]_vars, up
               PROVE  (forest.trained => forest'.trained) /\ (xgb.trained => xgb'.trained)
    OBVIOUS
  <1>1. CASE SwapForest
    <2>1. rt.at = "swapForest" /\ forest' = NewForest /\ xgb' = xgb
      BY <1>1 DEF SwapForest, Moves
    <2>2. rt.normal # 0 \/ ~forest.trained
      BY <2>1 DEF ModelInv, GatePassed
    <2>3. NewForest.trained <=> rt.normal # 0
      BY NewModels DEF TypeInv
    <2> QED
      BY <2>1, <2>2, <2>3
  <1>2. CASE SwapXgb
    <2>1. forest' = forest /\ xgb' = NewXgb
      BY <1>2 DEF SwapXgb
    <2> QED
      BY <2>1, NewModels DEF TypeInv
  <1>3. CASE Restart
    BY <1>3 DEF Restart
  <1>4. UNCHANGED <<forest, xgb>> \/ SwapForest \/ SwapXgb \/ Restart
    BY ModelSteppers DEF Retrain, Load, Split, Train, SaveForest, SaveXgb, UpdateStats,
      SaveFails, Die, WriteFails, modelVars
  <1> QED
    BY <1>1, <1>2, <1>3, <1>4

\* While the process lives no swap replaces a model that can score by one that
\* raises (TrainedStaysTrained): the gate compares the forest that serves with the
\* one that the swap takes.
THEOREM ServiceIsKept == Spec => TrainedStaysTrained
  <1>1. TypeInv /\ ModelInv /\ [Next]_vars =>
          [up /\ up' => /\ forest.trained => forest'.trained
                        /\ xgb.trained => xgb'.trained]_vars
    BY ServingSteps
  <1> QED
    BY <1>1, ModelAlways, PTL DEF Spec, TrainedStaysTrained

-----------------------------------------------------------------------------
\* The counter of new samples.

LEMMA CountInit == Init => CountInv
  <1> SUFFICES ASSUME Init PROVE CountInv
    OBVIOUS
  <1>1. rt.at = "idle" /\ learnt = {} /\ lived = {} /\ since = 0
    BY DEF Init, Idle
  <1>2. lived \ learnt = {} /\ Cardinality(lived \ learnt) = 0
    BY <1>1, FS_EmptySet
  <1> QED
    BY <1>1, <1>2 DEF CountInv, LearntIsStored, CountsOnlyNewSamples, AfterLoad

LEMMA StoreGrows ==
  TypeInv /\ [Next]_vars => \A s \in Sample : store'[s] >= store[s] /\ store'[s] \in Nat
  <1> SUFFICES ASSUME TypeInv, [Next]_vars
               PROVE  \A s \in Sample : store'[s] >= store[s] /\ store'[s] \in Nat
    OBVIOUS
  <1>0. FlywheelTypes /\ store \in [Sample -> Nat]
    BY DEF TypeInv, FlywheelTypes
  <1>1. CASE store' = store
    BY <1>0, <1>1
  <1>2. ASSUME NEW t \in Thread, WriteLine(t)
        PROVE  \A s \in Sample : store'[s] >= store[s] /\ store'[s] \in Nat
    BY <1>0, <1>2, WriteLineStores
  <1>3. store' = store \/ \E t \in Thread : WriteLine(t)
    BY <1>0, FlywheelSteppers, FlushMoves DEF Ingest, Retrain, Load, UpdateStats, Die,
      flywheelVars
  <1> QED
    BY <1>1, <1>2, <1>3

\* What the worker has loaded is what the file held, and stays what it was.
LEMMA LinesFollow ==
  ASSUME TypeInv, [Next]_vars, rt'.at \in {"split"} \cup AfterLoad
  PROVE  \/ rt'.lines = store
         \/ rt.at \in {"split"} \cup AfterLoad /\ rt'.lines = rt.lines
  <1>0. ModelTypes
    BY DEF TypeInv
  <1>1. ASSUME NEW success \in BOOLEAN, NEW swapped \in BOOLEAN, Finish(success, swapped)
        PROVE  FALSE
    BY <1>1, FinishType DEF AfterLoad
  <1>2. CASE Retrain \/ Die
    BY <1>2 DEF Retrain, Die, Idle, AfterLoad
  <1>3. CASE Load
    BY <1>3 DEF Load
  <1>4. CASE Split
    <2>1. rt.at = "split"
      BY <1>4 DEF Split
    <2>2. CASE Finish(FALSE, FALSE)
      BY <1>1, <2>2
    <2>3. CASE ~Finish(FALSE, FALSE)
      <3>1. rt' = [at |-> "train", lines |-> rt.lines, normal |-> Lines(Baseline),
                   anomalies |-> Lines(Sample \ Baseline)]
        BY <1>4, <2>3 DEF Split
      <3> QED
        BY <2>1, <3>1
    <2> QED
      BY <2>2, <2>3
  <1>5. CASE Train
    <2>1. rt.at \in AfterLoad /\ LoadedHasItsPlace
      BY <1>0, <1>5 DEF Train, AfterLoad, ModelTypes
    <2>2. CASE rt' = [rt EXCEPT !.at = "swapForest"]
      <3>1. "swapForest" \in AfterLoad
        BY DEF AfterLoad
      <3> QED
        BY <2>1, <2>2, <3>1, LoadedIsKept
    <2>3. CASE Finish(TRUE, FALSE) \/ Finish(FALSE, FALSE)
      BY <1>1, <2>3
    <2> QED
      BY <1>5, <2>2, <2>3 DEF Train
  <1>6. ASSUME NEW from \in AfterLoad, NEW to \in AfterLoad \ {"train"}, Moves(from, to)
        PROVE  rt.at \in AfterLoad /\ rt'.lines = rt.lines
    BY <1>0, <1>6, MovesOn
  <1>7. CASE SwapForest \/ SwapXgb \/ SaveForest \/ SaveXgb
    BY <1>6, <1>7 DEF SwapForest, SwapXgb, SaveForest, SaveXgb, AfterLoad
  <1>8. CASE UpdateStats \/ SaveFails \/ WriteFails("worker")
    BY <1>1, <1>8 DEF UpdateStats, SaveFails, WriteFails
  <1>9. CASE rt' = rt
    BY <1>9
  <1> QED
    BY <1>2, <1>3, <1>4, <1>5, <1>7, <1>8, <1>9, ModelSteppers DEF Restart, modelVars

LEMMA LearntStays == TypeInv /\ LearntIsStored /\ [Next]_vars => LearntIsStored'
  <1> SUFFICES ASSUME TypeInv, LearntIsStored, [Next]_vars PROVE LearntIsStored'
    OBVIOUS
  <1>0. /\ store \in [Sample -> Nat] /\ learnt \subseteq Sample
        /\ rt.at \in {"split"} \cup AfterLoad => rt.lines \in [Sample -> Nat]
    BY DEF TypeInv, FlywheelTypes, ModelTypes, LoadedHasItsPlace
  <1>1. \A s \in Sample : store'[s] >= store[s] /\ store'[s] \in Nat
    BY StoreGrows
  <1>2. ASSUME rt'.at \in {"split"} \cup AfterLoad, NEW s \in Sample
        PROVE  rt'.lines[s] <= store'[s]
    <2>1. CASE rt'.lines = store
      BY <1>0, <1>1, <2>1
    <2>2. CASE rt.at \in {"split"} \cup AfterLoad /\ rt'.lines = rt.lines
      <3>1. rt.lines[s] <= store[s] /\ rt.lines[s] \in Nat /\ store[s] \in Nat
        BY <1>0, <2>2 DEF LearntIsStored
      <3> QED
        BY <1>1, <2>2, <3>1
    <2> QED
      BY <1>2, <2>1, <2>2, LinesFollow
  <1>3. \A s \in learnt' : store'[s] > 0
    <2>1. CASE learnt' = learnt
      BY <1>0, <1>1, <2>1 DEF LearntIsStored
    <2>2. CASE SwapXgb
      <3>1. rt.at = "swapXgb" /\ learnt' = {s \in Sample : rt.lines[s] > 0}
        BY <2>2 DEF SwapXgb, Moves
      <3>2. \A s \in Sample : rt.lines[s] <= store[s] /\ rt.lines[s] \in Nat
        BY <1>0, <3>1 DEF LearntIsStored, AfterLoad
      <3> QED
        BY <1>0, <1>1, <3>1, <3>2
    <2>3. learnt' = learnt \/ SwapXgb
      BY ModelSteppers DEF Retrain, Load, Split, Train, SwapForest, SaveForest, SaveXgb,
        UpdateStats, SaveFails, Die, WriteFails, Restart, modelVars
    <2> QED
      BY <2>1, <2>2, <2>3
  <1> QED
    BY <1>2, <1>3 DEF LearntIsStored

\* The places of a retrain after its swap, from which only its end and a break lead.
AfterSwap == {"saveForest", "saveXgb", "stats"}

LEMMA CountSteps ==
  TypeInv /\ FlushHasItsCaller /\ [Next]_vars =>
    \/ \E s \in Sample : Ingest(s)
    \/ UpdateStats \/ Die \/ SaveFails
    \/ UNCHANGED <<since, lived, cut>> /\ rt'.at \in AfterSwap
    \/ UNCHANGED <<since, lived, learnt, cut>> /\ rt.at \notin AfterSwap
  <1> SUFFICES ASSUME TypeInv, FlushHasItsCaller, [Next]_vars
               PROVE  \/ \E s \in Sample : Ingest(s)
                      \/ UpdateStats \/ Die \/ SaveFails
                      \/ UNCHANGED <<since, lived, cut>> /\ rt'.at \in AfterSwap
                      \/ UNCHANGED <<since, lived, learnt, cut>> /\ rt.at \notin AfterSwap
    OBVIOUS
  <1>0. FlywheelTypes /\ ModelTypes
    BY DEF TypeInv
  <1>1. \/ UNCHANGED <<since, lived>> \/ (\E s \in Sample : Ingest(s)) \/ UpdateStats \/ Die
    BY <1>0, FlywheelSteppers, FlushMoves DEF Retrain, Load, WriteLine, flywheelVars
  <1>2. ASSUME NEW from \in AfterLoad, NEW to \in AfterLoad \ {"train"}, Moves(from, to)
        PROVE  rt.at = from /\ rt'.at = to
    BY <1>0, <1>2, MovesOn
  <1>3. CASE SwapXgb \/ SaveForest \/ SaveXgb
    <2>1. rt'.at \in AfterSwap
      BY <1>2, <1>3 DEF SwapXgb, SaveForest, SaveXgb, AfterLoad, AfterSwap
    <2> QED
      BY <1>3, <2>1 DEF SwapXgb, SaveForest, SaveXgb, flywheelVars
  <1>4. CASE Retrain \/ Load \/ Split \/ Train \/ SwapForest \/ WriteFails("worker")
    <2>1. rt.at \in {"idle", "load", "split", "train", "swapForest"} /\ UNCHANGED <<learnt, cut>>
      <3>1. CASE Retrain
        BY <3>1 DEF Retrain, Idle
      <3>2. CASE Load \/ Split \/ Train
        BY <3>2 DEF Load, Split, Train
      <3>3. CASE SwapForest
        BY <3>3 DEF SwapForest, Moves
      <3>4. CASE WriteFails("worker")
        BY <3>4 DEF WriteFails, FlushHasItsCaller
      <3> QED
        BY <1>4, <3>1, <3>2, <3>3, <3>4
    <2> QED
      BY <1>1, <2>1 DEF AfterSwap
  <1>5. CASE UNCHANGED <<rt, learnt, cut>>
    BY <1>1, <1>5
  <1> QED
    BY <1>3, <1>4, <1>5, ModelSteppers DEF Restart, modelVars

LEMMA CountStays ==
  TypeInv /\ FlushHasItsCaller /\ CountInv /\ [Next]_vars => CountsOnlyNewSamples'
  <1> SUFFICES ASSUME TypeInv, FlushHasItsCaller, CountInv, [Next]_vars
               PROVE  CountsOnlyNewSamples'
    OBVIOUS
  <1>0. FlywheelTypes /\ store \in [Sample -> Nat] /\ lived \subseteq Sample /\ since \in Nat
    <2>1. FlywheelTypes /\ IsFiniteSet(Sample)
      BY LearningAssumption DEF TypeInv, LearningAssumption
    <2> QED
      BY <2>1, FS_CardinalityType DEF FlywheelTypes
  <1>1. \A S : S \subseteq Sample => IsFiniteSet(S) /\ Cardinality(S) \in Nat
    BY LearningAssumption, FS_Subset, FS_CardinalityType DEF LearningAssumption
  <1>2. ASSUME NEW s \in Sample, Ingest(s) PROVE CountsOnlyNewSamples'
    <2>1. /\ s \notin lived /\ store[s] = 0 /\ since' = since + 1 /\ lived' = lived \cup {s}
          /\ UNCHANGED <<learnt, cut, rt>>
      BY <1>2 DEF Ingest, modelVars
    <2>2. s \notin learnt
      BY <1>0, <2>1 DEF CountInv, LearntIsStored
    <2>3. lived' \ learnt' = (lived \ learnt) \cup {s} /\ s \notin lived \ learnt
      BY <2>1, <2>2
    <2>4. IsFiniteSet(lived \ learnt) /\ Cardinality(lived \ learnt) \in Nat
      BY <1>0, <1>1
    <2>5. Cardinality(lived' \ learnt') = Cardinality(lived \ learnt) + 1
      BY <2>3, <2>4, FS_AddElement
    <2> QED
      BY <1>0, <2>1, <2>4, <2>5 DEF CountInv, CountsOnlyNewSamples
  <1>3. CASE UpdateStats \/ Die
    <2>1. since' = 0 /\ lived' \subseteq Sample
      BY <1>0, <1>3 DEF UpdateStats, Die
    <2>2. Cardinality(lived' \ learnt') \in Nat
      BY <1>1, <2>1
    <2> QED
      BY <2>1, <2>2 DEF CountsOnlyNewSamples
  <1>4. CASE SaveFails
    BY <1>4 DEF SaveFails, CountsOnlyNewSamples
  <1>5. CASE rt'.at \in AfterSwap
    BY <1>5 DEF AfterSwap, CountsOnlyNewSamples
  <1>6. CASE UNCHANGED <<since, lived, learnt, cut>> /\ rt.at \notin AfterSwap
    <2>1. cut' \/ since' <= Cardinality(lived' \ learnt')
      BY <1>6 DEF CountInv, CountsOnlyNewSamples, AfterSwap
    <2> QED
      BY <2>1 DEF CountsOnlyNewSamples
  <1> QED
    BY <1>2, <1>3, <1>4, <1>5, <1>6, CountSteps

\* The counter that recommends a retrain counts no sample that the serving
\* classifier has learnt from (CountsOnlyNewSamples), but for the time from its
\* swap to the end of the retrain, or for good if that end never came.
THEOREM CounterIsHonest == Spec => []CountsOnlyNewSamples
  <1>1. TypeInv /\ FlushInv /\ CountInv /\ [Next]_vars => CountInv'
    BY LearntStays, CountStays DEF FlushInv, CountInv
  <1>2. CountInv => CountsOnlyNewSamples
    BY DEF CountInv
  <1> QED
    BY <1>1, <1>2, CountInit, FlushAlways, PTL DEF Spec
=============================================================================
