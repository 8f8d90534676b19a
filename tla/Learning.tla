----------------------------- MODULE Learning ------------------------------
(***************************************************************************)
(* The ML service (ml-intelligence-03/ml): the flywheel that collects      *)
(* labelled samples, the retrain that replaces two of the pipeline's       *)
(* models, and the scores that read them.                                  *)
(*                                                                         *)
(* Two threads share the flywheel and the pipeline without a lock: the     *)
(* event loop, on which one handler at a time ingests a sample or scores a *)
(* metric, and the worker on which a retrain runs. A write may fail, and   *)
(* the process may die and be started again from the saved files.          *)
(***************************************************************************)
EXTENDS Scoring, Functions

CONSTANTS Sample,       \* the samples that may be ingested (a bound)
          Baseline,     \* those of severity NOMINAL; the others are DEGRADED
          BufferLimit,  \* the samples at which the buffer is flushed
          MinSamples,   \* MIN_SAMPLES_FOR_RETRAIN
          MaxRetrains,  \* bound on the generations of models trained
          Answer,       \* the answers of the models to a metric that are checked
          MaxFaults     \* bound on failed writes and deaths of the process

ASSUME LearningAssumption ==
  /\ Baseline \subseteq Sample /\ IsFiniteSet(Sample)
  /\ BufferLimit \in Nat \ {0} /\ MinSamples \in Nat \ {0}
  /\ MaxRetrains \in Nat /\ MaxFaults \in Nat

VARIABLES
  buffer,     \* DataFlywheel._buffer
  store,      \* the readable lines of every sample in training_samples.jsonl
  since,      \* _samples_since_last_retrain
  flush,      \* where a thread is in _flush_buffer
  handler,    \* what the event loop is doing
  rt,         \* where the worker is in _run_retrain, and what it has loaded
  gen,        \* the generation trained last
  forest, xgb,          \* the pipeline's two retrained models
  forestFile, xgbFile,  \* the saved models
  result,     \* the last entry of the orchestrator's history
  up,         \* whether the process runs
  faults,     \* (bound) failed writes and deaths so far
  lived,      \* (history) samples ingested since the process started
  learnt,     \* (history) the samples the serving classifier was trained on
  cut         \* (history) a retrain broke off between its swap and its end

flywheelVars == <<buffer, store, since, flush, lived>>
modelVars == <<rt, gen, forest, xgb, forestFile, xgbFile, result, learnt, cut>>
vars == <<scoringVars, flywheelVars, modelVars, handler, up, faults>>

Thread == {"loop", "worker"}
NotFlushing == 0
Written == -1              \* the file is closed, the buffer not yet cleared
Idle == [at |-> "idle"]
Torn == [gen |-> -1, trained |-> FALSE]
Model == [gen : 0 .. MaxRetrains, trained : BOOLEAN]

TypeOK ==
  /\ ScoringTypeOK
  /\ buffer \in Seq(Sample) /\ store \in [Sample -> Nat]
  /\ since \in 0 .. Cardinality(Sample)
  /\ flush \in [Thread -> Int]
  /\ handler.at \in {"idle", "ingest", "classify", "report"}
  /\ rt.at \in {"idle", "load", "split", "train", "swapForest", "swapXgb",
                "saveForest", "saveXgb", "stats"}
  /\ gen \in 0 .. MaxRetrains
  /\ {forest, xgb} \subseteq Model /\ {forestFile, xgbFile} \subseteq Model \cup {Torn}
  /\ result \in [success : BOOLEAN, swapped : BOOLEAN]
  /\ up \in BOOLEAN /\ cut \in BOOLEAN /\ faults \in 0 .. MaxFaults
  /\ lived \subseteq Sample /\ learnt \subseteq Sample

Init ==
  /\ ScoringInit
  /\ buffer = <<>> /\ store = [s \in Sample |-> 0] /\ since = 0
  /\ flush = [t \in Thread |-> NotFlushing]
  /\ handler = Idle /\ rt = Idle /\ gen = 0
  /\ forest \in [gen : {0}, trained : BOOLEAN] /\ xgb = forest
  /\ forestFile = forest /\ xgbFile = forest
  /\ result = [success |-> FALSE, swapped |-> FALSE]
  /\ up = TRUE /\ faults = 0
  /\ lived = {} /\ learnt = {} /\ cut = FALSE

-----------------------------------------------------------------------------
\* The flywheel. A flush iterates over the list while the other thread may
\* append to it, closes the file and then clears the list.

Held(s) == (\E n \in 1 .. Len(buffer) : buffer[n] = s) \/ store[s] > 0
Flushing(t) == flush[t] # NotFlushing
Lines(S) == SumFunctionOnSet(store, S)

\* _flush_buffer is called with a buffer that has become b.
StartFlush(t, b) ==
  flush' = [flush EXCEPT ![t] = IF b = <<>> THEN NotFlushing ELSE 1]

\* One of the three ingest functions appends sample s.
Ingest(s) ==
  /\ up /\ handler = Idle /\ s \notin lived /\ store[s] = 0
  /\ buffer' = Append(buffer, s)
  /\ since' = since + 1
  /\ lived' = lived \cup {s}
  /\ IF Len(buffer') >= BufferLimit
     THEN StartFlush("loop", buffer') /\ handler' = [at |-> "ingest"]
     ELSE UNCHANGED <<flush, handler>>
  /\ UNCHANGED <<scoringVars, modelVars, store, up, faults>>

\* One line is written. Beside a flush of the other thread its bytes may be
\* mixed with the other's, which leaves no readable line.
WriteLine(t) ==
  /\ flush[t] \in 1 .. Len(buffer)
  /\ \/ store' = [store EXCEPT ![buffer[flush[t]]] = @ + 1]
     \/ (\A u \in Thread : Flushing(u)) /\ store' = store
  /\ flush' = [flush EXCEPT ![t] = @ + 1]
  /\ UNCHANGED <<scoringVars, modelVars, buffer, since, lived, handler, up, faults>>

\* Mutant of CloseFile: the last line is not written.
CloseFileEarly(t) ==
  /\ flush[t] > 0 /\ flush[t] >= Len(buffer)
  /\ flush' = [flush EXCEPT ![t] = Written]
  /\ UNCHANGED <<scoringVars, modelVars, buffer, store, since, lived, handler, up, faults>>

CloseFile(t) ==
  /\ flush[t] > Len(buffer)
  /\ flush' = [flush EXCEPT ![t] = Written]
  /\ UNCHANGED <<scoringVars, modelVars, buffer, store, since, lived, handler, up, faults>>

\* Mutant of ClearBuffer: the buffer is not cleared.
ClearBufferNot(t) ==
  /\ flush[t] = Written
  /\ flush' = [flush EXCEPT ![t] = NotFlushing]
  /\ handler' = IF t = "loop" THEN Idle ELSE handler
  /\ UNCHANGED <<scoringVars, modelVars, buffer, store, since, lived, up, faults>>

ClearBuffer(t) ==
  /\ flush[t] = Written
  /\ buffer' = <<>>
  /\ flush' = [flush EXCEPT ![t] = NotFlushing]
  /\ handler' = IF t = "loop" THEN Idle ELSE handler
  /\ UNCHANGED <<scoringVars, modelVars, store, since, lived, up, faults>>

-----------------------------------------------------------------------------
\* The retrain. Its lock is held while rt is not idle.

\* _run_retrain returns or raises, the lock is released and the result put into
\* the history. The code does the one after the other, outside of the lock; here
\* no other retrain begins in between.
Finish(success, swapped) ==
  /\ rt' = Idle
  /\ result' = [success |-> success, swapped |-> swapped]

\* A write of thread t fails, of the samples or, after the buffer is cleared, of
\* the statistics: the exception ends the handler with status 500, or the retrain
\* with a failure.
WriteFails(t) ==
  /\ Flushing(t) /\ faults < MaxFaults
  /\ faults' = faults + 1
  /\ buffer' = IF flush[t] = Written THEN <<>> ELSE buffer
  /\ flush' = [flush EXCEPT ![t] = NotFlushing]
  /\ IF t = "loop" THEN handler' = Idle /\ UNCHANGED <<rt, result>>
     ELSE Finish(FALSE, FALSE) /\ UNCHANGED handler
  /\ UNCHANGED <<scoringVars, store, since, lived, gen, forest, xgb,
                 forestFile, xgbFile, learnt, cut, up>>

\* retrain, by /models/retrain. While the lock is held it only returns.
Retrain ==
  /\ up /\ rt = Idle /\ gen < MaxRetrains
  /\ rt' = [at |-> "load"]
  /\ StartFlush("worker", buffer)
  /\ UNCHANGED <<scoringVars, buffer, store, since, lived, handler, gen, forest, xgb,
                 forestFile, xgbFile, result, learnt, cut, up, faults>>

\* The end of load_training_arrays, and the flush of load_anomaly_split.
Load ==
  /\ rt.at = "load" /\ ~Flushing("worker")
  /\ rt' = [at |-> "split", lines |-> store]
  /\ StartFlush("worker", buffer)
  /\ UNCHANGED <<scoringVars, buffer, store, since, lived, handler, gen, forest, xgb,
                 forestFile, xgbFile, result, learnt, cut, up, faults>>

Loaded(S) == SumFunctionOnSet(rt.lines, S)

\* The rest of load_anomaly_split, which reads the store a second time, and
\* the check of the number of samples the first read found.
Split ==
  /\ rt.at = "split" /\ ~Flushing("worker")
  /\ IF Loaded(Sample) < MinSamples THEN Finish(FALSE, FALSE)
     ELSE /\ rt' = [at |-> "train", lines |-> rt.lines, normal |-> Lines(Baseline),
                     anomalies |-> Lines(Sample \ Baseline)]
          /\ UNCHANGED result
  /\ UNCHANGED <<scoringVars, flywheelVars, handler, gen, forest, xgb, forestFile,
                 xgbFile, learnt, cut, up, faults>>

\* train_test_split keeps the share of every severity, for which it needs two
\* samples of each.
Stratifiable ==
  \/ Loaded(Baseline) = 0 \/ Loaded(Sample \ Baseline) = 0
  \/ Loaded(Baseline) > 1 /\ Loaded(Sample \ Baseline) > 1

\* The forest of scikit-learn takes the share of anomalies up to one half.
Balanced == rt.normal = 0 \/ rt.anomalies <= rt.normal

\* Mutant of GateMayPass: the forest is not part of the comparison.
GateMayPassWithoutForest == TRUE

\* Without normal samples the new forest is not trained, and its score of 0.0
\* does not reach that of a trained one.
GateMayPass == rt.normal # 0 \/ ~forest.trained

\* Both models are trained and compared with those that serve. The training may
\* also end in an exception: XGBoost refuses severities with a gap between them.
Train ==
  /\ rt.at = "train"
  /\ \/ /\ Stratifiable /\ Balanced /\ gen' = gen + 1
        /\ \/ GateMayPass /\ rt' = [rt EXCEPT !.at = "swapForest"] /\ UNCHANGED result
           \/ Finish(TRUE, FALSE)
     \/ Finish(FALSE, FALSE) /\ UNCHANGED gen
  /\ UNCHANGED <<scoringVars, flywheelVars, handler, forest, xgb, forestFile, xgbFile,
                 learnt, cut, up, faults>>

NewForest == [gen |-> gen, trained |-> rt.normal # 0]
NewXgb == [gen |-> gen, trained |-> TRUE]

\* The worker goes on from one place to the next.
Moves(from, to) == rt.at = from /\ rt' = [rt EXCEPT !.at = to] /\ UNCHANGED result

\* Mutant of SwapForest: the classifier is not replaced.
SwapForestOnly ==
  /\ Moves("swapForest", "saveForest")
  /\ forest' = NewForest
  /\ UNCHANGED <<scoringVars, flywheelVars, handler, gen, xgb, forestFile, xgbFile,
                 learnt, cut, up, faults>>

SwapForest ==
  /\ Moves("swapForest", "swapXgb")
  /\ forest' = NewForest
  /\ UNCHANGED <<scoringVars, flywheelVars, handler, gen, xgb, forestFile, xgbFile,
                 learnt, cut, up, faults>>

SwapXgb ==
  /\ Moves("swapXgb", "saveForest")
  /\ xgb' = NewXgb
  /\ learnt' = {s \in Sample : rt.lines[s] > 0}
  /\ UNCHANGED <<scoringVars, flywheelVars, handler, gen, forest, forestFile, xgbFile,
                 cut, up, faults>>

\* save opens the file for writing, which empties it, and pickles into it.
SaveForest ==
  /\ Moves("saveForest", "saveXgb")
  /\ forestFile' = NewForest
  /\ UNCHANGED <<scoringVars, flywheelVars, handler, gen, forest, xgb, xgbFile,
                 learnt, cut, up, faults>>

SaveXgb ==
  /\ Moves("saveXgb", "stats")
  /\ xgbFile' = NewXgb
  /\ UNCHANGED <<scoringVars, flywheelVars, handler, gen, forest, xgb, forestFile,
                 learnt, cut, up, faults>>

\* The files as a save that is cut short may leave them.
Truncated ==
  /\ forestFile' = IF rt.at = "saveForest" THEN Torn ELSE forestFile
  /\ xgbFile' = IF rt.at = "saveXgb" THEN Torn ELSE xgbFile

\* Mutant of SaveFails: the failure is not reported.
SaveFailsSilently ==
  /\ rt.at \in {"saveForest", "saveXgb"} /\ faults < MaxFaults
  /\ faults' = faults + 1 /\ cut' = TRUE
  /\ Truncated
  /\ Finish(TRUE, TRUE)
  /\ UNCHANGED <<scoringVars, flywheelVars, handler, gen, forest, xgb, learnt, up>>

SaveFails ==
  /\ rt.at \in {"saveForest", "saveXgb"} /\ faults < MaxFaults
  /\ faults' = faults + 1 /\ cut' = TRUE
  /\ Truncated
  /\ Finish(FALSE, FALSE)
  /\ UNCHANGED <<scoringVars, flywheelVars, handler, gen, forest, xgb, learnt, up>>

\* Mutant of UpdateStats: the counter is not reset.
UpdateStatsWithoutReset ==
  /\ rt.at = "stats"
  /\ Finish(TRUE, TRUE)
  /\ UNCHANGED <<scoringVars, flywheelVars, handler, gen, forest, xgb, forestFile,
                 xgbFile, learnt, cut, up, faults>>

UpdateStats ==
  /\ rt.at = "stats"
  /\ since' = 0
  /\ Finish(TRUE, TRUE)
  /\ UNCHANGED <<scoringVars, buffer, store, flush, lived, handler, gen, forest, xgb,
                 forestFile, xgbFile, learnt, cut, up, faults>>

-----------------------------------------------------------------------------
\* A score, which a retrain may run beside. It reads the forest, then the
\* classifier, then the versions it reports; a model that is not trained raises
\* and ends it with status 500. In the result, asked is a history: the verdict on
\* the models' answers as they are.

BeginScore(f, r, rtt) ==
  /\ up /\ handler = Idle /\ forest.trained /\ scored < MaxScores
  /\ handler' = [at |-> "classify", flow |-> f, region |-> r, rtt |-> rtt, forest |-> forest.gen]
  /\ UNCHANGED <<scoringVars, flywheelVars, modelVars, up, faults>>

ClassifyMetric ==
  /\ handler.at = "classify"
  /\ Push(handler.flow)
  /\ IF xgb.trained THEN Decide(handler.region, handler.rtt) ELSE UNCHANGED <<prevRTT, beta>>
  /\ IF xgb.trained /\ Sampleable
     THEN \E a \in Answer :
            LET n == Len(window'[handler.flow]) IN
            handler' = [at |-> "report", forest |-> handler.forest, xgb |-> xgb.gen,
                        asked |-> Failover(a.forest, ArgMax(a.p), a.lstm, a.weight),
                        failover |-> Failover(a.forest, Classify(a.p, a.synFlood),
                                              Confidence(n, a.lstm), a.weight)]
     ELSE handler' = Idle
  /\ UNCHANGED <<flywheelVars, modelVars, up, faults>>

Report ==
  /\ handler.at = "report"
  /\ handler' = Idle
  /\ UNCHANGED <<scoringVars, flywheelVars, modelVars, up, faults>>

Reset(f) ==
  /\ up /\ handler = Idle /\ ResetFlow(f)
  /\ UNCHANGED <<flywheelVars, modelVars, handler, up, faults>>

-----------------------------------------------------------------------------
\* The process dies. What was only in memory is gone.
Die ==
  /\ up /\ faults < MaxFaults
  /\ faults' = faults + 1 /\ up' = FALSE
  /\ buffer' = <<>> /\ since' = 0 /\ lived' = {}
  /\ flush' = [t \in Thread |-> NotFlushing]
  /\ handler' = Idle /\ rt' = Idle
  /\ cut' = (cut \/ rt.at \in {"swapXgb", "saveForest", "saveXgb", "stats"})
  /\ Truncated \/ UNCHANGED <<forestFile, xgbFile>>
  /\ flows' = <<>> /\ window' = [f \in Flow |-> <<>>]
  /\ prevRTT' = [r \in Region |-> 0] /\ beta' = [r \in Region |-> 1000]
  /\ UNCHANGED <<seen, scored, store, gen, forest, xgb, result, learnt>>

\* It is started again from the saved models.
Restart ==
  /\ ~up /\ Torn \notin {forestFile, xgbFile}
  /\ up' = TRUE /\ forest' = forestFile /\ xgb' = xgbFile
  /\ UNCHANGED <<scoringVars, flywheelVars, handler, rt, gen, forestFile, xgbFile,
                 result, learnt, cut, faults>>

Loop ==
  \/ \E s \in Sample : Ingest(s)
  \/ \E f \in Flow, r \in Region, rtt \in RTT : BeginScore(f, r, rtt)
  \/ ClassifyMetric \/ Report
  \/ \E f \in Flow : Reset(f)

\* The steps of a retrain that is under way.
Worker ==
  \/ WriteLine("worker") \/ CloseFile("worker") \/ ClearBuffer("worker")
  \/ Load \/ Split \/ Train \/ SwapForest \/ SwapXgb \/ SaveForest \/ SaveXgb
  \/ UpdateStats

Next ==
  \/ Loop \/ Retrain \/ Worker
  \/ WriteLine("loop") \/ CloseFile("loop") \/ ClearBuffer("loop")
  \/ \E t \in Thread : WriteFails(t)
  \/ SaveFails \/ Die \/ Restart

Spec == Init /\ [][Next]_vars
-----------------------------------------------------------------------------
\* The adjustments of the models' answers are on the safe side: none withdraws a
\* failover, be it the SYN_FLOOD hint, the replacement of an unsure CRITICAL, or
\* the answer for a window too short for the LSTM.
NoFailoverWithdrawn == handler.at = "report" /\ handler.asked => handler.failover

\* Only faults and one race make a sample that was ingested disappear from the
\* buffer and the file. The race is that of a buffer without a lock, which
\* DOCUMENTATION.md:61 says it has: the worker flushes the list to which, beside
\* it, the event loop appends. No other order of steps loses one. (_append,
\* _flush_buffer)
LostOnlyBesideARetrain ==
  [][\A s \in Sample : Held(s) /\ ~Held(s)' => Flushing("worker") \/ faults' > 0]_vars

\* A sample is written twice, and so weighs twice in the training, only if the
\* two threads flush at the same time, which the lock that DOCUMENTATION.md:61
\* names would prevent, or an earlier flush of it failed. (_flush_buffer)
StoredOnce ==
  [][\A s \in Sample : store[s] > 0 /\ store'[s] > store[s] =>
       (\A t \in Thread : Flushing(t)) \/ faults > 0]_vars

\* Two models of different generations serve together only between the two
\* assignments of the swap, and are only saved side by side between the two
\* saves, unless a retrain broke off after its swap.
OneGeneration ==
  \/ cut
  \/ /\ rt.at # "swapXgb" /\ up => forest.gen = xgb.gen
     /\ rt.at # "saveXgb" => forestFile.gen = xgbFile.gen /\ Torn # forestFile

\* When the history says that the models were swapped, a restart finds the
\* models of that swap.
ReportedSwapIsDurable ==
  result.swapped /\ rt = Idle /\ up =>
    forestFile = forest /\ xgbFile = xgb /\ xgb.trained

\* No retrain takes a model that can score out of service for one that raises.
TrainedStaysTrained ==
  [][up /\ up' => /\ forest.trained => forest'.trained
                  /\ xgb.trained => xgb'.trained]_vars

\* The counter that recommends a retrain never counts a sample that the serving
\* classifier has learnt from (it may count too few), except from its swap to the end of the retrain,
\* or if that never came.
CountsOnlyNewSamples ==
  \/ cut \/ rt.at \in {"saveForest", "saveXgb", "stats"}
  \/ since <= Cardinality(lived \ learnt)
=============================================================================
