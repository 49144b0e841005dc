----------------------------- MODULE BenchFlow ------------------------------
(***************************************************************************)
(* start_bench and run_bench: a probe of the runtime, a warm-up, then the  *)
(* prompts in two passes.  count is the number of measured prompts.        *)
(***************************************************************************)
EXTENDS Tasks

CONSTANT Prompts   \* seeds of a plan; each is measured twice

ASSUME PromptsPositive == Prompts \in Nat \ {0}

Report(c) == <<id[c], "report">>     \* the cached report of this model
Error(c) == <<id[c], "error">>       \* ... and that it holds an error

BenchQuiet == Fixed /\ UNCHANGED <<cancelled, count, disk>>

\* The host cannot be probed, or a runtime it has no adapter for.
BenchRefused(c) ==
  /\ kind = "bench" /\ pc[c] = "begun"
  /\ Return(c, "error")
  /\ UNCHANGED told /\ BenchQuiet

\* ollama_preflight: an error report that is told but not cached
PreflightFails(c) ==
  /\ kind = "bench" /\ pc[c] = "begun"
  /\ EndWith(c, "finished", "error_report")
  /\ BenchQuiet

BenchStarted(c) ==
  /\ kind = "bench" /\ pc[c] = "begun"
  /\ told' = Told(c, "started") /\ Goto(c, "warm_up")
  /\ UNCHANGED result /\ BenchQuiet

\* aggregate: without a sample the report is an error, with one it is not,
\* whatever ended the measurement.
Aggregate(c, samples) ==
  /\ count' = [count EXCEPT ![c] = samples]
  /\ Goto(c, "report")
  /\ result' = [result EXCEPT ![c] = IF samples = 0 THEN "error_report" ELSE "ok"]
  /\ Fixed /\ UNCHANGED <<told, cancelled, disk>>

\* The warm-up fails, runs into WARMUP_TIMEOUT_SECS or sees the token.
WarmUpEnds(c) ==
  /\ pc[c] = "warm_up"
  /\ Aggregate(c, 0)

WarmedUp(c) ==
  /\ pc[c] = "warm_up"
  /\ Goto(c, "measure")
  /\ UNCHANGED <<told, result>> /\ BenchQuiet

\* A prompt that measure_loop measured.  One that fails is skipped and leaves
\* no trace but the error kept for a report without samples.
Measure(c) ==
  /\ pc[c] = "measure" /\ c \notin cancelled
  /\ count[c] < 2 * Prompts
  /\ count' = [count EXCEPT ![c] = @ + 1]
  /\ Fixed /\ UNCHANGED <<pc, told, result, cancelled, disk>>

\* measure_loop returns, all calls made or the token seen between two of them:
\* the samples so far are the report.
Measured(c) ==
  /\ pc[c] = "measure"
  /\ Aggregate(c, count[c])

\* The select around measure_loop: the budget, or the token seen here first,
\* drops the loop and the samples in it.
MeasureDropped(c) ==
  /\ pc[c] = "measure"
  /\ Aggregate(c, 0)

\* cache_store::save, best effort, errors too; then bench:finished
BenchFinished(c) ==
  /\ pc[c] = "report"
  /\ \/ disk' = (disk \ {Error(c)}) \cup
                IF count[c] = 0 THEN {Report(c), Error(c)} ELSE {Report(c)}
     \/ UNCHANGED disk
  /\ EndWith(c, "finished", result[c])
  /\ Fixed /\ UNCHANGED <<cancelled, count>>

BenchStep(c) ==
  \/ BenchRefused(c) \/ PreflightFails(c) \/ BenchStarted(c)
  \/ WarmUpEnds(c) \/ WarmedUp(c) \/ Measure(c) \/ Measured(c)
  \/ MeasureDropped(c) \/ BenchFinished(c)
=============================================================================
