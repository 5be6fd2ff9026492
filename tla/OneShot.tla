------------------------------- MODULE OneShot -------------------------------
(* One poll cycle of the run-once, lambda and azure-functions commands: the     *)
(* feed list is read once, every pipeline built before any runs, and a pool of   *)
(* workers takes them from an unbuffered channel (internal/scheduler/runonce.go). *)
EXTENDS Integers, Sequences, FiniteSets, Functions

CONSTANTS Job, Worker, NoJob

ASSUME OneShotAssumptions == NoJob \notin Job /\ IsFiniteSet(Job) /\ IsFiniteSet(Worker)

VARIABLES
  cycle,     \* "snapshot", "feed", "close", "returned"
  wanted,    \* the pipelines of this cycle
  queue,     \* those that are not handed out yet
  doing,     \* the pipeline of each worker, or NoJob
  worker,    \* "idle", "check", "poll" or "gone"
  stopped,   \* ctx is done
  ran,       \* history: pipelines that ran, and how they ended
  errs       \* the errors that RunOnce collected

oneShotVars == <<cycle, wanted, queue, doing, worker, stopped, ran, errs>>

\* effectiveConcurrency: as configured, or one per pipeline up to eight.
Least2(a, b) == IF a < b THEN a ELSE b
effectiveConcurrency(configured, n) ==
  IF configured > 0 THEN configured ELSE IF n = 0 THEN 1 ELSE Least2(n, 8)

OneShotInit ==
  /\ cycle = "snapshot" /\ wanted = {} /\ queue = <<>>
  /\ doing = [w \in Worker |-> NoJob] /\ worker = [w \in Worker |-> "gone"]
  /\ stopped = FALSE /\ ran = {} /\ errs = {}

\* Snapshot and buildOneShotPipelines: an error of any source or of the factory ends
\* the cycle before a feed is polled. Otherwise RunOnce starts its workers.
Snapshot ==
  /\ cycle = "snapshot"
  /\ \/ /\ wanted' \in SUBSET Job
        /\ queue' \in {q \in [1 .. Cardinality(wanted') -> wanted'] : IsInjective(q)}
        /\ \E n \in 0 .. Cardinality(Worker), pool \in SUBSET Worker :
             /\ Cardinality(pool) =
                  Least2(effectiveConcurrency(n, Cardinality(wanted')), Cardinality(Worker))
             /\ worker' = [w \in Worker |-> IF w \in pool THEN "idle" ELSE "gone"]
        /\ cycle' = "feed" /\ UNCHANGED errs
     \/ cycle' = "returned" /\ errs' = {"setup"} /\ UNCHANGED <<wanted, queue, worker>>
  /\ UNCHANGED <<doing, stopped, ran>>

-----------------------------------------------------------------------------
\* The send loop: a worker takes the next pipeline, or ctx is done and it is skipped.
HandOut(w) ==
  /\ cycle = "feed" /\ queue # <<>> /\ worker[w] = "idle"
  /\ worker' = [worker EXCEPT ![w] = "check"] /\ doing' = [doing EXCEPT ![w] = Head(queue)]
  /\ queue' = Tail(queue)
  /\ UNCHANGED <<cycle, wanted, stopped, ran, errs>>

NeverSkips == FALSE
MaySkip == stopped

SkipJob ==
  /\ cycle = "feed" /\ queue # <<>> /\ MaySkip
  /\ queue' = Tail(queue)
  /\ UNCHANGED <<cycle, wanted, doing, worker, stopped, ran, errs>>

CloseJobs ==
  /\ cycle = "feed" /\ queue = <<>> /\ cycle' = "close"
  /\ UNCHANGED <<wanted, queue, doing, worker, stopped, ran, errs>>

\* A worker that finds ctx done returns and drops the pipeline it took.
WorkerChecks(w) ==
  /\ worker[w] = "check"
  /\ worker' = [worker EXCEPT ![w] = IF stopped THEN "gone" ELSE "poll"]
  /\ doing' = [doing EXCEPT ![w] = IF stopped THEN NoJob ELSE @]
  /\ UNCHANGED <<cycle, wanted, queue, stopped, ran, errs>>

\* RunOnce of the pipeline returns: without error, with ctx cancelled, or with another.
Outcome == {"ok", "failed"} \cup (IF stopped THEN {"cancelled"} ELSE {})
Reported(o) == o = "failed"

PollEnds(w) ==
  /\ worker[w] = "poll"
  /\ \E o \in Outcome :
       /\ ran' = ran \cup {<<doing[w], o>>}
       /\ errs' = IF Reported(o) THEN errs \cup {doing[w]} ELSE errs
  /\ worker' = [worker EXCEPT ![w] = "idle"] /\ doing' = [doing EXCEPT ![w] = NoJob]
  /\ UNCHANGED <<cycle, wanted, queue, stopped>>

WorkerExits(w) ==
  /\ worker[w] = "idle" /\ cycle = "close" /\ worker' = [worker EXCEPT ![w] = "gone"]
  /\ UNCHANGED <<cycle, wanted, queue, doing, stopped, ran, errs>>

RunOnceReturns ==
  /\ cycle = "close" /\ \A w \in Worker : worker[w] = "gone"
  /\ cycle' = "returned" /\ UNCHANGED <<wanted, queue, doing, worker, stopped, ran, errs>>

ContextEnds ==
  /\ ~stopped /\ cycle # "returned" /\ stopped' = TRUE
  /\ UNCHANGED <<cycle, wanted, queue, doing, worker, ran, errs>>

WorkerStep(w) == HandOut(w) \/ WorkerChecks(w) \/ PollEnds(w) \/ WorkerExits(w)
CycleStep == Snapshot \/ SkipJob \/ CloseJobs \/ RunOnceReturns

OneShotNext == CycleStep \/ ContextEnds \/ \E w \in Worker : WorkerStep(w)

OneShotSpec == OneShotInit /\ [][OneShotNext]_oneShotVars

-----------------------------------------------------------------------------
\* A cycle reported as successful polled every feed without error, unless its context
\* ended: an invocation that is cut short is not reported as failed by itself. No cycle
\* polls a feed twice.
SuccessMeansPolled ==
  /\ cycle = "returned" /\ errs = {} /\ ~stopped => ran = {<<j, "ok">> : j \in wanted}
  /\ \A w \in Worker : worker[w] = "poll" => doing[w] \notin {r[1] : r \in ran}

\* What RunOnce promises: it returns, whenever the context ends (the send loop never
\* waits for workers that have all returned), and then success means that every feed
\* was polled. (It never leaves "returned".)
CycleEnds == []SuccessMeansPolled /\ []<>(cycle = "returned")
=============================================================================
