------------------------------ MODULE MCDaemon ------------------------------
(* TLC instance of what must go on happening in one process: the scheduler, the   *)
(* kubernetes source, a one-shot cycle, and the Postgres coordinator. One of them *)
(* runs in each behaviour.                                                        *)
EXTENDS Scheduler, KubeSource, OneShot, PgLock, SequencesExt

ResourceAt == SetToSeq(Resource)
KubeUrlAt == SetToSeq(KubeUrl)
WorkerAt == SetToSeq(Worker)
PgInstAt == SetToSeq(PgInst)
TaskAt == SetToSeq(Task)

\* One feed comes, changes and goes; with one of its configurations, the set may
\* also have a feed that is refused.
MCFeedSets ==
  LET other == CHOOSE u \in Url : TRUE
      usual == CHOOSE c \in Cfg \ Bad : TRUE
  IN  {d \in FeedSet : /\ d[other] \in Bad \cup {None}
                       /\ \A u \in Url \ {other} : IF d[other] = None THEN d[u] \notin Bad
                                                                    ELSE d[u] = usual}

VARIABLE active

daemonVars == <<vars, kubeVars, oneShotVars, pgVars, active>>

SchedulerIdle ==
  /\ want = NoFeeds /\ owe = FALSE /\ sig = FALSE /\ asks = <<>> /\ down = FALSE
  /\ main = "plan" /\ snap = NoFeeds /\ todo = {} /\ at = None /\ running = NoFeeds
  /\ st = [l \in Loop |-> "free"] /\ lurl = [l \in Loop |-> None] /\ lcfg = lurl
  /\ cancelled = [l \in Loop |-> FALSE] /\ poke = cancelled /\ owed = {} /\ faults = 0
KubeIdle ==
  /\ cluster = [k \in Resource |-> NoUrl] /\ unseen = {} /\ specs = cluster
  /\ index = [u \in KubeUrl |-> NoResource] /\ report = NoReport /\ status = cluster /\ applies = 0
OneShotIdle ==
  /\ cycle = "returned" /\ wanted = {} /\ queue = <<>> /\ doing = [w \in Worker |-> NoJob]
  /\ worker = [w \in Worker |-> "gone"] /\ stopped = FALSE /\ ran = {} /\ errs = {}

PgIdle ==
  /\ conns = [j \in PgInst |-> [s \in Slot |-> "none"]]
  /\ advisory = [f \in LockedFeed |-> FreeLock]
  /\ task = [j \in PgInst |-> [t \in Task |-> "idle"]]
  /\ using = [j \in PgInst |-> [t \in Task |-> NoSlot]]
  /\ heldBy = [j \in PgInst |-> {}] /\ pool = [j \in PgInst |-> "closed"] /\ breaks = 0

MCInit ==
  /\ active \in {"scheduler", "kubernetes", "one-shot", "postgres"}
  /\ IF active = "scheduler" THEN Init ELSE SchedulerIdle
  /\ IF active = "kubernetes" THEN KubeInit ELSE KubeIdle
  /\ IF active = "one-shot" THEN OneShotInit ELSE OneShotIdle
  /\ IF active = "postgres" THEN PgInit ELSE PgIdle

SchedulerRuns == active = "scheduler" /\ UNCHANGED <<kubeVars, oneShotVars, pgVars, active>>
KubeRuns == active = "kubernetes" /\ UNCHANGED <<vars, oneShotVars, pgVars, active>>
OneShotRuns == active = "one-shot" /\ UNCHANGED <<vars, kubeVars, pgVars, active>>
PgRuns ==
  active = "postgres" /\ UNCHANGED <<vars, kubeVars, oneShotVars, active>>

MCNext ==
  \/ SchedulerRuns /\ Next
  \/ KubeRuns /\ KubeNext
  \/ OneShotRuns /\ OneShotNext
  \/ PgRuns /\ PgNext

-----------------------------------------------------------------------------
(* Fairness. The component that runs never changes, so weak (strong) fairness of *)
(* "the scheduler runs and A, or a cycle runs and B" is weak (strong) fairness *)
(* of A where the scheduler runs and of B where a cycle does: the clauses of the *)
(* components share the operators below, which keeps their number small.            *)
(*   scheduler: Scheduler's FairSpec, for the one loop of the instance;              *)
(*   kubernetes: events arrive, the informer resyncs, every feed is polled again;    *)
(*   one-shot: the cycle and its workers run;                                          *)
(*   postgres: the server ends dead sessions, tasks run, Close ends, and the pool        *)
(*     serves those who wait for a connection in turn.                                    *)
WeakMain ==
  \/ SchedulerRuns /\ Reconcile
  \/ PgRuns /\ SessionEnds
  \/ KubeRuns /\ ReportWrites
  \/ OneShotRuns /\ CycleStep
WeakFirst(x) ==
  \/ PgRuns /\ PoolClose(PgInstAt[x])
  \/ KubeRuns /\ InformerEvent(ResourceAt[x])
  \/ OneShotRuns /\ WorkerStep(WorkerAt[x])
WeakSecond(x) ==
  \/ PgRuns /\ TaskStep(PgInstAt[x], TaskAt[1])
  \/ KubeRuns /\ Resync(ResourceAt[x])
  \/ SchedulerRuns /\ x = 1 /\ \E l \in Loop : runTickEnd(l)
WeakThird(x) ==
  \/ PgRuns /\ TaskStep(PgInstAt[x], TaskAt[2])
  \/ SchedulerRuns /\ IF x = 1 THEN Trigger ELSE drainAll
WeakFourth == SchedulerRuns /\ \E l \in Loop : LoopPoke(l)
StrongFirst(x) ==
  \/ SchedulerRuns /\ IF x = 1 THEN SelectChanges ELSE SelectDone
  \/ PgRuns /\ AcquireConn(PgInstAt[x], TaskAt[1])
  \/ KubeRuns /\ ReportLooksUp(KubeUrlAt[x])
StrongSecond(x) ==
  \/ PgRuns /\ AcquireConn(PgInstAt[x], TaskAt[2])
  \/ SchedulerRuns /\ IF x = 1 THEN SelectPollNow ELSE \E l \in Loop : LoopExit(l)

MCSpec ==
  /\ MCInit /\ [][MCNext]_daemonVars
  /\ WF_daemonVars(WeakMain) /\ WF_daemonVars(WeakFourth)
  /\ \A x \in 1..2 :
       /\ WF_daemonVars(WeakFirst(x)) /\ WF_daemonVars(WeakSecond(x))
       /\ WF_daemonVars(WeakThird(x))
       /\ SF_daemonVars(StrongFirst(x)) /\ SF_daemonVars(StrongSecond(x))
=============================================================================
