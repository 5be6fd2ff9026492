----------------------------- MODULE MCProcess -----------------------------
(* TLC instance of the parts of one process that do not depend on each other:   *)
(* one of them runs in each behaviour, the others stand still.                   *)
EXTENDS Startup, Boot, Scheduler, OwnerLoop, StateStore, FeedWindow, FeedServer, Detector,
  Sinks, Backoff, TLC

MCMember == 1 .. 3
MCRank == [m \in MCMember |-> m]

MCSinkLists ==
  LET kinds == {"kafka", "amqp091", "amqp10", "rabbitmq_stream", "nats", "azureservicebus",
                "gcp_pubsub", "postgres", "client", "aws", "composite", "feed"}
  IN  {<<a>> : a \in kinds} \cup {<<a, b>> : a \in kinds, b \in {"feed"}}

MCBootPlans ==
  {<<"telemetry", s>> \o k \o <<c, "instruments">> \o so \o <<"owner", "health", "admin">> :
     s \in {"state_postgres", "state_sqlite", "state_cloud"}, k \in MCSinkLists,
     c \in {"coord_redis", "coord_postgres"},
     so \in {<<"file", "kubernetes">>, <<"kubernetes", "source_postgres", "source_http">>}}

\* Entries with and without guid, link and date, and with three contents.
MCEntry ==
  {[guid |-> x[1], link |-> x[2], title |-> "t", pub |-> p, content |-> c[1], desc |-> c[2],
    spaced |-> "no"] :
     x \in {<<"a", "">>, <<"", "a">>, <<"", "">>}, p \in {0, 1},
     c \in {<<"", "x">>, <<"x", "y">>, <<"z", "y">>}}
MCDocument == {<<e>> : e \in MCEntry} \cup {<<e, f>> : e \in MCEntry, f \in MCEntry}

VARIABLE active

processVars == <<startVars, bootVars, vars, ownerVars, storeVars, windowVars, serverVars,
                 detectorVars, sinkVars, backoffVars, active>>

-----------------------------------------------------------------------------
StartupIdle == part = "timers" /\ startPhase = "read"
               /\ setting = [lock_ttl |-> 0, renewal |-> 0, heartbeat |-> 0, member_ttl |-> 0]
BootIdle == /\ bootPlan = <<>> /\ bootAt = 1 /\ bootStep = 1 /\ openRes = {}
            /\ bootPhase = "opening" /\ closeOrder = <<>>
SchedulerIdle ==
  /\ want = NoFeeds /\ owe = FALSE /\ sig = FALSE /\ asks = <<>> /\ down = FALSE
  /\ main = "plan" /\ snap = NoFeeds /\ todo = {} /\ at = None /\ running = NoFeeds
  /\ st = [l \in Loop |-> "free"] /\ lurl = [l \in Loop |-> None] /\ lcfg = lurl
  /\ cancelled = [l \in Loop |-> FALSE] /\ poke = cancelled /\ owed = {} /\ faults = 0
OwnerIdle == /\ score = [m \in Member |-> 0] /\ members = <<>> /\ i = 1 /\ best = Anyone
             /\ bestScore = 0 /\ found = FALSE
StoreIdle == /\ db = "sqlite" /\ ttl = 0 /\ half = 0 /\ itemRow = NoItem /\ metaRow = NoMeta
             /\ lastItem = NoItem /\ lastMeta = NoMeta /\ sweepAge = NoSweep /\ sweepDue = TRUE
WindowIdle == window = {} /\ latest = [e \in Entry |-> 0] /\ written = 0 /\ memory = TRUE
DetectorIdle ==
  document = <<>> /\ seen = {} /\ detected = <<>> /\ polling = FALSE /\ versions = 1

SinksIdle ==
  /\ driver = "stdout" /\ content = [j \in SinkItem |-> NoHash] /\ stored = content
  /\ storedAt = [j \in SinkItem |-> 0] /\ change = NoChange /\ tries = 0 /\ dest = <<>>
  /\ dedup = {} /\ late = {} /\ landed = FALSE /\ polls = 0 /\ paused = FALSE
BackoffIdle == baseDelay = 1 /\ maxDelay = 1 /\ retryNo = 0 /\ ceiling = 0

MCInit ==
  /\ active \in {"startup", "boot", "scheduler", "owner", "store", "window", "server", "detector",
                "sinks", "backoff"}
  /\ IF active = "startup" THEN StartupInit ELSE StartupIdle
  /\ IF active = "boot" THEN BootInit ELSE BootIdle
  /\ IF active = "scheduler" THEN Init ELSE SchedulerIdle
  /\ IF active = "owner" THEN OwnerInit ELSE OwnerIdle
  /\ IF active = "store" THEN StoreInit ELSE StoreIdle
  /\ IF active = "window" THEN WindowInit ELSE WindowIdle
  /\ ServerInit
  /\ IF active = "detector" THEN DetectorInit ELSE DetectorIdle
  /\ IF active = "sinks" THEN SinksInit(Driver) ELSE SinksIdle
  /\ IF active = "backoff" THEN BackoffInit ELSE BackoffIdle

MCNext ==
  \/ /\ active = "startup" /\ StartupNext
     /\ UNCHANGED <<bootVars, vars, ownerVars, storeVars, windowVars,
                    serverVars, detectorVars, sinkVars, backoffVars, active>>
  \/ /\ active = "boot" /\ BootNext
     /\ UNCHANGED <<startVars, vars, ownerVars, storeVars, windowVars,
                    serverVars, detectorVars, sinkVars, backoffVars, active>>
  \/ /\ active = "scheduler" /\ Next
     /\ UNCHANGED <<startVars, bootVars, ownerVars, storeVars, windowVars,
                    serverVars, detectorVars, sinkVars, backoffVars, active>>
  \/ /\ active = "owner" /\ OwnerNext
     /\ UNCHANGED <<startVars, bootVars, vars, storeVars, windowVars,
                    serverVars, detectorVars, sinkVars, backoffVars, active>>
  \/ /\ active = "store" /\ StoreNext
     /\ UNCHANGED <<startVars, bootVars, vars, ownerVars, windowVars,
                    serverVars, detectorVars, sinkVars, backoffVars, active>>
  \/ /\ active = "window" /\ WindowNext
     /\ UNCHANGED <<startVars, bootVars, vars, ownerVars, storeVars,
                    serverVars, detectorVars, sinkVars, backoffVars, active>>
  \/ /\ active = "server" /\ ServerNext
     /\ UNCHANGED <<startVars, bootVars, vars, ownerVars, storeVars,
                    windowVars, detectorVars, sinkVars, backoffVars, active>>
  \/ /\ active = "detector" /\ DetectorNext
     /\ UNCHANGED <<startVars, bootVars, vars, ownerVars, storeVars,
                    windowVars, serverVars, sinkVars, backoffVars, active>>
  \/ /\ active = "sinks" /\ SinksNext
     /\ UNCHANGED <<startVars, bootVars, vars, ownerVars, storeVars,
                    windowVars, serverVars, detectorVars, backoffVars, active>>
  \/ /\ active = "backoff" /\ BackoffNext
     /\ UNCHANGED <<startVars, bootVars, vars, ownerVars, storeVars,
                    windowVars, serverVars, detectorVars, sinkVars, active>>

MCSpec == MCInit /\ [][MCNext]_processVars

Symmetry == Permutations(Url) \cup Permutations(Loop)
=============================================================================
