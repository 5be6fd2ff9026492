------------------------------ MODULE Scheduler ------------------------------
(***************************************************************************)
(* The daemon's scheduler (internal/scheduler/dynamic.go, serve.go): one   *)
(* main goroutine that reconciles the running feeds with the desired ones, *)
(* one loop goroutine per running feed, poll requests and shutdown.        *)
(***************************************************************************)
EXTENDS Naturals, Sequences, FiniteSets

CONSTANTS Url,
          Cfg,      \* feed configurations
          Bad,      \* those without an interval or that the factory refuses
          Loop,     \* goroutines (recycled)
          None,
          FeedSets, \* what the provider may return
          Assigned, \* the provider is the ownership filter of assignment mode
          QueueLen, \* capacity of the pollNow channel
          MaxFaults \* bound: number of provider errors

FeedSet == [Url -> Cfg \cup {None}]
NoFeeds == [u \in Url |-> None]

ASSUME SchedulerAssumptions ==
  /\ FeedSets \subseteq FeedSet /\ Assigned \in BOOLEAN
  /\ None \notin Cfg \cup Loop /\ Bad \subseteq Cfg
  /\ QueueLen \in Nat /\ MaxFaults \in Nat

VARIABLES
  want,      \* the feed set the provider would return now
  owe,       \* its latest change has not been signalled yet
  sig,       \* Changes() holds a signal
  asks,      \* the pollNow channel
  down,      \* ctx is cancelled
  main,      \* where the main goroutine is
  snap,      \* byURL of the last reconcile that was not aborted
  todo,      \* toStart of the reconcile in progress, what is left of it
  at,        \* URL whose loop the main goroutine waits for
  running,   \* the running map: URL to loop
  st,        \* state of each loop: "free", "poll", "wait" or "done"
  lurl,      \* its URL
  lcfg,      \* its configuration
  cancelled, \* rf.cancel was called
  poke,      \* rf.poke holds a request
  owed,      \* history: URLs with an accepted poll request and no poll since
  faults     \* history: number of provider errors

env == <<want, owe>>
rec == <<snap, todo, at>>
loops == <<st, lurl, lcfg, cancelled, poke>>
vars == <<env, sig, asks, down, main, rec, running, loops, owed, faults>>

Init ==
  /\ want \in FeedSets /\ owe = FALSE
  /\ sig = FALSE /\ asks = <<>> /\ down = FALSE
  /\ main = "plan" /\ snap = NoFeeds /\ todo = {} /\ at = None
  /\ running = NoFeeds
  /\ st = [l \in Loop |-> "free"]
  /\ lurl = [l \in Loop |-> None] /\ lcfg = [l \in Loop |-> None]
  /\ cancelled = [l \in Loop |-> FALSE] /\ poke = [l \in Loop |-> FALSE]
  /\ owed = {} /\ faults = 0

Config == [u \in Url |-> IF running[u] = None THEN None ELSE lcfg[running[u]]]

-----------------------------------------------------------------------------
\* The pre-build loop of reconcile.
ToStart(d) == {u \in Url : d[u] # None /\ Config[u] # d[u]}
Aborts(d) == \E u \in ToStart(d) : d[u] \in Bad

\* reconcile up to the point where it changes something, or its abort.
Plan ==
  /\ main = "plan"
  /\ \/ /\ ~Aborts(want)
        /\ main' = "stop" /\ snap' = want /\ todo' = ToStart(want)
        /\ UNCHANGED <<at, faults>>
     \/ /\ Aborts(want)
        /\ main' = "select" /\ UNCHANGED <<rec, faults>>
     \/ /\ faults < MaxFaults /\ faults' = faults + 1
        /\ main' = "select" /\ UNCHANGED rec
  /\ UNCHANGED <<env, sig, asks, down, running, loops, owed>>

\* cancel a loop and wait for it.
Stop(u, next) ==
  /\ cancelled' = [cancelled EXCEPT ![running[u]] = TRUE]
  /\ at' = u /\ main' = next
  /\ UNCHANGED <<env, sig, asks, down, snap, todo, running, st, lurl, lcfg, poke,
                 owed, faults>>

StopRemoved(u) ==
  /\ main = "stop" /\ running[u] # None /\ snap[u] = None
  /\ Stop(u, "stopping")

StopEnd ==
  /\ main = "stop" /\ \A u \in Url : running[u] # None => snap[u] # None
  /\ main' = "start"
  /\ UNCHANGED <<env, sig, asks, down, rec, running, loops, owed, faults>>

StopChanged(u) ==
  /\ main = "start" /\ u \in todo /\ running[u] # None
  /\ Stop(u, "restarting")

\* The receive from rf.done; the loop is garbage afterwards.
Stopped ==
  /\ main \in {"stopping", "restarting"} /\ st[running[at]] = "done"
  /\ main' = IF main = "stopping" THEN "stop" ELSE "start"
  /\ st' = [st EXCEPT ![running[at]] = "free"]
  /\ lurl' = [lurl EXCEPT ![running[at]] = None]
  /\ lcfg' = [lcfg EXCEPT ![running[at]] = None]
  /\ cancelled' = [cancelled EXCEPT ![running[at]] = FALSE]
  /\ poke' = [poke EXCEPT ![running[at]] = FALSE]
  /\ running' = [running EXCEPT ![at] = None]
  /\ at' = None
  /\ UNCHANGED <<env, sig, asks, down, snap, todo, owed, faults>>

\* A changed feed is stopped before it is started.
Occupied(u) == TRUE
Vacant(u) == running[u] = None

\* startFeed: the loop begins with a poll.
startFeed(u) ==
  /\ main = "start" /\ u \in todo /\ Vacant(u)
  /\ \E l \in Loop :
       /\ st[l] = "free"
       /\ st' = [st EXCEPT ![l] = "poll"]
       /\ lurl' = [lurl EXCEPT ![l] = u]
       /\ lcfg' = [lcfg EXCEPT ![l] = snap[u]]
       /\ running' = [running EXCEPT ![u] = l]
  /\ todo' = todo \ {u}
  /\ owed' = IF down THEN owed ELSE owed \ {u}
  /\ UNCHANGED <<env, sig, asks, down, main, snap, at, cancelled, poke, faults>>

StartEnd ==
  /\ main = "start" /\ todo = {}
  /\ main' = "select"
  /\ UNCHANGED <<env, sig, asks, down, rec, running, loops, owed, faults>>

-----------------------------------------------------------------------------
\* The cases of the main select.
SelectChanges ==
  /\ main = "select" /\ sig
  /\ sig' = FALSE /\ main' = "plan"
  /\ UNCHANGED <<env, asks, down, rec, running, loops, owed, faults>>

\* rf.poke has room for one request, whatever the loop is doing.
Unbuffered(l) == st[l] = "wait"
Buffered(l) == TRUE

SelectPollNow ==
  /\ main = "select" /\ asks # <<>>
  /\ asks' = Tail(asks)
  /\ LET l == running[Head(asks)]
     IN  poke' = IF l # None /\ Buffered(l) THEN [poke EXCEPT ![l] = TRUE] ELSE poke
  /\ UNCHANGED <<env, sig, down, main, rec, running, st, lurl, lcfg, cancelled, owed, faults>>

\* ctx.Done is one of the cases.
NoDoneCase == FALSE
DoneCase == down

SelectDone ==
  /\ main = "select" /\ DoneCase
  /\ main' = "drain"
  /\ cancelled' = [l \in Loop |-> cancelled[l] \/ \E u \in Url : running[u] = l]
  /\ UNCHANGED <<env, sig, asks, down, rec, running, st, lurl, lcfg, poke, owed,
                 faults>>

\* drainAll returns because all loops ended, or on the timeout.
drainAll ==
  /\ main = "drain"
  /\ main' = "exit"
  /\ UNCHANGED <<env, sig, asks, down, rec, running, loops, owed, faults>>

-----------------------------------------------------------------------------
\* runFeedLoop.  A poll whose ctx is cancelled fetches nothing.
Alive == main # "exit"
Ended(l) == cancelled[l] \/ down
BeginPoll(l) ==
  /\ st' = [st EXCEPT ![l] = "poll"]
  /\ owed' = IF Ended(l) THEN owed ELSE owed \ {lurl[l]}

runTickEnd(l) ==
  /\ Alive /\ st[l] = "poll"
  /\ st' = [st EXCEPT ![l] = "wait"]
  /\ UNCHANGED <<env, sig, asks, down, main, rec, running, lurl, lcfg, cancelled, poke,
                 owed, faults>>

LoopTick(l) ==
  /\ Alive /\ st[l] = "wait"
  /\ BeginPoll(l)
  /\ UNCHANGED <<env, sig, asks, down, main, rec, running, lurl, lcfg, cancelled, poke,
                 faults>>

LoopPoke(l) ==
  /\ Alive /\ st[l] = "wait" /\ poke[l]
  /\ BeginPoll(l)
  /\ poke' = [poke EXCEPT ![l] = FALSE]
  /\ UNCHANGED <<env, sig, asks, down, main, rec, running, lurl, lcfg, cancelled, faults>>

LoopExit(l) ==
  /\ Alive /\ st[l] = "wait" /\ Ended(l)
  /\ st' = [st EXCEPT ![l] = "done"]
  /\ UNCHANGED <<env, sig, asks, down, main, rec, running, lurl, lcfg, cancelled, poke,
                 owed, faults>>

-----------------------------------------------------------------------------
\* The provider's feed set changes; Changes() is signalled some time after.
Change(d) ==
  /\ Alive /\ want # d
  /\ want' = d /\ owe' = TRUE
  /\ UNCHANGED <<sig, asks, down, main, rec, running, loops, owed, faults>>

\* Trigger coalesces: the channel holds one signal, received or not.
IfListening == main = "select"
Signalled == TRUE

Trigger ==
  /\ Alive /\ owe
  /\ owe' = FALSE /\ sig' = (sig \/ Signalled)
  /\ UNCHANGED <<want, asks, down, main, rec, running, loops, owed, faults>>

\* The send to pollNow has a default case: it never waits for room.
Room == Len(asks) < QueueLen

\* handleFeedPoll looks the feed up in the aggregator's set, which in assignment
\* mode also has the feeds that other instances own.
Listed(u) == Assigned \/ want[u] # None

PollNow(u) ==
  /\ Alive /\ Listed(u) /\ Room
  /\ asks' = Append(asks, u) /\ owed' = owed \cup {u}
  /\ UNCHANGED <<env, sig, down, main, rec, running, loops, faults>>

Terminate ==
  /\ Alive /\ ~down
  /\ down' = TRUE
  /\ UNCHANGED <<env, sig, asks, main, rec, running, loops, owed, faults>>

-----------------------------------------------------------------------------
Reconcile ==
  \/ Plan \/ StopEnd \/ Stopped \/ StartEnd
  \/ \E u \in Url : StopRemoved(u) \/ StopChanged(u) \/ startFeed(u)

Next ==
  \/ Reconcile \/ SelectChanges \/ SelectPollNow \/ SelectDone \/ drainAll
  \/ \E l \in Loop : runTickEnd(l) \/ LoopTick(l) \/ LoopPoke(l) \/ LoopExit(l)
  \/ \E d \in FeedSets : Change(d)
  \/ Trigger
  \/ \E u \in Url : PollNow(u)
  \/ Terminate

Spec == Init /\ [][Next]_vars

\* Goroutines run, signals are forwarded, the drain timeout expires.  select
\* chooses at random among ready cases, so no case waits forever.
SchedulerFairness ==
  /\ WF_vars(Reconcile) /\ WF_vars(Trigger) /\ WF_vars(drainAll)
  /\ SF_vars(SelectChanges) /\ SF_vars(SelectPollNow) /\ SF_vars(SelectDone)
  /\ SF_vars(\E l \in Loop : LoopExit(l)) /\ \A l \in Loop : WF_vars(LoopPoke(l))

\* Polls end, too.
FairSpec == Spec /\ SchedulerFairness /\ \A l \in Loop : WF_vars(runTickEnd(l))

-----------------------------------------------------------------------------
\* Type invariant.
TypeOK ==
  /\ want \in FeedSet /\ owe \in BOOLEAN /\ sig \in BOOLEAN /\ down \in BOOLEAN
  /\ asks \in Seq(Url) /\ Len(asks) <= QueueLen
  /\ main \in {"plan", "stop", "stopping", "start", "restarting", "select", "drain", "exit"}
  /\ snap \in FeedSet /\ todo \subseteq Url /\ at \in Url \cup {None}
  /\ running \in [Url -> Loop \cup {None}]
  /\ st \in [Loop -> {"free", "poll", "wait", "done"}]
  /\ lurl \in [Loop -> Url \cup {None}] /\ lcfg \in [Loop -> Cfg \cup {None}]
  /\ cancelled \in [Loop -> BOOLEAN] /\ poke \in [Loop -> BOOLEAN]
  /\ owed \subseteq Url /\ faults \in 0 .. MaxFaults

Live(l) == st[l] \in {"poll", "wait"}

\* A feed has at most one loop in the process, also while it is being restarted
\* with a new configuration: its polls never overlap.
OneLoopPerUrl == \A l, m \in Loop : Live(l) /\ Live(m) /\ lurl[l] = lurl[m] => l = m

\* A reload is all or nothing: between reconciles the running feeds are exactly
\* those of one feed set the provider returned, with its configurations, and an
\* aborted reconcile leaves them alone.
AtomicReload == main = "select" => Config = snap

\* No feed runs with a configuration that the interval check or the factory
\* refuses, whatever else was in the set.
NoBadFeedRuns == \A l \in Loop : Live(l) => lcfg[l] \notin Bad

\* However reloads, restarts and failures follow each other, the loops of the process
\* are those of one accepted feed set, one for each feed.
ReloadIsSafe == OneLoopPerUrl /\ AtomicReload /\ NoBadFeedRuns

\* Coalesced signals lose nothing: when the provider settles on an acceptable feed
\* set, the daemon ends up running exactly that set.
Converges ==
  \A d \in FeedSets :
    (\A u \in Url : d[u] \notin Bad) =>
      (<>[](want = d /\ ~down) => <>[](Config = d))

\* Nothing of the provider's set can be started while one of its feeds is refused.
Refused == \E u \in Url : want[u] \in Bad

\* An accepted poll request is followed by a poll; a busy loop, a full poke channel or
\* a restart of the loop does not lose it. Exceptions: the process is shutting down,
\* or the feed is not running and is not going to be started, because it is not the
\* provider's (removed, or owned by another instance) or because the set has a feed
\* that is refused. The handler accepts such a request, and the scheduler drops it.
\* (An exception may pass before the request is dropped, hence "again and again".)
PollNowServed ==
  \A u \in Url :
    []<>(u \notin owed \/ down \/ (running[u] = None /\ (want[u] = None \/ Refused)))

\* serve ends after SIGTERM, which is never taken back.
ShutdownEnds == []<>(down => main = "exit")
=============================================================================
