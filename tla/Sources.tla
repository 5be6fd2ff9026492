------------------------------- MODULE Sources -------------------------------
(* The feed sources and their aggregator (internal/feedsource). A change of a   *)
(* source travels through two channels that hold one signal each; the consumer   *)
(* (ServeDynamic) then reads all sources at once and merges what they return.     *)
EXTENDS Integers, Sequences, FiniteSets, FiniteSetsExt

CONSTANTS
  FeedUrl,
  SourceName,   \* names of the sources, in precedence order
  SourceTypes,  \* their types: the combinations that are considered
  MaxEdits, MaxReadErrors

ASSUME SourcesAssumptions ==
  /\ SourceName \in Seq(STRING)
  /\ SourceTypes \subseteq
       [DOMAIN SourceName -> {"static", "file", "postgres", "http", "kubernetes"}]
  /\ MaxEdits \in Nat /\ MaxReadErrors \in Nat

Idx == DOMAIN SourceName

\* What a fetch may find: a list, or something that does not parse.
Broken == [feeds |-> {}, ok |-> FALSE]
List(urls) == [feeds |-> urls, ok |-> TRUE]

VARIABLES
  type,      \* types of the sources
  offered,   \* what the backing file, table, service or cluster holds
  noticed,   \* the debounce timer is armed, or an informer event is being handled
  changed,   \* Changes() of the source holds a signal
  carried,   \* its forward goroutine took one
  out,       \* Changes() of the aggregator holds a signal
  reader,    \* who is in Desired: "nobody", "scheduler" or "admin"
  results,   \* the slots of this call
  lastGood,  \* the lists of the last successful reads, by name
  merged,    \* what the scheduler was last given: URL to source, or 0
  failed,    \* history: the scheduler's last read of the source failed
  lastRead,  \* history: the list of its last successful read
  edits, readErrors

sourceVars == <<type, offered, noticed, changed, carried, out, reader, results, lastGood, merged,
                failed, lastRead, edits, readErrors>>
signals == <<noticed, changed, carried, out>>
history == <<failed, lastRead>>

Polled(i) == type[i] \in {"postgres", "http"}
Watched(i) == type[i] \in {"file", "kubernetes"}

Pending == [feeds |-> {}, ok |-> FALSE, filled |-> FALSE]
NoSlots == [i \in Idx |-> Pending]
NoFeed == [u \in FeedUrl |-> 0]

\* The scheduler reads once at start.
SourcesInit ==
  /\ type \in SourceTypes
  /\ offered \in [Idx -> {List(s) : s \in SUBSET FeedUrl}]
  /\ noticed = [i \in Idx |-> FALSE] /\ changed = noticed /\ carried = noticed
  /\ out = FALSE /\ reader = "scheduler" /\ results = NoSlots
  /\ lastGood = [n \in {SourceName[i] : i \in Idx} |-> {}] /\ merged = NoFeed
  /\ failed = noticed /\ lastRead = [i \in Idx |-> {}] /\ edits = 0 /\ readErrors = 0

-----------------------------------------------------------------------------
\* Someone edits the list. A file may be seen half written, and a list may hold an
\* entry that SpecsToConfigs refuses.
EditList(i) ==
  /\ type[i] # "static" /\ edits < MaxEdits /\ edits' = edits + 1
  /\ offered' \in {[offered EXCEPT ![i] = l] : l \in {List(s) : s \in SUBSET FeedUrl} \cup {Broken}}
  /\ noticed' = [noticed EXCEPT ![i] = Watched(i)]
  /\ UNCHANGED <<type, changed, carried, out, reader, results, lastGood, merged, history, readErrors>>

\* File.loop and the informer's handlers: a send that is dropped when one is pending.
Emit(i) ==
  /\ noticed[i] /\ noticed' = [noticed EXCEPT ![i] = FALSE]
  /\ changed' = [changed EXCEPT ![i] = TRUE]
  /\ UNCHANGED <<type, offered, carried, out, reader, results, lastGood, merged, history, edits, readErrors>>

\* Poll.loop.
PollTicks(i) ==
  /\ Polled(i) /\ ~changed[i] /\ changed' = [changed EXCEPT ![i] = TRUE]
  /\ UNCHANGED <<type, offered, noticed, carried, out, reader, results, lastGood, merged, history, edits, readErrors>>

\* forward.
ForwardTakes(i) ==
  /\ changed[i] /\ ~carried[i]
  /\ changed' = [changed EXCEPT ![i] = FALSE] /\ carried' = [carried EXCEPT ![i] = TRUE]
  /\ UNCHANGED <<type, offered, noticed, out, reader, results, lastGood, merged, history, edits, readErrors>>

\* Trigger: the channel has room for one signal, whatever the consumer does.
IfAwaited == out \/ reader = "nobody"
Triggered == TRUE

ForwardTriggers(i) ==
  /\ carried[i] /\ carried' = [carried EXCEPT ![i] = FALSE] /\ out' = Triggered
  /\ UNCHANGED <<type, offered, noticed, changed, reader, results, lastGood, merged, history, edits, readErrors>>

\* SIGHUP, or a reconcile request to the admin API.
Reload ==
  /\ ~out /\ out' = Triggered
  /\ UNCHANGED <<type, offered, noticed, changed, carried, reader, results, lastGood, merged, history, edits, readErrors>>

-----------------------------------------------------------------------------
\* Desired, under its mutex: for the scheduler after a signal, or for an admin request.
DesiredStarts(who) ==
  /\ reader = "nobody" /\ reader' = who
  /\ \/ who = "scheduler" /\ out /\ out' = FALSE
     \/ who = "admin" /\ UNCHANGED out
  /\ UNCHANGED <<type, offered, noticed, changed, carried, results, lastGood, merged, history, edits, readErrors>>

\* Feeds of one source, in a goroutine of its own. A 304 of an HTTP source stands for
\* the list it last decoded, which is the one the server still has.
Feeds(i) ==
  /\ reader # "nobody" /\ ~results[i].filled
  /\ \E ok \in {offered[i].ok, FALSE} :
       /\ ~ok /\ offered[i].ok => type[i] \in {"file", "postgres", "http"} /\ readErrors < MaxReadErrors
       /\ readErrors' = IF ~ok /\ offered[i].ok THEN readErrors + 1 ELSE readErrors
       /\ results' = [results EXCEPT ![i] = [feeds |-> IF ok THEN offered[i].feeds ELSE {}, ok |-> ok,
                                                filled |-> TRUE]]
       /\ failed' = IF reader = "scheduler" THEN [failed EXCEPT ![i] = ~ok] ELSE failed
       /\ lastRead' = [lastRead EXCEPT ![i] = IF ok THEN offered[i].feeds ELSE @]
  /\ UNCHANGED <<type, offered, signals, reader, lastGood, merged, edits>>

\* What the sources contribute, in order, an error replaced by the last good list under
\* that name, which an earlier source of the same name may just have written.
EmptyOnError(i) == {}
LastGoodOf(i) ==
  LET same == {j \in Idx : j < i /\ SourceName[j] = SourceName[i] /\ results[j].ok}
  IN  IF same = {} THEN lastGood[SourceName[i]] ELSE results[Max(same)].feeds

Contribution(i) == IF results[i].ok THEN results[i].feeds ELSE LastGoodOf(i)

\* The first source that has a URL wins.
Merge(lists) ==
  [u \in FeedUrl |-> LET by == {i \in Idx : u \in lists[i]} IN IF by = {} THEN 0 ELSE Min(by)]

DesiredReturns ==
  /\ reader # "nobody" /\ \A i \in Idx : results[i].filled
  /\ lastGood' = [n \in DOMAIN lastGood |->
                    LET good == {i \in Idx : SourceName[i] = n /\ results[i].ok}
                    IN  IF good = {} THEN lastGood[n] ELSE results[Max(good)].feeds]
  /\ merged' = IF reader = "scheduler" THEN Merge([i \in Idx |-> Contribution(i)]) ELSE merged
  /\ reader' = "nobody" /\ results' = NoSlots
  /\ UNCHANGED <<type, offered, signals, history, edits, readErrors>>

ForwardStep(i) == ForwardTakes(i) \/ ForwardTriggers(i)

SourcesNext ==
  \/ \E i \in Idx : EditList(i) \/ Emit(i) \/ PollTicks(i) \/ ForwardStep(i) \/ Feeds(i)
  \/ Reload \/ DesiredReturns
  \/ \E who \in {"scheduler", "admin"} : DesiredStarts(who)

SourcesSpec == SourcesInit /\ [][SourcesNext]_sourceVars

-----------------------------------------------------------------------------
\* A feed is dropped only when the source it came from was read without error and no
\* longer had it: an error takes none of a source's feeds away.
KeepsLastGood ==
  [][\A u \in FeedUrl : merged[u] # 0 /\ merged'[u] = 0 => u \notin lastRead[merged[u]]]_sourceVars

\* A watched source is read again only when it changes, or some other source does.
Stuck(i) == ~Polled(i) /\ failed[i]

\* No change is lost in the two channels or between a read and the next signal: in the
\* end the scheduler has what the sources offer, in the order of their precedence.
\* Excepted are broken lists, and a watched source whose last read failed.
ChangesArrive ==
  <>[](\A i \in Idx : offered[i].ok /\ ~Stuck(i)) =>
    <>[](merged = Merge([i \in Idx |-> offered[i].feeds]))
=============================================================================
