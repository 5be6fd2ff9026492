----------------------------- MODULE FeedWindow -----------------------------
(* The window of recent changes behind the feed sink (internal/sink/feed,      *)
(* store_*.go): pruned at every write (memory) or every so many (SQL). Times    *)
(* are whole seconds; DetectedAt has a fraction besides, so changes of one      *)
(* second are in an order the model leaves open.                                  *)
EXTENDS Integers, FiniteSets

CONSTANTS Entry, MaxItems, PruneEvery, MaxStamp, MaxWrites

ASSUME FeedWindowAssumptions ==
  MaxItems \in Nat \ {0} /\ PruneEvery \in Nat \ {0} /\ MaxStamp \in Nat /\ MaxWrites \in Nat

VARIABLES
  window,   \* the rows: entry and DetectedAt
  latest,   \* history: DetectedAt of the last version written of each entry; 0: none
  written,  \* number of writes
  memory    \* is it the memory store?

windowVars == <<window, latest, written, memory>>

WindowInit == window = {} /\ latest = [e \in Entry |-> 0] /\ written = 0 /\ memory \in BOOLEAN

Least(a, b) == IF a < b THEN a ELSE b

\* A choice of the n newest rows; the order of rows of one second is not known.
Newest(rows, n) ==
  {s \in SUBSET rows : /\ Cardinality(s) = Least(n, Cardinality(rows))
                       /\ \A x \in s, y \in rows \ s : x.at >= y.at}

\* INSERT ... ON CONFLICT DO UPDATE, and the map of the memory store.
Put(e, at) == {x \in window : x.entry # e} \cup {[entry |-> e, at |-> at]}

MemoryWrite(e, at) ==
  IF Cardinality(Put(e, at)) > MaxItems THEN Newest(Put(e, at), MaxItems) ELSE {Put(e, at)}

PruneToOldest(rows) ==
  {t \in SUBSET rows : /\ Cardinality(t) = Least(MaxItems, Cardinality(rows))
                       /\ \A x \in t, y \in rows \ t : x.at <= y.at}
Prune(rows) == Newest(rows, MaxItems)

\* A prune may fail; its error is ignored.
SqlWrite(e, at) ==
  {Put(e, at)} \cup (IF (written + 1) % PruneEvery = 0 THEN Prune(Put(e, at)) ELSE {})

\* Versions of one entry arrive in the order of their detection, changes of different
\* feeds in any order.
Write(e, at) ==
  /\ written < MaxWrites /\ at >= latest[e]
  /\ window' \in (IF memory THEN MemoryWrite(e, at) ELSE SqlWrite(e, at))
  /\ latest' = [latest EXCEPT ![e] = at]
  /\ written' = written + 1
  /\ UNCHANGED memory

Recent == Newest(window, MaxItems)

WindowNext == \E e \in Entry, at \in 1 .. MaxStamp : Write(e, at)

WindowSpec == WindowInit /\ [][WindowNext]_windowVars

-----------------------------------------------------------------------------
Written == {[entry |-> e, at |-> latest[e]] : e \in {x \in Entry : latest[x] > 0}}

\* The window shows the newest MaxItems of all entries in their last version, though
\* rows are pruned late, or not at all, and in the order of detection, not of arrival.
WindowIsNewest == \A rows \in Recent : rows \in Newest(Written, MaxItems)
=============================================================================
