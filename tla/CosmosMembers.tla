--------------------------- MODULE CosmosMembers ---------------------------
(* Membership over Cosmos DB (internal/coord/cosmosdb/membership.go): each    *)
(* process upserts its document in three calls, and deletes, unconditionally, *)
(* the documents a query showed it as expired. Times are relative: entry[m]   *)
(* is what is left of the document of m by the slowest clock.                  *)
EXTENDS Integers, FiniteSets

CONSTANTS Peer, EntryTTL, Period, PeerSkew,
          MaxStall,   \* bound: ticks a heartbeat may be late or take
          MaxErrors   \* bound: number of failed calls

ASSUME MembersAssumptions ==
  /\ EntryTTL \in Nat /\ Period \in Nat \ {0} /\ PeerSkew \in Nat
  /\ MaxStall \in Nat /\ MaxErrors \in Nat

Absent == 0 - (PeerSkew + MaxStall + 1)   \* less than any document the model tells apart

VARIABLES
  entry,     \* time left of each document
  fast,      \* how far each clock is ahead
  call,      \* the call of Heartbeat that comes next; out: deregistered
  wait,      \* ticks since the last heartbeat began and read the clock
  ids,       \* the live set the query returned
  toReap,    \* expired documents still to be deleted
  errors     \* history: number of failed calls

memberVars == <<entry, fast, call, wait, ids, toReap, errors>>

MembersInit ==
  /\ entry = [m \in Peer |-> Absent]
  /\ fast \in [Peer -> 0 .. PeerSkew] /\ \E m \in Peer : fast[m] = 0
  /\ call = [m \in Peer |-> "idle"] /\ wait = [m \in Peer |-> Period]
  /\ ids = [m \in Peer |-> {m}] /\ toReap = [m \in Peer |-> {}]
  /\ errors = 0

Exists(m) == entry[m] > Absent
Now(m) == fast[m] - wait[m]
Calls(m, c) == call' = [call EXCEPT ![m] = c]
ErrorsOut == errors < MaxErrors /\ errors' = errors + 1

StoreEntry(m) == entry' = [entry EXCEPT ![m] = Now(m) + EntryTTL]
KeepEntry == UNCHANGED entry

-----------------------------------------------------------------------------
HeartbeatStarts(m) ==
  /\ call[m] = "idle" /\ wait[m] >= Period /\ Calls(m, "create")
  /\ wait' = [wait EXCEPT ![m] = 0]
  /\ UNCHANGED <<entry, fast, ids, toReap, errors>>

\* CreateItem; a document in the way is read and replaced.
CreateEntry(m) ==
  /\ call[m] = "create"
  /\ \/ ~Exists(m) /\ StoreEntry(m) /\ Calls(m, "query") /\ UNCHANGED errors
     \/ Exists(m) /\ Calls(m, "read") /\ KeepEntry /\ UNCHANGED errors
     \/ Calls(m, "idle") /\ KeepEntry /\ ErrorsOut
  /\ UNCHANGED <<fast, wait, ids, toReap>>

\* Not there any more: create it after all.
CreateIfGone(m) == StoreEntry(m) /\ Calls(m, "query")

ReadEntry(m) ==
  /\ call[m] = "read"
  /\ \/ ~Exists(m) /\ CreateIfGone(m) /\ UNCHANGED errors
     \/ Exists(m) /\ Calls(m, "replace") /\ KeepEntry /\ UNCHANGED errors
     \/ Calls(m, "idle") /\ KeepEntry /\ ErrorsOut
  /\ UNCHANGED <<fast, wait, ids, toReap>>

\* Only deletes by peers come in between: 404 is not an error.
ReplaceEntry(m) ==
  /\ call[m] = "replace"
  /\ \/ Exists(m) /\ StoreEntry(m) /\ Calls(m, "query") /\ UNCHANGED errors
     \/ ~Exists(m) /\ Calls(m, "query") /\ KeepEntry /\ UNCHANGED errors
     \/ Calls(m, "idle") /\ KeepEntry /\ ErrorsOut
  /\ UNCHANGED <<fast, wait, ids, toReap>>

ReapsFresh(m, n) == entry[n] <= Now(m) + EntryTTL - Period
Expired(m, n) == entry[n] <= Now(m)

queryLiveMembers(m) ==
  /\ call[m] = "query"
  /\ \/ /\ ids' = [ids EXCEPT ![m] = {n \in Peer : Exists(n) /\ ~Expired(m, n)}]
        /\ toReap' = [toReap EXCEPT ![m] = {n \in Peer : Exists(n) /\ Expired(m, n)}]
        /\ Calls(m, "reap") /\ UNCHANGED errors
     \/ Calls(m, "idle") /\ ErrorsOut /\ UNCHANGED <<ids, toReap>>
  /\ UNCHANGED <<entry, fast, wait>>

\* The delete carries no condition; its error is ignored.
Reap(m) ==
  /\ call[m] = "reap" /\ \E n \in toReap[m] :
       /\ entry' \in {[entry EXCEPT ![n] = Absent], entry}
       /\ toReap' = [toReap EXCEPT ![m] = @ \ {n}]
       /\ IF entry' = entry /\ Exists(n) THEN ErrorsOut ELSE UNCHANGED errors
  /\ UNCHANGED <<fast, call, wait, ids>>

HeartbeatReturns(m) ==
  /\ call[m] = "reap" /\ toReap[m] = {} /\ Calls(m, "idle")
  /\ UNCHANGED <<entry, fast, wait, ids, toReap, errors>>

DeregisterEntry(m) ==
  /\ call[m] = "idle" /\ Calls(m, "out")
  /\ entry' = [entry EXCEPT ![m] = Absent]
  /\ UNCHANGED <<fast, wait, ids, toReap, errors>>

Calling(m) == call[m] \notin {"idle", "out"}

TickMembers ==
  /\ \A m \in Peer : /\ Calling(m) => wait[m] < MaxStall
                     /\ call[m] = "idle" => wait[m] < Period + MaxStall
  /\ wait' = [m \in Peer |-> IF call[m] = "out" THEN 0 ELSE wait[m] + 1]
  /\ entry' = [m \in Peer |-> IF Exists(m) /\ entry[m] > Absent + 1 THEN entry[m] - 1 ELSE entry[m]]
  /\ UNCHANGED <<fast, call, ids, toReap, errors>>

MemberStep(m) ==
  \/ HeartbeatStarts(m) \/ CreateEntry(m) \/ ReadEntry(m) \/ ReplaceEntry(m)
  \/ queryLiveMembers(m) \/ Reap(m) \/ HeartbeatReturns(m)

MembersNext == (\E m \in Peer : MemberStep(m) \/ DeregisterEntry(m)) \/ TickMembers

-----------------------------------------------------------------------------
\* Starts on time, and is done before the fastest clock reads the last upsert as expired.
Prompt(m) ==
  /\ call[m] # "out" /\ wait[m] <= Period
  /\ Calling(m) => Period + wait[m] < EntryTTL - PeerSkew

\* A process whose heartbeats are prompt from some time on is from then on in every
\* live set it reads, whatever peers have deleted before and still have to delete.
ListedForGood == \A m \in Peer : <>[]Prompt(m) => <>[](m \in ids[m])
=============================================================================
