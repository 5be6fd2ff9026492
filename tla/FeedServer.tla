----------------------------- MODULE FeedServer -----------------------------
(* Requests to the feed sink (internal/sink/feed/server.go), served from a cache *)
(* that is filled outside its lock. A document stands for the number of writes   *)
(* it shows; authentication and rendering are left out. Times are whole seconds;  *)
(* DetectedAt, and so Last-Modified before it is sent, has a fraction besides.     *)
EXTENDS Integers

CONSTANTS Request, CacheTTL, MaxRender, MaxSecond, MaxChanges

ASSUME FeedServerAssumptions ==
  CacheTTL \in Nat /\ MaxRender \in Nat /\ MaxSecond \in Nat /\ MaxChanges \in Nat

VARIABLES
  changes,  \* number of writes to the window
  newest,   \* DetectedAt of its newest entry
  second,   \* now
  cached,   \* cachedDoc of the path
  request,  \* where each request is
  draft,    \* what it has read from the store
  shown     \* the document its client has

serverVars == <<changes, newest, second, cached, request, draft, shown>>

\* A document: what it shows, Last-Modified, when it was read (history) and rendered.
NoDoc == [shows |-> 0, modified |-> 0, read |-> 0, at |-> -1]

ServerInit ==
  /\ changes = 0 /\ newest = 0 /\ second = 1 /\ cached = NoDoc
  /\ request = [r \in Request |-> "idle"] /\ draft = [r \in Request |-> NoDoc]
  /\ shown = [r \in Request |-> NoDoc]

\* Last-Modified: DetectedAt of the newest entry.
Newer(at) == IF at > newest THEN at ELSE newest

\* Publish; an error envelope is not written.
PublishChange(at) ==
  /\ changes < MaxChanges /\ at <= second
  /\ changes' = changes + 1 /\ newest' = Newer(at)
  /\ UNCHANGED <<second, cached, request, draft, shown>>

-----------------------------------------------------------------------------
\* matchNotModified without If-None-Match: the client sends back Last-Modified, which
\* was cut to the second, and doc.modified has a fraction.
NotModified(doc, mine) == doc.modified < mine.modified

\* The response: 304 leaves the client with what it has.
Serve(r, doc) ==
  /\ shown' = [shown EXCEPT ![r] = IF NotModified(doc, shown[r]) THEN @ ELSE doc]
  /\ request' = [request EXCEPT ![r] = "served"]

FreshWhileRead(doc) == second - doc.at <= CacheTTL
Fresh(doc) == second - doc.at < CacheTTL

CacheHit(r) ==
  /\ request[r] = "idle" /\ cached # NoDoc /\ Fresh(cached)
  /\ Serve(r, cached)
  /\ UNCHANGED <<changes, newest, second, cached, draft>>

\* rawBody, without the lock: read the store ...
ReadRecent(r) ==
  /\ request[r] = "idle" /\ ~(cached # NoDoc /\ Fresh(cached))
  /\ draft' = [draft EXCEPT ![r] = [shows |-> changes, modified |-> newest,
                                    read |-> second, at |-> second]]
  /\ request' = [request EXCEPT ![r] = "render"]
  /\ UNCHANGED <<changes, newest, second, cached, shown>>

\* ... then render, cache the document and serve it. An older one may replace a newer.
Stamped(r) == [draft[r] EXCEPT !.at = second]

Render(r) ==
  /\ request[r] = "render"
  /\ cached' = Stamped(r) /\ Serve(r, Stamped(r))
  /\ draft' = [draft EXCEPT ![r] = NoDoc]
  /\ UNCHANGED <<changes, newest, second>>

RequestAgain(r) ==
  /\ request[r] = "served" /\ request' = [request EXCEPT ![r] = "idle"]
  /\ UNCHANGED <<changes, newest, second, cached, draft, shown>>

SecondPasses ==
  /\ second < MaxSecond /\ second' = second + 1
  /\ \A r \in Request : request[r] = "render" => second - draft[r].read < MaxRender
  /\ request' = [r \in Request |-> IF request[r] = "served" THEN "idle" ELSE request[r]]
  /\ UNCHANGED <<changes, newest, cached, draft, shown>>

ServerNext ==
  \/ \E at \in 1 .. MaxSecond : PublishChange(at)
  \/ \E r \in Request : CacheHit(r) \/ ReadRecent(r) \/ Render(r) \/ RequestAgain(r)
  \/ SecondPasses

ServerSpec == ServerInit /\ [][ServerNext]_serverVars

-----------------------------------------------------------------------------
\* What a client is served from the cache was read from the store less than the cache
\* time and the time of one rendering ago, also when a slow rendering of an older
\* document replaced a newer one. A 304 never hides a change: what the client has is,
\* if it differs, newer than the document it was compared with.
ServedIsFresh ==
  [][\A r \in Request : request[r] # "served" /\ request'[r] = "served" =>
       /\ request[r] = "idle" => second - cached.read < CacheTTL + MaxRender
       /\ shown'[r] # cached' => shown'[r].modified > cached'.modified]_serverVars
=============================================================================
