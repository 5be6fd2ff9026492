----------------------------- MODULE KubeSource -----------------------------
(* The kubernetes feed source (internal/feedsource/sources/kubernetes): the     *)
(* specs and the URL index its informer's handlers keep, and the status that a   *)
(* poll writes back to the custom resource the index names.                        *)
EXTENDS Naturals, FiniteSets

CONSTANTS Resource, KubeUrl, NoUrl, NoResource, MaxApplies

ASSUME KubeAssumptions ==
  NoUrl \notin KubeUrl /\ NoResource \notin Resource /\ MaxApplies \in Nat

VARIABLES
  cluster,  \* spec.url of each Feed resource; NoUrl: there is none
  unseen,   \* resources with an event on its way to the informer's handlers
  specs,    \* k.specs
  index,    \* k.index
  report,   \* the ReportPoll in progress: the URL polled and the resource found for it
  status,   \* the URL whose poll the status of each resource is about
  applies   \* bound: number of edits and failed writes

kubeVars == <<cluster, unseen, specs, index, report, status, applies>>

NoReport == [url |-> NoUrl, key |-> NoResource]

\* The initial sync adds the resources one by one.
KubeInit ==
  /\ cluster \in [Resource -> KubeUrl \cup {NoUrl}]
  /\ unseen = {k \in Resource : cluster[k] # NoUrl}
  /\ specs = [k \in Resource |-> NoUrl] /\ index = [u \in KubeUrl |-> NoResource]
  /\ report = NoReport /\ status = [k \in Resource |-> NoUrl] /\ applies = 0

\* Someone creates, changes or deletes a resource.
Apply(k, u) ==
  /\ applies < MaxApplies /\ applies' = applies + 1
  /\ cluster' = [cluster EXCEPT ![k] = u] /\ unseen' = unseen \cup {k}
  /\ status' = [status EXCEPT ![k] = IF u = NoUrl THEN NoUrl ELSE @]
  /\ UNCHANGED <<specs, index, report>>

-----------------------------------------------------------------------------
DropOldEntry(k) == [u \in KubeUrl |-> IF u = specs[k] THEN NoResource ELSE index[u]]

\* AddFunc and UpdateFunc; an update without a change of the URL only sets its entry.
SkipsUnchanged(k) == specs[k] # cluster[k]
Indexes(k) == TRUE

upsert(k) ==
  /\ specs' = [specs EXCEPT ![k] = cluster[k]]
  /\ index' = IF ~Indexes(k) THEN index
              ELSE [(IF specs[k] = cluster[k] THEN index ELSE DropOldEntry(k))
                      EXCEPT ![cluster[k]] = k]

remove(k) == specs' = [specs EXCEPT ![k] = NoUrl] /\ index' = DropOldEntry(k)

Handle(k) == IF cluster[k] = NoUrl THEN remove(k) ELSE upsert(k)

InformerEvent(k) ==
  /\ k \in unseen /\ unseen' = unseen \ {k} /\ Handle(k)
  /\ UNCHANGED <<cluster, report, status, applies>>

\* The informer delivers what it has again every resync_interval.
Resync(k) ==
  /\ k \notin unseen /\ specs[k] # NoUrl /\ Handle(k)
  /\ UNCHANGED <<cluster, unseen, report, status, applies>>

\* ReportPoll after a poll of one of the feeds: look the resource up ...
ReportLooksUp(u) ==
  /\ report = NoReport /\ index[u] # NoResource /\ \E k \in Resource : specs[k] = u
  /\ report' = [url |-> u, key |-> index[u]]
  /\ UNCHANGED <<cluster, unseen, specs, index, status, applies>>

\* ... and write to it, if it still exists and the write does not fail; the write is an
\* event of its own.
ReportWrites ==
  /\ report # NoReport /\ report' = NoReport
  /\ \/ /\ cluster[report.key] # NoUrl
        /\ status' = [status EXCEPT ![report.key] = report.url]
        /\ unseen' = unseen \cup {report.key} /\ UNCHANGED applies
     \/ cluster[report.key] = NoUrl /\ UNCHANGED <<status, unseen, applies>>
     \/ applies < MaxApplies /\ applies' = applies + 1 /\ UNCHANGED <<status, unseen>>
  /\ UNCHANGED <<cluster, specs, index>>

KubeNext ==
  \/ \E k \in Resource :
       InformerEvent(k) \/ Resync(k) \/ \E u \in KubeUrl \cup {NoUrl} : Apply(k, u)
  \/ \E u \in KubeUrl : ReportLooksUp(u)
  \/ ReportWrites

-----------------------------------------------------------------------------
\* Resources that pass a URL between them can take each other's entry away; the resync
\* brings it back, and in the end every status is about the resource's own URL.
StatusArrives ==
  \A k \in Resource :
    <>[](cluster[k] # NoUrl /\ \A j \in Resource \ {k} : cluster[j] # cluster[k]) =>
      <>[](status[k] = cluster[k])
=============================================================================
