----------------------------- MODULE MCDelivery -----------------------------
(* TLC instance of what happens to a change from the pipeline to a destination,   *)
(* and of the Cosmos DB coordinator. One component runs in each behaviour.          *)
EXTENDS Delivery, StreamConfirm, CosmosLease, SequencesExt

ChildLists == {q \in BoundedSeq(Sink, 2) : IsInjective(q)}
\* Layouts that Validate accepts, without those whose dead letters lead in a circle.
Layouts ==
  {l \in [children : [Sink -> ChildLists], deadLetter : [Sink -> Sink \cup {NoSink}]] :
     Validated(l.children, l.deadLetter) /\ NoDeadLetterCircle(l.children, l.deadLetter)}

VARIABLE active

mcVars == <<deliveryVars, streamVars, cosmosVars, active>>

DeliveryIdle ==
  /\ children = [s \in Sink |-> <<>>] /\ deadLetter = [s \in Sink |-> NoSink]
  /\ root \in {CHOOSE s \in Sink : TRUE} /\ bounded = FALSE /\ done = FALSE /\ stack = <<>>
  /\ ret = "dropped" /\ held = {} /\ sent = <<>>
CosmosIdle ==
  /\ ahead = [p \in Holder |-> 0] /\ doc = FALSE /\ left = 0 /\ mine = {} /\ read = {}
  /\ lateDel = FALSE /\ at = [p \in Holder |-> "idle"] /\ since = ahead
  /\ inHeld = {} /\ closed = Holder /\ closing = {} /\ failures = 0
MCInit ==
  /\ active \in {"delivery", "stream", "lease"}
  /\ IF active = "delivery" THEN DeliveryInit(Layouts) ELSE DeliveryIdle
  /\ StreamInit
  /\ IF active = "lease" THEN CosmosInit ELSE CosmosIdle

DeliveryRuns == active = "delivery" /\ UNCHANGED <<streamVars, cosmosVars, active>>
StreamRuns == active = "stream" /\ UNCHANGED <<deliveryVars, cosmosVars, active>>
LeaseRuns == active = "lease" /\ UNCHANGED <<deliveryVars, streamVars, active>>

MCNext ==
  \/ DeliveryRuns /\ DeliveryNext
  \/ StreamRuns /\ StreamNext
  \/ LeaseRuns /\ CosmosNext

-----------------------------------------------------------------------------
(* Fairness. The component that runs never changes, so the components share the     *)
(* clauses: fairness of "the lease runs and A, or the stream runs and B" is fairness   *)
(* of A where the lease runs and of B where the stream does.                            *)
(*   delivery: the code runs, deliver_timeout passes when there is one, and drivers      *)
(*     return once their context is done;                                                 *)
(*   stream: the client reports, callers run, and the mutex starves nobody;               *)
(*   lease: time passes, and the calls of an instance return.                              *)
HolderAt == SetToSeq(Holder)
CallerAt == SetToSeq(Caller)

WeakClock ==
  \/ DeliveryRuns /\ bounded /\ ContextDone
  \/ StreamRuns /\ Report
  \/ LeaseRuns /\ TickCosmos
WeakStep(x) ==
  \/ DeliveryRuns /\ IF x = 1 THEN DeliveryStep ELSE done /\ DriverReturns
  \/ StreamRuns /\ (Refuse(CallerAt[x]) \/ Send(CallerAt[x]) \/ Receive(CallerAt[x]))
  \/ LeaseRuns /\ CosmosStep(HolderAt[x])
StrongLock(x) == StreamRuns /\ Lock(CallerAt[x])

MCSpec ==
  /\ MCInit /\ [][MCNext]_mcVars /\ WF_mcVars(WeakClock)
  /\ \A x \in 1..2 : WF_mcVars(WeakStep(x)) /\ SF_mcVars(StrongLock(x))
=============================================================================
