------------------------------ MODULE Delivery ------------------------------
(* One delivery of a change: RetryingPublisher.Deliver over retry.Do, the     *)
(* dead letter handoff and composite.Publish, for every validated layout of   *)
(* composites and dead letters. A driver's Publish is one external call.      *)
EXTENDS Integers, Sequences, FiniteSets, Functions

CONSTANTS Sink,       \* names of the declared sinks
          NoSink,     \* the empty dead_letter
          MaxAttempts,
          MaxDepth    \* bound on nested calls

ASSUME DeliveryAssumptions ==
  /\ IsFiniteSet(Sink) /\ NoSink \notin Sink
  /\ MaxAttempts \in Nat \ {0} /\ MaxDepth \in Nat

VARIABLES children,   \* child names of each composite; <<>> is another driver
          deadLetter, \* dead_letter of each sink
          root,       \* the sink of the feed that is delivered to
          bounded,    \* deliver_timeout > 0
          done,       \* the delivery's context is cancelled or past its deadline
          stack,      \* active calls, innermost last
          ret,        \* what the last call returned, "none" while one runs
          held,       \* sinks that hold the change or an envelope of it
          sent        \* acknowledged publishes of the change itself, by their paths

setup == <<children, deadLetter, root, bounded>>
deliveryVars == <<children, deadLetter, root, bounded, done, stack, ret, held, sent>>

IsComposite(s) == children[s] # <<>>

-----------------------------------------------------------------------------
(* Validation of the layout *)

\* dead_letter: none on a composite, never the sink itself.
ValidDeadLetter(kids, dead) ==
  \A s \in Sink : dead[s] # NoSink => kids[s] = <<>> /\ dead[s] # s

\* composite.children: no sink itself, no duplicates.
ValidChildren(kids) ==
  \A s \in Sink : s \notin Range(kids[s]) /\ IsInjective(kids[s])

\* Edges the delivery follows from a sink, one step and any number of steps.
Below(edges, from) ==
  LET grow[n \in Nat] == IF n = 0 THEN edges[from]
                         ELSE grow[n - 1] \cup UNION {edges[s] : s \in grow[n - 1]}
  IN  grow[Cardinality(Sink)]

\* compositeCycle, run on each composite, follows children that are composites.
AcyclicChildren(kids) ==
  \A s \in Sink : s \notin Below([t \in Sink |-> Range(kids[t])], s)

Validated(kids, dead) ==
  ValidDeadLetter(kids, dead) /\ ValidChildren(kids) /\ AcyclicChildren(kids)

\* No sink comes back to itself after a handoff to its dead letter.
NoDeadLetterCircle(kids, dead) ==
  \A s \in Sink : dead[s] # NoSink =>
    s \notin Below([t \in Sink |-> Range(kids[t]) \cup ({dead[t]} \ {NoSink})], dead[s])

-----------------------------------------------------------------------------
(* wrapSink: a composite gets one attempt and no dead letter *)

BudgetAlways(s) == MaxAttempts
Budget(s) == IF IsComposite(s) THEN 1 ELSE MaxAttempts

\* Frames: Deliver of the sink under its wrapper, and Publish of a composite.
DeliverFrame(s, env) == [fn |-> "Deliver", sink |-> s, pc |-> "loop", attempt |-> 1, env |-> env]
PublishFrame(s, env) == [fn |-> "Publish", sink |-> s, next |-> 1, dropped |-> FALSE, env |-> env]

Peek(s) == s[Len(s)]
Pop(s) == SubSeq(s, 1, Len(s) - 1)

Top == Peek(stack)
Rest == Pop(stack)
Path == [k \in DOMAIN stack |-> stack[k].sink]
Running == stack # <<>> /\ ret = "none"
InDeliver == Running /\ Top.fn = "Deliver"

DeliveryInit(layouts) ==
  /\ \E l \in layouts : children = l.children /\ deadLetter = l.deadLetter
  /\ root \in Sink /\ bounded \in BOOLEAN
  /\ done = FALSE /\ ret = "none" /\ held = {} /\ sent = <<>>
  /\ stack = <<DeliverFrame(root, FALSE)>>

Return(value) == stack' = Rest /\ ret' = value
SetTop(frame) == stack' = Append(Rest, frame)

\* Do has failed: hand over to the dead letter, once and with the same context,
\* or drop the change.
GiveUp(frame) ==
  IF IsComposite(frame.sink) \/ deadLetter[frame.sink] = NoSink
    THEN Return("dropped")
    ELSE SetTop([frame EXCEPT !.pc = "dlq"]) /\ ret' = "none"

\* Loop head of Do: give up when the context is done, otherwise call Publish.
Attempt ==
  /\ InDeliver /\ Top.pc = "loop"
  /\ IF done THEN GiveUp(Top)
             ELSE SetTop([Top EXCEPT !.pc = "publish"]) /\ ret' = "none"
  /\ UNCHANGED <<setup, done, held, sent>>

\* The sink whose Publish the innermost Deliver calls, and with which message.
Callee == IF Top.pc = "dlq" THEN deadLetter[Top.sink] ELSE Top.sink
Envelope == Top.env \/ Top.pc = "dlq"

\* Publish of a composite.
EnterComposite ==
  /\ InDeliver /\ Top.pc \in {"publish", "dlq"} /\ IsComposite(Callee)
  /\ Len(stack) < MaxDepth
  /\ stack' = Append(stack, PublishFrame(Callee, Envelope))
  /\ UNCHANGED <<setup, done, ret, held, sent>>

\* Publish of a driver: the sink may take the change and the answer be lost.
DriverPublish(took, acked) ==
  /\ InDeliver /\ Top.pc \in {"publish", "dlq"} /\ ~IsComposite(Callee)
  /\ acked => took
  /\ held' = IF took THEN held \cup {Callee} ELSE held
  /\ sent' = IF acked /\ ~Envelope THEN Append(sent, Path) ELSE sent
  /\ ret' = IF acked THEN "ok" ELSE "error"
  /\ UNCHANGED <<setup, done, stack>>

\* Deliver takes up what Publish returned: success, the next attempt after the
\* delay, or the end of the budget. select prefers neither the timer nor Done.
Conclude ==
  /\ stack # <<>> /\ Top.fn = "Deliver" /\ ret \in {"ok", "error"}
  /\ CASE Top.pc = "dlq" -> Return(IF ret = "ok" THEN "dlq" ELSE "dropped")
       [] Top.pc = "publish" /\ ret = "ok" -> Return("success")
       [] Top.pc = "publish" /\ ret = "error" ->
            \/ Top.attempt >= Budget(Top.sink) /\ GiveUp(Top)
            \/ Top.attempt < Budget(Top.sink) /\ done /\ GiveUp(Top)
            \/ /\ Top.attempt < Budget(Top.sink) /\ ret' = "none"
               /\ SetTop([Top EXCEPT !.pc = "loop", !.attempt = @ + 1])
  /\ UNCHANGED <<setup, done, held, sent>>

SameChild(i) == i
Following(i) == i + 1

\* Publish of a composite delivers to its children one after the other, whatever
\* became of the ones before, and reports the dropped ones.
NextChild ==
  /\ Running /\ Top.fn = "Publish" /\ Top.next <= Len(children[Top.sink])
  /\ Len(stack) < MaxDepth
  /\ stack' = Append(Rest \o <<[Top EXCEPT !.next = Following(@)]>>,
                     DeliverFrame(children[Top.sink][Top.next], Top.env))
  /\ UNCHANGED <<setup, done, ret, held, sent>>

LastDropped(frame, result) == result = "dropped"
Dropped(frame, result) == frame.dropped \/ result = "dropped"

ChildDone ==
  /\ stack # <<>> /\ Top.fn = "Publish" /\ ret \in {"success", "dlq", "dropped"}
  /\ SetTop([Top EXCEPT !.dropped = Dropped(Top, ret)])
  /\ ret' = "none"
  /\ UNCHANGED <<setup, done, held, sent>>

ExitComposite ==
  /\ Running /\ Top.fn = "Publish" /\ Top.next > Len(children[Top.sink])
  /\ Return(IF Top.dropped THEN "error" ELSE "ok")
  /\ UNCHANGED <<setup, done, held, sent>>

\* The deadline of the outermost Deliver passes (those of nested ones are later),
\* or the process shuts down.
ContextDone ==
  /\ stack # <<>> /\ ~done
  /\ done' = TRUE
  /\ UNCHANGED <<setup, stack, ret, held, sent>>

DriverReturns == \E took, acked \in BOOLEAN : DriverPublish(took, acked)
DeliveryStep == Attempt \/ EnterComposite \/ Conclude \/ NextChild \/ ChildDone \/ ExitComposite
DeliveryNext == DeliveryStep \/ DriverReturns \/ ContextDone

-----------------------------------------------------------------------------
Returned == stack = <<>>

\* With the children of a composite, or with the dead letter of a sink, comes the sink.
ClosedUpward(S) ==
  \A s \in Sink : \/ IsComposite(s) /\ Range(children[s]) \subseteq S
                  \/ deadLetter[s] \in S
                  => s \in S

\* The change, or an envelope of it, is in the hands of s or of its dead letter: the
\* least such set around the sinks that hold it.
Secured == {s \in Sink : \A S \in SUBSET Sink : held \subseteq S /\ ClosedUpward(S) => s \in S}

\* Whatever fails, times out or is answered too late in a tree of composites and
\* dead letters, Deliver reports success or dlq only if every sink below holds the
\* change or its dead letter does: Pipeline commits the item on the strength of it.
NothingLostSilently == Returned /\ ret \in {"success", "dlq"} => root \in Secured

\* A child that has taken the change is not sent it again because a sibling failed, or
\* because the composite around it did: along each path of composites to a sink, the
\* sink acknowledges the change at most once.
NoResendToChildren == IsInjective(sent)

\* deliver_timeout bounds a delivery, attempts and dead letters included, even when
\* every driver hangs until its context is done. (It returns once and for all.)
DeliveryEnds == []<>(bounded => Returned)
=============================================================================
