---------------------------- MODULE StreamConfirm ----------------------------
(* The RabbitMQ stream sink: Publish calls of several feeds share a producer   *)
(* and its confirmation channel of size one. The client (external) reports a   *)
(* status for every message it accepted: the server's, or a timeout.           *)
EXTENDS Integers, Sequences

CONSTANTS Caller,    \* polls that publish through the sink
          MaxCalls   \* bound on the calls of each

ASSUME StreamAssumptions == MaxCalls \in Nat

VARIABLES step,      \* where each Publish stands
          calls,     \* calls made by each
          expired,   \* its context is done
          mutex,     \* callers inside the critical section
          flight,    \* messages the client has accepted and not reported on
          confirms,  \* the channel
          outcome    \* [of, ok] as the last Publish of each took it

streamVars == <<step, calls, expired, mutex, flight, confirms, outcome>>

Msg(p) == <<p, calls[p]>>
Nothing == [of |-> <<>>, ok |-> FALSE]

StreamInit ==
  /\ step = [p \in Caller |-> "idle"] /\ calls = [p \in Caller |-> 0]
  /\ expired = [p \in Caller |-> FALSE] /\ mutex = {} /\ flight = {} /\ confirms = <<>>
  /\ outcome = [p \in Caller |-> Nothing]

Call(p) ==
  /\ step[p] = "idle" /\ calls[p] < MaxCalls
  /\ step' = [step EXCEPT ![p] = "lock"] /\ calls' = [calls EXCEPT ![p] = @ + 1]
  /\ expired' = [expired EXCEPT ![p] = FALSE]
  /\ outcome' = [outcome EXCEPT ![p] = Nothing]
  /\ UNCHANGED <<mutex, flight, confirms>>

NoMutex(p) == TRUE
MayEnter(p) == mutex = {}

Lock(p) ==
  /\ step[p] = "lock" /\ MayEnter(p)
  /\ mutex' = mutex \cup {p} /\ step' = [step EXCEPT ![p] = "send"]
  /\ UNCHANGED <<calls, expired, flight, confirms, outcome>>

KeepsLock(p) == UNCHANGED mutex /\ step' = [step EXCEPT ![p] = "idle"]
Leave(p) == mutex' = mutex \ {p} /\ step' = [step EXCEPT ![p] = "idle"]

\* The context is done, or Send refuses the message: nothing is under way.
Refuse(p) ==
  /\ step[p] = "send" /\ Leave(p)
  /\ UNCHANGED <<calls, expired, flight, confirms, outcome>>

Send(p) ==
  /\ step[p] = "send" /\ ~expired[p]
  /\ flight' = flight \cup {Msg(p)} /\ step' = [step EXCEPT ![p] = "wait"]
  /\ UNCHANGED <<calls, expired, mutex, confirms, outcome>>

\* The receive takes no notice of the context.
GivesUpWhenDone(p) == expired[p]
GivesUp(p) == FALSE

Receive(p) ==
  /\ step[p] = "wait"
  /\ \/ /\ confirms # <<>> /\ outcome' = [outcome EXCEPT ![p] = Head(confirms)]
        /\ confirms' = Tail(confirms)
     \/ GivesUp(p) /\ UNCHANGED <<confirms, outcome>>
  /\ Leave(p)
  /\ UNCHANGED <<calls, expired, flight>>

\* External: the client reports on a message when the channel has room.
Report ==
  /\ confirms = <<>>
  /\ \E m \in flight, ok \in BOOLEAN :
       confirms' = <<[of |-> m, ok |-> ok]>> /\ flight' = flight \ {m}
  /\ UNCHANGED <<step, calls, expired, mutex, outcome>>

Expire(p) ==
  /\ step[p] # "idle" /\ ~expired[p] /\ expired' = [expired EXCEPT ![p] = TRUE]
  /\ UNCHANGED <<step, calls, mutex, flight, confirms, outcome>>

StreamProgress(p) == Lock(p) \/ Refuse(p) \/ Send(p) \/ Receive(p)
StreamNext == Report \/ \E p \in Caller : Call(p) \/ StreamProgress(p) \/ Expire(p)

StreamSpec == StreamInit /\ [][StreamNext]_streamVars

-----------------------------------------------------------------------------
\* The confirmation that a Publish takes is that of its own message, also after
\* calls whose context ended while their message was under way.
ConfirmIsOwn ==
  \A p \in Caller : outcome[p] # Nothing => outcome[p].of = Msg(p)

\* No Publish waits for ever, in the queue for the mutex or on the channel, since
\* every accepted message is reported on.
PublishEnds == \A p \in Caller : []<>(step[p] = "idle")
=============================================================================
