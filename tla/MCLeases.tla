------------------------------ MODULE MCLeases ------------------------------
(* TLC instance of the Redis lease, of Cosmos DB membership and of the feed sources. *)
(* One of them runs in each behaviour.                                                  *)
EXTENDS RedisLease, CosmosMembers, Sources, SequencesExt

MCSourceTypes == {<<"http", "file">>, <<"file", "kubernetes">>}
MCSourceName == <<"b", "c">>

VARIABLE active

mcVars == <<vars, memberVars, sourceVars, active>>

MembersIdle ==
  /\ entry = [m \in Peer |-> Absent] /\ fast = [m \in Peer |-> 0]
  /\ call = [m \in Peer |-> "out"] /\ wait = fast /\ ids = [m \in Peer |-> {m}]
  /\ toReap = [m \in Peer |-> {}] /\ errors = 0

SourcesIdle ==
  /\ type = <<"http", "file">>
  /\ offered = [x \in Idx |-> List({})]
  /\ noticed = [x \in Idx |-> FALSE] /\ changed = noticed /\ carried = noticed
  /\ out = FALSE /\ reader = "nobody" /\ results = NoSlots
  /\ lastGood = [n \in {SourceName[x] : x \in Idx} |-> {}] /\ merged = NoFeed
  /\ failed = noticed /\ lastRead = [x \in Idx |-> {}] /\ edits = 0 /\ readErrors = 0

MCInit ==
  /\ active \in {"redis", "members", "sources"}
  /\ Init
  /\ IF active = "members" THEN MembersInit ELSE MembersIdle
  /\ IF active = "sources" THEN SourcesInit ELSE SourcesIdle

RedisRuns == active = "redis" /\ UNCHANGED <<memberVars, sourceVars, active>>
MembersRun == active = "members" /\ UNCHANGED <<vars, sourceVars, active>>
SourcesRun == active = "sources" /\ UNCHANGED <<vars, memberVars, active>>

MCNext ==
  \/ RedisRuns /\ Next
  \/ MembersRun /\ MembersNext
  \/ SourcesRun /\ SourcesNext

-----------------------------------------------------------------------------
(* Fairness. The component that runs never changes, so the components share clauses:  *)
(* fairness of "redis runs and A, or the members run and B" is fairness of A where      *)
(* redis runs and of B where the members do. Time passes, tickers tick, goroutines run,  *)
(* calls return, and the select that takes the aggregator's signal does not pass it over   *)
(* for ever.                                                                                *)
InstAt == SetToSeq(Inst)
PeerAt == SetToSeq(Peer)

WeakClock ==
  \/ RedisRuns /\ Tick
  \/ MembersRun /\ TickMembers
  \/ SourcesRun /\ DesiredReturns
WeakStep(x) ==
  \/ RedisRuns /\ Step(InstAt[x])
  \/ MembersRun /\ MemberStep(PeerAt[x])
  \/ SourcesRun /\ Feeds(x)
WeakEmit(x) == SourcesRun /\ Emit(x)
WeakTick(x) == SourcesRun /\ PollTicks(x)
WeakForward(x) == SourcesRun /\ ForwardStep(x)
StrongRead == SourcesRun /\ DesiredStarts("scheduler")

MCSpec ==
  /\ MCInit /\ [][MCNext]_mcVars /\ WF_mcVars(WeakClock) /\ SF_mcVars(StrongRead)
  /\ \A x \in 1..2 : /\ WF_mcVars(WeakStep(x)) /\ WF_mcVars(WeakEmit(x))
                      /\ WF_mcVars(WeakTick(x)) /\ WF_mcVars(WeakForward(x))
=============================================================================
