------------------------------- MODULE MCSinks -------------------------------
(* TLC instance of Sinks for the Cosmos DB driver alone.                       *)
EXTENDS Sinks

MCSpec == SinksSpec
=============================================================================
