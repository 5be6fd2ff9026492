---------------------------- MODULE MCDynamoLease ----------------------------
(* TLC instances of DynamoLease.                                             *)
EXTENDS DynamoLease
=============================================================================
