----------------------------- MODULE MCOpsAgent -----------------------------
(***************************************************************************)
(* The smallest workload in which rows of one case cross the publisher on  *)
(* their way to the bus: a creation and a move, each by its own goroutine. *)
(***************************************************************************)
EXTENDS OpsAgent, TLC

CONSTANT c1

MoveCall ==
  [op |-> "transition", case |-> c1, event |-> "start_analysis",
   ifMatch |-> NoHeader, key |-> NoKey, request |-> "empty", ctx |-> {}]

CreateCall ==
  [op |-> "create", case |-> NoCase, event |-> "case_created",
   ifMatch |-> NoHeader, key |-> NoKey, request |-> "empty", ctx |-> {}]

AgentAttempts ==
  (CreateCall :> 1) @@ (MoveCall :> 1)

AgentCalls == DOMAIN AgentAttempts
=============================================================================
