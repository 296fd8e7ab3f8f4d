------------------------------ MODULE Workflow ------------------------------
(***************************************************************************)
(* The case state machine of llm-ops-agent, workflow/workflow.go: a table  *)
(* of moves, guards on three of them, and the pure function Decide that    *)
(* every transition of a case goes through.                                *)
(***************************************************************************)

\* The state constants; "" is the `from` of a case that is only being created.
State == {"NEW", "ANALYZING", "PLANNING", "WAIT_GATE", "EXECUTING",
          "VERIFYING", "CLOSED", "PARKED"}

Event == {"start_analysis", "analysis_done", "analysis_failed", "plan_ready",
          "plan_failed", "gate_approved", "gate_rejected", "exec_done",
          "exec_failed", "verify_pass", "verify_failed", "force_park"}

\* The booleans of workflow.Context. A context is the set of those that are true.
Flag == {"PlanComplete", "GateApproved", "ChangeWindow", "VerifyPassed"}

\* `table`: for each state, the events it accepts and where they lead.
Table ==
  [NEW       |-> [start_analysis |-> "ANALYZING", force_park |-> "PARKED"],
   ANALYZING |-> [analysis_done |-> "PLANNING", analysis_failed |-> "PARKED",
                  force_park |-> "PARKED"],
   PLANNING  |-> [plan_ready |-> "WAIT_GATE", plan_failed |-> "PARKED",
                  force_park |-> "PARKED"],
   WAIT_GATE |-> [gate_approved |-> "EXECUTING", gate_rejected |-> "PARKED",
                  force_park |-> "PARKED"],
   EXECUTING |-> [exec_done |-> "VERIFYING", exec_failed |-> "PARKED",
                  force_park |-> "PARKED"],
   VERIFYING |-> [verify_pass |-> "CLOSED", verify_failed |-> "PARKED",
                  force_park |-> "PARKED"],
   CLOSED    |-> <<>>,
   PARKED    |-> [start_analysis |-> "ANALYZING", plan_ready |-> "WAIT_GATE"]]

\* The lookup table[from][ev], and whether it finds an entry.
InTable(from, ev) == from \in State /\ ev \in DOMAIN Table[from]
Target(from, ev)  == Table[from][ev]

\* `guards`: the three moves that need more than the table. PARKED/plan_ready
\* enters WAIT_GATE too, and has no guard.
Guard(from, ev, ctx) ==
  /\ from = "PLANNING"  /\ ev = "plan_ready"    => "PlanComplete" \in ctx
  /\ from = "WAIT_GATE" /\ ev = "gate_approved" => {"GateApproved", "ChangeWindow"} \subseteq ctx
  /\ from = "VERIFYING" /\ ev = "verify_pass"   => "VerifyPassed" \in ctx

\* A Decide that never consults `guards`.
DecideUnguarded(from, ev, ctx) == IF InTable(from, ev) THEN "nil" ELSE "ErrIllegal"

\* The error of Decide; "nil" is success, and the intent then leads to Target.
Decide(from, ev, ctx) ==
  IF ~InTable(from, ev) THEN "ErrIllegal"
  ELSE IF ~Guard(from, ev, ctx) THEN "ErrGuard"
  ELSE "nil"
=============================================================================
