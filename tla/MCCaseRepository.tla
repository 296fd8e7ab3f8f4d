-------------------------- MODULE MCCaseRepository --------------------------
(***************************************************************************)
(* Workloads for CaseRepository: small sets of calls that meet in every    *)
(* way the code provides for: the same key sent twice and used for two     *)
(* different calls, stale and current versions, legal, guarded and illegal *)
(* events.                                                                 *)
(***************************************************************************)
EXTENDS CaseInvariant, TLC

CONSTANTS c1, c2, k1, k2

\* CreateCase puts []byte{} into the column, and so does the handler of a transition.
Create(key) ==
  [op |-> "create", case |-> NoCase, event |-> "case_created", ifMatch |-> NoHeader,
   key |-> key, request |-> "empty", ctx |-> {}]

Version(n) == [form |-> "number", n |-> n]

HttpMove(c, event, header, key) ==
  [op |-> "transition", case |-> c, event |-> event, ifMatch |-> header,
   key |-> key, request |-> "empty", ctx |-> {}]

\* A call of another caller of the port, who gives a request PostgreSQL accepts.
Move(c, event, header, key, ctx) ==
  [HttpMove(c, event, header, key) EXCEPT !.request = "json", !.ctx = ctx]

\* Contention on one case: created without a key, and with one, which always fails at its
\* last statement; analysed from version 1 under k2 twice, parked without key or version,
\* planned under the key of the creation, which then returns the outcome of the plan, and
\* approved by a gate that forgot the change window.
ContentionAttempts ==
  (Create(NoKey) :> 1)
    @@ (Create(k1) :> 1)
    @@ (Move(c1, "start_analysis", Version(1), k2, {}) :> 2)
    @@ (HttpMove(c1, "force_park", NoHeader, NoKey) :> 1)
    @@ (Move(c1, "plan_ready", NoHeader, k1, {}) :> 1)
    @@ (Move(c1, "gate_approved", NoHeader, NoKey, {"GateApproved"}) :> 1)

ContentionCalls == DOMAIN ContentionAttempts

\* Two cases created at once, then moved under one key: a key used for two calls.
TwoCaseAttempts ==
  (Create(NoKey) :> 2)
    @@ (Move(c1, "start_analysis", NoHeader, k1, {}) :> 2)
    @@ (Move(c2, "force_park", Version(1), k1, {}) :> 1)

TwoCaseCalls == DOMAIN TwoCaseAttempts

\* An operator who parks a case and quotes its version as the guide does.
HeaderAttempts ==
  (Create(NoKey) :> 1)
    @@ (HttpMove(c1, "force_park", NoHeader, NoKey) :> 1)
    @@ (HttpMove(c1, "plan_ready", NoHeader, NoKey) :> 1)
    @@ (HttpMove(c1, "gate_rejected", [form |-> "weak", n |-> 1], NoKey) :> 1)

HeaderCalls == DOMAIN HeaderAttempts

\* What the integration test does: a case created twice under one key, and moved under
\* another.
KeyAttempts ==
  (Create(k1) :> 2)
    @@ (Create(NoKey) :> 1)
    @@ (HttpMove(c1, "start_analysis", Version(1), k2) :> 2)

KeyCalls == DOMAIN KeyAttempts

ProcSymmetry == Permutations(Proc)
=============================================================================
