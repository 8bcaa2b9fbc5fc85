--------------------------- MODULE RunReducer_proofs ---------------------------
(***************************************************************************)
(* Lemmas about the reducer: one event keeps a run record well-formed, and *)
(* how it may move the turn and the budget.                                *)
(***************************************************************************)
EXTENDS RunReducer, WellFoundedInduction, TLAPS

\* A run that has not started has consumed no turn (creation fixes the budget).
FreshRun(s) == s.status \in {"new", "created"} => s.turn = 0

\* The inductive invariant of a run record.
Good(s) ==
    RunType(s) /\ FieldsMatchStatus(s) /\ AttemptsLeft(s) /\ BudgetKept(s) /\ FreshRun(s)

\* The statuses in which the model was not asked yet in this turn.
Asking == {"new", "created", "ready", "paused"}

\* How an event may move the turn and the budget: a run returns to Asking only
\* with a new turn, the budget is fixed at creation, and a model request finds a
\* ready run with budget left.
TurnStep(s, e, t) ==
    /\ t.turn \in {s.turn, s.turn + 1}
    /\ t.status \in Asking /\ s.status \notin Asking => t.turn = s.turn + 1
    /\ e.type = "run.created" => s.status = "new"
    /\ e.type # "run.created" => t.max = s.max
    /\ e.type = "model.action_requested" =>
          /\ s.status = "ready" /\ t.status = "model_pending"
          /\ e.turn = s.turn /\ t.turn = s.turn /\ BudgetAvailable(s)

\* An event that lets a waiting tool call start.
Releasing(e) ==
    \/ e.type \in {"tool.authorized", "gate.approved"}
    \/ e.type = "gate.evaluated" /\ e.outcome = "pass"

\* How an event may move the tool call and its gate: only a request makes a call
\* active, a release and a start keep it, and a gate that stays open keeps its
\* proposal unless the event carries a new one.
CallStep(s, e, t) ==
    /\ t.call \in {s.call, None} \/ (e.type = "tool.requested" /\ t.call = e.call)
    /\ e.type = "tool.requested" => t.status = "tool_pending" /\ t.call = e.call
    /\ Releasing(e) => t.status = "tool_ready" /\ t.call = e.call
    /\ e.type = "tool.started" => t.status = "tool_running" /\ t.call = e.call
    /\ t.status = "awaiting_gate" =>
          IF e.type \in {"tool.escalated", "gate.revised"}
          THEN t.gate.digest = e.digest /\ t.gate.revision = e.revision
          ELSE /\ s.status = "awaiting_gate"
               /\ t.gate.digest = s.gate.digest /\ t.gate.revision = s.gate.revision

\* t has these fields, and the sequence number of s.
Fields(t, s, status, turn, max, step, invocation, action, call, gate) ==
    /\ DOMAIN t = DOMAIN s /\ t.next = s.next
    /\ t.status = status /\ t.turn = turn /\ t.max = max /\ t.step = step
    /\ t.invocation = invocation /\ t.action = action
    /\ t.call = call /\ t.gate = gate

LEMMA Domain ==
    DOMAIN InitialRun = {"status", "next", "turn", "max", "step", "invocation",
                         "action", "call", "gate", "applied"}
BY DEF InitialRun

\* Every event is judged and applied by its family's guard and effect.
LEMMA Families ==
    ASSUME NEW s, NEW e
    PROVE  /\ e.type \in RunTypes => Effect(s, e) = RunEffect(s, e) /\ (Guard(s, e) <=> RunGuard(s, e))
           /\ e.type \in ModelTypes =>
                Effect(s, e) = ModelEffect(s, e) /\ (Guard(s, e) <=> ModelGuard(s, e))
           /\ e.type \in CompletionTypes =>
                Effect(s, e) = CompletionEffect(s, e) /\ (Guard(s, e) <=> CompletionGuard(s, e))
           /\ e.type \in GateTypes =>
                Effect(s, e) = GateEffect(s, e) /\ (Guard(s, e) <=> GateGuard(s, e))
           /\ e.type \in ToolTypes =>
                Effect(s, e) = ToolEffect(s, e) /\ (Guard(s, e) <=> ToolGuard(s, e))
           /\ e.type \in VerificationTypes =>
                Effect(s, e) = VerificationEffect(s, e) /\ (Guard(s, e) <=> VerificationGuard(s, e))
BY DEF Effect, Guard, RunTypes, ModelTypes, CompletionTypes, GateTypes, ToolTypes,
   VerificationTypes

LEMMA InitialGood == Good(InitialRun)
BY NoneAssumption DEF Good, InitialRun, NoGate, RunType, FieldsMatchStatus, AttemptsLeft,
   BudgetKept, FreshRun, Statuses, Terminal, ToolStatuses

\* The lifecycle events keep a run record good.
LEMMA RunFamily ==
    ASSUME NEW s, NEW e, Good(s), EventType(e), e.seq = s.next, s.status \notin Terminal,
           e.type \in RunTypes, RunGuard(s, e)
    PROVE  /\ Good(RunEffect(s, e)) /\ TurnStep(s, e, RunEffect(s, e))
           /\ CallStep(s, e, RunEffect(s, e))
<1> DEFINE t == RunEffect(s, e)
<1> USE DEF Good, RunType, Fields, RunGuard
<1>1. CASE e.type = "run.cancelled"
  <2>1. Fields(t, s, "cancelled", s.turn, s.max, 0, 0, 0, None, NoGate)
    BY <1>1, Domain DEF RunEffect, CloseModel
  <2> QED BY <1>1, <2>1, NoneAssumption DEF FieldsMatchStatus, AttemptsLeft,
             BudgetKept, FreshRun, TurnStep, Asking, CallStep, Releasing,
             EventType, Statuses, Terminal, ToolStatuses
<1>2. CASE e.type = "run.created"
  <2>1. Fields(t, s, "created", s.turn, e.max, s.step, s.invocation, s.action,
                s.call, s.gate)
    BY <1>2, Domain DEF RunEffect
  <2> QED BY <1>2, <2>1, NoneAssumption DEF FieldsMatchStatus, AttemptsLeft,
             BudgetKept, FreshRun, TurnStep, Asking, CallStep, Releasing,
             EventType, Statuses, Terminal, ToolStatuses
<1>3. CASE e.type = "run.started"
  <2>1. Fields(t, s, "ready", s.turn, s.max, s.step, s.invocation, s.action, s.call,
                s.gate)
    BY <1>3, Domain DEF RunEffect, Move
  <2> QED BY <1>3, <2>1, NoneAssumption DEF FieldsMatchStatus, AttemptsLeft,
             BudgetKept, FreshRun, TurnStep, Asking, CallStep, Releasing,
             EventType, Statuses, Terminal, ToolStatuses
<1>4. CASE e.type = "run.paused"
  <2>1. Fields(t, s, "paused", s.turn, s.max, s.step, s.invocation, s.action,
                s.call, s.gate)
    BY <1>4, Domain DEF RunEffect, Move
  <2> QED BY <1>4, <2>1, NoneAssumption DEF FieldsMatchStatus, AttemptsLeft,
             BudgetKept, FreshRun, TurnStep, Asking, CallStep, Releasing,
             EventType, Statuses, Terminal, ToolStatuses
<1>5. CASE e.type = "run.resumed"
  <2>1. Fields(t, s, "ready", s.turn, s.max, s.step, s.invocation, s.action, s.call,
                s.gate)
    BY <1>5, Domain DEF RunEffect, Move
  <2> QED BY <1>5, <2>1, NoneAssumption DEF FieldsMatchStatus, AttemptsLeft,
             BudgetKept, FreshRun, TurnStep, Asking, CallStep, Releasing,
             EventType, Statuses, Terminal, ToolStatuses
<1>6. CASE e.type = "run.step_budget_exhausted"
  <2>1. Fields(t, s, "failed", s.turn, s.max, s.step, s.invocation, s.action,
                s.call, s.gate)
    BY <1>6, Domain DEF RunEffect, Move
  <2> QED BY <1>6, <2>1, NoneAssumption DEF FieldsMatchStatus, AttemptsLeft,
             BudgetKept, FreshRun, TurnStep, Asking, CallStep, Releasing,
             EventType, Statuses, Terminal, ToolStatuses
<1> QED BY <1>1, <1>2, <1>3, <1>4, <1>5, <1>6 DEF RunTypes, EventType

\* So do the events of the model boundary.
LEMMA ModelFamily ==
    ASSUME NEW s, NEW e, Good(s), EventType(e), e.seq = s.next, s.status \notin Terminal,
           e.type \in ModelTypes, ModelGuard(s, e)
    PROVE  /\ Good(ModelEffect(s, e)) /\ TurnStep(s, e, ModelEffect(s, e))
           /\ CallStep(s, e, ModelEffect(s, e))
<1> DEFINE t == ModelEffect(s, e)
<1> USE DEF Good, RunType, Fields, ModelGuard
<1>1. CASE e.type = "model.action_requested"
  <2>1. Fields(t, s, "model_pending", s.turn, s.max, e.step, e.invocation, s.action,
                s.call, s.gate)
    BY <1>1, Domain DEF ModelEffect
  <2> QED BY <1>1, <2>1, NoneAssumption DEF FieldsMatchStatus, AttemptsLeft,
             BudgetKept, FreshRun, TurnStep, Asking, CallStep, Releasing,
             EventType, Statuses, Terminal, ToolStatuses,
             BudgetAvailable
<1>2. CASE e.type = "model.action_proposed"
  <2>1. Fields(t, s, "action_pending", s.turn, s.max, s.step, s.invocation, e.id,
                s.call, s.gate)
    BY <1>2, Domain DEF ModelEffect
  <2> QED BY <1>2, <2>1, NoneAssumption DEF FieldsMatchStatus, AttemptsLeft,
             BudgetKept, FreshRun, TurnStep, Asking, CallStep, Releasing,
             EventType, Statuses, Terminal, ToolStatuses,
             BudgetAvailable
<1>3. CASE e.type = "model.action_failed"
  <2>1. Fields(t, s, "failed", s.turn, s.max, 0, 0, 0, s.call, s.gate)
    BY <1>3, Domain DEF ModelEffect, CloseModel
  <2> QED BY <1>3, <2>1, NoneAssumption DEF FieldsMatchStatus, AttemptsLeft,
             BudgetKept, FreshRun, TurnStep, Asking, CallStep, Releasing,
             EventType, Statuses, Terminal, ToolStatuses,
             BudgetAvailable
<1> QED BY <1>1, <1>2, <1>3 DEF ModelTypes, EventType

\* So do the judged completions, which consume a step of the budget.
LEMMA CompletionFamily ==
    ASSUME NEW s, NEW e, Good(s), EventType(e), e.seq = s.next, s.status \notin Terminal,
           e.type \in CompletionTypes, CompletionGuard(s, e)
    PROVE  /\ Good(CompletionEffect(s, e)) /\ TurnStep(s, e, CompletionEffect(s, e))
           /\ CallStep(s, e, CompletionEffect(s, e))
<1> DEFINE t == CompletionEffect(s, e)
<1> USE DEF Good, RunType, Fields, CompletionGuard
<1>1. CASE e.type = "completion.accepted"
  <2>1. Fields(t, s, "completed", s.turn + 1, s.max, 0, 0, 0, s.call, s.gate)
    BY <1>1, Domain DEF CompletionEffect, CloseModel
  <2> QED BY <1>1, <2>1, NoneAssumption DEF FieldsMatchStatus, AttemptsLeft,
             BudgetKept, FreshRun, TurnStep, Asking, CallStep, Releasing,
             EventType, Statuses, Terminal, ToolStatuses,
             BudgetAvailable, AnswersAction
<1>2. CASE e.type = "completion.rejected"
  <2>1. Fields(t, s, "ready", s.turn + 1, s.max, 0, 0, 0, s.call, s.gate)
    BY <1>2, Domain DEF CompletionEffect, CloseModel
  <2> QED BY <1>2, <2>1, NoneAssumption DEF FieldsMatchStatus, AttemptsLeft,
             BudgetKept, FreshRun, TurnStep, Asking, CallStep, Releasing,
             EventType, Statuses, Terminal, ToolStatuses,
             BudgetAvailable, AnswersAction
<1> QED BY <1>1, <1>2 DEF CompletionTypes, EventType

\* So do the gate events: a gate is opened, replaced, counted up or cleared.
LEMMA GateFamily ==
    ASSUME NEW s, NEW e, Good(s), EventType(e), e.seq = s.next, s.status \notin Terminal,
           e.type \in GateTypes, GateGuard(s, e)
    PROVE  /\ Good(GateEffect(s, e)) /\ TurnStep(s, e, GateEffect(s, e))
           /\ CallStep(s, e, GateEffect(s, e))
<1> DEFINE t == GateEffect(s, e)
<1> USE DEF Good, RunType, Fields, GateGuard
<1>1. CASE e.type = "tool.escalated"
  <2>1. Fields(t, s, "awaiting_gate", s.turn, s.max, s.step, s.invocation, s.action,
                s.call, GateOf(e))
    BY <1>1, Domain DEF GateEffect, ActiveTool, ActiveGate
  <2> QED BY <1>1, <2>1, NoneAssumption DEF FieldsMatchStatus, AttemptsLeft,
             BudgetKept, FreshRun, TurnStep, Asking, CallStep, Releasing,
             EventType, Statuses, Terminal, ToolStatuses,
             ActiveTool, ActiveGate, OpensGate, NextAttempt, GateOf, Gate, NoGate,
             GateModes
<1>2. CASE e.type = "gate.revised"
  <2>1. Fields(t, s, "awaiting_gate", s.turn, s.max, s.step, s.invocation, s.action,
                s.call, GateOf(e))
    BY <1>2, Domain DEF GateEffect, ActiveTool, ActiveGate
  <2> QED BY <1>2, <2>1, NoneAssumption DEF FieldsMatchStatus, AttemptsLeft,
             BudgetKept, FreshRun, TurnStep, Asking, CallStep, Releasing,
             EventType, Statuses, Terminal, ToolStatuses,
             ActiveTool, ActiveGate, OpensGate, NextAttempt, GateOf, Gate, NoGate,
             GateModes
<1>3. CASE e.type = "gate.rejected"
  <2>1. Fields(t, s, "failed", s.turn, s.max, 0, s.invocation, s.action, None,
                NoGate)
    BY <1>3, Domain DEF GateEffect, CloseTool, ActiveTool, ActiveGate
  <2> QED BY <1>3, <2>1, NoneAssumption DEF FieldsMatchStatus, AttemptsLeft,
             BudgetKept, FreshRun, TurnStep, Asking, CallStep, Releasing,
             EventType, Statuses, Terminal, ToolStatuses,
             ActiveTool, ActiveGate, OpensGate, NextAttempt, GateOf, Gate, NoGate,
             GateModes
<1>4. CASE e.type = "gate.approved"
  <2>1. Fields(t, s, "tool_ready", s.turn, s.max, s.step, s.invocation, s.action,
                s.call, NoGate)
    BY <1>4, Domain DEF GateEffect, ActiveTool, ActiveGate
  <2> QED BY <1>4, <2>1, NoneAssumption DEF FieldsMatchStatus, AttemptsLeft,
             BudgetKept, FreshRun, TurnStep, Asking, CallStep, Releasing,
             EventType, Statuses, Terminal, ToolStatuses,
             ActiveTool, ActiveGate, OpensGate, NextAttempt, GateOf, Gate, NoGate,
             GateModes
<1>5. CASE e.type = "gate.evaluated" /\ e.outcome = "pass"
  <2>1. Fields(t, s, "tool_ready", s.turn, s.max, s.step, s.invocation, s.action,
                s.call, NoGate)
    BY <1>5, Domain DEF GateEffect, ActiveTool, ActiveGate
  <2> QED BY <1>5, <2>1, NoneAssumption DEF FieldsMatchStatus, AttemptsLeft,
             BudgetKept, FreshRun, TurnStep, Asking, CallStep, Releasing,
             EventType, Statuses, Terminal, ToolStatuses,
             ActiveTool, ActiveGate, OpensGate, NextAttempt, GateOf, Gate, NoGate,
             GateModes
<1>6. CASE e.type = "gate.evaluated" /\ e.outcome = "block"
  <2>1. Fields(t, s, "failed", s.turn, s.max, 0, s.invocation, s.action, None,
                NoGate)
    BY <1>6, Domain DEF GateEffect, CloseTool, ActiveTool, ActiveGate
  <2> QED BY <1>6, <2>1, NoneAssumption DEF FieldsMatchStatus, AttemptsLeft,
             BudgetKept, FreshRun, TurnStep, Asking, CallStep, Releasing,
             EventType, Statuses, Terminal, ToolStatuses,
             ActiveTool, ActiveGate, OpensGate, NextAttempt, GateOf, Gate, NoGate,
             GateModes
<1>7. CASE e.type = "gate.evaluated" /\ e.outcome = "retry"
  <2>1. Fields(t, s, "awaiting_gate", s.turn, s.max, s.step, s.invocation, s.action,
                s.call, [s.gate EXCEPT !.attempts = e.attempt])
    BY <1>7, Domain DEF GateEffect, ActiveTool, ActiveGate
  <2> QED BY <1>7, <2>1, NoneAssumption DEF FieldsMatchStatus, AttemptsLeft,
             BudgetKept, FreshRun, TurnStep, Asking, CallStep, Releasing,
             EventType, Statuses, Terminal, ToolStatuses,
             ActiveTool, ActiveGate, OpensGate, NextAttempt, GateOf, Gate, NoGate,
             GateModes
<1> QED BY <1>1, <1>2, <1>3, <1>4, <1>5, <1>6, <1>7 DEF GateTypes, EventType

\* So do the events of a tool call.
LEMMA ToolFamily ==
    ASSUME NEW s, NEW e, Good(s), EventType(e), e.seq = s.next, s.status \notin Terminal,
           e.type \in ToolTypes, ToolGuard(s, e)
    PROVE  /\ Good(ToolEffect(s, e)) /\ TurnStep(s, e, ToolEffect(s, e))
           /\ CallStep(s, e, ToolEffect(s, e))
<1> DEFINE t == ToolEffect(s, e)
<1> USE DEF Good, RunType, Fields, ToolGuard
<1>1. CASE e.type = "tool.requested"
  <2>1. Fields(t, s, "tool_pending", s.turn, s.max, e.step, 0, 0, e.call, s.gate)
    BY <1>1, Domain DEF ToolEffect, ActiveTool
  <2> QED BY <1>1, <2>1, NoneAssumption DEF FieldsMatchStatus, AttemptsLeft,
             BudgetKept, FreshRun, TurnStep, Asking, CallStep, Releasing,
             EventType, Statuses, Terminal, ToolStatuses,
             AnswersAction, BudgetAvailable, ActiveTool
<1>2. CASE e.type = "tool.authorized"
  <2>1. Fields(t, s, "tool_ready", s.turn, s.max, s.step, s.invocation, s.action,
                s.call, s.gate)
    BY <1>2, Domain DEF ToolEffect, Move, ActiveTool
  <2> QED BY <1>2, <2>1, NoneAssumption DEF FieldsMatchStatus, AttemptsLeft,
             BudgetKept, FreshRun, TurnStep, Asking, CallStep, Releasing,
             EventType, Statuses, Terminal, ToolStatuses,
             AnswersAction, BudgetAvailable, ActiveTool
<1>3. CASE e.type = "tool.started"
  <2>1. Fields(t, s, "tool_running", s.turn, s.max, s.step, s.invocation, s.action,
                s.call, s.gate)
    BY <1>3, Domain DEF ToolEffect, Move, ActiveTool
  <2> QED BY <1>3, <2>1, NoneAssumption DEF FieldsMatchStatus, AttemptsLeft,
             BudgetKept, FreshRun, TurnStep, Asking, CallStep, Releasing,
             EventType, Statuses, Terminal, ToolStatuses,
             AnswersAction, BudgetAvailable, ActiveTool
<1>4. CASE e.type = "tool.succeeded"
  <2>1. Fields(t, s, "verifying", s.turn, s.max, s.step, s.invocation, s.action,
                None, NoGate)
    BY <1>4, Domain DEF ToolEffect, ActiveTool
  <2> QED BY <1>4, <2>1, NoneAssumption DEF FieldsMatchStatus, AttemptsLeft,
             BudgetKept, FreshRun, TurnStep, Asking, CallStep, Releasing,
             EventType, Statuses, Terminal, ToolStatuses,
             AnswersAction, BudgetAvailable, ActiveTool
<1>5. CASE e.type \in {"tool.denied", "tool.failed", "tool.timed_out"}
  <2>1. Fields(t, s, "failed", s.turn, s.max, 0, s.invocation, s.action, None,
                NoGate)
    BY <1>5, Domain DEF ToolEffect, CloseTool, ActiveTool
  <2> QED BY <1>5, <2>1, NoneAssumption DEF FieldsMatchStatus, AttemptsLeft,
             BudgetKept, FreshRun, TurnStep, Asking, CallStep, Releasing,
             EventType, Statuses, Terminal, ToolStatuses,
             AnswersAction, BudgetAvailable, ActiveTool
<1> QED BY <1>1, <1>2, <1>3, <1>4, <1>5 DEF ToolTypes, EventType

\* So do the verification events.
LEMMA VerificationFamily ==
    ASSUME NEW s, NEW e, Good(s), EventType(e), e.seq = s.next, s.status \notin Terminal,
           e.type \in VerificationTypes, VerificationGuard(s, e)
    PROVE  /\ Good(VerificationEffect(s, e)) /\ TurnStep(s, e, VerificationEffect(s, e))
           /\ CallStep(s, e, VerificationEffect(s, e))
<1> DEFINE t == VerificationEffect(s, e)
<1> USE DEF Good, RunType, Fields, VerificationGuard
<1>1. CASE e.type = "verification.failed"
  <2>1. Fields(t, s, "failed", s.turn, s.max, 0, s.invocation, s.action, s.call,
                s.gate)
    BY <1>1, Domain DEF VerificationEffect
  <2> QED BY <1>1, <2>1, NoneAssumption DEF FieldsMatchStatus, AttemptsLeft,
             BudgetKept, FreshRun, TurnStep, Asking, CallStep, Releasing,
             EventType, Statuses, Terminal, ToolStatuses
<1>2. CASE e.type = "verification.succeeded" /\ e.scope = "run"
  <2>1. Fields(t, s, "completed", s.turn, s.max, 0, s.invocation, s.action, s.call,
                s.gate)
    BY <1>2, Domain DEF VerificationEffect
  <2> QED BY <1>2, <2>1, NoneAssumption DEF FieldsMatchStatus, AttemptsLeft,
             BudgetKept, FreshRun, TurnStep, Asking, CallStep, Releasing,
             EventType, Statuses, Terminal, ToolStatuses
<1>3. CASE e.type = "verification.succeeded" /\ e.scope = "step"
  <2>1. Fields(t, s, "ready", s.turn + 1, s.max, 0, s.invocation, s.action, s.call,
                s.gate)
    BY <1>3, Domain DEF VerificationEffect
  <2> QED BY <1>3, <2>1, NoneAssumption DEF FieldsMatchStatus, AttemptsLeft,
             BudgetKept, FreshRun, TurnStep, Asking, CallStep, Releasing,
             EventType, Statuses, Terminal, ToolStatuses
<1> QED BY <1>1, <1>2, <1>3 DEF VerificationTypes, EventType

\* Numbering and recording the applied event disturbs no other field.
LEMMA AppliedGood ==
    ASSUME NEW s, NEW e, Good(s), Good(Effect(s, e))
    PROVE  /\ Good(Applied(s, e))
           /\ Applied(s, e).next = s.next + 1
           /\ Applied(s, e).applied = s.applied \cup {e}
           /\ Applied(s, e).status = Effect(s, e).status
           /\ Applied(s, e).turn = Effect(s, e).turn
           /\ Applied(s, e).max = Effect(s, e).max
           /\ Applied(s, e).step = Effect(s, e).step
           /\ Applied(s, e).invocation = Effect(s, e).invocation
           /\ Applied(s, e).action = Effect(s, e).action
           /\ Applied(s, e).call = Effect(s, e).call
           /\ Applied(s, e).gate = Effect(s, e).gate
<1> DEFINE t == Effect(s, e)
           u == Applied(s, e)
<1>1. /\ DOMAIN u = DOMAIN t /\ u.next = s.next + 1 /\ u.applied = s.applied \cup {e}
      /\ u.status = t.status /\ u.turn = t.turn /\ u.max = t.max /\ u.step = t.step
      /\ u.invocation = t.invocation /\ u.action = t.action
      /\ u.call = t.call /\ u.gate = t.gate
  BY Domain DEF Applied, Good, RunType
<1>2. s.next + 1 \in Nat \ {0}
  BY DEF Good, RunType
<1> HIDE DEF t, u
<1>3. RunType(u)
  BY <1>1, <1>2 DEF t, Good, RunType
<1>4. FieldsMatchStatus(u) /\ AttemptsLeft(u) /\ BudgetKept(u) /\ FreshRun(u)
  BY <1>1 DEF t, Good, FieldsMatchStatus, AttemptsLeft, BudgetKept, FreshRun
<1> QED BY <1>1, <1>3, <1>4 DEF t, u, Good

LEMMA EffectGood ==
    ASSUME NEW s, NEW e, Good(s), EventType(e), Acceptable(s, e)
    PROVE  Good(Effect(s, e)) /\ TurnStep(s, e, Effect(s, e)) /\ CallStep(s, e, Effect(s, e))
<1>1. e.seq = s.next /\ s.status \notin Terminal /\ Guard(s, e)
  BY DEF Acceptable
<1>2. e.type \in RunTypes \cup ModelTypes \cup CompletionTypes \cup GateTypes
                \cup ToolTypes \cup VerificationTypes
  BY DEF EventType, EventTypes
<1> USE DEF Guard, Effect, RunTypes, ModelTypes, CompletionTypes, GateTypes, ToolTypes,
            VerificationTypes
<1>3. CASE e.type \in RunTypes
  <2>1. RunGuard(s, e) /\ Effect(s, e) = RunEffect(s, e)
    BY <1>1, <1>3
  <2> QED BY <1>1, <1>3, <2>1, RunFamily
<1>4. CASE e.type \in ModelTypes
  <2>1. ModelGuard(s, e) /\ Effect(s, e) = ModelEffect(s, e)
    BY <1>1, <1>4
  <2> QED BY <1>1, <1>4, <2>1, ModelFamily
<1>5. CASE e.type \in CompletionTypes
  <2>1. CompletionGuard(s, e) /\ Effect(s, e) = CompletionEffect(s, e)
    BY <1>1, <1>5
  <2> QED BY <1>1, <1>5, <2>1, CompletionFamily
<1>6. CASE e.type \in GateTypes
  <2>1. GateGuard(s, e) /\ Effect(s, e) = GateEffect(s, e)
    BY <1>1, <1>6
  <2> QED BY <1>1, <1>6, <2>1, GateFamily
<1>7. CASE e.type \in ToolTypes
  <2>1. ToolGuard(s, e) /\ Effect(s, e) = ToolEffect(s, e)
    BY <1>1, <1>7
  <2> QED BY <1>1, <1>7, <2>1, ToolFamily
<1>8. CASE e.type \in VerificationTypes
  <2>1. VerificationGuard(s, e) /\ Effect(s, e) = VerificationEffect(s, e)
    BY <1>1, <1>8
  <2> QED BY <1>1, <1>8, <2>1, VerificationFamily
<1> QED BY <1>2, <1>3, <1>4, <1>5, <1>6, <1>7, <1>8

\* Every event reduce accepts keeps a run record good.
LEMMA ReduceGood ==
    ASSUME NEW s, NEW e, Good(s), EventType(e), Legal(s, e)
    PROVE  Good(Reduce(s, e))
<1>1. CASE Redelivered(s, e)
  BY <1>1 DEF Reduce
<1>2. CASE ~Redelivered(s, e)
  BY <1>2, EffectGood, AppliedGood DEF Legal, Reduce
<1> QED BY <1>1, <1>2

\* One more event to replay: the run stays good or the log is rejected, and a call
\* becomes active only by its request.
LEMMA ReplayStepGood ==
    ASSUME NEW s, NEW e, s = Rejected \/ Good(s), EventType(e)
    PROVE  /\ ReplayStep(s, e) = Rejected \/ Good(ReplayStep(s, e))
           /\ \/ ReplayStep(s, e).call \in {s.call, None}
              \/ e.type = "tool.requested" /\ ReplayStep(s, e).call = e.call
<1>0. Rejected.call = None
  BY Domain DEF Rejected, InitialRun
<1>1. CASE ReplayStep(s, e) = Rejected
  BY <1>0, <1>1
<1>2. CASE ReplayStep(s, e) # Rejected
  <2>1. Good(s) /\ Legal(s, e) /\ ReplayStep(s, e) = Reduce(s, e)
    BY <1>2 DEF ReplayStep
  <2>2. CASE Redelivered(s, e)
    BY <2>1, <2>2 DEF Reduce
  <2>3. CASE ~Redelivered(s, e)
    <3>1. Acceptable(s, e) /\ ReplayStep(s, e) = Applied(s, e)
      BY <2>1, <2>3 DEF Legal, Reduce
    <3>2. Good(Effect(s, e)) /\ CallStep(s, e, Effect(s, e))
      BY <2>1, <3>1, EffectGood
    <3>3. Good(Applied(s, e)) /\ Applied(s, e).call = Effect(s, e).call
      BY <2>1, <3>2, AppliedGood
    <3> QED BY <3>1, <3>2, <3>3 DEF CallStep
  <2> QED BY <2>2, <2>3
<1> QED BY <1>1, <1>2

\* How an event moves the active call: t keeps the call and step of s, and e names it.
KeepsCall(s, e, t) == t.call = s.call /\ t.step = s.step /\ e.call = s.call

NamesGate(s, e) == e.digest = s.gate.digest /\ e.revision = s.gate.revision

GateOpened(e, t) ==
    /\ t.status = "awaiting_gate"
    /\ t.gate.digest = e.digest /\ t.gate.revision = e.revision /\ t.gate.mode = e.mode

CallEvents == GateTypes \cup (ToolTypes \ {"tool.denied", "tool.failed", "tool.timed_out"})

MovesCall(s, e, t) ==
    \/ /\ e.type = "tool.requested"
       /\ t.status = "tool_pending" /\ t.call = e.call /\ t.step = e.step
    \/ /\ e.type = "tool.authorized" /\ KeepsCall(s, e, t)
       /\ s.status = "tool_pending" /\ t.status = "tool_ready"
    \/ e.type = "tool.escalated" /\ KeepsCall(s, e, t) /\ s.status = "tool_pending" /\ GateOpened(e, t)
    \/ e.type = "gate.revised" /\ KeepsCall(s, e, t) /\ s.status = "awaiting_gate" /\ GateOpened(e, t)
    \/ /\ e.type = "gate.approved" \/ (e.type = "gate.evaluated" /\ e.outcome = "pass")
       /\ KeepsCall(s, e, t) /\ NamesGate(s, e)
       /\ s.status = "awaiting_gate" /\ t.status = "tool_ready"
       /\ (s.gate.mode = "pair") <=> (e.type = "gate.approved")
    \/ /\ e.type = "gate.evaluated" /\ e.outcome = "retry" /\ KeepsCall(s, e, t)
       /\ s.status = "awaiting_gate" /\ t.status = "awaiting_gate"
       /\ t.gate.digest = s.gate.digest /\ t.gate.revision = s.gate.revision
       /\ t.gate.mode = s.gate.mode
    \/ /\ e.type = "tool.started" /\ KeepsCall(s, e, t)
       /\ s.status = "tool_ready" /\ t.status = "tool_running"
    \/ /\ e.type = "tool.succeeded" /\ e.call = s.call /\ t.step = s.step
       /\ s.status = "tool_running" /\ t.status = "verifying"
    \/ /\ e.type \notin CallEvents \/ e.type = "gate.rejected"
            \/ (e.type = "gate.evaluated" /\ e.outcome = "block")
       /\ t.status \notin ToolStatuses \cup {"verifying"}

LEMMA CallMoves ==
    ASSUME NEW s, NEW e, Good(s), EventType(e), Acceptable(s, e)
    PROVE  MovesCall(s, e, Effect(s, e))
<1> DEFINE t == Effect(s, e)
<1>0. /\ DOMAIN s = {"status", "next", "turn", "max", "step", "invocation", "action", "call",
                     "gate", "applied"}
      /\ s.gate \in Gate \cup {NoGate}
      /\ Guard(s, e)
  BY Domain DEF Good, RunType, Acceptable
<1>1. CASE e.type \in RunTypes \cup ModelTypes \cup CompletionTypes
  <2>1. t.status \notin ToolStatuses \cup {"verifying"}
    <3>1. CASE e.type \in RunTypes
      <4>1. t = RunEffect(s, e)
        BY <3>1, Families
      <4> QED BY <1>0, <3>1, <4>1 DEF RunTypes, RunEffect, CloseModel, Move, ToolStatuses
    <3>2. CASE e.type \in ModelTypes
      <4>1. t = ModelEffect(s, e)
        BY <3>2, Families
      <4> QED BY <1>0, <3>2, <4>1 DEF ModelTypes, ModelEffect, CloseModel, ToolStatuses
    <3>3. CASE e.type \in CompletionTypes
      <4>1. t = CompletionEffect(s, e)
        BY <3>3, Families
      <4> QED BY <1>0, <3>3, <4>1 DEF CompletionTypes, CompletionEffect, CloseModel, ToolStatuses
    <3> QED BY <1>1, <3>1, <3>2, <3>3
  <2>2. e.type \notin CallEvents
    BY <1>1 DEF CallEvents, GateTypes, ToolTypes, RunTypes, ModelTypes, CompletionTypes
  <2> QED BY <2>1, <2>2 DEF MovesCall
<1>2. CASE e.type \in VerificationTypes
  <2>1. t = VerificationEffect(s, e) /\ e.scope = e.scope
    BY <1>2, Families
  <2>2. t.status \notin ToolStatuses \cup {"verifying"}
    BY <1>0, <1>2, <2>1 DEF VerificationTypes, VerificationEffect, ToolStatuses, EventType
  <2>3. e.type \notin CallEvents
    BY <1>2 DEF CallEvents, GateTypes, ToolTypes, VerificationTypes
  <2> QED BY <2>2, <2>3 DEF MovesCall
<1>3. CASE e.type \in ToolTypes
  <2>1. t = ToolEffect(s, e) /\ ToolGuard(s, e)
    BY <1>0, <1>3, Families
  <2>2. CASE e.type = "tool.requested"
    BY <1>0, <2>1, <2>2 DEF ToolEffect, MovesCall
  <2>3. CASE e.type = "tool.authorized"
    BY <1>0, <2>1, <2>3 DEF ToolEffect, ToolGuard, ActiveTool, Move, MovesCall, KeepsCall
  <2>4. CASE e.type = "tool.started"
    BY <1>0, <2>1, <2>4 DEF ToolEffect, ToolGuard, ActiveTool, Move, MovesCall, KeepsCall
  <2>5. CASE e.type = "tool.succeeded"
    <3>1. t.status = "verifying" /\ t.step = s.step
      BY <1>0, <2>1, <2>5 DEF ToolEffect
    <3>2. s.status = "tool_running" /\ e.call = s.call
      BY <2>1, <2>5 DEF ToolGuard, ActiveTool
    <3> QED BY <2>5, <3>1, <3>2 DEF MovesCall
  <2>6. CASE e.type \in {"tool.denied", "tool.failed", "tool.timed_out"}
    <3>1. t.status \notin ToolStatuses \cup {"verifying"}
      BY <1>0, <2>1, <2>6 DEF ToolEffect, CloseTool, ToolStatuses
    <3> QED BY <2>6, <3>1 DEF MovesCall, CallEvents, GateTypes
  <2> QED BY <1>3, <2>2, <2>3, <2>4, <2>5, <2>6 DEF ToolTypes
<1>4. CASE e.type \in GateTypes
  <2>1. t = GateEffect(s, e) /\ GateGuard(s, e)
    BY <1>0, <1>4, Families
  <2>2. CASE e.type = "tool.escalated"
    <3>1. t = [s EXCEPT !.status = "awaiting_gate", !.gate = GateOf(e)]
      BY <2>1, <2>2 DEF GateEffect
    <3>2. s.status = "tool_pending" /\ e.call = s.call
      BY <2>1, <2>2 DEF GateGuard, ActiveTool
    <3>3. GateOpened(e, t)
      BY <1>0, <3>1 DEF GateOf, GateOpened
    <3>4. t.call = s.call /\ t.step = s.step
      BY <1>0, <3>1
    <3> QED BY <2>2, <3>2, <3>3, <3>4 DEF MovesCall, KeepsCall
  <2>3. CASE e.type = "gate.revised"
    <3>1. t.call = s.call /\ t.step = s.step /\ t.gate = GateOf(e) /\ t.status = s.status
      BY <1>0, <2>1, <2>3 DEF GateEffect
    <3>2. s.status = "awaiting_gate" /\ e.call = s.call
      BY <2>1, <2>3 DEF GateGuard, ActiveTool
    <3>3. GateOpened(e, t)
      BY <3>1, <3>2 DEF GateOf, GateOpened
    <3> QED BY <2>3, <3>1, <3>2, <3>3 DEF MovesCall, KeepsCall
  <2>4. CASE e.type = "gate.approved"
    <3>1. t = [s EXCEPT !.status = "tool_ready", !.gate = NoGate]
      BY <2>1, <2>4 DEF GateEffect
    <3>2. /\ s.status = "awaiting_gate" /\ s.gate.mode = "pair"
          /\ e.call = s.call /\ NamesGate(s, e)
      BY <2>1, <2>4 DEF GateGuard, ActiveTool, ActiveGate, NamesGate
    <3>3. t.status = "tool_ready" /\ t.call = s.call /\ t.step = s.step
      BY <1>0, <3>1
    <3> QED BY <2>4, <3>2, <3>3 DEF MovesCall, KeepsCall
  <2>5. CASE e.type = "gate.rejected"
    BY <1>0, <2>1, <2>5 DEF GateEffect, CloseTool, MovesCall, ToolStatuses
  <2>6. CASE e.type = "gate.evaluated"
    <3>1. /\ e.outcome \in {"pass", "retry", "block"}
          /\ s.status = "awaiting_gate" /\ ActiveGate(s, e) /\ s.gate.mode = "user_gate"
      BY <2>1, <2>6 DEF GateGuard, EventType
    <3>2. CASE e.outcome = "pass"
      BY <1>0, <2>1, <2>6, <3>1, <3>2
         DEF GateEffect, ActiveTool, ActiveGate, MovesCall, KeepsCall, NamesGate
    <3>3. CASE e.outcome = "retry"
      <4>1. s.gate \in Gate
        BY <1>0, <3>1 DEF NoGate
      <4>2. t = [s EXCEPT !.gate.attempts = e.attempt]
        BY <2>1, <2>6, <3>3 DEF GateEffect
      <4> QED BY <1>0, <2>6, <3>1, <3>3, <4>1, <4>2
              DEF ActiveTool, ActiveGate, MovesCall, KeepsCall, Gate
    <3>4. CASE e.outcome = "block"
      <4>1. t.status = "failed"
        BY <1>0, <2>1, <2>6, <3>4 DEF GateEffect, CloseTool
      <4> QED BY <2>6, <3>4, <4>1 DEF MovesCall, ToolStatuses
    <3> QED BY <3>1, <3>2, <3>3, <3>4
  <2> QED BY <1>4, <2>2, <2>3, <2>4, <2>5, <2>6 DEF GateTypes
<1> QED BY <1>1, <1>2, <1>3, <1>4 DEF EventType, EventTypes

\* Nothing but its own outcome takes a call from a run that goes on.
LEMMA CallOutlasts ==
    ASSUME NEW s, NEW e, Good(s), EventType(e), Acceptable(s, e), s.call # None,
           Effect(s, e).call # s.call
    PROVE  Effect(s, e).status \in Terminal \/ (e.type = "tool.succeeded" /\ e.call = s.call)
<1> DEFINE t == Effect(s, e)
<1>1. /\ Guard(s, e) /\ s.status \in ToolStatuses /\ s.status # "ready"
      /\ DOMAIN s = {"status", "next", "turn", "max", "step", "invocation", "action", "call",
                     "gate", "applied"}
  BY Domain DEF Good, RunType, Acceptable, FieldsMatchStatus, ToolStatuses
<1>2. CASE e.type \in RunTypes
  <2>1. RunGuard(s, e) /\ t = RunEffect(s, e)
    BY <1>1, <1>2, Families
  <2>2. CASE e.type = "run.cancelled"
    <3>1. t = [CloseModel(s, "cancelled") EXCEPT !.call = None, !.gate = NoGate]
      BY <2>1, <2>2 DEF RunEffect
    <3>2. t.status = CloseModel(s, "cancelled").status
      BY <1>1, <3>1 DEF CloseModel
    <3>3. CloseModel(s, "cancelled").status = "cancelled"
      BY <1>1 DEF CloseModel
    <3> QED BY <3>2, <3>3 DEF Terminal
  <2>3. CASE e.type = "run.step_budget_exhausted"
    BY <1>1, <2>1, <2>3 DEF RunGuard
  <2>4. CASE e.type \notin {"run.cancelled", "run.step_budget_exhausted"}
    BY <1>1, <1>2, <2>1, <2>4 DEF RunTypes, RunGuard, ToolStatuses
  <2> QED BY <2>2, <2>3, <2>4
<1>3. CASE e.type \in ModelTypes
  BY <1>1, <1>3, Families DEF ModelTypes, ModelGuard, ToolStatuses
<1>4. CASE e.type \in CompletionTypes
  BY <1>1, <1>4, Families DEF CompletionTypes, CompletionGuard, AnswersAction, ToolStatuses
<1>5. CASE e.type \in VerificationTypes
  BY <1>1, <1>5, Families DEF VerificationGuard, ToolStatuses
<1>6. CASE e.type \in GateTypes \cup ToolTypes
  <2>1. MovesCall(s, e, t)
    BY CallMoves
  <2>2. t.status = "failed" \/ ~(e.type \in {"tool.denied", "tool.failed", "tool.timed_out",
            "gate.rejected"} \/ (e.type = "gate.evaluated" /\ e.outcome = "block"))
    BY <1>1, <1>6, Families DEF GateEffect, ToolEffect, CloseTool, GateTypes, ToolTypes
  <2>3. e.type = "tool.requested" => FALSE
    BY <1>1, Families DEF ToolGuard, AnswersAction, ToolTypes, ToolStatuses
  <2> QED BY <1>6, <2>1, <2>2, <2>3 DEF MovesCall, KeepsCall, CallEvents, GateTypes,
          ToolTypes, Terminal
<1> QED BY <1>2, <1>3, <1>4, <1>5, <1>6 DEF EventType, EventTypes

-----------------------------------------------------------------------------
(* Appending to the log.                                                   *)

IsSequence(s) == \E S : s \in Seq(S)

LEMMA AppendFacts ==
    ASSUME NEW s, NEW e, IsSequence(s)
    PROVE  /\ IsSequence(Append(s, e)) /\ Len(s) \in Nat
           /\ Len(Append(s, e)) = Len(s) + 1
           /\ \A i \in 1..Len(s) : Append(s, e)[i] = s[i]
           /\ Append(s, e)[Len(s) + 1] = e
<1>1. PICK S : s \in Seq(S)
  BY DEF IsSequence
<1>2. s \in Seq(S \cup {e})
  BY <1>1
<1> QED BY <1>2 DEF IsSequence

-----------------------------------------------------------------------------
(* Positions.                                                              *)

\* A non-empty set of positions has a last one.
LEMMA LastPosition ==
    ASSUME NEW n \in Nat, NEW T, T \subseteq 1..n, T # {}
    PROVE  \E i \in T : \A j \in T : j <= i
<1> DEFINE U == {n - i : i \in T}
<1>1. U \subseteq Nat
  <2>1. \A i \in T : n - i \in Nat
    OBVIOUS
  <2> QED BY <2>1
<1>2. U # {}
  OBVIOUS
<1>3. PICK x \in U : \A y \in U : ~(<<y, x>> \in OpToRel(<, Nat))
  <2> HIDE DEF U
  <2> QED BY <1>1, <1>2, WFMin, NatLessThanWellFounded, Zenon
<1>4. PICK i \in T : x = n - i
  BY <1>3
<1>5. SUFFICES ASSUME NEW j \in T, j > i PROVE FALSE
  BY <1>4
<1>6. n - j \in U /\ n - j < x
  BY <1>4, <1>5
<1>7. <<n - j, x>> \in OpToRel(<, Nat)
  BY <1>1, <1>3, <1>6 DEF OpToRel
<1> QED BY <1>3, <1>6, <1>7
=============================================================================
