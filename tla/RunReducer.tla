----------------------------- MODULE RunReducer -----------------------------
(***************************************************************************)
(* The pure reduction of one run: RunState (domain/state.py), the events   *)
(* (domain/events.py), and reduce / replay / replay_tail                   *)
(* (domain/reducer.py, domain/replay.py).                                  *)
(*                                                                         *)
(* Identifiers the code derives from counters are naturals, and 0 stands   *)
(* for Python's None: "step-7" is 7, an invocation id and an event id are  *)
(* the number that makes them unique, "no budget" and "no attempt limit"   *)
(* are 0.  Tool call ids and proposal digests are opaque.  Free text       *)
(* (reasons, summaries, answers) is left out; the code only requires it to *)
(* be non-empty.  The reducer sees one run, so run_id is left out.         *)
(* Sequence numbers are the code's plus one: here the first event is       *)
(* number 1, and an event's id is its number (the code's id also holds the *)
(* run and the event type).                                                *)
(***************************************************************************)
EXTENDS Integers, Sequences

CONSTANTS Calls,      \* tool call ids
          Digests,    \* proposal digests
          None        \* Python's None for an opaque field

ASSUME NoneAssumption == None \notin Calls \cup Digests

GateModes == {"pair", "user_gate"}

Terminal == {"completed", "failed", "cancelled"}

\* The statuses in which a tool call is active.
ToolStatuses == {"tool_pending", "awaiting_gate", "tool_ready", "tool_running"}

Statuses == Terminal \cup ToolStatuses \cup
    {"new", "created", "ready", "model_pending", "action_pending",
     "verifying", "paused"}

NoGate == [digest |-> None, revision |-> 0, mode |-> "none", attempts |-> 0, max |-> 0]

Gate == [digest : Digests, revision : Nat \ {0}, mode : GateModes,
         attempts : Nat, max : Nat]

\* RunState.initial
InitialRun ==
    [status |-> "new", next |-> 1, turn |-> 0, max |-> 0, step |-> 0,
     invocation |-> 0, action |-> 0, call |-> None, gate |-> NoGate,
     applied |-> {}]

-----------------------------------------------------------------------------
(* Shared guards.                                                          *)

ActiveTool(s, e) == e.call # None /\ e.call = s.call

\* Mutant: the budget allows one step too many.
BudgetOffByOne(s) == s.max = 0 \/ s.turn <= s.max

BudgetAvailable(s) == s.max = 0 \/ s.turn < s.max

\* A completion or a tool request answers the pending model action, or comes
\* from a caller that does not use model actions while the run is ready.
AnswersAction(s, e) ==
    \/ s.status = "action_pending" /\ e.action # 0 /\ e.action = s.action
    \/ s.status = "ready"

\* Mutant: a resolution is matched by tool call and revision, not by content.
ActiveGateIgnoresDigest(s, e) == ActiveTool(s, e) /\ e.revision = s.gate.revision

ActiveGate(s, e) ==
    /\ ActiveTool(s, e)
    /\ e.digest = s.gate.digest
    /\ e.revision = s.gate.revision

\* An escalation or a revision carries a mode, and USER_GATE an attempt limit.
OpensGate(e) ==
    /\ e.revision >= 1
    /\ e.mode \in GateModes
    /\ e.mode = "user_gate" => e.max >= 1

\* Mutant: any attempt number within the limit is accepted.
AnyAttempt(s, e) ==
    /\ e.max = s.gate.max
    /\ e.outcome = "retry" => e.attempt < e.max

\* Mutant: the last attempt may be retried.
RetryOffByOne(s, e) ==
    /\ e.max = s.gate.max
    /\ e.attempt = s.gate.attempts + 1
    /\ e.outcome = "retry" => e.attempt <= e.max

\* Attempts are counted one by one against the limit fixed by the proposal, and
\* the last one cannot ask for another.
NextAttempt(s, e) ==
    /\ e.max = s.gate.max
    /\ e.attempt = s.gate.attempts + 1
    /\ e.outcome = "retry" => e.attempt < e.max

(* Shared effects.                                                         *)

\* Mutant: the stored revision is that of the predecessor.
GateOfPredecessor(e) ==
    [digest |-> e.digest, revision |-> e.revision - 1, mode |-> e.mode,
     attempts |-> 0, max |-> IF e.mode = "user_gate" THEN e.max ELSE 0]

GateOf(e) ==
    [digest |-> e.digest, revision |-> e.revision, mode |-> e.mode,
     attempts |-> 0, max |-> IF e.mode = "user_gate" THEN e.max ELSE 0]

Move(s, status) == [s EXCEPT !.status = status]

CloseModel(s, status) ==
    [s EXCEPT !.status = status, !.step = 0, !.invocation = 0, !.action = 0]

\* Mutant: a closed tool call leaves its gate behind.
CloseToolKeepsGate(s) == [s EXCEPT !.status = "failed", !.step = 0, !.call = None]

CloseTool(s) ==
    [s EXCEPT !.status = "failed", !.step = 0, !.call = None, !.gate = NoGate]

-----------------------------------------------------------------------------
(* _transition, one guard and one effect per family of events.             *)

RunGuard(s, e) ==
    CASE e.type = "run.cancelled" -> TRUE
      [] e.type = "run.created"   -> s.status = "new"
      [] e.type = "run.started"   -> s.status = "created"
      [] e.type = "run.paused"    -> s.status = "ready"
      [] e.type = "run.resumed"   -> s.status = "paused"
      [] e.type = "run.step_budget_exhausted" ->
            /\ s.status = "ready"
            /\ s.max # 0 /\ e.max = s.max
            /\ e.completed = s.turn /\ e.completed >= e.max

RunEffect(s, e) ==
    CASE e.type = "run.cancelled" ->
            [CloseModel(s, "cancelled") EXCEPT !.call = None, !.gate = NoGate]
      [] e.type = "run.created"   -> [s EXCEPT !.status = "created", !.max = e.max]
      [] e.type = "run.paused"    -> Move(s, "paused")
      [] e.type = "run.step_budget_exhausted" -> Move(s, "failed")
      [] OTHER                    -> Move(s, "ready")

ModelGuard(s, e) ==
    CASE e.type = "model.action_requested" ->
            /\ s.status = "ready"
            /\ BudgetAvailable(s)
            /\ e.step = s.turn + 1 /\ e.turn = s.turn
            /\ e.invocation # 0
      [] e.type = "model.action_proposed" ->
            /\ s.status = "model_pending"
            /\ e.invocation = s.invocation /\ e.step = s.step /\ e.turn = s.turn
      [] e.type = "model.action_failed" -> s.status \in {"ready", "model_pending"}

ModelEffect(s, e) ==
    CASE e.type = "model.action_requested" ->
            [s EXCEPT !.status = "model_pending", !.step = e.step,
                      !.invocation = e.invocation]
      [] e.type = "model.action_proposed" ->
            [s EXCEPT !.status = "action_pending", !.action = e.id]
      [] e.type = "model.action_failed" -> CloseModel(s, "failed")

CompletionGuard(s, e) ==
    AnswersAction(s, e) /\ BudgetAvailable(s) /\ e.step = s.turn + 1

\* Mutant: only an accepted completion counts as a step.
CompletionKeepsTurn(s, e) ==
    IF e.type = "completion.accepted"
    THEN [CloseModel(s, "completed") EXCEPT !.turn = @ + 1]
    ELSE CloseModel(s, "ready")

CompletionEffect(s, e) ==
    [CloseModel(s, IF e.type = "completion.accepted" THEN "completed" ELSE "ready")
        EXCEPT !.turn = @ + 1]

GateGuard(s, e) ==
    CASE e.type = "tool.escalated" ->
            s.status = "tool_pending" /\ ActiveTool(s, e) /\ OpensGate(e)
      [] e.type = "gate.approved" ->
            s.status = "awaiting_gate" /\ ActiveGate(s, e) /\ s.gate.mode = "pair"
      [] e.type = "gate.rejected" ->
            s.status = "awaiting_gate" /\ ActiveGate(s, e)
      [] e.type = "gate.revised" ->
            /\ s.status = "awaiting_gate" /\ ActiveTool(s, e)
            /\ e.previousDigest = s.gate.digest
            /\ e.previousRevision = s.gate.revision
            /\ e.revision = e.previousRevision + 1
            /\ e.digest # e.previousDigest
            /\ OpensGate(e)
      [] e.type = "gate.evaluated" ->
            /\ s.status = "awaiting_gate" /\ ActiveGate(s, e)
            /\ s.gate.mode = "user_gate"
            /\ NextAttempt(s, e)

GateEffect(s, e) ==
    CASE e.type = "tool.escalated" ->
            [s EXCEPT !.status = "awaiting_gate", !.gate = GateOf(e)]
      [] e.type = "gate.revised" -> [s EXCEPT !.gate = GateOf(e)]
      [] e.type = "gate.rejected" -> CloseTool(s)
      [] e.type = "gate.evaluated" /\ e.outcome = "block" -> CloseTool(s)
      [] e.type = "gate.evaluated" /\ e.outcome = "retry" ->
            [s EXCEPT !.gate.attempts = e.attempt]
      [] OTHER -> [s EXCEPT !.status = "tool_ready", !.gate = NoGate]

ToolGuard(s, e) ==
    CASE e.type = "tool.requested" ->
            /\ AnswersAction(s, e)
            /\ e.step # 0 => BudgetAvailable(s)
            /\ e.call # None
      [] e.type \in {"tool.authorized", "tool.denied"} ->
            s.status = "tool_pending" /\ ActiveTool(s, e)
      [] e.type = "tool.started" -> s.status = "tool_ready" /\ ActiveTool(s, e)
      [] e.type \in {"tool.succeeded", "tool.failed", "tool.timed_out"} ->
            s.status = "tool_running" /\ ActiveTool(s, e)

ToolEffect(s, e) ==
    CASE e.type = "tool.requested" ->
            [s EXCEPT !.status = "tool_pending", !.step = e.step, !.invocation = 0,
                      !.action = 0, !.call = e.call]
      [] e.type = "tool.authorized" -> Move(s, "tool_ready")
      [] e.type = "tool.started"    -> Move(s, "tool_running")
      [] e.type = "tool.succeeded"  ->
            [s EXCEPT !.status = "verifying", !.call = None, !.gate = NoGate]
      [] e.type \in {"tool.denied", "tool.failed", "tool.timed_out"} -> CloseTool(s)

\* Mutant: a step verification need not name the active step.
VerificationOfAnyStep(s, e) ==
    /\ s.status = "verifying"
    /\ e.type = "verification.succeeded" /\ e.scope = "step" => s.step # 0

VerificationGuard(s, e) ==
    /\ s.status = "verifying"
    /\ e.type = "verification.succeeded" /\ e.scope = "step" =>
            s.step # 0 /\ e.step = s.step

VerificationEffect(s, e) ==
    CASE e.type = "verification.failed" -> [s EXCEPT !.status = "failed", !.step = 0]
      [] e.type = "verification.succeeded" /\ e.scope = "run" ->
            [s EXCEPT !.status = "completed", !.step = 0]
      [] e.type = "verification.succeeded" /\ e.scope = "step" ->
            [s EXCEPT !.status = "ready", !.turn = @ + 1, !.step = 0]

-----------------------------------------------------------------------------
RunTypes == {"run.cancelled", "run.created", "run.started", "run.paused",
             "run.resumed", "run.step_budget_exhausted"}
ModelTypes == {"model.action_requested", "model.action_proposed", "model.action_failed"}
CompletionTypes == {"completion.accepted", "completion.rejected"}
GateTypes == {"tool.escalated", "gate.approved", "gate.rejected", "gate.revised",
              "gate.evaluated"}
ToolTypes == {"tool.requested", "tool.authorized", "tool.denied", "tool.started",
              "tool.succeeded", "tool.failed", "tool.timed_out"}
VerificationTypes == {"verification.succeeded", "verification.failed"}
EventTypes == RunTypes \cup ModelTypes \cup CompletionTypes \cup GateTypes
                  \cup ToolTypes \cup VerificationTypes

Guard(s, e) ==
    CASE e.type \in RunTypes          -> RunGuard(s, e)
      [] e.type \in ModelTypes        -> ModelGuard(s, e)
      [] e.type \in CompletionTypes   -> CompletionGuard(s, e)
      [] e.type \in GateTypes         -> GateGuard(s, e)
      [] e.type \in ToolTypes         -> ToolGuard(s, e)
      [] e.type \in VerificationTypes -> VerificationGuard(s, e)

Effect(s, e) ==
    CASE e.type \in RunTypes          -> RunEffect(s, e)
      [] e.type \in ModelTypes        -> ModelEffect(s, e)
      [] e.type \in CompletionTypes   -> CompletionEffect(s, e)
      [] e.type \in GateTypes         -> GateEffect(s, e)
      [] e.type \in ToolTypes         -> ToolEffect(s, e)
      [] e.type \in VerificationTypes -> VerificationEffect(s, e)

(* reduce.  A redelivered event leaves the state alone; a known id with    *)
(* other content, an event for a terminal run, a wrong sequence number and *)
(* a guard that fails are the four errors.                                 *)
Redelivered(s, e) == e \in s.applied

Conflicting(s, e) == ~Redelivered(s, e) /\ \E d \in s.applied : d.id = e.id

\* Mutant: events are still reduced after the run has ended.
AcceptableAfterEnd(s, e) ==
    ~Conflicting(s, e) /\ e.seq = s.next /\ Guard(s, e)

Acceptable(s, e) ==
    /\ ~Conflicting(s, e)
    /\ s.status \notin Terminal
    /\ e.seq = s.next
    /\ Guard(s, e)

Applied(s, e) ==
    [Effect(s, e) EXCEPT !.next = s.next + 1, !.applied = s.applied \cup {e}]

Reduce(s, e) == IF Redelivered(s, e) THEN s ELSE Applied(s, e)

Legal(s, e) == Redelivered(s, e) \/ Acceptable(s, e)

(* replay_tail and replay: the fold of reduce over ordered events.  The    *)
(* result is Rejected when reduce raises on any of them.                   *)
Rejected == [InitialRun EXCEPT !.status = "rejected"]

ReplayStep(s, e) == IF s # Rejected /\ Legal(s, e) THEN Reduce(s, e) ELSE Rejected

\* (The set of one element makes TLC evaluate each prior state once.)
ReplayTail(s, events) ==
    LET state[n \in 0..Len(events)] ==
            IF n = 0 THEN s
            ELSE CHOOSE t \in {ReplayStep(prior, events[n]) : prior \in {state[n - 1]}} : TRUE
    IN  state[Len(events)]

Replay(events) == ReplayTail(InitialRun, events)
-----------------------------------------------------------------------------
(* What a run record must satisfy, whatever events produced it.            *)

RunType(s) ==
    /\ DOMAIN s = DOMAIN InitialRun
    /\ s.status \in Statuses
    /\ s.next \in Nat \ {0}
    /\ s.turn \in Nat /\ s.max \in Nat /\ s.step \in Nat
    /\ s.invocation \in Nat /\ s.action \in Nat
    /\ s.call \in Calls \cup {None}
    /\ s.gate \in Gate \cup {NoGate}

\* A field names something active exactly while the status says so.
FieldsMatchStatus(s) ==
    /\ (s.call # None) <=> (s.status \in ToolStatuses)
    /\ (s.gate # NoGate) <=> (s.status = "awaiting_gate")
    /\ (s.invocation # 0) <=> (s.status \in {"model_pending", "action_pending"})
    /\ (s.action # 0) <=> (s.status = "action_pending")
    /\ s.status \in {"model_pending", "action_pending"} => s.step = s.turn + 1
    /\ s.step # 0 => s.status \in ToolStatuses \cup
                          {"model_pending", "action_pending", "verifying"}

AttemptsLeft(s) ==
    s.status = "awaiting_gate" /\ s.gate.mode = "user_gate" => s.gate.attempts < s.gate.max

\* No more steps than the budget, and a step in flight still fits it.
BudgetKept(s) ==
    s.max # 0 => s.turn <= s.max /\ (s.step # 0 => s.turn < s.max)

(* The payload types reduce checks or ExecutionEvent guarantees, by type.  *)
EventType(e) ==
    /\ e.type \in EventTypes
    /\ e.id = e.seq /\ e.seq \in Nat
    /\ e.type = "run.created" => e.max \in Nat
    /\ e.type = "model.action_requested" => e.step \in Nat /\ e.invocation \in Nat
    /\ e.type = "tool.requested" => e.call \in Calls /\ e.step \in Nat
    /\ e.type \in {"tool.escalated", "gate.revised"} =>
            e.digest \in Digests /\ e.revision \in Nat /\ e.max \in Nat
    /\ e.type = "gate.evaluated" =>
            e.attempt \in Nat /\ e.outcome \in {"pass", "retry", "block"}
    /\ e.type = "verification.succeeded" => e.scope \in {"run", "step"}
=============================================================================
