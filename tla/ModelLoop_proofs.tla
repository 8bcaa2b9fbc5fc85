--------------------------- MODULE ModelLoop_proofs ---------------------------
(***************************************************************************)
(* For every budget, model, policy and number of crashes: what the model   *)
(* loop and the one-turn entry points store can be replayed, a context     *)
(* rebuilt from the log is the one the adapter saw, a run completes on     *)
(* evidence, and the loop keeps the turn protocol.                         *)
(***************************************************************************)
EXTENDS ModelLoop, RunReducer_proofs

-----------------------------------------------------------------------------
(* The inductive invariant.                                                *)

\* The run is the log's: good, and nothing applied is numbered like the next event.
Current(s, l) ==
    /\ Good(s) /\ s.max = Budget
    /\ IsSequence(l) /\ s.next = Len(l) + 1
    /\ \A d \in s.applied : d.id \in Nat /\ d.id < s.next

HasLast(positions) == \E i \in positions : \A j \in positions : j <= i

\* What RequestOf and PendingContext look for in the log l.
ToolRequests(l, call) == {i \in 1..Len(l) : l[i].type = "tool.requested" /\ l[i].call = call}

ModelRequests(l, invocation) ==
    {i \in 1..Len(l) : l[i].type = "model.action_requested" /\ l[i].invocation = invocation}

InTurn == ToolStatuses \cup {"verifying"}

\* A tool call has the step of its turn, and what a restart looks for is on record.
OnRecord ==
    /\ run.status \in InTurn => run.step = run.turn + 1
    /\ run.call # None => HasLast(ToolRequests(log, run.call))
    /\ run.invocation # 0 =>
            HasLast(ModelRequests(log, run.invocation)) /\ PendingContext = Context

\* The turns behind the run s are spent, those before it untouched, and the one it is
\* in is as far as the status says.  context and action are what s would load.
Turned(s, context, action, asked, kept, used, saw) ==
    /\ asked \in [Turns -> Nat] /\ DOMAIN saw = Turns
    /\ kept \in [Turns -> Actions \cup {None}] /\ used \in [Turns -> Actions \cup {None}]
    /\ \A t \in Turns :
        /\ t < s.turn => used[t] # None
        /\ t > s.turn => asked[t] = 0 /\ kept[t] = None /\ used[t] = None
    /\ s.turn \in Turns =>
        /\ s.status = "ready" =>
                asked[s.turn] = 0 /\ kept[s.turn] = None /\ used[s.turn] = None
        /\ s.status = "model_pending" => kept[s.turn] = None /\ used[s.turn] = None
        /\ s.status = "action_pending" =>
                /\ kept[s.turn] = action /\ action \in Actions
                /\ used[s.turn] = None /\ saw[s.turn] = context
        /\ s.status \in InTurn => used[s.turn] # None /\ saw[s.turn] = context

TurnsMatch == Turned(run, Context, PendingAction, calls, chosen, spent, seen)

\* The one-turn entry points act on a ready run with budget left.
Ready(s) == s.status = "ready" /\ BudgetAvailable(s)

CallIs(s, f, status) == s.status = status /\ s.call = f.action.call

InTool == {"decide", "start", "execute", "invoke", "outcome", "verify"}

\* What the process holds agrees with the run s, for whose turn it called the adapter
\* asked times and showed it saw.
Agrees(f, s, context, action, asked, saw) ==
    /\ DOMAIN f = DOMAIN Idle
    /\ f.at \in Places
    /\ f.at = "top" =>
        IF f.entry = "loop" THEN s.status \in {"ready", "model_pending", "action_pending"}
        ELSE s.status = "ready"
    /\ f.at = "begin" => f.entry = "loop" /\ Ready(s)
    /\ f.at \in {"begin", "ask", "asked", "persist", "dispatch"} => f.context = context
    /\ f.at \in {"asked", "persist", "dispatch"} => saw = context
    /\ f.at = "ask" =>
        IF f.entry = "loop" THEN s.status = "model_pending" /\ asked = 0 ELSE Ready(s)
    /\ f.at = "asked" =>
        IF f.entry = "loop" THEN s.status = "model_pending" /\ asked = 1 ELSE Ready(s)
    /\ f.at = "persist" => f.entry = "loop" /\ s.status = "model_pending" /\ asked = 1
    /\ f.at = "dispatch" =>
        IF f.entry = "loop"
        THEN s.status = "action_pending" /\ f.event = s.action /\ f.action = action
        ELSE Ready(s)
    /\ f.at \in {"persist", "dispatch"} => f.action \in Actions
    /\ f.at = "decide" => CallIs(s, f, "tool_pending")
    /\ f.at = "start" => CallIs(s, f, "tool_ready")
    /\ f.at \in {"execute", "invoke", "outcome"} => CallIs(s, f, "tool_running")
    /\ f.at = "outcome" => f.result \in Outcomes
    /\ f.at = "verify" => s.status = "verifying"
    /\ f.at \in InTool => f.context \in {context, None}

FrameAgrees ==
    Agrees(agent, run, Context, PendingAction, calls[run.turn], seen[run.turn])

\* What survives while nothing is stored.
Behind == Current(run, log) /\ OnRecord /\ TurnsMatch /\ CompletedOnEvidence

IInv == Behind /\ FrameAgrees /\ receipts \in [Calls -> Outcomes \cup {None}]

-----------------------------------------------------------------------------
(* The reducer's families, and what an event makes of the run.             *)

LEMMA GoodIsNotRejected == \A s : Good(s) => s # Rejected
<1>1. Rejected.status = "rejected"
  BY Domain DEF Rejected, InitialRun
<1> QED BY <1>1 DEF Good, RunType, Statuses, Terminal, ToolStatuses

\* The run t has taken the event e in the run s: its fields are those of the effect.
Took(s, e, t) ==
    LET u == Effect(s, e)
    IN  /\ t.status = u.status /\ t.turn = u.turn /\ t.step = u.step
        /\ t.invocation = u.invocation /\ t.action = u.action
        /\ t.call = u.call /\ t.gate = u.gate

\* What the reducer takes is stored, and the run is still the log's.
LEMMA Taken ==
    ASSUME Current(run, log), NEW e, EventType(e), e.seq = run.next, e.type # "run.created",
           run.status \notin Terminal, Guard(run, e), Store(e)
    PROVE  /\ Current(run', log') /\ Took(run, e, run')
           /\ run.next = Len(log) + 1 /\ Len(log) \in Nat /\ Len(log') = Len(log) + 1
           /\ \A i \in 1..Len(log) : log'[i] = log[i]
           /\ log'[Len(log) + 1] = e
<1>1. Good(run) /\ run # Rejected /\ IsSequence(log) /\ run.next = Len(log) + 1
      /\ run.max = Budget /\ \A d \in run.applied : d.id \in Nat /\ d.id < run.next
  BY GoodIsNotRejected DEF Current
<1>2. e.id = run.next /\ e.id \in Nat
  BY DEF EventType
<1>3. ~ \E d \in run.applied : d.id = e.id
  BY <1>1, <1>2
<1>4. ~Redelivered(run, e) /\ Acceptable(run, e)
  BY <1>3 DEF Redelivered, Conflicting, Acceptable
<1>5. run' = Applied(run, e)
  BY <1>1, <1>4 DEF Store, ReplayStep, Legal, Reduce
<1>6. Good(Effect(run, e)) /\ TurnStep(run, e, Effect(run, e))
  BY <1>1, <1>4, EffectGood
<1>7. /\ Good(run') /\ run'.next = run.next + 1 /\ run'.applied = run.applied \cup {e}
      /\ run'.max = Effect(run, e).max /\ Took(run, e, run')
  BY <1>1, <1>5, <1>6, AppliedGood DEF Took
<1>8. /\ IsSequence(log') /\ Len(log) \in Nat /\ Len(log') = Len(log) + 1
      /\ \A i \in 1..Len(log) : log'[i] = log[i]
      /\ log'[Len(log) + 1] = e
  BY <1>1, AppendFacts DEF Store
<1>9. run'.max = Budget
  BY <1>1, <1>6, <1>7 DEF TurnStep
<1>10. \A d \in run'.applied : d.id \in Nat /\ d.id < run'.next
  BY <1>1, <1>2, <1>7, <1>8
<1> QED BY <1>1, <1>7, <1>8, <1>9, <1>10 DEF Current

-----------------------------------------------------------------------------
(* What is read back from a log that grows.                                *)

LEMMA LastIsIn ==
    ASSUME NEW P, HasLast(P)
    PROVE  Last(P) \in P /\ \A j \in P : j <= Last(P)
BY DEF Last, HasLast

LEMMA LastIs ==
    ASSUME NEW P, NEW n \in Nat, n \in P, P \subseteq Nat, \A j \in P : j <= n
    PROVE  HasLast(P) /\ Last(P) = n
<1>1. HasLast(P)
  BY DEF HasLast
<1>2. Last(P) \in P /\ \A j \in P : j <= Last(P)
  BY <1>1, LastIsIn
<1>3. Last(P) \in Nat /\ n <= Last(P) /\ Last(P) <= n
  BY <1>2
<1> QED BY <1>1, <1>3

LEMMA VerificationsKept ==
    ASSUME IsSequence(log), NEW e, log' = Append(log, e), e.type # "verification.succeeded"
    PROVE  StepVerifications' = StepVerifications
<1>1. /\ Len(log) \in Nat /\ Len(log') = Len(log) + 1 /\ log'[Len(log) + 1] = e
      /\ \A i \in 1..Len(log) : log'[i] = log[i]
  BY AppendFacts
<1> QED BY <1>1 DEF StepVerifications, Of

\* A context changes only with the turn and with what verifies a step.
LEMMA ContextKept ==
    ASSUME IsSequence(log), NEW e, log' = Append(log, e), e.type # "verification.succeeded",
           run'.turn = run.turn
    PROVE  Context' = Context
<1>1. Observation' = Observation
  BY VerificationsKept DEF Observation
<1> QED BY <1>1 DEF Context

\* A request stays on record.
LEMMA RequestsKept ==
    ASSUME NEW l, IsSequence(l), NEW e, NEW x
    PROVE  /\ e.type # "tool.requested" => ToolRequests(Append(l, e), x) = ToolRequests(l, x)
           /\ e.type # "model.action_requested" =>
                ModelRequests(Append(l, e), x) = ModelRequests(l, x)
<1>1. /\ Len(l) \in Nat /\ Len(Append(l, e)) = Len(l) + 1 /\ Append(l, e)[Len(l) + 1] = e
      /\ \A i \in 1..Len(l) : Append(l, e)[i] = l[i]
  BY AppendFacts
<1> QED BY <1>1 DEF ToolRequests, ModelRequests

\* A request just stored is the last of its kind.
LEMMA RequestStored ==
    ASSUME NEW l, IsSequence(l), NEW e, NEW P, P \subseteq 1..Len(Append(l, e)),
           Len(l) + 1 \in P
    PROVE  HasLast(P) /\ Last(P) = Len(l) + 1
<1>1. Len(l) \in Nat /\ Len(Append(l, e)) = Len(l) + 1
  BY AppendFacts
<1>2. Len(l) + 1 \in Nat /\ P \subseteq Nat /\ \A j \in P : j <= Len(l) + 1
  BY <1>1
<1> QED BY <1>2, LastIs

LEMMA RequestRead ==
    ASSUME NEW call, HasLast(ToolRequests(log, call))
    PROVE  RequestOf(call).call = call
<1>1. ToolRequests(log, call) = {i \in Of("tool.requested") : log[i].call = call}
  BY DEF ToolRequests, Of
<1>2. Last(ToolRequests(log, call)) \in ToolRequests(log, call)
  BY LastIsIn
<1>3. RequestOf(call) = log[Last(ToolRequests(log, call))]
  BY <1>1 DEF RequestOf
<1> QED BY <1>2, <1>3 DEF ToolRequests

LEMMA ContextRead ==
    LET r == Last(ModelRequests(log, run.invocation))
    IN  PendingContext = [step |-> log[r].step, turn |-> log[r].turn,
                          observation |-> log[r].observation]
<1>1. ModelRequests(log, run.invocation)
        = {i \in Of("model.action_requested") : log[i].invocation = run.invocation}
  BY DEF ModelRequests, Of
<1> QED BY <1>1 DEF PendingContext

-----------------------------------------------------------------------------
(* How the turns move on.                                                  *)

LEMMA LogKept ==
    ASSUME Behind, UNCHANGED stored
    PROVE  /\ log' = log /\ run' = run
           /\ Current(run', log') /\ OnRecord' /\ CompletedOnEvidence'
           /\ Context' = Context /\ PendingAction' = PendingAction
<1>1. log' = log /\ run' = run
  BY DEF stored
<1>2. StepVerifications' = StepVerifications
  BY <1>1 DEF StepVerifications, Of
<1>3. Context' = Context
  BY <1>1, <1>2 DEF Context, Observation
<1>4. PendingAction' = PendingAction /\ PendingContext' = PendingContext
  BY <1>1 DEF PendingAction, PendingContext, Of
<1>5. OnRecord'
  BY <1>1, <1>3, <1>4 DEF OnRecord, Behind
<1>6. CompletedOnEvidence'
  BY <1>1, <1>2 DEF CompletedOnEvidence, Behind
<1> QED BY <1>1, <1>3, <1>4, <1>5, <1>6 DEF Behind

\* A step that only moves the process on.
LEMMA FrameMoved ==
    ASSUME IInv, UNCHANGED <<stored, history>>, receipts' \in [Calls -> Outcomes \cup {None}],
           Agrees(agent', run, Context, PendingAction, calls[run.turn], seen[run.turn])
    PROVE  IInv'
<1>1. calls' = calls /\ seen' = seen /\ chosen' = chosen /\ spent' = spent
  BY DEF history
<1>2. /\ run' = run /\ Current(run', log') /\ OnRecord' /\ CompletedOnEvidence'
      /\ Context' = Context /\ PendingAction' = PendingAction
  BY LogKept DEF IInv
<1>3. TurnsMatch'
  BY <1>1, <1>2 DEF TurnsMatch, IInv, Behind
<1>4. FrameAgrees'
  BY <1>1, <1>2 DEF FrameAgrees
<1> QED BY <1>2, <1>3, <1>4 DEF IInv, Behind

LEMMA IdleAgrees ==
    ASSUME NEW f, DOMAIN f = DOMAIN Idle, f.at = "idle",
           NEW s, NEW context, NEW action, NEW asked, NEW saw
    PROVE  Agrees(f, s, context, action, asked, saw)
BY DEF Agrees, Places, InTool

\* The run has left the statuses the turns look at.
LEMMA TurnedAtEnd ==
    ASSUME NEW s, NEW t, NEW c, NEW a, NEW asked, NEW kept, NEW used, NEW saw,
           Turned(s, c, a, asked, kept, used, saw), t.turn = s.turn, t.status = "failed",
           NEW d, NEW b
    PROVE  Turned(t, d, b, asked, kept, used, saw)
BY DEF Turned, InTurn, ToolStatuses

LEMMA TurnedInTool ==
    ASSUME NEW s, NEW t, NEW c, NEW a, NEW asked, NEW kept, NEW used, NEW saw,
           Turned(s, c, a, asked, kept, used, saw), t.turn = s.turn,
           s.status \in InTurn, t.status \in InTurn, NEW b
    PROVE  Turned(t, c, b, asked, kept, used, saw)
BY DEF Turned, InTurn, ToolStatuses

\* A turn is over, and another begins if the run goes on.
LEMMA TurnedNext ==
    ASSUME NEW s, NEW t, NEW c, NEW a, NEW asked, NEW kept, NEW used, NEW saw,
           Turned(s, c, a, asked, kept, used, saw), s.turn \in Turns, t.turn = s.turn + 1,
           NEW use \in [Turns -> Actions \cup {None}], use[s.turn] # None,
           \A u \in Turns \ {s.turn} : use[u] = used[u],
           t.status \in {"ready", "completed"}, NEW d, NEW b
    PROVE  Turned(t, d, b, asked, kept, use, saw)
<1>1. \A u \in Turns : u \in Nat
  BY LoopAssumption DEF Turns
<1>2. \A u \in Turns : u < t.turn => u < s.turn \/ u = s.turn
  BY <1>1
<1>3. \A u \in Turns : u >= t.turn => u > s.turn
  BY <1>1
<1> QED BY <1>1, <1>2, <1>3 DEF Turned, InTurn, ToolStatuses

\* A turn in flight is one of the budget's.
LEMMA TurnInBudget ==
    ASSUME Behind,
           run.status \in InTurn \cup {"model_pending", "action_pending"} \/ Ready(run)
    PROVE  run.turn \in Turns /\ run.turn < Budget /\ BudgetAvailable(run)
<1>1. /\ run.turn \in Nat /\ run.step \in Nat /\ run.max = Budget /\ Budget \in Nat \ {0}
      /\ BudgetKept(run) /\ FieldsMatchStatus(run)
  BY LoopAssumption DEF Behind, Current, Good, RunType
<1>2. run.turn < Budget
  <2>1. CASE Ready(run)
    BY <1>1, <2>1 DEF Ready, BudgetAvailable
  <2>2. CASE run.status \in InTurn \cup {"model_pending", "action_pending"}
    <3>1. run.step = run.turn + 1
      BY <1>1, <2>2 DEF FieldsMatchStatus, Behind, OnRecord
    <3> QED BY <1>1, <3>1 DEF BudgetKept
  <2> QED BY <2>1, <2>2
<1> QED BY <1>1, <1>2 DEF Turns, BudgetAvailable

-----------------------------------------------------------------------------
(* Events that end the run, and events that carry a tool call on.          *)

FailingTypes == {"model.action_failed", "run.step_budget_exhausted", "tool.denied", "tool.failed",
                 "tool.timed_out", "verification.failed", "gate.rejected"}

LEMMA EffectFails ==
    ASSUME NEW s, NEW e, Good(s),
           e.type \in FailingTypes \/ (e.type = "gate.evaluated" /\ e.outcome = "block")
    PROVE  Effect(s, e).status = "failed" /\ Effect(s, e).turn = s.turn
<1>0. DOMAIN s = DOMAIN InitialRun
  BY DEF Good, RunType
<1>1. CASE e.type = "model.action_failed"
  <2>1. Effect(s, e) = ModelEffect(s, e)
    BY <1>1, Families DEF ModelTypes
  <2>2. ModelEffect(s, e).status = "failed" /\ ModelEffect(s, e).turn = s.turn
    BY <1>0, <1>1, Domain DEF ModelEffect, CloseModel
  <2> QED BY <2>1, <2>2
<1>2. CASE e.type = "run.step_budget_exhausted"
  <2>1. Effect(s, e) = RunEffect(s, e)
    BY <1>2, Families DEF RunTypes
  <2>2. RunEffect(s, e).status = "failed" /\ RunEffect(s, e).turn = s.turn
    BY <1>0, <1>2, Domain DEF RunEffect, Move
  <2> QED BY <2>1, <2>2
<1>3. CASE e.type \in {"tool.denied", "tool.failed", "tool.timed_out"}
  <2>1. Effect(s, e) = ToolEffect(s, e)
    BY <1>3, Families DEF ToolTypes
  <2>2. ToolEffect(s, e).status = "failed" /\ ToolEffect(s, e).turn = s.turn
    BY <1>0, <1>3, Domain DEF ToolEffect, CloseTool
  <2> QED BY <2>1, <2>2
<1>4. CASE e.type = "verification.failed"
  <2>1. Effect(s, e) = VerificationEffect(s, e)
    BY <1>4, Families DEF VerificationTypes
  <2>2. VerificationEffect(s, e).status = "failed" /\ VerificationEffect(s, e).turn = s.turn
    BY <1>0, <1>4, Domain DEF VerificationEffect
  <2> QED BY <2>1, <2>2
<1>5. CASE e.type = "gate.rejected" \/ (e.type = "gate.evaluated" /\ e.outcome = "block")
  <2>1. Effect(s, e) = GateEffect(s, e)
    BY <1>5, Families DEF GateTypes
  <2>2. GateEffect(s, e).status = "failed" /\ GateEffect(s, e).turn = s.turn
    BY <1>0, <1>5, Domain DEF GateEffect, CloseTool
  <2> QED BY <2>1, <2>2
<1> QED BY <1>1, <1>2, <1>3, <1>4, <1>5 DEF FailingTypes

\* The status an event of a waiting or running call leads to.
Leads(e) ==
    CASE e.type = "tool.authorized" -> "tool_ready"
      [] e.type = "tool.started"    -> "tool_running"
      [] e.type = "tool.succeeded"  -> "verifying"
      [] e.type = "tool.escalated"  -> "awaiting_gate"
      [] e.type = "gate.approved"   -> "tool_ready"
      [] OTHER                      -> "tool_ready"

CarryingTypes == {"tool.authorized", "tool.started", "tool.succeeded", "tool.escalated",
                  "gate.approved"}

Carried(s, e, t) ==
    /\ t.status = Leads(e) /\ t.turn = s.turn /\ t.step = s.step
    /\ t.call = IF e.type = "tool.succeeded" THEN None ELSE s.call

LEMMA EffectCarries ==
    ASSUME NEW s, NEW e, Good(s),
           e.type \in CarryingTypes \/ (e.type = "gate.evaluated" /\ e.outcome = "pass")
    PROVE  Carried(s, e, Effect(s, e))
<1>0. DOMAIN s = DOMAIN InitialRun
  BY DEF Good, RunType
<1>1. CASE e.type = "tool.authorized"
  <2>1. Effect(s, e) = ToolEffect(s, e)
    BY <1>1, Families DEF ToolTypes
  <2>2. Carried(s, e, ToolEffect(s, e))
    BY <1>0, <1>1, Domain DEF ToolEffect, Move, Carried, Leads
  <2> QED BY <2>1, <2>2
<1>2. CASE e.type = "tool.started"
  <2>1. Effect(s, e) = ToolEffect(s, e)
    BY <1>2, Families DEF ToolTypes
  <2>2. Carried(s, e, ToolEffect(s, e))
    BY <1>0, <1>2, Domain DEF ToolEffect, Move, Carried, Leads
  <2> QED BY <2>1, <2>2
<1>3. CASE e.type = "tool.succeeded"
  <2>1. Effect(s, e) = ToolEffect(s, e)
    BY <1>3, Families DEF ToolTypes
  <2>2. Carried(s, e, ToolEffect(s, e))
    BY <1>0, <1>3, Domain DEF ToolEffect, Carried, Leads
  <2> QED BY <2>1, <2>2
<1>4. CASE e.type = "tool.escalated"
  <2>1. Effect(s, e) = GateEffect(s, e)
    BY <1>4, Families DEF GateTypes
  <2>2. Carried(s, e, GateEffect(s, e))
    BY <1>0, <1>4, Domain DEF GateEffect, Carried, Leads
  <2> QED BY <2>1, <2>2
<1>5. CASE e.type = "gate.approved" \/ (e.type = "gate.evaluated" /\ e.outcome = "pass")
  <2>1. Effect(s, e) = GateEffect(s, e)
    BY <1>5, Families DEF GateTypes
  <2>2. Carried(s, e, GateEffect(s, e))
    BY <1>0, <1>5, Domain DEF GateEffect, Carried, Leads
  <2> QED BY <2>1, <2>2
<1> QED BY <1>1, <1>2, <1>3, <1>4, <1>5 DEF CarryingTypes

\* A run that ends, ends the call: nothing is left to agree with.
LEMMA RunFails ==
    ASSUME IInv, NEW e, EventType(e), e.seq = run.next, run.status \notin Terminal,
           Guard(run, e), Store(e),
           e.type \in FailingTypes \/ (e.type = "gate.evaluated" /\ e.outcome = "block"),
           UNCHANGED <<receipts, history>>, DOMAIN agent' = DOMAIN Idle, agent'.at = "idle"
    PROVE  IInv'
<1>1. Current(run, log) /\ Good(run) /\ TurnsMatch
  BY DEF IInv, Behind, Current
<1>2. Current(run', log') /\ Took(run, e, run')
  BY <1>1, Taken DEF FailingTypes
<1>3. run'.status = "failed" /\ run'.turn = run.turn
  BY <1>1, <1>2, EffectFails DEF Took
<1>4. run'.call = None /\ run'.invocation = 0
  BY <1>2, <1>3 DEF Current, Good, FieldsMatchStatus, ToolStatuses
<1>5. OnRecord'
  BY <1>3, <1>4 DEF OnRecord, InTurn, ToolStatuses
<1>6. TurnsMatch'
  <2>1. calls' = calls /\ seen' = seen /\ chosen' = chosen /\ spent' = spent
    BY DEF history
  <2>2. Turned(run', Context', PendingAction', calls, chosen, spent, seen)
    BY <1>1, <1>3, TurnedAtEnd DEF TurnsMatch
  <2> QED BY <2>1, <2>2 DEF TurnsMatch
<1>7. CompletedOnEvidence'
  BY <1>3 DEF CompletedOnEvidence
<1>8. FrameAgrees'
  BY IdleAgrees DEF FrameAgrees
<1> QED BY <1>2, <1>5, <1>6, <1>7, <1>8 DEF IInv, Behind

\* A call that goes on, in the same turn and under the same context.
LEMMA CallGoesOn ==
    ASSUME IInv, NEW e, EventType(e), e.seq = run.next, run.status \in ToolStatuses,
           Guard(run, e), Store(e),
           e.type \in CarryingTypes \/ (e.type = "gate.evaluated" /\ e.outcome = "pass"),
           UNCHANGED <<receipts, history>>
    PROVE  /\ Behind' /\ Context' = Context
           /\ run'.status = Leads(e)
           /\ run'.call = IF e.type = "tool.succeeded" THEN None ELSE run.call
<1>1. Current(run, log) /\ Good(run) /\ TurnsMatch /\ OnRecord /\ IsSequence(log)
  BY DEF IInv, Behind, Current
<1>2. run.status \notin Terminal /\ run.status \in InTurn
  BY DEF ToolStatuses, Terminal, InTurn
<1>3. Current(run', log') /\ Took(run, e, run')
  BY <1>1, <1>2, Taken DEF CarryingTypes
<1>4. /\ run'.status = Leads(e) /\ run'.turn = run.turn /\ run'.step = run.step
      /\ run'.call = IF e.type = "tool.succeeded" THEN None ELSE run.call
  BY <1>1, <1>3, EffectCarries DEF Took, Carried
<1>5. run'.status \in InTurn
  BY <1>4 DEF Leads, InTurn, ToolStatuses
<1>6. run'.invocation = 0
  BY <1>3, <1>5 DEF Current, Good, FieldsMatchStatus, InTurn, ToolStatuses
<1>7. Context' = Context
  BY <1>1, <1>4, ContextKept DEF Store, CarryingTypes
<1>8. run'.call # None => HasLast(ToolRequests(log', run'.call))
  <2>1. ToolRequests(log', run.call) = ToolRequests(log, run.call)
    BY <1>1, RequestsKept DEF Store, CarryingTypes
  <2> QED BY <1>1, <1>4, <2>1 DEF OnRecord
<1>9. OnRecord'
  BY <1>1, <1>2, <1>4, <1>6, <1>8 DEF OnRecord
<1>10. TurnsMatch'
  <2>1. calls' = calls /\ seen' = seen /\ chosen' = chosen /\ spent' = spent
    BY DEF history
  <2>2. Turned(run', Context, PendingAction', calls, chosen, spent, seen)
    BY <1>1, <1>2, <1>4, <1>5, TurnedInTool DEF TurnsMatch
  <2> QED BY <1>7, <2>1, <2>2 DEF TurnsMatch
<1>11. CompletedOnEvidence'
  BY <1>5 DEF CompletedOnEvidence, InTurn, ToolStatuses
<1> QED BY <1>3, <1>4, <1>7, <1>9, <1>10, <1>11 DEF Behind

-----------------------------------------------------------------------------
(* Steps that store nothing.                                               *)

LEMMA Frame ==
    /\ DOMAIN Idle = {"at", "entry", "context", "action", "event", "result"}
    /\ Idle.at = "idle" /\ Idle.entry = "none" /\ Idle.context = None
BY DEF Idle

LEMMA CallBegins ==
    ASSUME IInv, RunLoop \/ \E entry \in Entries : RunTurn(entry)
    PROVE  IInv'
<1>1. UNCHANGED <<stored, history>> /\ receipts' = receipts
  BY DEF RunLoop, RunTurn, effects
<1>2. DOMAIN agent' = DOMAIN Idle /\ agent'.at = "top"
      /\ IF agent'.entry = "loop" THEN run.status \in {"ready", "model_pending", "action_pending"}
         ELSE run.status = "ready"
  BY Frame DEF RunLoop, RunTurn, Begin
<1>3. Agrees(agent', run, Context, PendingAction, calls[run.turn], seen[run.turn])
  BY <1>2 DEF Agrees, Places, InTool
<1> QED BY <1>1, <1>3, FrameMoved DEF IInv

LEMMA LoadPendingKeeps ==
    ASSUME IInv, LoadPending
    PROVE  IInv'
<1>1. UNCHANGED <<stored, history>> /\ receipts' = receipts
  BY DEF LoadPending, effects
<1>2. /\ Agrees(agent, run, Context, PendingAction, calls[run.turn], seen[run.turn])
      /\ DOMAIN agent = DOMAIN Idle
  BY DEF IInv, FrameAgrees, Agrees
<1>3. agent.entry = "loop" /\ run.status = "action_pending"
  BY <1>2 DEF LoadPending, At, Agrees
<1>4. run.turn \in Turns /\ run.invocation # 0
  BY <1>3, TurnInBudget DEF IInv, Behind, Current, Good, FieldsMatchStatus
<1>5. PendingContext = Context
  BY <1>4 DEF IInv, Behind, OnRecord
<1>6. PendingAction \in Actions /\ seen[run.turn] = Context
  BY <1>3, <1>4 DEF IInv, Behind, TurnsMatch, Turned
<1>7. /\ DOMAIN agent' = DOMAIN Idle /\ agent'.at = "dispatch" /\ agent'.entry = "loop"
      /\ agent'.context = Context /\ agent'.action = PendingAction /\ agent'.event = run.action
  BY <1>2, <1>3, <1>5, Frame DEF LoadPending
<1>8. Agrees(agent', run, Context, PendingAction, calls[run.turn], seen[run.turn])
  BY <1>3, <1>6, <1>7 DEF Agrees, Places, InTool
<1> QED BY <1>1, <1>8, FrameMoved DEF IInv

LEMMA BuildInputKeeps ==
    ASSUME IInv, BuildInput
    PROVE  IInv'
<1>1. UNCHANGED <<stored, history>> /\ receipts' = receipts
  BY DEF BuildInput, effects
<1>2. DOMAIN agent = DOMAIN Idle /\ Ready(run)
  BY DEF IInv, FrameAgrees, Agrees, BuildInput, Ready
<1>3. /\ DOMAIN agent' = DOMAIN Idle /\ agent'.entry = agent.entry /\ agent'.context = Context
      /\ agent'.at = IF agent.entry = "loop" THEN "begin" ELSE "ask"
  BY <1>2, Frame DEF BuildInput
<1>4. Agrees(agent', run, Context, PendingAction, calls[run.turn], seen[run.turn])
  BY <1>2, <1>3 DEF Agrees, Places, InTool
<1> QED BY <1>1, <1>4, FrameMoved DEF IInv

LEMMA AdapterAnswersKeeps ==
    ASSUME IInv, NEW a \in Actions, AdapterAnswers(a)
    PROVE  IInv'
<1>1. UNCHANGED <<stored, history>> /\ receipts' = receipts
  BY DEF AdapterAnswers, effects
<1>2. /\ Agrees(agent, run, Context, PendingAction, calls[run.turn], seen[run.turn])
      /\ DOMAIN agent = DOMAIN Idle /\ agent.at = "asked"
  BY DEF IInv, FrameAgrees, Agrees, AdapterAnswers, At
<1>3. /\ DOMAIN agent' = DOMAIN Idle /\ agent'.entry = agent.entry
      /\ agent'.context = agent.context /\ agent'.action = a
      /\ agent'.at = IF agent.entry = "loop" THEN "persist" ELSE "dispatch"
  BY <1>2, Frame DEF AdapterAnswers
<1>4. Agrees(agent', run, Context, PendingAction, calls[run.turn], seen[run.turn])
  BY <1>2, <1>3 DEF Agrees, Places, InTool
<1> QED BY <1>1, <1>4, FrameMoved DEF IInv

\* The executor's steps, and what ends a call without storing an event.
LEMMA ExecutorKeeps ==
    ASSUME IInv, SaveIntent \/ ReturnReceipt \/ Retry \/ \E r \in Outcomes : InvokeTool(r)
    PROVE  IInv'
<1>1. UNCHANGED <<stored, history>>
  BY DEF SaveIntent, ReturnReceipt, Retry, InvokeTool
<1>2. /\ Agrees(agent, run, Context, PendingAction, calls[run.turn], seen[run.turn])
      /\ DOMAIN agent = DOMAIN Idle /\ receipts \in [Calls -> Outcomes \cup {None}]
      /\ Good(run)
  BY DEF IInv, Behind, Current, FrameAgrees, Agrees
<1>3. /\ agent.at \in {"execute", "invoke"}
      /\ DOMAIN agent' = DOMAIN Idle /\ agent'.at \in {"invoke", "outcome"}
      /\ agent'.context = agent.context /\ agent'.action = agent.action
  BY <1>2, Frame
     DEF SaveIntent, ReturnReceipt, Retry, InvokeTool, At, Goto, KnownIntent
<1>4. CallIs(run, agent, "tool_running") /\ agent.context \in {Context, None}
  BY <1>2, <1>3 DEF Agrees, InTool
<1>5. agent.action.call \in Calls
  BY <1>2, <1>4 DEF CallIs, Good, FieldsMatchStatus, RunType, ToolStatuses
<1>6. /\ receipts' \in [Calls -> Outcomes \cup {None}]
      /\ agent'.at = "outcome" => agent'.result \in Outcomes
  <2>1. CASE SaveIntent \/ Retry
    BY <1>2, <2>1, Frame DEF SaveIntent, Retry, effects, Goto
  <2>2. CASE ReturnReceipt
    <3>1. receipts' = receipts /\ receipts[agent.action.call] # None
      BY <2>2 DEF ReturnReceipt, effects
    <3>2. agent'.result = receipts[agent.action.call]
      BY <1>2, <2>2, Frame DEF ReturnReceipt
    <3> QED BY <1>2, <1>5, <3>1, <3>2
  <2>3. ASSUME NEW r \in Outcomes, InvokeTool(r)
        PROVE  /\ receipts' \in [Calls -> Outcomes \cup {None}]
               /\ agent'.at = "outcome" => agent'.result \in Outcomes
    <3>1. agent'.result = r
      BY <1>2, <2>3, Frame DEF InvokeTool
    <3>2. receipts' = [receipts EXCEPT ![agent.action.call] = r]
      BY <2>3 DEF InvokeTool
    <3> QED BY <1>2, <1>5, <3>1, <3>2
  <2> QED BY <2>1, <2>2, <2>3
<1>7. Agrees(agent', run, Context, PendingAction, calls[run.turn], seen[run.turn])
  BY <1>3, <1>4, <1>6 DEF Agrees, Places, InTool, CallIs
<1> QED BY <1>1, <1>6, <1>7, FrameMoved

LEMMA CallEnds ==
    ASSUME IInv, UNCHANGED <<stored, history, receipts>>, agent' = Idle
    PROVE  IInv'
<1>1. Agrees(agent', run, Context, PendingAction, calls[run.turn], seen[run.turn])
  BY Frame, IdleAgrees
<1> QED BY <1>1, FrameMoved DEF IInv

LEMMA ResumeLoopKeeps ==
    ASSUME IInv, ResumeLoop
    PROVE  IInv'
<1>1. UNCHANGED <<stored, history>> /\ receipts' = receipts
  BY DEF ResumeLoop, effects
<1>2. run.status = "verifying" /\ run.step = run.turn + 1
  BY DEF ResumeLoop, IInv, Behind, OnRecord, InTurn
<1>3. DOMAIN agent' = DOMAIN Idle /\ agent'.at = "verify"
      /\ agent'.context = [step |-> run.step, turn |-> run.turn, observation |-> Observation]
  BY Frame DEF ResumeLoop
<1>4. agent'.context = Context
  BY <1>2, <1>3 DEF Context
<1>5. Agrees(agent', run, Context, PendingAction, calls[run.turn], seen[run.turn])
  BY <1>2, <1>3, <1>4 DEF Agrees, Places, InTool
<1> QED BY <1>1, <1>5, FrameMoved DEF IInv

LEMMA RecoverKeeps ==
    ASSUME IInv, Recover
    PROVE  IInv'
<1>1. UNCHANGED <<stored, history>> /\ receipts' = receipts
  BY DEF Recover, effects
<1>2. run.status \in {"tool_ready", "tool_running"}
  BY DEF Recover
<1>3. run.call # None
  BY <1>2 DEF IInv, Behind, Current, Good, FieldsMatchStatus, ToolStatuses
<1>4. RequestOf(run.call).call = run.call
  BY <1>3, RequestRead DEF IInv, Behind, OnRecord
<1>5. /\ DOMAIN agent' = DOMAIN Idle /\ agent'.context = None
      /\ agent'.action = ActionOf(RequestOf(run.call))
      /\ \/ run.status = "tool_ready" /\ agent'.at = "start"
         \/ run.status = "tool_running" /\ agent'.at = "execute"
  BY Frame DEF Recover, Execute
<1>6. agent'.action.call = run.call
  BY <1>4, <1>5 DEF ActionOf
<1>7. Agrees(agent', run, Context, PendingAction, calls[run.turn], seen[run.turn])
  BY <1>5, <1>6 DEF Agrees, Places, InTool, CallIs
<1> QED BY <1>1, <1>7, FrameMoved DEF IInv

-----------------------------------------------------------------------------
(* Steps after which the run has failed.                                   *)

\* What the process and the run it works on have in common.
LEMMA Inside ==
    ASSUME IInv
    PROVE  /\ Agrees(agent, run, Context, PendingAction, calls[run.turn], seen[run.turn])
           /\ DOMAIN agent = DOMAIN Idle
           /\ Good(run) /\ RunType(run) /\ FieldsMatchStatus(run) /\ BudgetKept(run)
           /\ run.max = Budget /\ run.next \in Nat \ {0}
BY DEF IInv, Behind, Current, FrameAgrees, Agrees, Good, RunType

\* The exceptions that authorize(), the executor and the resolver let out of a call.
Raises == AuthorizeRaises \/ OutputRefused \/ ExpectationRaises

LEMMA RaisesEnd ==
    ASSUME Raises
    PROVE  /\ UNCHANGED <<stored, effects, history, crashes>> /\ Return("raised")
           /\ agent.at \in {"decide", "invoke", "verify"}
BY DEF Raises, AuthorizeRaises, OutputRefused, ExpectationRaises, At

LEMMA EndsIdle ==
    ASSUME NEW outcome, Ended(outcome) \/ Return(outcome)
    PROVE  DOMAIN agent' = DOMAIN Idle /\ agent'.at = "idle"
BY Frame DEF Ended, Return

LEMMA ModelFails ==
    ASSUME IInv, run.status \in {"ready", "model_pending"}, Store(Plain("model.action_failed")),
           UNCHANGED <<receipts, history>>, DOMAIN agent' = DOMAIN Idle, agent'.at = "idle"
    PROVE  IInv'
<1> DEFINE e == Plain("model.action_failed")
<1>1. e.type = "model.action_failed" /\ e.seq = run.next /\ e.id = run.next
  BY DEF Plain
<1>2. Store(e)
  OBVIOUS
<1> HIDE DEF e
<1>3. EventType(e)
  BY <1>1, Inside DEF EventType, EventTypes, ModelTypes
<1>4. Guard(run, e)
  BY <1>1, Families DEF ModelTypes, ModelGuard
<1>5. run.status \notin Terminal
  BY DEF Terminal
<1> QED BY <1>1, <1>2, <1>3, <1>4, <1>5, RunFails DEF FailingTypes

LEMMA FailUnknownKeeps == ASSUME IInv, FailUnknown PROVE IInv'
BY ModelFails, EndsIdle DEF FailUnknown, effects

LEMMA AdapterRaisesKeeps ==
    ASSUME IInv, AdapterRaises
    PROVE  IInv'
<1>1. CASE agent.entry = "loop"
  <2>1. run.status = "model_pending"
    BY <1>1, Inside DEF AdapterRaises, At, Agrees
  <2>2. Store(Plain("model.action_failed")) /\ UNCHANGED <<receipts, history>>
    BY <1>1 DEF AdapterRaises, effects
  <2> QED BY <2>1, <2>2, EndsIdle, ModelFails DEF AdapterRaises
<1>2. CASE agent.entry # "loop"
  <2>1. UNCHANGED <<stored, history, receipts>>
    BY <1>2 DEF AdapterRaises, KeepStored, effects
  <2>2. Agrees(agent', run, Context, PendingAction, calls[run.turn], seen[run.turn])
    BY EndsIdle, IdleAgrees DEF AdapterRaises
  <2> QED BY <2>1, <2>2, FrameMoved DEF IInv
<1> QED BY <1>1, <1>2

LEMMA ExhaustBudgetKeeps ==
    ASSUME IInv, ExhaustBudget
    PROVE  IInv'
<1> DEFINE e == [type |-> "run.step_budget_exhausted", id |-> run.next, seq |-> run.next,
                 max |-> run.max, completed |-> run.turn]
<1>1. /\ e.type = "run.step_budget_exhausted" /\ e.seq = run.next /\ e.id = run.next
      /\ e.max = run.max /\ e.completed = run.turn
  OBVIOUS
<1>2. Store(e) /\ UNCHANGED <<receipts, history>> /\ run.status = "ready" /\ ~BudgetAvailable(run)
  BY DEF ExhaustBudget, effects
<1> HIDE DEF e
<1>3. EventType(e)
  BY <1>1, Inside DEF EventType, EventTypes, RunTypes
<1>4. run.max # 0 /\ run.turn >= run.max
  BY <1>2, Inside DEF BudgetAvailable, RunType
<1>5. RunGuard(run, e)
  BY <1>1, <1>2, <1>4 DEF RunGuard
<1>6. Guard(run, e)
  BY <1>1, <1>5, Families DEF RunTypes
<1>7. run.status \notin Terminal
  BY <1>2 DEF Terminal
<1>8. DOMAIN agent' = DOMAIN Idle /\ agent'.at = "idle"
  BY EndsIdle DEF ExhaustBudget
<1> QED BY <1>1, <1>2, <1>3, <1>6, <1>7, <1>8, RunFails DEF FailingTypes

\* The events of the active call, as the process numbers them.
LEMMA CallEvent ==
    ASSUME IInv, NEW call, call = run.call, NEW type,
           \/ type \in {"tool.authorized", "tool.denied"} /\ run.status = "tool_pending"
           \/ type = "tool.started" /\ run.status = "tool_ready"
           \/ type \in {"tool.succeeded", "tool.failed", "tool.timed_out"}
                /\ run.status = "tool_running"
    PROVE  /\ EventType(OfCall(type, call)) /\ Guard(run, OfCall(type, call))
           /\ OfCall(type, call).type = type /\ OfCall(type, call).seq = run.next
           /\ run.status \notin Terminal /\ run.status \in ToolStatuses
<1> DEFINE e == OfCall(type, call)
<1>1. e.type = type /\ e.id = run.next /\ e.seq = run.next /\ e.call = call
  BY DEF OfCall
<1> HIDE DEF e
<1>2. run.status \notin Terminal /\ run.status \in ToolStatuses
  BY DEF Terminal, ToolStatuses
<1>3. EventType(e)
  BY <1>1, Inside DEF EventType, EventTypes, ToolTypes
<1>4. ActiveTool(run, e)
  BY <1>1, <1>2, Inside DEF ActiveTool, FieldsMatchStatus
<1>5. ToolGuard(run, e)
  BY <1>1, <1>4 DEF ToolGuard
<1>6. Guard(run, e)
  BY <1>1, <1>5, Families DEF ToolTypes
<1> QED BY <1>1, <1>2, <1>3, <1>6 DEF e

LEMMA DenyKeeps ==
    ASSUME IInv, Deny
    PROVE  IInv'
<1>1. run.status = "tool_pending" /\ agent.action.call = run.call
  BY Inside DEF Deny, At, Agrees, CallIs
<1>2. Store(OfCall("tool.denied", agent.action.call)) /\ UNCHANGED <<receipts, history>>
  BY DEF Deny, effects
<1>3. DOMAIN agent' = DOMAIN Idle /\ agent'.at = "idle"
  BY EndsIdle DEF Deny
<1> QED BY <1>1, <1>2, <1>3, CallEvent, RunFails DEF FailingTypes

LEMMA FailStepKeeps ==
    ASSUME IInv, FailStep
    PROVE  IInv'
<1> DEFINE e == Plain("verification.failed")
<1>1. e.type = "verification.failed" /\ e.seq = run.next /\ e.id = run.next
  BY DEF Plain
<1>2. Store(e) /\ UNCHANGED <<receipts, history>> /\ run.status = "verifying"
  BY DEF FailStep, effects
<1> HIDE DEF e
<1>3. EventType(e)
  BY <1>1, Inside DEF EventType, EventTypes, VerificationTypes
<1>4. Guard(run, e)
  BY <1>1, <1>2, Families DEF VerificationTypes, VerificationGuard
<1>5. run.status \notin Terminal
  BY <1>2 DEF Terminal
<1>6. DOMAIN agent' = DOMAIN Idle /\ agent'.at = "idle"
  BY EndsIdle DEF FailStep
<1> QED BY <1>1, <1>2, <1>3, <1>4, <1>5, <1>6, RunFails DEF FailingTypes

\* The answer to a waiting gate, as the process numbers it.
LEMMA GateEvent ==
    ASSUME IInv, run.status = "awaiting_gate", NEW type, NEW outcome,
           \/ type = "gate.approved" /\ run.gate.mode = "pair"
           \/ type = "gate.rejected"
           \/ type = "gate.evaluated" /\ run.gate.mode = "user_gate" /\ outcome \in {"pass", "block"}
    PROVE  /\ EventType(OfGate(type, outcome)) /\ Guard(run, OfGate(type, outcome))
           /\ OfGate(type, outcome).type = type /\ OfGate(type, outcome).seq = run.next
           /\ OfGate(type, outcome).outcome = outcome
<1> DEFINE e == OfGate(type, outcome)
<1>1. /\ e.type = type /\ e.id = run.next /\ e.seq = run.next /\ e.call = run.call
      /\ e.digest = run.gate.digest /\ e.revision = run.gate.revision
      /\ e.attempt = run.gate.attempts + 1 /\ e.max = run.gate.max /\ e.outcome = outcome
  BY DEF OfGate
<1> HIDE DEF e
<1>2. run.call # None /\ run.gate \in Gate
  BY Inside DEF FieldsMatchStatus, ToolStatuses, RunType
<1>3. EventType(e)
  BY <1>1, <1>2, Inside DEF EventType, EventTypes, GateTypes, Gate
<1>4. ActiveGate(run, e)
  BY <1>1, <1>2 DEF ActiveGate, ActiveTool
<1>5. GateGuard(run, e)
  BY <1>1, <1>4 DEF GateGuard, NextAttempt
<1>6. Guard(run, e)
  BY <1>1, <1>5, Families DEF GateTypes
<1> QED BY <1>1, <1>3, <1>6 DEF e

LEMMA CloseGateKeeps ==
    ASSUME IInv, CloseGate
    PROVE  IInv'
<1>1. /\ run.status = "awaiting_gate" /\ UNCHANGED <<receipts, history>>
      /\ agent' = agent /\ agent.at = "idle"
  BY DEF CloseGate, At, effects
<1>2. run.status \notin Terminal /\ DOMAIN agent' = DOMAIN Idle /\ agent'.at = "idle"
  BY <1>1, Inside DEF Terminal
<1>3. CASE Store(OfGate("gate.rejected", "block"))
  BY <1>1, <1>2, <1>3, GateEvent, RunFails DEF FailingTypes
<1>4. CASE run.gate.mode = "user_gate" /\ Store(OfGate("gate.evaluated", "block"))
  BY <1>1, <1>2, <1>4, GateEvent, RunFails
<1> QED BY <1>3, <1>4 DEF CloseGate

-----------------------------------------------------------------------------
(* Steps of a tool call that goes on.                                      *)

\* The process in the call agrees with the run the event leads to.
LEMMA FrameGoesOn ==
    ASSUME IInv, Behind', Context' = Context, UNCHANGED <<receipts, history>>,
           DOMAIN agent' = DOMAIN Idle, agent'.context \in {Context, None},
           \/ agent'.at = "idle"
           \/ agent'.at = "start" /\ CallIs(run', agent', "tool_ready")
           \/ agent'.at = "execute" /\ CallIs(run', agent', "tool_running")
           \/ agent'.at = "verify" /\ run'.status = "verifying"
    PROVE  IInv'
<1>1. Agrees(agent', run', Context', PendingAction', calls'[run'.turn], seen'[run'.turn])
  BY DEF Agrees, Places, InTool
<1> QED BY <1>1 DEF IInv, FrameAgrees

LEMMA AllowKeeps ==
    ASSUME IInv, Allow
    PROVE  IInv'
<1>1. /\ run.status = "tool_pending" /\ agent.action.call = run.call
      /\ agent.context \in {Context, None}
  BY Inside DEF Allow, At, Agrees, CallIs, InTool
<1>2. Store(OfCall("tool.authorized", agent.action.call)) /\ UNCHANGED <<receipts, history>>
  BY DEF Allow, effects
<1>3. /\ Behind' /\ Context' = Context /\ run'.status = "tool_ready" /\ run'.call = run.call
  BY <1>1, <1>2, CallEvent, CallGoesOn DEF CarryingTypes, Leads
<1>4. /\ DOMAIN agent' = DOMAIN Idle /\ agent'.at = "start" /\ agent'.context = agent.context
      /\ agent'.action = agent.action
  BY Inside, Frame DEF Allow, Goto
<1> QED BY <1>1, <1>2, <1>3, <1>4, FrameGoesOn DEF CallIs

LEMMA StartToolKeeps ==
    ASSUME IInv, StartTool
    PROVE  IInv'
<1>1. /\ run.status = "tool_ready" /\ agent.action.call = run.call
      /\ agent.context \in {Context, None}
  BY Inside DEF StartTool, At, Agrees, CallIs, InTool
<1>2. Store(OfCall("tool.started", agent.action.call)) /\ UNCHANGED <<receipts, history>>
  BY DEF StartTool, effects
<1>3. /\ Behind' /\ Context' = Context /\ run'.status = "tool_running" /\ run'.call = run.call
  BY <1>1, <1>2, CallEvent, CallGoesOn DEF CarryingTypes, Leads
<1>4. /\ DOMAIN agent' = DOMAIN Idle /\ agent'.at = "execute" /\ agent'.context = agent.context
      /\ agent'.action = agent.action
  BY Inside, Frame DEF StartTool, Goto
<1> QED BY <1>1, <1>2, <1>3, <1>4, FrameGoesOn DEF CallIs

LEMMA EscalateKeeps ==
    ASSUME IInv, NEW mode \in GateModes, Escalate(mode)
    PROVE  IInv'
<1> DEFINE e == [type |-> "tool.escalated", id |-> run.next, seq |-> run.next,
                 call |-> agent.action.call, digest |-> Digest(agent.action.call),
                 revision |-> 1, mode |-> mode, max |-> 1]
<1>1. /\ e.type = "tool.escalated" /\ e.seq = run.next /\ e.id = run.next
      /\ e.call = agent.action.call /\ e.digest = Digest(agent.action.call)
      /\ e.revision = 1 /\ e.mode = mode /\ e.max = 1
  OBVIOUS
<1>2. Store(e) /\ UNCHANGED <<receipts, history>>
  BY DEF Escalate, effects
<1> HIDE DEF e
<1>3. run.status = "tool_pending" /\ agent.action.call = run.call
  BY Inside DEF Escalate, At, Agrees, CallIs
<1>4. run.call \in Calls /\ run.call # None
  BY <1>3, Inside DEF FieldsMatchStatus, RunType, ToolStatuses
<1>5. e.digest \in Digests
  BY <1>1, <1>3, <1>4, LoopDigestAssumption
<1>6. EventType(e)
  BY <1>1, <1>5, Inside DEF EventType, EventTypes, GateTypes
<1>7. GateGuard(run, e)
  BY <1>1, <1>3, <1>4 DEF GateGuard, ActiveTool, OpensGate
<1>8. Guard(run, e)
  BY <1>1, <1>7, Families DEF GateTypes
<1>9. Behind' /\ Context' = Context
  BY <1>1, <1>2, <1>3, <1>6, <1>8, CallGoesOn DEF CarryingTypes, ToolStatuses
<1>10. agent' = Idle
  BY DEF Escalate, Ended, Return
<1> QED BY <1>2, <1>9, <1>10, Frame, FrameGoesOn

LEMMA RecordOutcomeKeeps ==
    ASSUME IInv, RecordOutcome
    PROVE  IInv'
<1> DEFINE type == [succeeded |-> "tool.succeeded", failed |-> "tool.failed",
                    timed_out |-> "tool.timed_out"][agent.result]
<1>1. /\ run.status = "tool_running" /\ agent.action.call = run.call
      /\ agent.context \in {Context, None} /\ agent.result \in Outcomes
  BY Inside DEF RecordOutcome, At, Agrees, CallIs, InTool
<1>2. Store(OfCall(type, agent.action.call)) /\ UNCHANGED <<receipts, history>>
  BY DEF RecordOutcome, effects
<1>3. CASE agent.result = "succeeded"
  <2>1. type = "tool.succeeded"
    BY <1>3
  <2> HIDE DEF type
  <2>2. Behind' /\ Context' = Context /\ run'.status = "verifying"
    BY <1>1, <1>2, <2>1, CallEvent, CallGoesOn DEF CarryingTypes, Leads
  <2>3. CASE agent.entry # "operator"
    <3>1. /\ DOMAIN agent' = DOMAIN Idle /\ agent'.at = "verify"
          /\ agent'.context = agent.context
      BY <1>3, <2>3, Inside, Frame DEF RecordOutcome, Goto
    <3> QED BY <1>1, <1>2, <2>2, <3>1, FrameGoesOn
  <2>4. CASE agent.entry = "operator"
    <3>1. agent' = Idle
      BY <2>4 DEF RecordOutcome, Ended, Return
    <3> QED BY <1>2, <2>2, <3>1, Frame, FrameGoesOn
  <2> QED BY <2>3, <2>4
<1>4. CASE agent.result # "succeeded"
  <2>1. type \in {"tool.failed", "tool.timed_out"}
    BY <1>1, <1>4 DEF Outcomes
  <2> HIDE DEF type
  <2>2. DOMAIN agent' = DOMAIN Idle /\ agent'.at = "idle"
    BY <1>4, EndsIdle DEF RecordOutcome
  <2> QED BY <1>1, <1>2, <2>1, <2>2, CallEvent, RunFails DEF FailingTypes
<1> QED BY <1>3, <1>4

LEMMA ReleaseGateKeeps ==
    ASSUME IInv, ReleaseGate
    PROVE  IInv'
<1>1. run.status = "awaiting_gate" /\ UNCHANGED <<receipts, history>>
  BY DEF ReleaseGate, effects
<1>2. run.call # None /\ run.gate \in Gate /\ run.status \in ToolStatuses
  BY <1>1, Inside DEF FieldsMatchStatus, ToolStatuses, RunType
<1>3. PICK type : /\ Store(OfGate(type, "pass"))
                  /\ \/ type = "gate.approved" /\ run.gate.mode = "pair"
                     \/ type = "gate.evaluated" /\ run.gate.mode = "user_gate"
  BY <1>2 DEF ReleaseGate, Gate, GateModes
<1>4. /\ Behind' /\ Context' = Context /\ run'.status = "tool_ready" /\ run'.call = run.call
  BY <1>1, <1>2, <1>3, GateEvent, CallGoesOn DEF CarryingTypes, Leads
<1>5. RequestOf(run.call).call = run.call
  BY <1>2, RequestRead DEF IInv, Behind, OnRecord
<1>6. /\ DOMAIN agent' = DOMAIN Idle /\ agent'.at = "start" /\ agent'.context = None
      /\ agent'.action = ActionOf(RequestOf(run.call))
  BY Frame DEF ReleaseGate, Execute
<1>7. agent'.action.call = run.call
  BY <1>5, <1>6 DEF ActionOf
<1> QED BY <1>1, <1>4, <1>6, <1>7, FrameGoesOn DEF CallIs

-----------------------------------------------------------------------------
(* A turn of the loop: the request, the adapter, the durable action.       *)

LEMMA BeginActionKeeps ==
    ASSUME IInv, BeginAction
    PROVE  IInv'
<1> DEFINE e == [type |-> "model.action_requested", id |-> run.next, seq |-> run.next,
                 step |-> agent.context.step, turn |-> agent.context.turn,
                 invocation |-> agent.context.step,
                 observation |-> agent.context.observation]
<1>1. /\ agent.at = "begin" /\ agent.entry = "loop" /\ Ready(run) /\ agent.context = Context
  BY Inside DEF BeginAction, At, Agrees
<1>2. Context = [step |-> run.turn + 1, turn |-> run.turn, observation |-> Observation]
  BY DEF Context
<1>3. /\ e.type = "model.action_requested" /\ e.id = run.next /\ e.seq = run.next
      /\ e.step = run.turn + 1 /\ e.turn = run.turn /\ e.invocation = run.turn + 1
      /\ e.observation = Observation
  BY <1>1, <1>2
<1>4. /\ Store(e) /\ log' = Append(log, e) /\ run.status = "ready"
      /\ UNCHANGED <<receipts, history>>
  BY DEF BeginAction, effects, Store
<1> HIDE DEF e
<1>5. run.turn \in Turns /\ run.turn \in Nat /\ Current(run, log) /\ IsSequence(log) /\ TurnsMatch
  BY <1>1, TurnInBudget, Inside DEF IInv, Behind, Current, RunType
<1>6. EventType(e)
  BY <1>3, <1>5, Inside DEF EventType, EventTypes, ModelTypes
<1>7. Guard(run, e)
  <2>1. ModelGuard(run, e)
    BY <1>1, <1>3, <1>5 DEF ModelGuard, Ready
  <2> QED BY <1>3, <2>1, Families DEF ModelTypes
<1>8. /\ Current(run', log') /\ Took(run, e, run')
      /\ run.next = Len(log) + 1 /\ Len(log) \in Nat /\ Len(log') = Len(log) + 1
      /\ log'[Len(log) + 1] = e
  BY <1>3, <1>4, <1>5, <1>6, <1>7, Taken DEF Terminal
<1>9. run'.status = "model_pending" /\ run'.turn = run.turn /\ run'.invocation = run.turn + 1
  <2>1. Effect(run, e) = ModelEffect(run, e)
    BY <1>3, Families DEF ModelTypes
  <2>2. /\ ModelEffect(run, e).status = "model_pending" /\ ModelEffect(run, e).turn = run.turn
        /\ ModelEffect(run, e).invocation = run.turn + 1
    BY <1>3, Inside, Domain DEF ModelEffect, RunType
  <2> QED BY <1>8, <2>1, <2>2 DEF Took
<1>10. Context' = Context
  BY <1>3, <1>4, <1>5, <1>9, ContextKept
<1>11. HasLast(ModelRequests(log', run'.invocation)) /\ PendingContext' = Context
  <2> DEFINE P == ModelRequests(log', run'.invocation)
  <2>1. P \subseteq 1..Len(log') /\ Len(log) + 1 \in P
    BY <1>3, <1>8, <1>9 DEF ModelRequests
  <2>2. P = {i \in Of("model.action_requested")' : log'[i].invocation = run'.invocation}
    BY DEF ModelRequests, Of
  <2> HIDE DEF P
  <2>3. HasLast(P) /\ Last(P) = Len(log) + 1
    BY <1>4, <1>5, <2>1, RequestStored
  <2>4. PendingContext' = [step |-> e.step, turn |-> e.turn, observation |-> e.observation]
    BY <1>8, <2>2, <2>3 DEF PendingContext
  <2> QED BY <1>2, <1>3, <2>3, <2>4 DEF P
<1>12. OnRecord'
  <2>1. run'.call = None
    BY <1>8, <1>9 DEF Current, Good, FieldsMatchStatus, ToolStatuses
  <2> QED BY <1>9, <1>10, <1>11, <2>1 DEF OnRecord, InTurn, ToolStatuses
<1>13. calls' = calls /\ seen' = seen /\ chosen' = chosen /\ spent' = spent
  BY <1>4 DEF history
<1>14. calls[run.turn] = 0 /\ TurnsMatch'
  <2>1. calls[run.turn] = 0
    BY <1>4, <1>5 DEF TurnsMatch, Turned
  <2>2. Turned(run', Context, PendingAction', calls, chosen, spent, seen)
    BY <1>4, <1>5, <1>9 DEF TurnsMatch, Turned, InTurn, ToolStatuses
  <2> QED BY <1>10, <1>13, <2>1, <2>2 DEF TurnsMatch
<1>15. CompletedOnEvidence'
  BY <1>9 DEF CompletedOnEvidence
<1>16. FrameAgrees'
  <2>1. /\ DOMAIN agent' = DOMAIN Idle /\ agent'.at = "ask" /\ agent'.entry = "loop"
        /\ agent'.context = Context
    BY <1>1, Inside, Frame DEF BeginAction, Goto
  <2>2. Agrees(agent', run', Context, PendingAction', calls[run.turn], seen'[run'.turn])
    BY <1>9, <1>14, <2>1 DEF Agrees, Places, InTool
  <2> QED BY <1>9, <1>10, <1>13, <2>2 DEF FrameAgrees
<1> QED BY <1>4, <1>8, <1>12, <1>14, <1>15, <1>16 DEF IInv, Behind

LEMMA AskKeeps ==
    ASSUME IInv, Ask
    PROVE  IInv'
<1>1. /\ agent.at = "ask" /\ agent.context = Context
      /\ IF agent.entry = "loop" THEN run.status = "model_pending" /\ calls[run.turn] = 0
         ELSE Ready(run)
  BY Inside DEF Ask, At, Agrees
<1>2. run.turn \in Turns /\ TurnsMatch
  BY <1>1, TurnInBudget DEF IInv, Behind
<1>3. agent.context.turn = run.turn
  BY <1>1 DEF Context
<1>4. /\ UNCHANGED <<stored, receipts, chosen, spent>>
      /\ calls' = [calls EXCEPT ![run.turn] = IF agent.entry = "loop" THEN @ + 1 ELSE @]
      /\ seen' = [seen EXCEPT ![run.turn] = agent.context]
  BY <1>3 DEF Ask, effects
<1>5. /\ run' = run /\ Current(run', log') /\ OnRecord' /\ CompletedOnEvidence'
      /\ Context' = Context /\ PendingAction' = PendingAction
  BY <1>4, LogKept DEF IInv
<1>6. /\ calls' \in [Turns -> Nat] /\ DOMAIN seen' = Turns
      /\ calls'[run.turn] = IF agent.entry = "loop" THEN calls[run.turn] + 1 ELSE calls[run.turn]
      /\ seen'[run.turn] = Context
      /\ \A t \in Turns \ {run.turn} : calls'[t] = calls[t]
  BY <1>1, <1>2, <1>4 DEF TurnsMatch, Turned
<1>7. Turned(run, Context, PendingAction, calls', chosen, spent, seen')
  <2>1. \A t \in Turns : t \in Nat
    BY LoopAssumption DEF Turns
  <2>2. run.status \in {"ready", "model_pending"}
        /\ (run.status = "ready" => calls'[run.turn] = calls[run.turn])
    BY <1>1, <1>6 DEF Ready
  <2> QED BY <1>2, <1>6, <2>1, <2>2 DEF TurnsMatch, Turned, InTurn, ToolStatuses
<1>8. TurnsMatch'
  BY <1>4, <1>5, <1>7 DEF TurnsMatch
<1>9. FrameAgrees'
  <2>1. /\ DOMAIN agent' = DOMAIN Idle /\ agent'.at = "asked" /\ agent'.entry = agent.entry
        /\ agent'.context = Context
    BY <1>1, Inside, Frame DEF Ask, Goto
  <2>2. Agrees(agent', run, Context, PendingAction, calls'[run.turn], seen'[run.turn])
    BY <1>1, <1>6, <2>1 DEF Agrees, Places, InTool
  <2> QED BY <1>5, <2>2 DEF FrameAgrees
<1> QED BY <1>4, <1>5, <1>8, <1>9 DEF IInv, Behind

LEMMA PersistKeeps ==
    ASSUME IInv, Persist
    PROVE  IInv'
<1> DEFINE e == [type |-> "model.action_proposed", id |-> run.next, seq |-> run.next,
                 step |-> run.step, turn |-> run.turn, invocation |-> run.invocation,
                 action |-> agent.action]
<1>1. /\ agent.at = "persist" /\ agent.entry = "loop" /\ run.status = "model_pending"
      /\ agent.context = Context /\ seen[run.turn] = Context /\ agent.action \in Actions
      /\ calls[run.turn] = 1
  BY Inside DEF Persist, At, Agrees
<1>2. /\ e.type = "model.action_proposed" /\ e.id = run.next /\ e.seq = run.next
      /\ e.step = run.step /\ e.turn = run.turn /\ e.invocation = run.invocation
      /\ e.action = agent.action
  OBVIOUS
<1>3. /\ Store(e) /\ log' = Append(log, e) /\ UNCHANGED <<receipts, calls, seen, spent>>
      /\ chosen' = [chosen EXCEPT ![run.turn] = agent.action]
  BY DEF Persist, effects, Store
<1> HIDE DEF e
<1>4. run.turn \in Turns /\ Current(run, log) /\ IsSequence(log) /\ TurnsMatch /\ OnRecord
  BY <1>1, TurnInBudget DEF IInv, Behind, Current
<1>5. EventType(e)
  BY <1>2, Inside DEF EventType, EventTypes, ModelTypes
<1>6. Guard(run, e)
  BY <1>1, <1>2, Families DEF ModelTypes, ModelGuard
<1>7. /\ Current(run', log') /\ Took(run, e, run')
      /\ run.next = Len(log) + 1 /\ Len(log) \in Nat
      /\ \A i \in 1..Len(log) : log'[i] = log[i]
      /\ log'[run.next] = e
  BY <1>1, <1>2, <1>3, <1>4, <1>5, <1>6, Taken DEF Terminal
<1>8. /\ run'.status = "action_pending" /\ run'.turn = run.turn
      /\ run'.invocation = run.invocation /\ run'.action = run.next
  <2>1. Effect(run, e) = ModelEffect(run, e)
    BY <1>2, Families DEF ModelTypes
  <2>2. /\ ModelEffect(run, e).status = "action_pending" /\ ModelEffect(run, e).turn = run.turn
        /\ ModelEffect(run, e).invocation = run.invocation
        /\ ModelEffect(run, e).action = run.next
    BY <1>2, Inside, Domain DEF ModelEffect, RunType
  <2> QED BY <1>7, <2>1, <2>2 DEF Took
<1>9. Context' = Context
  BY <1>2, <1>3, <1>4, <1>8, ContextKept
<1>10. PendingAction' = agent.action
  BY <1>2, <1>7, <1>8 DEF PendingAction
<1>11. HasLast(ModelRequests(log', run'.invocation)) /\ PendingContext' = Context
  <2> DEFINE P == ModelRequests(log, run.invocation)
  <2>1. run.invocation # 0
    BY <1>1, Inside DEF FieldsMatchStatus
  <2>2. HasLast(P) /\ PendingContext = Context
    BY <1>4, <2>1 DEF OnRecord
  <2>3. ModelRequests(log', run'.invocation) = P
    BY <1>2, <1>3, <1>4, <1>8, RequestsKept
  <2>4. P = {i \in Of("model.action_requested")' : log'[i].invocation = run'.invocation}
    BY <2>3 DEF ModelRequests, Of
  <2>5. Last(P) \in 1..Len(log)
    BY <2>2, LastIsIn DEF ModelRequests
  <2>6. PendingContext = [step |-> log[Last(P)].step, turn |-> log[Last(P)].turn,
                          observation |-> log[Last(P)].observation]
    BY ContextRead
  <2> HIDE DEF P
  <2>7. PendingContext' = PendingContext
    BY <1>7, <2>4, <2>5, <2>6 DEF PendingContext
  <2> QED BY <2>2, <2>3, <2>7
<1>12. OnRecord'
  <2>1. run'.call = None
    BY <1>7, <1>8 DEF Current, Good, FieldsMatchStatus, ToolStatuses
  <2> QED BY <1>8, <1>9, <1>11, <2>1 DEF OnRecord, InTurn, ToolStatuses
<1>13. TurnsMatch'
  <2>1. /\ chosen' \in [Turns -> Actions \cup {None}] /\ chosen'[run.turn] = agent.action
        /\ \A t \in Turns \ {run.turn} : chosen'[t] = chosen[t]
    BY <1>1, <1>3, <1>4 DEF TurnsMatch, Turned
  <2>2. \A t \in Turns : t \in Nat
    BY LoopAssumption DEF Turns
  <2>3. Turned(run', Context, agent.action, calls, chosen', spent, seen)
    BY <1>1, <1>4, <1>8, <2>1, <2>2 DEF TurnsMatch, Turned, InTurn, ToolStatuses
  <2> QED BY <1>3, <1>9, <1>10, <2>3 DEF TurnsMatch
<1>14. CompletedOnEvidence'
  BY <1>8 DEF CompletedOnEvidence
<1>15. FrameAgrees'
  <2>1. /\ DOMAIN agent' = DOMAIN Idle /\ agent'.at = "dispatch" /\ agent'.entry = "loop"
        /\ agent'.context = Context /\ agent'.action = agent.action /\ agent'.event = run.next
    BY <1>1, Inside, Frame DEF Persist
  <2>2. Agrees(agent', run', Context, agent.action, calls'[run'.turn], seen[run.turn])
    BY <1>1, <1>8, <2>1 DEF Agrees, Places, InTool
  <2> QED BY <1>3, <1>8, <1>9, <1>10, <2>2 DEF FrameAgrees
<1> QED BY <1>3, <1>7, <1>12, <1>13, <1>14, <1>15 DEF IInv, Behind

-----------------------------------------------------------------------------
(* A turn is spent.                                                        *)

\* What is dispatched is dispatched in a turn of the budget, for its context.
LEMMA Dispatching ==
    ASSUME IInv, agent.at = "dispatch"
    PROVE  /\ run.turn \in Turns /\ BudgetAvailable(run) /\ run.turn \in Nat
           /\ Current(run, log) /\ IsSequence(log) /\ TurnsMatch
           /\ agent.context = Context /\ Context.turn = run.turn /\ Context.step = run.turn + 1
           /\ Context.observation = Observation
           /\ seen[run.turn] = Context /\ agent.action \in Actions /\ agent.action # None
           /\ \/ run.status = "action_pending" /\ run.action # 0 /\ agent.event = run.action
                 /\ agent.action = PendingAction
              \/ run.status = "ready" /\ agent.entry # "loop"
           /\ run.status \notin Terminal
<1>1. /\ agent.context = Context /\ seen[run.turn] = Context /\ agent.action \in Actions
      /\ IF agent.entry = "loop"
         THEN /\ run.status = "action_pending" /\ agent.event = run.action
              /\ agent.action = PendingAction
         ELSE Ready(run)
  BY Inside DEF Agrees
<1>2. run.turn \in Turns /\ BudgetAvailable(run) /\ run.turn \in Nat
  BY <1>1, TurnInBudget, Inside DEF IInv, RunType
<1>3. run.status = "action_pending" => run.action # 0
  BY Inside DEF FieldsMatchStatus
<1>4. Context.turn = run.turn /\ Context.step = run.turn + 1 /\ Context.observation = Observation
  BY DEF Context
<1>5. agent.action # None
  BY <1>1, LoopDigestAssumption
<1> QED BY <1>1, <1>2, <1>3, <1>4, <1>5 DEF Ready, Terminal, IInv, Behind, Current

\* What a dispatched action leaves in spent.
LEMMA Spending ==
    ASSUME IInv, agent.at = "dispatch", spent' = [spent EXCEPT ![run.turn] = agent.action]
    PROVE  /\ spent' \in [Turns -> Actions \cup {None}] /\ spent'[run.turn] # None
           /\ \A t \in Turns \ {run.turn} : spent'[t] = spent[t]
BY Dispatching DEF TurnsMatch, Turned

LEMMA CompleteKeeps ==
    ASSUME IInv, Complete
    PROVE  IInv'
<1> DEFINE accepted == Accepts(agent.action.answer, agent.context)
           e == [type |-> IF accepted THEN "completion.accepted" ELSE "completion.rejected",
                 id |-> run.next, seq |-> run.next, step |-> agent.context.step,
                 action |-> run.action, answer |-> agent.action.answer]
<1>1. agent.at = "dispatch"
  BY DEF Complete, At
<1>2. /\ e.type = IF accepted THEN "completion.accepted" ELSE "completion.rejected"
      /\ e.id = run.next /\ e.seq = run.next /\ e.step = agent.context.step
      /\ e.action = run.action /\ e.answer = agent.action.answer
  OBVIOUS
<1>3. /\ Store(e) /\ log' = Append(log, e) /\ UNCHANGED <<receipts, calls, seen, chosen>>
      /\ spent' = [spent EXCEPT ![run.turn] = agent.action]
  BY DEF Complete, effects, Store
<1>4. accepted => e.answer = Expected /\ (NeedsEvidence => agent.context.observation # 0)
  BY DEF Accepts
<1>5. /\ DOMAIN agent' = DOMAIN Idle
      /\ \/ agent'.at = "idle"
         \/ ~accepted /\ agent'.at = "top" /\ agent'.entry = "loop"
  BY Inside, Frame DEF Complete, Return, Goto
<1> HIDE DEF e, accepted
<1>6. e.type \in CompletionTypes
  BY <1>2 DEF CompletionTypes
<1>7. EventType(e)
  BY <1>2, <1>6, Inside DEF EventType, EventTypes, CompletionTypes
<1>8. Guard(run, e)
  <2>1. CompletionGuard(run, e)
    BY <1>1, <1>2, Dispatching DEF CompletionGuard, AnswersAction
  <2> QED BY <1>6, <2>1, Families
<1>9. /\ Current(run', log') /\ Took(run, e, run')
      /\ Len(log') = Len(log) + 1 /\ log'[Len(log) + 1] = e
  BY <1>1, <1>2, <1>3, <1>6, <1>7, <1>8, Dispatching, Taken DEF CompletionTypes
<1>10. /\ run'.status = (IF accepted THEN "completed" ELSE "ready")
       /\ run'.turn = run.turn + 1
  <2>1. Effect(run, e) = CompletionEffect(run, e)
    BY <1>6, Families
  <2>2. /\ CompletionEffect(run, e).status = (IF accepted THEN "completed" ELSE "ready")
        /\ CompletionEffect(run, e).turn = run.turn + 1
    BY <1>2, Inside, Domain DEF CompletionEffect, CloseModel, RunType
  <2> QED BY <1>9, <2>1, <2>2 DEF Took
<1>11. OnRecord'
  <2>1. run'.call = None /\ run'.invocation = 0
    BY <1>9, <1>10 DEF Current, Good, FieldsMatchStatus, ToolStatuses
  <2> QED BY <1>10, <2>1 DEF OnRecord, InTurn, ToolStatuses
<1>12. TurnsMatch'
  <2>1. Turned(run, Context, PendingAction, calls, chosen, spent, seen) /\ run.turn \in Turns
    BY <1>1, Dispatching DEF TurnsMatch
  <2>2. Turned(run', Context', PendingAction', calls, chosen, spent', seen)
    BY <1>1, <1>3, <1>10, <2>1, Spending, TurnedNext
  <2> QED BY <1>3, <2>2 DEF TurnsMatch
<1>13. CompletedOnEvidence'
  <2>1. ASSUME accepted, NeedsEvidence PROVE StepVerifications' # {}
    <3>1. Observation # 0
      BY <1>1, <1>4, <2>1, Dispatching
    <3>2. StepVerifications # {}
      BY <3>1 DEF Observation
    <3>3. StepVerifications' = StepVerifications
      BY <1>1, <1>3, <1>6, Dispatching, VerificationsKept DEF CompletionTypes
    <3> QED BY <3>2, <3>3
  <2>2. accepted => log'[Len(log')].type = "completion.accepted"
                    /\ log'[Len(log')].answer = Expected
    BY <1>2, <1>4, <1>9
  <2> QED BY <1>10, <2>1, <2>2 DEF CompletedOnEvidence
<1>14. FrameAgrees'
  <2>1. Agrees(agent', run', Context', PendingAction', calls'[run'.turn], seen'[run'.turn])
    BY <1>5, <1>10 DEF Agrees, Places, InTool
  <2> QED BY <2>1 DEF FrameAgrees
<1> QED BY <1>3, <1>9, <1>11, <1>12, <1>13, <1>14 DEF IInv, Behind

LEMMA RequestToolKeeps ==
    ASSUME IInv, RequestTool
    PROVE  IInv'
<1> DEFINE e == [type |-> "tool.requested", id |-> run.next, seq |-> run.next,
                 call |-> agent.action.call, content |-> agent.action.content,
                 step |-> agent.context.step, action |-> agent.event]
<1>1. agent.at = "dispatch" /\ agent.action.kind = "tool"
  BY DEF RequestTool, At
<1>2. /\ e.type = "tool.requested" /\ e.id = run.next /\ e.seq = run.next
      /\ e.call = agent.action.call /\ e.step = run.turn + 1 /\ e.action = agent.event
  BY <1>1, Dispatching
<1>3. /\ Store(e) /\ log' = Append(log, e) /\ UNCHANGED <<receipts, calls, seen, chosen>>
      /\ spent' = [spent EXCEPT ![run.turn] = agent.action]
  BY <1>1, Dispatching DEF RequestTool, effects, Store
<1> HIDE DEF e
<1>4. e.call \in Calls /\ e.call # None
  <2>1. agent.action \in ToolCalls
    BY <1>1, Dispatching DEF Actions, FinalAnswers
  <2> QED BY <1>2, <2>1, NoneAssumption DEF ToolCalls
<1>5. EventType(e)
  BY <1>1, <1>2, <1>4, Inside, Dispatching DEF EventType, EventTypes, ToolTypes
<1>6. Guard(run, e)
  <2>1. ToolGuard(run, e)
    BY <1>1, <1>2, <1>4, Dispatching DEF ToolGuard, AnswersAction
  <2> QED BY <1>2, <2>1, Families DEF ToolTypes
<1>7. /\ Current(run', log') /\ Took(run, e, run') /\ Len(log) \in Nat
      /\ Len(log') = Len(log) + 1 /\ log'[Len(log) + 1] = e
  BY <1>1, <1>2, <1>3, <1>5, <1>6, Dispatching, Taken
<1>8. /\ run'.status = "tool_pending" /\ run'.turn = run.turn /\ run'.step = run.turn + 1
      /\ run'.call = e.call /\ run'.invocation = 0
  <2>1. Effect(run, e) = ToolEffect(run, e)
    BY <1>2, Families DEF ToolTypes
  <2>2. /\ ToolEffect(run, e).status = "tool_pending" /\ ToolEffect(run, e).turn = run.turn
        /\ ToolEffect(run, e).step = run.turn + 1 /\ ToolEffect(run, e).call = e.call
        /\ ToolEffect(run, e).invocation = 0
    BY <1>2, Inside, Domain DEF ToolEffect, RunType
  <2> QED BY <1>7, <2>1, <2>2 DEF Took
<1>9. Context' = Context
  BY <1>1, <1>2, <1>3, <1>8, Dispatching, ContextKept
<1>10. OnRecord'
  <2>1. ToolRequests(log', run'.call) \subseteq 1..Len(log')
        /\ Len(log) + 1 \in ToolRequests(log', run'.call)
    BY <1>2, <1>7, <1>8 DEF ToolRequests
  <2>2. HasLast(ToolRequests(log', run'.call))
    BY <1>1, <1>3, <2>1, Dispatching, RequestStored
  <2> QED BY <1>8, <2>2 DEF OnRecord
<1>11. TurnsMatch'
  <2>1. \A t \in Turns : t \in Nat
    BY LoopAssumption DEF Turns
  <2>2. Turned(run', Context, PendingAction', calls, chosen, spent', seen)
    BY <1>1, <1>3, <1>8, <2>1, Dispatching, Spending
       DEF TurnsMatch, Turned, InTurn, ToolStatuses
  <2> QED BY <1>3, <1>9, <2>2 DEF TurnsMatch
<1>12. CompletedOnEvidence'
  BY <1>8 DEF CompletedOnEvidence
<1>13. FrameAgrees'
  <2>1. /\ DOMAIN agent' = DOMAIN Idle /\ agent'.at = "decide" /\ agent'.context = Context
        /\ agent'.action = agent.action
    BY <1>1, Inside, Frame, Dispatching DEF RequestTool, Goto
  <2>2. CallIs(run', agent', "tool_pending")
    BY <1>2, <1>8, <2>1 DEF CallIs
  <2>3. Agrees(agent', run', Context, PendingAction', calls'[run'.turn], seen'[run'.turn])
    BY <2>1, <2>2 DEF Agrees, Places, InTool
  <2> QED BY <1>9, <2>3 DEF FrameAgrees
<1> QED BY <1>3, <1>7, <1>10, <1>11, <1>12, <1>13 DEF IInv, Behind

LEMMA PassStepKeeps ==
    ASSUME IInv, PassStep
    PROVE  IInv'
<1> DEFINE e == [type |-> "verification.succeeded", id |-> run.next, seq |-> run.next,
                 scope |-> "step", step |-> run.step]
<1>1. /\ e.type = "verification.succeeded" /\ e.id = run.next /\ e.seq = run.next
      /\ e.scope = "step" /\ e.step = run.step
  OBVIOUS
<1>2. /\ Store(e) /\ UNCHANGED <<receipts, calls, seen, chosen, spent>>
      /\ run.status = "verifying" /\ run.step # 0
  BY DEF PassStep, effects, history
<1>3. /\ DOMAIN agent' = DOMAIN Idle
      /\ agent'.at = "idle" \/ (agent'.at = "top" /\ agent'.entry = "loop")
  BY Inside, Frame DEF PassStep, Return, Goto
<1> HIDE DEF e
<1>4. run.turn \in Turns /\ Current(run, log) /\ TurnsMatch
  BY <1>2, TurnInBudget DEF IInv, Behind, InTurn
<1>5. EventType(e)
  BY <1>1, Inside DEF EventType, EventTypes, VerificationTypes
<1>6. Guard(run, e)
  BY <1>1, <1>2, Families DEF VerificationTypes, VerificationGuard
<1>7. Current(run', log') /\ Took(run, e, run')
  BY <1>1, <1>2, <1>4, <1>5, <1>6, Taken DEF Terminal
<1>8. run'.status = "ready" /\ run'.turn = run.turn + 1
  <2>1. Effect(run, e) = VerificationEffect(run, e)
    BY <1>1, Families DEF VerificationTypes
  <2>2. /\ VerificationEffect(run, e).status = "ready"
        /\ VerificationEffect(run, e).turn = run.turn + 1
    BY <1>1, Inside, Domain DEF VerificationEffect, RunType
  <2> QED BY <1>7, <2>1, <2>2 DEF Took
<1>9. OnRecord'
  <2>1. run'.call = None /\ run'.invocation = 0
    BY <1>7, <1>8 DEF Current, Good, FieldsMatchStatus, ToolStatuses
  <2> QED BY <1>8, <2>1 DEF OnRecord, InTurn, ToolStatuses
<1>10. TurnsMatch'
  <2>1. Turned(run, Context, PendingAction, calls, chosen, spent, seen)
    BY <1>4 DEF TurnsMatch
  <2>2. spent \in [Turns -> Actions \cup {None}] /\ spent[run.turn] # None
    BY <1>2, <1>4, <2>1 DEF Turned, InTurn
  <2>3. Turned(run', Context', PendingAction', calls, chosen, spent, seen)
    BY <1>4, <1>8, <2>1, <2>2, TurnedNext
  <2> QED BY <1>2, <2>3 DEF TurnsMatch
<1>11. CompletedOnEvidence'
  BY <1>8 DEF CompletedOnEvidence
<1>12. FrameAgrees'
  <2>1. Agrees(agent', run', Context', PendingAction', calls'[run'.turn], seen'[run'.turn])
    BY <1>3, <1>8 DEF Agrees, Places, InTool
  <2> QED BY <2>1 DEF FrameAgrees
<1> QED BY <1>2, <1>7, <1>9, <1>10, <1>11, <1>12 DEF IInv, Behind

-----------------------------------------------------------------------------
(* The invariant.                                                          *)

\* A run that was created and started is ready, in its first turn.
LEMMA Starting ==
    LET s == ReplayStep(ReplayStep(InitialRun, Created), Started)
    IN  /\ Good(s) /\ s.max = Budget /\ s.next = 3 /\ s.turn = 0 /\ s.status = "ready"
        /\ s.applied = {Created, Started}
<1> DEFINE s == ReplayStep(InitialRun, Created)
           t == ReplayStep(s, Started)
<1>1. /\ Created.type = "run.created" /\ Created.id = 1 /\ Created.seq = 1 /\ Created.max = Budget
      /\ Started.type = "run.started" /\ Started.id = 2 /\ Started.seq = 2
      /\ EventType(Created) /\ EventType(Started)
  BY LoopAssumption DEF Created, Started, EventType, EventTypes, RunTypes
<1>2. /\ InitialRun.status = "new" /\ InitialRun.next = 1 /\ InitialRun.turn = 0
      /\ InitialRun.applied = {} /\ Good(InitialRun)
  BY InitialGood DEF InitialRun
<1>3. /\ Good(s) /\ s.status = "created" /\ s.next = 2 /\ s.turn = 0 /\ s.max = Budget
      /\ s.applied = {Created}
  <2>0. RunGuard(InitialRun, Created) /\ Created.type \in RunTypes
    BY <1>1, <1>2 DEF RunTypes, RunGuard
  <2>1. Guard(InitialRun, Created) /\ Effect(InitialRun, Created) = RunEffect(InitialRun, Created)
    BY <2>0, Families
  <2>2. Acceptable(InitialRun, Created) /\ ~Redelivered(InitialRun, Created)
    BY <1>1, <1>2, <2>1 DEF Acceptable, Conflicting, Redelivered, Terminal
  <2>3. s = Applied(InitialRun, Created)
    BY <1>2, <2>2, GoodIsNotRejected DEF ReplayStep, Legal, Reduce
  <2>4. Good(Effect(InitialRun, Created))
    BY <1>1, <1>2, <2>2, EffectGood
  <2>5. /\ RunEffect(InitialRun, Created).status = "created"
        /\ RunEffect(InitialRun, Created).turn = 0
        /\ RunEffect(InitialRun, Created).max = Budget
    BY <1>1, <1>2, Domain DEF RunEffect
  <2> HIDE DEF s
  <2>6. /\ Good(s) /\ s.next = 1 + 1 /\ s.applied = {} \cup {Created}
        /\ s.status = Effect(InitialRun, Created).status
        /\ s.turn = Effect(InitialRun, Created).turn
        /\ s.max = Effect(InitialRun, Created).max
    BY <1>2, <2>3, <2>4, AppliedGood
  <2> QED BY <2>1, <2>5, <2>6
<1> HIDE DEF s
<1>4. /\ Good(t) /\ t.status = "ready" /\ t.next = 3 /\ t.turn = 0 /\ t.max = Budget
      /\ t.applied = {Created, Started}
  <2>0. RunGuard(s, Started) /\ Started.type \in RunTypes
    BY <1>1, <1>3 DEF RunTypes, RunGuard
  <2>1. Guard(s, Started) /\ Effect(s, Started) = RunEffect(s, Started)
    BY <2>0, Families
  <2>2. Acceptable(s, Started) /\ ~Redelivered(s, Started)
    BY <1>1, <1>3, <2>1 DEF Acceptable, Conflicting, Redelivered, Terminal
  <2>3. t = Applied(s, Started)
    BY <1>3, <2>2, GoodIsNotRejected DEF ReplayStep, Legal, Reduce
  <2>4. Good(Effect(s, Started))
    BY <1>1, <1>3, <2>2, EffectGood
  <2>5. DOMAIN s = DOMAIN InitialRun
    BY <1>3 DEF Good, RunType
  <2>6. /\ RunEffect(s, Started).status = "ready" /\ RunEffect(s, Started).turn = 0
        /\ RunEffect(s, Started).max = Budget
    BY <1>1, <1>3, <2>5, Domain DEF RunEffect, Move
  <2> HIDE DEF t
  <2>7. /\ Good(t) /\ t.next = 2 + 1 /\ t.applied = {Created} \cup {Started}
        /\ t.status = Effect(s, Started).status /\ t.turn = Effect(s, Started).turn
        /\ t.max = Effect(s, Started).max
    BY <1>3, <2>3, <2>4, AppliedGood
  <2> QED BY <2>1, <2>6, <2>7
<1> QED BY <1>4 DEF s

LEMMA InitIInv == Init => IInv
<1> SUFFICES ASSUME Init PROVE IInv
  OBVIOUS
<1>1. /\ Good(run) /\ run.max = Budget /\ run.next = 3 /\ run.turn = 0 /\ run.status = "ready"
      /\ run.applied = {Created, Started}
  BY Starting DEF Init
<1>2. Current(run, log)
  <2>1. log \in Seq({Created, Started}) /\ Len(log) = 2
    BY DEF Init
  <2>2. IsSequence(log)
    BY <2>1 DEF IsSequence
  <2>3. \A d \in run.applied : d.id \in Nat /\ d.id < run.next
    BY <1>1 DEF Created, Started
  <2> QED BY <1>1, <2>1, <2>2, <2>3 DEF Current
<1>3. OnRecord
  <2>1. run.call = None /\ run.invocation = 0
    BY <1>1 DEF Good, FieldsMatchStatus, ToolStatuses
  <2> QED BY <1>1, <2>1 DEF OnRecord, InTurn, ToolStatuses
<1>4. TurnsMatch
  <2>1. \A t \in Turns : t \in Nat
    BY LoopAssumption DEF Turns
  <2> QED BY <1>1, <2>1 DEF Init, TurnsMatch, Turned, InTurn, ToolStatuses
<1>5. CompletedOnEvidence
  BY <1>1 DEF CompletedOnEvidence
<1>6. FrameAgrees
  BY Frame, IdleAgrees DEF Init, FrameAgrees
<1>7. receipts \in [Calls -> Outcomes \cup {None}]
  BY DEF Init
<1> QED BY <1>2, <1>3, <1>4, <1>5, <1>6, <1>7 DEF IInv, Behind

LEMMA NextIInv == IInv /\ [Next]_vars => IInv'
<1> SUFFICES ASSUME IInv, [Next]_vars PROVE IInv'
  OBVIOUS
<1>1. CASE UNCHANGED vars
  <2>1. UNCHANGED <<stored, history>> /\ agent' = agent /\ receipts' = receipts
    BY <1>1 DEF vars, stored, history
  <2> QED BY <2>1, Inside, FrameMoved DEF IInv
<1>2. CASE RunLoop \/ \E entry \in Entries : RunTurn(entry)
  BY <1>2, CallBegins
<1>3. CASE FailUnknown \/ LoadPending \/ BuildInput \/ ExhaustBudget
  BY <1>3, FailUnknownKeeps, LoadPendingKeeps, BuildInputKeeps, ExhaustBudgetKeeps
<1>4. CASE BeginAction \/ Ask \/ AdapterRaises \/ Persist
  BY <1>4, BeginActionKeeps, AskKeeps, AdapterRaisesKeeps, PersistKeeps
<1>5. ASSUME NEW a \in Actions, AdapterAnswers(a)
      PROVE  IInv'
  BY <1>5, AdapterAnswersKeeps
<1>6. CASE ExecutorRaises \/ Crash \/ Raises \/ \E a \in Actions : AdapterMisfits(a)
  <2>1. UNCHANGED <<stored, history, receipts>> /\ agent' = Idle
    BY <1>6, RaisesEnd DEF ExecutorRaises, Crash, AdapterMisfits, Return, effects
  <2> QED BY <2>1, CallEnds
<1>7. CASE Complete \/ RequestTool
  BY <1>7, CompleteKeeps, RequestToolKeeps
<1>8. CASE Allow \/ Deny \/ \E mode \in GateModes : Escalate(mode)
  BY <1>8, AllowKeeps, DenyKeeps, EscalateKeeps
<1>9. CASE StartTool \/ RecordOutcome \/ PassStep \/ FailStep
  BY <1>9, StartToolKeeps, RecordOutcomeKeeps, PassStepKeeps, FailStepKeeps
<1>10. CASE SaveIntent \/ ReturnReceipt \/ Retry \/ \E r \in Outcomes : InvokeTool(r)
  BY <1>10, ExecutorKeeps
<1>11. CASE ResumeLoop \/ Recover \/ ReleaseGate \/ CloseGate
  BY <1>11, ResumeLoopKeeps, RecoverKeeps, ReleaseGateKeeps, CloseGateKeeps
<1> QED BY <1>1, <1>2, <1>3, <1>4, <1>5, <1>6, <1>7, <1>8, <1>9, <1>10, <1>11
        DEF Next, Step, Supervise, Raises

LEMMA Invariant == Spec => []IInv
BY InitIInv, NextIInv, PTL DEF Spec

-----------------------------------------------------------------------------
(* What follows from it.                                                   *)

\* Whatever the model answers and wherever the process dies, no operation of the loop,
\* of a one-turn entry point, of a recovery or of a gate stores an event that makes
\* its run unloadable.
THEOREM ReplaysCorrect == Spec => []StoredEventsReplay
<1>1. IInv => StoredEventsReplay
  BY Inside, GoodIsNotRejected DEF StoredEventsReplay
<1> QED BY <1>1, Invariant, PTL

\* What is dispatched, verified or completed is judged under the context the adapter
\* saw, however often its frame was rebuilt from the log.
THEOREM ContextCorrect == Spec => []ContextIsOriginal
<1>1. ASSUME IInv PROVE ContextIsOriginal
  <2> SUFFICES ASSUME agent.at \notin {"idle", "top", "begin", "ask"}, agent.context # None
               PROVE  agent.context = seen[agent.context.turn]
    BY DEF ContextIsOriginal
  <2>1. Context.turn = run.turn
    BY DEF Context
  <2>2. CASE agent.at \in {"asked", "persist", "dispatch"}
    <3>1. agent.context = Context /\ seen[run.turn] = Context
      BY <1>1, <2>2, Inside DEF Agrees
    <3> QED BY <2>1, <3>1
  <2>3. CASE agent.at \in InTool
    <3>1. agent.context = Context /\ run.status \in InTurn
      BY <1>1, <2>3, Inside DEF Agrees, CallIs, InTool, InTurn, ToolStatuses
    <3>2. run.turn \in Turns /\ TurnsMatch
      BY <1>1, <3>1, TurnInBudget DEF IInv, Behind
    <3>3. seen[run.turn] = Context
      BY <3>1, <3>2 DEF TurnsMatch, Turned
    <3> QED BY <2>1, <3>1, <3>3
  <2> QED BY <1>1, <2>2, <2>3, Inside DEF Agrees, Places, InTool
<1> QED BY <1>1, Invariant, PTL

\* A run that is completed was completed by the expected answer, with a verified tool
\* step behind it where the application requires one.
THEOREM CompletedCorrect == Spec => []CompletedOnEvidence
<1>1. IInv => CompletedOnEvidence
  BY DEF IInv, Behind
<1> QED BY <1>1, Invariant, PTL

\* A turn that is spent is one nobody touched, or one whose chosen action is spent.
LEMMA SpendsTurn ==
    ASSUME IInv, agent.at = "dispatch", UNCHANGED <<calls, chosen>>,
           spent' = [spent EXCEPT ![run.turn] = agent.action]
    PROVE  Protocol!Next
<1>1. /\ run.turn \in Turns /\ agent.action \in Actions /\ agent.action # None
      /\ Turned(run, Context, PendingAction, calls, chosen, spent, seen)
      /\ \/ run.status = "action_pending" /\ agent.action = PendingAction
         \/ run.status = "ready"
  BY Dispatching DEF TurnsMatch
<1>2. CASE run.status = "action_pending" /\ agent.action = PendingAction
  <2>1. Protocol!Spend(run.turn)
    BY <1>1, <1>2 DEF Turned, Protocol!Spend
  <2> QED BY <1>1, <2>1 DEF Protocol!Next
<1>3. CASE run.status = "ready"
  <2>1. Protocol!Take(run.turn, agent.action)
    BY <1>1, <1>3 DEF Turned, Protocol!Take, Protocol!Open
  <2> QED BY <1>1, <2>1 DEF Protocol!Next
<1> QED BY <1>1, <1>2, <1>3

\* Across crashes and beside the one-turn entry points, the loop keeps the turn
\* protocol: an adapter call only in an untouched turn whose predecessors are spent,
\* one durable action in it, and that action is the one the run acts on.
THEOREM TurnsCorrect == Spec => ImplementsTurns
<1>1. Init => Protocol!Init
  BY DEF Init, Protocol!Init
<1>2. ASSUME IInv, [Next]_vars PROVE [Protocol!Next]_Protocol!vars
  <2>1. CASE UNCHANGED <<calls, chosen, spent>>
    BY <2>1 DEF Protocol!vars
  <2>2. CASE Ask
    <3>1. /\ agent.at = "ask" /\ agent.context = Context
          /\ IF agent.entry = "loop" THEN run.status = "model_pending" /\ calls[run.turn] = 0
             ELSE Ready(run)
      BY <1>2, <2>2, Inside DEF Ask, At, Agrees
    <3>2. run.turn \in Turns /\ Turned(run, Context, PendingAction, calls, chosen, spent, seen)
      BY <1>2, <3>1, TurnInBudget DEF IInv, Behind, TurnsMatch
    <3>3. /\ UNCHANGED <<chosen, spent>>
          /\ calls' = [calls EXCEPT ![run.turn] = IF agent.entry = "loop" THEN @ + 1 ELSE @]
      BY <2>2, <3>1 DEF Ask, Context
    <3>4. calls \in [Turns -> Nat]
      BY <3>2 DEF Turned
    <3>5. CASE agent.entry = "loop"
      <4>0. calls[run.turn] = 0 /\ calls[run.turn] + 1 = 1
        BY <3>1, <3>5
      <4>1. calls' = [calls EXCEPT ![run.turn] = 1]
        BY <3>3, <3>5, <4>0, Zenon
      <4>2. Protocol!Open(run.turn)
        BY <3>1, <3>2, <3>5, <4>0 DEF Turned, Protocol!Open
      <4>3. Protocol!Call(run.turn)
        BY <3>3, <4>1, <4>2 DEF Protocol!Call
      <4> QED BY <3>2, <4>3 DEF Protocol!Next
    <3>6. CASE agent.entry # "loop"
      <4>1. calls' = calls
        BY <3>3, <3>4, <3>6
      <4> QED BY <3>3, <4>1 DEF Protocol!vars
    <3> QED BY <3>5, <3>6
  <2>3. CASE Persist
    <3>1. /\ agent.at = "persist" /\ run.status = "model_pending" /\ agent.action \in Actions
          /\ calls[run.turn] = 1
      BY <1>2, <2>3, Inside DEF Persist, At, Agrees
    <3>2. run.turn \in Turns /\ Turned(run, Context, PendingAction, calls, chosen, spent, seen)
      BY <1>2, <3>1, TurnInBudget DEF IInv, Behind, TurnsMatch
    <3>3. Protocol!Choose(run.turn, agent.action)
      BY <2>3, <3>1, <3>2 DEF Persist, Turned, Protocol!Choose
    <3> QED BY <3>1, <3>2, <3>3 DEF Protocol!Next
  <2>4. CASE Complete
    <3>1. /\ agent.at = "dispatch" /\ UNCHANGED <<calls, chosen>>
          /\ spent' = [spent EXCEPT ![run.turn] = agent.action]
      BY <2>4 DEF Complete, At
    <3> QED BY <1>2, <3>1, SpendsTurn
  <2>5. CASE RequestTool
    <3>1. agent.at = "dispatch" /\ UNCHANGED <<calls, chosen>>
      BY <2>5 DEF RequestTool, At
    <3>2. spent' = [spent EXCEPT ![run.turn] = agent.action]
      BY <1>2, <2>5, <3>1, Dispatching DEF RequestTool
    <3> QED BY <1>2, <3>1, <3>2, SpendsTurn
  <2>6. ASSUME UNCHANGED history PROVE UNCHANGED <<calls, chosen, spent>>
    BY <2>6 DEF history
  <2>7. CASE UNCHANGED vars
    BY <2>1, <2>7 DEF vars
  <2>8. CASE \/ FailUnknown \/ LoadPending \/ BuildInput \/ ExhaustBudget \/ BeginAction
             \/ AdapterRaises \/ \E a \in Actions : AdapterAnswers(a) \/ AdapterMisfits(a)
    <3>1. UNCHANGED history
      BY <2>8 DEF FailUnknown, LoadPending, BuildInput, ExhaustBudget, BeginAction,
         AdapterRaises, AdapterAnswers, AdapterMisfits
    <3> QED BY <2>1, <2>6, <3>1
  <2>9. CASE Allow \/ Deny \/ (\E mode \in GateModes : Escalate(mode)) \/ StartTool
    <3>1. UNCHANGED history
      BY <2>9 DEF Allow, Deny, Escalate, StartTool
    <3> QED BY <2>1, <2>6, <3>1
  <2>10. CASE \/ SaveIntent \/ ReturnReceipt \/ Retry \/ ExecutorRaises
              \/ \E r \in Outcomes : InvokeTool(r)
    <3>1. UNCHANGED history
      BY <2>10 DEF SaveIntent, ReturnReceipt, Retry, ExecutorRaises, InvokeTool
    <3> QED BY <2>1, <2>6, <3>1
  <2>11. CASE RecordOutcome \/ PassStep \/ FailStep \/ Crash \/ Raises
    <3>1. UNCHANGED history
      BY <2>11, RaisesEnd DEF RecordOutcome, PassStep, FailStep, Crash
    <3> QED BY <2>1, <2>6, <3>1
  <2>12. CASE \/ RunLoop \/ ResumeLoop \/ Recover \/ ReleaseGate \/ CloseGate
              \/ \E entry \in Entries : RunTurn(entry)
    <3>1. UNCHANGED history
      BY <2>12 DEF RunLoop, ResumeLoop, Recover, ReleaseGate, CloseGate, RunTurn
    <3> QED BY <2>1, <2>6, <3>1
  <2> QED BY <1>2, <2>2, <2>3, <2>4, <2>5, <2>7, <2>8, <2>9, <2>10, <2>11, <2>12
          DEF Next, Step, Supervise, Raises
<1> QED BY <1>1, <1>2, Invariant, PTL DEF Spec, ImplementsTurns, Protocol!Spec
=============================================================================
