------------------------- MODULE RunLifecycle_proofs -------------------------
(***************************************************************************)
(* The invariants of RunLifecycle, for every set of tool calls, digests,   *)
(* budgets, attempt limits and every bound.                                *)
(***************************************************************************)
EXTENDS RunLifecycle, RunReducer_proofs, FiniteSetTheorems, TLAPS

-----------------------------------------------------------------------------
(* From one event to the specification.                                    *)

IInv == Good(run)

\* Every event the writers of RunLifecycle can offer has a well-typed payload.
LEMMA OfferedEvents ==
    ASSUME IInv, Next
    PROVE  \E e : EventType(e) /\ Deliver(e)
<1> USE LifecycleAssumption DEF EventType, EventTypes, Steps, Revisions, GateModes
<1>0. PICK n \in Offered :
        \/ Create(n)        \/ Start(n)         \/ Pause(n)      \/ Resume(n)
        \/ Cancel(n)        \/ ExhaustBudget(n) \/ RequestAction(n)
        \/ ProposeAction(n) \/ FailAction(n)    \/ Complete(n)   \/ RequestTool(n)
        \/ Escalate(n)      \/ Revise(n)        \/ Resolve(n)    \/ Evaluate(n)
        \/ RunTool(n)       \/ VerifyRun(n)     \/ VerifyStep(n)
  BY DEF Next
<1>n. n \in Nat
  BY DEF Offered, IInv, Good, RunType
<1>1. CASE Create(n)
  BY <1>n, <1>1 DEF Create, RunTypes
<1>2. CASE Start(n)
  BY <1>n, <1>2 DEF Start, RunTypes
<1>3. CASE Pause(n)
  BY <1>n, <1>3 DEF Pause, RunTypes
<1>4. CASE Resume(n)
  BY <1>n, <1>4 DEF Resume, RunTypes
<1>5. CASE Cancel(n)
  BY <1>n, <1>5 DEF Cancel, RunTypes
<1>6. CASE ExhaustBudget(n)
  BY <1>n, <1>6 DEF ExhaustBudget, RunTypes
<1>7. CASE RequestAction(n)
  BY <1>n, <1>7 DEF RequestAction, ModelTypes
<1>8. CASE ProposeAction(n)
  BY <1>n, <1>8 DEF ProposeAction, ModelTypes
<1>9. CASE FailAction(n)
  BY <1>n, <1>9 DEF FailAction, ModelTypes
<1>10. CASE Complete(n)
  BY <1>n, <1>10 DEF Complete, CompletionTypes
<1>11. CASE RequestTool(n)
  BY <1>n, <1>11 DEF RequestTool, ToolTypes
<1>12. CASE Escalate(n)
  <2>1. PICK call \in Calls, digest \in Digests, revision \in Revisions, mode \in Modes,
             max \in AttemptLimits :
           Deliver([type |-> "tool.escalated", id |-> n, seq |-> n, call |-> call,
                    digest |-> digest, revision |-> revision, mode |-> mode, max |-> max])
    BY <1>12 DEF Escalate
  <2> DEFINE e == [type |-> "tool.escalated", id |-> n, seq |-> n, call |-> call,
                   digest |-> digest, revision |-> revision, mode |-> mode, max |-> max]
  <2>2. revision \in Nat /\ max \in Nat /\ digest \in Digests
    BY DEF Revisions
  <2>3. EventType(e)
    BY <1>n, <2>2 DEF GateTypes
  <2> QED BY <2>1, <2>3
<1>13. CASE Revise(n)
  <2>1. PICK call \in Calls, previous \in Digests, digest \in Digests,
             revision \in Revisions, from \in Revisions, mode \in Modes,
             max \in AttemptLimits :
           Deliver([type |-> "gate.revised", id |-> n, seq |-> n, call |-> call,
                    previousDigest |-> previous, previousRevision |-> from,
                    digest |-> digest, revision |-> revision, mode |-> mode, max |-> max])
    BY <1>13 DEF Revise
  <2> DEFINE e == [type |-> "gate.revised", id |-> n, seq |-> n, call |-> call,
                   previousDigest |-> previous, previousRevision |-> from,
                   digest |-> digest, revision |-> revision, mode |-> mode, max |-> max]
  <2>2. revision \in Nat /\ max \in Nat /\ digest \in Digests
    BY DEF Revisions
  <2>3. EventType(e)
    BY <1>n, <2>2 DEF GateTypes
  <2> QED BY <2>1, <2>3
<1>14. CASE Resolve(n)
  BY <1>n, <1>14 DEF Resolve, GateTypes
<1>15. CASE Evaluate(n)
  BY <1>n, <1>15 DEF Evaluate, GateTypes
<1>16. CASE RunTool(n)
  BY <1>n, <1>16 DEF RunTool, ToolTypes
<1>17. CASE VerifyRun(n)
  BY <1>n, <1>17 DEF VerifyRun, VerificationTypes
<1>18. CASE VerifyStep(n)
  BY <1>n, <1>18 DEF VerifyStep, VerificationTypes
<1> QED
  BY <1>0, <1>1, <1>2, <1>3, <1>4, <1>5, <1>6, <1>7, <1>8, <1>9, <1>10, <1>11, <1>12,
     <1>13, <1>14, <1>15, <1>16, <1>17, <1>18

-----------------------------------------------------------------------------
(* How an event moves the turn and the gate.                               *)

\* A turn is consumed by what a step ends with, and by nothing else.
EndsStep(e) ==
    e.type \in CompletionTypes \/ (e.type = "verification.succeeded" /\ e.scope = "step")

TurnMoves(s, e, t) ==
    /\ t.turn = IF EndsStep(e) THEN s.turn + 1 ELSE s.turn
    /\ e.type = "verification.succeeded" /\ e.scope = "step" =>
            s.status = "verifying" /\ e.step = s.step

LEMMA TurnsMove ==
    ASSUME NEW s, NEW e, Good(s), EventType(e), Acceptable(s, e)
    PROVE  TurnMoves(s, e, Effect(s, e))
<1> DEFINE t == Effect(s, e)
<1>0. /\ DOMAIN s = {"status", "next", "turn", "max", "step", "invocation", "action", "call",
                     "gate", "applied"}
      /\ Guard(s, e)
  BY Domain DEF Good, RunType, Acceptable
<1>1. CASE e.type \in RunTypes \cup ModelTypes \cup ToolTypes
  <2>1. t.turn = s.turn
    <3>1. CASE e.type \in RunTypes
      <4>1. t = RunEffect(s, e)
        BY <3>1, Families
      <4> QED BY <1>0, <3>1, <4>1 DEF RunTypes, RunEffect, CloseModel, Move
    <3>2. CASE e.type \in ModelTypes
      <4>1. t = ModelEffect(s, e)
        BY <3>2, Families
      <4> QED BY <1>0, <3>2, <4>1 DEF ModelTypes, ModelEffect, CloseModel
    <3>3. CASE e.type \in ToolTypes
      <4>1. t = ToolEffect(s, e)
        BY <3>3, Families
      <4> QED BY <1>0, <3>3, <4>1 DEF ToolTypes, ToolEffect, CloseTool, Move
    <3> QED BY <1>1, <3>1, <3>2, <3>3
  <2>2. ~EndsStep(e) /\ e.type # "verification.succeeded"
    BY <1>1 DEF EndsStep, RunTypes, ModelTypes, ToolTypes, CompletionTypes
  <2> QED BY <2>1, <2>2 DEF TurnMoves
<1>2. CASE e.type \in CompletionTypes
  <2>1. t = CompletionEffect(s, e)
    BY <1>2, Families
  <2>2. t.turn = s.turn + 1
    BY <1>0, <2>1 DEF CompletionEffect, CloseModel
  <2> QED BY <1>2, <2>2 DEF TurnMoves, EndsStep, CompletionTypes
<1>3. CASE e.type \in GateTypes
  <2>1. t = GateEffect(s, e)
    BY <1>3, Families
  <2>2. t.turn = s.turn
    BY <1>0, <1>3, <2>1 DEF GateTypes, GateEffect, CloseTool, EventType
  <2>3. ~EndsStep(e) /\ e.type # "verification.succeeded"
    BY <1>3 DEF EndsStep, GateTypes, CompletionTypes
  <2> QED BY <2>2, <2>3 DEF TurnMoves
<1>4. CASE e.type \in VerificationTypes
  <2>1. t = VerificationEffect(s, e) /\ VerificationGuard(s, e)
    BY <1>0, <1>4, Families
  <2>2. t.turn = IF EndsStep(e) THEN s.turn + 1 ELSE s.turn
    BY <1>0, <1>4, <2>1
       DEF VerificationTypes, VerificationEffect, EventType, EndsStep, CompletionTypes
  <2> QED BY <2>1, <2>2 DEF TurnMoves, VerificationGuard
<1> QED BY <1>1, <1>2, <1>3, <1>4 DEF EventType, EventTypes

\* How an event moves the open gate: an answer is the next one the gate allows, and a gate
\* is open after a proposal, which it is of, or after an answer it counted.
GateMoves(s, e, t) ==
    /\ e.type = "gate.evaluated" =>
            s.status = "awaiting_gate" /\ s.gate.mode = "user_gate" /\ NextAttempt(s, e)
    /\ t.status = "awaiting_gate" =>
            \/ Proposes(e) /\ t.gate = GateOf(e)
            \/ /\ e.type = "gate.evaluated"
               /\ t.gate.mode = s.gate.mode /\ t.gate.max = s.gate.max
               /\ t.gate.attempts = e.attempt

LEMMA GatesMove ==
    ASSUME NEW s, NEW e, Good(s), EventType(e), Acceptable(s, e)
    PROVE  GateMoves(s, e, Effect(s, e))
<1> DEFINE t == Effect(s, e)
<1>0. /\ DOMAIN s = {"status", "next", "turn", "max", "step", "invocation", "action", "call",
                     "gate", "applied"}
      /\ s.gate \in Gate \cup {NoGate}
      /\ Guard(s, e)
  BY Domain DEF Good, RunType, Acceptable
<1>1. e.type \in GateTypes => t = GateEffect(s, e) /\ GateGuard(s, e)
  BY <1>0, Families
<1>2. CASE e.type \in {"tool.escalated", "gate.revised"}
  <2>1. Proposes(e) /\ t.gate = GateOf(e) /\ e.type # "gate.evaluated"
    BY <1>0, <1>1, <1>2 DEF GateTypes, GateEffect, Proposes
  <2> QED BY <2>1 DEF GateMoves
<1>3. CASE e.type = "gate.evaluated"
  <2>1. /\ t = GateEffect(s, e) /\ e.outcome \in {"pass", "retry", "block"}
        /\ s.status = "awaiting_gate" /\ s.gate.mode = "user_gate" /\ NextAttempt(s, e)
    BY <1>1, <1>3 DEF GateTypes, GateGuard, EventType
  <2>2. CASE e.outcome = "retry"
    <3>1. t = [s EXCEPT !.gate.attempts = e.attempt] /\ s.gate \in Gate
      BY <1>0, <1>3, <2>1, <2>2 DEF GateEffect, NoGate
    <3>2. /\ t.gate.mode = s.gate.mode /\ t.gate.max = s.gate.max
          /\ t.gate.attempts = e.attempt
      BY <1>0, <3>1 DEF Gate
    <3> QED BY <1>3, <2>1, <3>2 DEF GateMoves
  <2>3. CASE e.outcome # "retry"
    <3>1. t.status # "awaiting_gate"
      BY <1>0, <1>3, <2>1, <2>3 DEF GateEffect, CloseTool
    <3> QED BY <1>3, <2>1, <3>1 DEF GateMoves
  <2> QED BY <2>2, <2>3
<1>4. CASE e.type \notin {"tool.escalated", "gate.revised", "gate.evaluated"}
  <2>1. t.status # "awaiting_gate"
    BY <1>4, CallMoves DEF MovesCall, GateOpened, ToolStatuses
  <2> QED BY <1>4, <2>1 DEF GateMoves
<1> QED BY <1>2, <1>3, <1>4

-----------------------------------------------------------------------------
(* Steps, and what a run record says.                                      *)

\* What a step does: it repeats an applied event and changes nothing, or it
\* applies one acceptable event and logs it.
StepOf(e) ==
    /\ Acceptable(run, e) /\ EventType(e)
    /\ Good(run') /\ TurnStep(run, e, run')
    /\ MovesCall(run, e, run') /\ TurnMoves(run, e, run') /\ GateMoves(run, e, run')
    /\ run'.next = run.next + 1
    /\ log' = Append(log, e)

\* An event the reducer takes is logged, whoever wrote it.
Takes(e) ==
    /\ EventType(e) /\ Acceptable(run, e)
    /\ run' = Applied(run, e) /\ log' = Append(log, e)

LEMMA TakenStep ==
    ASSUME IInv, NEW e, Takes(e)
    PROVE  StepOf(e)
<1>1. Acceptable(run, e) /\ EventType(e) /\ run' = Applied(run, e)
  BY DEF Takes
<1>2. Good(Effect(run, e)) /\ TurnStep(run, e, Effect(run, e))
  BY <1>1, EffectGood DEF IInv
<1>3. /\ Good(run') /\ run'.next = run.next + 1
      /\ run'.status = Effect(run, e).status
      /\ run'.turn = Effect(run, e).turn /\ run'.max = Effect(run, e).max
      /\ run'.call = Effect(run, e).call /\ run'.step = Effect(run, e).step
      /\ run'.gate = Effect(run, e).gate
  BY <1>1, <1>2, AppliedGood DEF IInv
<1>4. TurnStep(run, e, run')
  BY <1>2, <1>3 DEF TurnStep
<1>5. /\ MovesCall(run, e, Effect(run, e)) /\ TurnMoves(run, e, Effect(run, e))
      /\ GateMoves(run, e, Effect(run, e))
  BY <1>1, CallMoves, TurnsMove, GatesMove DEF IInv
<1>6. MovesCall(run, e, run')
  BY <1>3, <1>5, SMT DEF MovesCall, KeepsCall, GateOpened
<1>7. TurnMoves(run, e, run') /\ GateMoves(run, e, run')
  BY <1>3, <1>5 DEF TurnMoves, GateMoves
<1> QED BY <1>1, <1>3, <1>4, <1>6, <1>7 DEF StepOf, Takes

LEMMA StepShape ==
    ASSUME IInv, Next
    PROVE  UNCHANGED vars \/ \E e : StepOf(e)
<1>1. PICK e : EventType(e) /\ Deliver(e)
  BY OfferedEvents
<1>2. CASE Redelivered(run, e)
  BY <1>1, <1>2 DEF Deliver, Reduce, vars
<1>3. CASE ~Redelivered(run, e)
  <2>1. Takes(e)
    BY <1>1, <1>3 DEF Deliver, Legal, Reduce, Takes
  <2> QED BY <2>1, TakenStep
<1> QED BY <1>2, <1>3

LEMMA InductiveInvariant == Spec => []IInv
<1>1. Init => IInv
  BY InitialGood DEF Init, IInv
<1>2. IInv /\ [Next]_vars => IInv'
  <2>1. CASE UNCHANGED vars
    BY <2>1 DEF IInv, vars
  <2>2. ASSUME IInv, Next PROVE IInv'
    BY <2>2, StepShape, <2>1 DEF IInv, StepOf
  <2> QED BY <2>1, <2>2
<1> QED BY <1>1, <1>2, PTL DEF Spec

\* RunState keeps its declared types under every event the reducer accepts.
THEOREM TypeCorrect == Spec => []TypeOK
BY InductiveInvariant, PTL DEF IInv, Good, TypeOK

\* The active fields are set exactly in the statuses that need them.
THEOREM FieldsCorrect == Spec => []ActiveFieldsMatchStatus
BY InductiveInvariant, PTL DEF IInv, Good, ActiveFieldsMatchStatus

\* A waiting USER_GATE always has an attempt left.
THEOREM AttemptsCorrect == Spec => []GateHasAttemptsLeft
BY InductiveInvariant, PTL DEF IInv, Good, GateHasAttemptsLeft

\* No run consumes more steps than its durable budget.
THEOREM BudgetCorrect == Spec => []BudgetRespected
BY InductiveInvariant, PTL DEF IInv, Good, BudgetRespected

\* A completed, failed or cancelled run never changes again.
THEOREM TerminalCorrect == Spec => TerminalIsFinal
<1>1. IInv /\ [Next]_vars => [run.status \in Terminal => run' = run /\ log' = log]_vars
  BY StepShape DEF StepOf, Acceptable, vars
<1> QED BY <1>1, InductiveInvariant, PTL DEF Spec, TerminalIsFinal

-----------------------------------------------------------------------------
(* The history: sequence numbers and model requests.                       *)

\* A logged request belongs to a turn already asked for and inside the budget.
HistoryInv ==
    /\ IsSequence(log)
    /\ SequenceIsDense
    /\ \A i \in Requests :
        /\ log[i].turn \in Nat /\ log[i].turn <= run.turn
        /\ run.status \in Asking => log[i].turn < run.turn
        /\ run.max # 0 => log[i].turn < run.max
    /\ \A i, j \in Requests : log[i].turn = log[j].turn => i = j

LEMMA HistoryStep ==
    ASSUME IInv, HistoryInv, NEW e, StepOf(e)
    PROVE  HistoryInv'
<1>1. /\ IsSequence(log') /\ Len(log) \in Nat /\ Len(log') = Len(log) + 1
      /\ \A i \in 1..Len(log) : log'[i] = log[i]
      /\ log'[Len(log) + 1] = e
  BY AppendFacts DEF HistoryInv, StepOf
<1>2. SequenceIsDense'
  BY <1>1 DEF SequenceIsDense, HistoryInv, StepOf, Acceptable
<1>3. Requests' = IF e.type = "model.action_requested"
                  THEN Requests \cup {Len(log) + 1} ELSE Requests
  BY <1>1 DEF Requests
<1>4. \A i \in Requests : i # Len(log) + 1 /\ log'[i] = log[i]
  BY <1>1 DEF Requests
<1>5. ASSUME NEW i \in Requests
      PROVE  /\ log'[i].turn \in Nat /\ log'[i].turn <= run'.turn
             /\ run'.status \in Asking => log'[i].turn < run'.turn
             /\ run'.max # 0 => log'[i].turn < run'.max
  <2>1. e.type # "run.created"
    BY DEF HistoryInv, IInv, Good, FreshRun, StepOf, TurnStep, Asking
  <2>2. /\ run.turn \in Nat /\ run'.turn \in {run.turn, run.turn + 1}
        /\ run'.max = run.max
        /\ run'.status \in Asking => run.status \in Asking \/ run'.turn = run.turn + 1
    BY <2>1 DEF StepOf, TurnStep, IInv, Good, RunType
  <2>3. /\ log[i].turn \in Nat /\ log[i].turn <= run.turn
        /\ run.status \in Asking => log[i].turn < run.turn
        /\ run.max # 0 => log[i].turn < run.max
    BY DEF HistoryInv
  <2> QED BY <1>4, <2>2, <2>3
<1>6. CASE e.type = "model.action_requested"
  <2>1. /\ run.status \in Asking /\ run'.status \notin Asking
        /\ e.turn = run.turn /\ run'.turn = run.turn /\ run'.max = run.max
        /\ run.turn \in Nat
        /\ run.max # 0 => e.turn < run.max
    BY <1>6 DEF StepOf, TurnStep, Asking, BudgetAvailable, IInv, Good, RunType
  <2>2. \A i \in Requests : log[i].turn # e.turn
    BY <2>1 DEF HistoryInv
  <2> DEFINE k == Len(log) + 1
  <2>3. Requests' = Requests \cup {k} /\ log'[k] = e
    BY <1>1, <1>3, <1>6
  <2>4. ASSUME NEW i \in Requests'
        PROVE  /\ log'[i].turn \in Nat /\ log'[i].turn <= run'.turn
               /\ run'.status \in Asking => log'[i].turn < run'.turn
               /\ run'.max # 0 => log'[i].turn < run'.max
    BY <1>5, <2>1, <2>3
  <2>5. ASSUME NEW i \in Requests', NEW j \in Requests', log'[i].turn = log'[j].turn
        PROVE  i = j
    <3>1. CASE i \in Requests /\ j \in Requests
      BY <1>4, <2>5, <3>1 DEF HistoryInv
    <3>2. CASE i = k \/ j = k
      BY <1>4, <2>2, <2>3, <2>5, <3>2
    <3> QED BY <2>3, <3>1, <3>2
  <2> QED BY <1>1, <1>2, <2>4, <2>5 DEF HistoryInv
<1>7. CASE e.type # "model.action_requested"
  BY <1>1, <1>2, <1>3, <1>4, <1>5, <1>7 DEF HistoryInv
<1> QED BY <1>6, <1>7

LEMMA HistoryInvariant == Spec => []HistoryInv
<1>1. Init => HistoryInv
  BY DEF Init, HistoryInv, IsSequence, SequenceIsDense, Requests, InitialRun
<1>2. IInv /\ HistoryInv /\ [Next]_vars => HistoryInv'
  <2>1. CASE UNCHANGED vars
    BY <2>1 DEF vars, HistoryInv, SequenceIsDense, Requests
  <2>2. ASSUME IInv, HistoryInv, Next PROVE HistoryInv'
    BY <2>1, <2>2, StepShape, HistoryStep
  <2> QED BY <2>1, <2>2
<1> QED BY <1>1, <1>2, InductiveInvariant, PTL DEF Spec

\* Accepted events are numbered without gap or repetition.
THEOREM SequenceCorrect == Spec => []SequenceIsDense
BY HistoryInvariant, PTL DEF HistoryInv

\* The requests on record have turns of their own, below the budget.
LEMMA RequestsInBudget == IInv /\ HistoryInv => ModelAskedOncePerTurn
<1> SUFFICES ASSUME IInv, HistoryInv, run.max # 0 PROVE Cardinality(Requests) <= run.max
  BY DEF HistoryInv, ModelAskedOncePerTurn
<1>1. run.max \in Nat
  BY DEF IInv, Good, RunType
<1> DEFINE turn == [i \in Requests |-> log[i].turn]
<1>2. turn \in [Requests -> 0..run.max - 1]
  BY <1>1 DEF HistoryInv
<1>3. IsInjective(turn)
  BY DEF HistoryInv, IsInjective
<1>4. turn \in Injection(Requests, 0..run.max - 1)
  BY <1>2, <1>3 DEF Injection
<1>5. IsFiniteSet(0..run.max - 1) /\ Cardinality(0..run.max - 1) = run.max
  <2>1. 0 \in Int /\ run.max - 1 \in Int /\ ~(0 > run.max - 1)
    BY <1>1
  <2>2. /\ IsFiniteSet(0..run.max - 1)
        /\ Cardinality(0..run.max - 1) = (run.max - 1) - 0 + 1
    BY <2>1, FS_Interval, Zenon
  <2> QED BY <1>1, <2>2
<1> QED BY <1>4, <1>5, FS_Injection

\* The Adapter is asked at most once per turn and at most max_steps times.
THEOREM AskedCorrect == Spec => []ModelAskedOncePerTurn
BY RequestsInBudget, InductiveInvariant, HistoryInvariant, PTL

-----------------------------------------------------------------------------
(* The history: decisions, starts and steps.                               *)

\* m is the log l with one more event.
Grows(l, m, e) ==
    /\ Len(l) \in Nat /\ Len(m) = Len(l) + 1
    /\ \A i \in 1..Len(l) : m[i] = l[i]
    /\ m[Len(l) + 1] = e

\* Of the first n events, the r-th is the last request, of this call and step.
RequestAt(l, n, r, call, step) ==
    /\ r \in 1..n /\ l[r].type = "tool.requested" /\ l[r].call = call /\ l[r].step = step
    /\ \A j \in r+1..n : l[j].type # "tool.requested"

\* No decision since the request at r, and no proposal.
Undecided(l, r) == \A j \in r+1..Len(l) : ~Releases(l[j])

Unproposed(l, r) == \A j \in r+1..Len(l) : ~Proposes(l[j])

\* The latest proposal since the request at r is that of the gate.
ProposedAt(l, r, p, gate) ==
    /\ p \in r+1..Len(l) /\ Proposes(l[p]) /\ Unproposed(l, p)
    /\ l[p].digest = gate.digest /\ l[p].revision = gate.revision /\ l[p].mode = gate.mode

\* Between the request at r and place i, the only decision is at d, and it is about the
\* latest proposal, if there is one.
DecidedBy(l, r, d, i) ==
    /\ d \in r+1..i-1 /\ Releases(l[d]) /\ l[d].call = l[r].call
    /\ \A j \in r+1..i-1 : Releases(l[j]) => j = d
    /\ l[d].type = "tool.authorized" => \A j \in r+1..i-1 : ~Proposes(l[j])
    /\ l[d].type # "tool.authorized" =>
            \E p \in r+1..d-1 :
                /\ p < d /\ Proposes(l[p]) /\ \A j \in p+1..d-1 : ~Proposes(l[j])
                /\ l[p].digest = l[d].digest /\ l[p].revision = l[d].revision
                /\ (l[p].mode = "pair") <=> (l[d].type = "gate.approved")

StartsWell(l, i) ==
    \E r \in 1..i-1 :
        /\ l[r].type = "tool.requested" /\ l[r].call = l[i].call
        /\ \E d \in r+1..i-1 : DecidedBy(l, r, d, i)

Evidenced(l, i) ==
    /\ i > 1 /\ l[i-1].type = "tool.succeeded"
    /\ \E r \in 1..i-1 : RequestAt(l, i - 1, r, l[i-1].call, l[i].step)

\* What the log says of the call and the step in flight.
CallHistory(l, s) ==
    /\ s.status = "tool_pending" =>
            \E r \in 1..Len(l) : /\ RequestAt(l, Len(l), r, s.call, s.step)
                                 /\ Undecided(l, r) /\ Unproposed(l, r)
    /\ s.status = "awaiting_gate" =>
            \E r \in 1..Len(l) : /\ RequestAt(l, Len(l), r, s.call, s.step)
                                 /\ Undecided(l, r)
                                 /\ \E p \in r+1..Len(l) : ProposedAt(l, r, p, s.gate)
    /\ s.status = "tool_ready" =>
            \E r \in 1..Len(l) : /\ RequestAt(l, Len(l), r, s.call, s.step)
                                 /\ \E d \in r+1..Len(l) : DecidedBy(l, r, d, Len(l) + 1)
    /\ s.status = "tool_running" =>
            \E r \in 1..Len(l) : RequestAt(l, Len(l), r, s.call, s.step)
    /\ s.status = "verifying" =>
            /\ Len(l) # 0 /\ l[Len(l)].type = "tool.succeeded"
            /\ \E r \in 1..Len(l) : RequestAt(l, Len(l), r, l[Len(l)].call, s.step)

LEMMA RequestKept ==
    ASSUME NEW l, NEW m, NEW e, Grows(l, m, e), NEW call, NEW step,
           NEW r \in 1..Len(l), RequestAt(l, Len(l), r, call, step),
           e.type # "tool.requested"
    PROVE  RequestAt(m, Len(m), r, call, step) /\ r \in 1..Len(m)
BY DEF Grows, RequestAt

LEMMA QuietKept ==
    ASSUME NEW l, NEW m, NEW e, Grows(l, m, e), NEW r \in 1..Len(l)
    PROVE  /\ Undecided(l, r) /\ ~Releases(e) => Undecided(m, r)
           /\ Unproposed(l, r) /\ ~Proposes(e) => Unproposed(m, r)
<1>1. \A j \in r+1..Len(m) : j \in r+1..Len(l) \/ j = Len(l) + 1
  BY DEF Grows
<1>2. \A j \in r+1..Len(l) : m[j] = l[j]
  BY DEF Grows
<1>3. m[Len(l) + 1] = e
  BY DEF Grows
<1> HIDE DEF Grows
<1> QED BY <1>1, <1>2, <1>3, Zenon DEF Undecided, Unproposed

LEMMA DecidedKept ==
    ASSUME NEW l, NEW m, NEW e, Grows(l, m, e), NEW i \in 1..Len(l) + 1,
           NEW r \in 1..i-1, NEW d \in r+1..i-1, DecidedBy(l, r, d, i)
    PROVE  DecidedBy(m, r, d, i)
<1>1. i \in Nat /\ r \in Nat /\ d \in Nat /\ Len(l) \in Nat
  BY DEF Grows
<1>2. \A j \in 1..i-1 : m[j] = l[j]
  BY <1>1 DEF Grows
<1>3. m[r] = l[r] /\ m[d] = l[d] /\ (\A j \in r+1..i-1 : m[j] = l[j])
  BY <1>1, <1>2
<1>4. \A p \in r+1..d-1 : m[p] = l[p] /\ \A j \in p+1..d-1 : m[j] = l[j]
  BY <1>1, <1>2
<1> QED BY <1>3, <1>4, Zenon DEF DecidedBy

LEMMA EvidencedKept ==
    ASSUME NEW l, NEW m, NEW e, Grows(l, m, e), NEW i \in 1..Len(l), Evidenced(l, i)
    PROVE  Evidenced(m, i)
<1>1. i \in Nat /\ Len(l) \in Nat /\ i - 1 \in 1..Len(l) /\ i > 1
  BY DEF Grows, Evidenced
<1>2. m[i-1] = l[i-1] /\ m[i] = l[i] /\ (\A j \in 1..i-1 : m[j] = l[j])
  BY <1>1 DEF Grows
<1>3. PICK r \in 1..i-1 : RequestAt(l, i - 1, r, l[i-1].call, l[i].step)
  BY DEF Evidenced
<1>4. RequestAt(m, i - 1, r, m[i-1].call, m[i].step)
  BY <1>1, <1>2, <1>3 DEF RequestAt
<1> QED BY <1>1, <1>2, <1>4 DEF Evidenced

LEMMA StartsKept ==
    ASSUME NEW l, NEW m, NEW e, Grows(l, m, e), NEW i \in 1..Len(l), StartsWell(l, i)
    PROVE  StartsWell(m, i)
<1>1. PICK r \in 1..i-1 : /\ l[r].type = "tool.requested" /\ l[r].call = l[i].call
                          /\ \E d \in r+1..i-1 : DecidedBy(l, r, d, i)
  BY DEF StartsWell
<1>2. m[r] = l[r] /\ m[i] = l[i]
  BY DEF Grows
<1>3. PICK d \in r+1..i-1 : DecidedBy(l, r, d, i)
  BY <1>1
<1>4. i \in 1..Len(l) + 1
  BY DEF Grows
<1>5. DecidedBy(m, r, d, i)
  BY <1>3, <1>4, DecidedKept
<1> QED BY <1>1, <1>2, <1>5 DEF StartsWell

\* The latest request and, in its gate, the latest proposal are what the log says, and a
\* released call has the one decision it needs.
LEMMA CallHistoryStep ==
    ASSUME NEW l, NEW m, NEW e, NEW s, NEW t, Grows(l, m, e), CallHistory(l, s), MovesCall(s, e, t)
    PROVE  CallHistory(m, t)
<1> DEFINE n == Len(l)
<1>n. n \in Nat /\ Len(m) = n + 1 /\ m[n+1] = e /\ \A i \in 1..n : m[i] = l[i]
  BY DEF Grows
<1>1. CASE e.type = "tool.requested" /\ t.status = "tool_pending"
           /\ t.call = e.call /\ t.step = e.step
  <2>1. RequestAt(m, Len(m), n + 1, t.call, t.step) /\ n + 1 \in 1..Len(m)
    BY <1>n, <1>1 DEF RequestAt
  <2>2. Undecided(m, n + 1) /\ Unproposed(m, n + 1)
    BY <1>n DEF Undecided, Unproposed
  <2> QED BY <1>1, <2>1, <2>2 DEF CallHistory
<1>2. CASE e.type = "tool.authorized" /\ KeepsCall(s, e, t)
           /\ s.status = "tool_pending" /\ t.status = "tool_ready"
  <2>1. PICK r \in 1..n : /\ RequestAt(l, n, r, s.call, s.step)
                          /\ Undecided(l, r) /\ Unproposed(l, r)
    BY <1>2 DEF CallHistory
  <2>2. RequestAt(m, Len(m), r, t.call, t.step) /\ r \in 1..Len(m) /\ m[r] = l[r]
    BY <1>n, <1>2, <2>1, RequestKept DEF KeepsCall
  <2>3. l[r].call = s.call
    BY <2>1 DEF RequestAt
  <2>4. Releases(e) /\ ~Proposes(e)
    BY <1>2 DEF Releases, Proposes
  <2>5. n + 1 \in r+1..Len(m) /\ n + 1 \in r+1..(Len(m) + 1) - 1
    BY <1>n
  <2>6. Unproposed(m, r)
    BY <2>1, <2>4, QuietKept
  <2>7. \A j \in r+1..Len(m) : Releases(m[j]) => j = n + 1
    BY <1>n, <2>1 DEF Undecided
  <2>8. DecidedBy(m, r, n + 1, Len(m) + 1)
    <3>1. (Len(m) + 1) - 1 = Len(m)
      BY <1>n
    <3>2. \A j \in r+1..Len(m) : ~Proposes(m[j])
      BY <2>6 DEF Unproposed
    <3>3. m[n+1].type = "tool.authorized" /\ Releases(m[n+1]) /\ m[n+1].call = m[r].call
      BY <1>n, <1>2, <2>2, <2>3, <2>4 DEF KeepsCall
    <3> QED BY <2>5, <2>7, <3>1, <3>2, <3>3, Zenon DEF DecidedBy
  <2> QED BY <1>2, <2>2, <2>5, <2>8 DEF CallHistory
<1>3. CASE e.type = "tool.escalated" /\ KeepsCall(s, e, t) /\ s.status = "tool_pending" /\ GateOpened(e, t)
  <2>1. PICK r \in 1..n : /\ RequestAt(l, n, r, s.call, s.step)
                          /\ Undecided(l, r) /\ Unproposed(l, r)
    BY <1>3 DEF CallHistory
  <2>2. RequestAt(m, Len(m), r, t.call, t.step) /\ r \in 1..Len(m)
    BY <1>n, <1>3, <2>1, RequestKept DEF KeepsCall
  <2>3. Proposes(e) /\ ~Releases(e)
    BY <1>3 DEF Releases, Proposes
  <2>4. Undecided(m, r)
    BY <2>1, <2>3, QuietKept
  <2>5. n + 1 \in r+1..Len(m) /\ ProposedAt(m, r, n + 1, t.gate)
    BY <1>n, <1>3, <2>3 DEF ProposedAt, Unproposed, GateOpened
  <2> QED BY <1>3, <2>2, <2>4, <2>5 DEF CallHistory, GateOpened
<1>4. CASE e.type = "gate.revised" /\ KeepsCall(s, e, t) /\ s.status = "awaiting_gate" /\ GateOpened(e, t)
  <2>1. PICK r \in 1..n : RequestAt(l, n, r, s.call, s.step) /\ Undecided(l, r)
    BY <1>4 DEF CallHistory
  <2>2. RequestAt(m, Len(m), r, t.call, t.step) /\ r \in 1..Len(m)
    BY <1>n, <1>4, <2>1, RequestKept DEF KeepsCall
  <2>3. Proposes(e) /\ ~Releases(e)
    BY <1>4 DEF Releases, Proposes
  <2>4. Undecided(m, r)
    BY <2>1, <2>3, QuietKept
  <2>5. n + 1 \in r+1..Len(m) /\ ProposedAt(m, r, n + 1, t.gate)
    BY <1>n, <1>4, <2>3 DEF ProposedAt, Unproposed, GateOpened
  <2> QED BY <1>4, <2>2, <2>4, <2>5 DEF CallHistory, GateOpened
<1>5. CASE /\ e.type = "gate.approved" \/ (e.type = "gate.evaluated" /\ e.outcome = "pass")
           /\ KeepsCall(s, e, t) /\ NamesGate(s, e)
           /\ s.status = "awaiting_gate" /\ t.status = "tool_ready"
           /\ (s.gate.mode = "pair") <=> (e.type = "gate.approved")
  <2>1. PICK r \in 1..n : /\ RequestAt(l, n, r, s.call, s.step) /\ Undecided(l, r)
                          /\ \E p \in r+1..n : ProposedAt(l, r, p, s.gate)
    BY <1>5 DEF CallHistory
  <2>2. PICK p \in r+1..n : ProposedAt(l, r, p, s.gate)
    BY <2>1
  <2>3. RequestAt(m, Len(m), r, t.call, t.step) /\ r \in 1..Len(m) /\ m[r] = l[r]
    BY <1>n, <1>5, <2>1, RequestKept DEF KeepsCall
  <2>4. l[r].call = s.call
    BY <2>1 DEF RequestAt
  <2>5. Releases(e) /\ e.type # "tool.authorized"
    BY <1>5 DEF Releases
  <2>6. n + 1 \in r+1..Len(m) /\ n + 1 \in r+1..(Len(m) + 1) - 1
    BY <1>n
  <2>7. \A j \in r+1..Len(m) : Releases(m[j]) => j = n + 1
    BY <1>n, <2>1 DEF Undecided
  <2>8. /\ p \in r+1..(n + 1) - 1 /\ p < n + 1 /\ Proposes(m[p])
        /\ \A j \in p+1..(n + 1) - 1 : ~Proposes(m[j])
        /\ m[p].digest = e.digest /\ m[p].revision = e.revision
        /\ (m[p].mode = "pair") <=> (e.type = "gate.approved")
    BY <1>n, <1>5, <2>2 DEF ProposedAt, Unproposed, NamesGate
  <2>9. DecidedBy(m, r, n + 1, Len(m) + 1)
    <3>1. (Len(m) + 1) - 1 = Len(m)
      BY <1>n
    <3>2. m[n+1] = e /\ m[n+1].call = m[r].call
      BY <1>n, <1>5, <2>3, <2>4 DEF KeepsCall
    <3> QED BY <2>5, <2>6, <2>7, <2>8, <3>1, <3>2, Zenon DEF DecidedBy
  <2> QED BY <1>5, <2>3, <2>6, <2>9 DEF CallHistory
<1>6. CASE /\ e.type = "gate.evaluated" /\ e.outcome = "retry" /\ KeepsCall(s, e, t)
           /\ s.status = "awaiting_gate" /\ t.status = "awaiting_gate"
           /\ t.gate.digest = s.gate.digest /\ t.gate.revision = s.gate.revision
           /\ t.gate.mode = s.gate.mode
  <2>1. PICK r \in 1..n : /\ RequestAt(l, n, r, s.call, s.step) /\ Undecided(l, r)
                          /\ \E p \in r+1..n : ProposedAt(l, r, p, s.gate)
    BY <1>6 DEF CallHistory
  <2>2. PICK p \in r+1..n : ProposedAt(l, r, p, s.gate)
    BY <2>1
  <2>3. RequestAt(m, Len(m), r, t.call, t.step) /\ r \in 1..Len(m)
    BY <1>n, <1>6, <2>1, RequestKept DEF KeepsCall
  <2>4. ~Proposes(e) /\ ~Releases(e)
    BY <1>6 DEF Releases, Proposes
  <2>5. Undecided(m, r)
    BY <2>1, <2>4, QuietKept
  <2>6. p \in 1..n /\ p \in r+1..Len(m) /\ m[p] = l[p]
    BY <1>n
  <2>7. Unproposed(m, p)
    BY <2>2, <2>4, <2>6, QuietKept DEF ProposedAt
  <2>8. ProposedAt(m, r, p, t.gate)
    BY <1>6, <2>2, <2>6, <2>7 DEF ProposedAt
  <2> QED BY <1>6, <2>3, <2>5, <2>6, <2>8 DEF CallHistory
<1>7. CASE e.type = "tool.started" /\ KeepsCall(s, e, t)
           /\ s.status = "tool_ready" /\ t.status = "tool_running"
  <2>1. PICK r \in 1..n : RequestAt(l, n, r, s.call, s.step)
    BY <1>7 DEF CallHistory
  <2>2. RequestAt(m, Len(m), r, t.call, t.step) /\ r \in 1..Len(m)
    BY <1>n, <1>7, <2>1, RequestKept DEF KeepsCall
  <2> QED BY <1>7, <2>2 DEF CallHistory
<1>8. CASE e.type = "tool.succeeded" /\ e.call = s.call /\ t.step = s.step
           /\ s.status = "tool_running" /\ t.status = "verifying"
  <2>1. PICK r \in 1..n : RequestAt(l, n, r, s.call, s.step)
    BY <1>8 DEF CallHistory
  <2>2. RequestAt(m, Len(m), r, s.call, s.step) /\ r \in 1..Len(m)
    BY <1>n, <1>8, <2>1, RequestKept
  <2>3. Len(m) # 0 /\ m[Len(m)] = e
    BY <1>n
  <2> QED BY <1>8, <2>2, <2>3 DEF CallHistory
<1>9. CASE t.status \notin ToolStatuses \cup {"verifying"}
  BY <1>9 DEF CallHistory, ToolStatuses
<1> QED BY <1>1, <1>2, <1>3, <1>4, <1>5, <1>6, <1>7, <1>8, <1>9 DEF MovesCall

\* A tool that starts is ready to.
LEMMA NewStart ==
    ASSUME NEW l, NEW m, NEW e, NEW s, NEW t, Grows(l, m, e), CallHistory(l, s),
           MovesCall(s, e, t), e.type = "tool.started"
    PROVE  StartsWell(m, Len(m))
<1> DEFINE n == Len(l)
<1>n. n \in Nat /\ Len(m) = n + 1 /\ m[n+1] = e /\ \A i \in 1..n : m[i] = l[i]
  BY DEF Grows
<1>1. s.status = "tool_ready" /\ e.call = s.call
  BY DEF MovesCall, KeepsCall, CallEvents, ToolTypes
<1>2. PICK r \in 1..n : /\ RequestAt(l, n, r, s.call, s.step)
                        /\ \E d \in r+1..n : DecidedBy(l, r, d, n + 1)
  BY <1>1 DEF CallHistory
<1>3. PICK d \in r+1..n : DecidedBy(l, r, d, n + 1)
  BY <1>2
<1>4. n + 1 \in 1..Len(l) + 1 /\ r \in 1..(n + 1) - 1 /\ d \in r+1..(n + 1) - 1
  BY <1>n
<1>5. DecidedBy(m, r, d, n + 1)
  BY <1>3, <1>4, DecidedKept
<1>6. m[r].type = "tool.requested" /\ m[r].call = m[n+1].call
  BY <1>n, <1>1, <1>2 DEF RequestAt
<1> QED BY <1>n, <1>4, <1>5, <1>6 DEF StartsWell

\* A step that passes was requested, ran and succeeded.
LEMMA NewEvidence ==
    ASSUME NEW l, NEW m, NEW e, NEW s, NEW t, Grows(l, m, e), CallHistory(l, s),
           TurnMoves(s, e, t), e.type = "verification.succeeded", e.scope = "step"
    PROVE  Evidenced(m, Len(m))
<1> DEFINE n == Len(l)
<1>n. n \in Nat /\ Len(m) = n + 1 /\ m[n+1] = e /\ \A i \in 1..n : m[i] = l[i]
  BY DEF Grows
<1>1. s.status = "verifying" /\ e.step = s.step
  BY DEF TurnMoves
<1>2. n # 0 /\ l[n].type = "tool.succeeded"
  BY <1>1 DEF CallHistory
<1>3. PICK r \in 1..n : RequestAt(l, n, r, l[n].call, s.step)
  BY <1>1 DEF CallHistory
<1>4. m[n] = l[n] /\ n + 1 > 1 /\ (n + 1) - 1 = n
  BY <1>n, <1>2
<1>5. RequestAt(m, n, r, m[n].call, e.step)
  BY <1>n, <1>1, <1>3, <1>4 DEF RequestAt
<1> QED BY <1>n, <1>2, <1>4, <1>5 DEF Evidenced

\* The history of the calls and of the steps that ended.
RecordInv ==
    /\ CallHistory(log, run)
    /\ \A i \in 1..Len(log) : log[i].type = "tool.started" => StartsWell(log, i)
    /\ \A i \in StepEnds : log[i].type = "verification.succeeded" => Evidenced(log, i)
    /\ IsFiniteSet(StepEnds) /\ run.turn = Cardinality(StepEnds)

LEMMA RecordStep ==
    ASSUME IInv, HistoryInv, RecordInv, NEW e, StepOf(e)
    PROVE  RecordInv'
<1> DEFINE k == Len(log) + 1
<1>1. Grows(log, log', e)
  BY AppendFacts DEF HistoryInv, StepOf, Grows
<1>2. /\ Len(log) \in Nat /\ Len(log') = k /\ log'[k] = e
      /\ \A i \in 1..Len(log) : log'[i] = log[i]
  BY <1>1 DEF Grows
<1>3. MovesCall(run, e, run') /\ TurnMoves(run, e, run')
  BY DEF StepOf
<1>4. CallHistory(log', run')
  BY <1>1, <1>3, CallHistoryStep DEF RecordInv
<1>5. ASSUME NEW i \in 1..Len(log'), log'[i].type = "tool.started"
      PROVE  StartsWell(log', i)
  <2>1. CASE i \in 1..Len(log)
    BY <1>1, <1>2, <1>5, <2>1, StartsKept DEF RecordInv
  <2>2. CASE i = k
    BY <1>1, <1>2, <1>3, <1>5, <2>2, NewStart DEF RecordInv
  <2> QED BY <1>2, <2>1, <2>2
<1>6. StepEnds' = IF EndsStep(e) THEN StepEnds \cup {k} ELSE StepEnds
  BY <1>2 DEF StepEnds, EndsStep
<1>7. k \notin StepEnds /\ StepEnds \subseteq 1..Len(log)
  BY <1>2 DEF StepEnds
<1>8. ASSUME NEW i \in StepEnds', log'[i].type = "verification.succeeded"
      PROVE  Evidenced(log', i)
  <2>1. CASE i \in StepEnds
    BY <1>1, <1>2, <1>7, <1>8, <2>1, EvidencedKept DEF RecordInv
  <2>2. CASE i = k /\ EndsStep(e)
    <3>1. e.type = "verification.succeeded" /\ e.scope = "step"
      BY <1>2, <1>8, <2>2 DEF EndsStep, CompletionTypes
    <3> QED BY <1>1, <1>2, <1>3, <2>2, <3>1, NewEvidence DEF RecordInv
  <2> QED BY <1>6, <2>1, <2>2
<1>9. IsFiniteSet(StepEnds') /\ run'.turn = Cardinality(StepEnds')
  <2>1. run'.turn = IF EndsStep(e) THEN run.turn + 1 ELSE run.turn
    BY <1>3 DEF TurnMoves
  <2>2. /\ IsFiniteSet(StepEnds \cup {k})
        /\ Cardinality(StepEnds \cup {k}) = Cardinality(StepEnds) + 1
    BY <1>7, FS_AddElement DEF RecordInv
  <2> QED BY <1>6, <2>1, <2>2 DEF RecordInv
<1> QED BY <1>4, <1>5, <1>8, <1>9 DEF RecordInv

LEMMA RecordInvariant == Spec => []RecordInv
<1>1. Init => RecordInv
  <2> SUFFICES ASSUME Init PROVE RecordInv
    OBVIOUS
  <2>1. Len(log) = 0 /\ run.status = "new" /\ run.turn = 0
    BY DEF Init, InitialRun
  <2>2. StepEnds = {}
    BY <2>1 DEF StepEnds
  <2> QED BY <2>1, <2>2, FS_EmptySet DEF RecordInv, CallHistory
<1>2. IInv /\ HistoryInv /\ RecordInv /\ [Next]_vars => RecordInv'
  <2>1. ASSUME RecordInv, UNCHANGED vars PROVE RecordInv'
    BY <2>1 DEF vars, RecordInv, StepEnds
  <2>2. ASSUME IInv, HistoryInv, RecordInv, Next PROVE RecordInv'
    BY <2>1, <2>2, StepShape, RecordStep
  <2> QED BY <2>1, <2>2
<1> QED BY <1>1, <1>2, InductiveInvariant, HistoryInvariant, PTL DEF Spec

LEMMA RecordedStarts == RecordInv => StartsUnderLatestDecision
<1>1. ASSUME RecordInv, NEW i \in 1..Len(log), log[i].type = "tool.started"
      PROVE  \E r \in 1..i-1 : \E d \in r+1..i-1 :
                /\ log[r].type = "tool.requested" /\ Releases(log[d])
                /\ log[r].call = log[i].call /\ log[d].call = log[i].call
                /\ \A j \in r+1..i-1 : Releases(log[j]) => j = d
                /\ IF log[d].type = "tool.authorized"
                   THEN \A j \in r+1..i-1 : ~Proposes(log[j])
                   ELSE \E p \in r+1..d-1 :
                           /\ LatestProposal(p, d)
                           /\ log[p].digest = log[d].digest
                           /\ log[p].revision = log[d].revision
                           /\ (log[p].mode = "pair") <=> (log[d].type = "gate.approved")
  <2>1. PICK r \in 1..i-1 : /\ log[r].type = "tool.requested" /\ log[r].call = log[i].call
                            /\ \E d \in r+1..i-1 : DecidedBy(log, r, d, i)
    BY <1>1 DEF RecordInv, StartsWell
  <2>2. PICK d \in r+1..i-1 : DecidedBy(log, r, d, i)
    BY <2>1
  <2>3. /\ Releases(log[d]) /\ log[d].call = log[i].call
        /\ \A j \in r+1..i-1 : Releases(log[j]) => j = d
        /\ log[d].type = "tool.authorized" => \A j \in r+1..i-1 : ~Proposes(log[j])
    BY <2>1, <2>2, Zenon DEF DecidedBy
  <2>4. log[d].type # "tool.authorized" =>
            \E p \in r+1..d-1 :
                /\ LatestProposal(p, d)
                /\ log[p].digest = log[d].digest
                /\ log[p].revision = log[d].revision
                /\ (log[p].mode = "pair") <=> (log[d].type = "gate.approved")
    BY <2>2, Zenon DEF DecidedBy, LatestProposal
  <2> QED BY <2>1, <2>3, <2>4, Zenon
<1> QED BY <1>1 DEF StartsUnderLatestDecision

\* A tool starts only under one decision on its own request: an authorization with no
\* proposal before it, or a release that names the latest proposal and fits its mode.
THEOREM StartsCorrect == Spec => []StartsUnderLatestDecision
BY RecordedStarts, RecordInvariant, PTL

LEMMA RecordedEvidence == RecordInv => StepsAreEvidenced
<1> SUFFICES ASSUME RecordInv, NEW i \in StepEnds, log[i].type = "verification.succeeded"
             PROVE  /\ i > 1 /\ log[i-1].type = "tool.succeeded"
                    /\ \E r \in 1..i-1 :
                          /\ log[r].type = "tool.requested"
                          /\ log[r].step = log[i].step /\ log[r].call = log[i-1].call
                          /\ \A j \in r+1..i-1 : log[j].type # "tool.requested"
  BY DEF StepsAreEvidenced, RecordInv
<1>1. Evidenced(log, i)
  BY DEF RecordInv
<1> QED BY <1>1 DEF Evidenced, RequestAt

\* The turn counter is the number of judged completions and verified tool steps, and a
\* verified step follows the success of the call that was requested for it.
THEOREM EvidenceCorrect == Spec => []StepsAreEvidenced
BY RecordedEvidence, RecordInvariant, PTL

-----------------------------------------------------------------------------
(* The history: answers.                                                   *)

\* No proposal or request follows the place p.
Latest(l, p) == \A k \in p+1..Len(l) : ~Proposes(l[k]) /\ l[k].type # "tool.requested"

\* Evaluations, of the log l.
Answers(l, p) ==
    {j \in p+1..Len(l) :
        /\ l[j].type = "gate.evaluated"
        /\ \A k \in p+1..j : ~Proposes(l[k]) /\ l[k].type # "tool.requested"}

UpTo(answers, j) == {k \in answers : k <= j}

\* The answers to the proposal at p are counted one by one up to its limit.
Counted(l, p) ==
    LET answers == Answers(l, p)
    IN  /\ IsFiniteSet(answers) /\ l[p].max \in Nat
        /\ l[p].mode = "pair" => answers = {}
        /\ Cardinality(answers) <= l[p].max
        /\ \A j \in answers : /\ Cardinality(UpTo(answers, j)) = l[j].attempt
                              /\ l[j].attempt = l[p].max => l[j].outcome # "retry"

\* An open gate is that of the proposal at p, and counts its answers.
GateOfProposal(l, p, gate) ==
    /\ Proposes(l[p]) /\ Latest(l, p) /\ gate.mode = l[p].mode
    /\ gate.mode = "user_gate" =>
            gate.max = l[p].max /\ gate.attempts = Cardinality(Answers(l, p))

LEMMA AnswersGrow ==
    ASSUME NEW l, NEW m, NEW e, Grows(l, m, e), NEW p \in 1..Len(l)
    PROVE  /\ Answers(m, p) = IF e.type = "gate.evaluated" /\ Latest(l, p)
                              THEN Answers(l, p) \cup {Len(l) + 1} ELSE Answers(l, p)
           /\ Len(l) + 1 \notin Answers(l, p) /\ Answers(l, p) \subseteq 1..Len(l)
<1> DEFINE n == Len(l)
<1>1. n \in Nat /\ Len(m) = n + 1 /\ m[n+1] = e /\ p \in Nat /\ \A i \in 1..n : m[i] = l[i]
  BY DEF Grows
<1>2. \A j \in p+1..n : j \in Answers(m, p) <=> j \in Answers(l, p)
  <2> SUFFICES ASSUME NEW j \in p+1..n
               PROVE  j \in Answers(m, p) <=> j \in Answers(l, p)
    OBVIOUS
  <2>1. j \in p+1..Len(m) /\ m[j] = l[j] /\ \A k \in p+1..j : m[k] = l[k]
    BY <1>1
  <2> QED BY <2>1 DEF Answers
<1>3. n + 1 \in Answers(m, p) <=> e.type = "gate.evaluated" /\ Latest(l, p)
  <2>1. n + 1 \in p+1..Len(m)
    BY <1>1
  <2>2. ASSUME e.type = "gate.evaluated"
        PROVE  (\A k \in p+1..n+1 : ~Proposes(m[k]) /\ m[k].type # "tool.requested")
                    <=> Latest(l, p)
    <3>1. ~Proposes(e) /\ e.type # "tool.requested"
      BY <2>2 DEF Proposes
    <3>2. \A k \in p+1..n+1 : k \in p+1..n \/ k = n + 1
      BY <1>1
    <3>3. \A k \in p+1..n : k \in p+1..n+1 /\ m[k] = l[k]
      BY <1>1
    <3> QED BY <1>1, <3>1, <3>2, <3>3 DEF Latest
  <2> QED BY <1>1, <2>1, <2>2 DEF Answers
<1>4. \A j \in Answers(m, p) : j \in p+1..n \/ j = n + 1
  BY <1>1 DEF Answers
<1>5. Answers(l, p) \subseteq p+1..n /\ n + 1 \notin Answers(l, p)
  BY <1>1 DEF Answers
<1>6. p+1..n \subseteq 1..n
  BY <1>1
<1>7. CASE e.type = "gate.evaluated" /\ Latest(l, p)
  <2>1. Answers(m, p) = Answers(l, p) \cup {n + 1}
    BY <1>2, <1>3, <1>4, <1>5, <1>7
  <2> QED BY <1>5, <1>6, <1>7, <2>1
<1>8. CASE ~(e.type = "gate.evaluated" /\ Latest(l, p))
  <2>1. Answers(m, p) = Answers(l, p)
    BY <1>2, <1>3, <1>4, <1>5, <1>8
  <2> QED BY <1>5, <1>6, <1>8, <2>1
<1> QED BY <1>7, <1>8

\* An answer counts for the proposal whose gate is open, and for no other.
LEMMA CountedStep ==
    ASSUME NEW l, NEW m, NEW e, NEW s, NEW t, Grows(l, m, e), Good(s), GateMoves(s, e, t),
           NEW p \in 1..Len(l), Proposes(l[p]), Counted(l, p),
           s.status = "awaiting_gate" => \E q \in 1..Len(l) : GateOfProposal(l, q, s.gate)
    PROVE  Counted(m, p)
<1> DEFINE n == Len(l)
           answers == Answers(l, p)
<1>1. n \in Nat /\ m[n+1] = e /\ m[p] = l[p] /\ \A i \in 1..n : m[i] = l[i]
  BY DEF Grows
<1>2. n + 1 \notin answers /\ answers \subseteq 1..n
  BY AnswersGrow
<1>3. CASE ~(e.type = "gate.evaluated" /\ Latest(l, p))
  <2>1. Answers(m, p) = answers
    BY <1>3, AnswersGrow
  <2>2. \A j \in answers : m[j] = l[j]
    BY <1>1, <1>2
  <2> HIDE DEF answers
  <2>3. /\ IsFiniteSet(answers) /\ l[p].max \in Nat
        /\ l[p].mode = "pair" => answers = {}
        /\ Cardinality(answers) <= l[p].max
        /\ \A j \in answers : /\ Cardinality(UpTo(answers, j)) = l[j].attempt
                              /\ l[j].attempt = l[p].max => l[j].outcome # "retry"
    BY DEF Counted, answers
  <2> QED BY <1>1, <2>1, <2>2, <2>3 DEF Counted
<1>4. CASE e.type = "gate.evaluated" /\ Latest(l, p)
  <2>1. s.status = "awaiting_gate" /\ s.gate.mode = "user_gate" /\ NextAttempt(s, e)
    BY <1>4 DEF GateMoves
  <2>2. PICK q \in 1..n : GateOfProposal(l, q, s.gate)
    BY <2>1
  <2>3. p = q
    <3>1. ~(p < q) /\ ~(q < p)
      BY <1>1, <1>4, <2>2 DEF GateOfProposal, Latest
    <3> QED BY <1>1, <3>1
  <2>4. /\ s.gate.max = l[p].max /\ s.gate.attempts = Cardinality(answers)
        /\ l[p].mode = "user_gate"
    BY <2>1, <2>2, <2>3 DEF GateOfProposal
  <2>5. Cardinality(answers) \in Nat /\ Cardinality(answers) < l[p].max /\ l[p].max \in Nat
    <3>1. s.gate.attempts < s.gate.max
      BY <2>1 DEF Good, AttemptsLeft
    <3>2. IsFiniteSet(answers) /\ l[p].max \in Nat
      BY DEF Counted
    <3> QED BY <2>4, <3>1, <3>2, FS_CardinalityType
  <2>6. Answers(m, p) = answers \cup {n + 1}
    BY <1>4, AnswersGrow
  <2>7. \A j \in answers : m[j] = l[j] /\ j <= n /\ j \in Nat
    BY <1>1, <1>2
  <2>8. IsFiniteSet(answers) /\ \A j \in answers :
            /\ Cardinality(UpTo(answers, j)) = l[j].attempt
            /\ l[j].attempt = l[p].max => l[j].outcome # "retry"
    BY DEF Counted
  <2> DEFINE more == answers \cup {n + 1}
  <2>9. IsFiniteSet(more) /\ Cardinality(more) = Cardinality(answers) + 1
    BY <1>2, <2>8, FS_AddElement
  <2>10. e.attempt = Cardinality(answers) + 1 /\ (e.outcome = "retry" => e.attempt < e.max)
         /\ e.max = l[p].max
    BY <2>1, <2>4 DEF NextAttempt
  <2>11. ASSUME NEW j \in more
         PROVE  /\ Cardinality(UpTo(more, j)) = m[j].attempt
                /\ m[j].attempt = m[p].max => m[j].outcome # "retry"
    <3>1. CASE j \in answers
      <4>1. UpTo(more, j) = UpTo(answers, j)
        BY <1>1, <2>7, <3>1 DEF UpTo
      <4> HIDE DEF answers, more
      <4> QED BY <1>1, <2>7, <2>8, <3>1, <4>1
    <3>2. CASE j = n + 1
      <4>1. UpTo(more, j) = more
        BY <1>1, <2>7, <3>2 DEF UpTo
      <4> HIDE DEF answers, more
      <4> QED BY <1>1, <2>5, <2>9, <2>10, <3>2, <4>1
    <3> QED BY <3>1, <3>2
  <2>12. l[p].mode # "pair" /\ Cardinality(more) <= l[p].max
    BY <2>4, <2>5, <2>9
  <2> HIDE DEF answers, more
  <2>13. Answers(m, p) = more
    BY <2>6 DEF more
  <2> QED BY <1>1, <2>5, <2>9, <2>11, <2>12, <2>13 DEF Counted
<1> QED BY <1>3, <1>4

LEMMA GateStep ==
    ASSUME NEW l, NEW m, NEW e, NEW s, NEW t, Grows(l, m, e), Good(s), GateMoves(s, e, t),
           t.status = "awaiting_gate",
           s.status = "awaiting_gate" => \E q \in 1..Len(l) : GateOfProposal(l, q, s.gate),
           \A p \in 1..Len(l) : Proposes(l[p]) => Counted(l, p)
    PROVE  \E q \in 1..Len(m) : GateOfProposal(m, q, t.gate)
<1> DEFINE n == Len(l)
<1>1. n \in Nat /\ Len(m) = n + 1 /\ m[n+1] = e /\ \A i \in 1..n : m[i] = l[i]
  BY DEF Grows
<1>2. CASE Proposes(e) /\ t.gate = GateOf(e)
  <2>1. n + 1 \in 1..Len(m) /\ Latest(m, n + 1) /\ Answers(m, n + 1) = {}
    BY <1>1 DEF Latest, Answers
  <2>2. /\ t.gate.mode = e.mode /\ t.gate.attempts = 0
        /\ t.gate.mode = "user_gate" => t.gate.max = e.max
    BY <1>2 DEF GateOf
  <2> QED BY <1>1, <1>2, <2>1, <2>2, FS_EmptySet DEF GateOfProposal
<1>3. CASE /\ e.type = "gate.evaluated"
           /\ t.gate.mode = s.gate.mode /\ t.gate.max = s.gate.max
           /\ t.gate.attempts = e.attempt
  <2>1. s.status = "awaiting_gate" /\ s.gate.mode = "user_gate" /\ NextAttempt(s, e)
    BY <1>3 DEF GateMoves
  <2>2. PICK q \in 1..n : GateOfProposal(l, q, s.gate)
    BY <2>1
  <2>3. Latest(l, q) /\ Proposes(l[q]) /\ s.gate.max = l[q].max /\ l[q].mode = s.gate.mode
        /\ s.gate.attempts = Cardinality(Answers(l, q))
    BY <2>1, <2>2 DEF GateOfProposal
  <2>4. Answers(m, q) = Answers(l, q) \cup {n + 1} /\ n + 1 \notin Answers(l, q)
    BY <1>3, <2>3, AnswersGrow
  <2>5. Cardinality(Answers(m, q)) = e.attempt
    <3>1. IsFiniteSet(Answers(l, q))
      BY <2>3 DEF Counted
    <3> QED BY <2>1, <2>3, <2>4, <3>1, FS_AddElement DEF NextAttempt
  <2>6. q \in 1..Len(m) /\ m[q] = l[q] /\ Latest(m, q)
    <3>1. ~Proposes(e) /\ e.type # "tool.requested"
      BY <1>3 DEF Proposes
    <3>2. \A k \in q+1..Len(m) : k = n + 1 \/ (k \in q+1..n /\ m[k] = l[k])
      BY <1>1
    <3>3. Latest(m, q)
      BY <1>1, <2>3, <3>1, <3>2 DEF Latest
    <3> QED BY <1>1, <3>3
  <2> QED BY <1>3, <2>3, <2>5, <2>6 DEF GateOfProposal
<1> QED BY <1>2, <1>3 DEF GateMoves

AnswersInv ==
    /\ \A p \in 1..Len(log) : Proposes(log[p]) => Counted(log, p)
    /\ run.status = "awaiting_gate" => \E q \in 1..Len(log) : GateOfProposal(log, q, run.gate)

LEMMA AnswersStep ==
    ASSUME IInv, HistoryInv, AnswersInv, NEW e, StepOf(e)
    PROVE  AnswersInv'
<1> DEFINE n == Len(log)
<1>1. Grows(log, log', e)
  BY AppendFacts DEF HistoryInv, StepOf, Grows
<1>2. n \in Nat /\ Len(log') = n + 1 /\ log'[n+1] = e /\ \A i \in 1..n : log'[i] = log[i]
  BY <1>1 DEF Grows
<1>3. Good(run) /\ GateMoves(run, e, run') /\ EventType(e)
  BY DEF StepOf, IInv
<1>4. ASSUME NEW p \in 1..Len(log'), Proposes(log'[p])
      PROVE  Counted(log', p)
  <2>1. CASE p \in 1..n
    <3>1. Proposes(log[p])
      BY <1>2, <1>4, <2>1
    <3> QED BY <1>1, <1>3, <2>1, <3>1, CountedStep DEF AnswersInv
  <2>2. CASE p = n + 1
    <3>1. Answers(log', p) = {}
      BY <1>2, <2>2 DEF Answers
    <3>2. log'[p].max \in Nat
      BY <1>2, <1>3, <1>4, <2>2 DEF EventType, Proposes
    <3> QED BY <3>1, <3>2, FS_EmptySet DEF Counted
  <2> QED BY <1>2, <2>1, <2>2
<1>5. run'.status = "awaiting_gate" =>
            \E q \in 1..Len(log') : GateOfProposal(log', q, run'.gate)
  BY <1>1, <1>3, GateStep DEF AnswersInv
<1> QED BY <1>4, <1>5 DEF AnswersInv

LEMMA CountedAnswers == AnswersInv => AttemptsWithinLimit
<1> SUFFICES ASSUME AnswersInv, NEW p \in 1..Len(log), Proposes(log[p])
             PROVE  LET answers == Evaluations(p)
                    IN  /\ log[p].mode = "pair" => answers = {}
                        /\ Cardinality(answers) <= log[p].max
                        /\ \A j \in answers :
                              /\ Cardinality({k \in answers : k <= j}) = log[j].attempt
                              /\ log[j].attempt = log[p].max => log[j].outcome # "retry"
  BY DEF AttemptsWithinLimit
<1>1. Evaluations(p) = Answers(log, p)
  BY DEF Evaluations, Answers
<1>2. Counted(log, p)
  BY DEF AnswersInv
<1> QED BY <1>1, <1>2 DEF Counted, UpTo

\* A USER_GATE proposal is answered at most as often as its own limit allows, and the
\* answer that uses the limit up is a PASS or a BLOCK.
THEOREM LimitCorrect == Spec => []AttemptsWithinLimit
<1>1. Init => AnswersInv
  <2> SUFFICES ASSUME Init PROVE AnswersInv
    OBVIOUS
  <2>1. Len(log) = 0 /\ run.status = "new"
    BY DEF Init, InitialRun
  <2> QED BY <2>1 DEF AnswersInv
<1>2. IInv /\ HistoryInv /\ AnswersInv /\ [Next]_vars => AnswersInv'
  <2>1. ASSUME AnswersInv, UNCHANGED vars PROVE AnswersInv'
    BY <2>1 DEF vars, AnswersInv
  <2>2. ASSUME IInv, HistoryInv, AnswersInv, Next PROVE AnswersInv'
    BY <2>1, <2>2, StepShape, AnswersStep
  <2> QED BY <2>1, <2>2
<1> QED BY <1>1, <1>2, CountedAnswers, InductiveInvariant, HistoryInvariant, PTL DEF Spec

-----------------------------------------------------------------------------
(* A log that somebody else keeps.  Modules that store a run's events take *)
(* these lemmas over: whatever log starts fresh and grows by events the    *)
(* reducer takes has the guarantees of RunLifecycle.                       *)

LInv == IInv /\ HistoryInv /\ RecordInv /\ AnswersInv

Guarantees ==
    /\ ActiveFieldsMatchStatus /\ GateHasAttemptsLeft /\ BudgetRespected
    /\ SequenceIsDense /\ ModelAskedOncePerTurn
    /\ StartsUnderLatestDecision /\ StepsAreEvidenced /\ AttemptsWithinLimit

LEMMA Guaranteed == LInv => Guarantees
BY RequestsInBudget, RecordedStarts, RecordedEvidence, CountedAnswers
   DEF LInv, Guarantees, IInv, Good, ActiveFieldsMatchStatus, GateHasAttemptsLeft,
       BudgetRespected, HistoryInv

LEMMA TakenKeeps ==
    ASSUME LInv, NEW e, Takes(e)
    PROVE  LInv'
<1>1. StepOf(e)
  BY TakenStep DEF LInv
<1>2. IInv'
  BY <1>1 DEF StepOf, IInv
<1> QED BY <1>1, <1>2, HistoryStep, RecordStep, AnswersStep DEF LInv

LEMMA StillKeeps ==
    ASSUME LInv, UNCHANGED vars
    PROVE  LInv'
BY DEF LInv, vars, IInv, HistoryInv, SequenceIsDense, Requests, RecordInv, StepEnds, AnswersInv

\* A run that was created and started, and nothing else.
LEMMA FreshKeeps ==
    ASSUME Good(run), run.status = "ready", run.turn = 0, IsSequence(log), SequenceIsDense,
           \A i \in 1..Len(log) : log[i].type \in RunTypes
    PROVE  LInv
<1>1. \A i \in 1..Len(log) :
        /\ log[i].type \notin CompletionTypes
        /\ log[i].type \notin {"model.action_requested", "tool.started", "verification.succeeded"}
        /\ ~Proposes(log[i])
  BY DEF RunTypes, CompletionTypes, Proposes
<1>2. Requests = {} /\ StepEnds = {}
  BY <1>1 DEF Requests, StepEnds
<1>3. HistoryInv
  BY <1>2 DEF HistoryInv
<1>4. RecordInv
  BY <1>1, <1>2, FS_EmptySet DEF RecordInv, CallHistory
<1>5. AnswersInv
  BY <1>1 DEF AnswersInv
<1> QED BY <1>3, <1>4, <1>5 DEF LInv, IInv
=============================================================================
