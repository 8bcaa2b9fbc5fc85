-------------------------- MODULE ModelEvidence_proofs --------------------------
(***************************************************************************)
(* For every budget, model, policy and number of crashes: what a verified  *)
(* step rests on, what callers of the loop are told, why a run can be      *)
(* stranded, and that everything keeps its type.  The invariant of         *)
(* ModelLoop_proofs says what each place of the process goes with; this    *)
(* one relates it with the requests on record and with the executor's      *)
(* intents and receipts.                                                   *)
(***************************************************************************)
EXTENDS ModelLoop_proofs

-----------------------------------------------------------------------------
(* The inductive invariant.                                                *)

Requests == Of("tool.requested")

\* The request of the active call is the one RequestOf finds, of the step in flight.
LastRequestIsNow == run.call # None => RequestOf(run.call).step = run.step

RequestsTyped == \A r \in Requests : log[r].call \in Calls /\ log[r].content \in Contents

\* What the process runs was requested in the step in flight.
Calling == InTool \ {"verify"}

RequestedNow(call, content) ==
    \E r \in Requests :
        log[r].call = call /\ log[r].content = content /\ log[r].step = run.step

FrameRequested ==
    agent.at \in Calling => RequestedNow(agent.action.call, agent.action.content)

\* A receipt has its intent, and an intent its request.
RecordsRequested ==
    \A call \in Calls :
        /\ receipts[call] # None => intents[call] # None
        /\ intents[call] # None =>
            \E r \in Requests : log[r].call = call /\ log[r].content = intents[call]

\* The executor's frame agrees with its store.
FrameStored ==
    /\ agent.at \in {"invoke", "outcome"} => intents[agent.action.call] = agent.action.content
    /\ agent.at = "invoke" => receipts[agent.action.call] = None
    /\ agent.at = "outcome" => receipts[agent.action.call] = agent.result

\* The event numbered n is a success that rests on a receipt of what was requested in
\* the given step.
Rests(n, step) ==
    /\ n \in 1..Len(log) /\ log[n].type = "tool.succeeded"
    /\ \E r \in Requests :
        /\ r <= n /\ log[r].step = step /\ log[r].call = log[n].call
        /\ intents[log[r].call] = log[r].content
        /\ receipts[log[r].call] = "succeeded"

StepsRest ==
    /\ run.status = "verifying" => Rests(Len(log), run.step)
    /\ \A i \in StepVerifications : Rests(i - 1, log[i].step)

\* What a crash or an exception leaves behind, or a process that is not there yet.
LeftBehind ==
    /\ run.status = "tool_pending" => agent.at = "decide" \/ crashes > 0 \/ Raised
    /\ \A call \in Calls :
        intents[call] # None /\ receipts[call] = None /\ intents[call] \notin Idempotent =>
            \/ crashes > 0
            \/ agent.at = "invoke" /\ agent.action.call = call
            \/ run.status = "tool_running" /\ run.call = call /\ Raised

EInv ==
    /\ LastRequestIsNow /\ RequestsTyped /\ FrameRequested /\ RecordsRequested
    /\ FrameStored /\ StepsRest /\ LeftBehind
    /\ intents \in [Calls -> Contents \cup {None}] /\ crashes \in Nat

-----------------------------------------------------------------------------
(* What a step may do to the log and to the run.                           *)

Other == EventTypes \ {"tool.requested", "tool.succeeded", "verification.succeeded"}

\* Every event is numbered by the run it was read from.
Numbered(e) == e.id = run.next /\ e.seq = run.next

\* Events of these types say nothing the run has not said; the others are stored here.
Bare == {"model.action_failed", "run.step_budget_exhausted", "model.action_proposed",
         "tool.authorized", "tool.denied", "tool.started", "verification.failed"}

StoresMore ==
    BeginAction \/ Complete \/ (\E mode \in GateModes : Escalate(mode)) \/ ReleaseGate \/ CloseGate

\* A step stores no event, one that no evidence depends on, or is one of three.
LEMMA Stores ==
    ASSUME [Next]_vars
    PROVE  \/ UNCHANGED stored
           \/ \E e : /\ Store(e) /\ e.type \in Other /\ Numbered(e)
                     /\ (e.type \in Bare \/ StoresMore)
           \/ RequestTool \/ RecordOutcome \/ PassStep
<1> DEFINE Stored == \E e : /\ Store(e) /\ e.type \in Other /\ Numbered(e)
                           /\ (e.type \in Bare \/ StoresMore)
<1>1. CASE UNCHANGED vars
  BY <1>1 DEF vars, stored
<1>2. CASE \/ RunLoop \/ ResumeLoop \/ Recover \/ Crash \/ \E entry \in Entries : RunTurn(entry)
  BY <1>2 DEF RunLoop, ResumeLoop, Recover, Crash, RunTurn
<1>3. CASE \/ LoadPending \/ BuildInput \/ Ask
           \/ \E a \in Actions : AdapterAnswers(a) \/ AdapterMisfits(a)
  BY <1>3 DEF LoadPending, BuildInput, Ask, AdapterAnswers, AdapterMisfits
<1>4. CASE \/ SaveIntent \/ ReturnReceipt \/ Retry \/ ExecutorRaises \/ Raises
           \/ \E r \in Outcomes : InvokeTool(r)
  BY <1>4, RaisesEnd DEF SaveIntent, ReturnReceipt, Retry, ExecutorRaises, InvokeTool
<1> USE DEF Other, EventTypes, Numbered
<1>5. CASE FailUnknown \/ AdapterRaises
  <2>1. /\ Plain("model.action_failed").type \in Other \cap Bare
        /\ Numbered(Plain("model.action_failed"))
    BY DEF Bare, Plain, ModelTypes, ToolTypes, VerificationTypes
  <2> QED BY <1>5, <2>1 DEF FailUnknown, AdapterRaises, KeepStored
<1>6. CASE ExhaustBudget
  <2> DEFINE e == [type |-> "run.step_budget_exhausted", id |-> run.next, seq |-> run.next,
                   max |-> run.max, completed |-> run.turn]
  <2>1. Store(e)
    BY <1>6 DEF ExhaustBudget
  <2>2. e.type \in Other \cap Bare /\ Numbered(e)
    BY DEF Bare, RunTypes, ToolTypes, VerificationTypes
  <2> QED BY <2>1, <2>2
<1>7. CASE BeginAction
  <2> DEFINE e == [type |-> "model.action_requested", id |-> run.next, seq |-> run.next,
                   step |-> agent.context.step, turn |-> agent.context.turn,
                   invocation |-> agent.context.step,
                   observation |-> agent.context.observation]
  <2>1. Store(e)
    BY <1>7 DEF BeginAction
  <2>2. e.type \in Other /\ Numbered(e)
    BY DEF ModelTypes, ToolTypes, VerificationTypes
  <2> QED BY <1>7, <2>1, <2>2 DEF StoresMore
<1>8. CASE Persist
  <2> DEFINE e == [type |-> "model.action_proposed", id |-> run.next, seq |-> run.next,
                   step |-> run.step, turn |-> run.turn, invocation |-> run.invocation,
                   action |-> agent.action]
  <2>1. Store(e)
    BY <1>8 DEF Persist
  <2>2. e.type \in Other \cap Bare /\ Numbered(e)
    BY DEF Bare, ModelTypes, ToolTypes, VerificationTypes
  <2> QED BY <2>1, <2>2
<1>9. CASE Complete
  <2> DEFINE e == [type |-> IF Accepts(agent.action.answer, agent.context)
                            THEN "completion.accepted" ELSE "completion.rejected",
                   id |-> run.next, seq |-> run.next, step |-> agent.context.step,
                   action |-> run.action, answer |-> agent.action.answer]
  <2>1. Store(e)
    BY <1>9 DEF Complete
  <2>2. e.type \in Other /\ Numbered(e)
    BY DEF CompletionTypes, ToolTypes, VerificationTypes
  <2> QED BY <1>9, <2>1, <2>2 DEF StoresMore
<1>10. CASE Allow \/ Deny \/ StartTool
  <2>1. \A type, call : OfCall(type, call).type = type /\ Numbered(OfCall(type, call))
    BY DEF OfCall
  <2>2. {"tool.authorized", "tool.denied", "tool.started"} \subseteq Other \cap Bare
    BY DEF Bare, ToolTypes, VerificationTypes
  <2> QED BY <1>10, <2>1, <2>2 DEF Allow, Deny, StartTool
<1>11. ASSUME NEW mode \in GateModes, Escalate(mode) PROVE Stored
  <2> DEFINE e == [type |-> "tool.escalated", id |-> run.next, seq |-> run.next,
                   call |-> agent.action.call, digest |-> Digest(agent.action.call),
                   revision |-> 1, mode |-> mode, max |-> 1]
  <2>1. Store(e)
    BY <1>11 DEF Escalate
  <2>2. e.type \in Other /\ Numbered(e)
    BY DEF GateTypes, ToolTypes, VerificationTypes
  <2> QED BY <1>11, <2>1, <2>2 DEF StoresMore
<1>12. CASE FailStep
  <2>1. /\ Plain("verification.failed").type \in Other \cap Bare
        /\ Numbered(Plain("verification.failed"))
    BY DEF Bare, Plain, ToolTypes, VerificationTypes
  <2> QED BY <1>12, <2>1 DEF FailStep
<1>13. CASE ReleaseGate \/ CloseGate
  <2>1. \A type, outcome : OfGate(type, outcome).type = type /\ Numbered(OfGate(type, outcome))
    BY DEF OfGate
  <2>2. {"gate.approved", "gate.rejected", "gate.evaluated"} \subseteq Other
    BY DEF GateTypes, ToolTypes, VerificationTypes
  <2> QED BY <1>13, <2>1, <2>2 DEF ReleaseGate, CloseGate, StoresMore
<1> QED BY <1>1, <1>2, <1>3, <1>4, <1>5, <1>6, <1>7, <1>8, <1>9, <1>10, <1>11, <1>12, <1>13
        DEF Next, Step, Supervise, Raises

\* An event the reducer takes, other than a request, keeps the active call and its step
\* or ends it, and only a success makes a run verifying; none makes it wait for a decision.
Kept(s, e, t) ==
    /\ t.call = None \/ (t.call = s.call /\ t.step = s.step)
    /\ t.status # "tool_pending"
    /\ t.status = "verifying" => e.type = "tool.succeeded"
    /\ e.type = "tool.succeeded" => t.step = s.step

LEMMA EffectKeeps ==
    ASSUME NEW s, NEW e, Good(s), e.type \in EventTypes \ {"tool.requested"}, Guard(s, e),
           e.type = "verification.succeeded" => e.scope = "step"
    PROVE  Kept(s, e, Effect(s, e))
<1>0. DOMAIN s = DOMAIN InitialRun /\ FieldsMatchStatus(s)
  BY DEF Good, RunType
<1>1. CASE e.type \in RunTypes
  <2>1. Effect(s, e) = RunEffect(s, e) /\ RunGuard(s, e)
    BY <1>1, Families
  <2>2. Kept(s, e, RunEffect(s, e))
    BY <1>0, <1>1, <2>1, Domain DEF RunEffect, RunGuard, RunTypes, CloseModel, Move, Kept,
       FieldsMatchStatus, ToolStatuses
  <2> QED BY <2>1, <2>2
<1>2. CASE e.type \in ModelTypes
  <2>1. Effect(s, e) = ModelEffect(s, e) /\ ModelGuard(s, e)
    BY <1>2, Families
  <2>2. Kept(s, e, ModelEffect(s, e))
    BY <1>0, <1>2, <2>1, Domain DEF ModelEffect, ModelGuard, ModelTypes, CloseModel, Kept,
       FieldsMatchStatus, ToolStatuses
  <2> QED BY <2>1, <2>2
<1>3. CASE e.type \in CompletionTypes
  <2>1. Effect(s, e) = CompletionEffect(s, e) /\ CompletionGuard(s, e)
    BY <1>3, Families
  <2>2. s.call = None
    BY <1>0, <2>1 DEF CompletionGuard, AnswersAction, FieldsMatchStatus, ToolStatuses
  <2>3. Kept(s, e, CompletionEffect(s, e))
    BY <1>0, <1>3, <2>2, Domain DEF CompletionEffect, CompletionTypes, CloseModel, Kept
  <2> QED BY <2>1, <2>3
<1>4. CASE e.type \in GateTypes
  <2>1. Effect(s, e) = GateEffect(s, e) /\ GateGuard(s, e)
    BY <1>4, Families
  <2>2. s.status # "verifying" /\ (s.status = "tool_pending" => e.type = "tool.escalated")
    BY <1>4, <2>1 DEF GateGuard, GateTypes
  <2>3. Kept(s, e, GateEffect(s, e))
    BY <1>0, <1>4, <2>2, Domain DEF GateEffect, GateTypes, CloseTool, Kept
  <2> QED BY <2>1, <2>3
<1>5. CASE e.type \in ToolTypes
  <2>1. Effect(s, e) = ToolEffect(s, e)
    BY <1>5, Families
  <2>2. Kept(s, e, ToolEffect(s, e))
    BY <1>0, <1>5, Domain DEF ToolEffect, ToolTypes, CloseTool, Move, Kept
  <2> QED BY <2>1, <2>2
<1>6. CASE e.type \in VerificationTypes
  <2>1. Effect(s, e) = VerificationEffect(s, e) /\ VerificationGuard(s, e)
    BY <1>6, Families
  <2>2. s.call = None
    BY <1>0, <2>1 DEF VerificationGuard, FieldsMatchStatus, ToolStatuses
  <2>3. Kept(s, e, VerificationEffect(s, e))
    BY <1>0, <1>6, <2>1, <2>2, Domain DEF VerificationEffect, VerificationTypes, Kept
  <2> QED BY <2>1, <2>3
<1> QED BY <1>1, <1>2, <1>3, <1>4, <1>5, <1>6 DEF EventTypes

\* What is stored is taken, as it is never refused.
LEMMA StoreTaken ==
    ASSUME IInv, IInv', NEW e, Store(e)
    PROVE  /\ Took(run, e, run') /\ Guard(run, e) /\ Good(run)
           /\ Acceptable(run, e) /\ run' = Applied(run, e)
           /\ IsSequence(log) /\ Len(log) \in Nat /\ log' = Append(log, e)
           /\ Len(log') = Len(log) + 1 /\ log'[Len(log) + 1] = e
           /\ \A i \in 1..Len(log) : log'[i] = log[i]
<1>1. Good(run) /\ IsSequence(log) /\ log' = Append(log, e)
  BY DEF IInv, Behind, Current, Store
<1>2. /\ run.next = Len(log) + 1 /\ run'.next = Len(log') + 1
      /\ Len(log') = Len(log) + 1 /\ Len(log) \in Nat /\ log'[Len(log) + 1] = e
      /\ \A i \in 1..Len(log) : log'[i] = log[i]
  BY <1>1, AppendFacts DEF IInv, Behind, Current
<1>3. run' # Rejected /\ run' # run
  BY <1>2, GoodIsNotRejected DEF IInv, Behind, Current
<1>4. Legal(run, e) /\ run' = Reduce(run, e)
  BY <1>3 DEF Store, ReplayStep
<1>5. /\ ~Redelivered(run, e) /\ run' = Applied(run, e)
      /\ Acceptable(run, e) /\ Guard(run, e)
  BY <1>3, <1>4 DEF Legal, Reduce, Acceptable
<1>6. DOMAIN run' = DOMAIN InitialRun
  BY DEF IInv, Behind, Current, Good, RunType
<1>7. Took(run, e, run')
  BY <1>5, <1>6, Domain DEF Applied, Took
<1> QED BY <1>1, <1>2, <1>5, <1>7

LEMMA StoreKeeps ==
    ASSUME IInv, IInv', NEW e, Store(e), e.type \in EventTypes \ {"tool.requested"},
           e.type = "verification.succeeded" => e.scope = "step"
    PROVE  Kept(run, e, run')
<1>1. Took(run, e, run') /\ Guard(run, e) /\ Good(run)
  BY StoreTaken
<1>2. Kept(run, e, Effect(run, e))
  BY <1>1, EffectKeeps
<1> QED BY <1>1, <1>2 DEF Kept, Took

\* The log only grows, and what is not stored is not added.
LEMMA LogGrows ==
    ASSUME IInv, IInv', [Next]_vars
    PROVE  /\ Len(log) \in Nat /\ Len(log') \in Nat /\ Len(log) <= Len(log')
           /\ \A i \in 1..Len(log) : log'[i] = log[i]
           /\ Requests \subseteq 1..Len(log) /\ Requests \subseteq Requests'
           /\ RequestTool \/ Requests' = Requests
           /\ PassStep \/ StepVerifications' = StepVerifications
<1>1. IsSequence(log) /\ Len(log) \in Nat
  BY AppendFacts DEF IInv, Behind, Current
<1>2. CASE UNCHANGED stored
  <2>1. log' = log
    BY <1>2 DEF stored
  <2> QED BY <1>1, <2>1 DEF Requests, Of, StepVerifications
<1>3. ASSUME NEW e, Store(e),
             e.type = "tool.requested" => RequestTool,
             e.type = "verification.succeeded" => PassStep
      PROVE  /\ Len(log') \in Nat /\ Len(log) <= Len(log')
             /\ \A i \in 1..Len(log) : log'[i] = log[i]
             /\ Requests \subseteq 1..Len(log) /\ Requests \subseteq Requests'
             /\ RequestTool \/ Requests' = Requests
             /\ PassStep \/ StepVerifications' = StepVerifications
  <2>1. /\ Len(log') = Len(log) + 1 /\ log'[Len(log) + 1] = e
        /\ \A i \in 1..Len(log) : log'[i] = log[i]
    BY <1>1, <1>3, AppendFacts DEF Store
  <2>2. Len(log') \in Nat /\ Len(log) <= Len(log')
        /\ \A i \in 1..Len(log') : i \in 1..Len(log) \/ i = Len(log) + 1
    BY <1>1, <2>1
  <2>3. Requests \subseteq 1..Len(log) /\ Requests \subseteq Requests'
    BY <2>1, <2>2 DEF Requests, Of
  <2>4. e.type # "tool.requested" => Requests' = Requests
    BY <2>1, <2>2 DEF Requests, Of
  <2>5. e.type # "verification.succeeded" => StepVerifications' = StepVerifications
    BY <1>1, <1>3, VerificationsKept DEF Store
  <2> QED BY <1>3, <2>1, <2>2, <2>3, <2>4, <2>5
<1>4. ASSUME NEW e, Store(e), e.type \in Other PROVE e.type \notin {"tool.requested", "verification.succeeded"}
  BY <1>4 DEF Other
<1>5. CASE RequestTool
  <2> DEFINE e == [type |-> "tool.requested", id |-> run.next, seq |-> run.next,
                   call |-> agent.action.call, content |-> agent.action.content,
                   step |-> agent.context.step, action |-> agent.event]
  <2>1. Store(e)
    BY <1>5 DEF RequestTool
  <2>2. e.type = "tool.requested"
    OBVIOUS
  <2> HIDE DEF e
  <2> QED BY <1>1, <1>3, <1>5, <2>1, <2>2
<1>6. CASE PassStep
  <2> DEFINE e == [type |-> "verification.succeeded", id |-> run.next, seq |-> run.next,
                   scope |-> "step", step |-> run.step]
  <2>1. Store(e)
    BY <1>6 DEF PassStep
  <2>2. e.type = "verification.succeeded"
    OBVIOUS
  <2> HIDE DEF e
  <2> QED BY <1>1, <1>3, <1>6, <2>1, <2>2
<1>7. CASE RecordOutcome
  <2>1. PICK type \in {"tool.succeeded", "tool.failed", "tool.timed_out"} :
            Store(OfCall(type, agent.action.call))
    <3>1. agent.result \in Outcomes
      BY <1>7, Inside DEF RecordOutcome, At, Agrees
    <3> QED BY <1>7, <3>1 DEF RecordOutcome, Outcomes
  <2>2. OfCall(type, agent.action.call).type = type
    BY DEF OfCall
  <2> QED BY <1>1, <1>3, <2>1, <2>2
<1> QED BY <1>1, <1>2, <1>3, <1>4, <1>5, <1>6, <1>7, Stores

\* A step that moves the process leaves the calling places, or is one of these.
LEMMA Moves ==
    ASSUME IInv, [Next]_vars
    PROVE  \/ agent' = agent \/ agent'.at \notin Calling
           \/ RequestTool \/ Allow \/ StartTool \/ SaveIntent \/ ReturnReceipt \/ Retry
           \/ (\E r \in Outcomes : InvokeTool(r)) \/ Recover \/ ReleaseGate
<1> USE DEF Calling, InTool
<1>1. CASE UNCHANGED vars \/ CloseGate
  BY <1>1 DEF vars, CloseGate
<1>2. CASE RunLoop \/ ResumeLoop \/ Crash \/ \E entry \in Entries : RunTurn(entry)
  BY <1>2, Frame DEF RunLoop, ResumeLoop, Crash, RunTurn, Begin
<1>3. CASE FailUnknown \/ AdapterRaises \/ ExhaustBudget \/ Deny \/ ExecutorRaises \/ Raises
           \/ (\E mode \in GateModes : Escalate(mode)) \/ \E a \in Actions : AdapterMisfits(a)
  BY <1>3, EndsIdle, RaisesEnd
     DEF FailUnknown, AdapterRaises, ExhaustBudget, Deny, ExecutorRaises, Escalate, AdapterMisfits
<1>4. CASE LoadPending \/ BuildInput \/ Persist \/ \E a \in Actions : AdapterAnswers(a)
  BY <1>4, Inside, Frame DEF LoadPending, BuildInput, Persist, AdapterAnswers
<1>5. CASE BeginAction \/ Ask
  BY <1>5, Inside, Frame DEF BeginAction, Ask, Goto
<1>6. CASE Complete \/ RecordOutcome \/ PassStep \/ FailStep
  BY <1>6, EndsIdle, Inside, Frame DEF Complete, RecordOutcome, PassStep, FailStep, Goto
<1> QED BY <1>1, <1>2, <1>3, <1>4, <1>5, <1>6 DEF Next, Step, Supervise, Raises

\* The executor's store changes in two steps only.
LEMMA EffectsMove ==
    ASSUME [Next]_vars
    PROVE  UNCHANGED effects \/ SaveIntent \/ \E r \in Outcomes : InvokeTool(r)
<1>1. CASE UNCHANGED vars
  BY <1>1 DEF vars, effects
<1>2. CASE \/ RunLoop \/ ResumeLoop \/ Recover \/ Crash \/ ReleaseGate \/ CloseGate
           \/ \E entry \in Entries : RunTurn(entry)
  BY <1>2 DEF RunLoop, ResumeLoop, Recover, Crash, RunTurn, ReleaseGate, CloseGate
<1>3. CASE FailUnknown \/ LoadPending \/ BuildInput \/ ExhaustBudget \/ BeginAction \/ Ask
  BY <1>3 DEF FailUnknown, LoadPending, BuildInput, ExhaustBudget, BeginAction, Ask
<1>4. CASE \/ AdapterRaises \/ Persist \/ Complete \/ RequestTool
           \/ \E a \in Actions : AdapterAnswers(a) \/ AdapterMisfits(a)
  BY <1>4 DEF AdapterRaises, Persist, Complete, RequestTool, AdapterAnswers, AdapterMisfits
<1>5. CASE Allow \/ Deny \/ StartTool \/ \E mode \in GateModes : Escalate(mode)
  BY <1>5 DEF Allow, Deny, StartTool, Escalate
<1>6. CASE \/ ReturnReceipt \/ Retry \/ ExecutorRaises \/ RecordOutcome \/ PassStep
           \/ FailStep \/ Raises
  BY <1>6, RaisesEnd DEF ReturnReceipt, Retry, ExecutorRaises, RecordOutcome, PassStep, FailStep
<1> QED BY <1>1, <1>2, <1>3, <1>4, <1>5, <1>6 DEF Next, Step, Supervise, Raises

-----------------------------------------------------------------------------
(* Steps by the event they store.                                          *)

\* A request is the last event, and the active call's.
LEMMA Requesting ==
    ASSUME IInv, IInv', RequestTool
    PROVE  /\ Len(log) + 1 \in Requests' /\ log'[Len(log) + 1].call = agent.action.call
           /\ log'[Len(log) + 1].content = agent.action.content
           /\ log'[Len(log) + 1].step = run'.step /\ run'.call = agent.action.call
           /\ run'.status = "tool_pending"
           /\ agent.action.call \in Calls /\ agent.action.content \in Contents
           /\ \A r \in Requests' : r \in Requests \/ r = Len(log) + 1
<1> DEFINE e == [type |-> "tool.requested", id |-> run.next, seq |-> run.next,
                 call |-> agent.action.call, content |-> agent.action.content,
                 step |-> agent.context.step, action |-> agent.event]
<1>1. /\ e.type = "tool.requested" /\ e.call = agent.action.call
      /\ e.content = agent.action.content /\ e.step = agent.context.step
  OBVIOUS
<1>2. Store(e) /\ agent.at = "dispatch" /\ agent.action.kind = "tool"
  BY DEF RequestTool, At
<1> HIDE DEF e
<1>3. /\ Took(run, e, run') /\ Good(run) /\ Len(log) \in Nat
      /\ Len(log') = Len(log) + 1 /\ log'[Len(log) + 1] = e
      /\ \A i \in 1..Len(log) : log'[i] = log[i]
  BY <1>2, StoreTaken
<1>4. agent.action.call \in Calls /\ agent.action.content \in Contents
  BY <1>2, Dispatching DEF Actions, ToolCalls, FinalAnswers
<1>5. run'.step = e.step /\ run'.call = e.call /\ run'.status = "tool_pending"
  <2>1. Effect(run, e) = ToolEffect(run, e)
    BY <1>1, Families DEF ToolTypes
  <2>2. /\ ToolEffect(run, e).step = e.step /\ ToolEffect(run, e).call = e.call
        /\ ToolEffect(run, e).status = "tool_pending"
    BY <1>1, Inside, Domain DEF ToolEffect, RunType
  <2> QED BY <1>3, <2>1, <2>2 DEF Took
<1>6. \A i \in 1..Len(log') : i \in 1..Len(log) \/ i = Len(log) + 1
  BY <1>3
<1>7. Len(log) + 1 \in Requests' /\ \A r \in Requests' : r \in Requests \/ r = Len(log) + 1
  BY <1>1, <1>3, <1>6 DEF Requests, Of
<1> QED BY <1>1, <1>3, <1>4, <1>5, <1>7

\* A verified step is the last event, after a run that was verifying.
LEMMA Verifying ==
    ASSUME IInv, IInv', PassStep
    PROVE  /\ run.status = "verifying" /\ run'.status = "ready" /\ Len(log) \in Nat
           /\ Kept(run, log'[Len(log) + 1], run') /\ log'[Len(log) + 1].step = run.step
           /\ \A i \in StepVerifications' : i \in StepVerifications \/ i = Len(log) + 1
<1> DEFINE e == [type |-> "verification.succeeded", id |-> run.next, seq |-> run.next,
                 scope |-> "step", step |-> run.step]
<1>1. /\ e.type = "verification.succeeded" /\ e.scope = "step" /\ e.step = run.step
      /\ Store(e) /\ run.status = "verifying"
  BY DEF PassStep
<1> HIDE DEF e
<1>2. /\ Took(run, e, run') /\ Len(log) \in Nat /\ Len(log') = Len(log) + 1
      /\ log'[Len(log) + 1] = e /\ \A i \in 1..Len(log) : log'[i] = log[i]
  BY <1>1, StoreTaken
<1>3. Kept(run, e, run')
  BY <1>1, StoreKeeps DEF EventTypes, VerificationTypes
<1>4. run'.status = "ready"
  <2>1. Effect(run, e) = VerificationEffect(run, e)
    BY <1>1, Families DEF VerificationTypes
  <2>2. VerificationEffect(run, e).status = "ready"
    BY <1>1, Inside, Domain DEF VerificationEffect, RunType
  <2> QED BY <1>2, <2>1, <2>2 DEF Took
<1>5. \A i \in 1..Len(log') : i \in 1..Len(log) \/ i = Len(log) + 1
  BY <1>2
<1>6. \A i \in StepVerifications' : i \in StepVerifications \/ i = Len(log) + 1
  BY <1>2, <1>5 DEF StepVerifications, Of
<1> QED BY <1>1, <1>2, <1>3, <1>4, <1>6

\* An outcome is the last event, and a success is the receipt's.
LEMMA Recording ==
    ASSUME IInv, IInv', RecordOutcome
    PROVE  /\ Len(log) \in Nat /\ Len(log') = Len(log) + 1
           /\ Kept(run, log'[Len(log) + 1], run')
           /\ log'[Len(log) + 1].call = agent.action.call
           /\ log'[Len(log) + 1].type = "tool.succeeded" <=> agent.result = "succeeded"
           /\ agent.result = "succeeded" => run'.status = "verifying"
           /\ agent.result # "succeeded" => run'.status = "failed"
           /\ agent.at = "outcome" /\ run.status = "tool_running"
<1> DEFINE type == [succeeded |-> "tool.succeeded", failed |-> "tool.failed",
                    timed_out |-> "tool.timed_out"][agent.result]
           e == OfCall(type, agent.action.call)
<1>1. agent.at = "outcome" /\ agent.result \in Outcomes /\ run.status = "tool_running"
  BY Inside DEF RecordOutcome, At, Agrees, CallIs
<1>2. /\ type \in {"tool.succeeded", "tool.failed", "tool.timed_out"}
      /\ type = "tool.succeeded" <=> agent.result = "succeeded"
  BY <1>1 DEF Outcomes
<1>3. Store(e)
  BY DEF RecordOutcome
<1>4. e.type = type /\ e.call = agent.action.call
  BY DEF OfCall
<1> HIDE DEF type, e
<1>5. /\ Took(run, e, run') /\ Good(run) /\ Len(log) \in Nat
      /\ Len(log') = Len(log) + 1 /\ log'[Len(log) + 1] = e
  BY <1>3, StoreTaken
<1>6. Kept(run, e, run')
  BY <1>2, <1>3, <1>4, StoreKeeps DEF EventTypes, ToolTypes
<1>7. CASE agent.result = "succeeded"
  <2>1. Carried(run, e, Effect(run, e))
    BY <1>2, <1>4, <1>5, <1>7, EffectCarries DEF CarryingTypes
  <2>2. run'.status = "verifying"
    BY <1>2, <1>4, <1>5, <1>7, <2>1 DEF Carried, Leads, Took
  <2> QED BY <1>1, <1>2, <1>4, <1>5, <1>6, <1>7, <2>2
<1>8. CASE agent.result # "succeeded"
  <2>1. Effect(run, e).status = "failed"
    BY <1>2, <1>4, <1>5, <1>8, EffectFails DEF FailingTypes
  <2>2. run'.status = "failed"
    BY <1>5, <2>1 DEF Took
  <2> QED BY <1>1, <1>2, <1>4, <1>5, <1>6, <1>8, <2>2
<1> QED BY <1>7, <1>8

\* Whatever else happens keeps the active call and its step, or ends it.
LEMMA CallStays ==
    ASSUME IInv, IInv', [Next]_vars, ~RequestTool
    PROVE  /\ run'.call = None \/ (run'.call = run.call /\ run'.step = run.step)
           /\ \/ UNCHANGED stored \/ run'.status # "verifying"
              \/ RecordOutcome /\ agent.result = "succeeded" /\ run'.step = run.step
<1>1. CASE UNCHANGED stored
  BY <1>1 DEF stored
<1>2. ASSUME NEW e, Store(e), e.type \in Other
      PROVE  Kept(run, e, run') /\ run'.status # "verifying"
  BY <1>2, StoreKeeps DEF Other, Kept
<1>3. CASE RecordOutcome
  BY <1>3, Recording DEF Kept
<1>4. CASE PassStep
  BY <1>4, Verifying DEF Kept
<1> QED BY <1>1, <1>2, <1>3, <1>4, Stores DEF Kept

-----------------------------------------------------------------------------
(* The invariant is kept, conjunct by conjunct.                            *)

LEMMA RequestsTypedStep ==
    ASSUME IInv, IInv', [Next]_vars, EInv
    PROVE  RequestsTyped'
<1>1. CASE RequestTool
  <2>1. \A r \in Requests : log'[r] = log[r]
    BY LogGrows
  <2> QED BY <1>1, <2>1, Requesting DEF RequestsTyped, EInv
<1>2. CASE ~RequestTool
  <2>1. Requests' = Requests /\ \A r \in Requests : log'[r] = log[r]
    BY <1>2, LogGrows
  <2> QED BY <2>1 DEF RequestsTyped, EInv
<1> QED BY <1>1, <1>2

\* The request RequestOf finds is one of the requests, of that call.
LEMMA Found ==
    ASSUME IInv, run.call # None
    PROVE  \E r \in Requests : log[r] = RequestOf(run.call) /\ log[r].call = run.call
<1>1. ToolRequests(log, run.call) = {i \in Of("tool.requested") : log[i].call = run.call}
  BY DEF ToolRequests, Of
<1>2. Last(ToolRequests(log, run.call)) \in ToolRequests(log, run.call)
  BY LastIsIn DEF IInv, Behind, OnRecord
<1>3. RequestOf(run.call) = log[Last(ToolRequests(log, run.call))]
  BY <1>1 DEF RequestOf
<1> QED BY <1>1, <1>2, <1>3 DEF Requests

LEMMA LastRequestStep ==
    ASSUME IInv, IInv', [Next]_vars, EInv
    PROVE  LastRequestIsNow'
<1>1. CASE RequestTool
  <2>1. IsSequence(log)
    BY DEF IInv, Behind, Current
  <2>2. PICK e : log' = Append(log, e)
    BY <1>1 DEF RequestTool, Store
  <2> DEFINE P == {i \in Requests' : log'[i].call = run'.call}
  <2>3. P \subseteq 1..Len(Append(log, e)) /\ Len(log) + 1 \in P
    BY <1>1, <2>2, Requesting DEF Requests, Of
  <2>4. Last(P) = Len(log) + 1
    BY <2>1, <2>3, RequestStored
  <2>5. RequestOf(run.call)' = log'[Last(P)]
    BY DEF RequestOf, Requests
  <2> HIDE DEF P
  <2> QED BY <1>1, <2>4, <2>5, Requesting DEF LastRequestIsNow
<1>2. CASE ~RequestTool
  <2> SUFFICES ASSUME run'.call # None PROVE RequestOf(run.call)'.step = run'.step
    BY DEF LastRequestIsNow
  <2>1. run'.call = run.call /\ run'.step = run.step /\ run.call # None
    BY <1>2, CallStays
  <2>2. Requests' = Requests /\ \A r \in Requests : log'[r] = log[r]
    BY <1>2, LogGrows
  <2> DEFINE P == {i \in Requests : log[i].call = run.call}
  <2>3. P = {i \in Requests' : log'[i].call = run'.call}
    BY <2>1, <2>2
  <2>4. P = ToolRequests(log, run.call)
    BY DEF ToolRequests, Requests, Of
  <2>5. Last(P) \in Requests
    BY <2>1, <2>4, LastIsIn DEF IInv, Behind, OnRecord
  <2>6. RequestOf(run.call) = log[Last(P)]
    BY DEF RequestOf, Requests
  <2>7. RequestOf(run.call)' = log'[Last(P)]
    BY <2>3 DEF RequestOf, Requests
  <2> HIDE DEF P
  <2>8. RequestOf(run.call)' = RequestOf(run.call)
    BY <2>2, <2>5, <2>6, <2>7
  <2> QED BY <2>1, <2>8 DEF EInv, LastRequestIsNow
<1> QED BY <1>1, <1>2

LEMMA FrameRequestedStep ==
    ASSUME IInv, IInv', [Next]_vars, EInv
    PROVE  FrameRequested'
<1> SUFFICES ASSUME agent'.at \in Calling
             PROVE  \E r \in Requests' :
                        /\ log'[r].call = agent'.action.call /\ log'[r].step = run'.step
                        /\ log'[r].content = agent'.action.content
  BY DEF FrameRequested, RequestedNow
<1>1. Requests \subseteq Requests' /\ \A r \in Requests : log'[r] = log[r]
  BY LogGrows
<1>2. CASE RequestTool
  <2>1. agent'.action = agent.action
    BY <1>2, Inside, Frame DEF RequestTool, Goto
  <2> QED BY <1>2, <2>1, Requesting
<1>3. CASE ~RequestTool
  <2>1. run'.call # None
    <3>1. run'.status \in ToolStatuses
      BY Inside DEF IInv, FrameAgrees, Agrees, CallIs, Calling, InTool, ToolStatuses
    <3> QED BY <3>1 DEF IInv, Behind, Current, Good, FieldsMatchStatus
  <2>2. run'.call = run.call /\ run'.step = run.step /\ run.call # None
    BY <1>3, <2>1, CallStays
  <2>3. CASE agent.at \in Calling /\ agent'.action = agent.action
    BY <1>1, <2>2, <2>3 DEF EInv, FrameRequested, RequestedNow
  <2>4. CASE Recover \/ ReleaseGate
    <3>1. agent'.action = ActionOf(RequestOf(run.call))
      BY <2>4, Frame DEF Recover, ReleaseGate, Execute
    <3>2. PICK r \in Requests : log[r] = RequestOf(run.call) /\ log[r].call = run.call
      BY <2>2, Found
    <3>3. log[r].step = run.step
      BY <2>2, <3>2 DEF EInv, LastRequestIsNow
    <3>4. agent'.action.call = log[r].call /\ agent'.action.content = log[r].content
      BY <3>1, <3>2 DEF ActionOf
    <3> QED BY <1>1, <2>2, <3>3, <3>4
  <2>5. CASE Allow \/ StartTool \/ SaveIntent \/ ReturnReceipt \/ Retry
             \/ \E r \in Outcomes : InvokeTool(r)
    <3>1. agent.at \in Calling /\ agent'.action = agent.action
      BY <2>5, Inside, Frame DEF Allow, StartTool, SaveIntent, ReturnReceipt, Retry, InvokeTool,
         At, Goto, KnownIntent, Calling, InTool
    <3> QED BY <2>3, <3>1
  <2> QED BY <1>3, <2>3, <2>4, <2>5, Moves
<1> QED BY <1>2, <1>3

\* What is written is new: an intent where there was none, a receipt where there was none.
LEMMA Writes ==
    ASSUME IInv, EInv, [Next]_vars
    PROVE  /\ intents' \in [Calls -> Contents \cup {None}]
           /\ \A call \in Calls :
                /\ intents[call] # None => intents'[call] = intents[call]
                /\ receipts[call] # None => receipts'[call] = receipts[call]
                /\ intents'[call] # intents[call] =>
                    /\ SaveIntent /\ call = agent.action.call
                    /\ intents'[call] = agent.action.content /\ intents'[call] # None
                    /\ agent.at = "execute"
                /\ receipts'[call] # receipts[call] =>
                    /\ agent.at = "invoke" /\ call = agent.action.call /\ receipts'[call] # None
                    /\ intents'[call] = intents[call] /\ intents[call] # None
<1>1. receipts \in [Calls -> Outcomes \cup {None}] /\ intents \in [Calls -> Contents \cup {None}]
  BY DEF IInv, EInv
<1>2. CASE UNCHANGED effects
  BY <1>1, <1>2 DEF effects
<1>3. agent.at \in Calling => agent.action.call \in Calls /\ agent.action.content \in Contents
                              /\ agent.action.content # None
  BY LoopAssumption DEF EInv, FrameRequested, RequestedNow, RequestsTyped
<1>4. CASE SaveIntent
  <2>1. /\ receipts' = receipts /\ agent.at = "execute" /\ intents[agent.action.call] = None
        /\ intents' = [intents EXCEPT ![agent.action.call] = agent.action.content]
    BY <1>4 DEF SaveIntent, At
  <2> QED BY <1>1, <1>3, <1>4, <2>1 DEF Calling, InTool
<1>5. ASSUME NEW r \in Outcomes, InvokeTool(r)
      PROVE  /\ intents' = intents /\ agent.at = "invoke" /\ receipts[agent.action.call] = None
             /\ receipts' = [receipts EXCEPT ![agent.action.call] = r]
             /\ intents[agent.action.call] # None /\ r # None
  <2>1. agent.at = "invoke"
    BY <1>5 DEF InvokeTool, At
  <2>2. intents[agent.action.call] # None /\ receipts[agent.action.call] = None
    BY <1>3, <2>1 DEF EInv, FrameStored, Calling, InTool
  <2> QED BY <1>5, <2>1, <2>2, LoopAssumption DEF InvokeTool
<1>6. CASE \E r \in Outcomes : InvokeTool(r)
  BY <1>1, <1>5, <1>6
<1> QED BY <1>2, <1>4, <1>6, EffectsMove

LEMMA RecordsStep ==
    ASSUME IInv, IInv', [Next]_vars, EInv
    PROVE  RecordsRequested'
<1> SUFFICES ASSUME NEW call \in Calls
             PROVE  /\ receipts'[call] # None => intents'[call] # None
                    /\ intents'[call] # None =>
                        \E r \in Requests' : log'[r].call = call /\ log'[r].content = intents'[call]
  BY DEF RecordsRequested
<1>1. Requests \subseteq Requests' /\ \A r \in Requests : log'[r] = log[r]
  BY LogGrows
<1>2. /\ receipts[call] # None => intents[call] # None
      /\ intents[call] # None =>
            \E r \in Requests : log[r].call = call /\ log[r].content = intents[call]
  BY DEF EInv, RecordsRequested
<1>3. receipts'[call] # None => intents'[call] # None
  BY <1>2, Writes
<1>4. CASE intents'[call] = intents[call]
  BY <1>1, <1>2, <1>3, <1>4
<1>5. CASE intents'[call] # intents[call]
  <2>1. /\ call = agent.action.call /\ intents'[call] = agent.action.content
        /\ agent.at = "execute"
    BY <1>5, Writes
  <2>2. \E r \in Requests : log[r].call = call /\ log[r].content = intents'[call]
    BY <2>1 DEF EInv, FrameRequested, RequestedNow, Calling, InTool
  <2> QED BY <1>1, <1>3, <2>2
<1> QED BY <1>4, <1>5

LEMMA FrameStoredStep ==
    ASSUME IInv, IInv', [Next]_vars, EInv
    PROVE  FrameStored'
<1>1. receipts \in [Calls -> Outcomes \cup {None}] /\ intents \in [Calls -> Contents \cup {None}]
  BY DEF IInv, EInv
<1>2. agent.at \in Calling => agent.action.call \in Calls
  BY DEF EInv, FrameRequested, RequestedNow, RequestsTyped
<1>3. \A call \in Calls : receipts[call] # None => intents[call] # None
  BY DEF EInv, RecordsRequested
<1>4. CASE agent'.at \notin {"invoke", "outcome"}
  BY <1>4 DEF FrameStored
<1>5. CASE SaveIntent
  <2>1. /\ agent.at = "execute" /\ intents[agent.action.call] = None /\ receipts' = receipts
        /\ intents' = [intents EXCEPT ![agent.action.call] = agent.action.content]
        /\ agent'.at = "invoke" /\ agent'.action = agent.action
    BY <1>5, Inside, Frame DEF SaveIntent, At, Goto
  <2> QED BY <1>1, <1>2, <1>3, <2>1 DEF FrameStored, Calling, InTool
<1>6. CASE Retry \/ ReturnReceipt
  <2>1. /\ intents' = intents /\ receipts' = receipts /\ agent'.action = agent.action
        /\ intents[agent.action.call] = agent.action.content
        /\ \/ agent'.at = "invoke" /\ receipts[agent.action.call] = None
           \/ agent'.at = "outcome" /\ agent'.result = receipts[agent.action.call]
    BY <1>6, Inside, Frame DEF Retry, ReturnReceipt, KnownIntent, Goto, effects
  <2> QED BY <2>1 DEF FrameStored
<1>7. ASSUME NEW r \in Outcomes, InvokeTool(r) PROVE FrameStored'
  <2>1. /\ agent.at = "invoke" /\ intents' = intents
        /\ receipts' = [receipts EXCEPT ![agent.action.call] = r]
        /\ agent'.at = "outcome" /\ agent'.action = agent.action /\ agent'.result = r
    BY <1>7, Inside, Frame DEF InvokeTool, At
  <2>2. receipts'[agent.action.call] = r
    BY <1>1, <1>2, <2>1 DEF Calling, InTool
  <2> QED BY <2>1, <2>2 DEF EInv, FrameStored
<1>8. CASE agent' = agent /\ agent'.at \in {"invoke", "outcome"}
  <2>1. UNCHANGED effects
    <3>1. ~SaveIntent
      BY <1>8, Inside, Frame DEF SaveIntent, Goto, At
    <3>2. ASSUME NEW r \in Outcomes, InvokeTool(r) PROVE FALSE
      BY <1>8, <3>2, Inside, Frame DEF InvokeTool, At
    <3> QED BY <3>1, <3>2, EffectsMove
  <2> QED BY <1>8, <2>1 DEF EInv, FrameStored, effects
<1>9. CASE RequestTool \/ Allow \/ StartTool \/ Recover \/ ReleaseGate
  <2>1. agent'.at \in {"decide", "start", "execute"}
    BY <1>9, Inside, Frame DEF RequestTool, Allow, StartTool, Recover, ReleaseGate, Goto, Execute
  <2> QED BY <1>4, <2>1
<1> QED BY <1>4, <1>5, <1>6, <1>7, <1>8, <1>9, Moves DEF Calling, InTool

\* Evidence is never taken back.
LEMMA RestsKept ==
    ASSUME IInv, IInv', [Next]_vars, EInv, NEW n, NEW step, Rests(n, step)
    PROVE  Rests(n, step)'
<1>1. /\ Len(log) \in Nat /\ Len(log') \in Nat /\ Len(log) <= Len(log')
      /\ \A i \in 1..Len(log) : log'[i] = log[i]
      /\ Requests \subseteq 1..Len(log) /\ Requests \subseteq Requests'
  BY LogGrows
<1>2. n \in 1..Len(log') /\ log'[n] = log[n] /\ log[n].type = "tool.succeeded"
  BY <1>1 DEF Rests
<1>3. PICK r \in Requests :
        /\ r <= n /\ log[r].step = step /\ log[r].call = log[n].call
        /\ intents[log[r].call] = log[r].content
        /\ receipts[log[r].call] = "succeeded"
  BY DEF Rests
<1>4. log'[r] = log[r] /\ r \in Requests' /\ log[r].call \in Calls /\ log[r].content \in Contents
  BY <1>1, <1>3 DEF EInv, RequestsTyped
<1>5. receipts[log[r].call] # None /\ intents[log[r].call] # None
  BY <1>3, <1>4, LoopAssumption DEF Outcomes
<1>6. intents'[log[r].call] = intents[log[r].call] /\ receipts'[log[r].call] = receipts[log[r].call]
  BY <1>4, <1>5, Writes
<1> QED BY <1>2, <1>3, <1>4, <1>6 DEF Rests

LEMMA StepsRestStep ==
    ASSUME IInv, IInv', [Next]_vars, EInv
    PROVE  StepsRest'
<1>1. /\ Len(log) \in Nat /\ \A i \in 1..Len(log) : log'[i] = log[i]
      /\ Requests \subseteq 1..Len(log) /\ Requests \subseteq Requests'
      /\ StepVerifications \subseteq 1..Len(log)
  BY LogGrows DEF StepVerifications, Of
<1>2. ASSUME run'.status = "verifying" PROVE Rests(Len(log), run.step)'
  <2>1. CASE UNCHANGED stored
    <3>1. Len(log') = Len(log) /\ run'.step = run.step /\ run.status = "verifying"
      BY <1>2, <2>1 DEF stored
    <3>2. PICK n, step : n = Len(log) /\ step = run.step
      OBVIOUS
    <3>3. Rests(n, step)
      BY <3>1, <3>2 DEF EInv, StepsRest
    <3>4. Rests(n, step)'
      BY <3>3, RestsKept
    <3> QED BY <3>1, <3>2, <3>4 DEF Rests
  <2>2. CASE RecordOutcome /\ agent.result = "succeeded" /\ run'.step = run.step
    <3>1. /\ Len(log') = Len(log) + 1 /\ log'[Len(log) + 1].call = agent.action.call
          /\ log'[Len(log) + 1].type = "tool.succeeded" /\ agent.at = "outcome"
      BY <2>2, Recording
    <3>2. UNCHANGED effects
      BY <2>2 DEF RecordOutcome
    <3>3. PICK r \in Requests :
            /\ log[r].call = agent.action.call /\ log[r].content = agent.action.content
            /\ log[r].step = run.step
      BY <3>1 DEF EInv, FrameRequested, RequestedNow, Calling, InTool
    <3>4. intents'[agent.action.call] = agent.action.content
          /\ receipts'[agent.action.call] = "succeeded"
      BY <2>2, <3>1, <3>2 DEF EInv, FrameStored, effects
    <3>5. r \in Requests' /\ log'[r] = log[r] /\ r <= Len(log) + 1
      BY <1>1
    <3>6. Len(log) + 1 \in 1..Len(log) + 1
      BY <1>1
    <3> QED BY <2>2, <3>1, <3>3, <3>4, <3>5, <3>6 DEF Rests
  <2>3. CASE RequestTool
    BY <1>2, <2>3, Requesting
  <2> QED BY <1>2, <2>1, <2>2, <2>3, CallStays
<1>3. ASSUME NEW i \in StepVerifications' PROVE Rests(i - 1, log[i].step)'
  <2>1. CASE i \in StepVerifications
    <3>1. PICK n, step : n = i - 1 /\ step = log[i].step
      OBVIOUS
    <3>2. Rests(n, step)
      BY <2>1, <3>1 DEF EInv, StepsRest
    <3>3. Rests(n, step)'
      BY <3>2, RestsKept
    <3>4. log'[i] = log[i]
      BY <1>1, <2>1
    <3> QED BY <3>1, <3>3, <3>4 DEF Rests
  <2>2. CASE i \notin StepVerifications
    <3>1. PassStep
      BY <1>3, <2>2, LogGrows
    <3>2. i = Len(log) + 1 /\ run.status = "verifying" /\ log'[i].step = run.step
      BY <1>3, <2>2, <3>1, Verifying
    <3>3. PICK n, step : n = Len(log) /\ step = run.step
      OBVIOUS
    <3>4. Rests(n, step)
      BY <3>2, <3>3 DEF EInv, StepsRest
    <3>5. Rests(n, step)'
      BY <3>4, RestsKept
    <3>6. i - 1 = n
      BY <1>1, <3>2, <3>3
    <3> QED BY <3>2, <3>3, <3>5, <3>6 DEF Rests
  <2> QED BY <2>1, <2>2
<1> QED BY <1>2, <1>3 DEF StepsRest

\* A process leaves a request undecided, or a tool it invoked, only by a crash or by an
\* exception.
LEMMA Leaves ==
    ASSUME IInv, [Next]_vars, crashes \in Nat
    PROVE  /\ crashes' \in Nat /\ crashes' >= crashes
           /\ agent.at \in {"decide", "invoke"} =>
                \/ agent' = agent \/ crashes' > 0 \/ Raises
                \/ agent.at = "decide" /\ (Allow \/ Deny \/ \E mode \in GateModes : Escalate(mode))
                \/ agent.at = "invoke" /\ \E r \in Outcomes : InvokeTool(r)
<1>1. CASE UNCHANGED vars
  BY <1>1 DEF vars
<1>2. CASE Crash
  BY <1>2 DEF Crash
<1>3. CASE \/ RunLoop \/ ResumeLoop \/ Recover \/ ReleaseGate \/ CloseGate
           \/ \E entry \in Entries : RunTurn(entry)
  <2>1. agent.at = "idle" /\ crashes' = crashes
    BY <1>3 DEF RunLoop, ResumeLoop, Recover, RunTurn, ReleaseGate, CloseGate, At
  <2> QED BY <2>1
<1>4. CASE FailUnknown \/ LoadPending \/ BuildInput \/ ExhaustBudget \/ BeginAction \/ Ask
  <2>1. agent.at \in {"top", "begin", "ask"} /\ crashes' = crashes
    BY <1>4 DEF FailUnknown, LoadPending, BuildInput, ExhaustBudget, BeginAction, Ask, At
  <2> QED BY <2>1
<1>5. CASE \/ AdapterRaises \/ Persist \/ Complete \/ RequestTool
           \/ \E a \in Actions : AdapterAnswers(a) \/ AdapterMisfits(a)
  <2>1. agent.at \in {"asked", "persist", "dispatch"} /\ crashes' = crashes
    BY <1>5 DEF AdapterRaises, Persist, Complete, RequestTool, AdapterAnswers, AdapterMisfits, At
  <2> QED BY <2>1
<1>6. CASE Allow \/ Deny \/ \E mode \in GateModes : Escalate(mode)
  <2>1. agent.at = "decide" /\ crashes' = crashes
    BY <1>6 DEF Allow, Deny, Escalate, At
  <2> QED BY <1>6, <2>1
<1>7. CASE \/ SaveIntent \/ ReturnReceipt \/ Retry \/ ExecutorRaises \/ RecordOutcome
           \/ PassStep \/ FailStep \/ StartTool
  <2>1. agent.at \in {"start", "execute", "outcome", "verify"} /\ crashes' = crashes
    BY <1>7 DEF SaveIntent, ReturnReceipt, Retry, ExecutorRaises, RecordOutcome, PassStep,
       FailStep, StartTool, At, KnownIntent
  <2> QED BY <2>1
<1>8. CASE \E r \in Outcomes : InvokeTool(r)
  <2>1. agent.at = "invoke" /\ crashes' = crashes
    BY <1>8 DEF InvokeTool, At
  <2> QED BY <1>8, <2>1
<1>9. CASE Raises
  BY <1>9, RaisesEnd
<1> QED BY <1>1, <1>2, <1>3, <1>4, <1>5, <1>6, <1>7, <1>8, <1>9 DEF Next, Step, Supervise, Raises

\* The steps a call may end with.
LEMMA Tells ==
    ASSUME [Next]_vars
    PROVE  \/ returned' = returned
           \/ FailUnknown \/ ExhaustBudget \/ AdapterRaises
           \/ (\E a \in Actions : AdapterMisfits(a)) \/ Complete \/ Deny
           \/ (\E mode \in GateModes : Escalate(mode)) \/ ExecutorRaises \/ RecordOutcome
           \/ PassStep \/ FailStep \/ Raises
<1>1. CASE UNCHANGED vars
  BY <1>1 DEF vars
<1>2. CASE \/ RunLoop \/ ResumeLoop \/ Recover \/ ReleaseGate \/ CloseGate \/ Crash
           \/ \E entry \in Entries : RunTurn(entry)
  BY <1>2 DEF RunLoop, ResumeLoop, Recover, ReleaseGate, CloseGate, Crash, RunTurn, Begin, Execute
<1>3. CASE \/ LoadPending \/ BuildInput \/ BeginAction \/ Ask \/ Persist
           \/ \E a \in Actions : AdapterAnswers(a)
  BY <1>3 DEF LoadPending, BuildInput, BeginAction, Ask, Persist, AdapterAnswers, Goto
<1>4. CASE \/ RequestTool \/ Allow \/ StartTool \/ SaveIntent \/ ReturnReceipt \/ Retry
           \/ \E r \in Outcomes : InvokeTool(r)
  BY <1>4 DEF RequestTool, Allow, StartTool, SaveIntent, ReturnReceipt, Retry, InvokeTool, Goto
<1> QED BY <1>1, <1>2, <1>3, <1>4 DEF Next, Step, Supervise, Raises

\* An exception that ended a call with the tool pending or running stays the last thing
\* that happened until the run gets on.
LEMMA RaisedStays ==
    ASSUME IInv, IInv', [Next]_vars, UNCHANGED stored, Raised,
           run.status \in {"tool_pending", "tool_running"}
    PROVE  Raised'
<1>1. log' = log
  BY DEF stored
<1>2. IsSequence(log) /\ Len(log) \in Nat
  BY AppendFacts DEF IInv, Behind, Current
<1>3. \A e : ~Store(e)
  BY <1>1, <1>2, AppendFacts DEF Store
<1>4. CASE returned' = returned
  BY <1>1, <1>4 DEF Raised
<1>5. CASE Raises \/ ExecutorRaises
  BY <1>5, RaisesEnd DEF ExecutorRaises, Return, Raised
<1>6. ASSUME NEW a \in Actions, AdapterMisfits(a) PROVE FALSE
  BY <1>6, Inside DEF AdapterMisfits, At, Agrees, Ready
<1>7. CASE AdapterRaises
  <2>1. agent.entry # "loop"
    BY <1>3, <1>7 DEF AdapterRaises
  <2> QED BY <1>7, <2>1, Inside DEF AdapterRaises, At, Agrees, Ready
<1>8. ~ (\/ FailUnknown \/ ExhaustBudget \/ Complete \/ Deny \/ RecordOutcome \/ PassStep
         \/ FailStep \/ \E mode \in GateModes : Escalate(mode))
  BY <1>3 DEF FailUnknown, ExhaustBudget, Complete, Deny, RecordOutcome, PassStep, FailStep,
     Escalate
<1> QED BY <1>4, <1>5, <1>6, <1>7, <1>8, Tells

\* While a tool runs, the only thing that is stored is its outcome.
LEMMA Running ==
    ASSUME IInv, [Next]_vars, run.status = "tool_running"
    PROVE  UNCHANGED stored \/ RecordOutcome
<1>1. CASE UNCHANGED vars
  BY <1>1 DEF vars, stored
<1>2. CASE \/ RunLoop \/ ResumeLoop \/ Recover \/ Crash \/ LoadPending \/ BuildInput \/ Ask
           \/ \E entry \in Entries : RunTurn(entry)
  BY <1>2 DEF RunLoop, ResumeLoop, Recover, Crash, RunTurn, LoadPending, BuildInput, Ask
<1>3. CASE \/ SaveIntent \/ ReturnReceipt \/ Retry \/ ExecutorRaises \/ Raises
           \/ \E r \in Outcomes : InvokeTool(r)
  BY <1>3, RaisesEnd DEF SaveIntent, ReturnReceipt, Retry, ExecutorRaises, InvokeTool
<1>4. CASE \E a \in Actions : AdapterAnswers(a) \/ AdapterMisfits(a)
  BY <1>4 DEF AdapterAnswers, AdapterMisfits
<1>5. CASE FailUnknown \/ ExhaustBudget \/ BeginAction \/ Persist \/ Complete
  BY <1>5 DEF FailUnknown, ExhaustBudget, BeginAction, Persist, Complete
<1>6. CASE AdapterRaises \/ RequestTool
  BY <1>6, Inside DEF AdapterRaises, RequestTool, At, Agrees, Ready
<1>7. CASE Allow \/ Deny \/ StartTool \/ \E mode \in GateModes : Escalate(mode)
  BY <1>7, Inside DEF Allow, Deny, StartTool, Escalate, At, Agrees, CallIs
<1>8. CASE PassStep \/ FailStep \/ ReleaseGate \/ CloseGate
  BY <1>8 DEF PassStep, FailStep, ReleaseGate, CloseGate
<1> QED BY <1>1, <1>2, <1>3, <1>4, <1>5, <1>6, <1>7, <1>8 DEF Next, Step, Supervise, Raises

LEMMA LeftBehindStep ==
    ASSUME IInv, IInv', [Next]_vars, EInv
    PROVE  LeftBehind'
<1>1. crashes' \in Nat /\ crashes \in Nat /\ crashes' >= crashes
  BY Leaves DEF EInv
<1>0. Raises => Raised'
  BY RaisesEnd DEF Return, Raised
<1>2. ASSUME run'.status = "tool_pending"
      PROVE  agent'.at = "decide" \/ crashes' > 0 \/ Raised'
  <2>1. CASE RequestTool
    BY <2>1, Inside, Frame DEF RequestTool, Goto
  <2>2. CASE UNCHANGED stored
    <3>1. agent.at = "decide" \/ crashes > 0 \/ Raised
      BY <1>2, <2>2 DEF EInv, LeftBehind, stored
    <3>2. ~ (Allow \/ Deny \/ \E mode \in GateModes : Escalate(mode))
      <4>1. IsSequence(log) /\ Len(log) \in Nat
        BY AppendFacts DEF IInv, Behind, Current
      <4>2. log' = log
        BY <2>2 DEF stored
      <4>3. \A e : ~Store(e)
        BY <4>1, <4>2, AppendFacts DEF Store
      <4> QED BY <4>3 DEF Allow, Deny, Escalate
    <3>3. CASE Raised
      <4>1. run.status = "tool_pending"
        BY <1>2, <2>2 DEF stored
      <4> QED BY <2>2, <3>3, <4>1, RaisedStays
    <3> QED BY <1>0, <1>1, <3>1, <3>2, <3>3, Leaves
  <2>3. ASSUME NEW e, Store(e), e.type \in EventTypes \ {"tool.requested"},
               e.type = "verification.succeeded" => e.scope = "step"
        PROVE  FALSE
    BY <1>2, <2>3, StoreKeeps DEF Kept
  <2>4. CASE RecordOutcome
    BY <1>2, <2>4, Recording
  <2>5. CASE PassStep
    BY <1>2, <2>5, Verifying
  <2> QED BY <2>1, <2>2, <2>3, <2>4, <2>5, Stores DEF Other
<1>3. ASSUME NEW call \in Calls, intents'[call] # None, receipts'[call] = None,
             intents'[call] \notin Idempotent
      PROVE  \/ crashes' > 0
             \/ agent'.at = "invoke" /\ agent'.action.call = call
             \/ run'.status = "tool_running" /\ run'.call = call /\ Raised'
  <2>1. receipts[call] = None
    BY <1>3, Writes
  <2>2. CASE intents'[call] = intents[call]
    <3>1. \/ crashes > 0
          \/ agent.at = "invoke" /\ agent.action.call = call
          \/ run.status = "tool_running" /\ run.call = call /\ Raised
      BY <1>3, <2>1, <2>2 DEF EInv, LeftBehind
    <3>2. ASSUME NEW r \in Outcomes, InvokeTool(r), agent.action.call = call PROVE FALSE
      <4>1. receipts' = [receipts EXCEPT ![call] = r] /\ receipts \in [Calls -> Outcomes \cup {None}]
        BY <3>2 DEF InvokeTool, IInv
      <4> QED BY <1>3, <4>1, LoopAssumption
    <3>3. CASE agent.at = "invoke" /\ agent.action.call = call /\ Raises
      <4>1. run.status = "tool_running" /\ run.call = call
        BY <3>3, Inside DEF Agrees, CallIs
      <4>2. UNCHANGED stored
        BY <3>3, RaisesEnd
      <4> QED BY <1>0, <3>3, <4>1, <4>2 DEF stored
    <3>4. CASE run.status = "tool_running" /\ run.call = call /\ Raised
      <4>1. CASE UNCHANGED stored
        BY <3>4, <4>1, RaisedStays DEF stored
      <4>2. CASE ~UNCHANGED stored
        <5>1. RecordOutcome
          BY <3>4, <4>2, Running
        <5>2. receipts[call] # None
          <6>1. agent.at = "outcome" /\ agent.action.call = call /\ agent.result # None
            BY <3>4, <5>1, Inside, LoopAssumption DEF RecordOutcome, At, Agrees, CallIs
          <6> QED BY <6>1 DEF EInv, FrameStored
        <5> QED BY <2>1, <5>2
      <4> QED BY <4>1, <4>2
    <3> QED BY <1>1, <3>1, <3>2, <3>3, <3>4, Leaves
  <2>3. CASE intents'[call] # intents[call]
    <3>1. SaveIntent /\ call = agent.action.call
      BY <1>3, <2>3, Writes
    <3>2. agent'.at = "invoke" /\ agent'.action = agent.action
      BY <3>1, Inside, Frame DEF SaveIntent, Goto
    <3> QED BY <3>1, <3>2
  <2> QED BY <2>2, <2>3
<1> QED BY <1>2, <1>3 DEF LeftBehind

LEMMA EvidenceInvariant == Spec => []EInv
<1>1. Init => EInv
  <2> SUFFICES ASSUME Init PROVE EInv
    OBVIOUS
  <2>1. run.call = None /\ run.status = "ready"
    BY Starting, NoneAssumption DEF Init, Good, FieldsMatchStatus, ToolStatuses
  <2>2. Requests = {} /\ StepVerifications = {}
    <3>1. log = <<Created, Started>> /\ Len(log) = 2
      BY DEF Init
    <3>2. \A i \in 1..Len(log) : log[i].type \in {"run.created", "run.started"}
      BY <3>1 DEF Created, Started
    <3> QED BY <3>2 DEF Requests, Of, StepVerifications
  <2> QED BY <2>1, <2>2, Frame DEF Init, EInv, LastRequestIsNow, RequestsTyped, FrameRequested,
             RecordsRequested, FrameStored, StepsRest, LeftBehind, Calling, InTool
<1>2. IInv /\ IInv' /\ EInv /\ [Next]_vars => EInv'
  <2> SUFFICES ASSUME IInv, IInv', EInv, [Next]_vars PROVE EInv'
    OBVIOUS
  <2>1. intents' \in [Calls -> Contents \cup {None}]
    BY Writes
  <2>2. crashes' \in Nat
    BY Leaves DEF EInv
  <2> QED BY <2>1, <2>2, LastRequestStep, RequestsTypedStep, FrameRequestedStep, RecordsStep,
             FrameStoredStep, StepsRestStep, LeftBehindStep DEF EInv
<1> QED BY <1>1, <1>2, Invariant, PTL DEF Spec

\* Every verified step rests on the durable receipt of a success of what was requested in
\* that step, for every model, policy and number of crashes, also when a recovered
\* process or a reused call id brought the receipt.
THEOREM EvidenceCorrect == Spec => []EvidenceFitsRequest
<1>1. ASSUME IInv, EInv PROVE EvidenceFitsRequest
  <2> SUFFICES ASSUME NEW i \in StepVerifications
               PROVE  \E r \in Of("tool.requested") :
                        /\ r < i /\ log[r].step = log[i].step
                        /\ log[i-1].type = "tool.succeeded" /\ log[i-1].call = log[r].call
                        /\ intents[log[r].call] = log[r].content
                        /\ receipts[log[r].call] = "succeeded"
    BY DEF EvidenceFitsRequest
  <2>1. Rests(i - 1, log[i].step)
    BY <1>1 DEF EInv, StepsRest
  <2>2. i \in Nat /\ Requests \subseteq Nat
    <3>1. Len(log) \in Nat
      BY <1>1, AppendFacts DEF IInv, Behind, Current
    <3> QED BY <3>1 DEF StepVerifications, Requests, Of
  <2>3. \A r \in Requests : r <= i - 1 => r < i
    BY <2>2
  <2> QED BY <2>1, <2>3 DEF Rests, Requests
<1> QED BY <1>1, Invariant, EvidenceInvariant, PTL

\* A run nobody can take further was stranded by a crash or an exception, between a
\* request and its decision or inside a tool that may not be repeated, or by a call id
\* that was used for two contents; no call that returned leaves one behind.
THEOREM StrandedCorrect == Spec => []StrandedHasCause
<1>1. ASSUME IInv, EInv, Stranded
      PROVE  \/ run.status = "tool_pending" /\ (crashes > 0 \/ Raised)
             \/ /\ run.status = "tool_running"
                /\ \/ /\ crashes > 0 \/ Raised
                      /\ RequestOf(run.call).content \notin Idempotent
                   \/ ReusedForOther(run.call)
  <2>1. CASE At("idle") /\ run.status = "tool_pending"
    BY <1>1, <2>1 DEF At, EInv, LeftBehind
  <2>2. CASE /\ At("idle") \/ At("execute")
             /\ run.status = "tool_running"
             /\ Unexecutable(run.call, RequestOf(run.call).content)
    <3>1. run.call \in Calls /\ run.call # None
      BY <1>1, <2>2, Inside DEF RunType, FieldsMatchStatus, ToolStatuses
    <3>2. PICK r \in Requests : log[r] = RequestOf(run.call) /\ log[r].call = run.call
      BY <1>1, <3>1, Found
    <3>3. CASE intents[run.call] # log[r].content
      <4>1. intents[run.call] # None
        BY <2>2 DEF Unexecutable
      <4>2. PICK j \in Requests : log[j].call = run.call /\ log[j].content = intents[run.call]
        BY <1>1, <3>1, <4>1 DEF EInv, RecordsRequested
      <4>3. ReusedForOther(run.call)
        BY <3>2, <3>3, <4>2 DEF ReusedForOther, Requests
      <4> QED BY <2>2, <4>3
    <3>4. CASE intents[run.call] = log[r].content
      <4>1. /\ intents[run.call] # None /\ receipts[run.call] = None
            /\ intents[run.call] \notin Idempotent
            /\ RequestOf(run.call).content \notin Idempotent
        BY <2>2, <3>2, <3>4 DEF Unexecutable
      <4>2. crashes > 0 \/ Raised
        BY <1>1, <2>2, <3>1, <4>1 DEF At, EInv, LeftBehind
      <4> QED BY <2>2, <4>1, <4>2
    <3> QED BY <3>3, <3>4
  <2> QED BY <1>1, <2>1, <2>2 DEF Stranded
<1>2. IInv /\ EInv => StrandedHasCause
  BY <1>1 DEF StrandedHasCause
<1> QED BY <1>2, Invariant, EvidenceInvariant, PTL

-----------------------------------------------------------------------------
(* What callers are told.                                                  *)

TurnEntries == {"loop", "tool_turn", "completion_turn"}

\* Up to a decision, and in a verification, the process works for a caller of the agent.
FrameEntry ==
    /\ agent.at \in {"top", "begin", "ask", "asked", "persist", "dispatch", "decide"} =>
            agent.entry \in TurnEntries
    /\ agent.at = "verify" => agent.entry # "operator"

Told == FrameEntry /\ returned.length \in Nat /\ returned.length <= Len(log) /\ ReturnsAgree

LEMMA FrameEntryStep ==
    ASSUME IInv, FrameEntry, [Next]_vars
    PROVE  FrameEntry'
<1> USE DEF FrameEntry
<1>1. CASE UNCHANGED vars \/ CloseGate
  BY <1>1 DEF vars, CloseGate
<1>2. CASE \/ RunLoop \/ ResumeLoop \/ Recover \/ ReleaseGate \/ Crash
           \/ \E entry \in Entries : RunTurn(entry)
  BY <1>2, Frame, LoopAssumption DEF RunLoop, ResumeLoop, Recover, ReleaseGate, Crash, RunTurn,
     Begin, Execute, TurnEntries
<1>3. CASE FailUnknown \/ AdapterRaises \/ ExhaustBudget \/ Deny \/ ExecutorRaises \/ Raises
           \/ (\E mode \in GateModes : Escalate(mode)) \/ \E a \in Actions : AdapterMisfits(a)
  BY <1>3, EndsIdle, RaisesEnd
     DEF FailUnknown, AdapterRaises, ExhaustBudget, Deny, ExecutorRaises, Escalate, AdapterMisfits
<1>4. CASE LoadPending \/ BuildInput \/ Persist \/ \E a \in Actions : AdapterAnswers(a)
  BY <1>4, Inside, Frame DEF LoadPending, BuildInput, Persist, AdapterAnswers, At
<1>5. CASE BeginAction \/ Ask \/ RequestTool \/ Allow \/ StartTool \/ SaveIntent \/ Retry
  BY <1>5, Inside, Frame DEF BeginAction, Ask, RequestTool, Allow, StartTool, SaveIntent, Retry,
     Goto, At
<1>6. CASE Complete \/ RecordOutcome \/ PassStep \/ FailStep
  BY <1>6, EndsIdle, Inside, Frame DEF Complete, RecordOutcome, PassStep, FailStep, Goto, At,
     TurnEntries
<1>7. CASE ReturnReceipt \/ \E r \in Outcomes : InvokeTool(r)
  BY <1>7, Inside, Frame DEF ReturnReceipt, InvokeTool
<1> QED BY <1>1, <1>2, <1>3, <1>4, <1>5, <1>6, <1>7 DEF Next, Step, Supervise, Raises

ToldRight ==
    /\ returned'.length = Len(log')
    /\ Fitting(returned'.entry, returned'.outcome, run'.status)

LEMMA ReturnsFitting ==
    ASSUME NEW outcome, Return(outcome), Fitting(agent.entry, outcome, run'.status)
    PROVE  ToldRight
BY DEF Return, ToldRight

LEMMA EndsFitting ==
    ASSUME NEW outcome, Ended(outcome),
           agent.entry = "loop" => Fitting("loop", outcome, run'.status),
           agent.entry = "operator" => Fitting("operator", "executed", run'.status),
           agent.entry \notin {"loop", "operator"} => Fitting(agent.entry, "raised", run'.status)
    PROVE  ToldRight
<1>1. CASE agent.entry = "loop"
  BY <1>1, ReturnsFitting DEF Ended
<1>2. CASE agent.entry = "operator"
  BY <1>2, ReturnsFitting DEF Ended
<1>3. CASE agent.entry \notin {"loop", "operator"}
  BY <1>3, ReturnsFitting DEF Ended
<1> QED BY <1>1, <1>2, <1>3

LEMMA StoreFails ==
    ASSUME IInv, IInv', NEW e, Store(e), e.type \in FailingTypes
    PROVE  run'.status = "failed"
<1>1. Took(run, e, run') /\ Good(run)
  BY StoreTaken
<1> QED BY <1>1, EffectFails DEF Took

\* An answer that is not a tool call ends the turn the way the verifier decides.
LEMMA Completing ==
    ASSUME IInv, IInv', Complete
    PROVE  run'.status = IF Accepts(agent.action.answer, agent.context)
                         THEN "completed" ELSE "ready"
<1> DEFINE accepted == Accepts(agent.action.answer, agent.context)
           e == [type |-> IF accepted THEN "completion.accepted" ELSE "completion.rejected",
                 id |-> run.next, seq |-> run.next, step |-> agent.context.step,
                 action |-> run.action, answer |-> agent.action.answer]
<1>1. e.type = IF accepted THEN "completion.accepted" ELSE "completion.rejected"
  OBVIOUS
<1>2. Store(e)
  BY DEF Complete
<1> HIDE DEF e, accepted
<1>3. Took(run, e, run')
  BY <1>2, StoreTaken
<1>4. Effect(run, e) = CompletionEffect(run, e)
  BY <1>1, Families DEF CompletionTypes
<1>5. CompletionEffect(run, e).status = (IF accepted THEN "completed" ELSE "ready")
  BY <1>1, Inside, Domain DEF CompletionEffect, CloseModel, RunType
<1> QED BY <1>3, <1>4, <1>5 DEF Took, accepted

LEMMA TellsFitting ==
    ASSUME IInv, IInv', FrameEntry, [Next]_vars, returned' # returned
    PROVE  ToldRight
<1>1. CASE FailUnknown
  <2>1. run'.status = "failed"
    BY <1>1, StoreFails DEF FailUnknown, Plain, FailingTypes
  <2>2. Fitting(agent.entry, "failed", run'.status)
    BY <2>1 DEF Fitting
  <2> QED BY <1>1, <2>2, ReturnsFitting DEF FailUnknown
<1>2. CASE ExhaustBudget
  <2>1. run'.status = "failed"
    <3> DEFINE e == [type |-> "run.step_budget_exhausted", id |-> run.next, seq |-> run.next,
                     max |-> run.max, completed |-> run.turn]
    <3>1. Store(e) /\ e.type \in FailingTypes
      BY <1>2 DEF ExhaustBudget, FailingTypes
    <3> QED BY <3>1, StoreFails
  <2>2. /\ Fitting("loop", "failed", run'.status) /\ Fitting("operator", "executed", run'.status)
        /\ agent.entry \notin {"loop", "operator"} => Fitting(agent.entry, "raised", run'.status)
    BY <2>1 DEF Fitting
  <2>3. Ended("failed")
    BY <1>2 DEF ExhaustBudget
  <2> QED BY <2>2, <2>3, EndsFitting
<1>3. CASE AdapterRaises
  <2>1. agent.at = "asked" /\ agent.entry \in TurnEntries /\ Ended("failed")
    BY <1>3 DEF AdapterRaises, At, FrameEntry
  <2>2. CASE agent.entry = "loop"
    <3>1. Plain("model.action_failed").type \in FailingTypes
      BY DEF Plain, FailingTypes
    <3>2. run'.status = "failed"
      BY <1>3, <2>2, <3>1, StoreFails DEF AdapterRaises
    <3>3. Fitting("loop", "failed", run'.status)
      BY <3>2 DEF Fitting
    <3> QED BY <2>1, <2>2, <3>3, EndsFitting
  <2>3. CASE agent.entry # "loop"
    <3>1. run'.status = "ready"
      BY <1>3, <2>1, <2>3, Inside DEF AdapterRaises, KeepStored, stored, Agrees, Ready
    <3>2. agent.entry \notin {"loop", "operator"} /\ Fitting(agent.entry, "raised", run'.status)
      BY <2>1, <2>3, <3>1 DEF Fitting, TurnEntries
    <3> QED BY <2>1, <3>2, EndsFitting
  <2> QED BY <2>2, <2>3
<1>4. ASSUME NEW a \in Actions, AdapterMisfits(a)
      PROVE  ToldRight
  <2>1. /\ agent.at = "asked" /\ agent.entry \in TurnEntries \ {"loop"} /\ Return("raised")
        /\ UNCHANGED stored
    BY <1>4 DEF AdapterMisfits, At, FrameEntry, Fits
  <2>2. run'.status = "ready"
    BY <2>1, Inside DEF stored, Agrees, Ready
  <2>3. Fitting(agent.entry, "raised", run'.status)
    BY <2>1, <2>2 DEF Fitting, TurnEntries
  <2> QED BY <2>1, <2>3, ReturnsFitting
<1>5. CASE Complete
  <2>1. run'.status \in {"ready", "completed"}
        /\ (Accepts(agent.action.answer, agent.context) => run'.status = "completed")
    BY <1>5, Completing
  <2>2. \/ Return("turn")
        \/ Accepts(agent.action.answer, agent.context) /\ Return("completed")
    BY <1>5 DEF Complete, Goto
  <2>3. Fitting(agent.entry, "turn", run'.status)
    BY <2>1 DEF Fitting
  <2>4. Accepts(agent.action.answer, agent.context) =>
            Fitting(agent.entry, "completed", run'.status)
    BY <2>1 DEF Fitting
  <2> QED BY <2>2, <2>3, <2>4, ReturnsFitting
<1>6. CASE Deny
  <2>1. run'.status = "failed"
    BY <1>6, StoreFails DEF Deny, OfCall, FailingTypes
  <2>2. agent.entry \in TurnEntries /\ Ended("failed")
    BY <1>6 DEF Deny, At, FrameEntry
  <2>3. /\ Fitting("loop", "failed", run'.status) /\ agent.entry # "operator"
        /\ agent.entry # "loop" => Fitting(agent.entry, "raised", run'.status)
    BY <2>1, <2>2 DEF Fitting, TurnEntries
  <2> QED BY <2>2, <2>3, EndsFitting
<1>7. ASSUME NEW mode \in GateModes, Escalate(mode)
      PROVE  ToldRight
  <2> DEFINE e == [type |-> "tool.escalated", id |-> run.next, seq |-> run.next,
                   call |-> agent.action.call, digest |-> Digest(agent.action.call),
                   revision |-> 1, mode |-> mode, max |-> 1]
  <2>1. Store(e) /\ e.type = "tool.escalated"
    BY <1>7 DEF Escalate
  <2> HIDE DEF e
  <2>2. Took(run, e, run') /\ Good(run)
    BY <2>1, StoreTaken
  <2>3. run'.status = "awaiting_gate"
    BY <2>1, <2>2, EffectCarries DEF CarryingTypes, Carried, Leads, Took
  <2>4. agent.entry \in TurnEntries /\ Ended("paused")
    BY <1>7 DEF Escalate, At, FrameEntry
  <2>5. /\ Fitting("loop", "paused", run'.status) /\ agent.entry # "operator"
        /\ agent.entry # "loop" => Fitting(agent.entry, "raised", run'.status)
    BY <2>3, <2>4 DEF Fitting, TurnEntries
  <2> QED BY <2>4, <2>5, EndsFitting
<1>8. CASE ExecutorRaises
  <2>1. run'.status = "tool_running" /\ Return("raised")
    BY <1>8, Inside DEF ExecutorRaises, At, stored, Agrees, CallIs
  <2>2. Fitting(agent.entry, "raised", run'.status)
    BY <2>1 DEF Fitting
  <2> QED BY <2>1, <2>2, ReturnsFitting
<1>9. CASE RecordOutcome
  <2>1. CASE agent.result = "succeeded"
    <3>1. run'.status = "verifying"
      BY <1>9, <2>1, Recording
    <3>2. agent.entry = "operator" /\ Ended("failed")
      BY <1>9, <2>1 DEF RecordOutcome, Goto
    <3>3. Fitting("operator", "executed", run'.status)
      BY <3>1 DEF Fitting
    <3> QED BY <3>2, <3>3, EndsFitting
  <2>2. CASE agent.result # "succeeded"
    <3>1. run'.status = "failed"
      BY <1>9, <2>2, Recording
    <3>2. Ended("failed")
      BY <1>9, <2>2 DEF RecordOutcome
    <3>3. /\ Fitting("loop", "failed", run'.status) /\ Fitting("operator", "executed", run'.status)
          /\ agent.entry \notin {"loop", "operator"} => Fitting(agent.entry, "raised", run'.status)
      BY <3>1 DEF Fitting
    <3> QED BY <3>2, <3>3, EndsFitting
  <2> QED BY <2>1, <2>2
<1>10. CASE PassStep
  <2>1. run'.status = "ready" /\ Return("turn")
    BY <1>10, Verifying DEF PassStep, Goto
  <2>2. Fitting(agent.entry, "turn", run'.status)
    BY <2>1 DEF Fitting
  <2> QED BY <2>1, <2>2, ReturnsFitting
<1>11. CASE FailStep
  <2>1. run'.status = "failed"
    BY <1>11, StoreFails DEF FailStep, Plain, FailingTypes
  <2>2. Return("failed") \/ Return("turn")
    BY <1>11 DEF FailStep
  <2>3. Fitting(agent.entry, "failed", run'.status) /\ Fitting(agent.entry, "turn", run'.status)
    BY <2>1 DEF Fitting
  <2> QED BY <2>2, <2>3, ReturnsFitting
<1>12. CASE Raises
  <2>1. UNCHANGED stored /\ Return("raised")
    BY <1>12, RaisesEnd
  <2>2. Fitting(agent.entry, "raised", run'.status)
    <3>1. CASE AuthorizeRaises
      <4>1. run'.status = "tool_pending" /\ agent.entry \in TurnEntries
        BY <2>1, <3>1, Inside DEF AuthorizeRaises, At, stored, Agrees, CallIs, FrameEntry
      <4> QED BY <4>1 DEF Fitting, TurnEntries
    <3>2. CASE OutputRefused
      <4>1. run'.status = "tool_running"
        BY <2>1, <3>2, Inside DEF OutputRefused, At, stored, Agrees, CallIs
      <4> QED BY <4>1 DEF Fitting
    <3>3. CASE ExpectationRaises
      <4>1. run'.status = "verifying" /\ agent.entry = "loop"
        BY <2>1, <3>3, Inside DEF ExpectationRaises, At, stored, Agrees
      <4> QED BY <4>1 DEF Fitting
    <3> QED BY <1>12, <3>1, <3>2, <3>3 DEF Raises
  <2> QED BY <2>1, <2>2, ReturnsFitting
<1> QED BY <1>1, <1>2, <1>3, <1>4, <1>5, <1>6, <1>7, <1>8, <1>9, <1>10, <1>11, <1>12, Tells

\* Whenever a call of the loop, a one-turn entry point or a recovery ends, what its caller
\* is told is what the log says, and stays so until the log grows: for every model,
\* policy and number of crashes.
THEOREM ReturnsCorrect == Spec => []ReturnsAgree
<1>1. Init => Told
  <2> SUFFICES ASSUME Init PROVE Told
    OBVIOUS
  <2>1. returned.length = 0 /\ Len(log) = 2
    BY DEF Init, Nothing
  <2> QED BY <2>1, Frame DEF Init, Told, FrameEntry, ReturnsAgree
<1>2. IInv /\ IInv' /\ Told /\ [Next]_vars => Told'
  <2> SUFFICES ASSUME IInv, IInv', Told, [Next]_vars PROVE Told'
    OBVIOUS
  <2>1. FrameEntry'
    BY FrameEntryStep DEF Told
  <2>2. Len(log) \in Nat /\ Len(log') \in Nat /\ Len(log) <= Len(log')
    BY LogGrows
  <2>3. CASE returned' # returned
    <3>1. /\ returned'.length = Len(log')
          /\ Fitting(returned'.entry, returned'.outcome, run'.status)
      BY <2>3, TellsFitting DEF Told, ToldRight
    <3>2. ReturnsAgree'
      BY <3>1 DEF ReturnsAgree
    <3> QED BY <2>1, <2>2, <3>1, <3>2 DEF Told
  <2>4. CASE returned' = returned
    <3>1. returned'.length \in Nat /\ returned'.length <= Len(log')
      BY <2>2, <2>4 DEF Told
    <3>2. CASE UNCHANGED stored
      BY <2>1, <2>4, <3>1, <3>2 DEF Told, ReturnsAgree, stored
    <3>3. CASE returned'.length # Len(log')
      BY <2>1, <3>1, <3>3 DEF Told, ReturnsAgree
    <3>4. ASSUME NEW e, Store(e) PROVE returned'.length # Len(log')
      <4>1. Len(log') = Len(log) + 1
        BY <3>4, StoreTaken
      <4> QED BY <2>2, <2>4, <4>1 DEF Told
    <3>5. UNCHANGED stored \/ \E e : Store(e)
      BY Stores DEF RequestTool, RecordOutcome, PassStep
    <3> QED BY <3>2, <3>3, <3>4, <3>5
  <2> QED BY <2>3, <2>4
<1>3. Told => ReturnsAgree
  BY DEF Told
<1> QED BY <1>1, <1>2, <1>3, Invariant, PTL DEF Spec

-----------------------------------------------------------------------------
(* Types.                                                                  *)

LEMMA HasGreatest ==
    ASSUME NEW n \in Nat, NEW P, P \subseteq 1..n, P # {}
    PROVE  HasLast(P)
BY LastPosition DEF HasLast

LEMMA ObservationTyped ==
    ASSUME IInv
    PROVE  Observation \in Nat /\ Context \in Contexts
<1>1. Len(log) \in Nat
  BY AppendFacts DEF IInv, Behind, Current
<1>2. StepVerifications \subseteq 1..Len(log)
  BY DEF StepVerifications, Of
<1>3. StepVerifications # {} => Last(StepVerifications) \in 1..Len(log)
  BY <1>1, <1>2, HasGreatest, LastIsIn
<1>4. Observation \in Nat
  BY <1>1, <1>3 DEF Observation
<1>5. run.turn \in Nat
  BY Inside DEF RunType
<1> QED BY <1>4, <1>5 DEF Context, Contexts

\* What was requested is an action a model may propose.
LEMMA RequestTyped ==
    ASSUME EInv, NEW r \in Requests
    PROVE  ActionOf(log[r]) \in Actions
<1>1. log[r].call \in Calls /\ log[r].content \in Contents
  BY DEF EInv, RequestsTyped
<1> QED BY <1>1 DEF ActionOf, Actions, ToolCalls

LEMMA RequestOfTyped ==
    ASSUME IInv, EInv, run.status \in ToolStatuses
    PROVE  ActionOf(RequestOf(run.call)) \in Actions
<1>1. run.call # None
  BY Inside DEF FieldsMatchStatus
<1> QED BY <1>1, Found, RequestTyped

\* The request a verifying run was made for is still the last of its step.
LEMMA StepRequestTyped ==
    ASSUME IInv, EInv, run.status = "verifying"
    PROVE  ActionOf(StepRequest) \in Actions
<1> DEFINE P == {i \in Of("tool.requested") : log[i].step = run.step}
<1>1. Len(log) \in Nat
  BY AppendFacts DEF IInv, Behind, Current
<1>2. P \subseteq 1..Len(log)
  BY DEF Of
<1>3. P # {}
  BY DEF EInv, StepsRest, Rests, Requests
<1>4. Last(P) \in P
  BY <1>1, <1>2, <1>3, HasGreatest, LastIsIn
<1>5. Last(P) \in Requests
  BY <1>4 DEF Requests
<1> QED BY <1>5, RequestTyped DEF StepRequest

LogTyped ==
    \A i \in 1..Len(log) : log[i].seq = i /\ log[i].id = i /\ log[i].type \in EventTypes

Frames == [at : Places, entry : {"none", "operator"} \cup Entries,
           context : Contexts \cup {None}, action : Actions \cup {None},
           event : Nat, result : Outcomes \cup {None}]

Typed == LogTyped /\ agent \in Frames /\ seen \in [Turns -> Contexts \cup {None}]

LEMMA LogTypedStep ==
    ASSUME IInv, IInv', LogTyped, [Next]_vars
    PROVE  LogTyped'
<1>1. ASSUME NEW e, Store(e), e.type \in EventTypes, Numbered(e)
      PROVE  LogTyped'
  <2>1. /\ Len(log) \in Nat /\ Len(log') = Len(log) + 1 /\ log'[Len(log) + 1] = e
        /\ \A i \in 1..Len(log) : log'[i] = log[i]
    BY <1>1, StoreTaken
  <2>2. run.next = Len(log) + 1
    BY DEF IInv, Behind, Current
  <2> QED BY <1>1, <2>1, <2>2 DEF LogTyped, Numbered
<1>2. CASE UNCHANGED stored
  BY <1>2 DEF LogTyped, stored
<1>3. CASE RequestTool
  <2> DEFINE e == [type |-> "tool.requested", id |-> run.next, seq |-> run.next,
                   call |-> agent.action.call, content |-> agent.action.content,
                   step |-> agent.context.step, action |-> agent.event]
  <2>1. Store(e)
    BY <1>3 DEF RequestTool
  <2>2. e.type \in EventTypes /\ Numbered(e)
    BY DEF EventTypes, ToolTypes, Numbered
  <2> HIDE DEF e
  <2> QED BY <1>1, <2>1, <2>2
<1>4. CASE RecordOutcome
  <2>1. PICK type \in {"tool.succeeded", "tool.failed", "tool.timed_out"} :
            Store(OfCall(type, agent.action.call))
    <3>1. agent.result \in Outcomes
      BY <1>4, Inside DEF RecordOutcome, At, Agrees
    <3> QED BY <1>4, <3>1 DEF RecordOutcome, Outcomes
  <2>2. /\ OfCall(type, agent.action.call).type \in EventTypes
        /\ Numbered(OfCall(type, agent.action.call))
    BY DEF OfCall, EventTypes, ToolTypes, Numbered
  <2> QED BY <1>1, <2>1, <2>2
<1>5. CASE PassStep
  <2> DEFINE e == [type |-> "verification.succeeded", id |-> run.next, seq |-> run.next,
                   scope |-> "step", step |-> run.step]
  <2>1. Store(e)
    BY <1>5 DEF PassStep
  <2>2. e.type \in EventTypes /\ Numbered(e)
    BY DEF EventTypes, VerificationTypes, Numbered
  <2> HIDE DEF e
  <2> QED BY <1>1, <2>1, <2>2
<1> QED BY <1>1, <1>2, <1>3, <1>4, <1>5, Stores DEF Other

LEMMA IdleTyped == Idle \in Frames
BY DEF Idle, Frames, Places

LEMMA FrameTypedStep ==
    ASSUME IInv, IInv', EInv, agent \in Frames, [Next]_vars
    PROVE  agent' \in Frames
<1> USE DEF Places
<1>1. CASE UNCHANGED vars \/ CloseGate
  BY <1>1 DEF vars, CloseGate
<1>2. CASE RunLoop \/ \E entry \in Entries : RunTurn(entry)
  <2>1. PICK entry \in Entries : agent' = [Idle EXCEPT !.at = "top", !.entry = entry]
    BY <1>2 DEF RunLoop, RunTurn, Begin
  <2> QED BY <2>1, IdleTyped DEF Frames
<1>3. CASE ResumeLoop
  <2> DEFINE context == [step |-> run.step, turn |-> run.turn, observation |-> Observation]
  <2>1. context \in Contexts
    BY Inside, ObservationTyped DEF RunType, Contexts
  <2>2. ActionOf(StepRequest) \in Actions /\ "loop" \in Entries
    BY <1>3, StepRequestTyped DEF ResumeLoop
  <2>3. /\ RecoveredReceipt \in Outcomes
        /\ agent' = [Idle EXCEPT !.at = "verify", !.entry = "loop", !.context = context,
                        !.action = ActionOf(StepRequest), !.result = RecoveredReceipt]
    BY <1>3 DEF ResumeLoop, Outcomes
  <2> HIDE DEF context
  <2> QED BY <2>1, <2>2, <2>3, IdleTyped DEF Frames
<1>4. CASE Recover \/ ReleaseGate
  <2>1. ActionOf(RequestOf(run.call)) \in Actions
    BY <1>4, RequestOfTyped DEF Recover, ReleaseGate, At, ToolStatuses
  <2>2. PICK place \in Places : agent' = [Idle EXCEPT !.at = place, !.entry = "operator",
                                             !.action = ActionOf(RequestOf(run.call))]
    BY <1>4 DEF Recover, ReleaseGate, Execute
  <2> QED BY <2>1, <2>2, IdleTyped DEF Frames
<1>5. CASE Crash
  BY <1>5, IdleTyped DEF Crash
<1>6. CASE \/ FailUnknown \/ AdapterRaises \/ ExhaustBudget \/ Deny \/ ExecutorRaises \/ FailStep
           \/ (\E mode \in GateModes : Escalate(mode)) \/ Raises
           \/ \E a \in Actions : AdapterMisfits(a)
  BY <1>6, IdleTyped, RaisesEnd
     DEF FailUnknown, AdapterRaises, ExhaustBudget, Deny, ExecutorRaises, FailStep, Escalate,
         AdapterMisfits, Ended, Return
<1>7. CASE LoadPending
  <2>1. run.status = "action_pending" /\ run.invocation # 0 /\ run.action \in Nat
    BY <1>7, Inside DEF LoadPending, FieldsMatchStatus, RunType
  <2>2. PendingContext \in Contexts
    BY <2>1, ObservationTyped DEF IInv, Behind, OnRecord
  <2>3. PendingAction \in Actions
    <3>1. run.turn \in Turns
      BY <2>1, TurnInBudget DEF IInv
    <3> QED BY <2>1, <3>1 DEF IInv, Behind, TurnsMatch, Turned
  <2> QED BY <1>7, <2>1, <2>2, <2>3 DEF LoadPending, Frames
<1>8. CASE BuildInput
  BY <1>8, ObservationTyped DEF BuildInput, Frames
<1>9. CASE Persist
  <2>1. run.next \in Nat
    BY Inside
  <2> QED BY <1>9, <2>1 DEF Persist, Frames
<1>10. ASSUME NEW a \in Actions, AdapterAnswers(a)
       PROVE  agent' \in Frames
  BY <1>10 DEF AdapterAnswers, Frames
<1>11. CASE \/ BeginAction \/ Ask \/ RequestTool \/ Allow \/ StartTool \/ SaveIntent \/ Retry
  <2>1. PICK place \in Places : agent' = [agent EXCEPT !.at = place]
    BY <1>11 DEF BeginAction, Ask, RequestTool, Allow, StartTool, SaveIntent, Retry, Goto
  <2> QED BY <2>1 DEF Frames
<1>12. CASE Complete \/ RecordOutcome \/ PassStep
  <2>1. agent' = Idle \/ \E place \in Places : agent' = [agent EXCEPT !.at = place]
    BY <1>12 DEF Complete, RecordOutcome, PassStep, Goto, Ended, Return
  <2> QED BY <2>1, IdleTyped DEF Frames
<1>13. CASE ReturnReceipt \/ \E r \in Outcomes : InvokeTool(r)
  <2>1. PICK r : agent' = [agent EXCEPT !.at = "outcome", !.result = r]
    BY <1>13 DEF ReturnReceipt, InvokeTool
  <2>2. agent'.at = "outcome" /\ agent'.result = r
    BY <2>1 DEF Frames
  <2>3. r \in Outcomes
    BY <2>2, Inside, <2>1 DEF IInv, FrameAgrees, Agrees
  <2> QED BY <2>1, <2>3 DEF Frames
<1> QED BY <1>1, <1>2, <1>3, <1>4, <1>5, <1>6, <1>7, <1>8, <1>9, <1>10, <1>11, <1>12, <1>13
        DEF Next, Step, Supervise, Raises

LEMMA SeenTypedStep ==
    ASSUME agent \in Frames, seen \in [Turns -> Contexts \cup {None}], [Next]_vars
    PROVE  seen' \in [Turns -> Contexts \cup {None}]
<1>1. seen' = seen \/ \E t : seen' = [seen EXCEPT ![t] = agent.context]
  BY DEF Next, Step, Supervise, vars, history, RunLoop, RunTurn, FailUnknown, LoadPending,
     BuildInput, ExhaustBudget, BeginAction, Ask, AdapterRaises, AdapterAnswers, AdapterMisfits,
     Persist, Complete, RequestTool, Allow, Deny, Escalate, StartTool, SaveIntent, ReturnReceipt,
     Retry, ExecutorRaises, InvokeTool, RecordOutcome, PassStep, FailStep, ResumeLoop, Recover,
     ReleaseGate, CloseGate, Crash, AuthorizeRaises, OutputRefused, ExpectationRaises
<1>2. agent.context \in Contexts \cup {None}
  BY DEF Frames
<1> QED BY <1>1, <1>2

\* The log numbers its events from one, the process holds what its place needs, and the
\* records of the turns and of the executor keep their types, for every budget and model.
THEOREM TypeCorrect == Spec => []TypeOK
<1>1. Init => Typed
  <2> SUFFICES ASSUME Init PROVE Typed
    OBVIOUS
  <2>1. LogTyped
    BY DEF Init, LogTyped, Created, Started, EventTypes, RunTypes
  <2> QED BY <2>1, IdleTyped DEF Init, Typed
<1>2. IInv /\ IInv' /\ EInv /\ Typed /\ [Next]_vars => Typed'
  BY LogTypedStep, FrameTypedStep, SeenTypedStep DEF Typed
<1>3. IInv /\ EInv /\ Typed => TypeOK
  BY Inside DEF Typed, LogTyped, Frames, TypeOK, IInv, EInv, Behind, TurnsMatch, Turned
<1> QED BY <1>1, <1>2, <1>3, Invariant, EvidenceInvariant, PTL DEF Spec

-----------------------------------------------------------------------------
(* The log the agent keeps is one RunLifecycle allows; its bounds are free. *)

Lifecycle == INSTANCE RunLifecycle_proofs
    WITH Budgets <- {Budget}, Modes <- GateModes, AttemptLimits <- {1},
         MaxRevision <- 1, MaxStep <- Budget, MaxEvents <- Budget

\* Its reducer is this one.
LEMMA SameGood ==
    ASSUME NEW s
    PROVE  Lifecycle!Good(s) <=> Good(s)
BY DEF Lifecycle!Good, Good, Lifecycle!RunType, RunType, Lifecycle!FieldsMatchStatus,
   FieldsMatchStatus, Lifecycle!AttemptsLeft, AttemptsLeft, Lifecycle!BudgetKept, BudgetKept,
   Lifecycle!FreshRun, FreshRun, Lifecycle!InitialRun, InitialRun, Lifecycle!Statuses, Statuses,
   Lifecycle!Terminal, Terminal, Lifecycle!ToolStatuses, ToolStatuses, Lifecycle!Gate, Gate,
   Lifecycle!NoGate, NoGate, Lifecycle!GateModes, GateModes

LEMMA SameEvents ==
    ASSUME NEW e
    PROVE  Lifecycle!EventType(e) <=> EventType(e)
BY DEF Lifecycle!EventType, EventType, Lifecycle!EventTypes, EventTypes, Lifecycle!RunTypes, RunTypes,
   Lifecycle!ModelTypes, ModelTypes, Lifecycle!CompletionTypes, CompletionTypes,
   Lifecycle!GateTypes, GateTypes, Lifecycle!ToolTypes, ToolTypes,
   Lifecycle!VerificationTypes, VerificationTypes

LEMMA SameReducer ==
    ASSUME NEW s, NEW e
    PROVE  /\ Lifecycle!Acceptable(s, e) <=> Acceptable(s, e)
           /\ Lifecycle!Applied(s, e) = Applied(s, e)
<1> USE DEF Lifecycle!RunTypes, RunTypes, Lifecycle!ModelTypes, ModelTypes,
      Lifecycle!CompletionTypes, CompletionTypes, Lifecycle!GateTypes, GateTypes,
      Lifecycle!ToolTypes, ToolTypes, Lifecycle!VerificationTypes, VerificationTypes,
      Lifecycle!Terminal, Terminal, Lifecycle!NoGate, NoGate, Lifecycle!GateModes, GateModes
<1>1. Lifecycle!Guard(s, e) <=> Guard(s, e)
  BY DEF Lifecycle!Guard, Guard, Lifecycle!RunGuard, RunGuard, Lifecycle!ModelGuard, ModelGuard,
     Lifecycle!CompletionGuard, CompletionGuard, Lifecycle!GateGuard, GateGuard,
     Lifecycle!ToolGuard, ToolGuard, Lifecycle!VerificationGuard, VerificationGuard,
     Lifecycle!ActiveTool, ActiveTool, Lifecycle!BudgetAvailable, BudgetAvailable,
     Lifecycle!AnswersAction, AnswersAction, Lifecycle!ActiveGate, ActiveGate,
     Lifecycle!OpensGate, OpensGate, Lifecycle!NextAttempt, NextAttempt
<1>2. Lifecycle!Effect(s, e) = Effect(s, e)
  BY DEF Lifecycle!Effect, Effect, Lifecycle!RunEffect, RunEffect, Lifecycle!ModelEffect,
     ModelEffect, Lifecycle!CompletionEffect, CompletionEffect, Lifecycle!GateEffect, GateEffect,
     Lifecycle!ToolEffect, ToolEffect, Lifecycle!VerificationEffect, VerificationEffect,
     Lifecycle!GateOf, GateOf, Lifecycle!Move, Move, Lifecycle!CloseModel, CloseModel,
     Lifecycle!CloseTool, CloseTool
<1>3. Lifecycle!Acceptable(s, e) <=> Acceptable(s, e)
  BY <1>1 DEF Lifecycle!Acceptable, Acceptable, Lifecycle!Conflicting, Conflicting,
     Lifecycle!Redelivered, Redelivered
<1>4. Lifecycle!Applied(s, e) = Applied(s, e)
  BY <1>2 DEF Lifecycle!Applied, Applied
<1> QED BY <1>3, <1>4

LEMMA LifecycleAssumptions == Lifecycle!NoneAssumption /\ Lifecycle!LifecycleAssumption
BY NoneAssumption, LoopAssumption
   DEF Lifecycle!NoneAssumption, Lifecycle!LifecycleAssumption, Lifecycle!GateModes, GateModes

\* A one-turn entry point has no proposed action to refer to; the loop has one, which
\* is the last event while it is pending.
PendingIsLast ==
    run.status = "action_pending" =>
        /\ Len(log) >= 1
        /\ log[Len(log)].type = "model.action_proposed" /\ log[Len(log)].id = run.action

NoReference ==
    agent.at \in {"ask", "asked", "dispatch"} /\ agent.entry # "loop" => agent.event = 0

Linked == PendingIsLast /\ NoReference /\ Lifecycle!ReferencesArePending

Refers(e) == e.type \in CompletionTypes \cup {"tool.requested"} /\ e.action # 0

\* What a step stores is typed, and refers to the pending action or to none.
LEMMA StoresFitting ==
    ASSUME IInv, NoReference, [Next]_vars
    PROVE  \/ UNCHANGED stored
           \/ \E e : /\ Store(e) /\ EventType(e)
                     /\ Refers(e) => run.status = "action_pending" /\ e.action = run.action
<1> DEFINE Apt(e) ==
        EventType(e) /\ (Refers(e) => run.status = "action_pending" /\ e.action = run.action)
<1>0. run.next \in Nat /\ run.turn \in Nat
  BY Inside DEF RunType
<1>1. ASSUME NEW e, Store(e), e.type \in Bare, Numbered(e) PROVE Apt(e)
  BY <1>0, <1>1 DEF Bare, Numbered, EventType, EventTypes, RunTypes, ModelTypes, ToolTypes,
     VerificationTypes, CompletionTypes, Refers
<1>2. CASE BeginAction
  <2> DEFINE e == [type |-> "model.action_requested", id |-> run.next, seq |-> run.next,
                   step |-> agent.context.step, turn |-> agent.context.turn,
                   invocation |-> agent.context.step,
                   observation |-> agent.context.observation]
  <2>1. Store(e)
    BY <1>2 DEF BeginAction
  <2>2. agent.context.step = run.turn + 1
    BY <1>2 DEF BeginAction
  <2>3. Apt(e)
    BY <1>0, <2>2 DEF EventType, EventTypes, ModelTypes, CompletionTypes, Refers
  <2> HIDE DEF e
  <2> QED BY <2>1, <2>3
<1>3. CASE Complete
  <2> DEFINE e == [type |-> IF Accepts(agent.action.answer, agent.context)
                            THEN "completion.accepted" ELSE "completion.rejected",
                   id |-> run.next, seq |-> run.next, step |-> agent.context.step,
                   action |-> run.action, answer |-> agent.action.answer]
  <2>1. Store(e)
    BY <1>3 DEF Complete
  <2>2. run.action # 0 => run.status = "action_pending"
    BY <1>3, Inside DEF Complete, FieldsMatchStatus
  <2>3. Apt(e)
    BY <1>0, <2>2 DEF EventType, EventTypes, CompletionTypes, Refers
  <2> HIDE DEF e
  <2> QED BY <2>1, <2>3
<1>4. ASSUME NEW mode \in GateModes, Escalate(mode)
      PROVE  \E e : Store(e) /\ Apt(e)
  <2> DEFINE e == [type |-> "tool.escalated", id |-> run.next, seq |-> run.next,
                   call |-> agent.action.call, digest |-> Digest(agent.action.call),
                   revision |-> 1, mode |-> mode, max |-> 1]
  <2>1. Store(e)
    BY <1>4 DEF Escalate
  <2>2. run.call = agent.action.call /\ run.status = "tool_pending"
    BY <1>4, Inside DEF Escalate, At, Agrees, CallIs
  <2>3. Digest(agent.action.call) \in Digests
    BY <2>2, Inside, LoopDigestAssumption DEF RunType, FieldsMatchStatus, ToolStatuses
  <2>4. Apt(e)
    BY <1>0, <2>3 DEF EventType, EventTypes, GateTypes, CompletionTypes, Refers
  <2> HIDE DEF e
  <2> QED BY <2>1, <2>4
<1>5. CASE ReleaseGate \/ CloseGate
  <2>1. \A type, outcome :
            type \in {"gate.approved", "gate.rejected"}
                \/ (type = "gate.evaluated" /\ outcome \in {"pass", "block"})
            => Apt(OfGate(type, outcome))
    <3>1. run.status = "awaiting_gate"
      BY <1>5 DEF ReleaseGate, CloseGate
    <3>2. run.gate \in Gate /\ run.gate.attempts + 1 \in Nat
      BY <3>1, Inside DEF RunType, FieldsMatchStatus, Gate
    <3> QED BY <1>0, <3>2 DEF OfGate, EventType, EventTypes, GateTypes, CompletionTypes, Refers
  <2>2. \/ Store(OfGate("gate.approved", "pass")) \/ Store(OfGate("gate.rejected", "block"))
        \/ Store(OfGate("gate.evaluated", "pass")) \/ Store(OfGate("gate.evaluated", "block"))
    BY <1>5 DEF ReleaseGate, CloseGate
  <2> QED BY <2>1, <2>2
<1>6. CASE RequestTool
  <2> DEFINE e == [type |-> "tool.requested", id |-> run.next, seq |-> run.next,
                   call |-> agent.action.call, content |-> agent.action.content,
                   step |-> agent.context.step, action |-> agent.event]
  <2>1. Store(e)
    BY <1>6 DEF RequestTool
  <2>2. /\ agent.action \in Actions /\ agent.action.kind = "tool" /\ agent.context = Context
        /\ agent.event # 0 => run.status = "action_pending" /\ agent.event = run.action
    BY <1>6, Inside DEF RequestTool, At, Agrees, NoReference
  <2>3. agent.action.call \in Calls /\ agent.context.step = run.turn + 1
    BY <2>2 DEF Actions, ToolCalls, FinalAnswers, Context
  <2>4. Apt(e)
    BY <1>0, <2>2, <2>3 DEF EventType, EventTypes, ToolTypes, Refers
  <2> HIDE DEF e
  <2> QED BY <2>1, <2>4
<1>7. CASE RecordOutcome
  <2>1. PICK type \in {"tool.succeeded", "tool.failed", "tool.timed_out"} :
            Store(OfCall(type, agent.action.call))
    <3>1. agent.result \in Outcomes
      BY <1>7, Inside DEF RecordOutcome, At, Agrees
    <3> QED BY <1>7, <3>1 DEF RecordOutcome, Outcomes
  <2>2. Apt(OfCall(type, agent.action.call))
    BY <1>0 DEF OfCall, EventType, EventTypes, ToolTypes, CompletionTypes, Refers
  <2> QED BY <2>1, <2>2
<1>8. CASE PassStep
  <2> DEFINE e == [type |-> "verification.succeeded", id |-> run.next, seq |-> run.next,
                   scope |-> "step", step |-> run.step]
  <2>1. Store(e)
    BY <1>8 DEF PassStep
  <2>2. Apt(e)
    BY <1>0 DEF EventType, EventTypes, VerificationTypes, CompletionTypes, Refers
  <2> HIDE DEF e
  <2> QED BY <2>1, <2>2
<1> QED BY <1>1, <1>2, <1>3, <1>4, <1>5, <1>6, <1>7, <1>8, Stores DEF StoresMore

\* Only a proposal makes an action pending, and it is the one.
LEMMA EffectPends ==
    ASSUME NEW s, NEW e, Good(s), EventType(e), Guard(s, e),
           Effect(s, e).status = "action_pending"
    PROVE  e.type = "model.action_proposed" /\ Effect(s, e).action = e.id
<1>0. DOMAIN s = DOMAIN InitialRun
  BY DEF Good, RunType
<1>1. CASE e.type \in RunTypes
  <2>1. Effect(s, e) = RunEffect(s, e) /\ RunGuard(s, e)
    BY <1>1, Families
  <2> QED BY <1>0, <1>1, <2>1, Domain DEF RunEffect, RunGuard, RunTypes, CloseModel, Move
<1>2. CASE e.type \in ModelTypes
  <2>1. Effect(s, e) = ModelEffect(s, e)
    BY <1>2, Families
  <2> QED BY <1>0, <1>2, <2>1, Domain DEF ModelEffect, ModelTypes, CloseModel
<1>3. CASE e.type \in CompletionTypes
  <2>1. Effect(s, e) = CompletionEffect(s, e)
    BY <1>3, Families
  <2> QED BY <1>0, <1>3, <2>1, Domain DEF CompletionEffect, CompletionTypes, CloseModel
<1>4. CASE e.type \in GateTypes
  <2>1. Effect(s, e) = GateEffect(s, e) /\ GateGuard(s, e)
    BY <1>4, Families
  <2> QED BY <1>0, <1>4, <2>1, Domain DEF GateEffect, GateGuard, GateTypes, CloseTool
<1>5. CASE e.type \in ToolTypes
  <2>1. Effect(s, e) = ToolEffect(s, e)
    BY <1>5, Families
  <2> QED BY <1>0, <1>5, <2>1, Domain DEF ToolEffect, ToolTypes, CloseTool, Move
<1>6. CASE e.type \in VerificationTypes
  <2>1. Effect(s, e) = VerificationEffect(s, e) /\ VerificationGuard(s, e)
    BY <1>6, Families
  <2> QED BY <1>0, <1>6, <2>1, Domain
     DEF VerificationEffect, VerificationGuard, VerificationTypes, EventType
<1> QED BY <1>1, <1>2, <1>3, <1>4, <1>5, <1>6 DEF EventType, EventTypes

LEMMA NoReferenceStep ==
    ASSUME IInv, NoReference, [Next]_vars
    PROVE  NoReference'
<1>0. DOMAIN agent = {"at", "entry", "context", "action", "event", "result"}
  BY Inside, Frame
<1>1. CASE UNCHANGED vars \/ CloseGate
  BY <1>1 DEF vars, CloseGate, NoReference
<1>2. CASE BuildInput \/ Ask \/ \E a \in Actions : AdapterAnswers(a)
  BY <1>0, <1>2 DEF BuildInput, Ask, AdapterAnswers, Goto, At, NoReference
<1>3. CASE LoadPending \/ Persist \/ BeginAction
  <2>1. agent.entry = "loop"
    BY <1>3, Inside DEF LoadPending, Persist, BeginAction, At, Agrees
  <2>2. agent'.entry = "loop"
    BY <1>0, <1>3, <2>1 DEF LoadPending, Persist, BeginAction, Goto
  <2> QED BY <2>2 DEF NoReference
<1>4. CASE \/ RunLoop \/ ResumeLoop \/ Recover \/ ReleaseGate \/ Crash
           \/ \E entry \in Entries : RunTurn(entry)
  BY <1>4, Frame DEF RunLoop, ResumeLoop, Recover, ReleaseGate, Crash, RunTurn, Begin, Execute,
     Idle, NoReference
<1>5. CASE \/ FailUnknown \/ ExhaustBudget \/ AdapterRaises \/ Deny \/ ExecutorRaises \/ FailStep
           \/ (\E mode \in GateModes : Escalate(mode)) \/ \E a \in Actions : AdapterMisfits(a)
           \/ Raises
  BY <1>5, Frame, RaisesEnd DEF FailUnknown, ExhaustBudget, AdapterRaises, Deny, ExecutorRaises, FailStep,
     Escalate, AdapterMisfits, Ended, Return, NoReference
<1>6. CASE Complete \/ RecordOutcome \/ PassStep
  BY <1>0, <1>6, Frame DEF Complete, RecordOutcome, PassStep, Ended, Return, Goto, NoReference
<1>7. CASE \/ RequestTool \/ Allow \/ StartTool \/ SaveIntent \/ Retry \/ ReturnReceipt
           \/ \E r \in Outcomes : InvokeTool(r)
  BY <1>0, <1>7 DEF RequestTool, Allow, StartTool, SaveIntent, Retry, ReturnReceipt, InvokeTool,
     Goto, NoReference
<1> QED BY <1>1, <1>2, <1>3, <1>4, <1>5, <1>6, <1>7 DEF Next, Step, Supervise, Raises

LEMMA LinkedStep ==
    ASSUME IInv, IInv', Linked, [Next]_vars
    PROVE  Linked'
<1>1. NoReference'
  BY NoReferenceStep DEF Linked
<1>2. CASE UNCHANGED stored
  <2>1. log' = log /\ run' = run
    BY <1>2 DEF stored
  <2>2. PendingIsLast'
    BY <2>1 DEF Linked, PendingIsLast
  <2>3. Lifecycle!ReferencesArePending'
    BY <2>1 DEF Linked, Lifecycle!ReferencesArePending
  <2> QED BY <1>1, <2>2, <2>3 DEF Linked
<1>3. ASSUME NEW e, Store(e), EventType(e),
             Refers(e) => run.status = "action_pending" /\ e.action = run.action
      PROVE  Linked'
  <2>1. /\ Took(run, e, run') /\ Guard(run, e) /\ Good(run)
        /\ Len(log) \in Nat /\ Len(log') = Len(log) + 1 /\ log'[Len(log) + 1] = e
        /\ \A i \in 1..Len(log) : log'[i] = log[i]
    BY <1>3, StoreTaken
  <2>2. PendingIsLast'
    <3>1. ASSUME run'.status = "action_pending"
          PROVE  e.type = "model.action_proposed" /\ run'.action = e.id
      <4>1. run'.status = Effect(run, e).status /\ run'.action = Effect(run, e).action
        BY <2>1 DEF Took
      <4>2. Effect(run, e).status = "action_pending"
        BY <3>1, <4>1
      <4>3. e.type = "model.action_proposed" /\ Effect(run, e).action = e.id
        BY <1>3, <2>1, <4>2, EffectPends
      <4> QED BY <4>1, <4>3
    <3>2. Len(log') >= 1 /\ log'[Len(log')] = e
      BY <2>1
    <3> QED BY <3>1, <3>2 DEF PendingIsLast
  <2>3. Refers(e) => /\ Len(log) >= 1 /\ e.action = log[Len(log)].id
                     /\ log[Len(log)].type = "model.action_proposed"
    BY <1>3 DEF Linked, PendingIsLast
  <2>4. Lifecycle!ReferencesArePending'
    BY <2>1, <2>3 DEF Linked, Lifecycle!ReferencesArePending, Refers, Lifecycle!CompletionTypes,
       CompletionTypes
  <2> QED BY <1>1, <2>2, <2>4 DEF Linked
<1> QED BY <1>2, <1>3, StoresFitting DEF Linked

LEMMA LifecycleStep ==
    ASSUME IInv, IInv', NoReference, Lifecycle!LInv, [Next]_vars
    PROVE  Lifecycle!LInv'
<1>1. CASE UNCHANGED stored
  <2>1. UNCHANGED Lifecycle!vars
    BY <1>1 DEF stored, Lifecycle!vars
  <2> QED BY <2>1, LifecycleAssumptions, Lifecycle!StillKeeps
<1>2. ASSUME NEW e, Store(e), EventType(e)
      PROVE  Lifecycle!LInv'
  <2>1. Acceptable(run, e) /\ run' = Applied(run, e) /\ log' = Append(log, e)
    BY <1>2, StoreTaken DEF Store
  <2>2. Lifecycle!Takes(e)
    BY <1>2, <2>1, SameEvents, SameReducer DEF Lifecycle!Takes
  <2> QED BY <2>2, LifecycleAssumptions, Lifecycle!TakenKeeps
<1> QED BY <1>1, <1>2, StoresFitting

LEMMA InitialLinked ==
    ASSUME Init, IInv
    PROVE  Linked /\ Lifecycle!LInv
<1>1. log \in Seq({Created, Started}) /\ Len(log) = 2 /\ log[1] = Created /\ log[2] = Started
  BY DEF Init
<1>2. Good(run) /\ run.status = "ready" /\ run.turn = 0 /\ run.next = Len(log) + 1
  BY Starting DEF Init, IInv, Behind, Current
<1>3. Lifecycle!Good(run)
  BY <1>2, SameGood
<1>4. Lifecycle!IsSequence(log) /\ Lifecycle!SequenceIsDense
  BY <1>1, <1>2 DEF Lifecycle!IsSequence, Lifecycle!SequenceIsDense, Created, Started
<1>5. \A i \in 1..Len(log) : log[i].type \in Lifecycle!RunTypes
  BY <1>1 DEF Lifecycle!RunTypes, Created, Started
<1>6. Lifecycle!LInv
  BY <1>2, <1>3, <1>4, <1>5, LifecycleAssumptions, Lifecycle!FreshKeeps
<1>7. Lifecycle!ReferencesArePending
  BY <1>5 DEF Lifecycle!ReferencesArePending, Lifecycle!RunTypes, Lifecycle!CompletionTypes
<1>8. PendingIsLast /\ NoReference
  BY <1>2, Frame DEF PendingIsLast, NoReference, Init
<1> QED BY <1>6, <1>7, <1>8 DEF Linked

LEMMA LifecycleInvariant == Spec => [](Linked /\ Lifecycle!LInv)
<1>1. Init /\ IInv => Linked /\ Lifecycle!LInv
  BY InitialLinked
<1>2. IInv /\ IInv' /\ Linked /\ Lifecycle!LInv /\ [Next]_vars => Linked' /\ Lifecycle!LInv'
  BY LinkedStep, LifecycleStep DEF Linked
<1> QED BY <1>1, <1>2, Invariant, PTL DEF Spec

\* The log the agent keeps has all that RunLifecycle says of one: starts under the latest
\* decision, turns with evidence, one request to the model per turn, budgets, dense numbers.
THEOREM LifecycleCorrect == Spec => []Lifecycle!Guarantees
<1>1. Lifecycle!LInv => Lifecycle!Guarantees
  BY LifecycleAssumptions, Lifecycle!Guaranteed
<1> QED BY <1>1, LifecycleInvariant, PTL

\* The reducer takes a request or a completion that names an action long settled; this
\* agent never stores one: what names an action names the event just before it.
THEOREM ReferencesCorrect == Spec => []Lifecycle!ReferencesArePending
BY LifecycleInvariant, PTL DEF Linked
=============================================================================
