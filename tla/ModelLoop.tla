------------------------------ MODULE ModelLoop ------------------------------
(***************************************************************************)
(* ModelDrivenFakeAgent over AuthorizedToolRuntime: the bounded model loop *)
(* with its durable model-action boundary, the one-turn entry points, the  *)
(* loop's resumption after a gate, and whoever resolves gates and recovers *)
(* tool calls between the agent's calls.  One process acts at a time and   *)
(* may die between any two of its steps.                                   *)
(*                                                                         *)
(* With one process nothing comes between the reads and the store of an    *)
(* _append, so it is one step here (AuthorizedToolRuntime has them apart); *)
(* an event the reducer refuses is stored all the same and makes the run   *)
(* Rejected.  The executor's step that looks up an intent also stores it.  *)
(* Gate answers that leave the gate open, and its revisions, change        *)
(* nothing the agent reads and are left to AuthorizedToolRuntime.          *)
(***************************************************************************)
EXTENDS RunReducer, FiniteSets

CONSTANTS Contents,      \* tool name and arguments of a tool call
          Idempotent,    \* contents whose registered tool is retry_is_idempotent
          Answers,       \* final answers a model may propose
          Expected,      \* CompletionExpectation.expected_answer
          NeedsEvidence, \* CompletionExpectation.require_verified_observation
          Decisions,     \* what authorize() may decide
          Entries,       \* entry points in use: "loop", "tool_turn", "completion_turn"
          Budget,        \* max_steps of the run
          MaxCrashes     \* bound: crashes

Outcomes == {"succeeded", "failed", "timed_out"}

ASSUME LoopAssumption ==
    /\ Idempotent \subseteq Contents
    /\ Expected \in Answers
    /\ NeedsEvidence \in BOOLEAN
    /\ Decisions \subseteq {"deny", "allow"} \cup GateModes
    /\ Entries \subseteq {"loop", "tool_turn", "completion_turn"}
    /\ Budget \in Nat \ {0} /\ MaxCrashes \in Nat
    /\ None \notin Contents \cup Outcomes

ToolCalls == [kind : {"tool"}, call : Calls, content : Contents]
FinalAnswers == [kind : {"answer"}, answer : Answers]
Actions == ToolCalls \cup FinalAnswers
Turns == 0..Budget-1

\* The digest of GateProposal.build; nothing here tells two proposals apart.
Digest(call) == <<call, 1>>

ASSUME LoopDigestAssumption ==
    /\ \A call \in Calls : Digest(call) \in Digests
    /\ None \notin Actions

VARIABLES log,        \* execution_events of the run
          run,        \* what load_state makes of log
          agent,      \* the process: where it is and its local variables
          intents,    \* tool_intents: call -> content, or None
          receipts,   \* tool_receipts: call -> outcome, or None
          returned,   \* what the last call told its caller, and the log's length then
          calls,      \* turn -> times the loop called the adapter
          seen,       \* turn -> context the adapter last saw, or None
          chosen,     \* turn -> action the loop made durable, or None
          spent,      \* turn -> action a completion or a request was recorded for, or None
          crashes
vars == <<log, run, agent, intents, receipts, returned, calls, seen, chosen, spent,
          crashes>>
stored == <<log, run>>
effects == <<intents, receipts>>
history == <<calls, seen, chosen, spent>>

Idle == [at |-> "idle", entry |-> "none", context |-> None, action |-> None,
         event |-> 0, result |-> None]

Nothing == [entry |-> "none", outcome |-> "none", length |-> 0]

Created == [type |-> "run.created", id |-> 1, seq |-> 1, max |-> Budget]
Started == [type |-> "run.started", id |-> 2, seq |-> 2]

\* The client has created the run with a budget, and started it.
Init ==
    /\ log = <<Created, Started>>
    /\ run = ReplayStep(ReplayStep(InitialRun, Created), Started)
    /\ agent = Idle
    /\ intents = [call \in Calls |-> None]
    /\ receipts = [call \in Calls |-> None]
    /\ returned = Nothing
    /\ calls = [t \in Turns |-> 0]
    /\ seen = [t \in Turns |-> None]
    /\ chosen = [t \in Turns |-> None]
    /\ spent = [t \in Turns |-> None]
    /\ crashes = 0

-----------------------------------------------------------------------------
(* Steps the operations are made of.                                       *)

At(place) == agent.at = place

Goto(place) == agent' = [agent EXCEPT !.at = place] /\ UNCHANGED returned

\* The call ends: an outcome, or "raised" for an exception.
Return(outcome) ==
    /\ agent' = Idle
    /\ returned' = [entry |-> agent.entry, outcome |-> outcome, length |-> Len(log')]

\* Mutant: whatever is not completed is reported as paused.
EndedPaused(outcome) == Return(IF agent.entry = "operator" THEN "executed" ELSE "paused")

\* What the entry point in progress makes of the loop's outcome.
Ended(outcome) ==
    Return(CASE agent.entry = "loop"     -> outcome
             [] agent.entry = "operator" -> "executed"
             [] OTHER                    -> "raised")

\* _append
Store(e) == log' = Append(log, e) /\ run' = ReplayStep(run, e)

KeepStored == UNCHANGED stored

\* Mutant: an event takes the number of the last one.
PlainLate(type) == [type |-> type, id |-> run.next - 1, seq |-> run.next - 1]

\* Every event is numbered by the state it was read from.
Plain(type) == [type |-> type, id |-> run.next, seq |-> run.next]

OfCall(type, call) == [type |-> type, id |-> run.next, seq |-> run.next, call |-> call]

-----------------------------------------------------------------------------
(* What the runtime reads back from the log.                               *)

\* Positions of a kind of event; operations take the last one.
Of(type) == {i \in 1..Len(log) : log[i].type = type}

Last(positions) == CHOOSE i \in positions : \A j \in positions : j <= i

StepVerifications == {i \in Of("verification.succeeded") : log[i].scope = "step"}

\* _load_step_observation: the latest step verification, 0 for {}.
Observation == IF StepVerifications = {} THEN 0 ELSE Last(StepVerifications)

\* build_model_input; state_status is always READY.
Context == [step |-> run.turn + 1, turn |-> run.turn, observation |-> Observation]

\* Mutant: the context is that of the first request to the model.
FirstContext ==
    LET r == CHOOSE i \in Of("model.action_requested") :
                \A j \in Of("model.action_requested") : i <= j
    IN  [step |-> log[r].step, turn |-> log[r].turn, observation |-> log[r].observation]

\* load_pending_model_action
PendingContext ==
    LET r == Last({i \in Of("model.action_requested") : log[i].invocation = run.invocation})
    IN  [step |-> log[r].step, turn |-> log[r].turn, observation |-> log[r].observation]

PendingAction == log[run.action].action

RequestOf(call) == log[Last({i \in Of("tool.requested") : log[i].call = call})]

ActionOf(request) == [kind |-> "tool", call |-> request.call, content |-> request.content]

\* load_model_tool_recovery: the latest request of the active step.
StepRequest == log[Last({i \in Of("tool.requested") : log[i].step = run.step})]

\* load_verification_receipt: the receipt of the latest success.
RecoveredReceipt == receipts[log[Last(Of("tool.succeeded"))].call]

-----------------------------------------------------------------------------
(* run_loop and the one-turn entry points, up to an action.                *)

Begin(entry) ==
    agent' = [Idle EXCEPT !.at = "top", !.entry = entry] /\ UNCHANGED returned

\* Mutant: the loop takes a ready run only.
RunLoopReady ==
    /\ At("idle") /\ "loop" \in Entries
    /\ run.status \in {"ready", "model_pending"}
    /\ Begin("loop")
    /\ UNCHANGED <<stored, effects, history, crashes>>

\* run_loop refuses every other status.
RunLoop ==
    /\ At("idle") /\ "loop" \in Entries
    /\ run.status \in {"ready", "model_pending", "action_pending"}
    /\ Begin("loop")
    /\ UNCHANGED <<stored, effects, history, crashes>>

\* run_tool_turn and run_completion_turn start with build_model_input.
RunTurn(entry) ==
    /\ At("idle") /\ entry \in Entries \ {"loop"}
    /\ run.status = "ready"
    /\ Begin(entry)
    /\ UNCHANGED <<stored, effects, history, crashes>>

\* Mutant: an unknown adapter outcome is asked for again.
AskAgain ==
    /\ At("top") /\ run.status = "model_pending"
    /\ agent' = [agent EXCEPT !.at = "ask", !.context = PendingContext]
    /\ UNCHANGED <<returned, stored, effects, history, crashes>>

\* MODEL_PENDING: the adapter's outcome is unknown after an interruption.
FailUnknown ==
    /\ At("top") /\ run.status = "model_pending"
    /\ Store(Plain("model.action_failed"))
    /\ Return("failed")
    /\ UNCHANGED <<effects, history, crashes>>

\* ACTION_PENDING: the exact action is taken from the log.
LoadPending ==
    /\ At("top") /\ run.status = "action_pending"
    /\ agent' = [agent EXCEPT !.at = "dispatch", !.context = PendingContext,
                              !.action = PendingAction, !.event = run.action]
    /\ UNCHANGED <<returned, stored, effects, history, crashes>>

\* Mutant: the budget is not looked at before the adapter is asked.
BuildUnbudgeted ==
    /\ At("top") /\ run.status = "ready"
    /\ agent' = [agent EXCEPT !.at = IF agent.entry = "loop" THEN "begin" ELSE "ask",
                              !.context = Context, !.action = None, !.event = 0]
    /\ UNCHANGED <<returned, stored, effects, history, crashes>>

\* build_model_input
BuildInput ==
    /\ At("top") /\ run.status = "ready" /\ BudgetAvailable(run)
    /\ agent' = [agent EXCEPT !.at = IF agent.entry = "loop" THEN "begin" ELSE "ask",
                              !.context = Context, !.action = None, !.event = 0]
    /\ UNCHANGED <<returned, stored, effects, history, crashes>>

ExhaustBudget ==
    /\ At("top") /\ run.status = "ready" /\ ~BudgetAvailable(run)
    /\ Store([type |-> "run.step_budget_exhausted", id |-> run.next, seq |-> run.next,
              max |-> run.max, completed |-> run.turn])
    /\ Ended("failed")
    /\ UNCHANGED <<effects, history, crashes>>

\* begin_model_action
BeginAction ==
    /\ At("begin")
    /\ run.status = "ready"
    /\ agent.context.turn = run.turn /\ agent.context.step = run.turn + 1
    /\ Store([type |-> "model.action_requested", id |-> run.next, seq |-> run.next,
              step |-> agent.context.step, turn |-> agent.context.turn,
              invocation |-> agent.context.step,
              observation |-> agent.context.observation])
    /\ Goto("ask")
    /\ UNCHANGED <<effects, history, crashes>>

\* The model boundary is crossed: from here on the provider may have answered.
Ask ==
    LET t == agent.context.turn
    IN  /\ At("ask")
        /\ calls' = [calls EXCEPT ![t] = IF agent.entry = "loop" THEN @ + 1 ELSE @]
        /\ seen' = [seen EXCEPT ![t] = agent.context]
        /\ Goto("asked")
        /\ UNCHANGED <<stored, effects, chosen, spent, crashes>>

\* request_model_action raises: the adapter fails, is exhausted or returns junk.
AdapterRaises ==
    /\ At("asked")
    /\ IF agent.entry = "loop" THEN Store(Plain("model.action_failed")) ELSE KeepStored
    /\ Ended("failed")
    /\ UNCHANGED <<effects, history, crashes>>

\* A one-turn entry point takes one kind of action only.
Fits(a) ==
    \/ agent.entry = "loop"
    \/ agent.entry = "tool_turn" /\ a.kind = "tool"
    \/ agent.entry = "completion_turn" /\ a.kind = "answer"

AdapterAnswers(a) ==
    /\ At("asked") /\ Fits(a)
    /\ agent' = [agent EXCEPT !.at = IF agent.entry = "loop" THEN "persist" ELSE "dispatch",
                              !.action = a]
    /\ UNCHANGED <<returned, stored, effects, history, crashes>>

AdapterMisfits(a) ==
    /\ At("asked") /\ ~Fits(a)
    /\ UNCHANGED <<stored, effects, history, crashes>>
    /\ Return("raised")

\* persist_model_action
Persist ==
    /\ At("persist")
    /\ run.status = "model_pending" /\ run.invocation = agent.context.step
    /\ run.step = agent.context.step /\ run.turn = agent.context.turn
    /\ Store([type |-> "model.action_proposed", id |-> run.next, seq |-> run.next,
              step |-> run.step, turn |-> run.turn, invocation |-> run.invocation,
              action |-> agent.action])
    /\ agent' = [agent EXCEPT !.at = "dispatch", !.event = run.next]
    /\ chosen' = [chosen EXCEPT ![run.turn] = agent.action]
    /\ UNCHANGED <<returned, effects, calls, seen, spent, crashes>>

-----------------------------------------------------------------------------
(* Dispatch: a completion or a tool call.                                  *)

\* Mutant: the answer alone decides.
AcceptsUnseen(answer, context) == answer = Expected

\* CompletionVerifier.verify
Accepts(answer, context) ==
    /\ answer = Expected
    /\ NeedsEvidence => context.observation # 0

\* record_completion
Complete ==
    LET accepted == Accepts(agent.action.answer, agent.context)
    IN  /\ At("dispatch") /\ agent.action.kind = "answer"
        /\ run.status \in {"ready", "action_pending"}
        /\ agent.context.turn = run.turn /\ agent.context.step = run.turn + 1
        /\ run.status = "action_pending" =>
                agent.context = PendingContext /\ agent.action = PendingAction
        /\ Store([type |-> IF accepted THEN "completion.accepted" ELSE "completion.rejected",
                  id |-> run.next, seq |-> run.next, step |-> agent.context.step,
                  action |-> run.action, answer |-> agent.action.answer])
        /\ spent' = [spent EXCEPT ![run.turn] = agent.action]
        /\ IF agent.entry # "loop" THEN Return("turn")
           ELSE IF accepted THEN Return("completed") ELSE Goto("top")
        /\ UNCHANGED <<effects, calls, seen, chosen, crashes>>

\* submit, its first half; the request is compiled from the trusted context.
RequestTool ==
    /\ At("dispatch") /\ agent.action.kind = "tool"
    /\ Store([type |-> "tool.requested", id |-> run.next, seq |-> run.next,
              call |-> agent.action.call, content |-> agent.action.content,
              step |-> agent.context.step, action |-> agent.event])
    /\ spent' = [spent EXCEPT ![agent.context.turn] = agent.action]
    /\ Goto("decide")
    /\ UNCHANGED <<effects, calls, seen, chosen, crashes>>

\* submit, after the request is on record: what authorize() decided.
Allow ==
    /\ At("decide") /\ "allow" \in Decisions
    /\ Store(OfCall("tool.authorized", agent.action.call))
    /\ Goto("start")
    /\ UNCHANGED <<effects, history, crashes>>

\* Mutant: a denial is told to the caller and not recorded.
DenyUnrecorded ==
    /\ At("decide") /\ "deny" \in Decisions
    /\ UNCHANGED <<stored, effects, history, crashes>>
    /\ Ended("failed")

Deny ==
    /\ At("decide") /\ "deny" \in Decisions
    /\ Store(OfCall("tool.denied", agent.action.call))
    /\ Ended("failed")
    /\ UNCHANGED <<effects, history, crashes>>

\* authorize() raises: the request stays on record without a decision.
AuthorizeRaises ==
    /\ At("decide")
    /\ UNCHANGED <<stored, effects, history, crashes>>
    /\ Return("raised")

Escalate(mode) ==
    /\ At("decide") /\ mode \in Decisions
    /\ Store([type |-> "tool.escalated", id |-> run.next, seq |-> run.next,
              call |-> agent.action.call, digest |-> Digest(agent.action.call),
              revision |-> 1, mode |-> mode, max |-> 1])
    /\ Ended("paused")
    /\ UNCHANGED <<effects, history, crashes>>

-----------------------------------------------------------------------------
(* _execute.                                                               *)

StartTool ==
    /\ At("start")
    /\ Store(OfCall("tool.started", agent.action.call))
    /\ Goto("execute")
    /\ UNCHANGED <<effects, history, crashes>>

\* A new intent is stored before its tool runs.
SaveIntent ==
    /\ At("execute") /\ intents[agent.action.call] = None
    /\ intents' = [intents EXCEPT ![agent.action.call] = agent.action.content]
    /\ Goto("invoke")
    /\ UNCHANGED <<stored, receipts, history, crashes>>

\* Mutant: an effect id alone identifies an intent.
KnownById == At("execute") /\ intents[agent.action.call] # None

\* The intent is known: its receipt is returned, or it may be retried.
KnownIntent == At("execute") /\ intents[agent.action.call] = agent.action.content

ReturnReceipt ==
    /\ KnownIntent /\ receipts[agent.action.call] # None
    /\ agent' = [agent EXCEPT !.at = "outcome", !.result = receipts[agent.action.call]]
    /\ UNCHANGED <<returned, stored, effects, history, crashes>>

Retry ==
    /\ KnownIntent /\ receipts[agent.action.call] = None
    /\ agent.action.content \in Idempotent
    /\ Goto("invoke")
    /\ UNCHANGED <<stored, effects, history, crashes>>

\* DuplicateToolEffectConflictError, UnsafeToolRetryError
Unexecutable(call, content) ==
    /\ intents[call] # None
    /\ \/ intents[call] # content
       \/ receipts[call] = None /\ content \notin Idempotent

ExecutorRaises ==
    /\ At("execute") /\ Unexecutable(agent.action.call, agent.action.content)
    /\ UNCHANGED <<stored, effects, history, crashes>>
    /\ Return("raised")

\* The tool runs, and its receipt is stored before anybody hears of it.
InvokeTool(r) ==
    /\ At("invoke")
    /\ receipts' = [receipts EXCEPT ![agent.action.call] = r]
    /\ agent' = [agent EXCEPT !.at = "outcome", !.result = r]
    /\ UNCHANGED <<returned, stored, intents, history, crashes>>

\* The tool ran, but its output is no JSON value: no receipt can be built.
OutputRefused ==
    /\ At("invoke")
    /\ UNCHANGED <<stored, effects, history, crashes>>
    /\ Return("raised")

RecordOutcome ==
    /\ At("outcome")
    /\ Store(OfCall([succeeded |-> "tool.succeeded", failed |-> "tool.failed",
                     timed_out |-> "tool.timed_out"][agent.result], agent.action.call))
    /\ IF agent.result = "succeeded" /\ agent.entry # "operator"
       THEN Goto("verify") ELSE Ended("failed")
    /\ UNCHANGED <<effects, history, crashes>>

-----------------------------------------------------------------------------
(* ReceiptVerifier.verify and record_step_verification.  The application's *)
(* expectation is free; a receipt that did not succeed never passes.  The  *)
(* loop asks the application's resolver for it, which may raise or return  *)
(* something else; a one-turn call was given it.                           *)

ExpectationRaises ==
    /\ At("verify") /\ agent.entry = "loop"
    /\ UNCHANGED <<stored, effects, history, crashes>>
    /\ Return("raised")

PassStep ==
    /\ At("verify") /\ agent.result = "succeeded"
    /\ run.status = "verifying" /\ run.step # 0
    /\ Store([type |-> "verification.succeeded", id |-> run.next, seq |-> run.next,
              scope |-> "step", step |-> run.step])
    /\ IF agent.entry = "loop" THEN Goto("top") ELSE Return("turn")
    /\ UNCHANGED <<effects, history, crashes>>

FailStep ==
    /\ At("verify")
    /\ run.status = "verifying" /\ run.step # 0
    /\ Store(Plain("verification.failed"))
    /\ Return(IF agent.entry = "loop" THEN "failed" ELSE "turn")
    /\ UNCHANGED <<effects, history, crashes>>

\* resume_loop: the verifying step is rebuilt from the log and the effect store.
ResumeLoop ==
    /\ At("idle") /\ "loop" \in Entries
    /\ run.status = "verifying" /\ run.step # 0
    /\ RecoveredReceipt = "succeeded"
    /\ agent' = [Idle EXCEPT !.at = "verify", !.entry = "loop",
                    !.context = [step |-> run.step, turn |-> run.turn,
                                 observation |-> Observation],
                    !.action = ActionOf(StepRequest), !.result = RecoveredReceipt]
    /\ UNCHANGED <<returned, stored, effects, history, crashes>>

-----------------------------------------------------------------------------
(* Between the agent's calls: recover and the resolution of gates.         *)

Execute(place, call) ==
    /\ agent' = [Idle EXCEPT !.at = place, !.entry = "operator",
                             !.action = ActionOf(RequestOf(call))]
    /\ UNCHANGED returned

\* recover
Recover ==
    /\ At("idle")
    /\ \/ run.status = "tool_ready"   /\ Execute("start", run.call)
       \/ run.status = "tool_running" /\ Execute("execute", run.call)
    /\ UNCHANGED <<stored, effects, history, crashes>>

OfGate(type, outcome) ==
    [type |-> type, id |-> run.next, seq |-> run.next, call |-> run.call,
     digest |-> run.gate.digest, revision |-> run.gate.revision,
     attempt |-> run.gate.attempts + 1, max |-> run.gate.max, outcome |-> outcome]

\* resolve_gate(approve), or an answer that passes
ReleaseGate ==
    /\ At("idle") /\ run.status = "awaiting_gate"
    /\ Execute("start", run.call)
    /\ Store(IF run.gate.mode = "pair" THEN OfGate("gate.approved", "pass")
             ELSE OfGate("gate.evaluated", "pass"))
    /\ UNCHANGED <<effects, history, crashes>>

\* resolve_gate(reject), or an answer that blocks
CloseGate ==
    /\ At("idle") /\ run.status = "awaiting_gate"
    /\ \/ Store(OfGate("gate.rejected", "block"))
       \/ run.gate.mode = "user_gate" /\ Store(OfGate("gate.evaluated", "block"))
    /\ UNCHANGED <<agent, returned, effects, history, crashes>>

\* The process dies inside a call, at or between its crash checkpoints.
Crash ==
    /\ ~At("idle") /\ crashes < MaxCrashes
    /\ crashes' = crashes + 1
    /\ agent' = Idle
    /\ UNCHANGED <<returned, stored, effects, history>>

-----------------------------------------------------------------------------
\* What the process does on its own inside a call.
Step ==
    \/ FailUnknown   \/ LoadPending   \/ BuildInput   \/ ExhaustBudget
    \/ BeginAction   \/ Ask           \/ AdapterRaises
    \/ \E a \in Actions : AdapterAnswers(a) \/ AdapterMisfits(a)
    \/ Persist       \/ Complete      \/ RequestTool
    \/ Allow         \/ Deny          \/ \E mode \in GateModes : Escalate(mode)
    \/ AuthorizeRaises
    \/ StartTool     \/ SaveIntent    \/ ReturnReceipt \/ Retry \/ ExecutorRaises
    \/ \E r \in Outcomes : InvokeTool(r)
    \/ OutputRefused \/ RecordOutcome \/ PassStep      \/ FailStep
    \/ ExpectationRaises

\* What the application calls to get a run on that stopped.
Supervise == RunLoop \/ ResumeLoop \/ Recover

Next ==
    \/ Step \/ Supervise \/ \E entry \in Entries : RunTurn(entry)
    \/ ReleaseGate \/ CloseGate
    \/ Crash

Spec == Init /\ [][Next]_vars

ToolAnswers == \E r \in Outcomes : InvokeTool(r)
StepJudged == PassStep \/ FailStep

\* A process inside a call goes on, and an application that keeps finding its run
\* stopped supervises it, whichever one-turn calls it makes in between.  A tool that
\* is run again and again returns something that can be stored in the end, and a
\* resolver that is asked again and again an expectation.  Nobody has to answer a gate.
FairSpec ==
    Spec /\ WF_vars(Step) /\ SF_vars(Supervise) /\ SF_vars(ToolAnswers) /\ SF_vars(StepJudged)
-----------------------------------------------------------------------------
Places == {"idle", "top", "begin", "ask", "asked", "persist", "dispatch", "decide", "start",
           "execute", "invoke", "outcome", "verify"}
Contexts == [step : Nat, turn : Nat, observation : Nat]

TypeOK ==
    /\ \A i \in 1..Len(log) : log[i].seq = i /\ log[i].id = i /\ log[i].type \in EventTypes
    /\ run = Rejected \/ RunType(run)
    /\ agent \in [at : Places, entry : {"none", "operator"} \cup Entries,
                  context : Contexts \cup {None}, action : Actions \cup {None},
                  event : Nat, result : Outcomes \cup {None}]
    /\ intents \in [Calls -> Contents \cup {None}]
    /\ receipts \in [Calls -> Outcomes \cup {None}]
    /\ calls \in [Turns -> Nat]
    /\ seen \in [Turns -> Contexts \cup {None}]
    /\ chosen \in [Turns -> Actions \cup {None}]
    /\ spent \in [Turns -> Actions \cup {None}]
    /\ crashes \in Nat

(* Safety.                                                                 *)

\* Every event the agent, a recovery or a gate resolution stores can be replayed,
\* wherever the process died before and whichever entry points are mixed: none
\* of them leaves a run behind that nobody can load.
StoredEventsReplay == run # Rejected

\* What is dispatched, verified or completed after a restart is judged under the
\* very context the adapter saw, although the frame was rebuilt from the log.
ContextIsOriginal ==
    agent.at \notin {"idle", "top", "begin", "ask"} /\ agent.context # None =>
        agent.context = seen[agent.context.turn]

\* A run completes only on the expected answer and, if the application asks for
\* it, after a tool step that was verified.
CompletedOnEvidence ==
    run.status = "completed" =>
        LET e == log[Len(log)]
        IN  /\ e.type = "completion.accepted" /\ e.answer = Expected
            /\ NeedsEvidence => StepVerifications # {}

\* Every verified step rests on the durable receipt of a success whose intent is
\* the content requested in that step, also when the model reuses a call id and
\* gets the receipt of an earlier step.
EvidenceFitsRequest ==
    \A i \in StepVerifications : \E r \in Of("tool.requested") :
        /\ r < i /\ log[r].step = log[i].step
        /\ log[i-1].type = "tool.succeeded" /\ log[i-1].call = log[r].call
        /\ intents[log[r].call] = log[r].content
        /\ receipts[log[r].call] = "succeeded"

\* The outcomes a caller may be told of a run in the given status.
Fitting(entry, outcome, status) ==
    /\ outcome = "completed" => status = "completed"
    /\ outcome = "failed" => status = "failed"
    /\ outcome = "paused" => status = "awaiting_gate"
    /\ outcome = "executed" => status \in {"verifying", "failed"}
    /\ outcome = "turn" => status \in {"ready", "completed", "failed"}
    /\ outcome = "raised" =>
            CASE entry = "loop"     -> status \in {"tool_pending", "tool_running", "verifying"}
              [] entry = "operator" -> status = "tool_running"
              [] OTHER              -> status \in {"ready", "failed", "awaiting_gate",
                                                  "tool_pending", "tool_running"}

\* What a caller of the loop was told is what the log says until it grows again; an
\* exception leaves the loop only from authorize(), the executor or the resolver.
ReturnsAgree ==
    returned.length = Len(log) => Fitting(returned.entry, returned.outcome, run.status)

\* No operation takes the run any further: a request without a decision on record,
\* or a started tool whose effect may neither be repeated nor is known.
Stranded ==
    \/ At("idle") /\ run.status = "tool_pending"
    \/ /\ At("idle") \/ At("execute")
       /\ run.status = "tool_running"
       /\ Unexecutable(run.call, RequestOf(run.call).content)

ReusedForOther(call) ==
    \E i, j \in Of("tool.requested") :
        log[i].call = call /\ log[j].call = call /\ log[i].content # log[j].content

\* The last call ended with an exception, and nothing is stored since.
Raised == returned.outcome = "raised" /\ returned.length = Len(log)

\* A run is stranded only by a crash or an exception, between a request and its
\* decision or inside a tool that may not be retried, or by a call id that names two
\* contents; never behind a call that returned.
StrandedHasCause ==
    Stranded =>
        \/ run.status = "tool_pending" /\ (crashes > 0 \/ Raised)
        \/ /\ run.status = "tool_running"
           /\ \/ /\ crashes > 0 \/ Raised
                 /\ RequestOf(run.call).content \notin Idempotent
              \/ ReusedForOther(run.call)

(* Refinement and progress.                                                *)

Protocol == INSTANCE ModelTurns

\* The loop keeps the turn protocol across crashes and beside the one-turn entry
\* points: one adapter call per turn, and its durable action is what the run acts on.
ImplementsTurns == Protocol!Spec

\* A supervised run ends, waits for a human, or is stranded for good.
RunSettles ==
    <>[](run.status \in Terminal \/ run.status = "awaiting_gate" \/ Stranded)
=============================================================================
