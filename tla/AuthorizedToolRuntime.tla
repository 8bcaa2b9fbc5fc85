------------------------ MODULE AuthorizedToolRuntime ------------------------
(***************************************************************************)
(* AuthorizedToolRuntime: one run's event store, the reducer that replays  *)
(* it, the durable executor, and processes that call the runtime's tool    *)
(* and gate operations.  _append is what the code makes of it: a read of   *)
(* the log, the store's transaction, and a replay of the log it finds      *)
(* then; other processes, crashes and policy changes come between.  An     *)
(* operation's other reads (load_state and _load_active_request at its     *)
(* start) are one step.                                                    *)
(*                                                                         *)
(* The caller's local frame is its next event and the request it serves.   *)
(* Model actions, snapshots and free text are left out.                    *)
(***************************************************************************)
EXTENDS RunReducer, FiniteSets

CONSTANTS Callers,        \* processes that use the runtime
          Contents,       \* tool name and arguments of a request
          Idempotent,     \* contents whose registered tool is retry_is_idempotent
          Results,        \* receipt outcomes
          Policies,       \* what authorize() may do in a process: decide, or raise
          Operations,     \* runtime operations the callers use
          Disciplined,    \* callers look at the status before submit and verify
          Budget,         \* max_steps of the run, 0 = none
          AttemptLimit,   \* user_gate_max_attempts
          MaxEvents,      \* bound: log length at which no operation is begun
          MaxRevision,    \* bound: revisions of one request
          MaxCrashes      \* bound: crashes

Outcomes == {"succeeded", "failed", "timed_out"}

ASSUME RuntimeAssumption ==
    /\ Idempotent \subseteq Contents
    /\ Results \subseteq Outcomes
    /\ None \notin Contents \cup Results
    /\ Policies \subseteq {"deny", "allow", "raise"} \cup GateModes
    /\ Disciplined \in BOOLEAN
    /\ Budget \in Nat /\ AttemptLimit \in Nat \ {0}
    /\ MaxEvents \in Nat /\ MaxRevision \in Nat /\ MaxCrashes \in Nat

Requests == [call : Calls, content : Contents, step : 1..MaxEvents]

\* The digest of GateProposal.build binds the whole request, the ownership mode and
\* the revision.
Digest(request, mode, revision) == <<request, mode, revision>>

ASSUME DigestAssumption ==
    \A request \in Requests, mode \in GateModes, revision \in 1..MaxRevision+1 :
        Digest(request, mode, revision) \in Digests

VARIABLES log,         \* execution_events of the run
          run,         \* what load_state makes of log: Replay(log)
          policy,      \* per process: its AuthorizationContext
          caller,      \* per process: where it is and its local frame
          intents, receipts, exec, invocations, performed, returned, crashes
vars == <<log, run, policy, caller, intents, receipts, exec, invocations, performed,
          returned, crashes>>
stored == <<log, run>>
effects == <<intents, receipts, exec, invocations, performed, returned>>

Executor == INSTANCE ToolEffects
    WITH Workers <- Callers, Effects <- Calls, worker <- exec

Idle == [at |-> "idle", event |-> None, request |-> None]

Created == [type |-> "run.created", id |-> 1, seq |-> 1, max |-> Budget]
Started == [type |-> "run.started", id |-> 2, seq |-> 2]

\* The client has created and started the run.
Init ==
    /\ log = <<Created, Started>>
    /\ run = ReplayStep(ReplayStep(InitialRun, Created), Started)
    /\ policy \in [Callers -> Policies]
    /\ caller = [c \in Callers |-> Idle]
    /\ Executor!Init

-----------------------------------------------------------------------------
(* What the operations read.                                               *)

\* _load_active_request: the latest persisted request of the tool call.
RequestOf(call) ==
    LET i == CHOOSE i \in 1..Len(log) :
                /\ log[i].type = "tool.requested" /\ log[i].call = call
                /\ \A j \in i+1..Len(log) :
                        log[j].type = "tool.requested" => log[j].call # call
    IN  [call |-> call, content |-> log[i].content, step |-> log[i].step]

\* References a reviewer may hold: those of every persisted proposal.
References ==
    {[call |-> log[i].call, digest |-> log[i].digest, revision |-> log[i].revision] :
        i \in {j \in 1..Len(log) : log[j].type \in {"tool.escalated", "gate.revised"}}}

\* _validate_reference
Matches(s, reference) ==
    /\ s.status = "awaiting_gate"
    /\ reference.call = s.call
    /\ reference.digest = s.gate.digest
    /\ reference.revision = s.gate.revision

\* Mutant: an answer is taken without asking the policy again.
AllowedOnce(c, request, reference) == TRUE

\* Under the process's policy the proposal may still be released.
StillAllowed(c, request, reference) ==
    \/ policy[c] = "allow"
    \/ policy[c] \in GateModes
        /\ Digest(request, policy[c], reference.revision) = reference.digest

-----------------------------------------------------------------------------
(* Frames.                                                                 *)

Leave(c) == caller' = [caller EXCEPT ![c] = Idle]

\* The process goes on to _append this event for this request.
Appending(event, request) == [at |-> "read", event |-> event, request |-> request]

Going(c, event, request) == caller' = [caller EXCEPT ![c] = Appending(event, request)]

CanBegin(c, operation) ==
    /\ caller[c].at = "idle"
    /\ operation \in Operations
    /\ Len(log) < MaxEvents
    /\ run # Rejected

Proposal(type, request, mode, revision) ==
    [type |-> type, call |-> request.call, mode |-> mode, revision |-> revision,
     digest |-> Digest(request, mode, revision), max |-> AttemptLimit]

ToolEvent(type, request) == [type |-> type, call |-> request.call]

\* Mutant: a timeout is recorded as a success.
TimeoutAsSuccess(result, request) ==
    ToolEvent([succeeded |-> "tool.succeeded", failed |-> "tool.failed",
               timed_out |-> "tool.succeeded"][result], request)

OutcomeEvent(result, request) ==
    ToolEvent([succeeded |-> "tool.succeeded", failed |-> "tool.failed",
               timed_out |-> "tool.timed_out"][result], request)

\* submit, after the request is on record: what authorize() decided.
Decision(c, request) ==
    CASE policy[c] = "deny"  -> ToolEvent("tool.denied", request)
      [] policy[c] = "allow" -> ToolEvent("tool.authorized", request)
      [] OTHER               -> Proposal("tool.escalated", request, policy[c], 1)

-----------------------------------------------------------------------------
(* The operations' beginnings: reads and checks before the first _append.  *)

\* submit itself looks at nothing; its callers may have looked at the status.
Submit(c, call, content, step) ==
    LET request == [call |-> call, content |-> content, step |-> step]
    IN  /\ CanBegin(c, "submit")
        /\ Disciplined => run.status = "ready" /\ BudgetAvailable(run)
                                /\ step = run.turn + 1
        /\ Going(c, [type |-> "tool.requested", call |-> call, content |-> content,
                     step |-> step, action |-> 0], request)
        /\ UNCHANGED <<stored, policy, effects, crashes>>

\* resolve_gate(reject)
Reject(c, reference) ==
    /\ CanBegin(c, "resolve")
    /\ Matches(run, reference)
    /\ Going(c, [type |-> "gate.rejected", call |-> reference.call,
                 digest |-> reference.digest, revision |-> reference.revision],
             RequestOf(reference.call))
    /\ UNCHANGED <<stored, policy, effects, crashes>>

\* resolve_gate(approve)
Approve(c, reference) ==
    /\ CanBegin(c, "resolve")
    /\ Matches(run, reference) /\ run.gate.mode # "user_gate"
    /\ StillAllowed(c, RequestOf(reference.call), reference)
    /\ Going(c, [type |-> "gate.approved", call |-> reference.call,
                 digest |-> reference.digest, revision |-> reference.revision],
             RequestOf(reference.call))
    /\ UNCHANGED <<stored, policy, effects, crashes>>

\* The evaluator's verdict; at the limit a RETRY becomes a BLOCK.
Verdict(attempt, max, outcome) ==
    IF outcome = "retry" /\ attempt >= max THEN "block" ELSE outcome

\* submit_gate_answer
Answer(c, reference, outcome) ==
    LET attempt == run.gate.attempts + 1
    IN  /\ CanBegin(c, "answer")
        /\ Matches(run, reference) /\ run.gate.mode = "user_gate"
        /\ StillAllowed(c, RequestOf(reference.call), reference)
        /\ Going(c, [type |-> "gate.evaluated", call |-> reference.call,
                     digest |-> reference.digest, revision |-> reference.revision,
                     attempt |-> attempt, max |-> run.gate.max,
                     outcome |-> Verdict(attempt, run.gate.max, outcome)],
                 RequestOf(reference.call))
        /\ UNCHANGED <<stored, policy, effects, crashes>>

NextRevision(revision) == revision + 1

\* revise_gate
Revise(c, reference) ==
    LET revision == NextRevision(reference.revision)
        request == RequestOf(reference.call)
        proposal == Proposal("gate.revised", request, policy[c], revision)
    IN  /\ CanBegin(c, "revise")
        /\ reference.revision < MaxRevision
        /\ Matches(run, reference)
        /\ policy[c] \in GateModes
        /\ Going(c, [type |-> "gate.revised", call |-> reference.call,
                     previousDigest |-> reference.digest,
                     previousRevision |-> reference.revision,
                     digest |-> proposal.digest, revision |-> revision,
                     mode |-> proposal.mode, max |-> proposal.max], request)
        /\ UNCHANGED <<stored, policy, effects, crashes>>

\* Mutant: recovery does not look at the status.
RecoverAnyCall(c) ==
    /\ caller[c].at = "idle" /\ "recover" \in Operations
    /\ run # Rejected /\ run.call # None
    /\ caller' = [caller EXCEPT ![c] =
            [at |-> "execute", event |-> None, request |-> RequestOf(run.call)]]
    /\ UNCHANGED <<stored, policy, effects, crashes>>

\* Mutant: recovery starts the tool again, whether or not it was started.
RecoverByStarting(c) ==
    /\ caller[c].at = "idle" /\ "recover" \in Operations
    /\ run.status \in {"tool_ready", "tool_running"}
    /\ Going(c, ToolEvent("tool.started", RequestOf(run.call)), RequestOf(run.call))
    /\ UNCHANGED <<stored, policy, effects, crashes>>

\* Mutant: recovery knows only calls that were not started.
RecoverReadyOnly(c) ==
    /\ caller[c].at = "idle" /\ "recover" \in Operations
    /\ run.status = "tool_ready"
    /\ Going(c, ToolEvent("tool.started", RequestOf(run.call)), RequestOf(run.call))
    /\ UNCHANGED <<stored, policy, effects, crashes>>

\* recover
Recover(c) ==
    LET request == RequestOf(run.call)
    IN  /\ caller[c].at = "idle" /\ "recover" \in Operations
        /\ \/ /\ run.status = "tool_ready"
              /\ Going(c, ToolEvent("tool.started", request), request)
           \/ /\ run.status = "tool_running"
              /\ caller' = [caller EXCEPT ![c] =
                    [at |-> "execute", event |-> None, request |-> request]]
        /\ UNCHANGED <<stored, policy, effects, crashes>>

\* record_verification of the run itself: again, only callers look at the status.
VerifyRun(c, type) ==
    /\ CanBegin(c, "verify")
    /\ Disciplined => run.status = "verifying"
    /\ Going(c, [type |-> type, scope |-> "run"], None)
    /\ UNCHANGED <<stored, policy, effects, crashes>>

\* record_step_verification of a passed step
VerifyStep(c) ==
    /\ CanBegin(c, "verify")
    /\ run.status = "verifying" /\ run.step # 0
    /\ Going(c, [type |-> "verification.succeeded", scope |-> "step",
                 step |-> run.step], None)
    /\ UNCHANGED <<stored, policy, effects, crashes>>

-----------------------------------------------------------------------------
(* _append.                                                                *)

\* load_state: the event gets its number, and its id from it.
Numbered(e, n) ==
    [field \in DOMAIN e \cup {"id", "seq"} |-> IF field \in {"id", "seq"} THEN n ELSE e[field]]

Read(c) ==
    /\ caller[c].at = "read"
    /\ run # Rejected
    /\ caller' = [caller EXCEPT
            ![c].at = "append",
            ![c].event = Numbered(@, run.next)]
    /\ UNCHANGED <<stored, policy, effects, crashes>>

ReadRejected(c) ==
    /\ caller[c].at = "read"
    /\ run = Rejected
    /\ Leave(c)
    /\ UNCHANGED <<stored, policy, effects, crashes>>

\* The id, made of run, number and type, is taken.
Known(e) == e.seq <= Len(log) /\ log[e.seq].type = e.type

\* Mutant: the store takes an event whatever its number.
AnySequence(e) == TRUE

InSequence(e) == ~Known(e) /\ e.seq = Len(log) + 1

Store(c) ==
    /\ caller[c].at = "append"
    /\ InSequence(caller[c].event)
    /\ log' = Append(log, caller[c].event)
    /\ run' = ReplayStep(run, caller[c].event)
    /\ caller' = [caller EXCEPT ![c].at = "confirm"]
    /\ UNCHANGED <<policy, effects, crashes>>

\* The same content at the same clock reading is an exact redelivery.
StoreRedelivered(c) ==
    /\ caller[c].at = "append"
    /\ Known(caller[c].event) /\ log[caller[c].event.seq] = caller[c].event
    /\ caller' = [caller EXCEPT ![c].at = "confirm"]
    /\ UNCHANGED <<stored, policy, effects, crashes>>

\* DuplicateEventConflictError (other content, or another clock reading) or
\* SequenceError.
StoreRefused(c) ==
    /\ caller[c].at = "append"
    /\ ~InSequence(caller[c].event)
    /\ Leave(c)
    /\ UNCHANGED <<stored, policy, effects, crashes>>

\* replay of the log as it is now, then on to what the operation does next.
Releases(e) ==
    \/ e.type \in {"tool.authorized", "gate.approved"}
    \/ e.type = "gate.evaluated" /\ e.outcome = "pass"

Confirm(c) ==
    LET e == caller[c].event
        request == caller[c].request
    IN  /\ caller[c].at = "confirm"
        /\ run # Rejected
        /\ \/ e.type = "tool.requested" /\ policy[c] # "raise"
                /\ Going(c, Decision(c, request), request)
           \/ Releases(e) /\ Going(c, ToolEvent("tool.started", request), request)
           \/ e.type = "tool.started" /\ caller' = [caller EXCEPT ![c].at = "execute"]
           \/ /\ e.type \notin {"tool.requested", "tool.started"} /\ ~Releases(e)
              /\ Leave(c)
        /\ UNCHANGED <<stored, policy, effects, crashes>>

\* The request is stored, and authorize() raises instead of deciding: for a path it
\* cannot resolve, or a step id no PlanStep takes.
AuthorizeRaises(c) ==
    /\ caller[c].at = "confirm"
    /\ run # Rejected
    /\ caller[c].event.type = "tool.requested" /\ policy[c] = "raise"
    /\ Leave(c)
    /\ UNCHANGED <<stored, policy, effects, crashes>>

\* The event is stored, and the reducer refuses the log.
ConfirmRejected(c) ==
    /\ caller[c].at = "confirm"
    /\ run = Rejected
    /\ Leave(c)
    /\ UNCHANGED <<stored, policy, effects, crashes>>

-----------------------------------------------------------------------------
(* _execute: the executor's steps, and the event of the receipt.           *)

Execute(c) ==
    LET request == caller[c].request
    IN  /\ caller[c].at = "execute"
        /\ Executor!Deliver(c, request.call, request.content)
        /\ caller' = [caller EXCEPT ![c].at = "executing"]
        /\ UNCHANGED <<stored, policy>>

ExecutorSteps(c) ==
    /\ caller[c].at = "executing"
    /\ \/ Executor!LoadIntent(c) \/ Executor!SaveIntent(c) \/ Executor!Retry(c)
       \/ Executor!Invoke(c)     \/ \E r \in Results : Executor!Finish(c, r)
    /\ UNCHANGED <<stored, policy, caller>>

ExecutorReturns(c) ==
    LET request == caller[c].request
    IN  /\ caller[c].at = "executing"
        /\ Executor!ReturnReceipt(c) \/ Executor!SaveReceipt(c)
        /\ Going(c, OutcomeEvent(receipts'[request.call], request), request)
        /\ UNCHANGED <<stored, policy>>

ExecutorRaises(c) ==
    /\ caller[c].at = "executing"
    /\ \/ Executor!RefuseIntent(c) \/ Executor!RefuseRetry(c)
       \/ Executor!RefuseOutput(c) \/ Executor!RefuseReceipt(c)
    /\ Leave(c)
    /\ UNCHANGED <<stored, policy>>

\* A process dies inside an operation; the next one may run with another policy.
Crash(c) ==
    /\ caller[c].at # "idle"
    /\ Executor!Crash(c)
    /\ Leave(c)
    /\ UNCHANGED <<stored, policy>>

ChangePolicy(c, p) ==
    /\ caller[c].at = "idle"
    /\ policy' = [policy EXCEPT ![c] = p]
    /\ UNCHANGED <<stored, caller, effects, crashes>>

-----------------------------------------------------------------------------
Begin(c) ==
    \/ \E call \in Calls, content \in Contents, step \in 1..MaxEvents :
            Submit(c, call, content, step)
    \/ \E reference \in References :
            \/ Reject(c, reference) \/ Approve(c, reference) \/ Revise(c, reference)
            \/ \E outcome \in {"pass", "retry", "block"} : Answer(c, reference, outcome)
    \/ Recover(c)
    \/ \E type \in VerificationTypes : VerifyRun(c, type)
    \/ VerifyStep(c)

\* What a process does on its own inside an operation.
Run(c) ==
    \/ Read(c)          \/ ReadRejected(c)
    \/ Store(c)         \/ StoreRedelivered(c) \/ StoreRefused(c)
    \/ Confirm(c)       \/ AuthorizeRaises(c)  \/ ConfirmRejected(c)
    \/ Execute(c)       \/ ExecutorSteps(c)
    \/ ExecutorReturns(c) \/ ExecutorRaises(c)

Next == \E c \in Callers :
    \/ Begin(c)
    \/ Run(c)
    \/ Crash(c)
    \/ \E p \in Policies : ChangePolicy(c, p)

Spec == Init /\ [][Next]_vars

\* The tool of a call returns something a receipt can hold.
ToolAnswers(c, call) ==
    /\ caller[c].at = "executing"
    /\ Executor!Answer(c, call)
    /\ UNCHANGED <<stored, policy, caller>>

\* A process inside an operation goes on, its tool returning or timing out, and
\* somebody calls recover again and again while there is something to recover.  A
\* tool that is run again and again returns a storable output some time.
FairSpec ==
    /\ Spec
    /\ \A c \in Callers : WF_vars(Run(c))
    /\ SF_vars(\E c \in Callers : Recover(c))
    /\ \A call \in Calls : SF_vars(\E c \in Callers : ToolAnswers(c, call))
-----------------------------------------------------------------------------
Places == {"idle", "read", "append", "confirm", "execute", "executing"}

\* The log is numbered densely, frames hold what their place needs, and a log that
\* replays yields a well-typed run.
TypeOK ==
    /\ \A i \in 1..Len(log) : log[i].seq = i /\ log[i].id = i /\ log[i].type \in EventTypes
    /\ policy \in [Callers -> Policies]
    /\ DOMAIN caller = Callers
    /\ \A c \in Callers :
        /\ caller[c].at \in Places
        /\ caller[c].request \in Requests \cup {None}
        /\ caller[c].at \in {"execute", "executing"} => caller[c].request \in Requests
        /\ (caller[c].at = "executing") <=> (exec[c].at # "idle")
        /\ caller[c].at \in {"read", "append", "confirm"} =>
                caller[c].event.type \in EventTypes
    /\ run = Rejected \/ RunType(run)
    /\ run = Replay(log)
    /\ Executor!TypeOK

\* Whatever is stored can be replayed: no operation, crash or policy change leaves
\* an event behind that the reducer refuses (and with it a run nobody can load).
LogReplays == run # Rejected

\* What ran is what was released: a tool was invoked only with the content of a
\* persisted request that one decision released and that was recorded as started
\* in a log the reducer accepts; a human decision names the digest of that request.
PerformedAsReleased ==
    \A call \in Calls : \A content \in performed[call] :
        \E r \in 1..Len(log) : \E d \in r+1..Len(log) : \E i \in d+1..Len(log) :
            /\ log[r].type = "tool.requested"
            /\ log[r].call = call /\ log[r].content = content
            /\ Releases(log[d]) /\ log[d].call = call
            /\ log[d].type # "tool.authorized" =>
                  log[d].digest[1] = [call |-> call, content |-> content, step |-> log[r].step]
            /\ log[i].type = "tool.started" /\ log[i].call = call
            /\ Replay(SubSeq(log, 1, i)) # Rejected

\* The log never says of a tool call what its durable receipt does not say,
\* however many processes execute or recover it.
OutcomesOnRecord ==
    \A i \in 1..Len(log) :
        log[i].type \in {"tool.succeeded", "tool.failed", "tool.timed_out"} =>
            LET receipt == receipts[log[i].call]
            IN  /\ receipt # None
                /\ (log[i].type = "tool.succeeded") <=> (receipt = "succeeded")
                /\ (log[i].type = "tool.timed_out") <=> (receipt = "timed_out")

\* A proposal has at most one successor on record.
RevisedOnce ==
    \A i, j \in 1..Len(log) :
        /\ log[i].type = "gate.revised" /\ log[j].type = "gate.revised"
        /\ log[i].call = log[j].call /\ log[i].previousDigest = log[j].previousDigest
        => i = j

\* What the policy of the process, as it is now, lets it release: anything, or the
\* very proposal it would make of the request.
PolicyReleases(c, e, request) ==
    \/ policy[c] = "allow"
    \/ /\ policy[c] \in GateModes /\ e.type # "tool.authorized"
       /\ e.digest = Digest(request, policy[c], e.revision)

\* A call is released only by a process whose policy, at that moment, releases it:
\* an answer given to a proposal made before a restart under a stricter or another
\* policy does not become durable (resolve_gate and submit_gate_answer authorize
\* again; recover, which releases nothing, does not).
ReleasedUnderPolicy ==
    [][\A c \in Callers :
        /\ caller[c].at = "append" /\ caller'[c].at = "confirm"
        /\ Releases(caller[c].event)
        => PolicyReleases(c, caller[c].event, caller[c].request)]_vars

\* A released call whose tool may be retried, and whose id is not taken by another
\* content, gets its outcome on record in the end, across crashes.
Releasable ==
    /\ run.status \in {"tool_ready", "tool_running"}
    /\ LET request == RequestOf(run.call)
       IN  request.content \in Idempotent
           /\ intents[run.call] \in {None, request.content}

ReleasedSettles == Releasable ~> run.status \notin {"tool_ready", "tool_running"}
=============================================================================
