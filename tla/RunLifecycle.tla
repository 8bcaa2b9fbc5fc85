---------------------------- MODULE RunLifecycle ----------------------------
(***************************************************************************)
(* One run driven by its events.  Writers offer events of every type; the  *)
(* reducer accepts or rejects each, and "log" is the history of what it    *)
(* accepted.  A rejected event changes nothing, so it is no step.  Writers *)
(* are not trusted: they may name an old gate proposal, an old model       *)
(* action, any step, or a sequence number that is not the next one.        *)
(***************************************************************************)
EXTENDS RunReducer, FiniteSets

CONSTANTS Budgets,        \* max_steps values a run may be created with, 0 = none
          Modes,          \* ownership modes an escalation may carry
          AttemptLimits,  \* USER_GATE attempt limits
          MaxRevision,    \* bound: proposal revisions offered
          MaxStep,        \* bound: step ids offered
          MaxEvents       \* bound: events accepted

ASSUME LifecycleAssumption ==
    /\ Budgets \subseteq Nat
    /\ Modes \subseteq GateModes
    /\ AttemptLimits \subseteq Nat \ {0}
    /\ MaxRevision \in Nat /\ MaxStep \in Nat /\ MaxEvents \in Nat

VARIABLES run, log
vars == <<run, log>>

Revisions == 1..MaxRevision
Steps == 0..MaxStep

\* The proposed actions a writer may have seen.
SeenActions == {log[i].id : i \in {j \in 1..Len(log) : log[j].type = "model.action_proposed"}}

Init == run = InitialRun /\ log = <<>>

Deliver(e) ==
    /\ Len(log) < MaxEvents
    /\ Legal(run, e)
    /\ run' = Reduce(run, e)
    /\ log' = IF Redelivered(run, e) THEN log ELSE Append(log, e)

Create(n) == \E max \in Budgets :
    Deliver([type |-> "run.created", id |-> n, seq |-> n, max |-> max])

Start(n) == Deliver([type |-> "run.started", id |-> n, seq |-> n])

Pause(n) == Deliver([type |-> "run.paused", id |-> n, seq |-> n])

Resume(n) == Deliver([type |-> "run.resumed", id |-> n, seq |-> n])

Cancel(n) == Deliver([type |-> "run.cancelled", id |-> n, seq |-> n])

ExhaustBudget(n) == \E max \in Budgets, completed \in Steps :
    Deliver([type |-> "run.step_budget_exhausted", id |-> n, seq |-> n,
             max |-> max, completed |-> completed])

RequestAction(n) == \E step \in Steps, turn \in Steps, invocation \in Steps :
    Deliver([type |-> "model.action_requested", id |-> n, seq |-> n,
             step |-> step, turn |-> turn, invocation |-> invocation])

ProposeAction(n) == \E step \in Steps, turn \in Steps, invocation \in Steps :
    Deliver([type |-> "model.action_proposed", id |-> n, seq |-> n,
             step |-> step, turn |-> turn, invocation |-> invocation])

FailAction(n) == Deliver([type |-> "model.action_failed", id |-> n, seq |-> n])

Complete(n) ==
    \E type \in CompletionTypes, step \in Steps, action \in SeenActions \cup {0} :
        Deliver([type |-> type, id |-> n, seq |-> n, step |-> step, action |-> action])

RequestTool(n) == \E call \in Calls, step \in Steps, action \in SeenActions \cup {0} :
    Deliver([type |-> "tool.requested", id |-> n, seq |-> n,
             call |-> call, step |-> step, action |-> action])

Escalate(n) ==
    \E call \in Calls, digest \in Digests, revision \in Revisions, mode \in Modes,
       max \in AttemptLimits :
        Deliver([type |-> "tool.escalated", id |-> n, seq |-> n, call |-> call,
                 digest |-> digest, revision |-> revision, mode |-> mode, max |-> max])

Revise(n) ==
    \E call \in Calls, previous \in Digests, digest \in Digests,
       revision \in Revisions, from \in Revisions, mode \in Modes, max \in AttemptLimits :
        Deliver([type |-> "gate.revised", id |-> n, seq |-> n, call |-> call,
                 previousDigest |-> previous, previousRevision |-> from,
                 digest |-> digest, revision |-> revision, mode |-> mode, max |-> max])

Resolve(n) ==
    \E type \in {"gate.approved", "gate.rejected"}, call \in Calls, digest \in Digests,
       revision \in Revisions :
        Deliver([type |-> type, id |-> n, seq |-> n, call |-> call,
                 digest |-> digest, revision |-> revision])

Evaluate(n) ==
    \E call \in Calls, digest \in Digests, revision \in Revisions, max \in AttemptLimits :
    \E attempt \in 1..max, outcome \in {"pass", "retry", "block"} :
        Deliver([type |-> "gate.evaluated", id |-> n, seq |-> n, call |-> call,
                 digest |-> digest, revision |-> revision, max |-> max,
                 attempt |-> attempt, outcome |-> outcome])

RunTool(n) == \E type \in ToolTypes \ {"tool.requested"}, call \in Calls :
    Deliver([type |-> type, id |-> n, seq |-> n, call |-> call])

VerifyRun(n) == \E type \in VerificationTypes :
    Deliver([type |-> type, id |-> n, seq |-> n, scope |-> "run"])

VerifyStep(n) == \E step \in Steps :
    Deliver([type |-> "verification.succeeded", id |-> n, seq |-> n,
             scope |-> "step", step |-> step])

\* Sequence numbers a writer may offer: a late one, the next one, an early one.
Offered == {run.next - 1, run.next, run.next + 1}

Next == \E n \in Offered :
    \/ Create(n)        \/ Start(n)         \/ Pause(n)      \/ Resume(n)
    \/ Cancel(n)        \/ ExhaustBudget(n) \/ RequestAction(n)
    \/ ProposeAction(n) \/ FailAction(n)    \/ Complete(n)   \/ RequestTool(n)
    \/ Escalate(n)      \/ Revise(n)        \/ Resolve(n)    \/ Evaluate(n)
    \/ RunTool(n)       \/ VerifyRun(n)     \/ VerifyStep(n)

Spec == Init /\ [][Next]_vars
-----------------------------------------------------------------------------
(* Type invariant.                                                         *)

\* The run record has the shape RunState declares.
TypeOK == RunType(run)

(* Safety.                                                                 *)

\* Nothing of a finished turn, a resolved gate or a consumed model action leaks
\* into what follows (the resets scattered over the arms of _transition).
ActiveFieldsMatchStatus == FieldsMatchStatus(run)

\* While a USER_GATE waits, at least one attempt is left: the gate can still be
\* passed or blocked, whatever answers and revisions came before.
GateHasAttemptsLeft == AttemptsLeft(run)

\* The durable model step budget: no sequence of events completes more steps
\* than the run was created with, and a budgeted step in flight still fits.
BudgetRespected == BudgetKept(run)

Requests == {i \in 1..Len(log) : log[i].type = "model.action_requested"}

\* The Adapter is asked at most once per turn, so at most max_steps times: a
\* turn left by a proposal, a tool or a completion is never asked for again.
ModelAskedOncePerTurn ==
    /\ \A i, j \in Requests : log[i].turn = log[j].turn => i = j
    /\ run.max # 0 => Cardinality(Requests) <= run.max

Proposes(e) == e.type \in {"tool.escalated", "gate.revised"}

Releases(e) ==
    \/ e.type \in {"tool.authorized", "gate.approved"}
    \/ e.type = "gate.evaluated" /\ e.outcome = "pass"

\* p is the latest proposal before d.
LatestProposal(p, d) ==
    /\ p < d /\ Proposes(log[p])
    /\ \A j \in p+1..d-1 : ~Proposes(log[j])

\* A tool starts only under one decision on its own request: an authorization
\* with no proposal before it, or an approval or PASS that names the digest and
\* revision of the latest proposal and fits that proposal's mode.
StartsUnderLatestDecision ==
    \A i \in 1..Len(log) : log[i].type = "tool.started" =>
        \E r \in 1..i-1 : \E d \in r+1..i-1 :
            /\ log[r].type = "tool.requested" /\ Releases(log[d])
            /\ log[r].call = log[i].call /\ log[d].call = log[i].call
            /\ \A j \in r+1..i-1 : Releases(log[j]) => j = d
            /\ IF log[d].type = "tool.authorized"
               THEN \A j \in r+1..i-1 : ~Proposes(log[j])
               ELSE \E p \in r+1..d-1 :
                       /\ LatestProposal(p, d)
                       /\ log[p].digest = log[d].digest
                       /\ log[p].revision = log[d].revision
                       /\ (log[p].mode = "pair") <=> (log[d].type = "gate.approved")

\* The evaluations of the proposal at p, up to the next proposal or request.
Evaluations(p) ==
    {j \in p+1..Len(log) :
        /\ log[j].type = "gate.evaluated"
        /\ \A k \in p+1..j : ~Proposes(log[k]) /\ log[k].type # "tool.requested"}

\* A USER_GATE proposal is answered at most as often as its own limit allows,
\* and the answer that uses the limit up is a PASS or a BLOCK.
AttemptsWithinLimit ==
    \A p \in 1..Len(log) : Proposes(log[p]) =>
        LET answers == Evaluations(p)
        IN  /\ log[p].mode = "pair" => answers = {}
            /\ Cardinality(answers) <= log[p].max
            /\ \A j \in answers :
                    /\ Cardinality({k \in answers : k <= j}) = log[j].attempt
                    /\ log[j].attempt = log[p].max => log[j].outcome # "retry"

\* The accepted events are numbered without gap or repetition, which is what
\* lets the store order them and a snapshot name its prefix by one number.
SequenceIsDense ==
    /\ run.next = Len(log) + 1
    /\ \A i \in 1..Len(log) : log[i].seq = i

\* A stored reference to a model action is exact: a completion or a tool request
\* that names an action names the one pending at that moment.
ReferencesArePending ==
    \A i \in 1..Len(log) :
        log[i].type \in CompletionTypes \cup {"tool.requested"} /\ log[i].action # 0 =>
            i > 1 /\ log[i].action = log[i-1].id /\ log[i-1].type = "model.action_proposed"

StepEnds ==
    {i \in 1..Len(log) :
        \/ log[i].type \in CompletionTypes
        \/ log[i].type = "verification.succeeded" /\ log[i].scope = "step"}

\* Every consumed turn has evidence: the turn counter is the number of judged
\* completions and verified tool steps, and a verified step follows the success
\* of the very tool call that was requested for it.
StepsAreEvidenced ==
    /\ run.turn = Cardinality(StepEnds)
    /\ \A i \in StepEnds : log[i].type = "verification.succeeded" =>
        /\ i > 1 /\ log[i-1].type = "tool.succeeded"
        /\ \E r \in 1..i-1 :
              /\ log[r].type = "tool.requested"
              /\ log[r].step = log[i].step /\ log[r].call = log[i-1].call
              /\ \A j \in r+1..i-1 : log[j].type # "tool.requested"

(* Action properties.                                                      *)

\* A terminal run accepts nothing more, not even a cancellation.
TerminalIsFinal == [][run.status \in Terminal => run' = run /\ log' = log]_vars
=============================================================================
