# Agent Runtime Lab in TLA+

This directory models the deterministic core of `agent_runtime_lab`: the event
reducer, the durable tool executor, the runtime that joins the two under
authorization and human gates, the model loop on top of it, the snapshots beside
it, and the restricted file tools below it. TLC checks the models on small
instances; TLAPS proves the central results for every value of the constants.

Paths below are relative to `src/agent_runtime_lab/` of the repository.

## 1. The system

A *run* is a sequence of immutable events in a SQLite table. Its state is never
stored as such: it is what `replay` makes of the events. Tools are the only way
to change the outside world, and each invocation is bracketed by an *intent* and
a *receipt* in a second table. A request for a tool is authorized under a
trusted policy, and may have to wait at a gate for a human decision.

| Component | State | Operations | Correct when |
|---|---|---|---|
| Events and run state (`domain/events.py`, `domain/state.py`) | one `RunState`: status, next sequence, turn, budget, active step, call, gate, model invocation and action, applied fingerprints | construction, `fingerprint_for` | fields are set exactly when the status uses them |
| Reducer, replay (`domain/reducer.py`, `domain/replay.py`) | none: pure | `reduce`, `replay`, `replay_tail` | terminal runs are final, numbering is dense, budgets and attempt limits hold, tools start only under a current decision |
| Event store (`persistence/sqlite_store.py`) | `execution_events`, `run_snapshots` | `append`, `load`, `load_tail`, `save_snapshot`, `load_snapshot` | sequence without gaps, one event per id, exact redelivery coalesces, snapshot + tail = full replay |
| Effect store (`persistence/sqlite_tool_effect_store.py`, `domain/tool_effects.py`) | `tool_intents`, `tool_receipts` | `save_intent`, `load_intent`, `save_receipt`, `load_receipt`, migration | records are final, a receipt has an intent |
| Durable executor (`durable_tool_executor.py`, `tool_registry.py`, `tool_recovery.py`) | local to one call | `execute`, `load_receipt` | an effect that may not be retried happens at most once, across crashes |
| Authorized runtime (`authorized_tool_runtime.py`) | none of its own: both stores, and a trusted `AuthorizationContext` per process | `submit`, `resolve_gate`, `submit_gate_answer`, `revise_gate`, `recover`, verification, completion, model actions, snapshots | what runs was released, what is stored replays, a released call settles |
| Gates, authorization, policy, risk (`ownership/`) | none: pure | `authorize`, `classify_step`, `GateProposal.build`, `evaluate_gate` | a decision binds the exact request |
| Agents (`fake_agent.py`, `model_adapter.py`) | local to one call | `FakeAgent.run`, `recover_verification`, `run_tool_turn`, `run_completion_turn`, `run_loop`, `resume_loop` | the model is asked once per turn, a persisted action is resumed under the context it was asked in, callers are told what the log says |
| Verification, completion (`verification.py`, `completion.py`) | none: pure | `verify` | a run completes on evidence only |
| Restricted file tools (`restricted_file_tools.py`) | the workspace's files, staging files | read, write, delete | what is touched is what was judged; a file changes as a whole; no staging file is forgotten |
| Trace, provider adapter (`trace.py`, `openai_compatible_adapter.py`) | none | summaries; one HTTP request | - |

How they interact: an agent calls the runtime; every runtime operation reads the
log and calls `_append` one or more times; `_append` reads the log, numbers an
event, gives it to the store's transaction, and replays the log it finds then;
an allowed or released request goes to the executor, whose receipt becomes one
more event. All state that outlives a process is in the two tables. Processes
share nothing else and take no lock across two store calls.

What is hard here, and where the properties aim: two processes between each
other's store calls; a process that dies between two of them; an operation that
validates against one read of the log and appends against a later one; an event
that is durable before it is known to be legal; stale references of reviewers and
models; the resets of a turn's fields, scattered over the arms of `_transition`;
counters at their limits; and recoveries that must neither repeat nor lose a
call. `PROJECT.json` lists each at its line, with the properties that watch it.

## 2. Modules

```
 RunReducer  ............ reduce / replay as operators (no variables)
   |- RunLifecycle ...... one run, events offered by untrusted writers
   |    `- MCRunLifecycle
   |- AuthorizedToolRuntime . stores, runtime operations, processes
   |    |- MCAuthorizedToolRuntime
   |    `- INSTANCE ToolEffects    (the executor inside it)
   |- ModelLoop ......... the agent's loop and one-turn calls, gates, recovery
   |    |- MCModelLoop
   |    `- INSTANCE ModelTurns     (what it promises)
   |- SnapshotStore ..... load_state / create_snapshot beside appends
   |    `- MCSnapshotStore
   `- RunReducer_proofs ... lemmas about one event
        |- RunLifecycle_proofs
        |- SnapshotStore_proofs
        |- ModelLoop_proofs
        |    `- ModelEvidence_proofs (INSTANCE RunLifecycle_proofs)
        `- AuthorizedToolRuntime_proofs (INSTANCE ToolEffects_proofs, RunLifecycle_proofs)
 ToolEffects ............ the durable executor over its store
   |- INSTANCE EffectJournal  (what it promises)
   `- ToolEffects_proofs
 Authorization .......... boundary, risk, ownership, gate answers (no variables)
   `- RestrictedFiles ... the file tools behind it, on a file system
        |- MCRestrictedFiles
        `- RestrictedFiles_proofs
```

**RunReducer.** A run record has one field per field of `RunState` that the
reducer reads; the four gate fields are one record. Each family of event types has
a `...Guard` (the conditions under which its arms of `_transition` raise nothing)
and a `...Effect` (their `replace`). `Legal` and `Reduce` are `reduce`; `Replay`
is `replay`, and `Rejected` stands for the exception it raises. Sequence numbers
are the code's plus one, so that a sequence's index is its event's number and 0
can stand for `None`. An event id is its number; the code's also holds the run and
the type, and `Known` in AuthorizedToolRuntime compares the type. Free text and
`run_id` are left out: one run is modelled.

**RunLifecycle** has one action per kind of event. Its writers are not trusted:
they offer any call, digest, revision, step and model action from the bounded sets,
and sequence numbers one too low, right, and one too high. An event the reducer
refuses changes nothing, so it is not a step. `log` is the history of accepted
events, which the properties compare with the run.

**ToolEffects** is `DurableToolExecutor.execute`, one action per transaction of the
effect store, with the tool between two of them: `Deliver` (the call), `LoadIntent`,
`SaveIntent`/`RefuseIntent`, `ReturnReceipt`/`Retry`/`RefuseRetry` (load of the receipt
and `decide_recovery`), `Invoke`, `Finish`/`RefuseOutput`,
`SaveReceipt`/`RefuseReceipt`. `RefuseOutput` is the output that is not JSON: the tool
has acted, `ToolReceipt.build` raises outside the `try`, and no receipt is written.
`Crash` drops a process's local state at any point; the checkpoints of
`ExecutionCheckpoint` are three of them. As in the code, what a process does after
`save_intent` depends on what it *loaded*, not on whether `save_intent` inserted
anything. `invocations` and `performed` are the outside world; `returned` is what
callers were told. Since an effect may now be invoked any number of times without a
receipt, `invocations` stops at 2, which stands for "again" (`Counted`).

**EffectJournal** is the abstract specification: an effect is intended once,
attempted (again only when its tool declares that idempotent) and settled once.

**AuthorizedToolRuntime** composes the event store, the reducer, the executor
(`Executor == INSTANCE ToolEffects`) and several processes. A runtime operation is
a `Begin` action (its reads and checks) followed by the steps of `_append`: `Read`
(load the state, number the event), `Store` / `StoreRedelivered` / `StoreRefused`
(the store's transaction) and `Confirm` / `ConfirmRejected` (the replay after it,
and what the operation does next), and then possibly `Execute`, the executor's own
steps, and the outcome's `_append`. Between any two steps other processes may
act, a process may crash, and an idle process may come back with another policy.
Under the policy "raise", `authorize` raises instead of deciding: in `submit` with the
request already stored (`AuthorizeRaises`), elsewhere before anything is.
`run` is a cache of `Replay(log)` kept by `Store`; `TypeOK` checks that it is.
A frame (`caller[c]`) is what the operation holds in local variables.
`Disciplined` says whether callers look at the run's status before `submit` and
`record_verification`, as the model loop does, or do not, as `FakeAgent.run`
does; the two operations themselves look at nothing.

**ModelLoop** is `ModelDrivenFakeAgent` over the runtime: `run_loop` and `resume_loop`
with every step of `_continue_loop` an action of its own (`FailUnknown`, `LoadPending`,
`BuildInput`, `ExhaustBudget`, `BeginAction`, `Ask`, the adapter's answer, `Persist`,
`Complete`, `RequestTool` and the tool call's steps, `PassStep`/`FailStep`), each
exception that leaves a call between two of them (`AuthorizeRaises` after the request is
stored, `OutputRefused` after the tool ran, `ExpectationRaises` for a resolver that
raises or returns no expectation, in the loop and in `resume_loop`; `AdapterRaises` and
`ExecutorRaises`), the two one-turn entry points (`RunTurn`), and between calls
`Recover`, `ReleaseGate` and `CloseGate`. A crash may come between any two of them,
which includes every `ModelLoopCheckpoint`. The adapter may answer any action, reuse a
call id, misfit the turn or raise. Here `_append` is one step: one process acts at a
time and nothing comes between its reads; the interleavings inside `_append` are
AuthorizedToolRuntime's subject, and so are gate retries and revisions, which the loop
cannot tell from a gate still open. `calls`, `seen`, `chosen` and `spent` are history
variables per turn; `returned` is what a caller was told and how long the log was then.

**ModelTurns** is the abstract specification of the durable model-action boundary:
turns in order; in a turn the loop calls the adapter at most once, fixes one action
and spends exactly that; a one-turn entry point may take a turn the loop has not
called for. It is the subject of the R4j-d design document.

**SnapshotStore** has every query of `load_state` and `create_snapshot` as a step: the
row, its prefix digest, the tail or the whole log, each event of the replay, and in
`save_snapshot` the prefix, the log and the write. Several processes append, load and
save; a row may be damaged, come from an older schema or from another history of the run
(`Elsewhere`). The events offered to the log are any set of events of the reducer's
types (`Events`): a process may store what the reducer refuses. A chain digest is the
prefix it digests. `states` is the history of replays the properties compare with.

**Authorization** is `authorize` with `WorkspaceBoundary.normalize`, the risk rules,
`classify_step` and `evaluate_gate`, as operators over a tree of directories, files
and links, where `Loops` is the link to itself for which `Path.resolve` raises before
Python 3.13. **RestrictedFiles** follows a request from `authorize` over its gate to
the system calls of the file tool: the walk over the path's components, the checks of
the parent and the target, and for a write staging, filling, replacing and the
cleanup of the `finally` block, each of which may fail (`Fail`; a component, parent or
target that exists may also fail to be inspected). `Submit` may end with an exception of
`authorize`: for such a loop, or for a step id `PlanStep` refuses. Other workers and a benign
editor change the same files in between. Links exist from the start: the repository's
README leaves a program that plants them during the checks out of what the tools
claim, and so does the model. The code's loops over path components and over rules are
recursive functions of the path and the rule list; a `.` component is skipped where the
code's loop says `continue`, in `resolve` and in the walk alike.

Abstractions to know of: in AuthorizedToolRuntime and ModelLoop, `authorize()` is the
policy's outcome for every request (deny, allow, or an escalation mode), so a policy
never tells two requests apart there (RestrictedFiles does); `evaluate_gate` is a free
choice of PASS, RETRY or BLOCK; a digest is the tuple it hashes; an operation's first
reads (`load_state`, `_load_active_request`) are one step, while those of `_append`
in AuthorizedToolRuntime are not; the clock is folded into redelivery: two
processes that store the same content either coincide or conflict. A pattern of a
risk rule is the set of paths it matches. The executor's registry resolves every tool that
the registry of `authorize` resolves. `os.path.lexists` tells the truth: an `OSError` inside
it, which Python reports as absence, is not modelled; one of the `lstat` after it is.

## 3. Runs

| Run | Question | Bounds |
|---|---|---|
| `lifecycle` | Can any order of events start a tool under a stale decision, leak a field, overrun a budget or an attempt limit, or count a step without evidence? | 2 calls, 2 digests, 2 revisions, limits 1 and 2, no budget or 1, steps up to 3, logs of 11: two requests of which one is escalated, revised and answered, or a full step and the beginning of one beyond the budget |
| `lifecycle_stale_action` | Is a stale model-action reference always refused? **No** | 1 call, budgets none, 1 and 2, no gates, logs of 10: the reference of a first turn is stale in the second |
| `tool_effects` | One process, crashes anywhere: at most once, journal, settling | 2 effects, 2 contents (one idempotent), 2 results, 3 crashes: more than the steps of one execution can be interrupted |
| `tool_effects_shared` | What survives two racing processes? | 2 processes, 1 effect, 2 contents, 2 results, 2 crashes |
| `tool_effects_race` | Is at most once among what survives? **No** | the same, no crash |
| `runtime_single` | One disciplined process: does all it stores replay, is a call released only under the policy of that moment, do calls settle? | 2 calls, 2 contents, 5 policies ("raise" among them), budget 2, 2 attempts, 2 revisions, 2 crashes, no operation begun at 9 events (a full gated call with its verification takes 8, so a second one follows) |
| `runtime_shared` | Two processes that do not coordinate: what is still true? | 1 call, 2 contents, 2 results, policies allow and pair, no operation begun at 5 events (operations under way go on) |
| `runtime_poisoned_log` | Does a stored event always replay without discipline? **No** | 1 process that only submits, policy deny |
| `runtime_concurrent_revision` | With two disciplined processes, is a proposal revised once? **No** | 2 processes, 6 events |
| `model_loop` | Does the loop keep its turns, contexts, evidence and return values across crashes and beside one-turn calls, and does a supervised run settle? | 3 entry points, 2 calls, 2 contents (one idempotent), 2 answers, all decisions and exceptions, budget 2 (a call id can be reused in the second turn, and a context with an observation exists), 2 crashes |
| `snapshots` | Is every load a replay of the log, whatever happens to the row and between the queries? | 2 processes, logs of 3 events out of a creation, a start and a tool request, in any order, legal or not (four prefixes: a row can be older, current or newer than a read), 1 disturbance of the row, another history whose creation has another budget |
| `restricted_files` | Is what a tool touches what was judged, and is a write all or nothing? | 2 workers, 7 spellings of paths (plain, with `.` and `..`, over an inner link, over a link out, over a link to itself, absolute), a step id that is refused, 3 policies (among them one rule list in both orders), 2 trees, 1 edit, 1 failing call or crash |

Model values are interchangeable where SYMMETRY is declared (calls and digests of
RunLifecycle, processes of the shared runtime run and of SnapshotStore, workers of
RestrictedFiles), and no liveness property is checked there. `CHECK_DEADLOCK FALSE`
appears where the system stops by itself: a terminal or full log in RunLifecycle, and
a run of the model loop that has ended or is stranded.

Each property of a passing run has a mutant in `PROJECT.json`: an operator named
"Mutant" above the definition it replaces, with a plausible mistake, under which
TLC finds the property violated.

### What the violated runs show

* `lifecycle_stale_action` - in READY, `COMPLETION_*` and `TOOL_REQUESTED` accept
  any `model_action_event_id`, while the durable-model-action design says a stale
  reference is rejected by the reducer. The check exists only in ACTION_PENDING.
* `tool_effects_race` - `load_intent` and `save_intent` are two transactions and
  `save_intent` treats an equal intent as a redelivery. Two processes that both
  load before either saves both invoke the tool. The design document's promise of
  no silent repeated effect needs a single executing process.
* `runtime_poisoned_log` - a request is submitted and denied, which fails the run; a
  second one is submitted. `submit` looks at no status and `_append` stores before it
  replays, so the second request is durable when the reducer refuses it
  (`TerminalStateError`), and every later `load_state` raises too. The design document
  promises that a run can be deterministically recorded, resumed and replayed; this one
  cannot be loaded any more. (Any status but READY and ACTION_PENDING does it; a failed
  run is the shortest way.)
* `runtime_concurrent_revision` - `revise_gate` validates against one read and
  `_append` numbers by another. The revision of a slower process is stored as a
  second revision of the same proposal, and the log no longer replays.

### Fairness

`RetryableSettles` (ToolEffects), `ReleasedSettles` (runtime) and `RunSettles` (ModelLoop)
are the liveness properties. Weak fairness of a process's own steps says that a called
process keeps running and that its tool returns or times out, which the runner's timeout is
for, or that its call ends with an exception; a crash is never required nor excluded, only
bounded. Strong fairness of `Redeliver` / `Recover` is an assumption about the *callers*:
the repository has no scheduler, so somebody has to call `recover` again as often as needed.
Without it nothing settles after a crash, and the README of the repository promises no more.
Two assumptions are about the application's own code, and are stated as strong fairness
because each is about something tried again and again: a tool that keeps being run for one
call some time returns an output a receipt can hold (`Answer` in ToolEffects, `ToolAnswers`
in the runtime and in ModelLoop), as one whose output is never JSON leaves its call without
an outcome for good; and a resolver that keeps being asked some time returns an expectation
(`StepJudged` in ModelLoop), as one that always raises leaves the run in VERIFYING, where
`resume_loop` raises again. Neither is needed for safety. Without the first
`RetryableSettles`, `ReleasedSettles` and `RunSettles` fail, without the second
`RunSettles`. ModelLoop's `Supervise` (`run_loop`, `resume_loop`, `recover`) is fair in the
same sense: an application that keeps finding its run stopped calls one of them, whatever
one-turn calls are made in between. Nobody has to answer a gate, so `RunSettles` says that a
run ends, waits for a human, or is stranded; and `StrandedHasCause` says what strands one: a
crash or an exception between a request and its decision (`authorize` raises), a crash or an
exception inside a tool that may not be retried (its output is refused), or a call id that
names two contents. A call that returned normally never does.

## 4. Proofs

Checked by TLAPS for every value of the constants that meets the named
assumptions (`NoneAssumption`, `LifecycleAssumption`, `EffectsAssumption`,
`RuntimeAssumption`, `DigestAssumption`, `SnapshotAssumption`, `LoopAssumption`,
`LoopDigestAssumption`, `FilesAssumption`). Most of them only give constants their types;
`SnapshotAssumption` asks no more of the events offered than that they are events, of any
type and content.
Those that say more: digests of different content or revisions differ (they are tuples
here, hashes in the code), and in `FilesAssumption` the registry holds no other tools
than the three of `restricted_file_tools.py`, and the workspace root is no link, because
`WorkspaceBoundary.__post_init__` stores the resolved root.

**RunReducer_proofs.** `Good` is the conjunction of the type of a run record, the
match of fields and status, the attempts left, the budget kept, and `FreshRun`
(what holds before anything happened). No single conjunct is inductive: that a
budget is kept needs the field match, because a step in flight is known only by
its status, and that an attempt is left needs the type of the gate. One lemma per
family of events shows that the family keeps `Good` and moves the turn
(`TurnStep`) and the call (`CallStep`) only as described there; `EffectGood`,
`ReduceGood` and `ReplayStepGood` put them together. `CallMoves` says which events move
the active call and its gate between statuses, and `CallOutlasts` that in a run that
goes on only the call's own success ends it. `LastPosition` (a log that has an event of a
kind has a last one) is the one place where induction is needed; it is a least
counterexample, by the well-foundedness of the natural numbers.

**RunLifecycle_proofs.** `IInv` is `Good(run)`; `TypeCorrect`, `FieldsCorrect`,
`AttemptsCorrect` and `BudgetCorrect` follow. `TerminalCorrect` is an action
property. `SequenceCorrect` and `AskedCorrect` need a history invariant that relates the
log with the run: the events are numbered like their places, and each model request
names a turn that is over or the one in flight; with the budget that bounds how
many there are, by a cardinality argument. `RecordInv` says what the log holds of the
call in flight in each status (`CallHistory`: requested and undecided, proposed by its
waiting gate, decided by the one decision of its latest proposal, succeeded by the last
event) and that the turn is the number of step ends. A start or a step end is judged
once, when it is accepted, and longer logs only have to keep that judgement:
`StartsCorrect`, `EvidenceCorrect`. `AnswersInv` counts the answers of every proposal
and says that a waiting gate is that of the latest one and has its number of answers:
`LimitCorrect`. The last section is for logs somebody else keeps. `LInv` is the whole
invariant; `TakenKeeps` says that it survives every event the reducer takes, `FreshKeeps`
that a new run has it, and `Guaranteed` that it gives `Guarantees`, the conjunction of the
invariants above. Nothing there mentions the bounds of RunLifecycle.

**ToolEffects_proofs.** For any number of processes `IInv` says that records and
the outside world match and that a process past `save_intent` holds the stored
intent: `TypeCorrect`, `PerformedCorrect`, `ReturnsCorrect`, `RecordsCorrect`. With
one process, `SingleInv` adds that what it loaded is still what is stored, which is
exactly what a race breaks: `AtMostOnceCorrect`, and `JournalCorrect`, the
refinement of EffectJournal. `tool_effects_race` shows that the assumption of one
process cannot be dropped.

**AuthorizedToolRuntime_proofs** holds for any number of processes, disciplined or
not, and every policy, operation set and bound. `RInv`: the run is good or rejected, the
active call's request is on record and is what `_load_active_request` finds, every
frame's event fits the request it serves, and an executor works on its process's
request. The executor's steps are those of ToolEffects by instance, so the theorems of
ToolEffects_proofs hold inside the runtime (the lemma `ExecutorRefines`).
`ReleasesCorrect` says that an event that releases a call becomes durable only under the
policy its process has at that moment: a gate's answer is authorized again (`StillAllowed`),
and from there to the store the frame keeps the request and the policy. `recover` releases
nothing and does not authorize again: a call released under an earlier policy is finished
under a later, stricter one, and no property says otherwise.

`OutcomesCorrect` rests on `OutcomeInv`: an outcome is backed by its receipt already
while it is on its way to the log, and receipts never change. `ReleasedCorrect` has to
speak of logs that replay, a recursive function. `ReplayAppend` says that one more event
is one more `ReplayStep`, by a least counterexample, without an induction theorem.
`ReleaseInv` then relates the log, the run and the durable records. In a run that can be
loaded, a call without a receipt has been requested once, and that request is active or
was the run's last (`CallOnce`: only a success ends a call in a run that goes on, and a
success has a receipt), so a gate, a release and a start of it are about that request;
whatever a process executes was released, unless the call has an intent already; and an
intent was released. The exception is for call ids used again after a receipt: whatever is
requested then, only what the intent names can run.
`TypeCorrect` adds the dense numbering of the log and that a process is inside the
executor exactly while its executor works; `run = Replay(log)` comes from `ReleaseInv`.

`LifecycleCorrect` composes the two levels: whatever any number of processes append, a log
that replays has all of RunLifecycle's `Guarantees`. `Lifecycle` is an instance of
RunLifecycle_proofs whose log and run are the stored ones; its reducer is shown to be this
one by expansion, and every `Store` that leaves the log replayable is a step of `LInv`.

Two sections assume one process. `ReplaysCorrect`: if it is also
disciplined, every stored event replays. Appending and replaying are separate steps
of `_append`, so `run # Rejected` says nothing of the event a process is about to
store. `ReplayInv` adds what does: `Current` (the run is good, has consumed the whole
log, knows only older event ids, and a waiting gate's digest binds its revision, which
is why a revision is never refused as unchanged) and `Agrees` (a frame at `Read` or
`Store` holds an event the reducer will take, and a frame further on has its call
active in the status that belongs there). `runtime_poisoned_log` and
`runtime_concurrent_revision` show that neither assumption can be dropped.
`AtMostOnceCorrect` needs no discipline: it follows from `ExecutorRefines` and the theorem
of ToolEffects_proofs. `RevisedOnceCorrect` needs both: one disciplined process never gives a
proposal two successors, so the second process of `runtime_concurrent_revision` is the only
cause of one. `RevisedInv` says why: a digest binds its step and its revision, every
revision on record was made from a step the run has left or from a lower revision of the
step it is in, and the revision a frame is about to store names the gate that is open.

**SnapshotStore_proofs** holds for any number of processes, events of every type,
whether or not the reducer takes them, disturbances and crashes. `History` relates the
log with the replays of its prefixes, and says that a good state knows only events
before its own number: that is why a tail replayed from a snapshot is never taken for a
redelivery, and replay of the tail follows the history event by event. `RowSound` says
what an undamaged row holds (the replay of the prefix it stands for, or another
history's), and `Holds` what a process carries from one query to the next: above all
that what is left of the tail is a segment of the log, which stays true while the log
grows. `LoadsCorrect`, `RowsCorrect`, `SavesCorrect` and `NoRegress` follow; the last
needs that a load's starting length is at least what its process was returned before.

**ModelLoop_proofs** holds for every budget, set of contents and answers, policy and
number of crashes, with one process. What is stored and what the process holds are
related through the run: `Current` (the run is good, is the log's, and knows no event
numbered like the next one), `OnRecord` (the request of the active call and the model
request of the active invocation are in the log, and the latter still says the context
of this moment, as nothing that changes it can happen while the model is asked),
`Turned` (turns behind the run are spent, those ahead untouched, and the one it is in is
as far as the status says) and `Agrees` (a frame at each place has the context, action,
call and status that belong there; in the loop, a model request whose adapter was not
called yet has a call count of 0). None of them is inductive alone: that a recovered
frame has the original context needs the request on record, that the event it stores is
legal needs the status of its place, and that a turn is taken once needs both. Every
action has a lemma of its own. Actions that store an event share `Taken` and, by what the
event does, `RunFails` or `CallGoesOn`; those that store none share `FrameMoved`.
`ReplaysCorrect`, `ContextCorrect`, `CompletedCorrect` and the refinement of ModelTurns,
`TurnsCorrect`, follow.

**ModelEvidence_proofs** relates the same model with the requests on record and with the
executor's store. Its `EInv`, inductive beside the invariant of ModelLoop_proofs, says
that what the process runs was requested in the step in flight (`FrameRequested`, for
which the last request of the active call must be of that step: `LastRequestIsNow`),
that receipts have intents and intents have requests (`RecordsRequested`), that the
executor's frame agrees with its store (`FrameStored`), that a run in `VERIFYING` ends
in a success which rests on a receipt of that step's request (`StepsRest`), and what
only a crash or an exception leaves behind (`LeftBehind`). `EvidenceCorrect` needs
`RecordsRequested` and `FrameStored` because a reused call id returns the receipt of an
earlier step, and because rows of the executor's store are never overwritten.
`StrandedCorrect` follows from `LeftBehind`. `ReturnsCorrect` rests on `Told`: up to a
decision the process works for a caller of the agent, never for a recovery, and the
place a call ends at fixes the status its last event leads to; after an exception the
run is in one of the statuses `Fitting` lists for the entry point. `TypeCorrect` is at
the end, because a recovered frame is typed only as far as what the log says of its
call: requests on record are typed (`LogTyped`), and the one a frame is rebuilt from
exists.

`LifecycleCorrect`, there, has no condition: since everything the agent stores replays, its
log has all of RunLifecycle's `Guarantees`. `ReferencesCorrect` is the counterpart of
`lifecycle_stale_action`: the reducer would take a request or a completion that names a
settled model action, but this agent never stores one. While an action is pending it is
the last event of the log (`PendingIsLast`), and a one-turn entry point, which has no
action, names none (`NoReference`).

**RestrictedFiles_proofs** holds for every tree, policy, set of requests and number of
workers, edits and failures. Neither an edit nor a tool ever adds, removes or moves a
link (`SameLinks`), so a path resolves to the same place at any two moments
(`ResolveStable`, over the predicates `Reached` and `Along` that the recursive `Resolve`
is shown to follow). A path that meets no link resolves to itself (`ResolveAlong`), and
the walk's invariant is that what it has walked is such a path and a beginning of the
path judged: where the walk ends, the tool touches what was judged. The mode in a
worker's frame stays what `Authorize` makes of the policy and the tree (`Authorized`);
that this is the mode the policy demands is `ClassifyIs`: `classify_step` is the
strictest of what the default, the risk minimum and the matching rules demand, in
whatever order the rules stand. `JudgedCorrect` is `TouchedAsJudged`. `StagingCorrect`
counts: every staging file left behind is owed to a fault of its own
(`Cardinality(litter) <= faults`), and a worker holds one only while it fills, replaces
or cleans (`StagedOK`). `ChangesCorrect` (`ChangesAreReported`) needs, of the invariant,
that a frame which has replaced or removed its target says so, and of the step, that no
other worker's answer changes (`ChangesOwed`).

**Only model-checked:** the three liveness properties, `RetryableSettles`,
`ReleasedSettles` and `RunSettles`: fairness and ENABLED are out of the prover's reach.
Every invariant and every action property of a passing run is proved. The properties of
the four violated runs are false of the code as it stands, and each is proved under what the
code leaves to its callers: `AtMostOnceCorrect` and `RevisedOnceCorrect` with one process,
`ReplaysCorrect` and `RevisedOnceCorrect` with a disciplined one, `ReferencesCorrect` for the
agent as the only writer of its log.

## 5. Not modelled

- The migrations of the two stores (`_initialize_schema` adds and backfills the chain
  digest, `_migrate_receipt_outcomes` rebuilds a table): each is done when an old
  store is opened, the second in one transaction that copies the rows as they are.
- The provider adapter (HTTP and parsing) beyond what ModelLoop's adapter may do:
  answer anything, misfit, or raise.
- The trace: a read-only summary of a log that replays.
- `inspect_recovery`, which only reads, beyond `decide_recovery`.
- A program that plants links in the workspace during the checks: the repository's
  README leaves it out of what the file tools claim.
- Text validation, formatting, and SQLite itself, whose immediate transactions are
  taken as atomic and durable.
- The examples and the command line around them, which only call what is modelled.

## 6. Plan

Done: the modules above and the proofs of section 4, which cover every safety property the
runs check and compose the levels: the executor inside the runtime, and the guarantees of
one run in the logs of the runtime and of the agent. What could be added is the model loop
over the steps of `_append`, that is, several agents on one run: ModelLoop and its theorems
are about one process.
