----------------------------- MODULE ToolEffects -----------------------------
(***************************************************************************)
(* DurableToolExecutor over SQLiteToolEffectStore.  A worker is a process  *)
(* inside execute(); each of its store calls is one transaction, hence one *)
(* action, and the tool runs between two of them.  A crash loses the       *)
(* worker's local state and keeps the store and the outside world.         *)
(***************************************************************************)
EXTENDS Naturals, FiniteSets

CONSTANTS Workers,      \* processes that may execute the same effects
          Effects,      \* effect ids: the digest of run_id and tool_call_id
          Contents,     \* tool name and arguments of an intent
          Idempotent,   \* contents whose registered tool is retry_is_idempotent
          Results,      \* receipts: outcome (succeeded, failed, timed_out) and output
          None,
          MaxCrashes    \* bound: crashes

ASSUME EffectsAssumption ==
    /\ Idempotent \subseteq Contents
    /\ None \notin Contents /\ None \notin Results
    /\ MaxCrashes \in Nat

VARIABLES intents,     \* tool_intents: effect -> content, or None
          receipts,    \* tool_receipts: effect -> result, or None
          worker,      \* per process: where it is in execute() and what it holds
          invocations, \* effect -> times the tool was invoked: none, one, several
          performed,   \* effect -> contents the tool was invoked with
          returned,    \* effect -> receipts execute() returned to a caller
          crashes
vars == <<intents, receipts, worker, invocations, performed, returned, crashes>>
outside == <<invocations, performed>>

Steps == {"idle", "load_intent", "save_intent", "load_receipt", "invoke",
          "running", "save_receipt"}

Idle == [at |-> "idle", effect |-> None, content |-> None, found |-> None, result |-> None]

Init ==
    /\ intents = [e \in Effects |-> None]
    /\ receipts = [e \in Effects |-> None]
    /\ worker = [w \in Workers |-> Idle]
    /\ invocations = [e \in Effects |-> 0]
    /\ performed = [e \in Effects |-> {}]
    /\ returned = [e \in Effects |-> {}]
    /\ crashes = 0

Goto(w, step) == worker' = [worker EXCEPT ![w].at = step]
Leave(w) == worker' = [worker EXCEPT ![w] = Idle]

\* execute(intent) is called for a registered tool.  The same effect id may come
\* with another content: the tool call id is chosen by the model.
Deliver(w, e, c) ==
    /\ worker[w].at = "idle"
    /\ worker' = [worker EXCEPT ![w] =
            [Idle EXCEPT !.at = "load_intent", !.effect = e, !.content = c]]
    /\ UNCHANGED <<intents, receipts, outside, returned, crashes>>

LoadIntent(w) ==
    /\ worker[w].at = "load_intent"
    /\ worker' = [worker EXCEPT ![w].at = "save_intent",
                                ![w].found = intents[worker[w].effect]]
    /\ UNCHANGED <<intents, receipts, outside, returned, crashes>>

\* Mutant: an intent is overwritten.
IntentAlwaysSaved(e, c) == TRUE

\* save_intent inserts, or accepts an exact redelivery.  Where the worker goes next
\* depends on what it loaded before, not on what save_intent found.
IntentAccepted(e, c) == intents[e] \in {None, c}

\* Mutant: a known intent is taken for a new one.
AlwaysNew(found) == "invoke"

AfterSaveIntent(found) == IF found = None THEN "invoke" ELSE "load_receipt"

SaveIntent(w) ==
    LET e == worker[w].effect
        c == worker[w].content
    IN  /\ worker[w].at = "save_intent"
        /\ IntentAccepted(e, c)
        /\ intents' = [intents EXCEPT ![e] = c]
        /\ Goto(w, AfterSaveIntent(worker[w].found))
        /\ UNCHANGED <<receipts, outside, returned, crashes>>

\* DuplicateToolEffectConflictError: the effect id belongs to another intent.
RefuseIntent(w) ==
    /\ worker[w].at = "save_intent"
    /\ ~IntentAccepted(worker[w].effect, worker[w].content)
    /\ Leave(w)
    /\ UNCHANGED <<intents, receipts, outside, returned, crashes>>

\* Mutant: the recorded receipt is returned without looking whether there is one.
ReturnMissingReceipt(w) ==
    LET e == worker[w].effect
    IN  /\ worker[w].at = "load_receipt"
        /\ returned' = [returned EXCEPT ![e] = @ \cup {receipts[e]}]
        /\ Leave(w)
        /\ UNCHANGED <<intents, receipts, outside, crashes>>

ReturnReceipt(w) ==
    LET e == worker[w].effect
    IN  /\ worker[w].at = "load_receipt"
        /\ receipts[e] # None
        /\ returned' = [returned EXCEPT ![e] = @ \cup {receipts[e]}]
        /\ Leave(w)
        /\ UNCHANGED <<intents, receipts, outside, crashes>>

\* Mutant: an effect without receipt is always retried.
RetryAnything(c) == TRUE

\* Mutant: the tool's declaration is read the wrong way round.
RetryReversed(c) == c \notin Idempotent

\* decide_recovery without a receipt: safe_retry or unknown.
SafeRetry(c) == c \in Idempotent

Retry(w) ==
    /\ worker[w].at = "load_receipt"
    /\ receipts[worker[w].effect] = None
    /\ SafeRetry(worker[w].content)
    /\ Goto(w, "invoke")
    /\ UNCHANGED <<intents, receipts, outside, returned, crashes>>

\* UnsafeToolRetryError
RefuseRetry(w) ==
    /\ worker[w].at = "load_receipt"
    /\ receipts[worker[w].effect] = None
    /\ ~SafeRetry(worker[w].content)
    /\ Leave(w)
    /\ UNCHANGED <<intents, receipts, outside, returned, crashes>>

\* Bound: 2 stands for every larger number of invocations.
Counted(n) == IF n = 0 THEN 1 ELSE 2

\* runner.invoke starts: from here on the outside world may have changed.
Invoke(w) ==
    LET e == worker[w].effect
    IN  /\ worker[w].at = "invoke"
        /\ invocations' = [invocations EXCEPT ![e] = Counted(@)]
        /\ performed' = [performed EXCEPT ![e] = @ \cup {worker[w].content}]
        /\ Goto(w, "running")
        /\ UNCHANGED <<intents, receipts, returned, crashes>>

\* runner.invoke ends with something a receipt can hold; an exception and a timeout
\* of the tool become receipts too.
Finish(w, r) ==
    /\ worker[w].at = "running"
    /\ worker' = [worker EXCEPT ![w].at = "save_receipt", ![w].result = r]
    /\ UNCHANGED <<intents, receipts, outside, returned, crashes>>

\* runner.invoke ends with an output that is not JSON: building the receipt raises
\* outside the try, and what the tool did stays without one.
RefuseOutput(w) ==
    /\ worker[w].at = "running"
    /\ Leave(w)
    /\ UNCHANGED <<intents, receipts, outside, returned, crashes>>

\* Mutant: the last receipt wins.
LastReceiptWins(e, r) == intents[e] # None

\* save_receipt inserts, or accepts an exact redelivery.
ReceiptAccepted(e, r) ==
    \/ receipts[e] = r
    \/ receipts[e] = None /\ intents[e] # None

SaveReceipt(w) ==
    LET e == worker[w].effect
        r == worker[w].result
    IN  /\ worker[w].at = "save_receipt"
        /\ ReceiptAccepted(e, r)
        /\ receipts' = [receipts EXCEPT ![e] = r]
        /\ returned' = [returned EXCEPT ![e] = @ \cup {r}]
        /\ Leave(w)
        /\ UNCHANGED <<intents, outside, crashes>>

\* DuplicateToolEffectConflictError: another worker recorded another outcome.
RefuseReceipt(w) ==
    /\ worker[w].at = "save_receipt"
    /\ ~ReceiptAccepted(worker[w].effect, worker[w].result)
    /\ Leave(w)
    /\ UNCHANGED <<intents, receipts, outside, returned, crashes>>

\* A process dies, inside execute() or elsewhere.
Crash(w) ==
    /\ crashes < MaxCrashes
    /\ crashes' = crashes + 1
    /\ Leave(w)
    /\ UNCHANGED <<intents, receipts, outside, returned>>

\* What a worker does on its own once it was called.
Run(w) ==
    \/ LoadIntent(w)    \/ SaveIntent(w)  \/ RefuseIntent(w)
    \/ ReturnReceipt(w) \/ Retry(w)       \/ RefuseRetry(w)
    \/ Invoke(w)        \/ \E r \in Results : Finish(w, r)
    \/ RefuseOutput(w)  \/ SaveReceipt(w) \/ RefuseReceipt(w)

Next == \E w \in Workers :
    \/ \E e \in Effects, c \in Contents : Deliver(w, e, c)
    \/ Run(w)
    \/ Crash(w)

Spec == Init /\ [][Next]_vars

\* A called worker keeps running, and a caller keeps redelivering the intent that
\* is stored (as AuthorizedToolRuntime.recover does) while it has no receipt.
Redeliver(w, e) ==
    intents[e] # None /\ receipts[e] = None /\ Deliver(w, e, intents[e])

\* A tool that is run again and again for one effect returns, some time, something
\* a receipt can hold (an assumption about the tools, not about this code).
Answer(w, e) ==
    worker[w].effect = e /\ \E r \in Results : Finish(w, r)

FairSpec ==
    /\ Spec
    /\ \A w \in Workers : WF_vars(Run(w))
    /\ \A e \in Effects :
          /\ SF_vars(\E w \in Workers : Redeliver(w, e))
          /\ SF_vars(\E w \in Workers : Answer(w, e))
-----------------------------------------------------------------------------
TypeOK ==
    /\ intents \in [Effects -> Contents \cup {None}]
    /\ receipts \in [Effects -> Results \cup {None}]
    /\ worker \in [Workers -> [at : Steps, effect : Effects \cup {None},
                               content : Contents \cup {None},
                               found : Contents \cup {None}, result : Results \cup {None}]]
    /\ \A w \in Workers : worker[w].at # "idle" =>
            worker[w].effect \in Effects /\ worker[w].content \in Contents
    /\ \A w \in Workers : worker[w].at = "save_receipt" => worker[w].result \in Results
    /\ invocations \in [Effects -> 0..2]
    /\ performed \in [Effects -> SUBSET Contents]
    /\ returned \in [Effects -> SUBSET Results]
    /\ crashes \in Nat

\* An effect whose tool cannot be retried reaches the outside world at most once,
\* however often it is delivered and wherever a process dies (the reason intents
\* are saved before the tool runs and UnsafeToolRetryError exists).
InvokedAtMostOnce ==
    \A e \in Effects : intents[e] # None /\ intents[e] \notin Idempotent =>
        invocations[e] <= 1

\* What happened outside is what the durable intent says: no invocation without an
\* intent, none with other arguments, and no receipt without an invocation.
PerformedAsIntended ==
    \A e \in Effects :
        /\ performed[e] \subseteq {intents[e]}
        /\ receipts[e] # None => invocations[e] > 0 /\ intents[e] # None

\* Every caller is told the result that is on record.
ReturnsAgree == \A e \in Effects : returned[e] \subseteq {receipts[e]} \ {None}

\* Durable facts never change, whatever workers race or die.
RecordsAreFinal ==
    [][\A e \in Effects :
        /\ intents[e] # None => intents'[e] = intents[e]
        /\ receipts[e] # None => receipts'[e] = receipts[e]]_vars

\* The executor implements the journal of effects.
Journal == INSTANCE EffectJournal
    WITH intended <- intents, attempts <- invocations, settled <- receipts

ImplementsJournal == Journal!Spec

\* A retryable effect that was intended is settled in the end, across crashes.
RetryableSettles ==
    \A e \in Effects :
        (intents[e] # None /\ intents[e] \in Idempotent) ~> (receipts[e] # None)

\* There is one process, as in the scenarios the executor was tested with.
SingleWorker == \E w : Workers = {w}
=============================================================================
