-------------------------- MODULE ToolEffects_proofs --------------------------
(***************************************************************************)
(* The executor's guarantees for any number of workers, effects, contents  *)
(* and crashes, and its at-most-once guarantee for a single worker.        *)
(***************************************************************************)
EXTENDS ToolEffects, TLAPS

\* Past save_intent the durable intent is the one in hand; once the tool runs, the
\* outside world has seen it.
HoldsIntent(w) ==
    LET e == worker[w].effect
    IN  /\ worker[w].at \in {"load_receipt", "invoke", "running", "save_receipt"} =>
              intents[e] = worker[w].content
        /\ worker[w].at \in {"running", "save_receipt"} => invocations[e] > 0

\* What holds of the shared records, whoever works.
RecordsMatch ==
    /\ PerformedAsIntended /\ ReturnsAgree
    /\ \A e \in Effects : invocations[e] > 0 => intents[e] # None

\* The inductive invariant for any number of workers.
IInv ==
    /\ TypeOK /\ RecordsMatch
    /\ \A w \in Workers : HoldsIntent(w)

\* What TypeOK says of one process, and of the records.
FrameOK(f) ==
    /\ f \in [at : Steps, effect : Effects \cup {None}, content : Contents \cup {None},
              found : Contents \cup {None}, result : Results \cup {None}]
    /\ f.at # "idle" => f.effect \in Effects /\ f.content \in Contents
    /\ f.at = "save_receipt" => f.result \in Results

RecordsOK ==
    /\ intents \in [Effects -> Contents \cup {None}]
    /\ receipts \in [Effects -> Results \cup {None}]
    /\ invocations \in [Effects -> 0..2]
    /\ performed \in [Effects -> SUBSET Contents]
    /\ returned \in [Effects -> SUBSET Results]
    /\ crashes \in Nat

LEMMA TypeParts ==
    ASSUME TypeOK
    PROVE  RecordsOK /\ \A w \in Workers : FrameOK(worker[w])
<1>1. RecordsOK
  BY DEF TypeOK, RecordsOK
<1>2. ASSUME NEW w \in Workers PROVE FrameOK(worker[w])
  BY DEF TypeOK, FrameOK
<1> QED BY <1>1, <1>2

\* A step that gives one process a well-typed frame keeps the types.
LEMMA FrameReplaced ==
    ASSUME TypeOK, RecordsOK', NEW w \in Workers, NEW f, FrameOK(f),
           worker' = [worker EXCEPT ![w] = f]
    PROVE  TypeOK'
<1>1. worker' \in [Workers -> [at : Steps, effect : Effects \cup {None},
                               content : Contents \cup {None},
                               found : Contents \cup {None}, result : Results \cup {None}]]
  BY DEF TypeOK, FrameOK
<1>2. ASSUME NEW u \in Workers
      PROVE  worker'[u] = IF u = w THEN f ELSE worker[u]
  BY DEF TypeOK
<1>3. ASSUME NEW u \in Workers, worker'[u].at # "idle"
      PROVE  worker'[u].effect \in Effects /\ worker'[u].content \in Contents
  BY <1>2, <1>3 DEF TypeOK, FrameOK
<1>4. ASSUME NEW u \in Workers, worker'[u].at = "save_receipt"
      PROVE  worker'[u].result \in Results
  BY <1>2, <1>4 DEF TypeOK, FrameOK
<1> QED BY <1>1, <1>3, <1>4 DEF TypeOK, RecordsOK

\* Most steps leave the records alone, and many leave the process idle.
LEMMA RecordsStay ==
    ASSUME RecordsOK, UNCHANGED <<intents, receipts, outside, returned, crashes>>
    PROVE  RecordsOK'
BY DEF RecordsOK, outside

LEMMA IdleOK == FrameOK(Idle)
BY DEF FrameOK, Idle, Steps

LEMMA TypeStep == ASSUME TypeOK, Next PROVE TypeOK'
<1> USE EffectsAssumption
<1>0. RecordsOK /\ \A w \in Workers : FrameOK(worker[w])
  BY TypeParts
<1>1. ASSUME NEW w \in Workers, NEW e \in Effects, NEW c \in Contents, Deliver(w, e, c)
      PROVE  TypeOK'
  <2> DEFINE f == [Idle EXCEPT !.at = "load_intent", !.effect = e, !.content = c]
  <2>1. FrameOK(f)
    BY DEF FrameOK, Idle, Steps
  <2>2. RecordsOK'
    BY <1>0, <1>1, RecordsStay DEF Deliver
  <2>3. worker' = [worker EXCEPT ![w] = f]
    BY <1>1 DEF Deliver
  <2> HIDE DEF f
  <2> QED BY <2>1, <2>2, <2>3, FrameReplaced
<1>2. ASSUME NEW w \in Workers, LoadIntent(w) PROVE TypeOK'
  <2> DEFINE f == [worker[w] EXCEPT !.at = "save_intent",
                                    !.found = intents[worker[w].effect]]
  <2>1. FrameOK(f)
    BY <1>0, <1>2 DEF LoadIntent, FrameOK, RecordsOK, Steps
  <2>2. RecordsOK'
    BY <1>0, <1>2, RecordsStay DEF LoadIntent
  <2>3. worker' = [worker EXCEPT ![w] = f]
    BY <1>2 DEF LoadIntent
  <2> HIDE DEF f
  <2> QED BY <2>1, <2>2, <2>3, FrameReplaced
<1>3. ASSUME NEW w \in Workers, SaveIntent(w) PROVE TypeOK'
  <2> DEFINE f == [worker[w] EXCEPT !.at = AfterSaveIntent(worker[w].found)]
  <2>1. FrameOK(f)
    BY <1>0, <1>3 DEF SaveIntent, AfterSaveIntent, FrameOK, Steps
  <2>2. RecordsOK'
    BY <1>0, <1>3 DEF SaveIntent, FrameOK, RecordsOK, outside
  <2>3. worker' = [worker EXCEPT ![w] = f]
    BY <1>3 DEF SaveIntent, Goto
  <2> HIDE DEF f
  <2> QED BY <2>1, <2>2, <2>3, FrameReplaced
<1>4. ASSUME NEW w \in Workers, \/ RefuseIntent(w) \/ RefuseRetry(w)
                               \/ RefuseOutput(w) \/ RefuseReceipt(w)
      PROVE  TypeOK'
  <2>1. Leave(w) /\ UNCHANGED <<intents, receipts, outside, returned, crashes>>
    BY <1>4 DEF RefuseIntent, RefuseRetry, RefuseOutput, RefuseReceipt
  <2>2. RecordsOK'
    BY <1>0, <2>1, RecordsStay
  <2> QED BY <2>1, <2>2, IdleOK, FrameReplaced DEF Leave
<1>5. ASSUME NEW w \in Workers, ReturnReceipt(w) PROVE TypeOK'
  <2>1. RecordsOK'
    BY <1>0, <1>5 DEF ReturnReceipt, FrameOK, RecordsOK, outside
  <2>2. worker' = [worker EXCEPT ![w] = Idle]
    BY <1>5 DEF ReturnReceipt, Leave
  <2> QED BY <2>1, <2>2, IdleOK, FrameReplaced
<1>6. ASSUME NEW w \in Workers, Retry(w) PROVE TypeOK'
  <2> DEFINE f == [worker[w] EXCEPT !.at = "invoke"]
  <2>1. FrameOK(f)
    BY <1>0, <1>6 DEF Retry, FrameOK, Steps
  <2>2. RecordsOK'
    BY <1>0, <1>6, RecordsStay DEF Retry
  <2>3. worker' = [worker EXCEPT ![w] = f]
    BY <1>6 DEF Retry, Goto
  <2> HIDE DEF f
  <2> QED BY <2>1, <2>2, <2>3, FrameReplaced
<1>7. ASSUME NEW w \in Workers, Invoke(w) PROVE TypeOK'
  <2> DEFINE f == [worker[w] EXCEPT !.at = "running"]
  <2>1. FrameOK(f)
    BY <1>0, <1>7 DEF Invoke, FrameOK, Steps
  <2>2. worker[w].effect \in Effects /\ worker[w].content \in Contents
    BY <1>0, <1>7 DEF Invoke, FrameOK
  <2>3. RecordsOK'
    BY <1>0, <1>7, <2>2 DEF Invoke, Counted, RecordsOK
  <2>4. worker' = [worker EXCEPT ![w] = f]
    BY <1>7 DEF Invoke, Goto
  <2> HIDE DEF f
  <2> QED BY <2>1, <2>3, <2>4, FrameReplaced
<1>8. ASSUME NEW w \in Workers, NEW r \in Results, Finish(w, r) PROVE TypeOK'
  <2> DEFINE f == [worker[w] EXCEPT !.at = "save_receipt", !.result = r]
  <2>1. FrameOK(f)
    BY <1>0, <1>8 DEF Finish, FrameOK, Steps
  <2>2. RecordsOK'
    BY <1>0, <1>8, RecordsStay DEF Finish
  <2>3. worker' = [worker EXCEPT ![w] = f]
    BY <1>8 DEF Finish
  <2> HIDE DEF f
  <2> QED BY <2>1, <2>2, <2>3, FrameReplaced
<1>9. ASSUME NEW w \in Workers, SaveReceipt(w) PROVE TypeOK'
  <2>1. worker[w].effect \in Effects /\ worker[w].result \in Results
    BY <1>0, <1>9 DEF SaveReceipt, FrameOK
  <2>2. RecordsOK'
    BY <1>0, <1>9, <2>1 DEF SaveReceipt, RecordsOK, outside
  <2>3. worker' = [worker EXCEPT ![w] = Idle]
    BY <1>9 DEF SaveReceipt, Leave
  <2> QED BY <2>2, <2>3, IdleOK, FrameReplaced
<1>10. ASSUME NEW w \in Workers, Crash(w) PROVE TypeOK'
  <2>1. RecordsOK'
    BY <1>0, <1>10 DEF Crash, RecordsOK, outside
  <2>2. worker' = [worker EXCEPT ![w] = Idle]
    BY <1>10 DEF Crash, Leave
  <2> QED BY <2>1, <2>2, IdleOK, FrameReplaced
<1> QED
  BY <1>1, <1>2, <1>3, <1>4, <1>5, <1>6, <1>7, <1>8, <1>9, <1>10 DEF Next, Run

\* What the other workers rely on is only added to.
RecordsGrow ==
    \A e \in Effects :
        /\ intents[e] # None => intents'[e] = intents[e]
        /\ invocations[e] > 0 => invocations'[e] > 0

\* A worker that takes no step keeps holding its intent while the records it
\* relies on only grow.
LEMMA HoldsStays ==
    ASSUME TypeOK, NEW w \in Workers, HoldsIntent(w), worker'[w] = worker[w],
           RecordsGrow
    PROVE  HoldsIntent(w)'
BY EffectsAssumption DEF TypeOK, HoldsIntent, RecordsGrow

LEMMA InvStep == ASSUME IInv, Next PROVE IInv'
<1> USE EffectsAssumption DEF Goto, Leave, Idle, outside
<1>0. TypeOK /\ TypeOK'
  BY TypeStep DEF IInv
<1>1. ASSUME NEW w \in Workers, \A u \in Workers \ {w} : worker'[u] = worker[u],
             HoldsIntent(w)', RecordsMatch', RecordsGrow
      PROVE  IInv'
  <2>1. ASSUME NEW u \in Workers, u # w PROVE HoldsIntent(u)'
    <3>1. worker'[u] = worker[u]
      BY <1>0, <1>1, <2>1 DEF TypeOK
    <3> QED BY <1>0, <1>1, <3>1, HoldsStays DEF IInv
  <2> QED BY <1>0, <1>1, <2>1 DEF IInv
<1>2. ASSUME NEW w \in Workers, NEW e \in Effects, NEW c \in Contents, Deliver(w, e, c)
      PROVE  IInv'
  <2>1. /\ \A u \in Workers \ {w} : worker'[u] = worker[u]
        /\ UNCHANGED <<intents, receipts, outside, returned>>
    BY <1>0, <1>2 DEF Deliver, TypeOK
  <2>2. HoldsIntent(w)' /\ RecordsMatch'
    BY <1>0, <1>2, <2>1 DEF Deliver, IInv, TypeOK, HoldsIntent, RecordsMatch,
                            PerformedAsIntended, ReturnsAgree
  <2>3. RecordsGrow
    BY <2>1 DEF RecordsGrow
  <2> QED BY <1>1, <2>1, <2>2, <2>3
<1>3. ASSUME NEW w \in Workers, LoadIntent(w)
      PROVE  IInv'
  <2>1. \A u \in Workers \ {w} : worker'[u] = worker[u]
    BY <1>0, <1>3 DEF LoadIntent, TypeOK
  <2>2. HoldsIntent(w)'
    BY <1>0, <1>3 DEF LoadIntent, IInv, TypeOK, HoldsIntent
  <2>3. RecordsMatch'
    BY <1>0, <1>3 DEF LoadIntent, IInv, TypeOK, HoldsIntent,
                       RecordsMatch, PerformedAsIntended, ReturnsAgree
  <2>4. RecordsGrow
    BY <1>0, <1>3 DEF RecordsGrow, LoadIntent, TypeOK
  <2> QED BY <1>1, <2>1, <2>2, <2>3, <2>4
<1>4. ASSUME NEW w \in Workers, SaveIntent(w)
      PROVE  IInv'
  <2>1. \A u \in Workers \ {w} : worker'[u] = worker[u]
    BY <1>0, <1>4 DEF SaveIntent, TypeOK
  <2>2. HoldsIntent(w)'
    BY <1>0, <1>4 DEF SaveIntent, IInv, TypeOK, HoldsIntent, AfterSaveIntent, IntentAccepted
  <2>3. RecordsMatch'
    BY <1>0, <1>4 DEF SaveIntent, IInv, TypeOK, HoldsIntent,
                       RecordsMatch, PerformedAsIntended, ReturnsAgree, AfterSaveIntent, IntentAccepted
  <2>4. RecordsGrow
    BY <1>0, <1>4 DEF RecordsGrow, SaveIntent, TypeOK, AfterSaveIntent, IntentAccepted
  <2> QED BY <1>1, <2>1, <2>2, <2>3, <2>4
<1>5. ASSUME NEW w \in Workers, Retry(w)
      PROVE  IInv'
  <2>1. \A u \in Workers \ {w} : worker'[u] = worker[u]
    BY <1>0, <1>5 DEF Retry, TypeOK
  <2>2. HoldsIntent(w)'
    BY <1>0, <1>5 DEF Retry, IInv, TypeOK, HoldsIntent
  <2>3. RecordsMatch'
    BY <1>0, <1>5 DEF Retry, IInv, TypeOK, HoldsIntent,
                       RecordsMatch, PerformedAsIntended, ReturnsAgree
  <2>4. RecordsGrow
    BY <1>0, <1>5 DEF RecordsGrow, Retry, TypeOK
  <2> QED BY <1>1, <2>1, <2>2, <2>3, <2>4
<1>6. ASSUME NEW w \in Workers, Invoke(w)
      PROVE  IInv'
  <2>1. \A u \in Workers \ {w} : worker'[u] = worker[u]
    BY <1>0, <1>6 DEF Invoke, TypeOK
  <2>2. HoldsIntent(w)'
    BY <1>0, <1>6 DEF Invoke, Counted, IInv, TypeOK, HoldsIntent
  <2>3. RecordsMatch'
    BY <1>0, <1>6 DEF Invoke, Counted, IInv, TypeOK, HoldsIntent,
                       RecordsMatch, PerformedAsIntended, ReturnsAgree
  <2>4. RecordsGrow
    BY <1>0, <1>6 DEF RecordsGrow, Invoke, Counted, TypeOK
  <2> QED BY <1>1, <2>1, <2>2, <2>3, <2>4
<1>7. ASSUME NEW w \in Workers, NEW r \in Results, Finish(w, r)
      PROVE  IInv'
  <2>1. \A u \in Workers \ {w} : worker'[u] = worker[u]
    BY <1>0, <1>7 DEF Finish, TypeOK
  <2>2. HoldsIntent(w)'
    BY <1>0, <1>7 DEF Finish, IInv, TypeOK, HoldsIntent
  <2>3. RecordsMatch'
    BY <1>0, <1>7 DEF Finish, IInv, TypeOK, HoldsIntent,
                       RecordsMatch, PerformedAsIntended, ReturnsAgree
  <2>4. RecordsGrow
    BY <1>0, <1>7 DEF RecordsGrow, Finish, TypeOK
  <2> QED BY <1>1, <2>1, <2>2, <2>3, <2>4
<1>8. ASSUME NEW w \in Workers, SaveReceipt(w)
      PROVE  IInv'
  <2>1. \A u \in Workers \ {w} : worker'[u] = worker[u]
    BY <1>0, <1>8 DEF SaveReceipt, TypeOK
  <2>2. HoldsIntent(w)'
    BY <1>0, <1>8 DEF SaveReceipt, IInv, TypeOK, HoldsIntent, ReceiptAccepted
  <2>3. RecordsMatch'
    BY <1>0, <1>8 DEF SaveReceipt, IInv, TypeOK, HoldsIntent,
                       RecordsMatch, PerformedAsIntended, ReturnsAgree, ReceiptAccepted
  <2>4. RecordsGrow
    BY <1>0, <1>8 DEF RecordsGrow, SaveReceipt, TypeOK, ReceiptAccepted
  <2> QED BY <1>1, <2>1, <2>2, <2>3, <2>4
<1>9. ASSUME NEW w \in Workers, ReturnReceipt(w)
      PROVE  IInv'
  <2>1. \A u \in Workers \ {w} : worker'[u] = worker[u]
    BY <1>0, <1>9 DEF ReturnReceipt, TypeOK
  <2>2. HoldsIntent(w)'
    BY <1>0, <1>9 DEF ReturnReceipt, IInv, TypeOK, HoldsIntent
  <2>3. RecordsMatch'
    BY <1>0, <1>9 DEF ReturnReceipt, IInv, TypeOK, HoldsIntent,
                       RecordsMatch, PerformedAsIntended, ReturnsAgree
  <2>4. RecordsGrow
    BY <1>0, <1>9 DEF RecordsGrow, ReturnReceipt, TypeOK
  <2> QED BY <1>1, <2>1, <2>2, <2>3, <2>4
<1>10. ASSUME NEW w \in Workers,
              \/ RefuseIntent(w) \/ RefuseRetry(w) \/ RefuseOutput(w)
              \/ RefuseReceipt(w) \/ Crash(w)
      PROVE  IInv'
  <2>1. Leave(w) /\ UNCHANGED <<intents, receipts, outside, returned>>
    BY <1>10 DEF RefuseIntent, RefuseRetry, RefuseOutput, RefuseReceipt, Crash
  <2>2. /\ HoldsIntent(w)' /\ RecordsMatch'
        /\ \A u \in Workers \ {w} : worker'[u] = worker[u]
        /\ RecordsGrow
    BY <1>0, <2>1 DEF IInv, TypeOK, HoldsIntent, RecordsMatch, RecordsGrow,
                      PerformedAsIntended, ReturnsAgree
  <2> QED BY <1>1, <2>1, <2>2
<1> QED
  BY <1>2, <1>3, <1>4, <1>5, <1>6, <1>7, <1>8, <1>9, <1>10 DEF Next, Run

LEMMA InductiveInvariant == Spec => []IInv
<1>1. Init => IInv
  BY EffectsAssumption DEF Init, IInv, TypeOK, RecordsMatch, PerformedAsIntended,
     ReturnsAgree, HoldsIntent, Idle, Steps
<1>2. IInv /\ [Next]_vars => IInv'
  <2>1. CASE UNCHANGED vars
    BY <2>1 DEF vars, IInv, TypeOK, RecordsMatch, PerformedAsIntended, ReturnsAgree,
       HoldsIntent
  <2> QED BY <2>1, InvStep
<1> QED BY <1>1, <1>2, PTL DEF Spec

\* The stores and the workers keep their declared types.
THEOREM TypeCorrect == Spec => []TypeOK
BY InductiveInvariant, PTL DEF IInv

\* However many processes race, nothing happens outside that is not intended.
THEOREM PerformedCorrect == Spec => []PerformedAsIntended
BY InductiveInvariant, PTL DEF IInv, RecordsMatch

\* However many processes race, they all report the recorded receipt.
THEOREM ReturnsCorrect == Spec => []ReturnsAgree
BY InductiveInvariant, PTL DEF IInv, RecordsMatch

\* An intent and a receipt, once stored, are never changed.
THEOREM RecordsCorrect == Spec => RecordsAreFinal
<1>1. IInv /\ [Next]_vars => [\A e \in Effects :
        /\ intents[e] # None => intents'[e] = intents[e]
        /\ receipts[e] # None => receipts'[e] = receipts[e]]_vars
  <2> SUFFICES ASSUME IInv, Next, NEW e \in Effects
               PROVE  /\ intents[e] # None => intents'[e] = intents[e]
                      /\ receipts[e] # None => receipts'[e] = receipts[e]
    OBVIOUS
  <2>1. PICK w \in Workers :
          \/ \E f \in Effects, c \in Contents : Deliver(w, f, c)
          \/ Run(w) \/ Crash(w)
    BY DEF Next
  <2>2. CASE SaveIntent(w)
    BY <2>2 DEF SaveIntent, IntentAccepted, IInv, TypeOK
  <2>3. CASE SaveReceipt(w)
    BY <2>3 DEF SaveReceipt, ReceiptAccepted, IInv, TypeOK
  <2>4. CASE ~SaveIntent(w) /\ ~SaveReceipt(w)
    <3>1. UNCHANGED <<intents, receipts>>
      BY <2>1, <2>4 DEF Run, Deliver, LoadIntent, RefuseIntent, ReturnReceipt, Retry,
         RefuseRetry, Invoke, Finish, RefuseOutput, RefuseReceipt, Crash
    <3> QED BY <3>1
  <2> QED BY <2>2, <2>3, <2>4
<1> QED BY <1>1, InductiveInvariant, PTL DEF Spec, RecordsAreFinal

-----------------------------------------------------------------------------
(* A single worker.                                                        *)

\* Between its store calls nobody else moves, so what the worker read still holds:
\* a new intent has no history, a retry is allowed, a running tool has no receipt.
Alone(w) ==
    LET e == worker[w].effect
        c == worker[w].content
    IN  /\ worker[w].at = "save_intent" => worker[w].found = intents[e]
        /\ worker[w].at \in {"invoke", "running", "save_receipt"} => receipts[e] = None
        /\ worker[w].at = "invoke" /\ invocations[e] > 0 => c \in Idempotent

SingleInv == InvokedAtMostOnce /\ \A w \in Workers : Alone(w)

LEMMA SingleStep == ASSUME SingleWorker, IInv, SingleInv, Next PROVE SingleInv'
<1> USE EffectsAssumption DEF Goto, Leave, Idle, outside, SingleInv, Alone, InvokedAtMostOnce
<1>0. TypeOK /\ TypeOK' /\ RecordsMatch
  BY TypeStep DEF IInv
<1>w. PICK w \in Workers : Workers = {w}
  BY DEF SingleWorker, Next
<1>h. HoldsIntent(w)
  BY DEF IInv
<1>1. ASSUME NEW e \in Effects, NEW c \in Contents, Deliver(w, e, c) PROVE SingleInv'
  BY <1>0, <1>w, <1>1 DEF Deliver, TypeOK
<1>2. CASE LoadIntent(w)
  BY <1>0, <1>w, <1>2 DEF LoadIntent, TypeOK
<1>3. CASE SaveIntent(w)
  BY <1>0, <1>w, <1>3 DEF SaveIntent, AfterSaveIntent, IntentAccepted, TypeOK, RecordsMatch,
     PerformedAsIntended
<1>4. CASE Retry(w)
  BY <1>0, <1>w, <1>4 DEF Retry, SafeRetry, TypeOK
<1>5. CASE Invoke(w)
  BY <1>0, <1>w, <1>h, <1>5 DEF Invoke, Counted, HoldsIntent, TypeOK
<1>6. ASSUME NEW r \in Results, Finish(w, r) PROVE SingleInv'
  BY <1>0, <1>w, <1>6 DEF Finish, TypeOK
<1>7. CASE SaveReceipt(w)
  BY <1>0, <1>w, <1>7 DEF SaveReceipt, TypeOK
<1>8. CASE ReturnReceipt(w)
  BY <1>0, <1>w, <1>8 DEF ReturnReceipt, TypeOK
<1>9. CASE \/ RefuseIntent(w) \/ RefuseRetry(w) \/ RefuseOutput(w)
           \/ RefuseReceipt(w) \/ Crash(w)
  <2>1. Leave(w) /\ UNCHANGED <<intents, receipts, outside>>
    BY <1>9 DEF RefuseIntent, RefuseRetry, RefuseOutput, RefuseReceipt, Crash
  <2> QED BY <1>0, <1>w, <2>1 DEF TypeOK
<1> QED
  BY <1>w, <1>1, <1>2, <1>3, <1>4, <1>5, <1>6, <1>7, <1>8, <1>9 DEF Next, Run

LEMMA SingleInvariant == SingleWorker => (Spec => []SingleInv)
<1> SUFFICES ASSUME SingleWorker PROVE Spec => []SingleInv
  OBVIOUS
<1>1. Init => SingleInv
  BY EffectsAssumption DEF Init, SingleInv, InvokedAtMostOnce, Alone, Idle
<1>2. IInv /\ SingleInv /\ [Next]_vars => SingleInv'
  <2>1. CASE UNCHANGED vars
    BY <2>1 DEF vars, SingleInv, InvokedAtMostOnce, Alone
  <2> QED BY <2>1, SingleStep
<1> QED BY <1>1, <1>2, InductiveInvariant, PTL DEF Spec

\* With one worker, a tool that cannot be retried runs at most once per effect,
\* wherever and however often the process dies.
THEOREM AtMostOnceCorrect == SingleWorker => (Spec => []InvokedAtMostOnce)
BY SingleInvariant, PTL DEF SingleInv

\* With one worker, the executor implements the journal: saving a new intent
\* intends, invoking the tool attempts, saving a receipt settles, and every other
\* step leaves the journal alone.
THEOREM JournalCorrect == SingleWorker => (Spec => ImplementsJournal)
<1> SUFFICES ASSUME SingleWorker PROVE Spec => Journal!Spec
  BY DEF ImplementsJournal
<1>1. Init => Journal!Init
  BY DEF Init, Journal!Init
<1>2. IInv /\ SingleInv /\ [Next]_vars => [Journal!Next]_Journal!vars
  <2> SUFFICES ASSUME IInv, SingleInv, Next PROVE [Journal!Next]_Journal!vars
    BY DEF vars, Journal!vars
  <2>1. TypeOK /\ RecordsMatch
    BY DEF IInv
  <2>2. PICK w \in Workers :
          \/ \E f \in Effects, c \in Contents : Deliver(w, f, c)
          \/ Run(w) \/ Crash(w)
    BY DEF Next
  <2>3. HoldsIntent(w) /\ Alone(w)
    BY DEF IInv, SingleInv
  <2> DEFINE e == worker[w].effect
  <2>4. CASE SaveIntent(w)
    <3>1. e \in Effects /\ worker[w].content \in Contents
      BY <2>1, <2>4 DEF SaveIntent, TypeOK
    <3>2. CASE intents[e] = None
      <4>1. Journal!Intend(e, worker[w].content)
        BY <2>1, <2>4, <3>1, <3>2 DEF SaveIntent, Journal!Intend, outside, TypeOK
      <4> QED BY <3>1, <4>1 DEF Journal!Next
    <3>3. CASE intents[e] # None
      <4>1. intents' = intents
        BY <2>1, <2>4, <3>1, <3>3 DEF SaveIntent, IntentAccepted, TypeOK
      <4> QED BY <2>4, <4>1 DEF SaveIntent, outside, Journal!vars
    <3> QED BY <3>2, <3>3
  <2>5. CASE Invoke(w)
    <3>1. e \in Effects /\ worker[w].content \in Contents
      BY <2>1, <2>5 DEF Invoke, TypeOK
    <3>2. Journal!Attempt(e)
      BY EffectsAssumption, <2>1, <2>3, <2>5, <3>1
         DEF Invoke, Counted, HoldsIntent, Alone, Journal!Attempt, Journal!Counted, TypeOK
    <3> QED BY <3>1, <3>2 DEF Journal!Next
  <2>6. CASE SaveReceipt(w)
    <3>1. e \in Effects /\ worker[w].result \in Results
      BY <2>1, <2>6 DEF SaveReceipt, TypeOK
    <3>2. Journal!Settle(e, worker[w].result)
      BY <2>1, <2>3, <2>6, <3>1 DEF SaveReceipt, HoldsIntent, Alone, outside,
         Journal!Settle, TypeOK
    <3> QED BY <3>1, <3>2 DEF Journal!Next
  <2>7. CASE ~SaveIntent(w) /\ ~Invoke(w) /\ ~SaveReceipt(w)
    <3>1. UNCHANGED <<intents, invocations, receipts>>
      BY <2>2, <2>7 DEF Run, Deliver, LoadIntent, RefuseIntent, ReturnReceipt, Retry,
         RefuseRetry, Finish, RefuseOutput, RefuseReceipt, Crash, outside
    <3> QED BY <3>1 DEF Journal!vars
  <2> QED BY <2>4, <2>5, <2>6, <2>7
<1> QED BY <1>1, <1>2, InductiveInvariant, SingleInvariant, PTL DEF Spec, Journal!Spec
=============================================================================
