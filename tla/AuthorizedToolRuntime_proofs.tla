-------------------- MODULE AuthorizedToolRuntime_proofs --------------------
(***************************************************************************)
(* What AuthorizedToolRuntime guarantees for every set of processes, tool  *)
(* calls, policies and every bound.                                        *)
(***************************************************************************)
EXTENDS AuthorizedToolRuntime, RunReducer_proofs, TLAPS

-----------------------------------------------------------------------------
(* Replaying a log is replaying it event by event.                         *)

\* A non-empty set of numbers has a first one.
LEMMA FirstNumber ==
    ASSUME NEW T, T \subseteq Nat, T # {}
    PROVE  \E i \in T : \A j \in T : i <= j
<1>1. PICK x \in T : \A y \in T : ~(<<y, x>> \in OpToRel(<, Nat))
  BY WFMin, NatLessThanWellFounded, ZenonT(30)
<1>2. ASSUME NEW j \in T, j < x PROVE FALSE
  <2>1. <<j, x>> \in OpToRel(<, Nat)
    BY <1>2 DEF OpToRel
  <2> QED BY <1>1, <2>1
<1>3. x \in T /\ \A j \in T : j \in Nat /\ x \in Nat
  OBVIOUS
<1>4. \A j \in T : x <= j
  BY <1>2, <1>3
<1> QED BY <1>3, <1>4

\* The state after each of the events, from s on.
States(f, s, events) ==
    f = [n \in 0..Len(events) |->
            IF n = 0 THEN s
            ELSE CHOOSE t \in {ReplayStep(prior, events[n]) : prior \in {f[n - 1]}} : TRUE]

LEMMA TailStates ==
    ASSUME NEW s, NEW events
    PROVE  ReplayTail(s, events) = (CHOOSE f : States(f, s, events))[Len(events)]
BY DEF ReplayTail, States

LEMMA StatesStep ==
    ASSUME NEW s, NEW events, Len(events) \in Nat, NEW f
    PROVE  States(f, s, events) <=>
             /\ f = [n \in 0..Len(events) |-> f[n]]
             /\ f[0] = s
             /\ \A n \in 1..Len(events) : f[n] = ReplayStep(f[n - 1], events[n])
<1>1. \A n : (CHOOSE t \in {ReplayStep(prior, events[n]) : prior \in {f[n - 1]}} : TRUE)
                 = ReplayStep(f[n - 1], events[n])
  OBVIOUS
<1>2. States(f, s, events) <=>
        f = [n \in 0..Len(events) |-> IF n = 0 THEN s ELSE ReplayStep(f[n - 1], events[n])]
  BY <1>1 DEF States
<1> QED BY <1>2

\* f holds the states after the first n events.
UpTo(f, n, s, events) ==
    f[0] = s /\ \A k \in 1..n : f[k] = ReplayStep(f[k - 1], events[k])

LEMMA StatesExist ==
    ASSUME NEW s, NEW events, Len(events) \in Nat
    PROVE  \E f : States(f, s, events)
<1> DEFINE Missing == {n \in 0..Len(events) : ~\E f : UpTo(f, n, s, events)}
<1>1. Missing = {}
  <2> SUFFICES ASSUME Missing # {} PROVE FALSE
    OBVIOUS
  <2>1. PICK n \in Missing : \A m \in Missing : n <= m
    <3>1. Missing \subseteq Nat
      OBVIOUS
    <3> HIDE DEF Missing
    <3> QED BY <3>1, FirstNumber
  <2>2. n \in 0..Len(events) /\ n \in Nat /\ ~\E f : UpTo(f, n, s, events)
    BY <2>1
  <2>3. CASE n = 0
    <3>1. UpTo([k \in {0} |-> s], 0, s, events)
      BY DEF UpTo
    <3> QED BY <2>2, <2>3, <3>1
  <2>4. CASE n # 0
    <3>1. n - 1 \in 0..Len(events) /\ n - 1 < n
      BY <2>2, <2>4
    <3>2. n - 1 \notin Missing
      <4>1. SUFFICES ASSUME n - 1 \in Missing PROVE FALSE
        OBVIOUS
      <4>2. n <= n - 1
        BY <2>1, <4>1
      <4> QED BY <2>2, <4>2
    <3>3. PICK f : UpTo(f, n - 1, s, events)
      BY <3>1, <3>2
    <3> DEFINE last == ReplayStep(f[n - 1], events[n])
               g == [k \in 0..n |-> IF k = n THEN last ELSE f[k]]
    <3> HIDE DEF last
    <3>4. g[0] = s
      BY <2>2, <2>4, <3>3 DEF UpTo
    <3>5. ASSUME NEW k \in 1..n
          PROVE  g[k] = ReplayStep(g[k - 1], events[k])
      <4>1. k \in 0..n /\ k - 1 \in 0..n /\ k - 1 # n
        BY <2>2
      <4>2. g[k - 1] = f[k - 1] /\ g[k] = IF k = n THEN last ELSE f[k]
        BY <4>1
      <4>3. k # n => f[k] = ReplayStep(f[k - 1], events[k])
        BY <2>2, <3>3 DEF UpTo
      <4> HIDE DEF g
      <4> QED BY <4>2, <4>3 DEF last
    <3> HIDE DEF g
    <3>6. UpTo(g, n, s, events)
      BY <3>4, <3>5 DEF UpTo
    <3> QED BY <2>2, <3>6
  <2> QED BY <2>3, <2>4
<1>2. PICK f : UpTo(f, Len(events), s, events)
  BY <1>1
<1> DEFINE g == [n \in 0..Len(events) |-> f[n]]
<1>3. g = [n \in 0..Len(events) |-> g[n]] /\ g[0] = s
  BY <1>2 DEF UpTo
<1>4. ASSUME NEW n \in 1..Len(events)
      PROVE  g[n] = ReplayStep(g[n - 1], events[n])
  <2>1. g[n] = f[n] /\ g[n - 1] = f[n - 1]
    OBVIOUS
  <2> HIDE DEF g
  <2> QED BY <1>2, <2>1 DEF UpTo
<1> HIDE DEF g
<1>5. States(g, s, events)
  BY <1>3, <1>4, StatesStep
<1> QED BY <1>5

\* What replay_tail returns is the last of these states.
LEMMA TailState ==
    ASSUME NEW s, NEW events, Len(events) \in Nat
    PROVE  \E f : UpTo(f, Len(events), s, events) /\ ReplayTail(s, events) = f[Len(events)]
<1> DEFINE f == CHOOSE f : States(f, s, events)
<1>1. States(f, s, events)
  BY StatesExist
<1>2. ReplayTail(s, events) = f[Len(events)]
  BY TailStates
<1> HIDE DEF f
<1>3. UpTo(f, Len(events), s, events)
  BY <1>1, StatesStep DEF UpTo
<1> QED BY <1>2, <1>3

\* Two such sequences of states are the same as far as both go.
LEMMA StatesAgree ==
    ASSUME NEW s, NEW n \in Nat, NEW l, NEW m, \A i \in 1..n : m[i] = l[i],
           NEW f, UpTo(f, n, s, l), NEW g, UpTo(g, n, s, m)
    PROVE  g[n] = f[n]
<1> DEFINE Differ == {k \in 0..n : g[k] # f[k]}
<1>1. CASE Differ = {}
  BY <1>1
<1>2. CASE Differ # {}
  <2>1. PICK k \in Differ : \A j \in Differ : k <= j
    <3>1. Differ \subseteq Nat
      OBVIOUS
    <3> HIDE DEF Differ
    <3> QED BY <1>2, <3>1, FirstNumber
  <2>2. k \in 0..n /\ k \in Nat /\ g[k] # f[k] /\ k # 0
    BY <2>1 DEF UpTo
  <2>3. k - 1 \in 0..n /\ ~(k <= k - 1)
    BY <2>2
  <2>4. g[k - 1] = f[k - 1]
    BY <2>1, <2>3
  <2>5. k \in 1..n
    BY <2>2
  <2> QED BY <2>2, <2>4, <2>5 DEF UpTo
<1> QED BY <1>1, <1>2

\* replay is incremental: one more event is one more step.
LEMMA ReplayAppend ==
    ASSUME NEW events, NEW e, IsSequence(events)
    PROVE  Replay(Append(events, e)) = ReplayStep(Replay(events), e)
<1> DEFINE m == Append(events, e)
           n == Len(events)
<1>1. /\ n \in Nat /\ Len(m) = n + 1 /\ m[n + 1] = e
      /\ \A i \in 1..n : m[i] = events[i]
  BY AppendFacts
<1> HIDE DEF m, n
<1>2. PICK f : UpTo(f, n, InitialRun, events) /\ Replay(events) = f[n]
  BY <1>1, TailState DEF n, Replay
<1>3. PICK g : UpTo(g, n + 1, InitialRun, m) /\ Replay(m) = g[n + 1]
  BY <1>1, TailState DEF Replay
<1>4. UpTo(g, n, InitialRun, m)
  BY <1>1, <1>3 DEF UpTo
<1>5. g[n] = f[n]
  BY <1>1, <1>2, <1>4, StatesAgree
<1>6. PICK k \in 1..n+1 : k = n + 1 /\ k - 1 = n
  BY <1>1
<1>7. g[k] = ReplayStep(g[k - 1], m[k])
  BY <1>3 DEF UpTo
<1>8. Replay(m) = ReplayStep(Replay(events), e)
  BY <1>1, <1>2, <1>3, <1>5, <1>6, <1>7
<1> QED BY <1>8 DEF m

LEMMA ReplayNothing == Replay(<<>>) = InitialRun
<1>1. Len(<<>>) = 0
  OBVIOUS
<1>2. PICK f : UpTo(f, 0, InitialRun, <<>>) /\ ReplayTail(InitialRun, <<>>) = f[0]
  <2>1. Len(<<>>) \in Nat
    BY <1>1
  <2>2. \E f : UpTo(f, Len(<<>>), InitialRun, <<>>)
               /\ ReplayTail(InitialRun, <<>>) = f[Len(<<>>)]
    BY <2>1, TailState, Zenon
  <2> QED BY <1>1, <2>2
<1> QED BY <1>2 DEF Replay, UpTo
LEMMA GoodIsNotRejected == \A s : Good(s) => s # Rejected
<1>1. Rejected.status = "rejected"
  BY Domain DEF Rejected, InitialRun
<1> QED BY <1>1 DEF Good, RunType, Statuses, Terminal, ToolStatuses

\* The events of a run's life reach RunGuard and RunEffect.
LEMMA RunEvent ==
    ASSUME NEW s, NEW m, m.type \in RunTypes
    PROVE  (Guard(s, m) <=> RunGuard(s, m)) /\ Effect(s, m) = RunEffect(s, m)
BY DEF Guard, Effect, RunTypes, ModelTypes, CompletionTypes, GateTypes, ToolTypes,
   VerificationTypes

\* The run every process finds at first.
LEMMA StartedRun ==
    ASSUME Init
    PROVE  /\ Good(run) /\ run.status = "ready" /\ run.turn = 0 /\ run.next = Len(log) + 1
           /\ run.applied = {Created, Started} /\ run = Replay(log)
<1> DEFINE s == Applied(InitialRun, Created)
           t == Applied(s, Started)
<1>1. EventType(Created) /\ EventType(Started)
  BY RuntimeAssumption DEF EventType, Created, Started, EventTypes, RunTypes
<1>2. /\ Created.type = "run.created" /\ Created.id = 1 /\ Created.seq = 1
      /\ Started.type = "run.started" /\ Started.id = 2 /\ Started.seq = 2
  BY DEF Created, Started
<1>3. /\ InitialRun.status = "new" /\ InitialRun.turn = 0
      /\ InitialRun.next = 1 /\ InitialRun.applied = {}
  BY DEF InitialRun
<1>4. Acceptable(InitialRun, Created) /\ ~Redelivered(InitialRun, Created)
  <2>1. RunGuard(InitialRun, Created)
    BY <1>2, <1>3 DEF RunGuard
  <2> QED BY <1>2, <1>3, <2>1, RunEvent DEF Acceptable, Conflicting, Redelivered, Terminal,
          RunTypes
<1>5. Effect(InitialRun, Created).status = "created" /\ Effect(InitialRun, Created).turn = 0
  <2>1. RunEffect(InitialRun, Created).status = "created" /\ RunEffect(InitialRun, Created).turn = 0
    BY <1>2, Domain DEF RunEffect, InitialRun
  <2> QED BY <1>2, <2>1, RunEvent DEF RunTypes
<1>6. Good(s) /\ s.status = "created" /\ s.turn = 0 /\ s.next = 2 /\ s.applied = {Created}
  BY <1>1, <1>3, <1>4, <1>5, InitialGood, EffectGood, AppliedGood
<1>7. ReplayStep(InitialRun, Created) = s
  BY <1>4, InitialGood, GoodIsNotRejected DEF ReplayStep, Reduce, Legal
<1> HIDE DEF s
<1>8. Created # Started
  BY <1>2
<1>9. Acceptable(s, Started) /\ ~Redelivered(s, Started)
  <2>1. RunGuard(s, Started)
    BY <1>2, <1>6 DEF RunGuard
  <2> QED BY <1>2, <1>6, <1>8, <2>1, RunEvent DEF Acceptable, Conflicting, Redelivered,
          Terminal, RunTypes
<1>10. Effect(s, Started).status = "ready" /\ Effect(s, Started).turn = 0
  <2>1. RunEffect(s, Started).status = "ready" /\ RunEffect(s, Started).turn = 0
    BY <1>2, <1>6, Domain DEF RunEffect, Move, Good, RunType
  <2> QED BY <1>2, <2>1, RunEvent DEF RunTypes
<1>11. /\ Good(t) /\ t.status = "ready" /\ t.turn = 0 /\ t.next = 3 /\ t.applied = {Created, Started}
  BY <1>1, <1>6, <1>9, <1>10, EffectGood, AppliedGood
<1>12. ReplayStep(s, Started) = t
  BY <1>6, <1>9, GoodIsNotRejected DEF ReplayStep, Reduce, Legal
<1> HIDE DEF t
<1>13. run = t /\ Len(log) = 2
  BY <1>7, <1>12 DEF Init
<1>14. log = Append(Append(<<>>, Created), Started)
  BY DEF Init
<1>15. IsSequence(<<>>) /\ IsSequence(Append(<<>>, Created))
  <2>1. <<>> \in Seq({}) /\ Append(<<>>, Created) \in Seq({Created})
    OBVIOUS
  <2> QED BY <2>1 DEF IsSequence
<1>16. Replay(Append(<<>>, Created)) = ReplayStep(InitialRun, Created)
  BY <1>15, ReplayAppend, ReplayNothing
<1>17. Replay(log) = run
  BY <1>14, <1>15, <1>16, ReplayAppend DEF Init
<1> QED BY <1>11, <1>13, <1>17

-----------------------------------------------------------------------------
(* Requests, frames and the run, for any number of processes.              *)

Requested(events, call) ==
    \E i \in 1..Len(events) : events[i].type = "tool.requested" /\ events[i].call = call

OperationTypes == (ToolTypes \cup GateTypes) \cup VerificationTypes

\* The event of an operation, numbered or not, and the request it serves.
Payload(e, r) ==
    /\ "type" \in DOMAIN e /\ e.type \in OperationTypes
    /\ e.type \notin VerificationTypes => r \in Requests /\ "call" \in DOMAIN e /\ e.call = r.call
    /\ e.type = "tool.requested" =>
          {"content", "step"} \subseteq DOMAIN e /\ e.content = r.content /\ e.step = r.step
    /\ e.type \in {"tool.escalated", "gate.revised"} =>
          /\ {"digest", "mode", "revision", "max"} \subseteq DOMAIN e
          /\ e.mode \in GateModes /\ e.revision \in 1..MaxRevision+1
          /\ e.digest = Digest(r, e.mode, e.revision) /\ e.max = AttemptLimit
    /\ e.type = "gate.evaluated" =>
          /\ {"attempt", "outcome"} \subseteq DOMAIN e
          /\ e.attempt \in Nat /\ e.outcome \in {"pass", "retry", "block"}
    /\ e.type = "verification.succeeded" =>
          "scope" \in DOMAIN e /\ e.scope \in {"run", "step"}

\* Numbering an event keeps its payload and makes it one that reduce can take.
LEMMA NumberedPayload ==
    ASSUME NEW e, NEW r, NEW n \in Nat, Payload(e, r)
    PROVE  Payload(Numbered(e, n), r) /\ EventType(Numbered(e, n))
<1> DEFINE m == Numbered(e, n)
<1>1. \A field \in DOMAIN e \ {"id", "seq"} : field \in DOMAIN m /\ m[field] = e[field]
  BY DEF Numbered
<1>2. m.id = n /\ m.seq = n
  BY DEF Numbered
<1> HIDE DEF m
<1>3. m.type = e.type /\ "type" \in DOMAIN m
  BY <1>1 DEF Payload
<1>4. Payload(m, r)
  BY <1>1, <1>3 DEF Payload
<1>5. m.type \in EventTypes
  BY <1>4 DEF Payload, OperationTypes, EventTypes
<1>6. m.type = "tool.requested" => m.call \in Calls /\ m.step \in Nat
  BY <1>4 DEF Payload, Requests, VerificationTypes
<1>7. m.type \in {"tool.escalated", "gate.revised"} =>
          m.digest \in Digests /\ m.revision \in Nat /\ m.max \in Nat
  BY <1>4, DigestAssumption, RuntimeAssumption DEF Payload, VerificationTypes
<1>8. m.type \notin {"run.created", "model.action_requested"}
  BY <1>4 DEF Payload, OperationTypes, ToolTypes, GateTypes, VerificationTypes
<1>9. EventType(m)
  BY <1>2, <1>4, <1>5, <1>6, <1>7, <1>8 DEF EventType, Payload
<1> QED BY <1>4, <1>9 DEF m

Numbering == {"read", "append", "confirm"}

\* A frame's event fits its request, and its request is on record, except while it
\* is still being put there.
Framed(events, f) ==
    /\ DOMAIN f = {"at", "event", "request"}
    /\ f.at \in Numbering => Payload(f.event, f.request)
    /\ f.at \in {"append", "confirm"} => EventType(f.event) /\ f.event.seq \in Nat \ {0}
    /\ f.at \in {"execute", "executing"} => f.request \in Requests /\ Requested(events, f.request.call)
    /\ f.at \in Numbering /\ f.event.type \notin VerificationTypes
          /\ (f.at = "confirm" \/ f.event.type # "tool.requested") =>
          Requested(events, f.request.call)

BaseInv ==
    /\ IsSequence(log)
    /\ policy \in [Callers -> Policies]
    /\ run = Rejected \/ Good(run)
    /\ run.call # None => Requested(log, run.call)
    /\ \A i \in 1..Len(log) : log[i].type = "tool.requested" =>
          [call |-> log[i].call, content |-> log[i].content, step |-> log[i].step] \in Requests
    /\ DOMAIN caller = Callers
    /\ \A c \in Callers : Framed(log, caller[c])

\* _load_active_request finds the request of a call that was requested.
LEMMA RequestFound ==
    ASSUME BaseInv, NEW call, Requested(log, call)
    PROVE  RequestOf(call) \in Requests /\ RequestOf(call).call = call
<1> DEFINE T == {i \in 1..Len(log) : log[i].type = "tool.requested" /\ log[i].call = call}
           P(i) == /\ log[i].type = "tool.requested" /\ log[i].call = call
                   /\ \A j \in i+1..Len(log) :
                          log[j].type = "tool.requested" => log[j].call # call
           last == CHOOSE i \in 1..Len(log) : P(i)
<1>1. Len(log) \in Nat
  BY AppendFacts DEF BaseInv
<1>2. PICK i \in T : \A j \in T : j <= i
  <2>1. T \subseteq 1..Len(log) /\ T # {}
    BY DEF Requested
  <2> HIDE DEF T
  <2> QED BY <1>1, <2>1, LastPosition
<1>3. i \in 1..Len(log) /\ P(i)
  BY <1>1, <1>2
<1>4. last \in 1..Len(log) /\ P(last)
  BY <1>3
<1>5. RequestOf(call) = [call |-> call, content |-> log[last].content, step |-> log[last].step]
  BY DEF RequestOf
<1> HIDE DEF last
<1>6. RequestOf(call) = [call |-> log[last].call, content |-> log[last].content,
                         step |-> log[last].step]
  BY <1>4, <1>5
<1> QED BY <1>4, <1>5, <1>6 DEF BaseInv

\* A step that only replaces one process's frame by a fitting one.
LEMMA FrameReplaced ==
    ASSUME BaseInv, NEW c \in Callers, NEW f, Framed(log, f),
           caller' = [caller EXCEPT ![c] = f], UNCHANGED <<log, run, policy>>
    PROVE  BaseInv'
<1>1. DOMAIN caller' = Callers /\ \A d \in Callers : Framed(log, caller'[d])
  BY DEF BaseInv
<1>2. log' = log /\ run' = run /\ policy' = policy
  OBVIOUS
<1> QED BY <1>1, <1>2 DEF BaseInv

LEMMA IdleFramed == Framed(log, Idle)
BY DEF Framed, Idle, Numbering

\* The two ways an operation that is not submit starts to append an event.
LEMMA GoingFramed ==
    ASSUME NEW e, NEW r, Payload(e, r),
           e.type \in VerificationTypes \/ e.type = "tool.requested" \/ Requested(log, r.call)
    PROVE  Framed(log, Appending(e, r))
BY DEF Framed, Appending, Numbering

\* While a gate waits, its call is on record and can be loaded.
LEMMA GateRequest ==
    ASSUME BaseInv, NEW reference, Matches(run, reference)
    PROVE  /\ Requested(log, reference.call)
           /\ RequestOf(reference.call) \in Requests
           /\ RequestOf(reference.call).call = reference.call
           /\ Good(run) /\ run.gate \in Gate /\ reference.revision = run.gate.revision
<1>1. run.status = "awaiting_gate" /\ reference.call = run.call
      /\ reference.revision = run.gate.revision
  BY DEF Matches
<1>2. Good(run)
  <2>1. Rejected.status = "rejected"
    BY Domain DEF Rejected, InitialRun
  <2> QED BY <1>1, <2>1 DEF BaseInv
<1>3. run.call # None /\ run.gate \in Gate
  BY <1>1, <1>2 DEF Good, FieldsMatchStatus, RunType, ToolStatuses
<1> QED BY <1>1, <1>2, <1>3, RequestFound DEF BaseInv

LEMMA BeginKeepsBase ==
    ASSUME BaseInv, NEW c \in Callers, Begin(c)
    PROVE  BaseInv'
<1> USE DEF stored, VerificationTypes
<1>1. ASSUME NEW call \in Calls, NEW content \in Contents, NEW step \in 1..MaxEvents,
             Submit(c, call, content, step)
      PROVE  BaseInv'
  <2> DEFINE r == [call |-> call, content |-> content, step |-> step]
             e == [type |-> "tool.requested", call |-> call, content |-> content,
                   step |-> step, action |-> 0]
  <2>1. Payload(e, r)
    BY DEF Payload, Requests, OperationTypes, ToolTypes
  <2>2. caller' = [caller EXCEPT ![c] = Appending(e, r)] /\ UNCHANGED <<log, run, policy>>
    BY <1>1 DEF Submit, Going
  <2> QED BY <2>1, <2>2, GoingFramed, FrameReplaced
<1>2. ASSUME NEW reference, Reject(c, reference)
      PROVE  BaseInv'
  <2> DEFINE r == RequestOf(reference.call)
             e == [type |-> "gate.rejected", call |-> reference.call,
                   digest |-> reference.digest, revision |-> reference.revision]
  <2>1. Matches(run, reference) /\ UNCHANGED <<log, run, policy>>
        /\ caller' = [caller EXCEPT ![c] = Appending(e, r)]
    BY <1>2 DEF Reject, Going
  <2>2. r \in Requests /\ r.call = reference.call /\ Requested(log, r.call)
    BY <2>1, GateRequest
  <2>3. Payload(e, r)
    BY <2>2 DEF Payload, OperationTypes, GateTypes
  <2> QED BY <2>1, <2>2, <2>3, GoingFramed, FrameReplaced
<1>3. ASSUME NEW reference, Approve(c, reference)
      PROVE  BaseInv'
  <2> DEFINE r == RequestOf(reference.call)
             e == [type |-> "gate.approved", call |-> reference.call,
                   digest |-> reference.digest, revision |-> reference.revision]
  <2>1. Matches(run, reference) /\ UNCHANGED <<log, run, policy>>
        /\ caller' = [caller EXCEPT ![c] = Appending(e, r)]
    BY <1>3 DEF Approve, Going
  <2>2. r \in Requests /\ r.call = reference.call /\ Requested(log, r.call)
    BY <2>1, GateRequest
  <2>3. Payload(e, r)
    BY <2>2 DEF Payload, OperationTypes, GateTypes
  <2> QED BY <2>1, <2>2, <2>3, GoingFramed, FrameReplaced
<1>4. ASSUME NEW reference, NEW outcome \in {"pass", "retry", "block"},
             Answer(c, reference, outcome)
      PROVE  BaseInv'
  <2> DEFINE r == RequestOf(reference.call)
             attempt == run.gate.attempts + 1
             verdict == Verdict(attempt, run.gate.max, outcome)
             e == [type |-> "gate.evaluated", call |-> reference.call,
                   digest |-> reference.digest, revision |-> reference.revision,
                   attempt |-> attempt, max |-> run.gate.max, outcome |-> verdict]
  <2>1. Matches(run, reference) /\ UNCHANGED <<log, run, policy>>
        /\ caller' = [caller EXCEPT ![c] = Appending(e, r)]
    BY <1>4 DEF Answer, Going
  <2>2. r \in Requests /\ r.call = reference.call /\ Requested(log, r.call)
        /\ run.gate \in Gate
    BY <2>1, GateRequest
  <2>3. attempt \in Nat /\ verdict \in {"pass", "retry", "block"}
    BY <2>2 DEF Gate, Verdict
  <2> HIDE DEF attempt, verdict
  <2>4. Payload(e, r)
    BY <2>2, <2>3 DEF Payload, OperationTypes, GateTypes
  <2> QED BY <2>1, <2>2, <2>4, GoingFramed, FrameReplaced
<1>5. ASSUME NEW reference, Revise(c, reference)
      PROVE  BaseInv'
  <2> DEFINE r == RequestOf(reference.call)
             revision == reference.revision + 1
             e == [type |-> "gate.revised", call |-> reference.call,
                   previousDigest |-> reference.digest,
                   previousRevision |-> reference.revision,
                   digest |-> Digest(r, policy[c], revision), revision |-> revision,
                   mode |-> policy[c], max |-> AttemptLimit]
  <2>1. Matches(run, reference) /\ UNCHANGED <<log, run, policy>>
        /\ reference.revision < MaxRevision /\ policy[c] \in GateModes
        /\ caller' = [caller EXCEPT ![c] = Appending(e, r)]
    BY <1>5 DEF Revise, Going, Proposal, NextRevision
  <2>2. r \in Requests /\ r.call = reference.call /\ Requested(log, r.call)
        /\ run.gate \in Gate /\ reference.revision = run.gate.revision
    BY <2>1, GateRequest
  <2>3. revision \in 1..MaxRevision+1
    BY <2>1, <2>2, RuntimeAssumption DEF Gate
  <2> HIDE DEF revision
  <2>4. Payload(e, r)
    BY <2>1, <2>2, <2>3 DEF Payload, OperationTypes, GateTypes
  <2> QED BY <2>1, <2>2, <2>4, GoingFramed, FrameReplaced
<1>6. ASSUME Recover(c)
      PROVE  BaseInv'
  <2> DEFINE r == RequestOf(run.call)
  <2>1. run.call # None
    <3>1. Rejected.status = "rejected"
      BY Domain DEF Rejected, InitialRun
    <3> QED BY <1>6, <3>1 DEF Recover, BaseInv, Good, FieldsMatchStatus, ToolStatuses
  <2>2. r \in Requests /\ r.call = run.call /\ Requested(log, r.call)
    BY <2>1, RequestFound DEF BaseInv
  <2>3. Payload(ToolEvent("tool.started", r), r)
    BY <2>2 DEF Payload, ToolEvent, OperationTypes, ToolTypes
  <2>4. Framed(log, Appending(ToolEvent("tool.started", r), r))
    BY <2>2, <2>3, GoingFramed
  <2>5. Framed(log, [at |-> "execute", event |-> None, request |-> r])
    BY <2>2 DEF Framed, Numbering
  <2> QED BY <1>6, <2>4, <2>5, FrameReplaced DEF Recover, Going
<1>7. ASSUME NEW type \in VerificationTypes, VerifyRun(c, type)
      PROVE  BaseInv'
  <2>1. Payload([type |-> type, scope |-> "run"], None)
    BY DEF Payload, OperationTypes
  <2> QED BY <1>7, <2>1, GoingFramed, FrameReplaced DEF VerifyRun, Going
<1>8. ASSUME VerifyStep(c)
      PROVE  BaseInv'
  <2>1. Payload([type |-> "verification.succeeded", scope |-> "step",
                 step |-> run.step], None)
    BY DEF Payload, OperationTypes
  <2> QED BY <1>8, <2>1, GoingFramed, FrameReplaced DEF VerifyStep, Going
<1> QED BY <1>1, <1>2, <1>3, <1>4, <1>5, <1>6, <1>7, <1>8 DEF Begin

\* What is on record stays on record.
LEMMA RequestedStays ==
    ASSUME NEW events, IsSequence(events), NEW e
    PROVE  /\ \A call : Requested(events, call) => Requested(Append(events, e), call)
           /\ \A f : Framed(events, f) => Framed(Append(events, e), f)
           /\ e.type = "tool.requested" => Requested(Append(events, e), e.call)
<1>1. \A call : Requested(events, call) => Requested(Append(events, e), call)
  BY AppendFacts DEF Requested
<1>2. e.type = "tool.requested" => Requested(Append(events, e), e.call)
  <2>1. /\ Len(events) \in Nat /\ Len(Append(events, e)) = Len(events) + 1
        /\ Append(events, e)[Len(events) + 1] = e
    BY AppendFacts
  <2>2. Len(events) + 1 \in 1..Len(Append(events, e))
    BY <2>1
  <2> QED BY <2>1, <2>2 DEF Requested
<1> QED BY <1>1, <1>2 DEF Framed

LEMMA StoreKeepsBase ==
    ASSUME BaseInv, NEW c \in Callers, Store(c)
    PROVE  BaseInv'
<1> DEFINE e == caller[c].event
           g == [caller[c] EXCEPT !.at = "confirm"]
<1>1. /\ log' = Append(log, e) /\ run' = ReplayStep(run, e) /\ policy' = policy
      /\ caller' = [caller EXCEPT ![c] = g] /\ caller[c].at = "append"
  BY DEF Store
<1>2. Framed(log, caller[c]) /\ Payload(e, caller[c].request) /\ EventType(e)
      /\ e.seq \in Nat \ {0}
  BY <1>1 DEF BaseInv, Framed, Numbering
<1>3. IsSequence(log')
  BY <1>1, AppendFacts DEF BaseInv
<1>4. \A call : Requested(log, call) => Requested(log', call)
  BY <1>1, RequestedStays DEF BaseInv
<1>5. e.type = "tool.requested" => Requested(log', e.call)
  BY <1>1, RequestedStays DEF BaseInv
<1>6. /\ run' = Rejected \/ Good(run')
      /\ run'.call \in {run.call, None} \/ (e.type = "tool.requested" /\ run'.call = e.call)
  BY <1>1, <1>2, ReplayStepGood DEF BaseInv
<1>7. run'.call # None => Requested(log', run'.call)
  BY <1>4, <1>5, <1>6 DEF BaseInv
<1>8. \A i \in 1..Len(log') : log'[i].type = "tool.requested" =>
        [call |-> log'[i].call, content |-> log'[i].content, step |-> log'[i].step] \in Requests
  <2>1. SUFFICES ASSUME NEW i \in 1..Len(log'), log'[i].type = "tool.requested"
        PROVE [call |-> log'[i].call, content |-> log'[i].content,
               step |-> log'[i].step] \in Requests
    OBVIOUS
  <2>2. /\ Len(log) \in Nat /\ Len(log') = Len(log) + 1 /\ log'[Len(log) + 1] = e
        /\ \A j \in 1..Len(log) : log'[j] = log[j]
    BY <1>1, AppendFacts DEF BaseInv
  <2>3. CASE i \in 1..Len(log)
    BY <2>1, <2>2, <2>3 DEF BaseInv
  <2>4. CASE i = Len(log) + 1
    BY <1>2, <2>1, <2>2, <2>4 DEF Payload, Requests, VerificationTypes
  <2> QED BY <2>2, <2>3, <2>4
<1>9. Framed(log', g)
  <2>1. DOMAIN g = {"at", "event", "request"} /\ g.at = "confirm" /\ g.event = e
        /\ g.request = caller[c].request
    BY <1>2 DEF Framed
  <2>2. e.type \notin VerificationTypes => Requested(log', g.request.call)
    BY <1>1, <1>2, <1>4, <1>5, <2>1 DEF Framed, Payload, Numbering
  <2> QED BY <1>2, <2>1, <2>2 DEF Framed
<1>10. DOMAIN caller' = Callers /\ \A d \in Callers : Framed(log', caller'[d])
  <2>1. \A d \in Callers : Framed(log', caller[d])
    BY <1>1, RequestedStays DEF BaseInv
  <2> QED BY <1>1, <1>9, <2>1 DEF BaseInv
<1> QED BY <1>1, <1>3, <1>6, <1>7, <1>8, <1>10 DEF BaseInv

LEMMA ConfirmKeepsBase ==
    ASSUME BaseInv, NEW c \in Callers, Confirm(c)
    PROVE  BaseInv'
<1> DEFINE e == caller[c].event
           r == caller[c].request
<1> USE DEF stored
<1>1. /\ caller[c].at = "confirm" /\ UNCHANGED <<log, run, policy>>
      /\ Framed(log, caller[c]) /\ Payload(e, r)
      /\ e.type \notin VerificationTypes => Requested(log, r.call) /\ r \in Requests
  BY DEF Confirm, BaseInv, Framed, Numbering, Payload
<1>2. CASE e.type = "tool.requested" /\ policy[c] # "raise" /\ Going(c, Decision(c, r), r)
  <2>1. r \in Requests /\ Requested(log, r.call)
    BY <1>1, <1>2 DEF VerificationTypes
  <2>2. CASE policy[c] = "deny"
    <3>1. Payload(Decision(c, r), r)
      BY <2>1, <2>2 DEF Decision, ToolEvent, Payload, OperationTypes, ToolTypes
    <3> QED BY <1>1, <1>2, <2>1, <3>1, GoingFramed, FrameReplaced DEF Going
  <2>3. CASE policy[c] = "allow"
    <3>1. Payload(Decision(c, r), r)
      BY <2>1, <2>3 DEF Decision, ToolEvent, Payload, OperationTypes, ToolTypes
    <3> QED BY <1>1, <1>2, <2>1, <3>1, GoingFramed, FrameReplaced DEF Going
  <2>4. CASE policy[c] \notin {"deny", "allow"}
    <3>1. policy[c] \in GateModes
      BY <1>2, <2>4, RuntimeAssumption DEF BaseInv
    <3>2. Decision(c, r) = [type |-> "tool.escalated", call |-> r.call, mode |-> policy[c],
                            revision |-> 1, digest |-> Digest(r, policy[c], 1),
                            max |-> AttemptLimit]
      BY <2>4 DEF Decision, Proposal
    <3>3. Payload(Decision(c, r), r)
      BY <2>1, <3>1, <3>2, RuntimeAssumption DEF Payload, OperationTypes, GateTypes
    <3> QED BY <1>1, <1>2, <2>1, <3>3, GoingFramed, FrameReplaced DEF Going
  <2> QED BY <2>2, <2>3, <2>4
<1>3. CASE Releases(e) /\ Going(c, ToolEvent("tool.started", r), r)
  <2>1. r \in Requests /\ Requested(log, r.call)
    BY <1>1, <1>3 DEF Releases, VerificationTypes
  <2>2. Payload(ToolEvent("tool.started", r), r)
    BY <2>1 DEF ToolEvent, Payload, OperationTypes, ToolTypes
  <2> QED BY <1>1, <1>3, <2>1, <2>2, GoingFramed, FrameReplaced DEF Going
<1>4. CASE e.type = "tool.started" /\ caller' = [caller EXCEPT ![c].at = "execute"]
  <2> DEFINE g == [caller[c] EXCEPT !.at = "execute"]
  <2>1. r \in Requests /\ Requested(log, r.call)
    BY <1>1, <1>4 DEF VerificationTypes
  <2>2. Framed(log, g)
    BY <1>1, <2>1 DEF Framed, Numbering
  <2>3. caller' = [caller EXCEPT ![c] = g]
    BY <1>4
  <2> QED BY <1>1, <2>2, <2>3, FrameReplaced
<1>5. CASE Leave(c)
  BY <1>1, <1>5, IdleFramed, FrameReplaced DEF Leave
<1> QED BY <1>2, <1>3, <1>4, <1>5 DEF Confirm

-----------------------------------------------------------------------------
(* The executor inside the runtime: it is ToolEffects, renamed, so what is *)
(* proved there holds of it.                                               *)

EP == INSTANCE ToolEffects_proofs WITH Workers <- Callers, Effects <- Calls, worker <- exec

LEMMA ExecutorNames ==
    /\ Executor!TypeOK <=> EP!TypeOK
    /\ Executor!Init <=> EP!Init
    /\ Executor!Next <=> EP!Next
    /\ Executor!vars = EP!vars
<1>1. Executor!TypeOK <=> EP!TypeOK
  BY DEF Executor!TypeOK, EP!TypeOK, Executor!Steps, EP!Steps
<1>2. Executor!Init <=> EP!Init
  BY DEF Executor!Init, EP!Init, Executor!Idle, EP!Idle
<1>3. Executor!Next <=> EP!Next
  BY DEF Executor!Next, EP!Next, Executor!Run, EP!Run, Executor!Deliver, EP!Deliver,
     Executor!LoadIntent, EP!LoadIntent, Executor!SaveIntent, EP!SaveIntent,
     Executor!RefuseIntent, EP!RefuseIntent, Executor!ReturnReceipt, EP!ReturnReceipt,
     Executor!Retry, EP!Retry, Executor!RefuseRetry, EP!RefuseRetry,
     Executor!Invoke, EP!Invoke, Executor!Finish, EP!Finish,
     Executor!SaveReceipt, EP!SaveReceipt, Executor!RefuseOutput, EP!RefuseOutput,
     Executor!RefuseReceipt, EP!RefuseReceipt, Executor!Counted, EP!Counted,
     Executor!Crash, EP!Crash, Executor!Goto, EP!Goto, Executor!Leave, EP!Leave,
     Executor!Idle, EP!Idle, Executor!outside, EP!outside,
     Executor!IntentAccepted, EP!IntentAccepted, Executor!AfterSaveIntent,
     EP!AfterSaveIntent, Executor!SafeRetry, EP!SafeRetry,
     Executor!ReceiptAccepted, EP!ReceiptAccepted
<1>4. Executor!vars = EP!vars
  BY DEF Executor!vars, EP!vars, Executor!outside, EP!outside
<1> QED BY <1>1, <1>2, <1>3, <1>4

LEMMA ExecutorAssumption == EP!EffectsAssumption
BY RuntimeAssumption DEF EP!EffectsAssumption

LEMMA ExecutorTypeStep ==
    ASSUME Executor!TypeOK, Executor!Next
    PROVE  Executor!TypeOK'
<1>1. EP!TypeOK /\ EP!Next
  BY ExecutorNames
<1>2. EP!TypeOK'
  BY <1>1, ExecutorAssumption, EP!TypeStep
<1>3. (Executor!TypeOK <=> EP!TypeOK)'
  BY ExecutorNames, PTL
<1> QED BY <1>2, <1>3

\* The executor of a process works on the request the process serves.
Linked ==
    /\ Executor!TypeOK
    /\ \A c \in Callers : caller[c].at = "executing" =>
          /\ exec[c].effect = caller[c].request.call
          /\ exec[c].content = caller[c].request.content

\* Every step of a process inside an operation is a step of its executor, or none.
LEMMA RunMapsToExecutor ==
    ASSUME BaseInv, NEW c \in Callers, Run(c)
    PROVE  Executor!Next \/ UNCHANGED Executor!vars
<1>1. CASE Read(c) \/ ReadRejected(c) \/ Store(c) \/ StoreRedelivered(c)
           \/ StoreRefused(c) \/ Confirm(c) \/ AuthorizeRaises(c)
                  \/ ConfirmRejected(c)
  BY <1>1 DEF Read, ReadRejected, Store, StoreRedelivered, StoreRefused, Confirm,
     AuthorizeRaises, ConfirmRejected, effects, Executor!vars, Executor!outside
<1>2. CASE Execute(c)
  <2>1. caller[c].request \in Requests
    BY <1>2 DEF Execute, BaseInv, Framed
  <2>2. caller[c].request.call \in Calls /\ caller[c].request.content \in Contents
    BY <2>1 DEF Requests
  <2>3. Executor!Deliver(c, caller[c].request.call, caller[c].request.content)
    BY <1>2 DEF Execute
  <2> QED BY <2>2, <2>3 DEF Executor!Next
<1>3. CASE ExecutorSteps(c)
  BY <1>3 DEF ExecutorSteps, Executor!Next, Executor!Run
<1>4. CASE ExecutorReturns(c)
  BY <1>4 DEF ExecutorReturns, Executor!Next, Executor!Run
<1>5. CASE ExecutorRaises(c)
  BY <1>5 DEF ExecutorRaises, Executor!Next, Executor!Run
<1> QED BY <1>1, <1>2, <1>3, <1>4, <1>5 DEF Run

LEMMA BeginLeavesExecutor ==
    ASSUME NEW c \in Callers, Begin(c)
    PROVE  UNCHANGED Executor!vars
BY DEF Begin, Submit, Reject, Approve, Revise, Answer, Recover, VerifyRun, VerifyStep,
   effects, Executor!vars, Executor!outside

LEMMA StepMapsToExecutor ==
    ASSUME BaseInv, [Next]_vars
    PROVE  Executor!Next \/ UNCHANGED Executor!vars
<1>1. CASE UNCHANGED vars
  BY <1>1 DEF vars, Executor!vars, Executor!outside
<1>2. ASSUME NEW c \in Callers, Crash(c) PROVE Executor!Next
  BY <1>2 DEF Crash, Executor!Next
<1>3. ASSUME NEW c \in Callers, NEW p \in Policies, ChangePolicy(c, p)
      PROVE  UNCHANGED Executor!vars
  BY <1>3 DEF ChangePolicy, effects, Executor!vars, Executor!outside
<1> QED BY <1>1, <1>2, <1>3, RunMapsToExecutor, BeginLeavesExecutor DEF Next

\* A finished execution has a result on record.
LEMMA ExecutorResult ==
    ASSUME Linked, NEW c \in Callers, ExecutorReturns(c)
    PROVE  receipts'[caller[c].request.call] \in Results
<1> DEFINE call == exec[c].effect
<1>1. /\ call = caller[c].request.call /\ Executor!TypeOK
      /\ Executor!ReturnReceipt(c) \/ Executor!SaveReceipt(c)
  BY DEF ExecutorReturns, Linked
<1>2. receipts \in [Calls -> Results \cup {None}]
  BY <1>1 DEF Executor!TypeOK
<1>3. exec[c].at # "idle" => call \in Calls
  BY <1>1 DEF Executor!TypeOK
<1>4. CASE Executor!ReturnReceipt(c)
  <2>1. call \in Calls /\ receipts[call] # None /\ receipts' = receipts
    BY <1>3, <1>4 DEF Executor!ReturnReceipt
  <2> QED BY <1>1, <1>2, <2>1
<1>5. CASE Executor!SaveReceipt(c)
  <2>1. call \in Calls /\ exec[c].at = "save_receipt"
        /\ receipts' = [receipts EXCEPT ![call] = exec[c].result]
    BY <1>3, <1>5 DEF Executor!SaveReceipt
  <2>2. exec[c].result \in Results
    BY <1>1, <2>1 DEF Executor!TypeOK
  <2> QED BY <1>1, <1>2, <2>1, <2>2
<1> QED BY <1>1, <1>4, <1>5

LEMMA RunKeepsBase ==
    ASSUME BaseInv, Linked, NEW c \in Callers, Run(c)
    PROVE  BaseInv'
<1> USE DEF stored
<1>1. CASE Read(c)
  <2> DEFINE g == [caller[c] EXCEPT !.at = "append", !.event = Numbered(@, run.next)]
  <2>1. caller' = [caller EXCEPT ![c] = g] /\ UNCHANGED <<log, run, policy>>
        /\ caller[c].at = "read" /\ run # Rejected
    BY <1>1 DEF Read
  <2>2. Framed(log, caller[c]) /\ Payload(caller[c].event, caller[c].request)
        /\ run.next \in Nat \ {0}
    BY <2>1 DEF BaseInv, Framed, Numbering, Good, RunType
  <2>3. DOMAIN g = {"at", "event", "request"} /\ g.at = "append"
        /\ g.event = Numbered(caller[c].event, run.next) /\ g.request = caller[c].request
    BY <2>2 DEF Framed
  <2>4. Payload(g.event, g.request) /\ EventType(g.event) /\ g.event.seq = run.next
    BY <2>2, <2>3, NumberedPayload DEF Numbered
  <2>5. g.event.type = caller[c].event.type
    BY <2>2, <2>3 DEF Payload, Numbered
  <2> HIDE DEF g
  <2>6. Framed(log, g)
    BY <2>1, <2>2, <2>3, <2>4, <2>5 DEF Framed, Numbering
  <2> QED BY <2>1, <2>6, FrameReplaced
<1>2. CASE ReadRejected(c) \/ StoreRefused(c) \/ AuthorizeRaises(c)
                  \/ ConfirmRejected(c)
  BY <1>2, IdleFramed, FrameReplaced
     DEF ReadRejected, StoreRefused, AuthorizeRaises, ConfirmRejected, Leave
<1>3. CASE Store(c)
  BY <1>3, StoreKeepsBase
<1>4. CASE StoreRedelivered(c)
  <2> DEFINE g == [caller[c] EXCEPT !.at = "confirm"]
             e == caller[c].event
  <2>1. caller' = [caller EXCEPT ![c] = g] /\ UNCHANGED <<log, run, policy>>
        /\ caller[c].at = "append" /\ Framed(log, caller[c])
        /\ Payload(e, caller[c].request) /\ EventType(e) /\ e.seq \in Nat \ {0}
    BY <1>4 DEF StoreRedelivered, BaseInv, Framed, Numbering
  <2>2. log[e.seq] = e /\ e.seq \in Nat \ {0} /\ e.seq <= Len(log) /\ Len(log) \in Nat
    BY <1>4, <2>1, AppendFacts DEF StoreRedelivered, Known, Framed, BaseInv
  <2>3. e.type = "tool.requested" => Requested(log, caller[c].request.call)
    BY <2>1, <2>2 DEF Requested, Payload, VerificationTypes
  <2>4. Framed(log, g)
    BY <2>1, <2>3 DEF Framed, Numbering
  <2> QED BY <2>1, <2>4, FrameReplaced
<1>5. CASE Confirm(c)
  BY <1>5, ConfirmKeepsBase
<1>6. CASE Execute(c)
  <2> DEFINE g == [caller[c] EXCEPT !.at = "executing"]
  <2>1. caller' = [caller EXCEPT ![c] = g] /\ UNCHANGED <<log, run, policy>>
        /\ caller[c].at = "execute" /\ Framed(log, caller[c])
    BY <1>6 DEF Execute, BaseInv
  <2>2. Framed(log, g)
    BY <2>1 DEF Framed, Numbering
  <2> QED BY <2>1, <2>2, FrameReplaced
<1>7. CASE ExecutorSteps(c)
  BY <1>7 DEF ExecutorSteps, BaseInv
<1>8. CASE ExecutorReturns(c)
  <2> DEFINE r == caller[c].request
             result == receipts'[r.call]
  <2>1. Framed(log, caller[c]) /\ caller[c].at = "executing" /\ UNCHANGED <<log, run, policy>>
        /\ caller' = [caller EXCEPT ![c] = Appending(OutcomeEvent(result, r), r)]
    BY <1>8 DEF ExecutorReturns, BaseInv, Going
  <2>2. r \in Requests /\ Requested(log, r.call)
    BY <2>1 DEF Framed
  <2>3. result \in Outcomes
    BY <1>8, ExecutorResult, RuntimeAssumption
  <2> HIDE DEF result
  <2>4. Payload(OutcomeEvent(result, r), r)
    BY <2>2, <2>3 DEF OutcomeEvent, ToolEvent, Outcomes, Payload, OperationTypes, ToolTypes
  <2> QED BY <2>1, <2>2, <2>4, GoingFramed, FrameReplaced
<1>9. CASE ExecutorRaises(c)
  BY <1>9, IdleFramed, FrameReplaced DEF ExecutorRaises, Leave
<1> QED BY <1>1, <1>2, <1>3, <1>4, <1>5, <1>6, <1>7, <1>8, <1>9 DEF Run

LEMMA BaseStep ==
    ASSUME BaseInv, Linked, [Next]_vars
    PROVE  BaseInv'
<1>1. CASE UNCHANGED vars
  BY <1>1 DEF vars, BaseInv
<1>2. ASSUME NEW c \in Callers, Crash(c) PROVE BaseInv'
  BY <1>2, IdleFramed, FrameReplaced DEF Crash, Leave, stored
<1>3. ASSUME NEW c \in Callers, NEW p \in Policies, ChangePolicy(c, p) PROVE BaseInv'
  BY <1>3 DEF ChangePolicy, BaseInv, stored
<1> QED BY <1>1, <1>2, <1>3, BeginKeepsBase, RunKeepsBase DEF Next

\* A process's frame and its executor move together.
LEMMA LinkedStep ==
    ASSUME BaseInv, Linked, [Next]_vars
    PROVE  Linked'
<1>1. Executor!TypeOK'
  <2>1. CASE Executor!Next
    BY <2>1, ExecutorTypeStep DEF Linked
  <2>2. CASE UNCHANGED Executor!vars
    BY <2>2 DEF Linked, Executor!vars, Executor!outside, Executor!TypeOK
  <2> QED BY <2>1, <2>2, StepMapsToExecutor
<1> DEFINE Link(c) == caller[c].at = "executing" =>
                /\ exec[c].effect = caller[c].request.call
                /\ exec[c].content = caller[c].request.content
<1>2. \A c \in Callers : Link(c)'
  <2>1. CASE UNCHANGED vars
    BY <2>1 DEF vars, Linked
  <2>2. ASSUME NEW c \in Callers, Begin(c) \/ \E p \in Policies : ChangePolicy(c, p)
        PROVE  \A d \in Callers : Link(d)'
    <3>1. exec' = exec /\ \A d \in Callers : caller'[d] = caller[d] \/ caller'[d].at # "executing"
      BY <2>2 DEF Begin, Submit, Reject, Approve, Revise, Answer, Recover, VerifyRun, VerifyStep,
         Going, Appending, ChangePolicy, effects, BaseInv
    <3> QED BY <3>1 DEF Linked
  <2>3. ASSUME NEW c \in Callers,
               Read(c) \/ ReadRejected(c) \/ Store(c) \/ StoreRedelivered(c)
                  \/ StoreRefused(c) \/ Confirm(c) \/ AuthorizeRaises(c)
                  \/ ConfirmRejected(c)
        PROVE  \A d \in Callers : Link(d)'
    <3>1. exec' = exec /\ \A d \in Callers : caller'[d] = caller[d] \/ caller'[d].at # "executing"
      BY <2>3 DEF Read, ReadRejected, Store, StoreRedelivered, StoreRefused, Confirm,
         AuthorizeRaises, ConfirmRejected, Going, Appending, Leave, Idle, effects, BaseInv, Framed
    <3> QED BY <3>1 DEF Linked
  <2>4. ASSUME NEW c \in Callers, Execute(c)
        PROVE  \A d \in Callers : Link(d)'
    <3>1. /\ caller' = [caller EXCEPT ![c].at = "executing"]
          /\ \A d \in Callers \ {c} : exec'[d] = exec[d]
          /\ exec'[c].effect = caller[c].request.call
          /\ exec'[c].content = caller[c].request.content
      BY <2>4 DEF Execute, Executor!Deliver, Executor!Idle, Linked, Executor!TypeOK
    <3> QED BY <3>1 DEF Linked, BaseInv, Framed
  <2>5. ASSUME NEW c \in Callers, ExecutorSteps(c)
        PROVE  \A d \in Callers : Link(d)'
    <3> DEFINE Same == \A d \in Callers : /\ exec'[d].effect = exec[d].effect
                                         /\ exec'[d].content = exec[d].content
    <3>0. \A d \in Callers : DOMAIN exec[d] = {"at", "effect", "content", "found", "result"}
          /\ DOMAIN exec = Callers
      BY DEF Linked, Executor!TypeOK
    <3>1. CASE Executor!LoadIntent(c)
      <4>1. exec' = [exec EXCEPT ![c].at = "save_intent",
                                 ![c].found = intents[exec[c].effect]]
        BY <3>1 DEF Executor!LoadIntent
      <4>2. Same
        BY <3>0, <4>1
      <4> QED BY <2>5, <4>2 DEF Linked, ExecutorSteps
    <3>2. CASE Executor!SaveIntent(c) \/ Executor!Retry(c) \/ Executor!Invoke(c)
      <4>1. \E step : exec' = [exec EXCEPT ![c].at = step]
        BY <3>2 DEF Executor!SaveIntent, Executor!Retry, Executor!Invoke, Executor!Goto
      <4>2. Same
        BY <3>0, <4>1
      <4> QED BY <2>5, <4>2 DEF Linked, ExecutorSteps
    <3>3. CASE \E r \in Results : Executor!Finish(c, r)
      <4>1. \E r : exec' = [exec EXCEPT ![c].at = "save_receipt", ![c].result = r]
        BY <3>3 DEF Executor!Finish
      <4>2. Same
        BY <3>0, <4>1
      <4> QED BY <2>5, <4>2 DEF Linked, ExecutorSteps
    <3> QED BY <2>5, <3>1, <3>2, <3>3 DEF ExecutorSteps
  <2>6. ASSUME NEW c \in Callers, ExecutorReturns(c) \/ ExecutorRaises(c) \/ Crash(c)
        PROVE  \A d \in Callers : Link(d)'
    <3>1. /\ \A d \in Callers \ {c} : caller'[d] = caller[d] /\ exec'[d] = exec[d]
          /\ caller'[c].at # "executing"
      BY <2>6 DEF ExecutorReturns, ExecutorRaises, Crash, Going, Appending, Leave, Idle,
         Executor!ReturnReceipt, Executor!SaveReceipt, Executor!RefuseIntent,
         Executor!RefuseRetry, Executor!RefuseOutput, Executor!RefuseReceipt, Executor!Crash, Executor!Leave,
         Linked, Executor!TypeOK, BaseInv
    <3> QED BY <3>1 DEF Linked
  <2> QED BY <2>1, <2>2, <2>3, <2>4, <2>5, <2>6 DEF Next, Run
<1> QED BY <1>1, <1>2 DEF Linked

\* The inductive invariant, which needs no assumption on how many processes there are.
RInv == BaseInv /\ Linked

LEMMA RuntimeInvariant == Spec => []RInv
<1>1. Init => RInv
  <2> SUFFICES ASSUME Init PROVE RInv
    OBVIOUS
  <2>1. EventType(Created) /\ EventType(Started)
    BY RuntimeAssumption DEF EventType, Created, Started, EventTypes, RunTypes
  <2>2. LET s == ReplayStep(InitialRun, Created)
        IN  (s = Rejected \/ Good(s)) /\ s.call = None
    BY <2>1, InitialGood, ReplayStepGood DEF InitialRun, Created
  <2>3. (run = Rejected \/ Good(run)) /\ run.call = None
    BY <2>1, <2>2, ReplayStepGood DEF Init, Started
  <2>4. IsSequence(log)
    <3>1. <<Created, Started>> \in Seq({Created, Started})
      OBVIOUS
    <3> QED BY <3>1 DEF Init, IsSequence
  <2>5. \A i \in 1..Len(log) : log[i].type # "tool.requested"
    BY DEF Init, Created, Started
  <2>6. DOMAIN caller = Callers /\ \A c \in Callers : caller[c] = Idle
    BY DEF Init
  <2>7. BaseInv
    BY <2>3, <2>4, <2>5, <2>6, IdleFramed DEF BaseInv, Init
  <2>8. Executor!TypeOK
    BY RuntimeAssumption DEF Init, Executor!Init, Executor!TypeOK, Executor!Idle, Executor!Steps
  <2> QED BY <2>6, <2>7, <2>8 DEF RInv, Linked, Idle
<1>2. RInv /\ [Next]_vars => RInv'
  BY BaseStep, LinkedStep DEF RInv
<1> QED BY <1>1, <1>2, PTL DEF Spec

\* The executors take only the steps of ToolEffects.
LEMMA ExecutorRefines == Spec => Executor!Spec
<1>1. Init => Executor!Init
  BY DEF Init
<1>2. RInv /\ [Next]_vars => [Executor!Next]_Executor!vars
  BY StepMapsToExecutor DEF RInv
<1> QED BY <1>1, <1>2, RuntimeInvariant, PTL DEF Spec, Executor!Spec

-----------------------------------------------------------------------------
(* What the operations begin with.                                         *)

OutcomeTypes == {"tool.succeeded", "tool.failed", "tool.timed_out"}

Stored(l, i) == [call |-> l[i].call, content |-> l[i].content, step |-> l[i].step]

\* The request of a frame is on record, word for word.
RequestStored(l, r) == \E i \in 1..Len(l) : l[i].type = "tool.requested" /\ Stored(l, i) = r

\* The request an operation finds is on record.
LEMMA FoundStored ==
    ASSUME BaseInv, NEW call, Requested(log, call)
    PROVE  RequestStored(log, RequestOf(call))
<1> DEFINE T == {i \in 1..Len(log) : log[i].type = "tool.requested" /\ log[i].call = call}
           P(i) == /\ log[i].type = "tool.requested" /\ log[i].call = call
                   /\ \A j \in i+1..Len(log) :
                          log[j].type = "tool.requested" => log[j].call # call
           last == CHOOSE i \in 1..Len(log) : P(i)
<1>1. Len(log) \in Nat
  BY AppendFacts DEF BaseInv
<1>2. PICK i \in T : \A j \in T : j <= i
  <2>1. T \subseteq 1..Len(log) /\ T # {}
    BY DEF Requested
  <2> HIDE DEF T
  <2> QED BY <1>1, <2>1, LastPosition
<1>3. i \in 1..Len(log) /\ P(i)
  BY <1>1, <1>2
<1>4. last \in 1..Len(log) /\ P(last)
  BY <1>3
<1>5. RequestOf(call) = [call |-> call, content |-> log[last].content, step |-> log[last].step]
  BY DEF RequestOf
<1> HIDE DEF last
<1>6. Stored(log, last) = RequestOf(call)
  BY <1>4, <1>5 DEF Stored
<1> QED BY <1>4, <1>6 DEF RequestStored

\* The frame an operation begins with: an event other than an outcome, about a request
\* on record unless it is one, or a recovery of the running call.
Beginning(f) ==
    \/ /\ f.at = "read" /\ f.event.type \notin OutcomeTypes
       /\ \/ f.event.type = "tool.requested" /\ f.request \in Requests
          \/ f.event.type \in VerificationTypes /\ f.request = None
          \/ f.request \in Requests /\ RequestStored(log, f.request)
    \/ /\ f.at = "execute" /\ run.status = "tool_running"
       /\ f.request \in Requests /\ RequestStored(log, f.request) /\ f.request.call = run.call

LEMMA BeginFrame ==
    ASSUME BaseInv, NEW c \in Callers, Begin(c)
    PROVE  /\ UNCHANGED <<log, run, intents, receipts, exec>> /\ caller[c].at = "idle"
           /\ \E f : caller' = [caller EXCEPT ![c] = f] /\ Beginning(f)
<1> USE DEF stored, effects
<1>1. ASSUME NEW e, NEW r, Going(c, e, r), e.type \notin OutcomeTypes,
             \/ e.type = "tool.requested" /\ r \in Requests
             \/ e.type \in VerificationTypes /\ r = None
             \/ r \in Requests /\ RequestStored(log, r)
      PROVE  \E f : caller' = [caller EXCEPT ![c] = f] /\ Beginning(f)
  <2>1. caller' = [caller EXCEPT ![c] = Appending(e, r)]
    BY <1>1 DEF Going
  <2>2. Beginning(Appending(e, r))
    BY <1>1 DEF Beginning, Appending
  <2> QED BY <2>1, <2>2
<1>2. ASSUME NEW call \in Calls, NEW content \in Contents, NEW step \in 1..MaxEvents,
             Submit(c, call, content, step)
      PROVE  \E f : caller' = [caller EXCEPT ![c] = f] /\ Beginning(f)
  <2> DEFINE r == [call |-> call, content |-> content, step |-> step]
             e == [type |-> "tool.requested", call |-> call, content |-> content,
                   step |-> step, action |-> 0]
  <2>1. Going(c, e, r) /\ e.type = "tool.requested"
    BY <1>2 DEF Submit
  <2>2. r \in Requests
    BY DEF Requests
  <2> QED BY <1>1, <2>1, <2>2 DEF OutcomeTypes
<1>3. ASSUME NEW reference, Matches(run, reference), NEW e,
             Going(c, e, RequestOf(reference.call)), e.type \notin OutcomeTypes
      PROVE  \E f : caller' = [caller EXCEPT ![c] = f] /\ Beginning(f)
  <2>1. RequestOf(reference.call) \in Requests /\ RequestStored(log, RequestOf(reference.call))
    BY <1>3, GateRequest, FoundStored
  <2> QED BY <1>1, <1>3, <2>1
<1>4. ASSUME NEW reference, \/ Reject(c, reference) \/ Approve(c, reference)
                            \/ Revise(c, reference)
                            \/ \E outcome \in {"pass", "retry", "block"} :
                                    Answer(c, reference, outcome)
      PROVE  \E f : caller' = [caller EXCEPT ![c] = f] /\ Beginning(f)
  <2>1. Matches(run, reference)
    BY <1>4 DEF Reject, Approve, Revise, Answer
  <2>2. \E e : Going(c, e, RequestOf(reference.call)) /\ e.type \notin OutcomeTypes
    BY <1>4 DEF Reject, Approve, Revise, Answer, OutcomeTypes
  <2> QED BY <1>3, <2>1, <2>2
<1>5. ASSUME Recover(c)
      PROVE  \E f : caller' = [caller EXCEPT ![c] = f] /\ Beginning(f)
  <2> DEFINE r == RequestOf(run.call)
             g == [at |-> "execute", event |-> None, request |-> r]
  <2>1. run.status \in {"tool_ready", "tool_running"}
    BY <1>5 DEF Recover
  <2>2. run.call # None
    <3>1. Rejected.status = "rejected"
      BY Domain DEF Rejected, InitialRun
    <3> QED BY <2>1, <3>1 DEF BaseInv, Good, FieldsMatchStatus, ToolStatuses
  <2>3. r \in Requests /\ r.call = run.call /\ RequestStored(log, r)
    BY <2>2, RequestFound, FoundStored DEF BaseInv
  <2>4. CASE Going(c, ToolEvent("tool.started", r), r)
    BY <1>1, <2>3, <2>4 DEF ToolEvent, OutcomeTypes
  <2>5. CASE run.status = "tool_running" /\ caller' = [caller EXCEPT ![c] = g]
    <3>1. Beginning(g)
      BY <2>3, <2>5 DEF Beginning
    <3> QED BY <2>5, <3>1
  <2> QED BY <1>5, <2>4, <2>5 DEF Recover
<1>6. ASSUME NEW type \in VerificationTypes, VerifyRun(c, type)
      PROVE  \E f : caller' = [caller EXCEPT ![c] = f] /\ Beginning(f)
  <2>1. Going(c, [type |-> type, scope |-> "run"], None)
    BY <1>6 DEF VerifyRun
  <2> QED BY <1>1, <2>1 DEF VerificationTypes, OutcomeTypes
<1>7. ASSUME VerifyStep(c)
      PROVE  \E f : caller' = [caller EXCEPT ![c] = f] /\ Beginning(f)
  <2>1. Going(c, [type |-> "verification.succeeded", scope |-> "step", step |-> run.step], None)
    BY <1>7 DEF VerifyStep
  <2> QED BY <1>1, <2>1 DEF VerificationTypes, OutcomeTypes
<1>8. UNCHANGED <<log, run, intents, receipts, exec>> /\ caller[c].at = "idle"
  BY DEF Begin, Submit, Reject, Approve, Revise, Answer, Recover, VerifyRun, VerifyStep, CanBegin
<1> QED BY <1>2, <1>4, <1>5, <1>6, <1>7, <1>8 DEF Begin

-----------------------------------------------------------------------------
(* The log and the receipts, for any number of processes.                  *)

\* The receipt on record of the event's call says what the event says.
Backed(e, records) ==
    /\ e.call \in Calls /\ records[e.call] # None
    /\ (e.type = "tool.succeeded") <=> (records[e.call] = "succeeded")
    /\ (e.type = "tool.timed_out") <=> (records[e.call] = "timed_out")

\* The frame is about to store an outcome, or has just stored it.
Reports(f) == f.at \in Numbering /\ f.event.type \in OutcomeTypes

\* An outcome is backed by its receipt already while it is on its way to the log.
OutcomeInv ==
    /\ \A i \in 1..Len(log) : log[i].type \in OutcomeTypes => Backed(log[i], receipts)
    /\ \A c \in Callers : Reports(caller[c]) => Backed(caller[c].event, receipts)

ReceiptsStay == \A call \in Calls : receipts[call] # None => receipts'[call] = receipts[call]

LEMMA ReceiptsAreFinal ==
    ASSUME BaseInv, Linked, [Next]_vars
    PROVE  ReceiptsStay
<1>1. CASE UNCHANGED Executor!vars
  BY <1>1 DEF Executor!vars, ReceiptsStay
<1>2. CASE Executor!Next
  <2>1. PICK c \in Callers :
          \/ \E call \in Calls, content \in Contents : Executor!Deliver(c, call, content)
          \/ Executor!Run(c) \/ Executor!Crash(c)
    BY <1>2 DEF Executor!Next
  <2>2. CASE Executor!SaveReceipt(c)
    <3>1. receipts \in [Calls -> Results \cup {None}]
      BY DEF Linked, Executor!TypeOK
    <3> QED BY <2>2, <3>1 DEF Executor!SaveReceipt, Executor!ReceiptAccepted, ReceiptsStay
  <2>3. CASE ~Executor!SaveReceipt(c)
    <3>1. UNCHANGED receipts
      BY <2>1, <2>3 DEF Executor!Run, Executor!Deliver, Executor!LoadIntent,
         Executor!SaveIntent, Executor!RefuseIntent, Executor!ReturnReceipt, Executor!Retry,
         Executor!RefuseRetry, Executor!Invoke, Executor!Finish, Executor!RefuseOutput, Executor!RefuseReceipt,
         Executor!Crash
    <3> QED BY <3>1 DEF ReceiptsStay
  <2> QED BY <2>2, <2>3
<1> QED BY <1>1, <1>2, StepMapsToExecutor

\* A step that stores nothing and replaces one frame by one that is backed, if it
\* reports.
LEMMA ReportReplaced ==
    ASSUME BaseInv, OutcomeInv, ReceiptsStay, log' = log, NEW c \in Callers, NEW f,
           caller' = [caller EXCEPT ![c] = f],
           Reports(f) => Backed(f.event, receipts')
    PROVE  OutcomeInv'
<1>1. \A e : Backed(e, receipts) => Backed(e, receipts')
  BY DEF Backed, ReceiptsStay
<1>2. \A d \in Callers : caller'[d] = IF d = c THEN f ELSE caller[d]
  BY DEF BaseInv
<1>3. \A d \in Callers : Reports(caller'[d]) => Backed(caller'[d].event, receipts')
  BY <1>1, <1>2 DEF OutcomeInv
<1>4. \A i \in 1..Len(log) : log[i].type \in OutcomeTypes => Backed(log[i], receipts')
  BY <1>1 DEF OutcomeInv
<1> QED BY <1>3, <1>4 DEF OutcomeInv

LEMMA OutcomeStep ==
    ASSUME RInv, OutcomeInv, [Next]_vars
    PROVE  OutcomeInv'
<1> USE DEF stored
<1>0. BaseInv /\ ReceiptsStay
  BY ReceiptsAreFinal DEF RInv
<1>1. CASE UNCHANGED vars
  BY <1>1 DEF vars, OutcomeInv
<1>2. ASSUME NEW c \in Callers, Begin(c) PROVE OutcomeInv'
  <2>1. PICK f : caller' = [caller EXCEPT ![c] = f] /\ Beginning(f)
    BY <1>0, <1>2, BeginFrame
  <2>2. ~Reports(f) /\ log' = log
    BY <1>0, <1>2, <2>1, BeginFrame DEF Beginning, Reports, Numbering
  <2> QED BY <1>0, <2>1, <2>2, ReportReplaced
<1>3. ~Reports(Idle)
  BY DEF Reports, Idle, Numbering
<1>4. ASSUME NEW c \in Callers, ReadRejected(c) \/ StoreRefused(c) \/ AuthorizeRaises(c)
                  \/ ConfirmRejected(c)
                                  \/ ExecutorRaises(c) \/ Crash(c)
      PROVE  OutcomeInv'
  <2>1. log' = log /\ caller' = [caller EXCEPT ![c] = Idle]
    BY <1>4 DEF ReadRejected, StoreRefused, AuthorizeRaises, ConfirmRejected, ExecutorRaises, Crash, Leave
  <2> QED BY <1>0, <1>3, <2>1, ReportReplaced
<1>5. ASSUME NEW c \in Callers, NEW p \in Policies, ChangePolicy(c, p) PROVE OutcomeInv'
  BY <1>5 DEF ChangePolicy, effects, OutcomeInv
<1>6. ASSUME NEW c \in Callers, Read(c) PROVE OutcomeInv'
  <2> DEFINE e == caller[c].event
             m == Numbered(e, run.next)
             g == [caller[c] EXCEPT !.at = "append", !.event = m]
  <2>1. caller[c].at = "read" /\ Framed(log, caller[c]) /\ Payload(e, caller[c].request)
        /\ log' = log /\ caller' = [caller EXCEPT ![c] = g]
    BY <1>0, <1>6 DEF Read, BaseInv, Framed, Numbering
  <2>2. m.type = e.type /\ (e.type \in OutcomeTypes => m.call = e.call)
    BY <2>1 DEF Numbered, Payload, VerificationTypes, OutcomeTypes
  <2>3. g.event = m
    BY <2>1 DEF Framed
  <2>4. e.type \in OutcomeTypes => Backed(e, receipts')
    BY <1>0, <2>1 DEF OutcomeInv, Reports, Numbering, Backed, ReceiptsStay
  <2> HIDE DEF m
  <2>5. e.type \in OutcomeTypes => Backed(m, receipts')
    BY <2>2, <2>4 DEF Backed
  <2>6. Reports(g) => Backed(g.event, receipts')
    BY <2>2, <2>3, <2>5 DEF Reports
  <2> HIDE DEF g
  <2> QED BY <1>0, <2>1, <2>6, ReportReplaced
<1>7. ASSUME NEW c \in Callers, StoreRedelivered(c) PROVE OutcomeInv'
  <2> DEFINE g == [caller[c] EXCEPT !.at = "confirm"]
  <2>1. caller[c].at = "append" /\ Framed(log, caller[c])
        /\ log' = log /\ caller' = [caller EXCEPT ![c] = g] /\ receipts' = receipts
    BY <1>0, <1>7 DEF StoreRedelivered, BaseInv, effects
  <2>2. g.event = caller[c].event
    BY <2>1 DEF Framed
  <2>3. Reports(g) => Backed(g.event, receipts')
    BY <2>1, <2>2 DEF OutcomeInv, Reports, Numbering
  <2> HIDE DEF g
  <2> QED BY <1>0, <2>1, <2>3, ReportReplaced
<1>8. ASSUME NEW c \in Callers, Store(c) PROVE OutcomeInv'
  <2> DEFINE e == caller[c].event
             g == [caller[c] EXCEPT !.at = "confirm"]
  <2>1. caller[c].at = "append" /\ Framed(log, caller[c]) /\ log' = Append(log, e)
        /\ caller' = [caller EXCEPT ![c] = g] /\ receipts' = receipts
    BY <1>0, <1>8 DEF Store, BaseInv, effects
  <2>2. g.event = e
    BY <2>1 DEF Framed
  <2>3. e.type \in OutcomeTypes => Backed(e, receipts)
    BY <2>1 DEF OutcomeInv, Reports, Numbering
  <2>4. \A d \in Callers : caller'[d] = IF d = c THEN g ELSE caller[d]
    BY <1>0, <2>1 DEF BaseInv
  <2>5. \A d \in Callers : Reports(caller'[d]) => Backed(caller'[d].event, receipts')
    <3> HIDE DEF g
    <3> QED BY <2>1, <2>2, <2>3, <2>4 DEF OutcomeInv, Reports
  <2>6. /\ Len(log) \in Nat /\ Len(log') = Len(log) + 1 /\ log'[Len(log) + 1] = e
        /\ \A i \in 1..Len(log) : log'[i] = log[i]
    BY <1>0, <2>1, AppendFacts DEF BaseInv
  <2>7. \A i \in 1..Len(log') : log'[i].type \in OutcomeTypes => Backed(log'[i], receipts')
    <3>1. \A i \in 1..Len(log') : i \in 1..Len(log) \/ i = Len(log) + 1
      BY <2>6
    <3> QED BY <2>1, <2>3, <2>6, <3>1 DEF OutcomeInv
  <2> QED BY <2>5, <2>7 DEF OutcomeInv
<1>9. ASSUME NEW c \in Callers, Confirm(c) PROVE OutcomeInv'
  <2> DEFINE r == caller[c].request
             g == [caller[c] EXCEPT !.at = "execute"]
  <2>1. log' = log
    BY <1>9 DEF Confirm
  <2>2. CASE caller' = [caller EXCEPT ![c] = Appending(Decision(c, r), r)]
    <3>1. Decision(c, r).type \in {"tool.denied", "tool.authorized", "tool.escalated"}
      BY DEF Decision, ToolEvent, Proposal
    <3>2. ~Reports(Appending(Decision(c, r), r))
      BY <3>1 DEF Reports, Appending, OutcomeTypes
    <3> QED BY <1>0, <2>1, <2>2, <3>2, ReportReplaced
  <2>3. CASE caller' = [caller EXCEPT ![c] = Appending(ToolEvent("tool.started", r), r)]
    <3>1. ~Reports(Appending(ToolEvent("tool.started", r), r))
      BY DEF Reports, Appending, ToolEvent, OutcomeTypes
    <3> QED BY <1>0, <2>1, <2>3, <3>1, ReportReplaced
  <2>4. CASE caller' = [caller EXCEPT ![c].at = "execute"]
    <3>1. caller' = [caller EXCEPT ![c] = g]
      BY <2>4
    <3>2. ~Reports(g)
      BY <1>0 DEF BaseInv, Framed, Reports, Numbering
    <3> HIDE DEF g
    <3> QED BY <1>0, <2>1, <3>1, <3>2, ReportReplaced
  <2>5. CASE Leave(c)
    BY <1>0, <1>3, <2>1, <2>5, ReportReplaced DEF Leave
  <2> QED BY <1>9, <2>2, <2>3, <2>4, <2>5 DEF Confirm, Going
<1>10. ASSUME NEW c \in Callers, Execute(c) PROVE OutcomeInv'
  <2> DEFINE g == [caller[c] EXCEPT !.at = "executing"]
  <2>1. log' = log /\ caller' = [caller EXCEPT ![c] = g]
    BY <1>10 DEF Execute
  <2>2. ~Reports(g)
    BY <1>0 DEF BaseInv, Framed, Reports, Numbering
  <2> HIDE DEF g
  <2> QED BY <1>0, <2>1, <2>2, ReportReplaced
<1>11. ASSUME NEW c \in Callers, ExecutorSteps(c) PROVE OutcomeInv'
  <2>1. log' = log /\ caller' = caller
    BY <1>11 DEF ExecutorSteps
  <2>2. \A e : Backed(e, receipts) => Backed(e, receipts')
    BY <1>0 DEF Backed, ReceiptsStay
  <2> QED BY <2>1, <2>2 DEF OutcomeInv
<1>12. ASSUME NEW c \in Callers, ExecutorReturns(c) PROVE OutcomeInv'
  <2> DEFINE r == caller[c].request
             result == receipts'[r.call]
             e == OutcomeEvent(result, r)
  <2>1. caller[c].at = "executing" /\ log' = log
        /\ caller' = [caller EXCEPT ![c] = Appending(e, r)]
    BY <1>12 DEF ExecutorReturns, Going
  <2>2. r.call \in Calls
    BY <1>0, <2>1 DEF BaseInv, Framed, Requests
  <2>3. result \in Results /\ result # None /\ result \in Outcomes
    BY <1>12, ExecutorResult, RuntimeAssumption DEF RInv
  <2>4. Appending(e, r).event = e
    BY DEF Appending
  <2>5. Backed(e, receipts')
    BY <2>2, <2>3 DEF Backed, OutcomeEvent, ToolEvent, Outcomes
  <2> HIDE DEF e
  <2> QED BY <1>0, <2>1, <2>4, <2>5, ReportReplaced
<1> QED BY <1>1, <1>2, <1>4, <1>5, <1>6, <1>7, <1>8, <1>9, <1>10, <1>11, <1>12
        DEF Next, Run

LEMMA OutcomeInit == Init => OutcomeInv
BY DEF Init, OutcomeInv, Created, Started, OutcomeTypes, Reports, Idle, Numbering

\* Whatever processes race, die or recover, the log never says of a tool call what
\* its durable receipt does not say: _execute stores an outcome only after its receipt.
THEOREM OutcomesCorrect == Spec => []OutcomesOnRecord
<1>1. Init => OutcomeInv
  BY OutcomeInit
<1>2. RInv /\ OutcomeInv /\ [Next]_vars => OutcomeInv'
  BY OutcomeStep
<1>3. OutcomeInv => OutcomesOnRecord
  BY DEF OutcomeInv, OutcomesOnRecord, OutcomeTypes, Backed
<1> QED BY <1>1, <1>2, <1>3, RuntimeInvariant, PTL DEF Spec
-----------------------------------------------------------------------------
(* What ran is what was released, for any number of processes.             *)

RequestAt(l, i, call) ==
    i \in 1..Len(l) /\ l[i].type = "tool.requested" /\ l[i].call = call

StartAt(l, i, call) == i \in 1..Len(l) /\ l[i].type = "tool.started" /\ l[i].call = call

\* The decision at d lets the request at r run.
ReleaseAt(l, r, d) ==
    /\ Releases(l[d]) /\ l[d].call = l[r].call
    /\ l[d].type # "tool.authorized" => l[d].digest[1] = Stored(l, r)

\* The start at i follows a decision on a request of its call, in a log that replays.
StartsReleased(l, i) ==
    /\ \E r \in 1..i-1 : RequestAt(l, r, l[i].call) /\ \E d \in r+1..i-1 : ReleaseAt(l, r, d)
    /\ Replay(SubSeq(l, 1, i)) # Rejected

\* What the log says of a call without receipt, hence without a success: it has one
\* request, which is active or was the run's last, and a gate, a release and a start
\* are about that request.
CallOnce(l, s, call) ==
    /\ \A i, j : RequestAt(l, i, call) /\ RequestAt(l, j, call) => i = j
    /\ (\E i : RequestAt(l, i, call)) => s.call = call \/ s.status \in Terminal
    /\ s.call = call /\ s.status = "awaiting_gate" =>
            \E r : RequestAt(l, r, call) /\ s.gate.digest[1] = Stored(l, r)
    /\ s.call = call /\ s.status = "tool_ready" =>
            \E r : RequestAt(l, r, call) /\ \E d \in r+1..Len(l) : ReleaseAt(l, r, d)
    /\ s.call = call /\ s.status = "tool_running" => \E i : StartAt(l, i, call)
    /\ \A i : StartAt(l, i, call) => StartsReleased(l, i)

\* m is the log l with one more event.
Longer(l, m, e) ==
    /\ Len(l) \in Nat /\ Len(m) = Len(l) + 1
    /\ \A i \in 1..Len(l) : m[i] = l[i]
    /\ m[Len(l) + 1] = e
    /\ \A i \in 1..Len(l) : SubSeq(m, 1, i) = SubSeq(l, 1, i)
    /\ SubSeq(m, 1, Len(m)) = m

LEMMA AppendLonger ==
    ASSUME NEW l, NEW e, IsSequence(l)
    PROVE  Longer(l, Append(l, e), e)
<1> DEFINE m == Append(l, e)
<1>1. PICK S : l \in Seq(S)
  BY DEF IsSequence
<1>2. l \in Seq(S \cup {e}) /\ m \in Seq(S \cup {e})
  BY <1>1
<1>3. /\ Len(l) \in Nat /\ Len(m) = Len(l) + 1 /\ m[Len(l) + 1] = e
      /\ \A i \in 1..Len(l) : m[i] = l[i]
  BY AppendFacts
<1> HIDE DEF m
<1>4. SubSeq(m, 1, Len(m)) = m
  BY <1>2
<1>5. ASSUME NEW i \in 1..Len(l) PROVE SubSeq(m, 1, i) = SubSeq(l, 1, i)
  BY <1>2, <1>3
<1> QED BY <1>3, <1>4, <1>5 DEF Longer, m

\* What is on record stays as it is.
LEMMA RecordsKeep ==
    ASSUME NEW l, NEW m, NEW e, Longer(l, m, e)
    PROVE  /\ \A i, call : RequestAt(l, i, call) => RequestAt(m, i, call)
           /\ \A i, call : RequestAt(m, i, call) =>
                  RequestAt(l, i, call) \/ (i = Len(l) + 1 /\ e.type = "tool.requested" /\ e.call = call)
           /\ \A i, call : StartAt(m, i, call) =>
                  StartAt(l, i, call) \/ (i = Len(l) + 1 /\ e.type = "tool.started" /\ e.call = call)
           /\ \A i \in 1..Len(l) : Stored(m, i) = Stored(l, i)
           /\ \A r, d \in 1..Len(l) : ReleaseAt(l, r, d) => ReleaseAt(m, r, d)
           /\ \A i \in 1..Len(l) : StartsReleased(l, i) => StartsReleased(m, i)
<1>1. \A i, call : RequestAt(l, i, call) => RequestAt(m, i, call)
  BY DEF Longer, RequestAt
<1>2. \A i \in 1..Len(m) : i \in 1..Len(l) \/ i = Len(l) + 1
  BY DEF Longer
<1>3. \A i \in 1..Len(l) : Stored(m, i) = Stored(l, i)
  BY DEF Longer, Stored
<1>4. \A r, d \in 1..Len(l) : ReleaseAt(l, r, d) => ReleaseAt(m, r, d)
  BY <1>3 DEF Longer, ReleaseAt
<1>5. ASSUME NEW i \in 1..Len(l), StartsReleased(l, i) PROVE StartsReleased(m, i)
  <2>1. PICK r \in 1..i-1 : /\ RequestAt(l, r, l[i].call)
                            /\ \E d \in r+1..i-1 : ReleaseAt(l, r, d)
    BY <1>5 DEF StartsReleased
  <2>2. PICK d \in r+1..i-1 : ReleaseAt(l, r, d)
    BY <2>1
  <2>3. r \in 1..Len(l) /\ d \in 1..Len(l) /\ m[i] = l[i] /\ SubSeq(m, 1, i) = SubSeq(l, 1, i)
    BY DEF Longer
  <2>4. RequestAt(m, r, m[i].call) /\ ReleaseAt(m, r, d)
    BY <1>1, <1>4, <2>1, <2>2, <2>3
  <2> QED BY <1>5, <2>3, <2>4 DEF StartsReleased
<1> QED BY <1>1, <1>2, <1>3, <1>4, <1>5 DEF Longer, RequestAt, StartAt

\* An event of an operation that reduce accepts, other than a success of this call.
LEMMA CallOnceStep ==
    ASSUME NEW l, NEW m, NEW e, Longer(l, m, e), NEW s, Good(s), Acceptable(s, e),
           EventType(e), NEW r, Payload(e, r),
           e.type \notin VerificationTypes \cup {"tool.requested"} => RequestStored(l, r),
           s.call # None => Requested(l, s.call),
           Replay(m) # Rejected,
           NEW call \in Calls, ~(e.type = "tool.succeeded" /\ e.call = call),
           CallOnce(l, s, call)
    PROVE  CallOnce(m, Applied(s, e), call)
<1> DEFINE t == Effect(s, e)
           u == Applied(s, e)
           n == Len(l) + 1
<1>1. /\ u.status = t.status /\ u.call = t.call /\ u.gate = t.gate
      /\ MovesCall(s, e, t) /\ CallStep(s, e, t) /\ Good(t)
  BY EffectGood, AppliedGood, CallMoves
<1>2. s.status \notin Terminal /\ Guard(s, e)
  BY DEF Acceptable
<1> HIDE DEF t, u
<1>3. n \in 1..Len(m) /\ m[n] = e /\ Len(l) \in Nat /\ Len(m) = n
  BY DEF Longer
<1>4. e.type = "tool.requested" => s.call = None
  <2>1. e.type = "tool.requested" => ToolGuard(s, e)
    BY <1>2, Families DEF ToolTypes
  <2> QED BY <2>1 DEF ToolGuard, AnswersAction, Good, FieldsMatchStatus, ToolStatuses
<1>5. call # None
  BY NoneAssumption
<1>6. (\E i : RequestAt(l, i, call)) => s.call = call
  BY <1>2 DEF CallOnce
<1>7. ASSUME NEW i, NEW j, RequestAt(m, i, call), RequestAt(m, j, call) PROVE i = j
  BY <1>4, <1>5, <1>6, <1>7, RecordsKeep DEF CallOnce
<1>8. ASSUME NEW i, RequestAt(m, i, call) PROVE u.call = call \/ u.status \in Terminal
  <2>1. CASE i = n /\ e.type = "tool.requested" /\ e.call = call
    BY <1>1, <2>1 DEF CallStep
  <2>2. CASE RequestAt(l, i, call)
    BY <1>1, <1>5, <1>6, <2>2, CallOutlasts DEF t
  <2> QED BY <1>8, <2>1, <2>2, RecordsKeep
\* The active call's request, and what a proposal says of it.
<1>9. s.call = call => \E i : RequestAt(l, i, call)
  BY <1>5 DEF Requested, RequestAt
<1>10. ASSUME e.type \in {"tool.escalated", "gate.revised"}, e.call = call
       PROVE  \E i : RequestAt(l, i, call) /\ e.digest[1] = Stored(l, i)
  <2>1. r.call = call /\ e.digest = Digest(r, e.mode, e.revision) /\ RequestStored(l, r)
    BY <1>10 DEF Payload, VerificationTypes
  <2>2. PICK i \in 1..Len(l) : l[i].type = "tool.requested" /\ Stored(l, i) = r
    BY <2>1 DEF RequestStored
  <2>3. l[i].call = call /\ e.digest[1] = r
    BY <2>1, <2>2 DEF Stored, Digest
  <2> QED BY <2>2, <2>3 DEF RequestAt
<1>11. ASSUME u.call = call, u.status = "awaiting_gate"
       PROVE  \E i : RequestAt(m, i, call) /\ u.gate.digest[1] = Stored(m, i)
  <2>1. \E i : RequestAt(l, i, call) /\ u.gate.digest[1] = Stored(l, i)
    <3>1. CASE e.type \in {"tool.escalated", "gate.revised"}
      BY <1>1, <1>10, <1>11, <3>1 DEF MovesCall, KeepsCall, GateOpened, CallEvents, GateTypes,
         ToolTypes
    <3>2. CASE e.type \notin {"tool.escalated", "gate.revised"}
      <4>1. s.call = call /\ s.status = "awaiting_gate" /\ u.gate.digest = s.gate.digest
        BY <1>1, <1>11, <3>2 DEF MovesCall, KeepsCall, CallEvents, GateTypes, ToolTypes, ToolStatuses
      <4> QED BY <4>1 DEF CallOnce
    <3> QED BY <3>1, <3>2
  <2>2. PICK i : RequestAt(l, i, call) /\ u.gate.digest[1] = Stored(l, i)
    BY <2>1
  <2>3. Stored(m, i) = Stored(l, i) /\ RequestAt(m, i, call)
    BY <2>2, RecordsKeep DEF RequestAt
  <2> QED BY <2>2, <2>3
<1>12. ASSUME u.call = call, u.status = "tool_ready"
       PROVE  \E i : RequestAt(m, i, call) /\ \E d \in i+1..Len(m) : ReleaseAt(m, i, d)
  <2>1. /\ s.call = call /\ e.call = call /\ Releases(e)
        /\ e.type # "tool.authorized" =>
              s.status = "awaiting_gate" /\ e.digest = s.gate.digest
    BY <1>1, <1>12 DEF MovesCall, KeepsCall, NamesGate, GateOpened, CallEvents, GateTypes,
       ToolTypes, ToolStatuses, Releases
  <2>2. PICK i : /\ RequestAt(l, i, call)
                 /\ e.type # "tool.authorized" => e.digest[1] = Stored(l, i)
    BY <1>9, <2>1 DEF CallOnce
  <2>3. RequestAt(m, i, call) /\ Stored(m, i) = Stored(l, i) /\ i \in 1..Len(l)
    BY <2>2, RecordsKeep DEF RequestAt
  <2>4. n \in i+1..Len(m)
    BY <1>3, <2>3
  <2>5. ReleaseAt(m, i, n)
    BY <1>3, <2>1, <2>2, <2>3 DEF ReleaseAt, RequestAt
  <2> QED BY <2>3, <2>4, <2>5
<1>13. ASSUME u.call = call, u.status = "tool_running" PROVE StartAt(m, n, call)
  BY <1>1, <1>3, <1>13 DEF MovesCall, KeepsCall, GateOpened, CallEvents, GateTypes, ToolTypes,
     ToolStatuses, StartAt
<1>14. ASSUME NEW i, StartAt(m, i, call) PROVE StartsReleased(m, i)
  <2>1. CASE StartAt(l, i, call)
    BY <2>1, RecordsKeep DEF CallOnce, StartAt
  <2>2. CASE i = n /\ e.type = "tool.started" /\ e.call = call
    <3>1. s.call = call /\ s.status = "tool_ready"
      BY <1>1, <2>2 DEF MovesCall, KeepsCall, CallEvents, ToolTypes
    <3>2. PICK j : RequestAt(l, j, call) /\ \E d \in j+1..Len(l) : ReleaseAt(l, j, d)
      BY <3>1 DEF CallOnce
    <3>3. PICK d \in j+1..Len(l) : ReleaseAt(l, j, d)
      BY <3>2
    <3>4. j \in 1..Len(l) /\ d \in 1..Len(l) /\ j \in 1..i-1 /\ d \in j+1..i-1
      BY <1>3, <2>2, <3>2 DEF RequestAt
    <3>5. RequestAt(m, j, m[i].call) /\ ReleaseAt(m, j, d)
      BY <1>3, <2>2, <3>2, <3>3, <3>4, RecordsKeep
    <3>6. Replay(SubSeq(m, 1, i)) # Rejected
      BY <1>3, <2>2 DEF Longer
    <3> QED BY <3>4, <3>5, <3>6 DEF StartsReleased
  <2> QED BY <1>14, <2>1, <2>2, RecordsKeep
<1>15. u.call = call /\ u.status = "tool_running" => \E i : StartAt(m, i, call)
  BY <1>13
<1> QED BY <1>7, <1>8, <1>11, <1>12, <1>14, <1>15 DEF CallOnce, u

-----------------------------------------------------------------------------
(* The invariant of the released calls.                                    *)

\* What PerformedAsReleased says of one content.
ReleasedBy(l, call, content, r, d, i) ==
    /\ l[r].type = "tool.requested"
    /\ l[r].call = call /\ l[r].content = content
    /\ Releases(l[d]) /\ l[d].call = call
    /\ l[d].type # "tool.authorized" =>
          l[d].digest[1] = [call |-> call, content |-> content, step |-> l[r].step]
    /\ l[i].type = "tool.started" /\ l[i].call = call
    /\ Replay(SubSeq(l, 1, i)) # Rejected

Released(l, call, content) ==
    \E r \in 1..Len(l) : \E d \in r+1..Len(l) : \E i \in d+1..Len(l) :
        ReleasedBy(l, call, content, r, d, i)

\* The run has consumed the whole log.
Consumed(s, l) == s.next = Len(l) + 1 /\ \A d \in s.applied : d.seq \in Nat /\ d.seq < s.next

\* A frame that is past its request.
Serves(f) ==
    \/ f.at \in {"execute", "executing"}
    \/ /\ f.at \in Numbering /\ f.event.type \notin VerificationTypes
       /\ f.at = "confirm" \/ f.event.type # "tool.requested"

Serving(l, f) ==
    /\ Serves(f) => RequestStored(l, f.request)
    /\ f.at = "confirm" => f.event.seq \in 1..Len(l) /\ l[f.event.seq] = f.event

\* What is executed was released, unless the call's intent decides.
Executing(l, records, f) ==
    f.at \in {"execute", "executing"} =>
        Released(l, f.request.call, f.request.content) \/ records[f.request.call] # None

ReleaseInv ==
    /\ run = Replay(log)
    /\ run # Rejected => Consumed(run, log)
    /\ \A call \in Calls : run # Rejected /\ receipts[call] = None => CallOnce(log, run, call)
    /\ \A c \in Callers : Serving(log, caller[c]) /\ Executing(log, intents, caller[c])
    /\ \A call \in Calls : intents[call] # None => Released(log, call, intents[call])

IntentsFirst == \A call \in Calls : receipts[call] # None => intents[call] # None

LEMMA ReleasedStays ==
    ASSUME NEW l, NEW m, NEW e, Longer(l, m, e), NEW call, NEW content,
           Released(l, call, content)
    PROVE  Released(m, call, content)
<1>1. PICK r \in 1..Len(l) : \E d \in r+1..Len(l) : \E i \in d+1..Len(l) :
                                ReleasedBy(l, call, content, r, d, i)
  BY DEF Released
<1>2. PICK d \in r+1..Len(l) : \E i \in d+1..Len(l) : ReleasedBy(l, call, content, r, d, i)
  BY <1>1
<1>2a. PICK i \in d+1..Len(l) : ReleasedBy(l, call, content, r, d, i)
  BY <1>2
<1>3. /\ r \in 1..Len(m) /\ d \in r+1..Len(m) /\ i \in d+1..Len(m)
      /\ r \in 1..Len(l) /\ d \in 1..Len(l) /\ i \in 1..Len(l)
  BY DEF Longer
<1>4. m[r] = l[r] /\ m[d] = l[d] /\ m[i] = l[i] /\ SubSeq(m, 1, i) = SubSeq(l, 1, i)
  BY <1>3 DEF Longer
<1>5. ReleasedBy(m, call, content, r, d, i)
  BY <1>2a, <1>4 DEF ReleasedBy
<1> QED BY <1>3, <1>5 DEF Released

\* A started call without receipt runs the request it was started for.
LEMMA StartedIsReleased ==
    ASSUME NEW l, Len(l) \in Nat, NEW s, NEW r \in Requests, CallOnce(l, s, r.call),
           RequestStored(l, r), NEW i, StartAt(l, i, r.call)
    PROVE  Released(l, r.call, r.content)
<1> DEFINE call == r.call
<1>1. i \in 1..Len(l) /\ l[i].type = "tool.started" /\ l[i].call = call /\ StartsReleased(l, i)
  BY DEF CallOnce, StartAt
<1>2. PICK q \in 1..i-1 : RequestAt(l, q, call) /\ \E d \in q+1..i-1 : ReleaseAt(l, q, d)
  BY <1>1 DEF StartsReleased
<1>3. PICK d \in q+1..i-1 : ReleaseAt(l, q, d)
  BY <1>2
<1>4. Stored(l, q) = r
  <2>1. PICK j \in 1..Len(l) : l[j].type = "tool.requested" /\ Stored(l, j) = r
    BY DEF RequestStored
  <2>2. l[j].call = call
    BY <2>1 DEF Stored
  <2>3. q = j
    BY <1>2, <2>1, <2>2 DEF CallOnce, RequestAt
  <2> QED BY <2>1, <2>3
<1>5. l[q].type = "tool.requested" /\ l[q].call = call /\ l[q].content = r.content
      /\ r = [call |-> call, content |-> r.content, step |-> l[q].step]
  BY <1>2, <1>4 DEF Stored, RequestAt, Requests
<1>6. q \in 1..Len(l) /\ d \in q+1..Len(l) /\ i \in d+1..Len(l)
  BY <1>1
<1>7. /\ Releases(l[d]) /\ l[d].call = call
      /\ l[d].type # "tool.authorized" => l[d].digest[1] = r
      /\ Replay(SubSeq(l, 1, i)) # Rejected
  BY <1>1, <1>3, <1>4, <1>5 DEF ReleaseAt, StartsReleased
<1>8. ReleasedBy(l, call, r.content, q, d, i)
  BY <1>1, <1>5, <1>7 DEF ReleasedBy
<1> QED BY <1>6, <1>8 DEF Released

\* An intent is kept, and a new one was released.
IntentsReleased ==
    \A call \in Calls :
        /\ intents[call] # None => intents'[call] = intents[call]
        /\ intents'[call] # intents[call] => Released(log, call, intents'[call])

\* A step that stores no event and moves one process.
LEMMA ServerMoved ==
    ASSUME ReleaseInv, ReceiptsStay, log' = log, run' = run, NEW c \in Callers, NEW f,
           \A d \in Callers : caller'[d] = IF d = c THEN f ELSE caller[d],
           IntentsReleased,
           \A d \in Callers : caller[d].at \in {"execute", "executing"} =>
                                 caller[d].request.call \in Calls,
           Serving(log, f), Executing(log, intents', f)
    PROVE  ReleaseInv'
<1>1. \A call \in Calls : receipts'[call] = None => receipts[call] = None
  BY DEF ReceiptsStay
<1>2. \A d \in Callers : Executing(log, intents, caller[d]) => Executing(log, intents', caller[d])
  BY DEF Executing, IntentsReleased
<1>3. ASSUME NEW d \in Callers
      PROVE  Serving(log, caller'[d]) /\ Executing(log, intents', caller'[d])
  <2>1. CASE d = c
    <3>1. caller'[d] = f
      BY <2>1
    <3> QED BY <3>1
  <2>2. CASE d # c
    <3>1. caller'[d] = caller[d]
      BY <2>2
    <3>2. Serving(log, caller[d]) /\ Executing(log, intents, caller[d])
      BY DEF ReleaseInv
    <3> QED BY <1>2, <3>1, <3>2
  <2> QED BY <2>1, <2>2
<1>4. \A call \in Calls : intents'[call] # None => Released(log, call, intents'[call])
  BY DEF ReleaseInv, IntentsReleased
<1>5. run = Replay(log) /\ (run # Rejected => Consumed(run, log))
  BY DEF ReleaseInv
<1>6. ASSUME NEW call \in Calls, run # Rejected, receipts'[call] = None
      PROVE  CallOnce(log, run, call)
  BY <1>1, <1>6 DEF ReleaseInv
<1> QED BY <1>3, <1>4, <1>5, <1>6 DEF ReleaseInv

LEMMA ExecutingCalls ==
    ASSUME BaseInv
    PROVE  \A d \in Callers : caller[d].at \in {"execute", "executing"} =>
                                 caller[d].request \in Requests /\ caller[d].request.call \in Calls
BY DEF BaseInv, Framed, Requests

\* A step outside the executor that stores no event.
LEMMA FrameServes ==
    ASSUME BaseInv, ReleaseInv, UNCHANGED <<log, run, intents, receipts>>,
           NEW c \in Callers, NEW f, caller' = [caller EXCEPT ![c] = f],
           Serving(log, f), Executing(log, intents, f)
    PROVE  ReleaseInv'
<1>1. ReceiptsStay /\ IntentsReleased /\ log' = log /\ run' = run /\ intents' = intents
  BY DEF ReceiptsStay, IntentsReleased
<1>2. \A d \in Callers : caller'[d] = IF d = c THEN f ELSE caller[d]
  BY DEF BaseInv
<1> QED BY <1>1, <1>2, ExecutingCalls, ServerMoved

LEMMA IdleServes == Serving(log, Idle) /\ Executing(log, intents, Idle)
BY DEF Serving, Serves, Executing, Idle, Numbering

\* What begins to execute in a running run is covered.
LEMMA RunningIsCovered ==
    ASSUME BaseInv, ReleaseInv, IntentsFirst, run # Rejected, NEW r \in Requests,
           RequestStored(log, r), \E i : StartAt(log, i, r.call)
    PROVE  Released(log, r.call, r.content) \/ intents[r.call] # None
<1>1. r.call \in Calls /\ Len(log) \in Nat
  BY AppendFacts DEF Requests, BaseInv
<1>2. CASE receipts[r.call] # None
  BY <1>1, <1>2 DEF IntentsFirst
<1>3. CASE receipts[r.call] = None
  <2>1. CallOnce(log, run, r.call)
    BY <1>1, <1>3 DEF ReleaseInv
  <2> QED BY <1>1, <2>1, StartedIsReleased
<1> QED BY <1>2, <1>3

LEMMA BeginReleases ==
    ASSUME BaseInv, ReleaseInv, IntentsFirst, NEW c \in Callers, Begin(c)
    PROVE  ReleaseInv'
<1>1. PICK f : caller' = [caller EXCEPT ![c] = f] /\ Beginning(f)
  BY BeginFrame
<1>2. UNCHANGED <<log, run, intents, receipts>>
  BY BeginFrame
<1>3. Serving(log, f)
  BY <1>1 DEF Beginning, Serving, Serves, Numbering
<1>4. ASSUME f.at = "execute"
      PROVE  Released(log, f.request.call, f.request.content) \/ intents[f.request.call] # None
  <2>1. /\ run.status = "tool_running" /\ f.request \in Requests
        /\ RequestStored(log, f.request) /\ f.request.call = run.call
    BY <1>1, <1>4 DEF Beginning
  <2>2. run # Rejected
    <3>1. Rejected.status = "rejected"
      BY Domain DEF Rejected, InitialRun
    <3> QED BY <2>1, <3>1
  <2>3. f.request.call \in Calls
    BY <2>1 DEF Requests
  <2>4. CASE receipts[f.request.call] # None
    BY <2>3, <2>4 DEF IntentsFirst
  <2>5. CASE receipts[f.request.call] = None
    <3>1. CallOnce(log, run, f.request.call)
      BY <2>2, <2>3, <2>5 DEF ReleaseInv
    <3>2. \E i : StartAt(log, i, f.request.call)
      BY <2>1, <3>1 DEF CallOnce
    <3> QED BY <2>1, <2>2, <3>2, RunningIsCovered
  <2> QED BY <2>4, <2>5
<1>5. Executing(log, intents, f)
  BY <1>1, <1>4 DEF Executing, Beginning
<1> QED BY <1>1, <1>2, <1>3, <1>5, FrameServes

LEMMA StoreReleases ==
    ASSUME BaseInv, OutcomeInv, ReleaseInv, NEW c \in Callers, Store(c)
    PROVE  ReleaseInv'
<1> DEFINE e == caller[c].event
           r == caller[c].request
           g == [caller[c] EXCEPT !.at = "confirm"]
<1>1. /\ log' = Append(log, e) /\ run' = ReplayStep(run, e)
      /\ caller' = [caller EXCEPT ![c] = g] /\ caller[c].at = "append"
      /\ e.seq = Len(log) + 1 /\ UNCHANGED <<intents, receipts>>
  BY DEF Store, InSequence, effects
<1>2. /\ Framed(log, caller[c]) /\ Payload(e, r) /\ EventType(e) /\ IsSequence(log)
      /\ Serving(log, caller[c])
  BY <1>1 DEF BaseInv, Framed, Numbering, ReleaseInv
<1>3. Longer(log, log', e) /\ Len(log) \in Nat
  BY <1>1, <1>2, AppendLonger, AppendFacts
<1>4. run' = Replay(log')
  BY <1>1, <1>2, ReplayAppend DEF ReleaseInv
<1>5. ASSUME run' # Rejected
      PROVE  Acceptable(run, e) /\ run' = Applied(run, e) /\ Good(run) /\ run # Rejected
             /\ Consumed(run, log)
  <2>1. run # Rejected /\ Legal(run, e) /\ run' = Reduce(run, e)
    BY <1>1, <1>5 DEF ReplayStep
  <2>2. Consumed(run, log)
    BY <2>1 DEF ReleaseInv
  <2>3. ~Redelivered(run, e)
    BY <1>1, <1>3, <2>2 DEF Consumed, Redelivered
  <2> QED BY <2>1, <2>2, <2>3 DEF Legal, Reduce, BaseInv
<1>6. ASSUME run' # Rejected PROVE Consumed(run', log')
  <2>1. run'.next = run.next + 1 /\ run'.applied = run.applied \cup {e}
    BY <1>5, <1>6, EffectGood, AppliedGood, <1>2
  <2> QED BY <1>1, <1>3, <1>5, <1>6, <2>1 DEF Consumed, Longer
<1>7. ASSUME NEW call \in Calls, run' # Rejected, receipts[call] = None
      PROVE  CallOnce(log', run', call)
  <2>1. CallOnce(log, run, call)
    BY <1>5, <1>7 DEF ReleaseInv
  <2>2. ~(e.type = "tool.succeeded" /\ e.call = call)
    BY <1>1, <1>7 DEF OutcomeInv, Reports, Numbering, OutcomeTypes, Backed
  <2>3. e.type \notin VerificationTypes \cup {"tool.requested"} => RequestStored(log, r)
    BY <1>1, <1>2 DEF Serving, Serves, Numbering
  <2>4. run.call # None => Requested(log, run.call)
    BY DEF BaseInv
  <2>5. CallOnce(log', Applied(run, e), call)
    BY <1>2, <1>3, <1>4, <1>5, <1>7, <2>1, <2>2, <2>3, <2>4, CallOnceStep
  <2> QED BY <1>5, <1>7, <2>5
<1>8. \A q : RequestStored(log, q) => RequestStored(log', q)
  BY <1>3, RecordsKeep DEF RequestStored, Longer
<1>9. \A call, content : Released(log, call, content) => Released(log', call, content)
  BY <1>3, ReleasedStays
<1>10. ASSUME NEW d \in Callers
       PROVE  Serving(log', caller[d]) /\ Executing(log', intents, caller[d])
  <2>1. Serving(log, caller[d]) /\ Executing(log, intents, caller[d])
    BY DEF ReleaseInv
  <2>2. Serving(log', caller[d])
    BY <1>3, <1>8, <2>1 DEF Serving, Longer
  <2>3. Executing(log', intents, caller[d])
    BY <1>9, <2>1 DEF Executing
  <2> QED BY <2>2, <2>3
<1>11. DOMAIN caller[c] = {"at", "event", "request"}
  BY <1>2 DEF Framed
<1>12. g.at = "confirm" /\ g.event = e /\ g.request = r
  BY <1>11
<1>13. Len(log) + 1 \in 1..Len(log') /\ log'[Len(log) + 1] = e
  BY <1>3 DEF Longer
<1>14. e.type \notin VerificationTypes => RequestStored(log', r)
  <2>1. CASE e.type = "tool.requested"
    <3>1. Stored(log', Len(log) + 1) = r
      BY <1>2, <1>13, <2>1 DEF Payload, Stored, Requests, VerificationTypes
    <3> QED BY <1>13, <2>1, <3>1 DEF RequestStored
  <2>2. CASE e.type # "tool.requested"
    BY <1>1, <1>2, <1>8, <2>2 DEF Serving, Serves, Numbering
  <2> QED BY <2>1, <2>2
<1> HIDE DEF g
<1>15. Serving(log', g) /\ Executing(log', intents, g)
  BY <1>1, <1>12, <1>13, <1>14 DEF Serving, Serves, Executing
<1>16. ASSUME NEW d \in Callers
       PROVE  Serving(log', caller'[d]) /\ Executing(log', intents, caller'[d])
  <2>1. caller'[d] = IF d = c THEN g ELSE caller[d]
    BY <1>1 DEF BaseInv
  <2> QED BY <1>10, <1>15, <2>1
<1>17. \A call \in Calls : intents[call] # None => Released(log', call, intents[call])
  BY <1>9 DEF ReleaseInv
<1> QED BY <1>1, <1>4, <1>6, <1>7, <1>16, <1>17 DEF ReleaseInv

LEMMA ConfirmReleases ==
    ASSUME BaseInv, ReleaseInv, IntentsFirst, NEW c \in Callers, Confirm(c)
    PROVE  ReleaseInv'
<1> DEFINE e == caller[c].event
           r == caller[c].request
           g == [caller[c] EXCEPT !.at = "execute"]
<1>1. /\ UNCHANGED <<log, run, intents, receipts>>
      /\ caller[c].at = "confirm" /\ run # Rejected
      /\ DOMAIN caller[c] = {"at", "event", "request"} /\ Payload(e, r)
      /\ Serving(log, caller[c])
  BY DEF Confirm, stored, effects, BaseInv, Framed, Numbering, ReleaseInv
<1>2. ASSUME NEW f, e.type \notin VerificationTypes, Going(c, f, r) PROVE ReleaseInv'
  <2>1. RequestStored(log, r)
    BY <1>1, <1>2 DEF Serving, Serves, Numbering
  <2>2. caller' = [caller EXCEPT ![c] = Appending(f, r)]
    BY <1>2 DEF Going
  <2>3. Serving(log, Appending(f, r)) /\ Executing(log, intents, Appending(f, r))
    BY <2>1 DEF Serving, Executing, Appending
  <2> QED BY <1>1, <2>2, <2>3, FrameServes
<1>3. CASE e.type = "tool.started" /\ caller' = [caller EXCEPT ![c].at = "execute"]
  <2>1. r \in Requests /\ e.call = r.call /\ RequestStored(log, r)
    BY <1>1, <1>3 DEF Payload, VerificationTypes, Serving, Serves, Numbering
  <2>2. StartAt(log, e.seq, r.call)
    BY <1>1, <1>3, <2>1 DEF Serving, StartAt
  <2>3. Released(log, r.call, r.content) \/ intents[r.call] # None
    BY <1>1, <2>1, <2>2, RunningIsCovered
  <2>4. g.at = "execute" /\ g.request = r
    BY <1>1
  <2>5. caller' = [caller EXCEPT ![c] = g]
    BY <1>3
  <2> HIDE DEF g
  <2>6. Serving(log, g) /\ Executing(log, intents, g)
    BY <2>1, <2>3, <2>4 DEF Serving, Executing
  <2> QED BY <1>1, <2>5, <2>6, FrameServes
<1>4. CASE Leave(c)
  BY <1>1, <1>4, IdleServes, FrameServes DEF Leave
<1>5. CASE e.type = "tool.requested" /\ Going(c, Decision(c, r), r)
  BY <1>2, <1>5 DEF VerificationTypes
<1>6. CASE Releases(e) /\ Going(c, ToolEvent("tool.started", r), r)
  BY <1>2, <1>6 DEF VerificationTypes, Releases
<1> QED BY <1>3, <1>4, <1>5, <1>6 DEF Confirm

\* The executor stores an intent only for what its process executes.
LEMMA ExecutorReleases ==
    ASSUME BaseInv, Linked, ReleaseInv, NEW c \in Callers, caller[c].at = "executing",
           \/ Executor!LoadIntent(c) \/ Executor!SaveIntent(c) \/ Executor!Retry(c)
           \/ Executor!Invoke(c) \/ \E r \in Results : Executor!Finish(c, r)
           \/ Executor!ReturnReceipt(c) \/ Executor!SaveReceipt(c)
           \/ Executor!RefuseIntent(c) \/ Executor!RefuseRetry(c) \/ Executor!RefuseOutput(c)
                 \/ Executor!RefuseReceipt(c)
    PROVE  IntentsReleased
<1> DEFINE r == caller[c].request
<1>1. CASE Executor!SaveIntent(c)
  <2>1. exec[c].effect = r.call /\ exec[c].content = r.content /\ r.call \in Calls
    BY ExecutingCalls DEF Linked
  <2>2. intents[r.call] \in {None, r.content} /\ intents' = [intents EXCEPT ![r.call] = r.content]
    BY <1>1, <2>1 DEF Executor!SaveIntent, Executor!IntentAccepted
  <2>3. intents \in [Calls -> Contents \cup {None}]
    BY DEF Linked, Executor!TypeOK
  <2>4. Released(log, r.call, r.content) \/ intents[r.call] # None
    BY DEF ReleaseInv, Executing
  <2> QED BY <2>1, <2>2, <2>3, <2>4 DEF IntentsReleased
<1>2. CASE ~Executor!SaveIntent(c)
  <2>1. intents' = intents
    BY <1>2 DEF Executor!LoadIntent, Executor!Retry, Executor!Invoke, Executor!Finish,
       Executor!ReturnReceipt, Executor!SaveReceipt, Executor!RefuseIntent,
       Executor!RefuseRetry, Executor!RefuseOutput, Executor!RefuseReceipt
  <2> QED BY <2>1 DEF IntentsReleased
<1> QED BY <1>1, <1>2

LEMMA ReleaseStep ==
    ASSUME RInv, OutcomeInv, IntentsFirst, ReleaseInv, [Next]_vars
    PROVE  ReleaseInv'
<1> USE DEF stored, effects
<1>0. BaseInv /\ Linked /\ ReceiptsStay
  BY ReceiptsAreFinal DEF RInv
<1>1. CASE UNCHANGED vars
  BY <1>1 DEF vars, ReleaseInv
<1>2. ASSUME NEW c \in Callers, Begin(c) PROVE ReleaseInv'
  BY <1>0, <1>2, BeginReleases
<1>3. ASSUME NEW c \in Callers, NEW p \in Policies, ChangePolicy(c, p) PROVE ReleaseInv'
  BY <1>3 DEF ChangePolicy, ReleaseInv
<1>4. ASSUME NEW c \in Callers, ReadRejected(c) \/ StoreRefused(c) \/ AuthorizeRaises(c)
                  \/ ConfirmRejected(c)
                                  \/ Crash(c)
      PROVE  ReleaseInv'
  <2>1. UNCHANGED <<log, run, intents, receipts>> /\ caller' = [caller EXCEPT ![c] = Idle]
    BY <1>4 DEF ReadRejected, StoreRefused, AuthorizeRaises, ConfirmRejected, Crash, Leave, Executor!Crash,
       Executor!outside
  <2> QED BY <1>0, <2>1, IdleServes, FrameServes
<1>5. ASSUME NEW c \in Callers, Read(c) PROVE ReleaseInv'
  <2> DEFINE e == caller[c].event
             m == Numbered(e, run.next)
             g == [caller[c] EXCEPT !.at = "append", !.event = m]
  <2>1. /\ caller[c].at = "read" /\ Framed(log, caller[c]) /\ Payload(e, caller[c].request)
        /\ UNCHANGED <<log, run, intents, receipts>>
        /\ caller' = [caller EXCEPT ![c] = g] /\ Serving(log, caller[c])
    BY <1>0, <1>5 DEF Read, BaseInv, Framed, Numbering, ReleaseInv
  <2>2. m.type = e.type
    BY <2>1 DEF Numbered, Payload
  <2> HIDE DEF m
  <2>3. g.event = m /\ g.at = "append" /\ g.request = caller[c].request
    BY <2>1 DEF Framed
  <2> HIDE DEF g
  <2>4. Serving(log, g) /\ Executing(log, intents, g)
    BY <2>1, <2>2, <2>3 DEF Serving, Serves, Executing, Numbering
  <2> QED BY <1>0, <2>1, <2>4, FrameServes
<1>6. ASSUME NEW c \in Callers, StoreRedelivered(c) PROVE ReleaseInv'
  <2> DEFINE e == caller[c].event
             r == caller[c].request
             g == [caller[c] EXCEPT !.at = "confirm"]
  <2>1. /\ caller[c].at = "append" /\ Framed(log, caller[c]) /\ Payload(e, r)
        /\ UNCHANGED <<log, run, intents, receipts>> /\ e.seq \in Nat \ {0}
        /\ caller' = [caller EXCEPT ![c] = g] /\ Serving(log, caller[c])
    BY <1>0, <1>6 DEF StoreRedelivered, BaseInv, Framed, Numbering, ReleaseInv
  <2>2. e.seq \in 1..Len(log) /\ log[e.seq] = e
    <3>1. e.seq <= Len(log) /\ Len(log) \in Nat /\ log[e.seq] = e
      BY <1>0, <1>6, AppendFacts DEF StoreRedelivered, Known, BaseInv
    <3> QED BY <2>1, <3>1
  <2>3. g.event = e /\ g.at = "confirm" /\ g.request = r
    BY <2>1 DEF Framed
  <2> HIDE DEF g
  <2>4. e.type \notin VerificationTypes => RequestStored(log, r)
    <3>1. CASE e.type = "tool.requested"
      <4>1. Stored(log, e.seq) = r
        BY <2>1, <2>2, <3>1 DEF Payload, Stored, Requests, VerificationTypes
      <4> QED BY <2>2, <3>1, <4>1 DEF RequestStored
    <3>2. CASE e.type # "tool.requested"
      BY <2>1, <3>2 DEF Serving, Serves, Numbering
    <3> QED BY <3>1, <3>2
  <2>5. Serving(log, g) /\ Executing(log, intents, g)
    BY <2>2, <2>3, <2>4 DEF Serving, Serves, Executing
  <2> QED BY <1>0, <2>1, <2>5, FrameServes
<1>7. ASSUME NEW c \in Callers, Execute(c) PROVE ReleaseInv'
  <2> DEFINE g == [caller[c] EXCEPT !.at = "executing"]
  <2>1. /\ caller[c].at = "execute" /\ DOMAIN caller[c] = {"at", "event", "request"}
        /\ UNCHANGED <<log, run, intents, receipts>>
        /\ caller' = [caller EXCEPT ![c] = g]
        /\ Serving(log, caller[c]) /\ Executing(log, intents, caller[c])
    BY <1>0, <1>7 DEF Execute, Executor!Deliver, Executor!outside, BaseInv, Framed, ReleaseInv
  <2>2. g.at = "executing" /\ g.request = caller[c].request
    BY <2>1
  <2> HIDE DEF g
  <2>3. Serving(log, g) /\ Executing(log, intents, g)
    BY <2>1, <2>2 DEF Serving, Serves, Executing
  <2> QED BY <1>0, <2>1, <2>3, FrameServes
<1>8. ASSUME NEW c \in Callers, ExecutorSteps(c) PROVE ReleaseInv'
  <2>1. /\ log' = log /\ run' = run /\ caller' = caller /\ IntentsReleased
    BY <1>0, <1>8, ExecutorReleases DEF ExecutorSteps
  <2>2. Serving(log, caller[c]) /\ Executing(log, intents', caller[c])
    BY <1>0, <2>1, ExecutingCalls DEF ReleaseInv, Executing, IntentsReleased
  <2>3. \A d \in Callers : caller'[d] = IF d = c THEN caller[c] ELSE caller[d]
    BY <2>1
  <2> QED BY <1>0, <2>1, <2>2, <2>3, ExecutingCalls, ServerMoved
<1>9. ASSUME NEW c \in Callers, ExecutorReturns(c) \/ ExecutorRaises(c) PROVE ReleaseInv'
  <2>1. /\ log' = log /\ run' = run /\ IntentsReleased /\ caller[c].at = "executing"
        /\ RequestStored(log, caller[c].request)
    BY <1>0, <1>9, ExecutorReleases DEF ExecutorReturns, ExecutorRaises, ReleaseInv, Serving, Serves
  <2>2. PICK f : caller' = [caller EXCEPT ![c] = f] /\ Serving(log, f) /\ Executing(log, intents', f)
    <3>1. CASE ExecutorRaises(c)
      <4>1. caller' = [caller EXCEPT ![c] = Idle]
        BY <3>1 DEF ExecutorRaises, Leave
      <4>2. Serving(log, Idle) /\ Executing(log, intents', Idle)
        BY DEF Serving, Serves, Executing, Idle, Numbering
      <4> QED BY <4>1, <4>2
    <3>2. CASE ExecutorReturns(c)
      <4> DEFINE r == caller[c].request
                 g == Appending(OutcomeEvent(receipts'[r.call], r), r)
      <4>1. caller' = [caller EXCEPT ![c] = g]
        BY <3>2 DEF ExecutorReturns, Going
      <4>2. Serving(log, g) /\ Executing(log, intents', g)
        BY <2>1 DEF Serving, Executing, Appending
      <4> QED BY <4>1, <4>2
    <3> QED BY <1>9, <3>1, <3>2
  <2>3. \A d \in Callers : caller'[d] = IF d = c THEN f ELSE caller[d]
    BY <1>0, <2>2 DEF BaseInv
  <2> QED BY <1>0, <2>1, <2>2, <2>3, ExecutingCalls, ServerMoved
<1> QED BY <1>0, <1>1, <1>2, <1>3, <1>4, <1>5, <1>6, <1>7, <1>8, <1>9, StoreReleases,
           ConfirmReleases DEF Next, Run

LEMMA InitReleases ==
    ASSUME Init
    PROVE  ReleaseInv
<1>1. /\ run.next = Len(log) + 1 /\ run.applied = {Created, Started} /\ run = Replay(log)
      /\ Good(run) /\ run.status = "ready"
  BY StartedRun
<1>2. Len(log) = 2 /\ Created.seq = 1 /\ Started.seq = 2
  BY DEF Init, Created, Started
<1>3. Consumed(run, log)
  BY <1>1, <1>2 DEF Consumed
<1>4. \A i \in 1..Len(log) : log[i].type \notin {"tool.requested", "tool.started"}
  BY DEF Init, Created, Started
<1>5. \A call : CallOnce(log, run, call)
  BY <1>1, <1>4 DEF CallOnce, RequestAt, StartAt
<1>6. \A c \in Callers : Serving(log, caller[c]) /\ Executing(log, intents, caller[c])
  BY DEF Init, Serving, Serves, Executing, Idle, Numbering
<1>7. \A call \in Calls : intents[call] = None
  BY DEF Init, Executor!Init
<1> QED BY <1>1, <1>3, <1>5, <1>6, <1>7 DEF ReleaseInv

LEMMA IntendedAlways == Spec => []Executor!PerformedAsIntended
<1>1. EP!PerformedAsIntended <=> Executor!PerformedAsIntended
  BY DEF EP!PerformedAsIntended, Executor!PerformedAsIntended
<1>2. EP!Spec => []EP!PerformedAsIntended
  BY ExecutorAssumption, EP!PerformedCorrect
<1>3. Executor!Init => EP!Init
  BY ExecutorNames
<1>4. [Executor!Next]_Executor!vars => [EP!Next]_EP!vars
  BY ExecutorNames DEF Executor!vars, EP!vars, Executor!outside, EP!outside
<1> QED BY <1>1, <1>2, <1>3, <1>4, ExecutorRefines, PTL
        DEF Executor!Spec, EP!Spec

LEMMA ReleaseInvariant == Spec => []ReleaseInv
<1>1. Executor!PerformedAsIntended => IntentsFirst
  BY DEF Executor!PerformedAsIntended, IntentsFirst
<1>2. Init => OutcomeInv /\ ReleaseInv
  BY OutcomeInit, InitReleases
<1>3. RInv /\ OutcomeInv /\ [Next]_vars => OutcomeInv'
  BY OutcomeStep
<1>4. RInv /\ OutcomeInv /\ IntentsFirst /\ ReleaseInv /\ [Next]_vars => ReleaseInv'
  BY ReleaseStep
<1> QED BY <1>1, <1>2, <1>3, <1>4, IntendedAlways, RuntimeInvariant, PTL DEF Spec

\* However many processes submit, decide, recover or die: what a tool was invoked with
\* is the content of a persisted request, released by a decision about that request and
\* recorded as started in a log that replays.
THEOREM ReleasedCorrect == Spec => []PerformedAsReleased
<1>1. RInv /\ Executor!PerformedAsIntended /\ ReleaseInv => PerformedAsReleased
  <2>1. SUFFICES ASSUME RInv, Executor!PerformedAsIntended, ReleaseInv,
                        NEW call \in Calls, NEW content \in performed[call]
                 PROVE  Released(log, call, content)
    BY DEF PerformedAsReleased, Released, ReleasedBy
  <2>2. performed \in [Calls -> SUBSET Contents]
    BY <2>1 DEF RInv, Linked, Executor!TypeOK
  <2>3. content = intents[call] /\ content # None
    BY <2>1, <2>2, RuntimeAssumption DEF Executor!PerformedAsIntended
  <2> QED BY <2>1, <2>3 DEF ReleaseInv
<1> QED BY <1>1, IntendedAlways, ReleaseInvariant, RuntimeInvariant, PTL

-----------------------------------------------------------------------------
(* Types.                                                                  *)

FrameType(f) ==
    /\ f.at \in Places /\ f.request \in Requests \cup {None}
    /\ f.at = "append" => f.event.id = f.event.seq

\* What the invariants above do not say of the types.
TypeInv ==
    /\ \A i \in 1..Len(log) : log[i].seq = i /\ log[i].id = i /\ log[i].type \in EventTypes
    /\ \A c \in Callers : FrameType(caller[c])
    /\ \A c \in Callers : (caller[c].at = "executing") <=> (exec[c].at # "idle")

\* A step that stores no event and moves one process and its executor.
LEMMA FrameTyped ==
    ASSUME BaseInv, TypeInv, log' = log, NEW c \in Callers, NEW f, FrameType(f),
           caller' = [caller EXCEPT ![c] = f],
           \A d \in Callers \ {c} : exec'[d].at = exec[d].at,
           (f.at = "executing") <=> (exec'[c].at # "idle")
    PROVE  TypeInv'
<1>1. \A d \in Callers : caller'[d] = IF d = c THEN f ELSE caller[d]
  BY DEF BaseInv
<1>2. \A d \in Callers : FrameType(caller'[d])
  BY <1>1 DEF TypeInv
<1>3. \A d \in Callers : (caller'[d].at = "executing") <=> (exec'[d].at # "idle")
  BY <1>1 DEF TypeInv
<1> QED BY <1>2, <1>3 DEF TypeInv

LEMMA IdleTyped == FrameType(Idle)
BY DEF FrameType, Idle, Places

\* Where the executor's process is after each of its steps.
LEMMA ExecutorAt ==
    ASSUME Linked, NEW c \in Callers
    PROVE  /\ \A call, content : Executor!Deliver(c, call, content) => exec'[c].at # "idle"
           /\ \/ Executor!LoadIntent(c) \/ Executor!SaveIntent(c) \/ Executor!Retry(c)
              \/ Executor!Invoke(c) \/ \E r \in Results : Executor!Finish(c, r)
              => exec'[c].at # "idle"
           /\ \/ Executor!ReturnReceipt(c) \/ Executor!SaveReceipt(c) \/ Executor!Crash(c)
              \/ Executor!RefuseIntent(c) \/ Executor!RefuseRetry(c) \/ Executor!RefuseOutput(c)
                 \/ Executor!RefuseReceipt(c)
              => exec'[c].at = "idle"
           /\ Executor!Run(c) \/ Executor!Crash(c)
              \/ (\E call, content : Executor!Deliver(c, call, content))
              => \A d \in Callers \ {c} : exec'[d].at = exec[d].at
<1>1. /\ DOMAIN exec = Callers
      /\ \A d \in Callers : DOMAIN exec[d] = {"at", "effect", "content", "found", "result"}
  BY DEF Linked, Executor!TypeOK
<1> USE DEF Executor!Deliver, Executor!Idle, Executor!Goto, Executor!Leave
<1>2. \A call, content : Executor!Deliver(c, call, content) => exec'[c].at # "idle"
  BY <1>1
<1>3. ASSUME Executor!LoadIntent(c) PROVE exec'[c].at # "idle"
  BY <1>1, <1>3 DEF Executor!LoadIntent
<1>4. ASSUME Executor!SaveIntent(c) PROVE exec'[c].at # "idle"
  BY <1>1, <1>4 DEF Executor!SaveIntent, Executor!AfterSaveIntent
<1>5. ASSUME Executor!Retry(c) \/ Executor!Invoke(c) PROVE exec'[c].at # "idle"
  BY <1>1, <1>5 DEF Executor!Retry, Executor!Invoke
<1>6. ASSUME NEW r \in Results, Executor!Finish(c, r) PROVE exec'[c].at # "idle"
  BY <1>1, <1>6 DEF Executor!Finish
<1>7. ASSUME \/ Executor!ReturnReceipt(c) \/ Executor!SaveReceipt(c) \/ Executor!Crash(c)
             \/ Executor!RefuseIntent(c) \/ Executor!RefuseRetry(c) \/ Executor!RefuseOutput(c)
                 \/ Executor!RefuseReceipt(c)
      PROVE  exec' = [exec EXCEPT ![c] = Executor!Idle]
  BY <1>7 DEF Executor!ReturnReceipt, Executor!SaveReceipt, Executor!Crash,
     Executor!RefuseIntent, Executor!RefuseRetry, Executor!RefuseOutput, Executor!RefuseReceipt
<1>8. ASSUME Executor!Run(c) \/ Executor!Crash(c)
             \/ \E call, content : Executor!Deliver(c, call, content)
      PROVE  \E f : exec' = [exec EXCEPT ![c] = f]
  <2>1. CASE Executor!LoadIntent(c)
    BY <2>1 DEF Executor!LoadIntent
  <2>2. CASE \/ Executor!SaveIntent(c) \/ Executor!Retry(c) \/ Executor!Invoke(c)
    BY <2>2 DEF Executor!SaveIntent, Executor!Retry, Executor!Invoke
  <2>3. CASE \E r \in Results : Executor!Finish(c, r)
    BY <2>3 DEF Executor!Finish
  <2>4. CASE \E call, content : Executor!Deliver(c, call, content)
    BY <2>4
  <2> QED BY <1>7, <1>8, <2>1, <2>2, <2>3, <2>4 DEF Executor!Run
<1>9. (\E f : exec' = [exec EXCEPT ![c] = f])
          => \A d \in Callers \ {c} : exec'[d].at = exec[d].at
  BY <1>1
<1>10. \/ Executor!ReturnReceipt(c) \/ Executor!SaveReceipt(c) \/ Executor!Crash(c)
       \/ Executor!RefuseIntent(c) \/ Executor!RefuseRetry(c) \/ Executor!RefuseOutput(c)
                 \/ Executor!RefuseReceipt(c)
       => exec'[c].at = "idle"
  BY <1>1, <1>7
<1> HIDE DEF Executor!Deliver, Executor!Idle, Executor!Goto, Executor!Leave
<1> QED BY <1>2, <1>3, <1>4, <1>5, <1>6, <1>8, <1>9, <1>10, Zenon

LEMMA TypeStep ==
    ASSUME RInv, TypeInv, [Next]_vars
    PROVE  TypeInv'
<1> USE DEF stored
<1>0. BaseInv /\ Linked /\ \A c \in Callers : Framed(log, caller[c]) /\ FrameType(caller[c])
  BY DEF RInv, BaseInv, TypeInv
<1>1. CASE UNCHANGED vars
  BY <1>1 DEF vars, TypeInv
<1>2. ASSUME NEW c \in Callers, NEW p \in Policies, ChangePolicy(c, p) PROVE TypeInv'
  BY <1>2 DEF ChangePolicy, effects, TypeInv
<1>3. ASSUME NEW c \in Callers, NEW f, log' = log, exec' = exec, FrameType(f),
             caller' = [caller EXCEPT ![c] = f],
             caller[c].at # "executing", f.at # "executing"
      PROVE  TypeInv'
  BY <1>0, <1>3, FrameTyped DEF TypeInv
<1>4. ASSUME NEW c \in Callers, Begin(c) PROVE TypeInv'
  <2>1. PICK f : caller' = [caller EXCEPT ![c] = f] /\ Beginning(f)
    BY <1>0, <1>4, BeginFrame
  <2>2. f.at \in {"read", "execute"} /\ f.request \in Requests \cup {None}
    BY <2>1 DEF Beginning
  <2>3. FrameType(f)
    BY <2>2 DEF FrameType, Places
  <2>4. log' = log /\ exec' = exec /\ caller[c].at = "idle"
    BY <1>0, <1>4, BeginFrame
  <2> QED BY <1>3, <2>1, <2>2, <2>3, <2>4
<1>5. ASSUME NEW c \in Callers, ReadRejected(c) \/ StoreRefused(c) \/ AuthorizeRaises(c)
                  \/ ConfirmRejected(c)
      PROVE  TypeInv'
  <2>1. log' = log /\ exec' = exec /\ caller' = [caller EXCEPT ![c] = Idle]
        /\ caller[c].at # "executing"
    BY <1>5 DEF ReadRejected, StoreRefused, AuthorizeRaises, ConfirmRejected, Leave, effects
  <2>2. Idle.at # "executing"
    BY DEF Idle
  <2> QED BY <1>3, <2>1, <2>2, IdleTyped
<1>6. ASSUME NEW c \in Callers, Read(c) PROVE TypeInv'
  <2> DEFINE m == Numbered(caller[c].event, run.next)
             g == [caller[c] EXCEPT !.at = "append", !.event = m]
  <2>1. log' = log /\ exec' = exec /\ caller' = [caller EXCEPT ![c] = g]
        /\ caller[c].at = "read" /\ DOMAIN caller[c] = {"at", "event", "request"}
    BY <1>0, <1>6 DEF Read, effects, Framed
  <2>2. m.id = run.next /\ m.seq = run.next
    BY DEF Numbered
  <2> HIDE DEF m
  <2>3. g.at = "append" /\ g.event = m /\ g.request = caller[c].request
    BY <2>1
  <2> HIDE DEF g
  <2>4. FrameType(g)
    BY <1>0, <2>2, <2>3 DEF FrameType, Places
  <2> QED BY <1>3, <2>1, <2>3, <2>4
<1>7. ASSUME NEW c \in Callers, NEW place \in {"confirm", "execute"}, log' = log, exec' = exec,
             caller[c].at # "executing",
             caller' = [caller EXCEPT ![c] = [caller[c] EXCEPT !.at = place]]
      PROVE  TypeInv'
  <2> DEFINE g == [caller[c] EXCEPT !.at = place]
  <2>1. g.at = place /\ g.request = caller[c].request
    BY <1>0 DEF Framed
  <2>2. caller' = [caller EXCEPT ![c] = g]
    BY <1>7
  <2> HIDE DEF g
  <2>3. FrameType(g)
    BY <1>0, <2>1 DEF FrameType, Places
  <2> QED BY <1>3, <1>7, <2>1, <2>2, <2>3
<1>8. ASSUME NEW c \in Callers, StoreRedelivered(c) PROVE TypeInv'
  <2>1. /\ log' = log /\ exec' = exec /\ caller[c].at # "executing"
        /\ caller' = [caller EXCEPT ![c] = [caller[c] EXCEPT !.at = "confirm"]]
    BY <1>8 DEF StoreRedelivered, effects
  <2> QED BY <1>7, <2>1
<1>9. ASSUME NEW c \in Callers, NEW e, NEW r \in Requests \cup {None}, Going(c, e, r),
             log' = log, exec' = exec, caller[c].at # "executing"
      PROVE  TypeInv'
  <2>1. FrameType(Appending(e, r)) /\ Appending(e, r).at # "executing"
    BY DEF FrameType, Appending, Places
  <2> QED BY <1>3, <1>9, <2>1 DEF Going
<1>10. ASSUME NEW c \in Callers, Confirm(c) PROVE TypeInv'
  <2> DEFINE r == caller[c].request
  <2>1. log' = log /\ exec' = exec /\ caller[c].at # "executing" /\ r \in Requests \cup {None}
    BY <1>0, <1>10 DEF Confirm, effects, FrameType
  <2>2. CASE \E e : Going(c, e, r)
    BY <1>9, <2>1, <2>2
  <2>3. CASE caller' = [caller EXCEPT ![c].at = "execute"]
    <3>1. caller' = [caller EXCEPT ![c] = [caller[c] EXCEPT !.at = "execute"]]
      BY <2>3
    <3> QED BY <1>7, <2>1, <3>1
  <2>4. CASE Leave(c)
    <3>1. Idle.at # "executing"
      BY DEF Idle
    <3> QED BY <1>3, <2>1, <2>4, <3>1, IdleTyped DEF Leave
  <2> QED BY <1>10, <2>2, <2>3, <2>4 DEF Confirm
<1>11. ASSUME NEW c \in Callers, Store(c) PROVE TypeInv'
  <2> DEFINE e == caller[c].event
             g == [caller[c] EXCEPT !.at = "confirm"]
  <2>1. /\ log' = Append(log, e) /\ exec' = exec /\ caller[c].at = "append"
        /\ caller' = [caller EXCEPT ![c] = g] /\ e.seq = Len(log) + 1
    BY <1>11 DEF Store, InSequence, effects
  <2>2. EventType(e) /\ e.id = e.seq /\ IsSequence(log)
    BY <1>0, <2>1 DEF Framed, FrameType, BaseInv
  <2>3. /\ Len(log) \in Nat /\ Len(log') = Len(log) + 1 /\ log'[Len(log) + 1] = e
        /\ \A i \in 1..Len(log) : log'[i] = log[i]
    BY <2>1, <2>2, AppendFacts
  <2>4. \A i \in 1..Len(log') : log'[i].seq = i /\ log'[i].id = i /\ log'[i].type \in EventTypes
    <3>1. \A i \in 1..Len(log') : i \in 1..Len(log) \/ i = Len(log) + 1
      BY <2>3
    <3> QED BY <2>1, <2>2, <2>3, <3>1 DEF TypeInv, EventType
  <2>5. g.at = "confirm" /\ g.request = caller[c].request
    BY <1>0 DEF Framed
  <2> HIDE DEF g
  <2>6. FrameType(g)
    BY <1>0, <2>5 DEF FrameType, Places
  <2>7. \A d \in Callers : caller'[d] = IF d = c THEN g ELSE caller[d]
    BY <1>0, <2>1 DEF BaseInv
  <2> QED BY <2>1, <2>4, <2>5, <2>6, <2>7 DEF TypeInv
<1>12. ASSUME NEW c \in Callers, Execute(c) PROVE TypeInv'
  <2> DEFINE g == [caller[c] EXCEPT !.at = "executing"]
  <2>1. /\ log' = log /\ caller' = [caller EXCEPT ![c] = g]
        /\ \E call, content : Executor!Deliver(c, call, content)
    BY <1>12 DEF Execute
  <2>2. g.at = "executing" /\ g.request = caller[c].request
    BY <1>0 DEF Framed
  <2> HIDE DEF g
  <2>3. FrameType(g)
    BY <1>0, <2>2 DEF FrameType, Places
  <2>4. exec'[c].at # "idle" /\ \A d \in Callers \ {c} : exec'[d].at = exec[d].at
    BY <1>0, <2>1, ExecutorAt
  <2> QED BY <1>0, <2>1, <2>2, <2>3, <2>4, FrameTyped
<1>13. ASSUME NEW c \in Callers, ExecutorSteps(c) PROVE TypeInv'
  <2>1. log' = log /\ caller' = caller /\ caller[c].at = "executing"
    BY <1>13 DEF ExecutorSteps
  <2>2. exec'[c].at # "idle" /\ \A d \in Callers \ {c} : exec'[d].at = exec[d].at
    BY <1>0, <1>13, ExecutorAt DEF ExecutorSteps, Executor!Run
  <2> QED BY <2>1, <2>2 DEF TypeInv
<1>14. ASSUME NEW c \in Callers, ExecutorReturns(c) \/ ExecutorRaises(c) \/ Crash(c)
       PROVE  TypeInv'
  <2>1. exec'[c].at = "idle" /\ \A d \in Callers \ {c} : exec'[d].at = exec[d].at
    BY <1>0, <1>14, ExecutorAt DEF ExecutorReturns, ExecutorRaises, Crash, Executor!Run
  <2>2. CASE ExecutorRaises(c) \/ Crash(c)
    <3>1. log' = log /\ caller' = [caller EXCEPT ![c] = Idle] /\ Idle.at # "executing"
      BY <2>2 DEF ExecutorRaises, Crash, Leave, Idle
    <3> QED BY <1>0, <2>1, <3>1, IdleTyped, FrameTyped
  <2>3. CASE ExecutorReturns(c)
    <3>1. PICK e : log' = log /\ caller' = [caller EXCEPT ![c] = Appending(e, caller[c].request)]
      BY <2>3 DEF ExecutorReturns, Going
    <3>2. FrameType(Appending(e, caller[c].request)) /\ Appending(e, caller[c].request).at = "read"
      BY <1>0 DEF FrameType, Appending, Places
    <3> QED BY <1>0, <2>1, <3>1, <3>2, FrameTyped
  <2> QED BY <1>14, <2>2, <2>3
<1> QED BY <1>1, <1>2, <1>4, <1>5, <1>6, <1>8, <1>10, <1>11, <1>12, <1>13, <1>14 DEF Next, Run

\* Events are numbered without a gap, frames hold what their place needs, a process is
\* inside the executor exactly while its executor works, and the run a process loads is
\* the replay of the log, for every number of processes.
THEOREM TypeCorrect == Spec => []TypeOK
<1>1. Init => TypeInv
  <2>1. Created.type \in EventTypes /\ Started.type \in EventTypes
    BY DEF Created, Started, EventTypes, RunTypes
  <2> QED BY <2>1, IdleTyped
          DEF Init, TypeInv, Created, Started, Idle, Executor!Init, Executor!Idle
<1>2. RInv /\ TypeInv /\ [Next]_vars => TypeInv'
  BY TypeStep
<1>3. RInv /\ TypeInv /\ ReleaseInv => TypeOK
  <2> SUFFICES ASSUME RInv, TypeInv, ReleaseInv PROVE TypeOK
    OBVIOUS
  <2>1. ASSUME NEW c \in Callers
        PROVE  /\ caller[c].at \in Places
               /\ caller[c].request \in Requests \cup {None}
               /\ caller[c].at \in {"execute", "executing"} => caller[c].request \in Requests
               /\ (caller[c].at = "executing") <=> (exec[c].at # "idle")
               /\ caller[c].at \in {"read", "append", "confirm"} =>
                     caller[c].event.type \in EventTypes
    <3>1. Framed(log, caller[c]) /\ FrameType(caller[c])
      BY DEF RInv, BaseInv, TypeInv
    <3>2. OperationTypes \subseteq EventTypes
      BY DEF OperationTypes, EventTypes
    <3> QED BY <3>1, <3>2 DEF Framed, FrameType, Numbering, Payload, TypeInv
  <2>2. run = Rejected \/ RunType(run)
    BY DEF RInv, BaseInv, Good
  <2> QED BY <2>1, <2>2 DEF RInv, BaseInv, Linked, TypeInv, ReleaseInv, TypeOK
<1> QED BY <1>1, <1>2, <1>3, RuntimeInvariant, ReleaseInvariant, PTL DEF Spec

-----------------------------------------------------------------------------
(* With one process that looks at the status before it submits or          *)
(* verifies, everything AuthorizedToolRuntime stores can be replayed,      *)
(* whatever crashes and whatever policy the process comes back with.       *)
(* With one process, disciplined or not, no call runs an unretryable tool  *)
(* twice.                                                                  *)

SingleCaller == \E c : Callers = {c}

-----------------------------------------------------------------------------
(* The inductive invariant.                                                *)

\* The digest of a waiting gate is bound to its revision.
GateBound(s) ==
    s.status = "awaiting_gate" =>
        \E r, mode : s.gate.digest = Digest(r, mode, s.gate.revision)

\* What the reducer has applied are events of the log before the next one.
Current(s, events) ==
    /\ Good(s) /\ GateBound(s)
    /\ s.next = Len(events) + 1
    /\ \A d \in s.applied : d.id \in Nat /\ d.id < s.next

\* The next event is e, and the reducer will take it.
Takes(s, e) == s.status \notin Terminal /\ Guard(s, e)

CallIs(s, status, f) == s.status = status /\ s.call = f.request.call

\* A process's frame agrees with the log it was read from: nobody else writes.
Agrees(s, f) ==
    /\ f.at = "read" => Takes(s, Numbered(f.event, s.next))
    /\ f.at = "append" =>
          Takes(s, f.event) /\ f.event.seq = s.next /\ f.event.id = s.next
    /\ f.at = "confirm" /\ f.event.type = "tool.requested" => CallIs(s, "tool_pending", f)
    /\ f.at = "confirm" /\ Releases(f.event) => CallIs(s, "tool_ready", f)
    /\ f.at = "confirm" /\ f.event.type = "tool.started" => CallIs(s, "tool_running", f)
    /\ f.at \in {"execute", "executing"} => CallIs(s, "tool_running", f)

ReplayInv == Current(run, log) /\ \A c \in Callers : Agrees(run, caller[c])

LEMMA IdleAgrees == \A s : Agrees(s, Idle)
BY DEF Agrees, Idle

\* The only process replaces its frame by one that agrees with the same log.
LEMMA OnlyFrameReplaced ==
    ASSUME BaseInv, ReplayInv, NEW c \in Callers, Callers = {c}, NEW f, Agrees(run, f),
           caller' = [caller EXCEPT ![c] = f], UNCHANGED <<log, run>>
    PROVE  ReplayInv'
<1>1. \A d \in Callers : caller'[d] = f
  BY DEF BaseInv
<1>2. log' = log /\ run' = run
  OBVIOUS
<1> QED BY <1>1, <1>2 DEF ReplayInv

LEMMA ReadAgrees ==
    ASSUME NEW s, NEW e, NEW r, Takes(s, Numbered(e, s.next))
    PROVE  Agrees(s, Appending(e, r))
BY DEF Agrees, Appending

-----------------------------------------------------------------------------
(* The guards the operations rely on.                                      *)

\* An event about the active call is taken in the status it belongs to.
LEMMA CallEventTaken ==
    ASSUME NEW s, NEW call \in Calls, s.call = call, NEW type, NEW n,
           \/ type \in {"tool.authorized", "tool.denied"} /\ s.status = "tool_pending"
           \/ type = "tool.started" /\ s.status = "tool_ready"
           \/ type \in {"tool.succeeded", "tool.failed", "tool.timed_out"}
                /\ s.status = "tool_running"
    PROVE  Takes(s, Numbered([type |-> type, call |-> call], n))
<1> DEFINE m == Numbered([type |-> type, call |-> call], n)
<1>1. m.type = type /\ m.call = call
  BY DEF Numbered
<1> HIDE DEF m
<1>2. ToolGuard(s, m)
  <2>1. CASE m.type \in {"tool.authorized", "tool.denied"}
    BY <1>1, <2>1, NoneAssumption DEF ToolGuard, ActiveTool
  <2>2. CASE m.type = "tool.started"
    BY <1>1, <2>2, NoneAssumption DEF ToolGuard, ActiveTool
  <2>3. CASE m.type \in {"tool.succeeded", "tool.failed", "tool.timed_out"}
    BY <1>1, <2>3, NoneAssumption DEF ToolGuard, ActiveTool
  <2> QED BY <1>1, <2>1, <2>2, <2>3
<1>3. Guard(s, m) <=> ToolGuard(s, m)
  BY <1>1 DEF Guard, RunTypes, ModelTypes, CompletionTypes, GateTypes, ToolTypes,
     VerificationTypes
<1> QED BY <1>1, <1>2, <1>3 DEF m, Takes, Terminal

\* The events of a gate reach GateGuard.
LEMMA GateEventGuard ==
    ASSUME NEW s, NEW m, m.type \in GateTypes
    PROVE  Guard(s, m) <=> GateGuard(s, m)
BY DEF Guard, RunTypes, ModelTypes, CompletionTypes, GateTypes, ToolTypes,
   VerificationTypes

\* A gate that waits for the reference's call.
LEMMA WaitingGate ==
    ASSUME BaseInv, ReplayInv, NEW reference, Matches(run, reference)
    PROVE  /\ run.status = "awaiting_gate" /\ run.status \notin Terminal
           /\ reference.call = run.call /\ run.call # None
           /\ reference.digest = run.gate.digest /\ reference.revision = run.gate.revision
           /\ run.gate \in Gate
<1>1. Good(run)
  BY DEF ReplayInv, Current
<1>2. run.status = "awaiting_gate" /\ reference.call = run.call
      /\ reference.digest = run.gate.digest /\ reference.revision = run.gate.revision
  BY DEF Matches
<1> QED BY <1>1, <1>2 DEF Good, FieldsMatchStatus, RunType, ToolStatuses, Terminal

\* What a disciplined process begins, the reducer will take.
LEMMA BeginAgrees ==
    ASSUME BaseInv, ReplayInv, NEW c \in Callers, Callers = {c}, Disciplined, Begin(c)
    PROVE  ReplayInv'
<1> USE DEF stored
<1> DEFINE n == run.next
<1>0. Good(run) /\ GateBound(run)
  BY DEF ReplayInv, Current
<1>1. ASSUME NEW call \in Calls, NEW content \in Contents, NEW step \in 1..MaxEvents,
             Submit(c, call, content, step)
      PROVE  ReplayInv'
  <2> DEFINE r == [call |-> call, content |-> content, step |-> step]
             e == [type |-> "tool.requested", call |-> call, content |-> content,
                   step |-> step, action |-> 0]
             m == Numbered(e, n)
  <2>1. run.status = "ready" /\ BudgetAvailable(run) /\ UNCHANGED <<log, run>>
        /\ caller' = [caller EXCEPT ![c] = Appending(e, r)]
    BY <1>1 DEF Submit, Going
  <2>2. m.type = "tool.requested" /\ m.call = call
    BY DEF Numbered
  <2> HIDE DEF m
  <2>3. ToolGuard(run, m)
    BY <2>1, <2>2, NoneAssumption DEF ToolGuard, AnswersAction
  <2>4. Takes(run, m)
    BY <2>1, <2>2, <2>3 DEF Takes, Terminal, Guard, RunTypes, ModelTypes, CompletionTypes,
       GateTypes, ToolTypes, VerificationTypes
  <2> QED BY <2>1, <2>4, ReadAgrees, OnlyFrameReplaced DEF m
<1>2. ASSUME NEW reference, Reject(c, reference)
      PROVE  ReplayInv'
  <2> DEFINE r == RequestOf(reference.call)
             e == [type |-> "gate.rejected", call |-> reference.call,
                   digest |-> reference.digest, revision |-> reference.revision]
             m == Numbered(e, n)
  <2>1. Matches(run, reference) /\ UNCHANGED <<log, run>>
        /\ caller' = [caller EXCEPT ![c] = Appending(e, r)]
    BY <1>2 DEF Reject, Going
  <2>2. m.type = "gate.rejected" /\ m.call = reference.call /\ m.digest = reference.digest
        /\ m.revision = reference.revision
    BY DEF Numbered
  <2> HIDE DEF m
  <2>3. GateGuard(run, m)
    BY <2>1, <2>2, WaitingGate DEF GateGuard, ActiveGate, ActiveTool
  <2>4. Takes(run, m)
    BY <2>1, <2>2, <2>3, WaitingGate, GateEventGuard DEF Takes, GateTypes
  <2> QED BY <2>1, <2>4, ReadAgrees, OnlyFrameReplaced DEF m
<1>3. ASSUME NEW reference, Approve(c, reference)
      PROVE  ReplayInv'
  <2> DEFINE r == RequestOf(reference.call)
             e == [type |-> "gate.approved", call |-> reference.call,
                   digest |-> reference.digest, revision |-> reference.revision]
             m == Numbered(e, n)
  <2>1. Matches(run, reference) /\ run.gate.mode # "user_gate" /\ UNCHANGED <<log, run>>
        /\ caller' = [caller EXCEPT ![c] = Appending(e, r)]
    BY <1>3 DEF Approve, Going
  <2>2. m.type = "gate.approved" /\ m.call = reference.call /\ m.digest = reference.digest
        /\ m.revision = reference.revision
    BY DEF Numbered
  <2> HIDE DEF m
  <2>3. run.gate.mode = "pair"
    BY <2>1, WaitingGate DEF Gate, GateModes
  <2>4. GateGuard(run, m)
    BY <2>1, <2>2, <2>3, WaitingGate DEF GateGuard, ActiveGate, ActiveTool
  <2>5. Takes(run, m)
    BY <2>1, <2>2, <2>4, WaitingGate, GateEventGuard DEF Takes, GateTypes
  <2> QED BY <2>1, <2>5, ReadAgrees, OnlyFrameReplaced DEF m
<1>4. ASSUME NEW reference, NEW outcome \in {"pass", "retry", "block"},
             Answer(c, reference, outcome)
      PROVE  ReplayInv'
  <2> DEFINE r == RequestOf(reference.call)
             attempt == run.gate.attempts + 1
             verdict == Verdict(attempt, run.gate.max, outcome)
             e == [type |-> "gate.evaluated", call |-> reference.call,
                   digest |-> reference.digest, revision |-> reference.revision,
                   attempt |-> attempt, max |-> run.gate.max, outcome |-> verdict]
             m == Numbered(e, n)
  <2>1. Matches(run, reference) /\ run.gate.mode = "user_gate" /\ UNCHANGED <<log, run>>
        /\ caller' = [caller EXCEPT ![c] = Appending(e, r)]
    BY <1>4 DEF Answer, Going
  <2>2. m.type = "gate.evaluated" /\ m.call = reference.call /\ m.digest = reference.digest
        /\ m.revision = reference.revision /\ m.attempt = attempt /\ m.max = run.gate.max
        /\ m.outcome = verdict
    BY DEF Numbered
  <2>3. verdict = "retry" => attempt < run.gate.max
    BY <2>1, WaitingGate DEF Verdict, Gate
  <2> HIDE DEF m, verdict
  <2>4. GateGuard(run, m)
    BY <2>1, <2>2, <2>3, WaitingGate DEF GateGuard, ActiveGate, ActiveTool, NextAttempt
  <2>5. Takes(run, m)
    BY <2>1, <2>2, <2>4, WaitingGate, GateEventGuard DEF Takes, GateTypes
  <2> QED BY <2>1, <2>5, ReadAgrees, OnlyFrameReplaced DEF m
<1>5. ASSUME NEW reference, Revise(c, reference)
      PROVE  ReplayInv'
  <2> DEFINE r == RequestOf(reference.call)
             revision == reference.revision + 1
             digest == Digest(r, policy[c], revision)
             e == [type |-> "gate.revised", call |-> reference.call,
                   previousDigest |-> reference.digest,
                   previousRevision |-> reference.revision,
                   digest |-> digest, revision |-> revision,
                   mode |-> policy[c], max |-> AttemptLimit]
             m == Numbered(e, n)
  <2>1. Matches(run, reference) /\ policy[c] \in GateModes /\ UNCHANGED <<log, run>>
        /\ caller' = [caller EXCEPT ![c] = Appending(e, r)]
    BY <1>5 DEF Revise, Going, Proposal, NextRevision
  <2>2. m.type = "gate.revised" /\ m.call = reference.call
        /\ m.previousDigest = reference.digest /\ m.previousRevision = reference.revision
        /\ m.digest = digest /\ m.revision = revision /\ m.mode = policy[c]
        /\ m.max = AttemptLimit
    BY DEF Numbered
  <2>3. reference.revision \in Nat \ {0} /\ revision # reference.revision
    BY <2>1, WaitingGate DEF Gate
  <2>4. digest # reference.digest
    BY <1>0, <2>1, <2>3, WaitingGate DEF GateBound, Digest
  <2> HIDE DEF m, digest
  <2>5. OpensGate(m)
    BY <2>1, <2>2, <2>3, RuntimeAssumption DEF OpensGate
  <2>6. GateGuard(run, m)
    BY <2>1, <2>2, <2>4, <2>5, WaitingGate DEF GateGuard, ActiveTool
  <2>7. Takes(run, m)
    BY <2>1, <2>2, <2>6, WaitingGate, GateEventGuard DEF Takes, GateTypes
  <2> QED BY <2>1, <2>7, ReadAgrees, OnlyFrameReplaced DEF m, digest
<1>6. ASSUME Recover(c)
      PROVE  ReplayInv'
  <2> DEFINE r == RequestOf(run.call)
  <2>1. run.call \in Calls /\ r.call = run.call
    BY <1>0, <1>6, RequestFound
       DEF Recover, BaseInv, Good, FieldsMatchStatus, RunType, ToolStatuses
  <2>2. CASE run.status = "tool_ready" /\ Going(c, ToolEvent("tool.started", r), r)
    <3>1. Takes(run, Numbered(ToolEvent("tool.started", r), n))
      BY <2>1, <2>2, CallEventTaken DEF ToolEvent
    <3> QED BY <1>6, <2>2, <3>1, ReadAgrees, OnlyFrameReplaced DEF Going, Recover
  <2>3. CASE run.status = "tool_running"
    <3> DEFINE f == [at |-> "execute", event |-> None, request |-> r]
    <3>1. Agrees(run, f)
      BY <2>1, <2>3 DEF Agrees, CallIs
    <3>2. caller' = [caller EXCEPT ![c] = f] /\ UNCHANGED <<log, run>>
      BY <1>6, <2>3 DEF Recover
    <3> QED BY <3>1, <3>2, OnlyFrameReplaced
  <2> QED BY <1>6, <2>2, <2>3 DEF Recover
<1>7. ASSUME NEW type \in VerificationTypes, VerifyRun(c, type)
      PROVE  ReplayInv'
  <2> DEFINE e == [type |-> type, scope |-> "run"]
             m == Numbered(e, n)
  <2>1. run.status = "verifying" /\ UNCHANGED <<log, run>>
        /\ caller' = [caller EXCEPT ![c] = Appending(e, None)]
    BY <1>7 DEF VerifyRun, Going
  <2>2. m.type = type /\ m.scope = "run"
    BY DEF Numbered
  <2> HIDE DEF m
  <2>3. VerificationGuard(run, m)
    BY <2>1, <2>2 DEF VerificationGuard
  <2>4. Takes(run, m)
    BY <2>1, <2>2, <2>3 DEF Takes, Terminal, Guard, RunTypes, ModelTypes, CompletionTypes,
       GateTypes, ToolTypes, VerificationTypes
  <2> QED BY <2>1, <2>4, ReadAgrees, OnlyFrameReplaced DEF m
<1>8. ASSUME VerifyStep(c)
      PROVE  ReplayInv'
  <2> DEFINE e == [type |-> "verification.succeeded", scope |-> "step", step |-> run.step]
             m == Numbered(e, n)
  <2>1. run.status = "verifying" /\ run.step # 0 /\ UNCHANGED <<log, run>>
        /\ caller' = [caller EXCEPT ![c] = Appending(e, None)]
    BY <1>8 DEF VerifyStep, Going
  <2>2. m.type = "verification.succeeded" /\ m.scope = "step" /\ m.step = run.step
    BY DEF Numbered
  <2> HIDE DEF m
  <2>3. VerificationGuard(run, m)
    BY <2>1, <2>2 DEF VerificationGuard
  <2>4. Takes(run, m)
    BY <2>1, <2>2, <2>3 DEF Takes, Terminal, Guard, RunTypes, ModelTypes, CompletionTypes,
       GateTypes, ToolTypes, VerificationTypes
  <2> QED BY <2>1, <2>4, ReadAgrees, OnlyFrameReplaced DEF m
<1> QED BY <1>1, <1>2, <1>3, <1>4, <1>5, <1>6, <1>7, <1>8 DEF Begin

\* The event a frame agrees with is reduced, and the log goes on replaying.
LEMMA StoreAgrees ==
    ASSUME BaseInv, ReplayInv, NEW c \in Callers, Callers = {c}, Store(c)
    PROVE  ReplayInv'
<1> DEFINE e == caller[c].event
           f == caller[c]
           t == Effect(run, e)
<1>1. /\ log' = Append(log, e) /\ run' = ReplayStep(run, e)
      /\ caller' = [caller EXCEPT ![c].at = "confirm"] /\ f.at = "append"
  BY DEF Store
<1>2. /\ Framed(log, f) /\ EventType(e) /\ Payload(e, f.request)
      /\ IsSequence(log)
  BY <1>1 DEF BaseInv, Framed, Numbering
<1>3. /\ Takes(run, e) /\ e.seq = run.next /\ e.id = run.next
      /\ Good(run) /\ GateBound(run) /\ run.next = Len(log) + 1
      /\ \A d \in run.applied : d.id \in Nat /\ d.id < run.next
  BY <1>1 DEF ReplayInv, Agrees, Current
<1>4. run.next \in Nat
  BY <1>3 DEF Good, RunType
<1>5. ~Redelivered(run, e) /\ ~Conflicting(run, e)
  BY <1>3, <1>4 DEF Redelivered, Conflicting
<1>6. Acceptable(run, e)
  BY <1>3, <1>5 DEF Acceptable, Takes
<1>7. run' = Applied(run, e)
  BY <1>1, <1>3, <1>5, <1>6, GoodIsNotRejected DEF ReplayStep, Reduce, Legal
<1>8. Good(t) /\ CallStep(run, e, t)
  BY <1>2, <1>3, <1>6, EffectGood
<1>9. /\ Good(run') /\ run'.next = run.next + 1 /\ run'.applied = run.applied \cup {e}
      /\ run'.status = t.status /\ run'.call = t.call /\ run'.gate = t.gate
  BY <1>3, <1>7, <1>8, AppliedGood
<1>10. GateBound(run')
  <2>1. SUFFICES ASSUME t.status = "awaiting_gate"
                 PROVE  \E r, mode : t.gate.digest = Digest(r, mode, t.gate.revision)
    BY <1>9 DEF GateBound
  <2>2. CASE e.type \in {"tool.escalated", "gate.revised"}
    <3>1. t.gate.digest = e.digest /\ t.gate.revision = e.revision
      BY <1>8, <2>1, <2>2 DEF CallStep
    <3>2. e.digest = Digest(f.request, e.mode, e.revision)
      BY <1>2, <2>2 DEF Payload
    <3> QED BY <3>1, <3>2
  <2>3. CASE e.type \notin {"tool.escalated", "gate.revised"}
    <3>1. run.status = "awaiting_gate" /\ t.gate.digest = run.gate.digest
          /\ t.gate.revision = run.gate.revision
      BY <1>8, <2>1, <2>3 DEF CallStep
    <3> QED BY <1>3, <3>1 DEF GateBound
  <2> QED BY <2>2, <2>3
<1>11. run'.next = Len(log') + 1
  <2>1. Len(log') = Len(log) + 1
    BY <1>1, <1>2, AppendFacts
  <2> QED BY <1>3, <1>9, <2>1
<1>12. \A d \in run'.applied : d.id \in Nat /\ d.id < run'.next
  <2>1. SUFFICES ASSUME NEW d \in run.applied \cup {e}
                 PROVE  d.id \in Nat /\ d.id < run.next + 1
    BY <1>9
  <2>2. CASE d \in run.applied
    BY <1>3, <1>4, <2>2
  <2>3. CASE d = e
    BY <1>3, <1>4, <2>3
  <2> QED BY <2>1, <2>2, <2>3
<1>13. Agrees(run', caller'[c])
  <2> DEFINE g == caller'[c]
  <2>1. g.at = "confirm" /\ g.event = e /\ g.request = f.request
    BY <1>1, <1>2 DEF BaseInv, Framed
  <2>2. e.type \notin VerificationTypes => e.call = f.request.call
    BY <1>2 DEF Payload
  <2>3. Releases(e) <=> Releasing(e)
    BY DEF Releases, Releasing
  <2> HIDE DEF g
  <2>4. e.type = "tool.requested" => CallIs(run', "tool_pending", g)
    BY <1>8, <1>9, <2>1, <2>2 DEF CallStep, CallIs, VerificationTypes
  <2>5. Releases(e) => CallIs(run', "tool_ready", g)
    BY <1>8, <1>9, <2>1, <2>2, <2>3 DEF CallStep, CallIs, VerificationTypes, Releasing
  <2>6. e.type = "tool.started" => CallIs(run', "tool_running", g)
    BY <1>8, <1>9, <2>1, <2>2 DEF CallStep, CallIs, VerificationTypes
  <2>7. Agrees(run', g)
    BY <2>1, <2>4, <2>5, <2>6 DEF Agrees
  <2> QED BY <2>7 DEF g
<1> QED BY <1>9, <1>10, <1>11, <1>12, <1>13 DEF ReplayInv, Current

\* After an event that was stored and replayed, the operation's next event fits.
LEMMA ConfirmAgrees ==
    ASSUME BaseInv, ReplayInv, NEW c \in Callers, Callers = {c}, Confirm(c)
    PROVE  ReplayInv'
<1> DEFINE f == caller[c]
           e == f.event
           r == f.request
           n == run.next
<1> USE DEF stored
<1>1. /\ f.at = "confirm" /\ UNCHANGED <<log, run>> /\ Framed(log, f) /\ Payload(e, r)
      /\ Agrees(run, f)
  BY DEF Confirm, BaseInv, ReplayInv, Framed, Numbering
<1>2. e.type \notin VerificationTypes => r \in Requests /\ r.call \in Calls
  BY <1>1 DEF Payload, Requests
<1>3. CASE e.type = "tool.requested" /\ policy[c] # "raise" /\ Going(c, Decision(c, r), r)
  <2>1. run.status = "tool_pending" /\ run.call = r.call /\ r.call \in Calls
    BY <1>1, <1>2, <1>3 DEF Agrees, CallIs, VerificationTypes
  <2>2. CASE policy[c] = "deny"
    <3>1. Decision(c, r) = [type |-> "tool.denied", call |-> r.call]
      BY <2>2 DEF Decision, ToolEvent
    <3>2. Takes(run, Numbered(Decision(c, r), n))
      BY <2>1, <3>1, CallEventTaken
    <3> QED BY <1>1, <1>3, <3>2, ReadAgrees, OnlyFrameReplaced DEF Going
  <2>3. CASE policy[c] = "allow"
    <3>1. Decision(c, r) = [type |-> "tool.authorized", call |-> r.call]
      BY <2>3 DEF Decision, ToolEvent
    <3>2. Takes(run, Numbered(Decision(c, r), n))
      BY <2>1, <3>1, CallEventTaken
    <3> QED BY <1>1, <1>3, <3>2, ReadAgrees, OnlyFrameReplaced DEF Going
  <2>4. CASE policy[c] \notin {"deny", "allow"}
    <3> DEFINE p == [type |-> "tool.escalated", call |-> r.call, mode |-> policy[c],
                     revision |-> 1, digest |-> Digest(r, policy[c], 1),
                     max |-> AttemptLimit]
               m == Numbered(p, n)
    <3>1. policy[c] \in GateModes
      BY <1>3, <2>4, RuntimeAssumption DEF BaseInv
    <3>2. Decision(c, r) = p
      BY <2>4 DEF Decision, Proposal
    <3>3. m.type = "tool.escalated" /\ m.call = r.call /\ m.mode = policy[c]
          /\ m.revision = 1 /\ m.max = AttemptLimit
      BY DEF Numbered
    <3> HIDE DEF m
    <3>4. OpensGate(m)
      BY <3>1, <3>3, RuntimeAssumption DEF OpensGate
    <3>5. GateGuard(run, m)
      BY <2>1, <3>3, <3>4, NoneAssumption DEF GateGuard, ActiveTool
    <3>6. Takes(run, m)
      BY <2>1, <3>3, <3>5, GateEventGuard DEF Takes, GateTypes, Terminal
    <3> QED BY <1>1, <1>3, <3>2, <3>6, ReadAgrees, OnlyFrameReplaced DEF Going, m
  <2> QED BY <2>2, <2>3, <2>4
<1>4. CASE Releases(e) /\ Going(c, ToolEvent("tool.started", r), r)
  <2>1. run.status = "tool_ready" /\ run.call = r.call /\ r.call \in Calls
    BY <1>1, <1>2, <1>4 DEF Agrees, CallIs, VerificationTypes, Releases
  <2>2. Takes(run, Numbered(ToolEvent("tool.started", r), n))
    BY <2>1, CallEventTaken DEF ToolEvent
  <2> QED BY <1>1, <1>4, <2>2, ReadAgrees, OnlyFrameReplaced DEF Going
<1>5. CASE e.type = "tool.started" /\ caller' = [caller EXCEPT ![c].at = "execute"]
  <2> DEFINE g == [f EXCEPT !.at = "execute"]
  <2>1. g.at = "execute" /\ g.request = r
    BY <1>1 DEF Framed
  <2>2. caller' = [caller EXCEPT ![c] = g]
    BY <1>5
  <2> HIDE DEF g
  <2>3. Agrees(run, g)
    BY <1>1, <1>5, <2>1 DEF Agrees, CallIs
  <2> QED BY <1>1, <2>2, <2>3, OnlyFrameReplaced
<1>6. CASE Leave(c)
  BY <1>1, <1>6, IdleAgrees, OnlyFrameReplaced DEF Leave
<1> QED BY <1>3, <1>4, <1>5, <1>6 DEF Confirm

LEMMA RunAgrees ==
    ASSUME BaseInv, Linked, ReplayInv, NEW c \in Callers, Callers = {c}, Run(c)
    PROVE  ReplayInv'
<1> USE DEF stored
<1> DEFINE f == caller[c]
<1>0. Framed(log, f) /\ Agrees(run, f) /\ Good(run)
  BY DEF BaseInv, ReplayInv, Current
<1>1. CASE Read(c)
  <2> DEFINE g == [f EXCEPT !.at = "append", !.event = Numbered(@, run.next)]
  <2>1. caller' = [caller EXCEPT ![c] = g] /\ UNCHANGED <<log, run>> /\ f.at = "read"
    BY <1>1 DEF Read
  <2>2. g.at = "append" /\ g.event = Numbered(f.event, run.next)
    BY <1>0 DEF Framed
  <2>3. g.event.seq = run.next /\ g.event.id = run.next
    BY <2>2 DEF Numbered
  <2> HIDE DEF g
  <2>4. Agrees(run, g)
    BY <1>0, <2>1, <2>2, <2>3 DEF Agrees
  <2> QED BY <2>1, <2>4, OnlyFrameReplaced
<1>2. CASE ReadRejected(c) \/ StoreRefused(c) \/ AuthorizeRaises(c)
                  \/ ConfirmRejected(c)
  BY <1>2, IdleAgrees, OnlyFrameReplaced DEF ReadRejected, StoreRefused, AuthorizeRaises, ConfirmRejected, Leave
<1>3. CASE Store(c)
  BY <1>3, StoreAgrees
<1>4. CASE StoreRedelivered(c)
  <2>1. f.event.seq <= Len(log) /\ f.event.seq = Len(log) + 1
    BY <1>4 DEF StoreRedelivered, Known, ReplayInv, Agrees, Current
  <2>2. Len(log) \in Nat
    BY AppendFacts DEF BaseInv
  <2> QED BY <2>1, <2>2
<1>5. CASE Confirm(c)
  BY <1>5, ConfirmAgrees
<1>6. CASE Execute(c)
  <2> DEFINE g == [f EXCEPT !.at = "executing"]
  <2>1. caller' = [caller EXCEPT ![c] = g] /\ UNCHANGED <<log, run>> /\ f.at = "execute"
    BY <1>6 DEF Execute
  <2>2. g.at = "executing" /\ g.request = f.request
    BY <1>0 DEF Framed
  <2> HIDE DEF g
  <2>3. Agrees(run, g)
    BY <1>0, <2>1, <2>2 DEF Agrees, CallIs
  <2> QED BY <2>1, <2>3, OnlyFrameReplaced
<1>7. CASE ExecutorSteps(c)
  BY <1>7 DEF ExecutorSteps, ReplayInv
<1>8. CASE ExecutorReturns(c)
  <2> DEFINE r == f.request
             result == receipts'[r.call]
  <2>1. caller' = [caller EXCEPT ![c] = Appending(OutcomeEvent(result, r), r)]
        /\ UNCHANGED <<log, run>> /\ f.at = "executing"
    BY <1>8 DEF ExecutorReturns, Going
  <2>2. run.status = "tool_running" /\ run.call = r.call /\ r.call \in Calls
    BY <1>0, <2>1 DEF Agrees, CallIs, Framed, Requests
  <2>3. result \in Outcomes
    BY <1>8, ExecutorResult, RuntimeAssumption
  <2> HIDE DEF result
  <2>4. \E type \in {"tool.succeeded", "tool.failed", "tool.timed_out"} :
            OutcomeEvent(result, r) = [type |-> type, call |-> r.call]
    BY <2>3 DEF OutcomeEvent, ToolEvent, Outcomes
  <2>5. Takes(run, Numbered(OutcomeEvent(result, r), run.next))
    BY <2>2, <2>4, CallEventTaken
  <2> QED BY <2>1, <2>5, ReadAgrees, OnlyFrameReplaced
<1>9. CASE ExecutorRaises(c)
  BY <1>9, IdleAgrees, OnlyFrameReplaced DEF ExecutorRaises, Leave
<1> QED BY <1>1, <1>2, <1>3, <1>4, <1>5, <1>6, <1>7, <1>8, <1>9 DEF Run

-----------------------------------------------------------------------------
\* A run that was created and started replays.
LEMMA InitialReplays ==
    ASSUME Init
    PROVE  ReplayInv
<1>1. /\ Good(run) /\ run.status = "ready" /\ run.next = Len(log) + 1
      /\ run.applied = {Created, Started}
  BY StartedRun
<1>2. Created.id = 1 /\ Started.id = 2 /\ Len(log) = 2
  BY DEF Created, Started, Init
<1>3. Current(run, log)
  BY <1>1, <1>2 DEF Current, GateBound
<1>4. \A c \in Callers : Agrees(run, caller[c])
  BY IdleAgrees DEF Init
<1> QED BY <1>3, <1>4 DEF ReplayInv

LEMMA ReplayStepInv ==
    ASSUME SingleCaller, Disciplined, RInv, ReplayInv, [Next]_vars
    PROVE  ReplayInv'
<1>1. CASE UNCHANGED vars
  BY <1>1 DEF vars, ReplayInv
<1>2. ASSUME NEW c \in Callers, Callers = {c}, Crash(c) PROVE ReplayInv'
  BY <1>2, IdleAgrees, OnlyFrameReplaced DEF Crash, Leave, stored, RInv
<1>3. ASSUME NEW c \in Callers, NEW p \in Policies, ChangePolicy(c, p) PROVE ReplayInv'
  BY <1>3 DEF ChangePolicy, ReplayInv, stored
<1>4. \A c \in Callers : Callers = {c}
  BY DEF SingleCaller
<1> QED BY <1>1, <1>2, <1>3, <1>4, BeginAgrees, RunAgrees DEF Next, RInv

\* One process that looks before it submits and verifies never stores an event that
\* the reducer refuses: _append's store-then-replay cannot lock it out of its run.
THEOREM ReplaysCorrect ==
    ASSUME SingleCaller, Disciplined
    PROVE  Spec => []LogReplays
<1>1. Init => ReplayInv
  BY InitialReplays
<1>2. RInv /\ ReplayInv /\ [Next]_vars => ReplayInv'
  BY ReplayStepInv
<1>3. ReplayInv => LogReplays
  BY GoodIsNotRejected DEF ReplayInv, Current, LogReplays
<1> QED BY <1>1, <1>2, <1>3, RuntimeInvariant, PTL DEF Spec

\* With one process, disciplined or not, no call whose tool may not be retried runs
\* twice, however operations, crashes and recoveries follow each other.
THEOREM AtMostOnceCorrect ==
    ASSUME SingleCaller
    PROVE  Spec => []Executor!InvokedAtMostOnce
<1>1. EP!SingleWorker
  BY DEF SingleCaller, EP!SingleWorker
<1>2. EP!Spec => []EP!InvokedAtMostOnce
  BY <1>1, ExecutorAssumption, EP!AtMostOnceCorrect
<1>3. Executor!Init => EP!Init
  BY ExecutorNames
<1>4. [Executor!Next]_Executor!vars => [EP!Next]_EP!vars
  BY ExecutorNames DEF Executor!vars, EP!vars, Executor!outside, EP!outside
<1>5. EP!InvokedAtMostOnce <=> Executor!InvokedAtMostOnce
  BY DEF EP!InvokedAtMostOnce, Executor!InvokedAtMostOnce
<1> QED BY <1>2, <1>3, <1>4, <1>5, ExecutorRefines, PTL
        DEF Executor!Spec, EP!Spec

-----------------------------------------------------------------------------
(* The log these processes keep between them is one RunLifecycle allows.   *)

Lifecycle == INSTANCE RunLifecycle_proofs
    WITH Budgets <- {Budget}, Modes <- GateModes, AttemptLimits <- {AttemptLimit},
         MaxRevision <- MaxRevision + 1, MaxStep <- MaxEvents, MaxEvents <- MaxEvents

\* Its reducer is this one.
LEMMA SameGood ==
    ASSUME NEW s
    PROVE  Lifecycle!Good(s) <=> Good(s)
BY DEF Lifecycle!Good, Good, Lifecycle!RunType, RunType, Lifecycle!FieldsMatchStatus,
   FieldsMatchStatus, Lifecycle!AttemptsLeft, AttemptsLeft, Lifecycle!BudgetKept, BudgetKept,
   Lifecycle!FreshRun, FreshRun, Lifecycle!InitialRun, InitialRun, Lifecycle!Statuses, Statuses,
   Lifecycle!Terminal, Terminal, Lifecycle!ToolStatuses, ToolStatuses, Lifecycle!Gate, Gate,
   Lifecycle!NoGate, NoGate, Lifecycle!GateModes, GateModes

LEMMA SameEvents ==
    ASSUME NEW e
    PROVE  Lifecycle!EventType(e) <=> EventType(e)
BY DEF Lifecycle!EventType, EventType, Lifecycle!EventTypes, EventTypes, Lifecycle!RunTypes, RunTypes,
   Lifecycle!ModelTypes, ModelTypes, Lifecycle!CompletionTypes, CompletionTypes,
   Lifecycle!GateTypes, GateTypes, Lifecycle!ToolTypes, ToolTypes,
   Lifecycle!VerificationTypes, VerificationTypes

LEMMA SameReducer ==
    ASSUME NEW s, NEW e
    PROVE  /\ Lifecycle!Acceptable(s, e) <=> Acceptable(s, e)
           /\ Lifecycle!Applied(s, e) = Applied(s, e)
<1> USE DEF Lifecycle!RunTypes, RunTypes, Lifecycle!ModelTypes, ModelTypes,
      Lifecycle!CompletionTypes, CompletionTypes, Lifecycle!GateTypes, GateTypes,
      Lifecycle!ToolTypes, ToolTypes, Lifecycle!VerificationTypes, VerificationTypes,
      Lifecycle!Terminal, Terminal, Lifecycle!NoGate, NoGate, Lifecycle!GateModes, GateModes
<1>1. Lifecycle!Guard(s, e) <=> Guard(s, e)
  BY DEF Lifecycle!Guard, Guard, Lifecycle!RunGuard, RunGuard, Lifecycle!ModelGuard, ModelGuard,
     Lifecycle!CompletionGuard, CompletionGuard, Lifecycle!GateGuard, GateGuard,
     Lifecycle!ToolGuard, ToolGuard, Lifecycle!VerificationGuard, VerificationGuard,
     Lifecycle!ActiveTool, ActiveTool, Lifecycle!BudgetAvailable, BudgetAvailable,
     Lifecycle!AnswersAction, AnswersAction, Lifecycle!ActiveGate, ActiveGate,
     Lifecycle!OpensGate, OpensGate, Lifecycle!NextAttempt, NextAttempt
<1>2. Lifecycle!Effect(s, e) = Effect(s, e)
  BY DEF Lifecycle!Effect, Effect, Lifecycle!RunEffect, RunEffect, Lifecycle!ModelEffect,
     ModelEffect, Lifecycle!CompletionEffect, CompletionEffect, Lifecycle!GateEffect, GateEffect,
     Lifecycle!ToolEffect, ToolEffect, Lifecycle!VerificationEffect, VerificationEffect,
     Lifecycle!GateOf, GateOf, Lifecycle!Move, Move, Lifecycle!CloseModel, CloseModel,
     Lifecycle!CloseTool, CloseTool
<1>3. Lifecycle!Acceptable(s, e) <=> Acceptable(s, e)
  BY <1>1 DEF Lifecycle!Acceptable, Acceptable, Lifecycle!Conflicting, Conflicting,
     Lifecycle!Redelivered, Redelivered
<1>4. Lifecycle!Applied(s, e) = Applied(s, e)
  BY <1>2 DEF Lifecycle!Applied, Applied
<1> QED BY <1>3, <1>4

LEMMA LifecycleAssumptions == Lifecycle!NoneAssumption /\ Lifecycle!LifecycleAssumption
BY NoneAssumption, RuntimeAssumption
   DEF Lifecycle!NoneAssumption, Lifecycle!LifecycleAssumption, Lifecycle!GateModes, GateModes

LifecycleInv == run # Rejected => Lifecycle!LInv

LEMMA InitialLifecycle == Init => LifecycleInv
<1> SUFFICES ASSUME Init PROVE Lifecycle!LInv
  BY DEF LifecycleInv
<1>1. Good(run) /\ run.status = "ready" /\ run.turn = 0 /\ run.next = Len(log) + 1
  BY StartedRun
<1>2. Lifecycle!Good(run)
  BY <1>1, SameGood
<1>3. log \in Seq({Created, Started}) /\ Len(log) = 2 /\ log[1] = Created /\ log[2] = Started
  BY DEF Init
<1>4. Lifecycle!IsSequence(log)
  BY <1>3 DEF Lifecycle!IsSequence
<1>5. Lifecycle!SequenceIsDense
  BY <1>1, <1>3 DEF Lifecycle!SequenceIsDense, Created, Started
<1>6. \A i \in 1..Len(log) : log[i].type \in Lifecycle!RunTypes
  BY <1>3 DEF Lifecycle!RunTypes, Created, Started
<1> QED BY <1>1, <1>2, <1>4, <1>5, <1>6, LifecycleAssumptions, Lifecycle!FreshKeeps

\* The log grows by what a process stores, and by nothing else.
LEMMA OnlyStoreStores ==
    ASSUME [Next]_vars
    PROVE  UNCHANGED stored \/ \E c \in Callers : Store(c)
<1>1. ASSUME NEW c \in Callers, Begin(c) PROVE UNCHANGED stored
  BY <1>1 DEF Begin, stored, Submit, Reject, Approve, Revise, Answer, Recover, VerifyRun, VerifyStep
<1>2. ASSUME NEW c \in Callers, Run(c), ~Store(c) PROVE UNCHANGED stored
  BY <1>2 DEF Run, stored, Read, ReadRejected, StoreRedelivered, StoreRefused, Confirm,
     AuthorizeRaises, ConfirmRejected, Execute, ExecutorSteps, ExecutorReturns, ExecutorRaises
<1>3. ASSUME NEW c \in Callers, Crash(c) \/ \E p \in Policies : ChangePolicy(c, p)
      PROVE  UNCHANGED stored
  BY <1>3 DEF Crash, ChangePolicy, stored
<1>4. UNCHANGED vars => UNCHANGED stored
  BY DEF vars, stored
<1> QED BY <1>1, <1>2, <1>3, <1>4 DEF Next

LEMMA StoreLifecycle ==
    ASSUME BaseInv, OutcomeInv, ReleaseInv, LifecycleInv, NEW c \in Callers, Store(c)
    PROVE  LifecycleInv'
<1> DEFINE e == caller[c].event
<1> SUFFICES ASSUME run' # Rejected PROVE Lifecycle!LInv'
  BY DEF LifecycleInv
<1>1. /\ log' = Append(log, e) /\ run' = ReplayStep(run, e) /\ caller[c].at = "append"
      /\ e.seq = Len(log) + 1
  BY DEF Store, InSequence
<1>2. EventType(e) /\ Len(log) \in Nat
  BY <1>1, AppendFacts DEF BaseInv, Framed
<1>3. run # Rejected /\ Legal(run, e) /\ run' = Reduce(run, e)
  BY <1>1 DEF ReplayStep
<1>4. ~Redelivered(run, e)
  BY <1>1, <1>2, <1>3 DEF ReleaseInv, Consumed, Redelivered
<1>5. Acceptable(run, e) /\ run' = Applied(run, e)
  BY <1>3, <1>4 DEF Legal, Reduce
<1> HIDE DEF e
<1>6. Lifecycle!Takes(e)
  BY <1>1, <1>2, <1>5, SameEvents, SameReducer DEF Lifecycle!Takes
<1>7. Lifecycle!LInv
  BY <1>3 DEF LifecycleInv
<1> QED BY <1>6, <1>7, LifecycleAssumptions, Lifecycle!TakenKeeps

LEMMA LifecycleInvariant == Spec => []LifecycleInv
<1>1. RInv /\ OutcomeInv /\ ReleaseInv /\ LifecycleInv /\ [Next]_vars => LifecycleInv'
  <2> SUFFICES ASSUME RInv, OutcomeInv, ReleaseInv, LifecycleInv, [Next]_vars PROVE LifecycleInv'
    OBVIOUS
  <2>1. CASE UNCHANGED stored
    <3>1. UNCHANGED Lifecycle!vars
      BY <2>1 DEF stored, Lifecycle!vars
    <3> QED BY <2>1, <3>1, LifecycleAssumptions, Lifecycle!StillKeeps DEF LifecycleInv, stored
  <2> QED BY <2>1, OnlyStoreStores, StoreLifecycle DEF RInv
<1>2. Init => OutcomeInv
  BY OutcomeInit
<1>3. RInv /\ OutcomeInv /\ [Next]_vars => OutcomeInv'
  BY OutcomeStep
<1> QED BY <1>1, <1>2, <1>3, InitialLifecycle, RuntimeInvariant, ReleaseInvariant, PTL DEF Spec

\* Whatever processes do to each other, a log that replays has all that RunLifecycle says
\* of one: starts under the latest decision, turns with evidence, budgets, answers within
\* their limit, dense numbers.
THEOREM LifecycleCorrect == Spec => [](LogReplays => Lifecycle!Guarantees)
<1>1. LifecycleInv => (LogReplays => Lifecycle!Guarantees)
  BY LifecycleAssumptions, Lifecycle!Guaranteed DEF LifecycleInv, LogReplays
<1> QED BY <1>1, LifecycleInvariant, PTL

-----------------------------------------------------------------------------
(* With one process that looks before it submits, no proposal has two      *)
(* successors.  A digest binds its request, hence its step, and its        *)
(* revision: what was revised lies behind the step and revision the run is *)
(* at.                                                                     *)

StepOf(digest) == digest[1].step
RevisionOf(digest) == digest[3]

LEMMA DigestParts ==
    ASSUME NEW r, NEW mode, NEW n
    PROVE  StepOf(Digest(r, mode, n)) = r.step /\ RevisionOf(Digest(r, mode, n)) = n
BY DEF Digest, StepOf, RevisionOf

\* The run s is past revision n of the proposals of its step.
Past(s, n) ==
    /\ s.status \notin {"ready", "tool_pending"}
    /\ s.status = "awaiting_gate" => n < s.gate.revision

\* The step in flight is the next one, and a waiting gate is about it.
StepFits(s) ==
    /\ s.status \in ToolStatuses \cup {"verifying"} => s.step = s.turn + 1
    /\ s.status = "awaiting_gate" =>
            StepOf(s.gate.digest) = s.step /\ RevisionOf(s.gate.digest) = s.gate.revision

RevisedAt(l, i) == i \in 1..Len(l) /\ l[i].type = "gate.revised"

RevisionsPast(l, s) ==
    /\ \A i : RevisedAt(l, i) =>
        LET d == l[i].previousDigest
        IN  /\ StepOf(d) \in Nat /\ RevisionOf(d) \in Nat
            /\ StepOf(d) <= s.turn + 1
            /\ StepOf(d) = s.turn + 1 => Past(s, RevisionOf(d))
    /\ \A i, j : RevisedAt(l, i) /\ RevisedAt(l, j) /\ l[i].previousDigest = l[j].previousDigest
                    => i = j

\* A frame is about the step the run s is at.
FrameFits(s, f) ==
    /\ f.at \in {"read", "append"} =>
        /\ f.event.type = "tool.requested" => s.status = "ready" /\ f.request.step = s.turn + 1
        /\ f.event.type \in {"tool.escalated", "gate.revised"} => f.request.step = s.step
        /\ f.event.type = "gate.revised" =>
                /\ "previousDigest" \in DOMAIN f.event
                /\ f.event.previousDigest = s.gate.digest
                /\ f.event.revision = s.gate.revision + 1
    /\ f.at = "confirm" /\ f.event.type = "tool.requested" => f.request.step = s.step

RevisedInv ==
    StepFits(run) /\ RevisionsPast(log, run) /\ \A c \in Callers : FrameFits(run, caller[c])

\* An operation's event leaves the turn, or ends it and makes the run ready.
LEMMA OperationTurns ==
    ASSUME NEW s, NEW e, Good(s), EventType(e), Guard(s, e), e.type \in OperationTypes
    PROVE  LET t == Effect(s, e)
           IN  \/ t.turn = s.turn /\ t.status # "ready"
               \/ t.turn = s.turn + 1 /\ t.status = "ready"
<1>0. DOMAIN s = DOMAIN InitialRun
  BY DEF Good, RunType
<1>1. CASE e.type \in ToolTypes
  <2>1. Effect(s, e) = ToolEffect(s, e)
    BY <1>1, Families
  <2> QED BY <1>0, <1>1, <2>1, Domain DEF ToolEffect, ToolTypes, CloseTool, Move
<1>2. CASE e.type \in GateTypes
  <2>1. Effect(s, e) = GateEffect(s, e) /\ GateGuard(s, e)
    BY <1>2, Families
  <2>2. s.status # "ready"
    BY <1>2, <2>1 DEF GateGuard, GateTypes
  <2>3. GateEffect(s, e).turn = s.turn /\ GateEffect(s, e).status # "ready"
    BY <1>0, <1>2, <2>2, Domain DEF GateEffect, GateTypes, CloseTool
  <2> QED BY <2>1, <2>3
<1>3. CASE e.type \in VerificationTypes
  <2>1. Effect(s, e) = VerificationEffect(s, e)
    BY <1>3, Families
  <2> QED BY <1>0, <1>3, <2>1, Domain DEF VerificationEffect, VerificationTypes, EventType
<1> QED BY <1>1, <1>2, <1>3 DEF OperationTypes

\* The request a waiting gate's call is loaded with is that of the step in flight.
LEMMA LatestRequest ==
    ASSUME LifecycleInv, run # Rejected, run.status = "awaiting_gate"
    PROVE  RequestOf(run.call).step = run.step
<1> DEFINE P(i) == /\ log[i].type = "tool.requested" /\ log[i].call = run.call
                   /\ \A j \in i+1..Len(log) :
                          log[j].type = "tool.requested" => log[j].call # run.call
           last == CHOOSE i \in 1..Len(log) : P(i)
<1>1. PICK r \in 1..Len(log) : Lifecycle!RequestAt(log, Len(log), r, run.call, run.step)
  BY DEF LifecycleInv, Lifecycle!LInv, Lifecycle!RecordInv, Lifecycle!CallHistory
<1>2. /\ log[r].type = "tool.requested" /\ log[r].call = run.call /\ log[r].step = run.step
      /\ \A j \in r+1..Len(log) : log[j].type # "tool.requested"
  BY <1>1 DEF Lifecycle!RequestAt
<1>3. P(r)
  BY <1>2
<1>4. last \in 1..Len(log) /\ P(last)
  BY <1>3
<1>5. RequestOf(run.call).step = log[last].step
  BY DEF RequestOf
<1> HIDE DEF last
<1>6. last = r
  <2>1. last \notin r+1..Len(log) /\ r \notin last+1..Len(log)
    BY <1>2, <1>4
  <2>2. Len(log) \in Nat
    BY <1>1 DEF LifecycleInv, Lifecycle!LInv, Lifecycle!IInv, Lifecycle!HistoryInv,
       Lifecycle!SequenceIsDense, Lifecycle!Good, Lifecycle!RunType
  <2> QED BY <1>4, <2>1, <2>2
<1> QED BY <1>2, <1>5, <1>6

LEMMA IdleFits == \A s : FrameFits(s, Idle)
BY DEF FrameFits, Idle

\* The only process replaces its frame by one that fits.
LEMMA OnlyFrameFits ==
    ASSUME BaseInv, RevisedInv, NEW c \in Callers, Callers = {c}, NEW f, FrameFits(run, f),
           caller' = [caller EXCEPT ![c] = f], UNCHANGED <<log, run>>
    PROVE  RevisedInv'
<1>1. \A d \in Callers : caller'[d] = f
  BY DEF BaseInv
<1>2. log' = log /\ run' = run
  OBVIOUS
<1> QED BY <1>1, <1>2 DEF RevisedInv

\* An operation that goes on to append an event of another kind.
LEMMA OtherFits ==
    ASSUME NEW s, NEW e, NEW r, e.type \notin {"tool.requested", "tool.escalated", "gate.revised"}
    PROVE  FrameFits(s, Appending(e, r))
BY DEF FrameFits, Appending

LEMMA BeginFits ==
    ASSUME BaseInv, RevisedInv, LifecycleInv, NEW c \in Callers, Callers = {c}, Disciplined,
           Begin(c)
    PROVE  RevisedInv'
<1> USE DEF stored
<1>1. ASSUME NEW call \in Calls, NEW content \in Contents, NEW step \in 1..MaxEvents,
             Submit(c, call, content, step)
      PROVE  RevisedInv'
  <2> DEFINE r == [call |-> call, content |-> content, step |-> step]
             e == [type |-> "tool.requested", call |-> call, content |-> content,
                   step |-> step, action |-> 0]
  <2>1. run.status = "ready" /\ step = run.turn + 1 /\ UNCHANGED <<log, run>>
        /\ caller' = [caller EXCEPT ![c] = Appending(e, r)]
    BY <1>1 DEF Submit, Going
  <2>2. FrameFits(run, Appending(e, r))
    BY <2>1 DEF FrameFits, Appending
  <2> QED BY <2>1, <2>2, OnlyFrameFits
<1>2. ASSUME NEW reference, Revise(c, reference)
      PROVE  RevisedInv'
  <2> DEFINE r == RequestOf(reference.call)
             revision == reference.revision + 1
             e == [type |-> "gate.revised", call |-> reference.call,
                   previousDigest |-> reference.digest,
                   previousRevision |-> reference.revision,
                   digest |-> Digest(r, policy[c], revision), revision |-> revision,
                   mode |-> policy[c], max |-> AttemptLimit]
  <2>1. Matches(run, reference) /\ run # Rejected /\ UNCHANGED <<log, run>>
        /\ caller' = [caller EXCEPT ![c] = Appending(e, r)]
    BY <1>2 DEF Revise, Going, Proposal, NextRevision, CanBegin
  <2>2. /\ run.status = "awaiting_gate" /\ reference.call = run.call
        /\ reference.digest = run.gate.digest /\ reference.revision = run.gate.revision
    BY <2>1 DEF Matches
  <2>3. r.step = run.step
    BY <2>1, <2>2, LatestRequest
  <2>4. e.type = "gate.revised" /\ "previousDigest" \in DOMAIN e
        /\ e.previousDigest = run.gate.digest /\ e.revision = run.gate.revision + 1
    BY <2>2
  <2> HIDE DEF e, r
  <2>5. FrameFits(run, Appending(e, r))
    BY <2>3, <2>4 DEF FrameFits, Appending
  <2> QED BY <2>1, <2>5, OnlyFrameFits
<1>3. ASSUME NEW e, NEW r, Going(c, e, r), UNCHANGED <<log, run>>,
             e.type \notin {"tool.requested", "tool.escalated", "gate.revised"}
      PROVE  RevisedInv'
  BY <1>3, OtherFits, OnlyFrameFits DEF Going
<1>4. ASSUME NEW reference, \/ Reject(c, reference) \/ Approve(c, reference)
                            \/ \E outcome \in {"pass", "retry", "block"} :
                                    Answer(c, reference, outcome)
      PROVE  RevisedInv'
  <2>1. \E e : /\ Going(c, e, RequestOf(reference.call)) /\ UNCHANGED <<log, run>>
               /\ e.type \in {"gate.rejected", "gate.approved", "gate.evaluated"}
    BY <1>4 DEF Reject, Approve, Answer
  <2> QED BY <1>3, <2>1
<1>5. CASE Recover(c)
  <2> DEFINE r == RequestOf(run.call)
             g == [at |-> "execute", event |-> None, request |-> r]
  <2>1. UNCHANGED <<log, run>>
    BY <1>5 DEF Recover
  <2>2. CASE Going(c, ToolEvent("tool.started", r), r)
    BY <1>3, <2>1, <2>2 DEF ToolEvent
  <2>3. CASE caller' = [caller EXCEPT ![c] = g]
    <3>1. FrameFits(run, g)
      BY DEF FrameFits
    <3> QED BY <2>1, <2>3, <3>1, OnlyFrameFits
  <2> QED BY <1>5, <2>2, <2>3 DEF Recover
<1>6. CASE VerifyStep(c) \/ \E type \in VerificationTypes : VerifyRun(c, type)
  <2>1. \E e : /\ Going(c, e, None) /\ UNCHANGED <<log, run>> /\ e.type \in VerificationTypes
    BY <1>6 DEF VerifyRun, VerifyStep, VerificationTypes
  <2> QED BY <1>3, <2>1 DEF VerificationTypes
<1> QED BY <1>1, <1>2, <1>4, <1>5, <1>6 DEF Begin

\* What is stored moves the run past what it revises.
LEMMA StoreFits ==
    ASSUME BaseInv, ReplayInv, RevisedInv, NEW c \in Callers, Callers = {c}, Store(c)
    PROVE  RevisedInv'
<1> DEFINE e == caller[c].event
           f == caller[c]
           t == Effect(run, e)
<1>1. /\ log' = Append(log, e) /\ run' = ReplayStep(run, e)
      /\ caller' = [caller EXCEPT ![c].at = "confirm"] /\ f.at = "append"
  BY DEF Store
<1>2. /\ Framed(log, f) /\ EventType(e) /\ Payload(e, f.request)
      /\ IsSequence(log) /\ e.type \in OperationTypes
  BY <1>1 DEF BaseInv, Framed, Numbering, Payload
<1>3. /\ Takes(run, e) /\ e.seq = run.next /\ e.id = run.next
      /\ Good(run) /\ run.next \in Nat
      /\ \A d \in run.applied : d.id \in Nat /\ d.id < run.next
  BY <1>1 DEF ReplayInv, Agrees, Current, Good, RunType
<1>4. ~Redelivered(run, e) /\ Acceptable(run, e)
  BY <1>3 DEF Redelivered, Conflicting, Acceptable, Takes
<1>5. run' = Applied(run, e)
  BY <1>1, <1>3, <1>4, GoodIsNotRejected DEF ReplayStep, Reduce, Legal
<1>6. Good(t) /\ MovesCall(run, e, t)
  BY <1>2, <1>3, <1>4, EffectGood, CallMoves
<1>7. /\ run'.status = t.status /\ run'.turn = t.turn /\ run'.step = t.step
      /\ run'.call = t.call /\ run'.gate = t.gate
  BY <1>3, <1>5, <1>6, AppliedGood
<1>8. \/ t.turn = run.turn /\ t.status # "ready"
      \/ t.turn = run.turn + 1 /\ t.status = "ready"
  BY <1>2, <1>3, OperationTurns DEF Takes
<1>9. /\ Len(log) \in Nat /\ Len(log') = Len(log) + 1 /\ log'[Len(log) + 1] = e
      /\ \A i \in 1..Len(log) : log'[i] = log[i]
  BY <1>1, <1>2, AppendFacts
<1>10. /\ run.turn \in Nat /\ run.step \in Nat
       /\ run.status = "awaiting_gate" => run.gate.revision \in Nat
  BY <1>3 DEF Good, RunType, FieldsMatchStatus, Gate
<1>11. FrameFits(run, f) /\ StepFits(run) /\ RevisionsPast(log, run)
  BY DEF RevisedInv
<1>12. /\ e.type = "tool.requested" =>
              run.status = "ready" /\ e.step = run.turn + 1 /\ e.step = f.request.step
       /\ e.type \in {"tool.escalated", "gate.revised"} =>
              StepOf(e.digest) = run.step /\ RevisionOf(e.digest) = e.revision
       /\ e.type = "gate.revised" =>
              e.previousDigest = run.gate.digest /\ e.revision = run.gate.revision + 1
  BY <1>1, <1>2, <1>11, DigestParts DEF FrameFits, Payload
<1> HIDE DEF t, e
<1>13. StepFits(t)
  BY <1>6, <1>8, <1>10, <1>11, <1>12
     DEF MovesCall, StepFits, KeepsCall, GateOpened, ToolStatuses
<1>14. ASSUME NEW n \in Nat, t.turn = run.turn, Past(run, n)
       PROVE  Past(t, n)
  BY <1>6, <1>8, <1>10, <1>12, <1>14 DEF MovesCall, Past, KeepsCall, GateOpened, ToolStatuses
<1>15. ASSUME NEW i, RevisedAt(log', i)
       PROVE  \/ RevisedAt(log, i) /\ log'[i] = log[i]
              \/ i = Len(log) + 1 /\ e.type = "gate.revised" /\ log'[i] = e
  BY <1>9, <1>15 DEF RevisedAt
<1>16. e.type = "gate.revised" =>
          /\ run.status = "awaiting_gate" /\ t.status = "awaiting_gate" /\ t.turn = run.turn
          /\ t.gate.revision = run.gate.revision + 1
          /\ StepOf(e.previousDigest) = run.turn + 1
          /\ RevisionOf(e.previousDigest) = run.gate.revision
  BY <1>6, <1>8, <1>11, <1>12
     DEF MovesCall, GateOpened, CallEvents, GateTypes, StepFits, ToolStatuses
<1>17. RevisionsPast(log', t)
  <2>1. ASSUME NEW i, RevisedAt(log', i)
        PROVE  LET d == log'[i].previousDigest
               IN  /\ StepOf(d) \in Nat /\ RevisionOf(d) \in Nat
                   /\ StepOf(d) <= t.turn + 1
                   /\ StepOf(d) = t.turn + 1 => Past(t, RevisionOf(d))
    <3> DEFINE d == log'[i].previousDigest
    <3>1. CASE RevisedAt(log, i) /\ log'[i] = log[i]
      <4>1. /\ StepOf(d) \in Nat /\ RevisionOf(d) \in Nat /\ StepOf(d) <= run.turn + 1
            /\ StepOf(d) = run.turn + 1 => Past(run, RevisionOf(d))
        BY <1>11, <3>1 DEF RevisionsPast
      <4> HIDE DEF d
      <4>2. StepOf(d) <= t.turn + 1
        BY <1>8, <1>10, <4>1
      <4>3. StepOf(d) = t.turn + 1 => t.turn = run.turn
        BY <1>8, <1>10, <4>1
      <4>4. StepOf(d) = t.turn + 1 => Past(t, RevisionOf(d))
        BY <1>14, <4>1, <4>3
      <4> QED BY <4>1, <4>2, <4>4 DEF d
    <3>2. CASE e.type = "gate.revised" /\ log'[i] = e
      BY <1>10, <1>16, <3>2 DEF Past
    <3> QED BY <1>15, <2>1, <3>1, <3>2
  <2>2. ASSUME NEW i, RevisedAt(log, i), e.type = "gate.revised",
               log[i].previousDigest = e.previousDigest
        PROVE  FALSE
    <3>1. Past(run, run.gate.revision)
      BY <1>11, <1>16, <2>2 DEF RevisionsPast
    <3> QED BY <1>10, <1>16, <2>2, <3>1 DEF Past
  <2>3. ASSUME NEW i, NEW j, RevisedAt(log', i), RevisedAt(log', j),
               log'[i].previousDigest = log'[j].previousDigest
        PROVE  i = j
    <3>1. /\ \/ RevisedAt(log, i) /\ log'[i] = log[i]
             \/ i = Len(log) + 1 /\ e.type = "gate.revised" /\ log'[i] = e
          /\ \/ RevisedAt(log, j) /\ log'[j] = log[j]
             \/ j = Len(log) + 1 /\ e.type = "gate.revised" /\ log'[j] = e
      BY <1>15, <2>3
    <3>2. CASE RevisedAt(log, i) /\ RevisedAt(log, j) /\ log'[i] = log[i] /\ log'[j] = log[j]
      BY <1>11, <2>3, <3>2 DEF RevisionsPast
    <3> QED BY <2>2, <2>3, <3>1, <3>2
  <2> QED BY <2>1, <2>3 DEF RevisionsPast
<1>18. FrameFits(t, caller'[c])
  <2>1. caller'[c].at = "confirm" /\ caller'[c].event = e /\ caller'[c].request = f.request
    BY <1>1, <1>2 DEF BaseInv, Framed, e
  <2>2. e.type = "tool.requested" => t.step = e.step
    BY <1>6 DEF MovesCall, CallEvents, ToolTypes, KeepsCall
  <2> QED BY <1>12, <2>1, <2>2 DEF FrameFits
<1> QED BY <1>7, <1>13, <1>17, <1>18 DEF RevisedInv, StepFits, RevisionsPast, Past, FrameFits

LEMMA ConfirmFits ==
    ASSUME BaseInv, RevisedInv, NEW c \in Callers, Callers = {c}, Confirm(c)
    PROVE  RevisedInv'
<1> DEFINE f == caller[c]
           e == f.event
           r == f.request
<1> USE DEF stored
<1>1. f.at = "confirm" /\ UNCHANGED <<log, run>> /\ Framed(log, f) /\ FrameFits(run, f)
  BY DEF Confirm, BaseInv, RevisedInv
<1>2. CASE e.type = "tool.requested" /\ Going(c, Decision(c, r), r)
  <2> DEFINE d == Decision(c, r)
  <2>1. r.step = run.step
    BY <1>1, <1>2 DEF FrameFits
  <2>2. d.type \in {"tool.denied", "tool.authorized", "tool.escalated"}
    BY DEF Decision, ToolEvent, Proposal
  <2> HIDE DEF d
  <2>3. FrameFits(run, Appending(d, r))
    BY <2>1, <2>2 DEF FrameFits, Appending
  <2> QED BY <1>1, <1>2, <2>3, OnlyFrameFits DEF Going, d
<1>3. CASE Going(c, ToolEvent("tool.started", r), r)
  <2>1. FrameFits(run, Appending(ToolEvent("tool.started", r), r))
    BY OtherFits DEF ToolEvent
  <2> QED BY <1>1, <1>3, <2>1, OnlyFrameFits DEF Going
<1>4. CASE caller' = [caller EXCEPT ![c].at = "execute"]
  <2> DEFINE g == [f EXCEPT !.at = "execute"]
  <2>1. g.at = "execute" /\ caller' = [caller EXCEPT ![c] = g]
    BY <1>1, <1>4 DEF Framed
  <2> HIDE DEF g
  <2>2. FrameFits(run, g)
    BY <2>1 DEF FrameFits
  <2> QED BY <1>1, <2>1, <2>2, OnlyFrameFits
<1>5. CASE Leave(c)
  BY <1>1, <1>5, IdleFits, OnlyFrameFits DEF Leave
<1> QED BY <1>2, <1>3, <1>4, <1>5 DEF Confirm

LEMMA RunFits ==
    ASSUME BaseInv, Linked, ReplayInv, RevisedInv, NEW c \in Callers, Callers = {c}, Run(c)
    PROVE  RevisedInv'
<1> USE DEF stored
<1> DEFINE f == caller[c]
<1>0. Framed(log, f) /\ FrameFits(run, f)
  BY DEF BaseInv, RevisedInv
<1>1. CASE Read(c)
  <2> DEFINE m == Numbered(f.event, run.next)
             g == [f EXCEPT !.at = "append", !.event = Numbered(@, run.next)]
  <2>1. caller' = [caller EXCEPT ![c] = g] /\ UNCHANGED <<log, run>> /\ f.at = "read"
    BY <1>1 DEF Read
  <2>2. g.at = "append" /\ g.event = m /\ g.request = f.request
    BY <1>0 DEF Framed
  <2>3. Payload(f.event, f.request)
    BY <1>0, <2>1 DEF Framed, Numbering
  <2>4. \A field \in DOMAIN f.event \ {"id", "seq"} : field \in DOMAIN m /\ m[field] = f.event[field]
    BY DEF Numbered
  <2> HIDE DEF g, m
  <2>5. m.type = f.event.type
    BY <2>3, <2>4 DEF Payload
  <2>6. m.type = "gate.revised" => m.revision = f.event.revision
    BY <2>3, <2>4, <2>5 DEF Payload
  <2>7. "previousDigest" \in DOMAIN f.event =>
            "previousDigest" \in DOMAIN m /\ m.previousDigest = f.event.previousDigest
    BY <2>4
  <2>8. FrameFits(run, g)
    BY <1>0, <2>1, <2>2, <2>5, <2>6, <2>7 DEF FrameFits
  <2> QED BY <2>1, <2>8, OnlyFrameFits
<1>2. CASE ReadRejected(c) \/ StoreRefused(c) \/ AuthorizeRaises(c)
                  \/ ConfirmRejected(c) \/ ExecutorRaises(c)
  BY <1>2, IdleFits, OnlyFrameFits
     DEF ReadRejected, StoreRefused, AuthorizeRaises, ConfirmRejected, ExecutorRaises, Leave
<1>3. CASE Store(c)
  BY <1>3, StoreFits
<1>4. CASE StoreRedelivered(c)
  <2>1. f.event.seq <= Len(log) /\ f.event.seq = Len(log) + 1
    BY <1>4 DEF StoreRedelivered, Known, ReplayInv, Agrees, Current
  <2>2. Len(log) \in Nat
    BY AppendFacts DEF BaseInv
  <2> QED BY <2>1, <2>2
<1>5. CASE Confirm(c)
  BY <1>5, ConfirmFits
<1>6. CASE Execute(c)
  <2> DEFINE g == [f EXCEPT !.at = "executing"]
  <2>1. caller' = [caller EXCEPT ![c] = g] /\ UNCHANGED <<log, run>>
    BY <1>6 DEF Execute
  <2>2. g.at = "executing"
    BY <1>0 DEF Framed
  <2> HIDE DEF g
  <2>3. FrameFits(run, g)
    BY <2>2 DEF FrameFits
  <2> QED BY <2>1, <2>3, OnlyFrameFits
<1>7. CASE ExecutorSteps(c)
  BY <1>7 DEF ExecutorSteps, RevisedInv
<1>8. CASE ExecutorReturns(c)
  <2> DEFINE e == OutcomeEvent(receipts'[f.request.call], f.request)
  <2>1. caller' = [caller EXCEPT ![c] = Appending(e, f.request)] /\ UNCHANGED <<log, run>>
    BY <1>8 DEF ExecutorReturns, Going
  <2>2. receipts'[f.request.call] \in Outcomes
    BY <1>8, ExecutorResult, RuntimeAssumption
  <2>3. e.type \in {"tool.succeeded", "tool.failed", "tool.timed_out"}
    BY <2>2 DEF OutcomeEvent, ToolEvent, Outcomes
  <2> HIDE DEF e
  <2>4. FrameFits(run, Appending(e, f.request))
    BY <2>3, OtherFits
  <2> QED BY <2>1, <2>4, OnlyFrameFits
<1> QED BY <1>1, <1>2, <1>3, <1>4, <1>5, <1>6, <1>7, <1>8 DEF Run

LEMMA InitialFits == Init => RevisedInv
<1> SUFFICES ASSUME Init PROVE RevisedInv
  OBVIOUS
<1>1. run.status = "ready"
  BY StartedRun
<1>2. \A i : ~RevisedAt(log, i)
  <2>1. Len(log) = 2 /\ log[1] = Created /\ log[2] = Started
    BY DEF Init
  <2>2. \A i \in 1..Len(log) : log[i].type # "gate.revised"
    BY <2>1 DEF Created, Started
  <2> QED BY <2>2 DEF RevisedAt
<1>3. \A c \in Callers : FrameFits(run, caller[c])
  BY IdleFits DEF Init
<1> QED BY <1>1, <1>2, <1>3 DEF RevisedInv, StepFits, RevisionsPast, ToolStatuses

LEMMA RevisedStep ==
    ASSUME SingleCaller, Disciplined, RInv, ReplayInv, LifecycleInv, RevisedInv, [Next]_vars
    PROVE  RevisedInv'
<1>1. CASE UNCHANGED vars
  BY <1>1 DEF vars, RevisedInv
<1>2. ASSUME NEW c \in Callers, Callers = {c}, Crash(c) PROVE RevisedInv'
  BY <1>2, IdleFits, OnlyFrameFits DEF Crash, Leave, stored, RInv
<1>3. ASSUME NEW c \in Callers, NEW p \in Policies, ChangePolicy(c, p) PROVE RevisedInv'
  BY <1>3 DEF ChangePolicy, RevisedInv, stored
<1>4. \A c \in Callers : Callers = {c}
  BY DEF SingleCaller
<1> QED BY <1>1, <1>2, <1>3, <1>4, BeginFits, RunFits DEF Next, RInv

\* One process that looks before it submits never gives a proposal two successors, whatever
\* it revises, releases and begins again: the second revision runtime_concurrent_revision
\* finds needs a second process.
THEOREM RevisedOnceCorrect ==
    ASSUME SingleCaller, Disciplined
    PROVE  Spec => []RevisedOnce
<1>1. Init => ReplayInv /\ RevisedInv
  BY InitialReplays, InitialFits
<1>2. RInv /\ LifecycleInv /\ ReplayInv /\ RevisedInv /\ [Next]_vars => ReplayInv' /\ RevisedInv'
  BY ReplayStepInv, RevisedStep
<1>3. RevisedInv => RevisedOnce
  BY DEF RevisedInv, RevisionsPast, RevisedAt, RevisedOnce
<1> QED BY <1>1, <1>2, <1>3, RuntimeInvariant, LifecycleInvariant, PTL DEF Spec

-----------------------------------------------------------------------------
(* What is released, and under which policy.                               *)

\* The release a frame holds is one the policy p makes of the frame's request.
Sanctioned(p, f) ==
    f.at \in {"read", "append"} /\ Releases(f.event) =>
        \/ p = "allow"
        \/ /\ p \in GateModes /\ f.event.type # "tool.authorized"
           /\ {"digest", "revision"} \subseteq DOMAIN f.event
           /\ f.event.digest = Digest(f.request, p, f.event.revision)

\* The policy of a process cannot change while the process holds a release.
SanctionInv == \A c \in Callers : Sanctioned(policy[c], caller[c])

LEMMA SanctionedFrame ==
    ASSUME BaseInv, SanctionInv, policy' = policy, NEW c \in Callers, NEW f,
           caller' = [caller EXCEPT ![c] = f], Sanctioned(policy[c], f)
    PROVE  SanctionInv'
BY DEF SanctionInv, BaseInv

LEMMA SanctionedOther ==
    /\ \A p : Sanctioned(p, Idle)
    /\ \A p, e, r : ~Releases(e) => Sanctioned(p, Appending(e, r))
    /\ \A p, f : f.at \notin {"read", "append"} => Sanctioned(p, f)
BY DEF Sanctioned, Idle, Appending

LEMMA BeginSanctioned ==
    ASSUME BaseInv, SanctionInv, NEW c \in Callers, Begin(c)
    PROVE  SanctionInv'
<1> USE DEF stored
<1>1. ASSUME NEW e, NEW r, Going(c, e, r), ~Releases(e), policy' = policy PROVE SanctionInv'
  BY <1>1, SanctionedOther, SanctionedFrame DEF Going
<1>2. ASSUME NEW call \in Calls, NEW content \in Contents, NEW step \in 1..MaxEvents,
             Submit(c, call, content, step)
      PROVE  SanctionInv'
  BY <1>1, <1>2 DEF Submit, Releases
<1>3. ASSUME NEW reference \in References, Reject(c, reference) PROVE SanctionInv'
  BY <1>1, <1>3 DEF Reject, Releases
<1>4. ASSUME NEW reference \in References, Approve(c, reference) PROVE SanctionInv'
  <2> DEFINE e == [type |-> "gate.approved", call |-> reference.call,
                   digest |-> reference.digest, revision |-> reference.revision]
             r == RequestOf(reference.call)
  <2>1. caller' = [caller EXCEPT ![c] = Appending(e, r)] /\ policy' = policy
        /\ StillAllowed(c, r, reference)
    BY <1>4 DEF Approve, Going
  <2>2. Sanctioned(policy[c], Appending(e, r))
    BY <2>1 DEF StillAllowed, Sanctioned, Appending
  <2> QED BY <2>1, <2>2, SanctionedFrame
<1>5. ASSUME NEW reference \in References, Revise(c, reference) PROVE SanctionInv'
  BY <1>1, <1>5 DEF Revise, Releases
<1>6. ASSUME NEW reference \in References, NEW outcome \in {"pass", "retry", "block"},
             Answer(c, reference, outcome)
      PROVE  SanctionInv'
  <2> DEFINE attempt == run.gate.attempts + 1
             e == [type |-> "gate.evaluated", call |-> reference.call,
                   digest |-> reference.digest, revision |-> reference.revision,
                   attempt |-> attempt, max |-> run.gate.max,
                   outcome |-> Verdict(attempt, run.gate.max, outcome)]
             r == RequestOf(reference.call)
  <2>1. caller' = [caller EXCEPT ![c] = Appending(e, r)] /\ policy' = policy
        /\ StillAllowed(c, r, reference)
    BY <1>6 DEF Answer, Going
  <2>2. Sanctioned(policy[c], Appending(e, r))
    BY <2>1 DEF StillAllowed, Sanctioned, Appending
  <2> QED BY <2>1, <2>2, SanctionedFrame
<1>7. CASE Recover(c)
  <2>1. CASE Going(c, ToolEvent("tool.started", RequestOf(run.call)), RequestOf(run.call))
    BY <1>1, <1>7, <2>1 DEF Recover, Releases, ToolEvent
  <2> DEFINE g == [at |-> "execute", event |-> None, request |-> RequestOf(run.call)]
  <2>2. CASE caller' = [caller EXCEPT ![c] = g]
    <3>1. Sanctioned(policy[c], g) /\ policy' = policy
      BY <1>7 DEF Recover, Sanctioned
    <3> HIDE DEF g
    <3> QED BY <2>2, <3>1, SanctionedFrame
  <2> QED BY <1>7, <2>1, <2>2 DEF Recover
<1>8. ASSUME NEW type \in VerificationTypes, VerifyRun(c, type) PROVE SanctionInv'
  BY <1>1, <1>8 DEF VerifyRun, Releases, VerificationTypes
<1>9. CASE VerifyStep(c)
  BY <1>1, <1>9 DEF VerifyStep, Releases
<1> QED BY <1>2, <1>3, <1>4, <1>5, <1>6, <1>7, <1>8, <1>9 DEF Begin

LEMMA RunSanctioned ==
    ASSUME RInv, SanctionInv, NEW c \in Callers, Run(c)
    PROVE  SanctionInv'
<1> USE DEF stored
<1>0. BaseInv /\ Linked /\ Framed(log, caller[c]) /\ Sanctioned(policy[c], caller[c])
  BY DEF RInv, BaseInv, SanctionInv
<1>1. CASE Read(c)
  <2> DEFINE e == caller[c].event
             m == Numbered(e, run.next)
             g == [caller[c] EXCEPT !.at = "append", !.event = m]
  <2>1. caller' = [caller EXCEPT ![c] = g] /\ policy' = policy /\ caller[c].at = "read"
    BY <1>1 DEF Read
  <2>2. \A field \in DOMAIN e \ {"id", "seq"} : field \in DOMAIN m /\ m[field] = e[field]
    BY DEF Numbered
  <2>3. Payload(e, caller[c].request)
    BY <1>0, <2>1 DEF Framed, Numbering
  <2>4. Releases(m) => Releases(e) /\ m.type = e.type
    BY <2>2, <2>3 DEF Payload, Releases
  <2> HIDE DEF m
  <2>5. g.at = "append" /\ g.event = m /\ g.request = caller[c].request
    BY <1>0 DEF Framed
  <2> HIDE DEF g
  <2>6. Sanctioned(policy[c], g)
    BY <1>0, <2>1, <2>2, <2>4, <2>5 DEF Sanctioned
  <2> QED BY <1>0, <2>1, <2>6, SanctionedFrame
<1>2. CASE \/ ReadRejected(c) \/ StoreRefused(c) \/ AuthorizeRaises(c)
           \/ ConfirmRejected(c) \/ ExecutorRaises(c)
  BY <1>0, <1>2, SanctionedOther, SanctionedFrame
     DEF ReadRejected, StoreRefused, AuthorizeRaises, ConfirmRejected, ExecutorRaises, Leave
<1>3. CASE Store(c) \/ StoreRedelivered(c)
  <2> DEFINE g == [caller[c] EXCEPT !.at = "confirm"]
  <2>1. caller' = [caller EXCEPT ![c] = g] /\ policy' = policy
    BY <1>3 DEF Store, StoreRedelivered
  <2>2. g.at \notin {"read", "append"}
    BY <1>0 DEF Framed
  <2> HIDE DEF g
  <2> QED BY <1>0, <2>1, <2>2, SanctionedOther, SanctionedFrame
<1>4. CASE Confirm(c)
  <2> DEFINE e == caller[c].event
             r == caller[c].request
  <2>1. policy' = policy /\ policy[c] \in Policies
    BY <1>0, <1>4 DEF Confirm, BaseInv
  <2>2. CASE Going(c, Decision(c, r), r)
    <3>1. Sanctioned(policy[c], Appending(Decision(c, r), r))
      <4>1. CASE policy[c] = "allow"
        BY <4>1 DEF Sanctioned
      <4>2. CASE policy[c] # "allow"
        BY <4>2, SanctionedOther DEF Decision, ToolEvent, Proposal, Releases
      <4> QED BY <4>1, <4>2
    <3> QED BY <1>0, <2>1, <2>2, <3>1, SanctionedFrame DEF Going
  <2>3. CASE Going(c, ToolEvent("tool.started", r), r)
    <3>1. ~Releases(ToolEvent("tool.started", r))
      BY DEF ToolEvent, Releases
    <3> QED BY <1>0, <2>1, <2>3, <3>1, SanctionedOther, SanctionedFrame DEF Going
  <2>4. CASE caller' = [caller EXCEPT ![c].at = "execute"]
    <3> DEFINE g == [caller[c] EXCEPT !.at = "execute"]
    <3>1. caller' = [caller EXCEPT ![c] = g]
      BY <2>4
    <3>2. g.at \notin {"read", "append"}
      BY <1>0 DEF Framed
    <3> HIDE DEF g
    <3> QED BY <1>0, <2>1, <3>1, <3>2, SanctionedOther, SanctionedFrame
  <2>5. CASE Leave(c)
    BY <1>0, <2>1, <2>5, SanctionedOther, SanctionedFrame DEF Leave
  <2> QED BY <1>4, <2>2, <2>3, <2>4, <2>5 DEF Confirm
<1>5. CASE Execute(c)
  <2> DEFINE g == [caller[c] EXCEPT !.at = "executing"]
  <2>1. caller' = [caller EXCEPT ![c] = g] /\ policy' = policy
    BY <1>5 DEF Execute
  <2>2. g.at \notin {"read", "append"}
    BY <1>0 DEF Framed
  <2> HIDE DEF g
  <2> QED BY <1>0, <2>1, <2>2, SanctionedOther, SanctionedFrame
<1>6. CASE ExecutorSteps(c)
  BY <1>6 DEF ExecutorSteps, SanctionInv
<1>7. CASE ExecutorReturns(c)
  <2> DEFINE r == caller[c].request
             e == OutcomeEvent(receipts'[r.call], r)
  <2>1. caller' = [caller EXCEPT ![c] = Appending(e, r)] /\ policy' = policy
    BY <1>7 DEF ExecutorReturns, Going
  <2>2. receipts'[r.call] \in Outcomes
    BY <1>0, <1>7, ExecutorResult, RuntimeAssumption
  <2>3. ~Releases(e)
    BY <2>2 DEF OutcomeEvent, ToolEvent, Outcomes, Releases
  <2> HIDE DEF e
  <2> QED BY <1>0, <2>1, <2>3, SanctionedOther, SanctionedFrame
<1> QED BY <1>1, <1>2, <1>3, <1>4, <1>5, <1>6, <1>7 DEF Run

LEMMA SanctionStep ==
    ASSUME RInv, SanctionInv, [Next]_vars
    PROVE  SanctionInv'
<1>0. BaseInv
  BY DEF RInv
<1>1. CASE UNCHANGED vars
  BY <1>1 DEF vars, SanctionInv
<1>2. ASSUME NEW c \in Callers, Crash(c) PROVE SanctionInv'
  BY <1>0, <1>2, SanctionedOther, SanctionedFrame DEF Crash, Leave
<1>3. ASSUME NEW c \in Callers, NEW p \in Policies, ChangePolicy(c, p) PROVE SanctionInv'
  <2>1. caller' = caller /\ caller[c].at = "idle"
        /\ \A d \in Callers \ {c} : policy'[d] = policy[d]
    BY <1>0, <1>3 DEF ChangePolicy, BaseInv
  <2>2. \A d \in Callers : Sanctioned(policy'[d], caller[d])
    BY <2>1, SanctionedOther DEF SanctionInv
  <2> QED BY <2>1, <2>2 DEF SanctionInv
<1> QED BY <1>0, <1>1, <1>2, <1>3, BeginSanctioned, RunSanctioned DEF Next

\* However many processes work on a run, and however their policies change between
\* their operations: what a process releases is what its policy releases when the
\* release becomes durable.
THEOREM ReleasesCorrect == Spec => ReleasedUnderPolicy
<1>1. Init => SanctionInv
  BY SanctionedOther DEF Init, SanctionInv
<1>2. RInv /\ SanctionInv /\ [Next]_vars => SanctionInv'
  BY SanctionStep
<1>3. SanctionInv /\ [Next]_vars => [\A c \in Callers :
        /\ caller[c].at = "append" /\ caller'[c].at = "confirm"
        /\ Releases(caller[c].event)
        => PolicyReleases(c, caller[c].event, caller[c].request)]_vars
  BY DEF SanctionInv, Sanctioned, PolicyReleases
<1> QED BY <1>1, <1>2, <1>3, RuntimeInvariant, PTL DEF Spec, ReleasedUnderPolicy
=============================================================================
