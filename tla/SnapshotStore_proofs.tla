------------------------ MODULE SnapshotStore_proofs ------------------------
(***************************************************************************)
(* For any number of processes and events: whatever happens to the row and *)
(* to the processes, a load is a replay of the log, a snapshot that is     *)
(* accepted holds the replay of a prefix, saving one never fails, and no   *)
(* process sees the run go back.                                           *)
(***************************************************************************)
EXTENDS SnapshotStore, RunReducer_proofs, SequenceTheorems

-----------------------------------------------------------------------------
(* The inductive invariant.                                                *)

\* The state before event n: good, and nothing applied is numbered n or more.
Counted(s, n) ==
    /\ Good(s) /\ s.next = n
    /\ \A d \in s.applied : d.seq \in Nat /\ d.seq < n

\* h holds the replays of the prefixes of l.
History(l, h) ==
    /\ IsSequence(l) /\ IsSequence(h)
    /\ Len(h) = Len(l) + 1 /\ h[1] = InitialRun
    /\ \A i \in 1..Len(l) : l[i] \in Offered(i) /\ h[i + 1] = ReplayStep(h[i], l[i])
    /\ \A i \in 1..Len(l) + 1 : h[i] = Rejected \/ Counted(h[i], i)

\* The first n - 1 events of the log.
IsPrefixBefore(l, prefix, n) ==
    Len(prefix) = n - 1 /\ \A i \in 1..n - 1 : prefix[i] = l[i]

\* A state replayed from the log, up to the event it says is next.
FromLog(l, h, s) ==
    s.next \in 1..Len(l) + 1 /\ s = h[s.next] /\ s # Rejected

\* A row of one event of another history.
Foreign(r) ==
    \E e : r.prefix = <<e>> /\ r.state = ReplayStep(InitialRun, e) /\ r.state.next = 2

\* What an undamaged row holds.  Its own copy of next may be damaged.
RowSound(l, h, r) ==
    /\ DOMAIN r = DOMAIN NoRow
    /\ r.intact =>
        Foreign(r) \/ (FromLog(l, h, r.state) /\ IsPrefixBefore(l, r.prefix, r.state.next))

\* Still to replay: the events up to the n-th of which f.state has the first.
Replaying(l, h, f, n) ==
    /\ IsSequence(f.tail) /\ Len(f.tail) <= n
    /\ \A i \in 1..Len(f.tail) : f.tail[i] = l[n - Len(f.tail) + i]
    /\ f.state = h[n - Len(f.tail) + 1]

\* What a process holds that was last returned a state whose next event is least.
Holds(l, h, least, f) ==
    /\ DOMAIN f = DOMAIN Idle
    /\ f.at \in Places
    /\ f.start \in 0..Len(l)
    /\ f.op = "load" => least <= f.start + 1
    /\ f.op = "save" => f.at = "replay"
    /\ f.at = "prefix" => RowSound(l, h, f.row) /\ SelfConsistent(f.row)
    /\ f.at = "tail" => FromLog(l, h, f.state)
    /\ f.at = "check" \/ f.op = "save" =>
            FromLog(l, h, f.want) /\ IsPrefixBefore(l, f.prefix, f.want.next)
    /\ f.at = "replay" =>
        \E n \in 0..Len(l) :
            /\ Replaying(l, h, f, n)
            /\ f.op = "load" => f.start <= n
            /\ f.op = "save" => n = f.want.next - 1

IInv ==
    /\ History(log, states)
    /\ RowSound(log, states, row)
    /\ DOMAIN proc = Processes
    /\ loaded \in [Processes -> Nat]
    /\ \A p \in Processes :
        loaded[p] <= Len(log) + 1 /\ Holds(log, states, loaded[p], proc[p])

-----------------------------------------------------------------------------
(* Replaying one event.                                                    *)

LEMMA InitialCounted == Counted(InitialRun, 1)
BY InitialGood DEF Counted, InitialRun

LEMMA RejectedStays == \A e : ReplayStep(Rejected, e) = Rejected
BY DEF ReplayStep

LEMMA OfferedTypes ==
    ASSUME NEW n \in 1..MaxEvents, NEW e \in Offered(n)
    PROVE  EventType(e) /\ e.seq = n
BY SnapshotAssumption

LEMMA StepCounted ==
    ASSUME NEW n \in Nat \ {0}, NEW s, s = Rejected \/ Counted(s, n),
           NEW e, EventType(e), e.seq = n
    PROVE  ReplayStep(s, e) = Rejected \/ Counted(ReplayStep(s, e), n + 1)
<1> DEFINE t == ReplayStep(s, e)
<1> SUFFICES ASSUME t # Rejected PROVE Counted(t, n + 1)
  OBVIOUS
<1>1. Counted(s, n) /\ Legal(s, e) /\ t = Reduce(s, e)
  BY DEF ReplayStep
<1>2. ~Redelivered(s, e)
  BY <1>1 DEF Counted, Redelivered
<1>3. Acceptable(s, e) /\ t = Applied(s, e)
  BY <1>1, <1>2 DEF Legal, Reduce
<1>4. Good(t) /\ t.next = s.next + 1 /\ t.applied = s.applied \cup {e}
  BY <1>1, <1>3, EffectGood, AppliedGood DEF Counted
<1> QED BY <1>1, <1>4 DEF Counted

-----------------------------------------------------------------------------
(* The log grows.                                                          *)

LEMMA InitHistory == History(<<>>, <<InitialRun>>)
<1>1. IsSequence(<<>>) /\ IsSequence(<<InitialRun>>)
  BY <<>> \in Seq({}), <<InitialRun>> \in Seq({InitialRun}) DEF IsSequence
<1> QED BY <1>1, InitialCounted DEF History

LEMMA AppendHistory ==
    ASSUME NEW l, NEW h, History(l, h), Len(l) < MaxEvents, NEW e \in Offered(Len(l) + 1)
    PROVE  History(Append(l, e), Append(h, ReplayStep(h[Len(h)], e)))
<1> DEFINE m == Append(l, e)
           g == Append(h, ReplayStep(h[Len(h)], e))
<1>1. /\ IsSequence(m) /\ Len(l) \in Nat /\ Len(m) = Len(l) + 1
      /\ \A i \in 1..Len(l) : m[i] = l[i]
      /\ m[Len(l) + 1] = e
  BY AppendFacts DEF History
<1>2. /\ IsSequence(g) /\ Len(h) = Len(l) + 1 /\ Len(g) = Len(l) + 2
      /\ \A i \in 1..Len(l) + 1 : g[i] = h[i]
      /\ g[Len(l) + 2] = ReplayStep(h[Len(l) + 1], e)
  BY <1>1, AppendFacts DEF History
<1> HIDE DEF m, g
<1>3. g[1] = InitialRun
  BY <1>1, <1>2 DEF History
<1>4. \A i \in 1..Len(m) : m[i] \in Offered(i) /\ g[i + 1] = ReplayStep(g[i], m[i])
  BY <1>1, <1>2 DEF History
<1>5. g[Len(l) + 2] = Rejected \/ Counted(g[Len(l) + 2], Len(l) + 2)
  <2>1. h[Len(l) + 1] = Rejected \/ Counted(h[Len(l) + 1], Len(l) + 1)
    BY <1>1 DEF History
  <2>2. Len(l) + 1 \in Nat \ {0} /\ Len(l) + 1 + 1 = Len(l) + 2
    BY <1>1
  <2>3. EventType(e) /\ e.seq = Len(l) + 1
    BY <1>1, OfferedTypes, SnapshotAssumption
  <2> QED BY <1>2, <2>1, <2>2, <2>3, StepCounted
<1>6. \A i \in 1..Len(m) + 1 : g[i] = Rejected \/ Counted(g[i], i)
  BY <1>1, <1>2, <1>5 DEF History
<1> QED BY <1>1, <1>2, <1>3, <1>4, <1>6 DEF History, m, g

\* What is said of a log stays true of every longer one.
Grown(l, h, m, g) ==
    /\ History(l, h) /\ History(m, g) /\ Len(l) <= Len(m)
    /\ \A i \in 1..Len(l) : m[i] = l[i]
    /\ \A i \in 1..Len(l) + 1 : g[i] = h[i]

LEMMA HistoryLengths ==
    \A l, h : History(l, h) => Len(l) \in Nat /\ Len(h) \in Nat
BY DEF History, IsSequence

LEMMA GrownRow ==
    ASSUME NEW l, NEW h, NEW m, NEW g, Grown(l, h, m, g), NEW r, RowSound(l, h, r)
    PROVE  RowSound(m, g, r)
BY HistoryLengths DEF Grown, RowSound, FromLog, IsPrefixBefore

LEMMA LengthIsNat == \A s : IsSequence(s) => Len(s) \in Nat
BY DEF IsSequence

LEMMA GrownReplaying ==
    ASSUME NEW l, NEW h, NEW m, NEW g, Grown(l, h, m, g), NEW f, NEW n \in 0..Len(l),
           Replaying(l, h, f, n)
    PROVE  Replaying(m, g, f, n)
<1> DEFINE k == Len(f.tail)
<1>1. Len(l) \in Nat /\ Len(m) \in Nat /\ Len(l) <= Len(m)
  BY HistoryLengths DEF Grown
<1>2. IsSequence(f.tail) /\ k <= n
  BY DEF Replaying
<1>3. k \in Nat
  BY <1>2, LengthIsNat
<1>4. f.state = h[n - k + 1] /\ \A i \in 1..k : f.tail[i] = l[n - k + i]
  BY DEF Replaying
<1> HIDE DEF k
<1>5. \A i \in 1..k : n - k + i \in 1..Len(l)
  BY <1>1, <1>2, <1>3
<1>6. n - k + 1 \in 1..Len(l) + 1
  BY <1>1, <1>2, <1>3
<1>7. f.state = g[n - k + 1]
  BY <1>4, <1>6 DEF Grown
<1>8. \A i \in 1..k : f.tail[i] = m[n - k + i]
  BY <1>4, <1>5 DEF Grown
<1> QED BY <1>2, <1>7, <1>8 DEF Replaying, k

LEMMA GrownHolds ==
    ASSUME NEW l, NEW h, NEW m, NEW g, Grown(l, h, m, g), NEW least, NEW f,
           Holds(l, h, least, f)
    PROVE  Holds(m, g, least, f)
<1>1. Len(l) \in Nat /\ Len(m) \in Nat /\ Len(l) <= Len(m)
  BY HistoryLengths DEF Grown
<1>2. f.at = "prefix" => RowSound(m, g, f.row)
  BY GrownRow DEF Holds
<1>3. \A s : FromLog(l, h, s) => FromLog(m, g, s)
  BY <1>1 DEF FromLog, Grown
<1>4. \A s, prefix : FromLog(l, h, s) /\ IsPrefixBefore(l, prefix, s.next)
                        => IsPrefixBefore(m, prefix, s.next)
  BY <1>1 DEF FromLog, IsPrefixBefore, Grown
<1>5. ASSUME NEW n \in 0..Len(l), Replaying(l, h, f, n)
      PROVE  n \in 0..Len(m) /\ Replaying(m, g, f, n)
  BY <1>1, <1>5, GrownReplaying
<1> QED BY <1>1, <1>2, <1>3, <1>4, <1>5 DEF Holds

-----------------------------------------------------------------------------
(* Parts of the log.                                                       *)

LEMMA SubSeqFacts ==
    ASSUME NEW s, IsSequence(s), NEW a \in Nat \ {0}, NEW b \in 0..Len(s), a <= b + 1
    PROVE  /\ IsSequence(SubSeq(s, a, b)) /\ Len(SubSeq(s, a, b)) = b - a + 1
           /\ \A i \in 1..b - a + 1 : SubSeq(s, a, b)[i] = s[a + i - 1]
<1>1. PICK S : s \in Seq(S)
  BY DEF IsSequence
<1> QED BY <1>1, SubSeqProperties DEF IsSequence

LEMMA TailFacts ==
    ASSUME NEW s, IsSequence(s), s # <<>>
    PROVE  /\ IsSequence(Tail(s)) /\ Len(s) \in Nat \ {0} /\ Len(Tail(s)) = Len(s) - 1
           /\ \A i \in 1..Len(s) - 1 : Tail(s)[i] = s[i + 1]
           /\ Head(s) = s[1]
<1>1. PICK S : s \in Seq(S)
  BY DEF IsSequence
<1> QED BY <1>1, HeadTailProperties DEF IsSequence

\* An accepted row holds the replay of the prefix it names.
LEMMA AcceptedFromLog ==
    ASSUME NEW l, NEW h, History(l, h), NEW r, RowSound(l, h, r), SelfConsistent(r),
           r.next - 1 <= Len(l), SubSeq(l, 1, r.next - 1) = r.prefix
    PROVE  FromLog(l, h, r.state) /\ r.next = r.state.next
<1>1. r.intact /\ r.state.next = r.next
  BY DEF SelfConsistent
<1>2. CASE Foreign(r)
  <2>1. PICK e : r.prefix = <<e>> /\ r.state = ReplayStep(InitialRun, e) /\ r.state.next = 2
    BY <1>2 DEF Foreign
  <2>2. Len(l) \in Nat /\ 1 <= Len(l)
    BY <1>1, <2>1, HistoryLengths
  <2>3. SubSeq(l, 1, 1) = <<e>>
    BY <1>1, <2>1
  <2>4. l[1] = e
    <3>1. \A i \in 1..1 - 1 + 1 : SubSeq(l, 1, 1)[i] = l[1 + i - 1]
      BY <2>2, SubSeqFacts DEF History
    <3>2. SubSeq(l, 1, 1)[1] = l[1]
      BY <3>1
    <3>3. <<e>>[1] = e
      OBVIOUS
    <3> QED BY <2>3, <3>2, <3>3
  <2>5. h[2] = r.state
    BY <2>1, <2>2, <2>4 DEF History
  <2>6. r.state # Rejected
    BY <2>1, Domain DEF Rejected, InitialRun
  <2> QED BY <1>1, <2>1, <2>2, <2>5, <2>6 DEF FromLog
<1> QED BY <1>1, <1>2 DEF RowSound

\* A replay that has come to its end is the state after n events.
LEMMA ReplayedFromLog ==
    ASSUME NEW l, NEW h, History(l, h), NEW f, NEW n \in 0..Len(l), Replaying(l, h, f, n),
           f.tail = <<>>
    PROVE  /\ f.state = h[n + 1]
           /\ f.state # Rejected => f.state.next = n + 1 /\ FromLog(l, h, f.state)
<1>1. Len(f.tail) = 0 /\ Len(l) \in Nat
  BY HistoryLengths
<1>2. f.state = h[n + 1]
  BY <1>1 DEF Replaying
<1>3. f.state = Rejected \/ Counted(f.state, n + 1)
  BY <1>1, <1>2 DEF History
<1> QED BY <1>1, <1>2, <1>3 DEF FromLog, Counted

-----------------------------------------------------------------------------
(* The steps.                                                              *)

LEMMA IdleHolds ==
    ASSUME NEW l, NEW h, History(l, h), NEW least
    PROVE  Holds(l, h, least, Idle)
BY HistoryLengths DEF Holds, Idle, Places

\* A step that replaces one frame and reads the rest.
LEMMA FrameReplaced ==
    ASSUME IInv, NEW p \in Processes, NEW f, Holds(log, states, loaded[p], f),
           proc' = [proc EXCEPT ![p] = f], UNCHANGED <<log, states, row, loaded>>
    PROVE  IInv'
<1>1. DOMAIN proc' = Processes /\ proc'[p] = f
      /\ \A q \in Processes \ {p} : proc'[q] = proc[q]
  BY DEF IInv
<1>2. log' = log /\ states' = states /\ row' = row /\ loaded' = loaded
  OBVIOUS
<1>3. \A q \in Processes : Holds(log, states, loaded[q], proc'[q])
  BY <1>1 DEF IInv
<1> QED BY <1>1, <1>2, <1>3 DEF IInv

LEMMA AppendStep ==
    ASSUME IInv, NEW n \in 1..MaxEvents, NEW e \in Offered(n), AppendEvent(e)
    PROVE  IInv'
<1>1. History(log, states) /\ Len(log) \in Nat /\ Len(states) = Len(log) + 1
  BY HistoryLengths DEF IInv, History
<1>2. e \in Offered(Len(log) + 1) /\ Len(log) < MaxEvents
  BY <1>1, OfferedTypes DEF AppendEvent
<1>3. log' = Append(log, e) /\ states' = Append(states, ReplayStep(states[Len(states)], e))
  BY DEF AppendEvent
<1>4. History(log', states')
  BY <1>1, <1>2, <1>3, AppendHistory
<1>5. Grown(log, states, log', states') /\ Len(log') = Len(log) + 1
  <2>1. Len(log') = Len(log) + 1 /\ \A i \in 1..Len(log) : log'[i] = log[i]
    BY <1>1, <1>3, AppendFacts DEF History
  <2>2. \A i \in 1..Len(log) + 1 : states'[i] = states[i]
    BY <1>1, <1>3, AppendFacts DEF History
  <2> QED BY <1>1, <1>4, <2>1, <2>2 DEF Grown
<1>6. row' = row /\ proc' = proc /\ loaded' = loaded
  BY DEF AppendEvent
<1>7. RowSound(log', states', row')
  BY <1>5, <1>6, GrownRow DEF IInv
<1>8. \A p \in Processes : Holds(log', states', loaded'[p], proc'[p])
  BY <1>5, <1>6, GrownHolds DEF IInv
<1>9. \A p \in Processes : loaded'[p] <= Len(log') + 1
  BY <1>1, <1>5, <1>6 DEF IInv
<1> QED BY <1>4, <1>6, <1>7, <1>8, <1>9 DEF IInv

LEMMA Frames ==
    /\ DOMAIN Idle = {"at", "op", "row", "state", "tail", "want", "prefix", "start"}
    /\ DOMAIN NoRow = {"schema", "next", "prefix", "state", "intact"}
BY DEF Idle, NoRow

\* A state and the events from the a-th to the n-th make a replay.
LEMMA PartReplays ==
    ASSUME NEW l, NEW h, History(l, h), NEW a \in 1..Len(l) + 1, NEW n \in 0..Len(l),
           a <= n + 1, NEW f, f.state = h[a], IsSequence(f.tail), Len(f.tail) = n - a + 1,
           \A i \in 1..n - a + 1 : f.tail[i] = l[a + i - 1]
    PROVE  Replaying(l, h, f, n)
<1>1. Len(l) \in Nat
  BY HistoryLengths
<1>2. n - Len(f.tail) + 1 = a /\ Len(f.tail) <= n
  BY <1>1
<1>3. \A i \in 1..Len(f.tail) : n - Len(f.tail) + i = a + i - 1
  BY <1>1
<1> QED BY <1>2, <1>3 DEF Replaying

LEMMA CutReplays ==
    ASSUME NEW l, NEW h, History(l, h), NEW a \in 1..Len(l) + 1, NEW n \in 0..Len(l),
           a <= n + 1, NEW f, f.state = h[a], f.tail = SubSeq(l, a, n)
    PROVE  Replaying(l, h, f, n)
<1>1. IsSequence(l) /\ Len(l) \in Nat /\ a \in Nat \ {0}
  BY HistoryLengths DEF History
<1>2. /\ IsSequence(SubSeq(l, a, n)) /\ Len(SubSeq(l, a, n)) = n - a + 1
      /\ \A i \in 1..n - a + 1 : SubSeq(l, a, n)[i] = l[a + i - 1]
  BY <1>1, SubSeqFacts
<1> QED BY <1>1, <1>2, PartReplays

LEMMA OneReplays ==
    ASSUME NEW l, NEW h, History(l, h), NEW n \in 0..Len(l), NEW f, Replaying(l, h, f, n),
           f.tail # <<>>, NEW g, g.state = ReplayStep(f.state, Head(f.tail)),
           g.tail = Tail(f.tail)
    PROVE  Replaying(l, h, g, n)
<1> DEFINE k == Len(f.tail)
           a == n - k + 1
<1>1. /\ IsSequence(f.tail) /\ k <= n /\ f.state = h[a]
      /\ \A i \in 1..k : f.tail[i] = l[n - k + i]
  BY DEF Replaying
<1>2. /\ IsSequence(g.tail) /\ k \in Nat \ {0} /\ Len(g.tail) = k - 1
      /\ \A i \in 1..k - 1 : g.tail[i] = f.tail[i + 1]
      /\ Head(f.tail) = f.tail[1]
  BY <1>1, TailFacts
<1>3. Len(l) \in Nat
  BY HistoryLengths
<1> HIDE DEF k
<1>4. a \in 1..Len(l) /\ a + 1 \in 1..Len(l) + 1 /\ a + 1 <= n + 1 /\ n - (a + 1) + 1 = k - 1
  BY <1>1, <1>2, <1>3
<1>5. f.tail[1] = l[a]
  BY <1>1, <1>2
<1> HIDE DEF a
<1>6. g.state = h[a + 1]
  BY <1>1, <1>2, <1>4, <1>5 DEF History
<1>7. \A i \in 1..k - 1 : g.tail[i] = l[(a + 1) + i - 1]
  <2> TAKE i \in 1..k - 1
  <2>1. i + 1 \in 1..k /\ n - k + (i + 1) = (a + 1) + i - 1
    BY <1>2, <1>3 DEF a
  <2>2. f.tail[i + 1] = l[n - k + (i + 1)]
    BY <1>1, <2>1
  <2>3. g.tail[i] = f.tail[i + 1]
    BY <1>2
  <2> QED BY <2>1, <2>2, <2>3
<1> QED BY <1>2, <1>4, <1>6, <1>7, PartReplays

LEMMA PrefixFacts ==
    ASSUME NEW l, NEW h, History(l, h), NEW n \in 1..Len(l) + 1
    PROVE  IsPrefixBefore(l, SubSeq(l, 1, n - 1), n)
<1>1. IsSequence(l) /\ n - 1 \in 0..Len(l) /\ 1 <= n - 1 + 1
  BY HistoryLengths DEF History
<1>2. Len(SubSeq(l, 1, n - 1)) = n - 1 - 1 + 1
      /\ \A i \in 1..n - 1 - 1 + 1 : SubSeq(l, 1, n - 1)[i] = l[1 + i - 1]
  BY <1>1, SubSeqFacts
<1> QED BY <1>1, <1>2 DEF IsPrefixBefore

\* A frame that replays, of an operation that may.
LEMMA ReplayHolds ==
    ASSUME NEW l, NEW h, NEW least, NEW f, NEW n \in 0..Len(l), Replaying(l, h, f, n),
           DOMAIN f = DOMAIN Idle, f.at = "replay", f.start \in 0..Len(l),
           f.op = "load" => least <= f.start + 1 /\ f.start <= n,
           f.op = "save" => /\ FromLog(l, h, f.want) /\ IsPrefixBefore(l, f.prefix, f.want.next)
                            /\ n = f.want.next - 1
    PROVE  Holds(l, h, least, f)
BY DEF Holds, Places

\* Every query of a load or of a snapshot leaves a frame that holds.
LEMMA QueryHolds ==
    ASSUME IInv, NEW p \in Processes,
           \/ ReadRow(p) \/ CheckPrefix(p) \/ ReadTail(p) \/ ReadAll(p) \/ ReplayOne(p)
           \/ BeginLoad(p) \/ BeginSnapshot(p) \/ SavePrefix(p) \/ ReadPrefix(p) \/ Crash(p)
    PROVE  IInv'
<1> DEFINE f == proc[p]
<1>1. /\ History(log, states) /\ Len(log) \in Nat /\ IsSequence(log)
      /\ states[1] = InitialRun /\ InitialRun # Rejected /\ InitialRun.next = 1
      /\ loaded[p] \in Nat /\ loaded[p] <= Len(log) + 1
      /\ Holds(log, states, loaded[p], f)
  BY HistoryLengths, InitialGood, Domain DEF IInv, History, Rejected, InitialRun
<1>2. DOMAIN f = DOMAIN Idle /\ f.start \in 0..Len(log)
      /\ (f.op = "load" => loaded[p] <= f.start + 1)
      /\ (f.op = "save" => f.at = "replay")
      /\ (f.at = "check" \/ f.op = "save" =>
            FromLog(log, states, f.want) /\ IsPrefixBefore(log, f.prefix, f.want.next))
  BY <1>1 DEF Holds
<1> SUFFICES \E g : /\ proc' = [proc EXCEPT ![p] = g]
                    /\ UNCHANGED <<log, states, row, loaded>>
                    /\ Holds(log, states, loaded[p], g)
  BY FrameReplaced
<1> USE DEF Go
<1>3. CASE ReadRow(p)
  <2> DEFINE g == IF SelfConsistent(row) THEN [f EXCEPT !.at = "prefix", !.row = row]
                  ELSE [f EXCEPT !.at = "full"]
  <2>1. Holds(log, states, loaded[p], g)
    BY <1>2, <1>3, Frames DEF Holds, IInv, ReadRow, Places
  <2> QED BY <1>3, <2>1 DEF ReadRow
<1>4. CASE CheckPrefix(p)
  <2> DEFINE g == IF PrefixMatches(f.row)
                  THEN [f EXCEPT !.at = "tail", !.row = NoRow, !.state = f.row.state]
                  ELSE [f EXCEPT !.at = "full", !.row = NoRow]
  <2>1. RowSound(log, states, f.row) /\ SelfConsistent(f.row)
    BY <1>1, <1>4 DEF Holds, CheckPrefix
  <2>2. PrefixMatches(f.row) => FromLog(log, states, f.row.state)
    BY <1>1, <2>1, AcceptedFromLog DEF PrefixMatches, PrefixDigest
  <2>3. Holds(log, states, loaded[p], g)
    BY <1>2, <1>4, <2>2, Frames DEF Holds, CheckPrefix, Places
  <2> QED BY <1>4, <2>3 DEF CheckPrefix
<1>5. CASE ReadTail(p)
  <2> DEFINE a == f.state.next
             tail == TailFrom(a)
             g == [f EXCEPT !.at = "replay", !.tail = tail]
  <2>1. f.at = "tail" /\ a \in 1..Len(log) + 1 /\ f.state = states[a]
    BY <1>1, <1>5 DEF Holds, ReadTail, FromLog
  <2>2. DOMAIN g = DOMAIN Idle /\ g.at = "replay" /\ g.tail = tail
        /\ g.state = f.state /\ g.op = f.op /\ g.start = f.start
        /\ g.want = f.want /\ g.prefix = f.prefix
    BY <1>2, Frames
  <2>3. f.op # "save"
    BY <1>1, <2>1 DEF Holds
  <2>4. tail = SubSeq(log, a, Len(log)) /\ Len(log) \in 0..Len(log) /\ a <= Len(log) + 1
    BY <1>1, <2>1 DEF TailFrom
  <2> HIDE DEF a, g, tail
  <2>6. Replaying(log, states, g, Len(log))
    BY <1>1, <2>1, <2>2, <2>4, CutReplays
  <2>7. Holds(log, states, loaded[p], g)
    BY <1>1, <1>2, <2>2, <2>3, <2>4, <2>6, ReplayHolds
  <2> QED BY <1>5, <2>7 DEF ReadTail, a, g, tail
<1>6. CASE ReadAll(p)
  <2> DEFINE g == [f EXCEPT !.at = "replay", !.state = InitialRun, !.tail = log]
  <2>1. DOMAIN g = DOMAIN Idle /\ g.at = "replay" /\ g.tail = log
        /\ g.state = InitialRun /\ g.op = f.op /\ g.start = f.start
        /\ g.want = f.want /\ g.prefix = f.prefix
    BY <1>2, Frames
  <2>2. f.at = "full" /\ f.op # "save"
    BY <1>2, <1>6 DEF ReadAll
  <2>3. Replaying(log, states, g, Len(log))
    BY <1>1, <2>1 DEF Replaying
  <2>4. Len(log) \in 0..Len(log) /\ f.start <= Len(log)
    BY <1>1, <1>2
  <2> HIDE DEF g
  <2>5. Holds(log, states, loaded[p], g)
    BY <1>2, <2>1, <2>2, <2>3, <2>4, ReplayHolds
  <2> QED BY <1>6, <2>5 DEF ReadAll, g
<1>7. CASE ReplayOne(p)
  <2> DEFINE g == [f EXCEPT !.state = ReplayStep(f.state, Head(f.tail)), !.tail = Tail(f.tail)]
  <2>1. DOMAIN g = DOMAIN Idle /\ g.at = f.at /\ g.tail = Tail(f.tail)
        /\ g.state = ReplayStep(f.state, Head(f.tail)) /\ g.op = f.op /\ g.start = f.start
        /\ g.want = f.want /\ g.prefix = f.prefix
    BY <1>2, Frames
  <2>2. f.at = "replay" /\ f.tail # <<>>
    BY <1>7 DEF ReplayOne
  <2>3. PICK n \in 0..Len(log) :
            /\ Replaying(log, states, f, n)
            /\ f.op = "load" => f.start <= n
            /\ f.op = "save" => n = f.want.next - 1
    BY <1>1, <2>2 DEF Holds
  <2>4. Replaying(log, states, g, n)
    BY <1>1, <2>1, <2>2, <2>3, OneReplays
  <2>5. Holds(log, states, loaded[p], g)
    BY <1>2, <2>1, <2>2, <2>3, <2>4, ReplayHolds
  <2> QED BY <1>7, <2>5 DEF ReplayOne
<1>8. CASE BeginLoad(p)
  <2> DEFINE g == [Idle EXCEPT !.at = "row", !.op = "load", !.start = Len(log)]
  <2>1. Holds(log, states, loaded[p], g)
    BY <1>1, Frames DEF Holds, Places
  <2> QED BY <1>8, <2>1 DEF BeginLoad
<1>9. CASE BeginSnapshot(p)
  <2> DEFINE g == [Idle EXCEPT !.at = "full", !.op = "snapshot"]
  <2>1. g.start = 0
    BY Frames DEF Idle
  <2>2. Holds(log, states, loaded[p], g)
    BY <1>1, <2>1, Frames DEF Holds, Places
  <2> QED BY <1>9, <2>2 DEF BeginSnapshot
<1>10. CASE SavePrefix(p)
  <2>1. CASE f.state = Rejected
    BY <1>1, <1>10, <2>1, IdleHolds DEF SavePrefix
  <2>2. CASE f.state # Rejected
    <3> DEFINE g == [f EXCEPT !.at = "check", !.want = f.state,
                              !.prefix = PrefixDigest(f.state.next)]
    <3>1. f.at = "replay" /\ f.op = "snapshot" /\ f.tail = <<>>
      BY <1>10 DEF SavePrefix, Replayed
    <3>2. PICK n \in 0..Len(log) : Replaying(log, states, f, n)
      BY <1>1, <3>1 DEF Holds
    <3>3. f.state.next = n + 1 /\ FromLog(log, states, f.state)
      BY <1>1, <2>2, <3>1, <3>2, ReplayedFromLog
    <3>4. IsPrefixBefore(log, PrefixDigest(f.state.next), f.state.next)
      BY <1>1, <3>3, PrefixFacts DEF PrefixDigest, FromLog
    <3>5. DOMAIN g = DOMAIN Idle /\ g.at = "check" /\ g.want = f.state
          /\ g.prefix = PrefixDigest(f.state.next) /\ g.op = "snapshot" /\ g.start = f.start
      BY <1>2, <3>1, Frames
    <3>6. Holds(log, states, loaded[p], g)
      BY <1>2, <3>3, <3>4, <3>5 DEF Holds, Places
    <3> QED BY <1>10, <2>2, <3>6 DEF SavePrefix
  <2> QED BY <2>1, <2>2
<1>11. CASE ReadPrefix(p)
  <2> DEFINE n == f.want.next - 1
             g == [f EXCEPT !.at = "replay", !.op = "save", !.state = InitialRun,
                            !.tail = SubSeq(log, 1, f.want.next - 1)]
  <2>1. FromLog(log, states, f.want) /\ IsPrefixBefore(log, f.prefix, f.want.next)
    BY <1>2, <1>11 DEF ReadPrefix
  <2>2. n \in 0..Len(log) /\ 1 \in 1..Len(log) + 1 /\ 1 <= n + 1
    BY <1>1, <2>1 DEF FromLog
  <2>3. DOMAIN g = DOMAIN Idle /\ g.at = "replay" /\ g.op = "save"
        /\ g.state = states[1] /\ g.tail = SubSeq(log, 1, n)
        /\ g.start = f.start /\ g.want = f.want /\ g.prefix = f.prefix
    BY <1>1, <1>2, Frames
  <2>4. Replaying(log, states, g, n)
    BY <1>1, <2>2, <2>3, CutReplays
  <2>5. Holds(log, states, loaded[p], g)
    BY <1>2, <2>1, <2>2, <2>3, <2>4, ReplayHolds
  <2> QED BY <1>11, <2>5 DEF ReadPrefix
<1>12. CASE Crash(p)
  BY <1>1, <1>12, IdleHolds DEF Crash
<1> QED BY <1>3, <1>4, <1>5, <1>6, <1>7, <1>8, <1>9, <1>10, <1>11, <1>12

\* A load that ends tells its caller nothing older than it was told before.
LEMMA FinishStep ==
    ASSUME IInv, NEW p \in Processes, FinishLoad(p)
    PROVE  IInv' /\ loaded'[p] >= loaded[p] /\ \A q \in Processes \ {p} : loaded'[q] = loaded[q]
<1> DEFINE f == proc[p]
           least == IF f.state = Rejected THEN loaded[p] ELSE f.state.next
<1>1. History(log, states) /\ Len(log) \in Nat /\ Holds(log, states, loaded[p], f)
      /\ loaded[p] \in Nat /\ loaded[p] <= Len(log) + 1
  BY HistoryLengths DEF IInv
<1>2. f.at = "replay" /\ f.op = "load" /\ f.tail = <<>>
      /\ loaded' = [loaded EXCEPT ![p] = least] /\ proc' = [proc EXCEPT ![p] = Idle]
      /\ log' = log /\ states' = states /\ row' = row
  BY DEF FinishLoad, Replayed, Go
<1>3. PICK n \in 0..Len(log) : Replaying(log, states, f, n) /\ f.start <= n
  BY <1>1, <1>2 DEF Holds
<1>4. f.start \in Nat /\ loaded[p] <= f.start + 1
  BY <1>1, <1>2 DEF Holds
<1>5. f.state # Rejected => f.state.next = n + 1
  BY <1>1, <1>2, <1>3, ReplayedFromLog
<1>6. least \in Nat /\ loaded[p] <= least /\ least <= Len(log) + 1
  BY <1>1, <1>3, <1>4, <1>5
<1> HIDE DEF least
<1>7. /\ loaded' \in [Processes -> Nat] /\ DOMAIN proc' = Processes
      /\ loaded'[p] = least /\ \A q \in Processes \ {p} : loaded'[q] = loaded[q]
      /\ proc'[p] = Idle /\ \A q \in Processes \ {p} : proc'[q] = proc[q]
  BY <1>2, <1>6 DEF IInv
<1>8. \A q \in Processes : /\ loaded'[q] <= Len(log') + 1
                           /\ Holds(log', states', loaded'[q], proc'[q])
  <2>1. Holds(log, states, least, Idle)
    BY <1>1, IdleHolds
  <2> QED BY <1>2, <1>6, <1>7, <2>1 DEF IInv
<1>9. History(log', states') /\ RowSound(log', states', row')
  BY <1>2 DEF IInv
<1> QED BY <1>1, <1>6, <1>7, <1>8, <1>9 DEF IInv

\* A row that is written holds the state it was written for.
LEMMA WriteStep ==
    ASSUME IInv, NEW p \in Processes, WriteRow(p)
    PROVE  IInv'
<1> DEFINE f == proc[p]
           r == RowOf(f)
<1>1. History(log, states) /\ Holds(log, states, loaded[p], f)
  BY DEF IInv
<1>2. f.op = "save" /\ row' = r /\ proc' = [proc EXCEPT ![p] = Idle]
      /\ log' = log /\ states' = states /\ loaded' = loaded
  BY DEF WriteRow, Replayed, Go
<1>3. FromLog(log, states, f.want) /\ IsPrefixBefore(log, f.prefix, f.want.next)
  BY <1>1, <1>2 DEF Holds
<1>4. RowSound(log, states, r)
  BY <1>3, Frames DEF RowSound, RowOf
<1> HIDE DEF r
<1>5. /\ DOMAIN proc' = Processes /\ proc'[p] = Idle
      /\ \A q \in Processes \ {p} : proc'[q] = proc[q]
  BY <1>2 DEF IInv
<1>6. \A q \in Processes : Holds(log, states, loaded[q], proc'[q])
  BY <1>1, <1>5, IdleHolds DEF IInv
<1> QED BY <1>2, <1>4, <1>5, <1>6 DEF IInv

LEMMA DisturbStep ==
    ASSUME IInv, DisturbRow
    PROVE  IInv'
<1>1. RowSound(log, states, row)
  BY DEF IInv
<1>2. UNCHANGED <<log, states, proc, loaded>>
  BY DEF DisturbRow
<1>3. RowSound(log, states, row')
  <2>1. CASE DamageState
    BY <1>1, <2>1, Frames DEF DamageState, RowSound
  <2>2. CASE DamageNext
    <3>1. PICK n : row' = [row EXCEPT !.next = n]
      BY <2>2 DEF DamageNext
    <3>2. DOMAIN row' = DOMAIN NoRow /\ row'.intact = row.intact /\ row'.state = row.state
          /\ row'.prefix = row.prefix
      BY <1>1, <3>1, Frames DEF RowSound
    <3> QED BY <1>1, <3>2 DEF RowSound, Foreign
  <2>3. CASE OldSchema
    <3>1. DOMAIN row' = DOMAIN NoRow /\ row'.intact = row.intact /\ row'.state = row.state
          /\ row'.prefix = row.prefix
      BY <1>1, <2>3, Frames DEF RowSound, OldSchema
    <3> QED BY <1>1, <3>1 DEF RowSound, Foreign
  <2>4. CASE ForeignRow
    <3>1. PICK e \in Elsewhere :
            /\ ReplayStep(InitialRun, e) # Rejected
            /\ row' = [schema |-> Schema, next |-> 2, prefix |-> <<e>>,
                       state |-> ReplayStep(InitialRun, e), intact |-> TRUE]
      BY <2>4 DEF ForeignRow
    <3>2. Counted(ReplayStep(InitialRun, e), 2)
      BY <3>1, InitialCounted, StepCounted, SnapshotAssumption
    <3>3. Foreign(row')
      BY <3>1, <3>2 DEF Foreign, Counted
    <3> QED BY <3>1, <3>3, Frames DEF RowSound
  <2> QED BY <2>1, <2>2, <2>3, <2>4 DEF DisturbRow
<1> QED BY <1>2, <1>3 DEF IInv

-----------------------------------------------------------------------------
(* The theorems.                                                           *)

LEMMA InitIInv == Init => IInv
<1> SUFFICES ASSUME Init PROVE IInv
  OBVIOUS
<1>1. History(log, states) /\ Len(log) = 0
  BY InitHistory DEF Init
<1>2. RowSound(log, states, row)
  BY Frames DEF Init, RowSound, NoRow
<1>3. \A p \in Processes : Holds(log, states, loaded[p], proc[p])
  BY <1>1, IdleHolds DEF Init
<1>4. DOMAIN proc = Processes /\ loaded \in [Processes -> Nat]
      /\ \A p \in Processes : loaded[p] <= Len(log) + 1
  BY <1>1 DEF Init
<1> QED BY <1>1, <1>2, <1>3, <1>4 DEF IInv

LEMMA NextIInv == IInv /\ [Next]_vars => IInv'
<1> SUFFICES ASSUME IInv, [Next]_vars PROVE IInv'
  OBVIOUS
<1>1. CASE UNCHANGED vars
  BY <1>1 DEF vars, IInv
<1>2. CASE \E n \in 1..MaxEvents : \E e \in Offered(n) : AppendEvent(e)
  BY <1>2, AppendStep
<1>3. CASE DisturbRow
  BY <1>3, DisturbStep
<1>4. ASSUME NEW p \in Processes, BeginLoad(p) \/ BeginSnapshot(p) \/ Run(p) \/ Crash(p)
      PROVE  IInv'
  BY <1>4, QueryHolds, FinishStep, WriteStep DEF Run
<1> QED BY <1>1, <1>2, <1>3, <1>4 DEF Next

LEMMA Invariant == Spec => []IInv
BY InitIInv, NextIInv, PTL DEF Spec

\* The log, its history and the processes keep their shape.
THEOREM TypeCorrect == Spec => []TypeOK
<1>1. IInv => TypeOK
  <2> SUFFICES ASSUME IInv PROVE TypeOK
    OBVIOUS
  <2>1. Len(states) = Len(log) + 1 /\ \A i \in 1..Len(log) : log[i] \in Offered(i)
    BY DEF IInv, History
  <2>2. \A p \in Processes : proc[p].at \in Places /\ proc[p].start <= Len(log)
    BY HistoryLengths DEF IInv, Holds
  <2> QED BY <2>1, <2>2 DEF TypeOK
<1> QED BY <1>1, Invariant, PTL

\* A load returns the replay of the log as it stood during the load.
THEOREM LoadsCorrect == Spec => []LoadsAreReplays
<1>1. IInv => LoadsAreReplays
  <2> SUFFICES ASSUME IInv, NEW p \in Processes, Replayed(p, "load")
               PROVE  \E n \in proc[p].start..Len(log) : proc[p].state = states[n + 1]
    BY DEF LoadsAreReplays
  <2>1. History(log, states) /\ Holds(log, states, loaded[p], proc[p]) /\ Len(log) \in Nat
    BY HistoryLengths DEF IInv
  <2>2. PICK n \in 0..Len(log) :
            Replaying(log, states, proc[p], n) /\ proc[p].start <= n
    BY <2>1 DEF Replayed, Holds
  <2>3. proc[p].state = states[n + 1]
    BY <2>1, <2>2, ReplayedFromLog DEF Replayed
  <2>4. proc[p].start \in Nat
    BY <2>1 DEF Holds
  <2> QED BY <2>1, <2>2, <2>3, <2>4
<1> QED BY <1>1, Invariant, PTL

\* A row load_snapshot accepts is the replay of the prefix it stands for.
THEOREM RowsCorrect == Spec => []AcceptedRowsAreReplays
<1>1. IInv => AcceptedRowsAreReplays
  <2> SUFFICES ASSUME IInv, SelfConsistent(row), PrefixMatches(row)
               PROVE  row.next <= Len(states) /\ row.state = states[row.next]
    BY DEF AcceptedRowsAreReplays
  <2>1. History(log, states) /\ RowSound(log, states, row) /\ Len(log) \in Nat
        /\ Len(states) = Len(log) + 1
    BY HistoryLengths DEF IInv, History
  <2>2. FromLog(log, states, row.state) /\ row.next = row.state.next
    BY <2>1, AcceptedFromLog DEF PrefixMatches, PrefixDigest
  <2> QED BY <2>1, <2>2 DEF FromLog
<1> QED BY <1>1, Invariant, PTL

\* What save_snapshot replays before it writes is the state it was given.
THEOREM SavesCorrect == Spec => []SavesSucceed
<1>1. IInv => SavesSucceed
  <2> SUFFICES ASSUME IInv, NEW p \in Processes, Replayed(p, "save")
               PROVE  proc[p].state = proc[p].want
    BY DEF SavesSucceed
  <2>1. History(log, states) /\ Holds(log, states, loaded[p], proc[p])
    BY DEF IInv
  <2>2. FromLog(log, states, proc[p].want)
    BY <2>1 DEF Replayed, Holds
  <2>3. PICK n \in 0..Len(log) :
            Replaying(log, states, proc[p], n) /\ n = proc[p].want.next - 1
    BY <2>1 DEF Replayed, Holds
  <2>4. proc[p].state = states[n + 1]
    BY <2>1, <2>3, ReplayedFromLog DEF Replayed
  <2> QED BY <2>2, <2>3, <2>4 DEF FromLog
<1> QED BY <1>1, Invariant, PTL

\* A process never sees the run go back, whichever snapshot its next load finds.
THEOREM NoRegress == Spec => LoadsNeverRegress
<1>1. IInv /\ [Next]_vars => [\A p \in Processes : loaded'[p] >= loaded[p]]_vars
  <2> SUFFICES ASSUME IInv, Next PROVE \A p \in Processes : loaded'[p] >= loaded[p]
    OBVIOUS
  <2>1. \A p \in Processes : loaded[p] \in Nat
    BY DEF IInv
  <2>2. CASE UNCHANGED loaded
    BY <2>1, <2>2
  <2>3. ASSUME NEW p \in Processes, FinishLoad(p)
        PROVE  \A q \in Processes : loaded'[q] >= loaded[q]
    BY <2>1, <2>3, FinishStep
  <2> QED BY <2>2, <2>3 DEF Next, Run, AppendEvent, DisturbRow, BeginLoad, BeginSnapshot,
             ReadRow, CheckPrefix, ReadTail, ReadAll, ReplayOne, SavePrefix, ReadPrefix,
             WriteRow, Crash
<1> QED BY <1>1, Invariant, PTL DEF Spec, LoadsNeverRegress
=============================================================================
