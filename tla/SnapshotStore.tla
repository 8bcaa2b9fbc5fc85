---------------------------- MODULE SnapshotStore ----------------------------
(***************************************************************************)
(* load_state and create_snapshot over SQLiteEventStore: several processes *)
(* append to one run's log, replace its one snapshot row and load its      *)
(* state, and each of their queries is a transaction of its own.  A chain  *)
(* digest is the prefix it digests, and next counts from one as in         *)
(* RunReducer, so that a state covers next - 1 events.                     *)
(*                                                                         *)
(* The row is disposable: it may be damaged at any time, or come from the  *)
(* run's other histories, say with a restored file.  The log is truth.     *)
(***************************************************************************)
EXTENDS RunReducer, FiniteSets

CONSTANTS Processes,
          Events,      \* events of any type and content, but for their number
          Elsewhere,   \* first events of other histories of the run
          MaxEvents,   \* bound: events in the log
          MaxDamages   \* bound: disturbances of the row

\* Events a process may store next; the reducer need not like them.
Offered(n) == {[e EXCEPT !.id = n, !.seq = n] : e \in Events}

ASSUME SnapshotAssumption ==
    /\ MaxEvents \in Nat /\ MaxDamages \in Nat
    /\ \A n \in 1..MaxEvents : \A e \in Offered(n) : EventType(e) /\ e.seq = n
    /\ \A e \in Elsewhere : EventType(e) /\ e.seq = 1

VARIABLES log,      \* execution_events of the run
          states,   \* history: states[n] is the replay of the first n - 1 events
          row,      \* run_snapshots: the run's row, or NoRow
          proc,     \* per process: where it is in an operation and what it read
          loaded,   \* history, per process: next of the last state it was returned
          damages
vars == <<log, states, row, proc, loaded, damages>>

Schema == 2

NoRow == [schema |-> 0, next |-> 0, prefix |-> <<>>, state |-> InitialRun, intact |-> FALSE]

Idle == [at |-> "idle", op |-> "none", row |-> NoRow, state |-> InitialRun, tail |-> <<>>,
         want |-> InitialRun, prefix |-> <<>>, start |-> 0]

Init ==
    /\ log = <<>>
    /\ states = <<InitialRun>>
    /\ row = NoRow
    /\ proc = [p \in Processes |-> Idle]
    /\ loaded = [p \in Processes |-> 1]
    /\ damages = 0

\* _prefix_chain_digest; the prefix must exist.
PrefixDigest(n) == SubSeq(log, 1, n - 1)

Go(p, frame) == proc' = [proc EXCEPT ![p] = frame]

-----------------------------------------------------------------------------
\* Mutant: a sequence need not be the next one.
AppendAnySequence(e) ==
    /\ Len(log) < MaxEvents
    /\ log' = Append(log, e)
    /\ states' = Append(states, ReplayStep(states[Len(states)], e))
    /\ UNCHANGED <<row, proc, loaded, damages>>

\* append: the transaction; a redelivery or a wrong sequence changes nothing.
AppendEvent(e) ==
    /\ Len(log) < MaxEvents
    /\ e.seq = Len(log) + 1
    /\ log' = Append(log, e)
    /\ states' = Append(states, ReplayStep(states[Len(states)], e))
    /\ UNCHANGED <<row, proc, loaded, damages>>

(* load_state.                                                             *)

BeginLoad(p) ==
    /\ proc[p].at = "idle"
    /\ Go(p, [Idle EXCEPT !.at = "row", !.op = "load", !.start = Len(log)])
    /\ UNCHANGED <<log, states, row, loaded, damages>>

\* What load_snapshot can tell from the row alone; a state that does not decode
\* counts as one whose digest does not match.
SelfConsistent(r) ==
    /\ r.schema = Schema /\ r.intact
    /\ r.state.next = r.next
    /\ Cardinality(r.state.applied) = r.next - 1

ReadRow(p) ==
    /\ proc[p].at = "row"
    /\ Go(p, IF SelfConsistent(row) THEN [proc[p] EXCEPT !.at = "prefix", !.row = row]
             ELSE [proc[p] EXCEPT !.at = "full"])
    /\ UNCHANGED <<log, states, row, loaded, damages>>

\* Mutant: a snapshot is not compared with the log it is used for.
PrefixUnchecked(r) == TRUE

\* The log has the prefix the row was made from.
PrefixMatches(r) == r.next - 1 <= Len(log) /\ PrefixDigest(r.next) = r.prefix

CheckPrefix(p) ==
    /\ proc[p].at = "prefix"
    /\ Go(p, IF PrefixMatches(proc[p].row)
             THEN [proc[p] EXCEPT !.at = "tail", !.row = NoRow,
                                  !.state = proc[p].row.state]
             ELSE [proc[p] EXCEPT !.at = "full", !.row = NoRow])
    /\ UNCHANGED <<log, states, row, loaded, damages>>

\* Mutant: a snapshot is the run's state.
TailForgotten(n) == <<>>

\* Mutant: the tail starts after the event that follows the prefix.
TailSkipsOne(n) == SubSeq(log, n + 1, Len(log))

\* load_tail: events at or after the snapshot's next sequence.
TailFrom(n) == SubSeq(log, n, Len(log))

ReadTail(p) ==
    /\ proc[p].at = "tail"
    /\ Go(p, [proc[p] EXCEPT !.at = "replay", !.tail = TailFrom(proc[p].state.next)])
    /\ UNCHANGED <<log, states, row, loaded, damages>>

\* load: the whole log.
ReadAll(p) ==
    /\ proc[p].at = "full"
    /\ Go(p, [proc[p] EXCEPT !.at = "replay", !.state = InitialRun, !.tail = log])
    /\ UNCHANGED <<log, states, row, loaded, damages>>

\* replay_tail: one event.
ReplayOne(p) ==
    /\ proc[p].at = "replay" /\ proc[p].tail # <<>>
    /\ Go(p, [proc[p] EXCEPT !.state = ReplayStep(@, Head(proc[p].tail)), !.tail = Tail(@)])
    /\ UNCHANGED <<log, states, row, loaded, damages>>

Replayed(p, op) == proc[p].at = "replay" /\ proc[p].tail = <<>> /\ proc[p].op = op

\* Replay returned a state, or raised.
FinishLoad(p) ==
    /\ Replayed(p, "load")
    /\ loaded' = [loaded EXCEPT ![p] = IF proc[p].state = Rejected THEN @
                                        ELSE proc[p].state.next]
    /\ Go(p, Idle)
    /\ UNCHANGED <<log, states, row, damages>>

-----------------------------------------------------------------------------
(* create_snapshot.                                                        *)

BeginSnapshot(p) ==
    /\ proc[p].at = "idle"
    /\ Go(p, [Idle EXCEPT !.at = "full", !.op = "snapshot"])
    /\ UNCHANGED <<log, states, row, loaded, damages>>

\* save_snapshot reads the prefix digest of the state, if replay did not raise.
SavePrefix(p) ==
    /\ Replayed(p, "snapshot")
    /\ Go(p, IF proc[p].state = Rejected THEN Idle
             ELSE [proc[p] EXCEPT !.at = "check", !.want = proc[p].state,
                                  !.prefix = PrefixDigest(proc[p].state.next)])
    /\ UNCHANGED <<log, states, row, loaded, damages>>

\* Mutant: the log is not cut to the prefix.
ReadUncut(p) ==
    /\ proc[p].at = "check"
    /\ Go(p, [proc[p] EXCEPT !.at = "replay", !.op = "save", !.state = InitialRun,
                             !.tail = log])
    /\ UNCHANGED <<log, states, row, loaded, damages>>

\* Then it reads the log again, cuts it to the prefix, and replays that too.
ReadPrefix(p) ==
    /\ proc[p].at = "check"
    /\ Go(p, [proc[p] EXCEPT !.at = "replay", !.op = "save", !.state = InitialRun,
                             !.tail = SubSeq(log, 1, proc[p].want.next - 1)])
    /\ UNCHANGED <<log, states, row, loaded, damages>>

RowOf(f) ==
    [schema |-> Schema, next |-> f.want.next, prefix |-> f.prefix, state |-> f.want,
     intact |-> TRUE]

\* The upsert: whatever row is there, older or newer, is replaced.
WriteRow(p) ==
    /\ Replayed(p, "save")
    /\ proc[p].state = proc[p].want
    /\ row' = RowOf(proc[p])
    /\ Go(p, Idle)
    /\ UNCHANGED <<log, states, loaded, damages>>

-----------------------------------------------------------------------------
(* What may happen to the row, and to a process.                           *)

\* The state's text is changed; its digest is the old one.
DamageState == row' = [row EXCEPT !.intact = FALSE, !.state.status = "failed"]

DamageNext == \E n \in 1..MaxEvents+1 : row' = [row EXCEPT !.next = n]

OldSchema == row' = [row EXCEPT !.schema = 1]

\* A sound row of another history of the run, one event long.
ForeignRow == \E e \in Elsewhere :
    /\ ReplayStep(InitialRun, e) # Rejected
    /\ row' = [schema |-> Schema, next |-> 2, prefix |-> <<e>>,
               state |-> ReplayStep(InitialRun, e), intact |-> TRUE]

DisturbRow ==
    /\ row # NoRow /\ damages < MaxDamages
    /\ damages' = damages + 1
    /\ DamageState \/ DamageNext \/ OldSchema \/ ForeignRow
    /\ UNCHANGED <<log, states, proc, loaded>>

\* A process dies, at a checkpoint of SnapshotCheckpoint or elsewhere.
Crash(p) ==
    /\ proc[p].at # "idle"
    /\ Go(p, Idle)
    /\ UNCHANGED <<log, states, row, loaded, damages>>

-----------------------------------------------------------------------------
\* What a process does on its own inside an operation.
Run(p) ==
    \/ ReadRow(p)    \/ CheckPrefix(p) \/ ReadTail(p)   \/ ReadAll(p)
    \/ ReplayOne(p)  \/ FinishLoad(p)
    \/ SavePrefix(p) \/ ReadPrefix(p)  \/ WriteRow(p)

Next ==
    \/ \E n \in 1..MaxEvents : \E e \in Offered(n) : AppendEvent(e)
    \/ DisturbRow
    \/ \E p \in Processes : BeginLoad(p) \/ BeginSnapshot(p) \/ Run(p) \/ Crash(p)

Spec == Init /\ [][Next]_vars
-----------------------------------------------------------------------------
Places == {"idle", "row", "prefix", "tail", "full", "replay", "check"}

TypeOK ==
    /\ Len(states) = Len(log) + 1
    /\ \A i \in 1..Len(log) : log[i] \in Offered(i)
    /\ \A p \in Processes : proc[p].at \in Places /\ proc[p].start <= Len(log)

\* The state a load is about to return is the replay of the whole log as it stood
\* at some moment during the load, whatever snapshot it used or threw away.
LoadsAreReplays ==
    \A p \in Processes : Replayed(p, "load") =>
        \E n \in proc[p].start..Len(log) : proc[p].state = states[n + 1]

\* A row that load_snapshot would accept holds the replay of the log's prefix, although
\* older snapshots replace newer ones and the row may be damaged.
AcceptedRowsAreReplays ==
    SelfConsistent(row) /\ PrefixMatches(row) =>
        row.next <= Len(states) /\ row.state = states[row.next]

\* The comparison that save_snapshot makes before it writes never fails: a snapshot
\* that replays is saved.
SavesSucceed ==
    \A p \in Processes : Replayed(p, "save") => proc[p].state = proc[p].want

\* A process never sees the run go back, although the snapshot may have.
LoadsNeverRegress ==
    [][\A p \in Processes : loaded'[p] >= loaded[p]]_vars
=============================================================================
