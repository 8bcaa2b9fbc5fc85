--------------------------- MODULE MCSnapshotStore ---------------------------
(***************************************************************************)
(* Small instances of SnapshotStore.                                       *)
(***************************************************************************)
EXTENDS SnapshotStore, TLC

CONSTANT call

Created(max) == [type |-> "run.created", id |-> 1, seq |-> 1, max |-> max]

\* A run is created with a budget of one step and started; then a tool is requested from
\* outside a model turn.  Elsewhere it was created without a budget.
MCEvents ==
    {Created(1),
     [type |-> "run.started", id |-> 1, seq |-> 1],
     [type |-> "tool.requested", id |-> 1, seq |-> 1, call |-> call, step |-> 0, action |-> 0]}

MCElsewhere == {Created(0)}

Symmetry == Permutations(Processes)
=============================================================================
