----------------------------- MODULE ModelTurns -----------------------------
(***************************************************************************)
(* What the durable model-action boundary promises of a run's turns: one   *)
(* action per turn, in order.  A turn of the loop calls the adapter at     *)
(* most once, fixes the action it chose, and spends exactly that action.   *)
(* A one-turn entry point takes a turn the loop has not called for.        *)
(***************************************************************************)
EXTENDS Naturals

CONSTANTS Turns,      \* turn indexes
          Actions,    \* what an adapter may propose
          None        \* no action

VARIABLES calls,    \* turn -> calls of the adapter
          chosen,   \* turn -> the adapter's durable action, or None
          spent     \* turn -> the action the run acted on, or None
vars == <<calls, chosen, spent>>

Init ==
    /\ calls = [t \in Turns |-> 0]
    /\ chosen = [t \in Turns |-> None]
    /\ spent = [t \in Turns |-> None]

Open(t) ==
    /\ calls[t] = 0 /\ spent[t] = None
    /\ \A u \in Turns : u < t => spent[u] # None

Call(t) ==
    /\ Open(t)
    /\ calls' = [calls EXCEPT ![t] = 1]
    /\ UNCHANGED <<chosen, spent>>

Choose(t, a) ==
    /\ calls[t] = 1 /\ chosen[t] = None
    /\ chosen' = [chosen EXCEPT ![t] = a]
    /\ UNCHANGED <<calls, spent>>

Spend(t) ==
    /\ chosen[t] # None /\ spent[t] = None
    /\ spent' = [spent EXCEPT ![t] = chosen[t]]
    /\ UNCHANGED <<calls, chosen>>

Take(t, a) ==
    /\ Open(t)
    /\ spent' = [spent EXCEPT ![t] = a]
    /\ UNCHANGED <<calls, chosen>>

Next == \E t \in Turns :
    \/ Call(t)
    \/ \E a \in Actions : Choose(t, a) \/ Take(t, a)
    \/ Spend(t)

Spec == Init /\ [][Next]_vars
=============================================================================
