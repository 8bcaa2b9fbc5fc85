---------------------------- MODULE EffectJournal ----------------------------
(***************************************************************************)
(* What DurableToolExecutor promises about one external effect: it is      *)
(* intended once, attempted - more than once only if its tool declares     *)
(* retries idempotent - and settled once, with a result that then stays.   *)
(***************************************************************************)
EXTENDS Naturals

CONSTANTS Effects,      \* effect ids
          Contents,     \* what an effect does: tool and arguments
          Idempotent,   \* the contents whose tool declares retry_is_idempotent
          Results,      \* receipts: outcome and output
          None          \* neither a content nor a result

VARIABLES intended,   \* effect -> content, or None
          attempts,   \* effect -> times the tool was invoked: none, one, several
          settled     \* effect -> result, or None
vars == <<intended, attempts, settled>>

Init ==
    /\ intended = [e \in Effects |-> None]
    /\ attempts = [e \in Effects |-> 0]
    /\ settled = [e \in Effects |-> None]

Intend(e, c) ==
    /\ intended[e] = None
    /\ intended' = [intended EXCEPT ![e] = c]
    /\ UNCHANGED <<attempts, settled>>

\* Bound: 2 stands for every larger number of attempts.
Counted(n) == IF n = 0 THEN 1 ELSE 2

Attempt(e) ==
    /\ intended[e] # None /\ settled[e] = None
    /\ attempts[e] > 0 => intended[e] \in Idempotent
    /\ attempts' = [attempts EXCEPT ![e] = Counted(@)]
    /\ UNCHANGED <<intended, settled>>

Settle(e, r) ==
    /\ attempts[e] > 0 /\ settled[e] = None
    /\ settled' = [settled EXCEPT ![e] = r]
    /\ UNCHANGED <<intended, attempts>>

Next == \E e \in Effects :
    \/ \E c \in Contents : Intend(e, c)
    \/ Attempt(e)
    \/ \E r \in Results : Settle(e, r)

Spec == Init /\ [][Next]_vars
=============================================================================
