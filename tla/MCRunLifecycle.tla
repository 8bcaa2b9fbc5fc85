--------------------------- MODULE MCRunLifecycle ---------------------------
(* TLC instance of RunLifecycle: tool calls and digests are interchangeable. *)
EXTENDS RunLifecycle, TLC

Symmetry == Permutations(Calls) \cup Permutations(Digests)
=============================================================================
