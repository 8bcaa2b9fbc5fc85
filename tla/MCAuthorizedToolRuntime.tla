----------------------- MODULE MCAuthorizedToolRuntime -----------------------
(***************************************************************************)
(* Small instances of AuthorizedToolRuntime.                               *)
(***************************************************************************)
EXTENDS AuthorizedToolRuntime, TLC

MCDigests == Requests \X GateModes \X (1..MaxRevision+1)

Symmetry == Permutations(Callers)
=============================================================================
