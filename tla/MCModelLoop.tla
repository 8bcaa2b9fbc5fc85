----------------------------- MODULE MCModelLoop -----------------------------
(***************************************************************************)
(* Small instances of ModelLoop.                                           *)
(***************************************************************************)
EXTENDS ModelLoop

MCDigests == Calls \X {1}
=============================================================================
