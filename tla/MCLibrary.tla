----------------------------- MODULE MCLibrary -----------------------------
(***************************************************************************)
(* Library for TLC: the first request may ask for anything, the second one  *)
(* for what races with it.                                                  *)
(***************************************************************************)
EXTENDS Library, TLC

CONSTANTS r1, r2

MCRequests == {r1, r2}
MCOps == (r1 :> AllOps) @@ (r2 :> {"purge"})
=============================================================================
