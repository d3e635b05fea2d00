----------------------------- MODULE MCAccounts -----------------------------
(***************************************************************************)
(* Accounts for TLC: one request registers, logs in or changes a password   *)
(* while the other one refreshes, or registers too.                         *)
(***************************************************************************)
EXTENDS Accounts, TLC

CONSTANTS u1, u2, r1, r2

MCOps == (r1 :> AllOps) @@ (r2 :> {"register", "refresh"})

Symmetry == Permutations({u1, u2})
=============================================================================
