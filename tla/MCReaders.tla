----------------------------- MODULE MCReaders -----------------------------
(***************************************************************************)
(* Readers for TLC: two users; two entries of the first share their time, a *)
(* third is the other's; pages of one entry.                                *)
(***************************************************************************)
EXTENDS Readers, TLC

CONSTANTS u1, u2, t1

MCOwner == (1 :> u1) @@ (2 :> u1) @@ (3 :> u2) @@ (t1 :> u1)
MCCreated == (1 :> 5) @@ (2 :> 5) @@ (3 :> 4)

Everything == [with |-> {}, without |-> {}, domain |-> Ids, tag |-> {}, exclude_tag |-> {},
               untagged |-> FALSE, since |-> 0, before |-> 9]

MCFilters ==
    {[Everything EXCEPT !.without = {"archived"}],
     [Everything EXCEPT !.tag = {t1}, !.domain = {1, 2}]}
=============================================================================
