---------------------------- MODULE MCFetchQueue ----------------------------
(***************************************************************************)
(* FetchQueue and its refinement mapping for TLC's safety runs: workers,    *)
(* entries and row ids are interchangeable.                                 *)
(***************************************************************************)
EXTENDS FetchQueueRefines, TLC

Symmetry ==
    Permutations(Workers) \cup Permutations(Entries) \cup Permutations(JobIds)
=============================================================================
