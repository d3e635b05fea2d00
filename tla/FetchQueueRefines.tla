------------------------- MODULE FetchQueueRefines -------------------------
(***************************************************************************)
(* The refinement mapping from the table and its workers to FetchPromise.   *)
(***************************************************************************)
EXTENDS FetchQueue

Promise == INSTANCE FetchPromise WITH
    asked    <- owed,
    queued   <- {e \in Entries : ActiveJobs(e) # {}},
    given_up <- {rows[j].entry : j \in DeadJobs},
    gone     <- {e \in Entries : content[e] = "gone"}

(* Every step of the queue is a step of the promise, or is invisible to it. *)
ImplementsPromise == Promise!Spec
=============================================================================
