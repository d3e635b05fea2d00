---------------------------- MODULE FetchPromise ----------------------------
(***************************************************************************)
(* What the fetch queue promises to those who put entries into it, without  *)
(* rows, leases or workers: a job is kept for an entry as long as a request *)
(* for it is unanswered, and is closed only when it is answered, given up   *)
(* visibly (a dead job), or no longer wanted.                               *)
(***************************************************************************)
CONSTANTS
    Entries,
    Admin       \* whether an administrator may drop or revive jobs

VARIABLES
    asked,      \* entries with an unanswered request
    queued,     \* entries a job is kept for
    given_up,   \* entries with a dead job
    gone        \* deleted entries

vars == <<asked, queued, given_up, gone>>

Init == asked = {} /\ queued = {} /\ given_up = {} /\ gone = {}

(* A request is accepted for any entry there is, and queues it.             *)
Request(e) ==
    /\ e \notin gone
    /\ asked' = asked \cup {e}
    /\ queued' = queued \cup {e}
    /\ UNCHANGED <<given_up, gone>>

Answer(e) ==
    /\ asked' = asked \ {e}
    /\ UNCHANGED <<queued, given_up, gone>>

Close(e) ==
    /\ e \notin asked
    /\ queued' = queued \ {e}
    /\ UNCHANGED <<asked, given_up, gone>>

GiveUp(e) ==
    /\ e \in queued
    /\ asked' = asked \ {e}
    /\ queued' = queued \ {e}
    /\ given_up' = given_up \cup {e}
    /\ UNCHANGED gone

(* Old dead jobs are purged.                                                *)
Forget(S) ==
    /\ S \subseteq given_up
    /\ given_up' = given_up \ S
    /\ UNCHANGED <<asked, queued, gone>>

Delete(e) ==
    /\ gone' = gone \cup {e}
    /\ asked' = asked \ {e}
    /\ queued' = queued \ {e}
    /\ given_up' = given_up \ {e}

(* The administrator drops a job, or makes jobs start anew; dead jobs among *)
(* them are dead no more.                                                   *)
Drop(e) ==
    /\ Admin
    /\ asked' = asked \ {e}
    /\ queued' = queued \ {e}
    /\ UNCHANGED <<given_up, gone>>

Revive(S, T) ==
    /\ Admin
    /\ S \cap gone = {}
    /\ T \subseteq S
    /\ asked' = asked \cup S
    /\ queued' = queued \cup S
    /\ given_up' = given_up \ T
    /\ UNCHANGED gone

Next ==
    \/ \E e \in Entries : \/ Request(e) \/ Answer(e) \/ Close(e)
                          \/ GiveUp(e) \/ Delete(e) \/ Drop(e)
    \/ \E S \in SUBSET Entries : Forget(S)
    \/ \E S, T \in SUBSET Entries : Revive(S, T)

Spec == Init /\ [][Next]_vars

(* The promise itself.                                                      *)
Kept == asked \subseteq queued
=============================================================================
