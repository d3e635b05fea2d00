-------------------------- MODULE FetchQueueRegimes --------------------------
(***************************************************************************)
(* FetchQueue under one of two kinds of misfortune. Two of its promises do  *)
(* not survive everything that FetchQueue allows, but each survives what    *)
(* would hurt the other one: fetches are exclusive although processes die   *)
(* and statements are lost, and dead jobs are marked although processes     *)
(* stall and renewals fail.                                                 *)
(***************************************************************************)
EXTENDS FetchQueue, TLC

CONSTANT DelayEntries   \* bound: entries there are in the second kind

ASSUME DelayEntriesAssumption == DelayEntries \subseteq Entries

VARIABLE regime         \* "deaths" or "delays"

RegimeVars == <<vars, regime>>

(* The lease of a worker that renews it runs out.                           *)
Stall == \E j \in JobIds : Renewed(j) /\ ExpireLease(j)

(* Processes die and statements are lost.                                   *)
DeathStep ==
    \/ \E w \in Workers : \/ WorkerStep(w) \/ RenewLease(w) \/ Restart(w) \/ Shutdown(w)
                          \/ Crash(w) \/ LostWrite(w) \/ LostLease(w)
    \/ TimeStep /\ ~Stall
    \/ UserStep \/ PurgeDead

(* Processes stall, renewals fail, an administrator steps in.               *)
DelayStep ==
    \/ \E w \in Workers : \/ WorkerStep(w) \/ RenewLease(w) \/ Restart(w) \/ Shutdown(w)
                          \/ RenewerStops(w)
    \/ \E e \in DelayEntries : Enqueue(e) \/ EditEntry(e) \/ DeleteEntry(e)
    \/ TimeStep \/ AdminStep \/ PurgeDead

RegimeInit == Init /\ regime \in {"deaths", "delays"}

RegimeNext ==
    /\ \/ regime = "deaths" /\ DeathStep
       \/ regime = "delays" /\ DelayStep
    /\ UNCHANGED regime

RegimeSpec == RegimeInit /\ [][RegimeNext]_RegimeVars

Symmetry == Permutations(Workers) \cup Permutations(JobIds)

(* As long as leases are renewed on time, and nobody takes a job away, two  *)
(* workers never fetch one entry at once, whichever of them die, restart or *)
(* do not see what their statements did.                                    *)
FetchesAreExclusive == regime = "deaths" => NoDoubleFetch

(* As long as no process dies between two statements, and none is lost, the *)
(* entry of a dead job has its failure mark, whatever takeovers, revivals   *)
(* and late results came before.                                            *)
DeathsAreMarked == regime = "delays" => DeadJobMarked
=============================================================================
