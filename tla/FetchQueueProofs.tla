-------------------------- MODULE FetchQueueProofs --------------------------
(***************************************************************************)
(* Proofs about FetchQueue, for any workers, entries, rows and faults.      *)
(*                                                                          *)
(* QueueInv is the inductive invariant. It strengthens the properties with  *)
(* SnapshotFresh: as long as leased_by still names a worker, the attempts   *)
(* and the entry it read when it leased the row are the row's own. Without  *)
(* it the decision of fail() could not be related to the row it writes.     *)
(* RequestInv adds what makes a request survive a completion. From it       *)
(* follows the refinement of FetchPromise, action by action, and RegimeInv  *)
(* extends it by what the regimes of FetchQueueRegimes protect.             *)
(***************************************************************************)
EXTENDS FetchQueueRefines, FetchQueueRegimes, TLAPS

(* What one row looks like, whatever happened to it.                        *)
LegalRow(r) ==
    /\ (r.status = "running") <=> (r.holder # NoWorker)
    /\ (r.holder # NoWorker) <=> (r.lease # "none")
    /\ r.status = "dead" => r.attempts = MaxAttempts
    /\ r.status = "failed" => r.attempts \in 1..(MaxAttempts - 1)
    /\ r.status = "pending" => r.attempts < MaxAttempts
    /\ r.status = "running" => r.attempts > 0
    /\ r.status # "absent" => r.entry \in Entries

LegalWorker(k) ==
    /\ (k.job # NoJob) <=> (k.pc \notin {"idle", "down"})
    /\ k.job # NoJob => k.entry \in Entries

RowsLegal == \A j \in JobIds : LegalRow(rows[j])
WorkersLegal == \A w \in Workers : LegalWorker(work[w])

SingleActive ==
    \A j, k \in JobIds :
        IsActive(j) /\ IsActive(k) /\ rows[j].entry = rows[k].entry => j = k

RowsHaveEntries ==
    \A j \in JobIds : rows[j].status # "absent" => content[rows[j].entry] # "gone"

(* The snapshot a worker took when it leased its row is still the row's.    *)
SnapshotFresh ==
    \A w \in Workers : Holds(w) =>
        /\ RowOf(w).entry = work[w].entry
        /\ RowOf(w).attempts = work[w].attempts

QueueInv ==
    /\ TypeOK
    /\ RowsLegal
    /\ WorkersLegal
    /\ SingleActive
    /\ RowsHaveEntries
    /\ SnapshotFresh

-----------------------------------------------------------------------------
(* The rows and workers the actions build.                                  *)

(* A row starts, and starts anew, with attempts its column may hold.        *)
LEMMA ZeroAttempts == 0 \in 0..MaxAttempts
  BY ConstantsAssumption

(* What enqueue inserts is a pending, unleased row of the entry.            *)
LEMMA NewRowFacts ==
  ASSUME NEW e \in Entries \cup {NoEntry}
  PROVE  /\ NewRow(e) \in Row
         /\ NewRow(e).entry = e
         /\ NewRow(e).status = "pending"
         /\ NewRow(e).attempts = 0
         /\ NewRow(e).lease = "none"
         /\ NewRow(e).holder = NoWorker
         /\ ~NewRow(e).again
  BY ConstantsAssumption DEF NewRow, Row, ActiveStatus

(* A deleted row is no row of any entry and has no holder.                  *)
LEMMA NoRowFacts ==
  /\ NoRow \in Row
  /\ NoRow.entry = NoEntry
  /\ NoRow.status = "absent"
  /\ NoRow.attempts = 0
  /\ NoRow.lease = "none"
  /\ NoRow.holder = NoWorker
  /\ ~NoRow.again
  BY NewRowFacts DEF NoRow, Row, ActiveStatus

(* complete, fail, release and the interventions clear the lease and the    *)
(* holder and keep the entry and the attempts.                              *)
LEMMA UnleasedFacts ==
  ASSUME NEW r \in Row, NEW s \in ActiveStatus \cup {"dead"}
  PROVE  /\ Unleased(r, s) \in Row
         /\ Unleased(r, s).entry = r.entry
         /\ Unleased(r, s).status = s
         /\ Unleased(r, s).attempts = r.attempts
         /\ Unleased(r, s).lease = "none"
         /\ Unleased(r, s).holder = NoWorker
         /\ Unleased(r, s).again = r.again
  BY DEF Unleased, Row

(* A requeued row starts afresh.                                            *)
LEMMA RequeuedFacts ==
  ASSUME NEW r \in Row
  PROVE  /\ Requeued(r) \in Row
         /\ Requeued(r).entry = r.entry
         /\ Requeued(r).status = "pending"
         /\ Requeued(r).attempts = 0
         /\ Requeued(r).lease = "none"
         /\ Requeued(r).holder = NoWorker
         /\ ~Requeued(r).again
<1> DEFINE u == Unleased(r, "pending")
<1>1. /\ u \in Row /\ u.entry = r.entry /\ u.status = "pending"
      /\ u.attempts = r.attempts /\ u.lease = "none" /\ u.holder = NoWorker
      /\ u.again = r.again
  BY UnleasedFacts DEF ActiveStatus
<1> HIDE DEF u
<1>2. Requeued(r) = [u EXCEPT !.attempts = 0, !.due = TRUE, !.again = FALSE]
  BY DEF Requeued, u
<1>. QED  BY <1>1, <1>2, ZeroAttempts DEF Row

(* A revived row starts afresh, but keeps its refetch flag.                 *)
LEMMA RevivedFacts ==
  ASSUME NEW r \in Row
  PROVE  /\ Revived(r) \in Row
         /\ Revived(r).entry = r.entry
         /\ Revived(r).status = "pending"
         /\ Revived(r).attempts = 0
         /\ Revived(r).lease = "none"
         /\ Revived(r).holder = NoWorker
         /\ Revived(r).again = r.again
<1> DEFINE u == Unleased(r, "pending")
<1>1. /\ u \in Row /\ u.entry = r.entry /\ u.status = "pending"
      /\ u.attempts = r.attempts /\ u.lease = "none" /\ u.holder = NoWorker
      /\ u.again = r.again
  BY UnleasedFacts DEF ActiveStatus
<1> HIDE DEF u
<1>2. Revived(r) = [u EXCEPT !.attempts = 0, !.due = TRUE,
                             !.priority = RevivePriority]
  BY DEF Revived, u
<1>. QED  BY <1>1, <1>2, ZeroAttempts DEF Row

(* A failed row keeps its attempts and loses its lease.                     *)
LEMMA BackingOffFacts ==
  ASSUME NEW r \in Row
  PROVE  /\ BackingOff(r) \in Row
         /\ BackingOff(r).entry = r.entry
         /\ BackingOff(r).status = "failed"
         /\ BackingOff(r).attempts = r.attempts
         /\ BackingOff(r).lease = "none"
         /\ BackingOff(r).holder = NoWorker
         /\ BackingOff(r).again = r.again
<1> DEFINE u == Unleased(r, "failed")
<1>1. /\ u \in Row /\ u.entry = r.entry /\ u.status = "failed"
      /\ u.attempts = r.attempts /\ u.lease = "none" /\ u.holder = NoWorker
      /\ u.again = r.again
  BY UnleasedFacts DEF ActiveStatus
<1> HIDE DEF u
<1>2. BackingOff(r) = [u EXCEPT !.due = FALSE]
  BY DEF BackingOff, u
<1>. QED  BY <1>1, <1>2 DEF Row

(* A released row gets one attempt back.                                    *)
LEMMA ReleasedFacts ==
  ASSUME NEW r \in Row
  PROVE  /\ Released(r) \in Row
         /\ Released(r).entry = r.entry
         /\ Released(r).status = "pending"
         /\ Released(r).attempts = Higher(r.attempts - 1, 0)
         /\ Released(r).lease = "none"
         /\ Released(r).holder = NoWorker
         /\ Released(r).again = r.again
  BY ConstantsAssumption, UnleasedFacts DEF Released, Higher, Row, ActiveStatus

(* An enqueue that meets an active row changes neither its lease nor its    *)
(* attempts, and flags it when it is running.                               *)
LEMMA WantedFacts ==
  ASSUME NEW r \in Row
  PROVE  /\ Wanted(r) \in Row
         /\ Wanted(r).entry = r.entry
         /\ Wanted(r).status = r.status
         /\ Wanted(r).attempts = r.attempts
         /\ Wanted(r).lease = r.lease
         /\ Wanted(r).holder = r.holder
         /\ r.again => Wanted(r).again
         /\ r.status = "running" => Wanted(r).again
  BY DEF Wanted, Higher, Row

(* The LEAST of dequeue_one stays within the bound of the column.           *)
LEMMA BumpedType ==
  ASSUME NEW n \in 0..MaxAttempts
  PROVE  Bumped(n) \in 1..MaxAttempts /\ Bumped(n) \in 0..MaxAttempts
  BY ConstantsAssumption DEF Bumped, Lesser

(* A leased row runs, belongs to the worker, and has used an attempt.       *)
LEMMA LeasedFacts ==
  ASSUME NEW r \in Row, NEW w \in Workers
  PROVE  /\ Leased(r, w) \in Row
         /\ Leased(r, w).entry = r.entry
         /\ Leased(r, w).status = "running"
         /\ Leased(r, w).attempts = Bumped(r.attempts)
         /\ Leased(r, w).attempts \in 1..MaxAttempts
         /\ Leased(r, w).lease = "live"
         /\ Leased(r, w).holder = w
         /\ Leased(r, w).again = r.again
<1>1. /\ Bumped(r.attempts) \in 1..MaxAttempts
      /\ Bumped(r.attempts) \in 0..MaxAttempts
  BY BumpedType DEF Row
<1>2. Leased(r, w) \in Row
  BY <1>1 DEF Leased, Row, ActiveStatus
<1>. QED  BY <1>1, <1>2 DEF Leased, Row

(* A worker without a job.                                                  *)
LEMMA IdleFacts ==
  /\ Idle \in Worker /\ Idle.pc = "idle" /\ Idle.job = NoJob
  /\ Down \in Worker /\ Down.pc = "down" /\ Down.job = NoJob
<1>1. Idle \in Worker /\ Idle.pc = "idle" /\ Idle.job = NoJob
  BY ConstantsAssumption DEF Idle, Worker
<1>. QED  BY <1>1 DEF Down, Worker

(* Time and the renewer change one column of a row.                         *)
LEMMA TouchedFacts ==
  ASSUME NEW r \in Row
  PROVE  /\ [r EXCEPT !.due = TRUE] \in Row
         /\ [r EXCEPT !.lease = "live"] \in Row
         /\ [r EXCEPT !.lease = "expired"] \in Row
  BY DEF Row

-----------------------------------------------------------------------------
(* Types.                                                                   *)

(* The first state is well typed.                                           *)
LEMMA TypeInit == Init => TypeOK
<1> SUFFICES ASSUME Init PROVE TypeOK
  OBVIOUS
<1>1. rows \in [JobIds -> Row]
  BY NoRowFacts DEF Init
<1>2. work \in [Workers -> Worker]
  BY IdleFacts DEF Init
<1>3. content \in [Entries -> ContentState]
  BY DEF Init, ContentState
<1>. QED  BY <1>1, <1>2, <1>3 DEF Init, TypeOK

(* Every action keeps the variables in their types. Retry needs RowsLegal:  *)
(* only a row that exists names an entry.                                   *)
LEMMA TypeNext == TypeOK /\ RowsLegal /\ [Next]_vars => TypeOK'
<1> SUFFICES ASSUME TypeOK, RowsLegal, [Next]_vars PROVE TypeOK'
  OBVIOUS
<1>1. ASSUME NEW w \in Workers, Dequeue(w) PROVE TypeOK'
  <2>1. rows' \in [JobIds -> Row]
    BY <1>1, LeasedFacts DEF Dequeue, Runnable, TypeOK
  <2>2. work' \in [Workers -> Worker]
    <3>1. PICK j \in Runnable :
            work' = [work EXCEPT ![w] = [pc |-> "fetching", job |-> j,
                       entry |-> rows[j].entry,
                       attempts |-> Bumped(rows[j].attempts), renewing |-> TRUE]]
      BY <1>1 DEF Dequeue
    <3>2. rows[j] \in Row /\ Bumped(rows[j].attempts) \in 0..MaxAttempts
      BY BumpedType DEF Runnable, TypeOK, Row
    <3>. QED  BY <3>1, <3>2 DEF Runnable, Row, Worker, Fetching, TypeOK
  <2>. QED  BY <1>1, <2>1, <2>2 DEF Dequeue, TypeOK
<1>2. ASSUME NEW w \in Workers, Save(w) PROVE TypeOK'
  <2>1. work' \in [Workers -> Worker]
    BY <1>2 DEF Save, Goto, Worker, Fetching, Settling, TypeOK
  <2>2. content' \in [Entries -> ContentState]
    BY <1>2 DEF Save, ContentState, TypeOK
  <2>. QED  BY <1>2, <2>1, <2>2 DEF Save, TypeOK
<1>3. ASSUME NEW w \in Workers, ProcessOk(w) PROVE TypeOK'
  <2>1. work' \in [Workers -> Worker]
    BY <1>3 DEF ProcessOk, Goto, Worker, Fetching, Settling, TypeOK
  <2>. QED  BY <1>3, <2>1 DEF ProcessOk, TypeOK
<1>4. ASSUME NEW w \in Workers, ProcessPermanent(w) PROVE TypeOK'
  <2>1. work' \in [Workers -> Worker]
    BY <1>4 DEF ProcessPermanent, Goto, Worker, Fetching, Settling, TypeOK
  <2>. QED  BY <1>4, <2>1 DEF ProcessPermanent, TypeOK
<1>5. ASSUME NEW w \in Workers, ProcessTransient(w) PROVE TypeOK'
  <2>1. work' \in [Workers -> Worker]
    BY <1>5 DEF ProcessTransient, Goto, Worker, Fetching, Settling, TypeOK
  <2>. QED  BY <1>5, <2>1 DEF ProcessTransient, TypeOK
<1>6. ASSUME NEW w \in Workers, MarkPermanent(w) PROVE TypeOK'
  <2>1. work' \in [Workers -> Worker]
    BY <1>6 DEF MarkPermanent, Goto, Worker, Fetching, Settling, TypeOK
  <2>2. content' \in [Entries -> ContentState]
    BY <1>6 DEF MarkPermanent, MarkFailed, ContentState, TypeOK
  <2>. QED  BY <1>6, <2>1, <2>2 DEF MarkPermanent, TypeOK
<1>7. ASSUME NEW w \in Workers, Complete(w) PROVE TypeOK'
  <2>1. rows' \in [JobIds -> Row]
    BY <1>7, RequeuedFacts, NoRowFacts DEF Complete, Holds, RowOf, CompletedRow, Worker, TypeOK
  <2>2. work' \in [Workers -> Worker]
    BY <1>7, IdleFacts DEF Complete, Return, TypeOK
  <2>. QED  BY <1>7, <2>1, <2>2 DEF Complete, Return, TypeOK
<1>8. ASSUME NEW w \in Workers, FailRetry(w) PROVE TypeOK'
  <2>1. rows' \in [JobIds -> Row]
    BY <1>8, BackingOffFacts DEF FailRetry, Holds, Worker, TypeOK
  <2>2. work' \in [Workers -> Worker]
    BY <1>8, IdleFacts DEF FailRetry, Return, TypeOK
  <2>. QED  BY <1>8, <2>1, <2>2 DEF FailRetry, Return, TypeOK
<1>9. ASSUME NEW w \in Workers, FailDead(w) PROVE TypeOK'
  <2>1. rows' \in [JobIds -> Row]
    BY <1>9, UnleasedFacts DEF FailDead, Holds, Worker, TypeOK
  <2>2. work' \in [Workers -> Worker]
    BY <1>9 DEF FailDead, Goto, Worker, Fetching, Settling, TypeOK
  <2>. QED  BY <1>9, <2>1, <2>2 DEF FailDead, TypeOK
<1>10. ASSUME NEW w \in Workers, MarkDead(w) PROVE TypeOK'
  <2>1. work' \in [Workers -> Worker]
    BY <1>10, IdleFacts DEF MarkDead, Return, TypeOK
  <2>2. content' \in [Entries -> ContentState]
    BY <1>10 DEF MarkDead, MarkFailed, ContentState, TypeOK
  <2>. QED  BY <1>10, <2>1, <2>2 DEF MarkDead, Return, TypeOK
<1>11. ASSUME NEW w \in Workers, RenewLease(w) PROVE TypeOK'
  <2>1. rows' \in [JobIds -> Row]
    <3>1. rows \in [JobIds -> Row] /\ work[w].job \in JobIds
      BY <1>11 DEF TypeOK, RenewLease, Holds, Worker
    <3>2. rows' = [rows EXCEPT ![work[w].job] = [rows[work[w].job] EXCEPT !.lease = "live"]]
      BY <1>11 DEF RenewLease
    <3>. QED  BY <3>1, <3>2, TouchedFacts
  <2>. QED  BY <1>11, <2>1 DEF RenewLease, TypeOK
<1>12. ASSUME NEW w \in Workers, Restart(w) PROVE TypeOK'
  <2>1. work' \in [Workers -> Worker]
    BY <1>12, IdleFacts DEF Restart, TypeOK
  <2>. QED  BY <1>12, <2>1 DEF Restart, TypeOK
<1>13. ASSUME NEW w \in Workers, Shutdown(w) PROVE TypeOK'
  <2>1. rows' \in [JobIds -> Row]
    BY <1>13, ReleasedFacts DEF Shutdown, Holds, RowOf, Worker, TypeOK
  <2>2. work' \in [Workers -> Worker]
    BY <1>13, IdleFacts DEF Shutdown, TypeOK
  <2>. QED  BY <1>13, <2>1, <2>2 DEF Shutdown, TypeOK
<1>14. ASSUME NEW w \in Workers, Crash(w) PROVE TypeOK'
  <2>1. work' \in [Workers -> Worker]
    BY <1>14, IdleFacts DEF Crash, TypeOK
  <2>. QED  BY <1>14, <2>1 DEF Crash, TypeOK
<1>15. ASSUME NEW w \in Workers, Panic(w) PROVE TypeOK'
  <2>1. work' \in [Workers -> Worker]
    BY <1>15 DEF Panic, Goto, Worker, Fetching, Settling, TypeOK
  <2>. QED  BY <1>15, <2>1 DEF Panic, TypeOK
<1>16. ASSUME NEW w \in Workers, RenewerStops(w) PROVE TypeOK'
  <2>1. work' \in [Workers -> Worker]
    BY <1>16 DEF RenewerStops, Worker, TypeOK
  <2>. QED  BY <1>16, <2>1 DEF RenewerStops, TypeOK
<1>17. ASSUME NEW w \in Workers, LostWrite(w) PROVE TypeOK'
  <2>1. work' \in [Workers -> Worker]
    BY <1>17, IdleFacts DEF LostWrite, Return, Goto, Worker, Fetching, Settling, TypeOK
  <2>. QED  BY <1>17, <2>1 DEF LostWrite, Return, TypeOK
<1>18. ASSUME NEW w \in Workers, LostLease(w) PROVE TypeOK'
  <2>1. rows' \in [JobIds -> Row]
    BY <1>18, LeasedFacts DEF LostLease, Runnable, TypeOK
  <2>. QED  BY <1>18, <2>1 DEF LostLease, TypeOK
<1>19. ASSUME NEW j \in JobIds, ExpireLease(j) PROVE TypeOK'
  <2>1. rows' \in [JobIds -> Row]
    <3>1. rows \in [JobIds -> Row] /\ j \in JobIds
      BY <1>19 DEF TypeOK
    <3>2. rows' = [rows EXCEPT ![j] = [rows[j] EXCEPT !.lease = "expired"]]
      BY <1>19 DEF ExpireLease
    <3>. QED  BY <3>1, <3>2, TouchedFacts
  <2>. QED  BY <1>19, <2>1 DEF ExpireLease, TypeOK
<1>20. ASSUME NEW j \in JobIds, BecomeDue(j) PROVE TypeOK'
  <2>1. rows' \in [JobIds -> Row]
    <3>1. rows \in [JobIds -> Row] /\ j \in JobIds
      BY <1>20 DEF TypeOK
    <3>2. rows' = [rows EXCEPT ![j] = [rows[j] EXCEPT !.due = TRUE]]
      BY <1>20 DEF BecomeDue
    <3>. QED  BY <3>1, <3>2, TouchedFacts
  <2>. QED  BY <1>20, <2>1 DEF BecomeDue, TypeOK
<1>21. ASSUME NEW j \in JobIds, DeleteJob(j) PROVE TypeOK'
  <2>1. rows' \in [JobIds -> Row]
    BY <1>21, NoRowFacts DEF DeleteJob, TypeOK
  <2>. QED  BY <1>21, <2>1 DEF DeleteJob, Row, TypeOK
<1>22. ASSUME NEW j \in JobIds, Retry(j) PROVE TypeOK'
  <2>1. rows' \in [JobIds -> Row]
    BY <1>22, RequeuedFacts DEF Retry, TypeOK
  <2>. QED  BY <1>22, <2>1 DEF Retry, RowsLegal, LegalRow, TypeOK
<1>23. ASSUME NEW e \in Entries, Enqueue(e) PROVE TypeOK'
  <2>1. rows' \in [JobIds -> Row]
    BY <1>23, WantedFacts, NewRowFacts DEF Enqueue, ActiveJobs, FreshIds, TypeOK
  <2>. QED  BY <1>23, <2>1 DEF Enqueue, TypeOK
<1>24. ASSUME NEW e \in Entries, EditEntry(e) PROVE TypeOK'
  <2>1. content' \in [Entries -> ContentState]
    BY <1>24 DEF EditEntry, ContentState, TypeOK
  <2>. QED  BY <1>24, <2>1 DEF EditEntry, TypeOK
<1>25. ASSUME NEW e \in Entries, DeleteEntry(e) PROVE TypeOK'
  <2>1. rows' \in [JobIds -> Row]
    BY <1>25, NoRowFacts DEF DeleteEntry, TypeOK
  <2>2. content' \in [Entries -> ContentState]
    BY <1>25 DEF DeleteEntry, ContentState, TypeOK
  <2>. QED  BY <1>25, <2>1, <2>2 DEF DeleteEntry, TypeOK
<1>26. ASSUME RetryAllDead PROVE TypeOK'
  <2>1. rows' \in [JobIds -> Row]
    BY <1>26, RevivedFacts DEF RetryAllDead, TypeOK
  <2>. QED  BY <1>26, <2>1 DEF RetryAllDead, RowsLegal, LegalRow, DeadJobs, TypeOK
<1>27. ASSUME PurgeDead PROVE TypeOK'
  <2>1. rows' \in [JobIds -> Row]
    BY <1>27, NoRowFacts DEF PurgeDead, TypeOK
  <2>. QED  BY <1>27, <2>1 DEF PurgeDead, TypeOK
<1>28. CASE UNCHANGED vars
  BY <1>28 DEF vars, TypeOK
<1>. QED
  BY <1>1, <1>2, <1>3, <1>4, <1>5, <1>6, <1>7, <1>8, <1>9, <1>10, <1>11,
     <1>12, <1>13, <1>14, <1>15, <1>16, <1>17, <1>18, <1>19, <1>20,
     <1>21, <1>22, <1>23, <1>24, <1>25, <1>26, <1>27, <1>28 DEF Next,
     SystemStep, EnvironmentStep, WorkerStep, TimeStep, UserStep, AdminStep,
     FaultStep

-----------------------------------------------------------------------------
(* Rows. These are the steps that touch the table.                          *)
RowStep ==
    \/ \E w \in Workers : \/ Dequeue(w) \/ Complete(w) \/ FailRetry(w) \/ FailDead(w)
                          \/ RenewLease(w) \/ Shutdown(w) \/ LostLease(w)
    \/ \E j \in JobIds : ExpireLease(j) \/ BecomeDue(j) \/ DeleteJob(j) \/ Retry(j)
    \/ \E e \in Entries : Enqueue(e) \/ DeleteEntry(e)
    \/ RetryAllDead \/ PurgeDead

(* The others, none of which deletes an entry or asks for one.               *)
QuietStep ==
    /\ rows' = rows
    /\ \A e \in Entries : content'[e] = "gone" => content[e] = "gone"
    /\ owed' \subseteq owed

(* A step touches the table or is quiet.                                    *)
LEMMA RowSteps == TypeOK /\ [Next]_vars => RowStep \/ QuietStep
<1> SUFFICES ASSUME TypeOK, [Next]_vars PROVE RowStep \/ QuietStep
  OBVIOUS
<1>1. ASSUME NEW w \in Workers,
             \/ Save(w) \/ MarkPermanent(w) \/ MarkDead(w)
      PROVE  QuietStep
  BY <1>1 DEF Save, MarkPermanent, MarkDead, MarkFailed, QuietStep, TypeOK
<1>2. ASSUME NEW w \in Workers,
             \/ ProcessOk(w) \/ ProcessPermanent(w) \/ ProcessTransient(w)
             \/ Restart(w) \/ Crash(w) \/ Panic(w) \/ RenewerStops(w)
             \/ LostWrite(w)
      PROVE  QuietStep
  BY <1>2 DEF ProcessOk, ProcessPermanent, ProcessTransient, Restart, Crash,
     Panic, RenewerStops, LostWrite, QuietStep
<1>3. ASSUME NEW e \in Entries, EditEntry(e) PROVE QuietStep
  BY <1>3 DEF EditEntry, QuietStep, TypeOK
<1>4. CASE UNCHANGED vars
  BY <1>4 DEF vars, QuietStep
<1>. QED
  BY <1>1, <1>2, <1>3, <1>4 DEF Next, SystemStep, EnvironmentStep, WorkerStep,
     TimeStep, UserStep, AdminStep, FaultStep, RowStep

(* Every row stays legal. The step that matters is fail: it decides on the  *)
(* worker's snapshot of the attempts, which SnapshotFresh ties to the row.  *)
LEMMA RowsLegalNext == TypeOK /\ RowsLegal /\ SnapshotFresh /\ [Next]_vars => RowsLegal'
<1> SUFFICES ASSUME TypeOK, RowsLegal, SnapshotFresh, [Next]_vars PROVE RowsLegal'
  OBVIOUS
<1>1. ASSUME NEW w \in Workers, Dequeue(w) PROVE RowsLegal'
  BY <1>1, LeasedFacts, ConstantsAssumption DEF Dequeue, Runnable, RowsLegal,
     LegalRow, IsActive, ActiveStatus, Row, TypeOK
<1>2. ASSUME NEW w \in Workers, Complete(w) PROVE RowsLegal'
  BY <1>2, RequeuedFacts, NoRowFacts, ConstantsAssumption DEF Complete, Holds,
     RowOf, CompletedRow, Worker, RowsLegal, LegalRow, IsActive, ActiveStatus,
     Row, TypeOK
<1>3. ASSUME NEW w \in Workers, FailRetry(w) PROVE RowsLegal'
  <2>1. CASE ~Holds(w)
    BY <1>3, <2>1 DEF FailRetry, RowsLegal
  <2>2. CASE Holds(w)
    <3> DEFINE r == rows[work[w].job]
    <3>1. /\ work[w].job \in JobIds /\ r \in Row /\ LegalRow(r)
          /\ r.status = "running" /\ r.attempts = work[w].attempts
      BY <2>2, ConstantsAssumption
         DEF Holds, TypeOK, Worker, RowsLegal, LegalRow, SnapshotFresh, RowOf
    <3>2. LegalRow(BackingOff(r))
      BY <1>3, <3>1, BackingOffFacts, ConstantsAssumption DEF FailRetry, LegalRow, Row
    <3>. QED  BY <1>3, <2>2, <3>1, <3>2 DEF FailRetry, RowsLegal, TypeOK
  <2>. QED  BY <2>1, <2>2
<1>4. ASSUME NEW w \in Workers, FailDead(w) PROVE RowsLegal'
  <2>1. CASE ~Holds(w)
    BY <1>4, <2>1 DEF FailDead, RowsLegal
  <2>2. CASE Holds(w)
    <3> DEFINE r == rows[work[w].job]
    <3>1. /\ work[w].job \in JobIds /\ r \in Row /\ LegalRow(r)
          /\ r.status = "running" /\ r.attempts = work[w].attempts
      BY <2>2, ConstantsAssumption
         DEF Holds, TypeOK, Worker, RowsLegal, LegalRow, SnapshotFresh, RowOf
    <3>2. LegalRow(Unleased(r, "dead"))
      BY <1>4, <3>1, UnleasedFacts, ConstantsAssumption DEF FailDead, LegalRow, Row
    <3>. QED  BY <1>4, <2>2, <3>1, <3>2 DEF FailDead, RowsLegal, TypeOK
  <2>. QED  BY <2>1, <2>2
<1>5. ASSUME NEW w \in Workers, RenewLease(w) PROVE RowsLegal'
  BY <1>5, ConstantsAssumption DEF RenewLease, Holds, RowOf, Row, Worker,
     RowsLegal, LegalRow, IsActive, ActiveStatus, Row, TypeOK
<1>6. ASSUME NEW w \in Workers, Shutdown(w) PROVE RowsLegal'
  <2> DEFINE r == rows[work[w].job]
  <2>1. CASE ~(Holds(w) /\ RowOf(w).status = "running")
    BY <1>6, <2>1 DEF Shutdown, RowsLegal
  <2>2. CASE Holds(w) /\ RowOf(w).status = "running"
    <3>1. work[w].job \in JobIds /\ r \in Row /\ LegalRow(r)
      BY <2>2 DEF Holds, TypeOK, Worker, RowsLegal
    <3>2. LegalRow(Released(r))
      BY <2>2, <3>1, ReleasedFacts, ConstantsAssumption DEF LegalRow, Row, Higher, RowOf
    <3>. QED  BY <1>6, <2>2, <3>1, <3>2 DEF Shutdown, RowsLegal, TypeOK
  <2>. QED  BY <2>1, <2>2
<1>7. ASSUME NEW w \in Workers, LostLease(w) PROVE RowsLegal'
  BY <1>7, LeasedFacts, ConstantsAssumption DEF LostLease, Runnable,
     RowsLegal, LegalRow, IsActive, ActiveStatus, Row, TypeOK
<1>8. ASSUME NEW j \in JobIds, ExpireLease(j) PROVE RowsLegal'
  BY <1>8, ConstantsAssumption DEF ExpireLease, Row, RowsLegal, LegalRow,
     IsActive, ActiveStatus, Row, TypeOK
<1>9. ASSUME NEW j \in JobIds, BecomeDue(j) PROVE RowsLegal'
  BY <1>9, ConstantsAssumption DEF BecomeDue, Row, RowsLegal, LegalRow,
     IsActive, ActiveStatus, Row, TypeOK
<1>10. ASSUME NEW j \in JobIds, DeleteJob(j) PROVE RowsLegal'
  BY <1>10, NoRowFacts, ConstantsAssumption DEF DeleteJob, RowsLegal,
     LegalRow, IsActive, ActiveStatus, Row, TypeOK
<1>11. ASSUME NEW j \in JobIds, Retry(j) PROVE RowsLegal'
  BY <1>11, RequeuedFacts, ConstantsAssumption DEF Retry, RowsLegal, LegalRow,
     IsActive, ActiveStatus, Row, TypeOK
<1>12. ASSUME NEW e \in Entries, Enqueue(e) PROVE RowsLegal'
  <2>1. ASSUME NEW j \in ActiveJobs(e), rows' = [rows EXCEPT ![j] = Wanted(rows[j])]
        PROVE  RowsLegal'
    <3>1. rows[j] \in Row /\ LegalRow(rows[j])
      BY DEF ActiveJobs, TypeOK, RowsLegal
    <3>2. LegalRow(Wanted(rows[j]))
      BY <3>1, WantedFacts DEF LegalRow
    <3>. QED  BY <2>1, <3>2 DEF RowsLegal, ActiveJobs, TypeOK
  <2>2. ASSUME NEW j \in FreshIds, rows' = [rows EXCEPT ![j] = NewRow(e)]
        PROVE  RowsLegal'
    <3>1. LegalRow(NewRow(e))
      BY NewRowFacts, ConstantsAssumption DEF LegalRow
    <3>. QED  BY <2>2, <3>1 DEF RowsLegal, FreshIds, TypeOK
  <2>3. \/ \E j \in ActiveJobs(e) : rows' = [rows EXCEPT ![j] = Wanted(rows[j])]
        \/ \E j \in FreshIds : rows' = [rows EXCEPT ![j] = NewRow(e)]
    BY <1>12 DEF Enqueue
  <2>. QED  BY <2>1, <2>2, <2>3, Zenon
<1>13. ASSUME NEW e \in Entries, DeleteEntry(e) PROVE RowsLegal'
  BY <1>13, NoRowFacts, ConstantsAssumption DEF DeleteEntry, RowsLegal,
     LegalRow, IsActive, ActiveStatus, Row, TypeOK
<1>14. ASSUME RetryAllDead PROVE RowsLegal'
  BY <1>14, RevivedFacts, ConstantsAssumption DEF RetryAllDead, DeadJobs,
     RowsLegal, LegalRow, IsActive, ActiveStatus, Row, TypeOK
<1>15. ASSUME PurgeDead PROVE RowsLegal'
  BY <1>15, NoRowFacts, ConstantsAssumption DEF PurgeDead, DeadJobs,
     RowsLegal, LegalRow, IsActive, ActiveStatus, Row, TypeOK
<1>16. CASE QuietStep
  BY <1>16 DEF QuietStep, RowsLegal
<1>. QED
  BY <1>1, <1>2, <1>3, <1>4, <1>5, <1>6, <1>7, <1>8, <1>9, <1>10, <1>11,
     <1>12, <1>13, <1>14, <1>15, <1>16, RowSteps DEF RowStep

(* No step makes a second active row for an entry: enqueue looks for one,   *)
(* and the unique index stands behind retry and retry_all_dead.             *)
LEMMA SingleActiveNext == TypeOK /\ RowsLegal /\ SingleActive /\ [Next]_vars => SingleActive'
<1> SUFFICES ASSUME TypeOK, RowsLegal, SingleActive, [Next]_vars PROVE SingleActive'
  OBVIOUS
<1>1. ASSUME NEW w \in Workers, Dequeue(w) PROVE SingleActive'
  BY <1>1, LeasedFacts, ConstantsAssumption DEF Dequeue, Runnable,
     SingleActive, IsActive, ActiveStatus, RowsLegal, LegalRow, TypeOK
<1>2. ASSUME NEW w \in Workers, Complete(w) PROVE SingleActive'
  BY <1>2, RequeuedFacts, NoRowFacts, ConstantsAssumption DEF Complete, Holds,
     RowOf, CompletedRow, Worker, SingleActive, IsActive, ActiveStatus,
     RowsLegal, LegalRow, TypeOK
<1>3. ASSUME NEW w \in Workers, FailRetry(w) PROVE SingleActive'
  BY <1>3, BackingOffFacts, ConstantsAssumption DEF FailRetry, Holds, Worker,
     SingleActive, IsActive, ActiveStatus, RowsLegal, LegalRow, TypeOK
<1>4. ASSUME NEW w \in Workers, FailDead(w) PROVE SingleActive'
  BY <1>4, UnleasedFacts, ConstantsAssumption DEF FailDead, Holds, Worker,
     SingleActive, IsActive, ActiveStatus, RowsLegal, LegalRow, TypeOK
<1>5. ASSUME NEW w \in Workers, RenewLease(w) PROVE SingleActive'
  BY <1>5, ConstantsAssumption DEF RenewLease, Holds, RowOf, Row, Worker,
     SingleActive, IsActive, ActiveStatus, RowsLegal, LegalRow, TypeOK
<1>6. ASSUME NEW w \in Workers, Shutdown(w) PROVE SingleActive'
  BY <1>6, ReleasedFacts, ConstantsAssumption DEF Shutdown, Holds, RowOf,
     Worker, SingleActive, IsActive, ActiveStatus, RowsLegal, LegalRow, TypeOK
<1>7. ASSUME NEW w \in Workers, LostLease(w) PROVE SingleActive'
  BY <1>7, LeasedFacts, ConstantsAssumption DEF LostLease, Runnable,
     SingleActive, IsActive, ActiveStatus, RowsLegal, LegalRow, TypeOK
<1>8. ASSUME NEW j \in JobIds, ExpireLease(j) PROVE SingleActive'
  BY <1>8, ConstantsAssumption DEF ExpireLease, Row, SingleActive, IsActive,
     ActiveStatus, RowsLegal, LegalRow, TypeOK
<1>9. ASSUME NEW j \in JobIds, BecomeDue(j) PROVE SingleActive'
  BY <1>9, ConstantsAssumption DEF BecomeDue, Row, SingleActive, IsActive,
     ActiveStatus, RowsLegal, LegalRow, TypeOK
<1>10. ASSUME NEW j \in JobIds, DeleteJob(j) PROVE SingleActive'
  BY <1>10, NoRowFacts, ConstantsAssumption DEF DeleteJob, SingleActive,
     IsActive, ActiveStatus, RowsLegal, LegalRow, TypeOK
<1>11. ASSUME NEW j \in JobIds, Retry(j) PROVE SingleActive'
  <2>1. rows[j] \in Row /\ Requeued(rows[j]).entry = rows[j].entry
    BY RequeuedFacts DEF TypeOK
  <2>2. ASSUME NEW i \in JobIds, IsActive(i), i # j PROVE rows[i].entry # rows[j].entry
    BY <1>11, <2>2 DEF Retry, ActiveJobs
  <2>3. ASSUME NEW i \in JobIds, i # j PROVE rows'[i] = rows[i]
    BY <1>11, <2>3 DEF Retry
  <2>4. rows'[j].entry = rows[j].entry
    BY <1>11, <2>1 DEF Retry, TypeOK
  <2>. QED  BY <2>2, <2>3, <2>4 DEF SingleActive, IsActive
<1>12. ASSUME NEW e \in Entries, Enqueue(e) PROVE SingleActive'
  BY <1>12, WantedFacts, NewRowFacts, ConstantsAssumption DEF Enqueue,
     ActiveJobs, FreshIds, SingleActive, IsActive, ActiveStatus, RowsLegal,
     LegalRow, TypeOK
<1>13. ASSUME NEW e \in Entries, DeleteEntry(e) PROVE SingleActive'
  BY <1>13, NoRowFacts, ConstantsAssumption DEF DeleteEntry, SingleActive,
     IsActive, ActiveStatus, RowsLegal, LegalRow, TypeOK
<1>14. ASSUME RetryAllDead PROVE SingleActive'
  <2>1. PICK P \in SUBSET DeadJobs :
          /\ Revivable(P)
          /\ rows' = [j \in JobIds |-> IF j \in P THEN Revived(rows[j]) ELSE rows[j]]
    BY <1>14 DEF RetryAllDead
  <2>2. ASSUME NEW i \in JobIds
        PROVE  /\ rows'[i].entry = rows[i].entry
               /\ i \notin P => rows'[i] = rows[i]
    BY <2>1, RevivedFacts DEF TypeOK
  <2>3. ASSUME NEW i \in P, NEW k \in JobIds, IsActive(k) PROVE rows[k].entry # rows[i].entry
    BY <2>1, <2>3 DEF Revivable, ActiveJobs, DeadJobs
  <2>4. ASSUME NEW i \in P, NEW k \in P, rows[k].entry = rows[i].entry PROVE i = k
    BY <2>1, <2>4 DEF Revivable
  <2> SUFFICES ASSUME NEW i \in JobIds, NEW k \in JobIds, IsActive(i)', IsActive(k)',
                      rows'[i].entry = rows'[k].entry
               PROVE  i = k
    BY DEF SingleActive
  <2>5. rows[i].entry = rows[k].entry
    BY <2>2
  <2>6. CASE i \in P /\ k \in P
    BY <2>4, <2>5, <2>6
  <2>7. CASE i \in P /\ k \notin P
    BY <2>2, <2>3, <2>5, <2>7 DEF IsActive
  <2>8. CASE i \notin P /\ k \in P
    BY <2>2, <2>3, <2>5, <2>8 DEF IsActive
  <2>9. CASE i \notin P /\ k \notin P
    BY <2>2, <2>5, <2>9 DEF SingleActive, IsActive
  <2>. QED  BY <2>6, <2>7, <2>8, <2>9
<1>15. ASSUME PurgeDead PROVE SingleActive'
  BY <1>15, NoRowFacts, ConstantsAssumption DEF PurgeDead, DeadJobs,
     SingleActive, IsActive, ActiveStatus, RowsLegal, LegalRow, TypeOK
<1>16. CASE QuietStep
  BY <1>16 DEF QuietStep, SingleActive, IsActive
<1>. QED
  BY <1>1, <1>2, <1>3, <1>4, <1>5, <1>6, <1>7, <1>8, <1>9, <1>10, <1>11,
     <1>12, <1>13, <1>14, <1>15, <1>16, RowSteps DEF RowStep

(* The cascade of the foreign key leaves no row of a deleted entry.         *)
LEMMA RowsHaveEntriesNext == TypeOK /\ RowsLegal /\ RowsHaveEntries /\ [Next]_vars => RowsHaveEntries'
<1> SUFFICES ASSUME TypeOK, RowsLegal, RowsHaveEntries, [Next]_vars PROVE RowsHaveEntries'
  OBVIOUS
<1>1. ASSUME NEW w \in Workers, Dequeue(w) PROVE RowsHaveEntries'
  BY <1>1, LeasedFacts, ConstantsAssumption DEF Dequeue, Runnable,
     RowsHaveEntries, IsActive, ActiveStatus, RowsLegal, LegalRow, TypeOK
<1>2. ASSUME NEW w \in Workers, Complete(w) PROVE RowsHaveEntries'
  BY <1>2, RequeuedFacts, NoRowFacts, ConstantsAssumption DEF Complete, Holds,
     RowOf, CompletedRow, Worker, RowsHaveEntries, IsActive, ActiveStatus,
     RowsLegal, LegalRow, TypeOK
<1>3. ASSUME NEW w \in Workers, FailRetry(w) PROVE RowsHaveEntries'
  BY <1>3, BackingOffFacts, ConstantsAssumption DEF FailRetry, Holds, Worker,
     RowsHaveEntries, IsActive, ActiveStatus, RowsLegal, LegalRow, TypeOK
<1>4. ASSUME NEW w \in Workers, FailDead(w) PROVE RowsHaveEntries'
  BY <1>4, UnleasedFacts, ConstantsAssumption DEF FailDead, Holds, Worker,
     RowsHaveEntries, IsActive, ActiveStatus, RowsLegal, LegalRow, TypeOK
<1>5. ASSUME NEW w \in Workers, RenewLease(w) PROVE RowsHaveEntries'
  BY <1>5, ConstantsAssumption DEF RenewLease, Holds, RowOf, Row, Worker,
     RowsHaveEntries, IsActive, ActiveStatus, RowsLegal, LegalRow, TypeOK
<1>6. ASSUME NEW w \in Workers, Shutdown(w) PROVE RowsHaveEntries'
  BY <1>6, ReleasedFacts, ConstantsAssumption DEF Shutdown, Holds, RowOf,
     Worker, RowsHaveEntries, IsActive, ActiveStatus, RowsLegal, LegalRow,
     TypeOK
<1>7. ASSUME NEW w \in Workers, LostLease(w) PROVE RowsHaveEntries'
  BY <1>7, LeasedFacts, ConstantsAssumption DEF LostLease, Runnable,
     RowsHaveEntries, IsActive, ActiveStatus, RowsLegal, LegalRow, TypeOK
<1>8. ASSUME NEW j \in JobIds, ExpireLease(j) PROVE RowsHaveEntries'
  BY <1>8, ConstantsAssumption DEF ExpireLease, Row, RowsHaveEntries,
     IsActive, ActiveStatus, RowsLegal, LegalRow, TypeOK
<1>9. ASSUME NEW j \in JobIds, BecomeDue(j) PROVE RowsHaveEntries'
  BY <1>9, ConstantsAssumption DEF BecomeDue, Row, RowsHaveEntries, IsActive,
     ActiveStatus, RowsLegal, LegalRow, TypeOK
<1>10. ASSUME NEW j \in JobIds, DeleteJob(j) PROVE RowsHaveEntries'
  BY <1>10, NoRowFacts, ConstantsAssumption DEF DeleteJob, RowsHaveEntries,
     IsActive, ActiveStatus, RowsLegal, LegalRow, TypeOK
<1>11. ASSUME NEW j \in JobIds, Retry(j) PROVE RowsHaveEntries'
  BY <1>11, RequeuedFacts, ConstantsAssumption DEF Retry, RowsHaveEntries,
     IsActive, ActiveStatus, RowsLegal, LegalRow, TypeOK
<1>12. ASSUME NEW e \in Entries, Enqueue(e) PROVE RowsHaveEntries'
  BY <1>12, WantedFacts, NewRowFacts, ConstantsAssumption DEF Enqueue,
     ActiveJobs, FreshIds, RowsHaveEntries, IsActive, ActiveStatus, RowsLegal,
     LegalRow, TypeOK
<1>13. ASSUME NEW e \in Entries, DeleteEntry(e) PROVE RowsHaveEntries'
  BY <1>13, NoRowFacts, ConstantsAssumption DEF DeleteEntry, RowsHaveEntries,
     IsActive, ActiveStatus, RowsLegal, LegalRow, TypeOK
<1>14. ASSUME RetryAllDead PROVE RowsHaveEntries'
  BY <1>14, RevivedFacts, ConstantsAssumption DEF RetryAllDead, DeadJobs,
     RowsHaveEntries, IsActive, ActiveStatus, RowsLegal, LegalRow, TypeOK
<1>15. ASSUME PurgeDead PROVE RowsHaveEntries'
  BY <1>15, NoRowFacts, ConstantsAssumption DEF PurgeDead, DeadJobs,
     RowsHaveEntries, IsActive, ActiveStatus, RowsLegal, LegalRow, TypeOK
<1>16. CASE QuietStep
  BY <1>16 DEF QuietStep, RowsHaveEntries, RowsLegal, LegalRow, TypeOK
<1>. QED
  BY <1>1, <1>2, <1>3, <1>4, <1>5, <1>6, <1>7, <1>8, <1>9, <1>10, <1>11,
     <1>12, <1>13, <1>14, <1>15, <1>16, RowSteps DEF RowStep

(* Outside a lease, a worker keeps its snapshot or drops its job, and a row  *)
(* keeps what the snapshot records or drops its holder.                     *)
WorkersKeep ==
    \A v \in Workers : work'[v].job # NoJob =>
        /\ work'[v].job = work[v].job
        /\ work'[v].entry = work[v].entry
        /\ work'[v].attempts = work[v].attempts

RowsKeep ==
    \A i \in JobIds : rows'[i].holder # NoWorker =>
        /\ rows'[i].holder = rows[i].holder
        /\ rows'[i].entry = rows[i].entry
        /\ rows'[i].attempts = rows[i].attempts
        /\ rows[i].again => rows'[i].again

(* Snapshots stay fresh when workers and rows keep what they record.        *)
LEMMA KeptSnapshot ==
  ASSUME TypeOK, TypeOK', WorkersKeep, RowsKeep, SnapshotFresh
  PROVE  SnapshotFresh'
<1> SUFFICES ASSUME NEW v \in Workers, Holds(v)'
             PROVE  /\ RowOf(v).entry' = work'[v].entry
                    /\ RowOf(v).attempts' = work'[v].attempts
  BY DEF SnapshotFresh
<1>1. /\ work'[v].job = work[v].job /\ work[v].job \in JobIds
      /\ work'[v].entry = work[v].entry /\ work'[v].attempts = work[v].attempts
  BY DEF Holds, WorkersKeep, TypeOK, Worker
<1>2. rows'[work[v].job].holder = v /\ v # NoWorker
  BY <1>1, ConstantsAssumption DEF Holds
<1>3. /\ rows[work[v].job].holder = v
      /\ rows'[work[v].job].entry = rows[work[v].job].entry
      /\ rows'[work[v].job].attempts = rows[work[v].job].attempts
  BY <1>1, <1>2 DEF RowsKeep
<1>4. Holds(v)
  BY <1>1, <1>3, ConstantsAssumption DEF Holds
<1>. QED  BY <1>1, <1>3, <1>4 DEF SnapshotFresh, RowOf

(* Only dequeue gives a worker a job.                                       *)
LEMMA WorkersKeepNext ==
  TypeOK /\ [Next]_vars => WorkersKeep \/ \E w \in Workers : Dequeue(w)
<1> SUFFICES ASSUME TypeOK, [Next]_vars, \A w \in Workers : ~Dequeue(w)
             PROVE  WorkersKeep
  OBVIOUS
<1>1. ASSUME NEW w \in Workers, Save(w) PROVE WorkersKeep
  BY <1>1 DEF Save, Goto, WorkersKeep, TypeOK, Worker
<1>2. ASSUME NEW w \in Workers, ProcessOk(w) PROVE WorkersKeep
  BY <1>2 DEF ProcessOk, Goto, WorkersKeep, TypeOK, Worker
<1>3. ASSUME NEW w \in Workers, ProcessPermanent(w) PROVE WorkersKeep
  BY <1>3 DEF ProcessPermanent, Goto, WorkersKeep, TypeOK, Worker
<1>4. ASSUME NEW w \in Workers, ProcessTransient(w) PROVE WorkersKeep
  BY <1>4 DEF ProcessTransient, Goto, WorkersKeep, TypeOK, Worker
<1>5. ASSUME NEW w \in Workers, MarkPermanent(w) PROVE WorkersKeep
  BY <1>5 DEF MarkPermanent, Goto, WorkersKeep, TypeOK, Worker
<1>6. ASSUME NEW w \in Workers, Complete(w) PROVE WorkersKeep
  BY <1>6, IdleFacts DEF Complete, Return, WorkersKeep, TypeOK, Worker
<1>7. ASSUME NEW w \in Workers, FailRetry(w) PROVE WorkersKeep
  BY <1>7, IdleFacts DEF FailRetry, Return, WorkersKeep, TypeOK, Worker
<1>8. ASSUME NEW w \in Workers, FailDead(w) PROVE WorkersKeep
  BY <1>8 DEF FailDead, Goto, WorkersKeep, TypeOK, Worker
<1>9. ASSUME NEW w \in Workers, MarkDead(w) PROVE WorkersKeep
  BY <1>9, IdleFacts DEF MarkDead, Return, WorkersKeep, TypeOK, Worker
<1>10. ASSUME NEW w \in Workers, Restart(w) PROVE WorkersKeep
  BY <1>10, IdleFacts DEF Restart, WorkersKeep, TypeOK, Worker
<1>11. ASSUME NEW w \in Workers, Shutdown(w) PROVE WorkersKeep
  BY <1>11, IdleFacts DEF Shutdown, WorkersKeep, TypeOK, Worker
<1>12. ASSUME NEW w \in Workers, Crash(w) PROVE WorkersKeep
  BY <1>12, IdleFacts DEF Crash, WorkersKeep, TypeOK, Worker
<1>13. ASSUME NEW w \in Workers, Panic(w) PROVE WorkersKeep
  BY <1>13 DEF Panic, Goto, WorkersKeep, TypeOK, Worker
<1>14. ASSUME NEW w \in Workers, RenewerStops(w) PROVE WorkersKeep
  BY <1>14 DEF RenewerStops, Goto, WorkersKeep, TypeOK, Worker
<1>15. ASSUME NEW w \in Workers, LostWrite(w) PROVE WorkersKeep
  BY <1>15, IdleFacts DEF LostWrite, Return, Goto, WorkersKeep, TypeOK, Worker
<1>16. CASE work' = work
  BY <1>16 DEF WorkersKeep
<1>. QED
  BY <1>1, <1>2, <1>3, <1>4, <1>5, <1>6, <1>7, <1>8, <1>9, <1>10, <1>11,
     <1>12, <1>13, <1>14, <1>15, <1>16 DEF Next, SystemStep,
     EnvironmentStep, WorkerStep, TimeStep, UserStep, AdminStep, FaultStep,
     RenewLease, LostLease, ExpireLease, BecomeDue, DeleteJob, Retry, Enqueue,
     EditEntry, DeleteEntry, RetryAllDead, PurgeDead, vars

(* Only dequeue_one gives a row a holder or changes a held row's attempts.  *)
LEMMA RowsKeepNext ==
  TypeOK /\ [Next]_vars => RowsKeep \/ \E w \in Workers : Dequeue(w) \/ LostLease(w)
<1> SUFFICES ASSUME TypeOK, [Next]_vars, \A w \in Workers : ~Dequeue(w) /\ ~LostLease(w)
             PROVE  RowsKeep
  OBVIOUS
<1>1. ASSUME NEW w \in Workers, Complete(w) PROVE RowsKeep
  BY <1>1, RequeuedFacts, NoRowFacts DEF Complete, Holds, RowOf, CompletedRow,
     Worker, RowsKeep, TypeOK
<1>2. ASSUME NEW w \in Workers, FailRetry(w) PROVE RowsKeep
  BY <1>2, BackingOffFacts DEF FailRetry, Holds, Worker, RowsKeep, TypeOK
<1>3. ASSUME NEW w \in Workers, FailDead(w) PROVE RowsKeep
  BY <1>3, UnleasedFacts DEF FailDead, Holds, Worker, RowsKeep, TypeOK
<1>4. ASSUME NEW w \in Workers, RenewLease(w) PROVE RowsKeep
  BY <1>4 DEF RenewLease, Holds, RowOf, Row, Worker, RowsKeep, TypeOK
<1>5. ASSUME NEW w \in Workers, Shutdown(w) PROVE RowsKeep
  BY <1>5, ReleasedFacts DEF Shutdown, Holds, RowOf, Worker, RowsKeep, TypeOK
<1>6. ASSUME NEW j \in JobIds, ExpireLease(j) PROVE RowsKeep
  BY <1>6 DEF ExpireLease, Row, RowsKeep, TypeOK
<1>7. ASSUME NEW j \in JobIds, BecomeDue(j) PROVE RowsKeep
  BY <1>7 DEF BecomeDue, Row, RowsKeep, TypeOK
<1>8. ASSUME NEW j \in JobIds, DeleteJob(j) PROVE RowsKeep
  BY <1>8, NoRowFacts DEF DeleteJob, RowsKeep, TypeOK
<1>9. ASSUME NEW j \in JobIds, Retry(j) PROVE RowsKeep
  BY <1>9, RequeuedFacts DEF Retry, RowsKeep, TypeOK
<1>10. ASSUME NEW e \in Entries, Enqueue(e) PROVE RowsKeep
  <2>1. ASSUME NEW j \in ActiveJobs(e), rows' = [rows EXCEPT ![j] = Wanted(rows[j])]
        PROVE  RowsKeep
    <3>1. j \in JobIds /\ rows[j] \in Row
      BY DEF ActiveJobs, TypeOK
    <3>2. rows'[j] = Wanted(rows[j]) /\ \A i \in JobIds \ {j} : rows'[i] = rows[i]
      BY <2>1, <3>1 DEF TypeOK
    <3>3. /\ rows'[j].holder = rows[j].holder /\ rows'[j].entry = rows[j].entry
          /\ rows'[j].attempts = rows[j].attempts
          /\ rows[j].again => rows'[j].again
      BY <3>1, <3>2, WantedFacts
    <3>. QED  BY <3>2, <3>3 DEF RowsKeep
  <2>2. ASSUME NEW j \in FreshIds, rows' = [rows EXCEPT ![j] = NewRow(e)]
        PROVE  RowsKeep
    BY <2>2, NewRowFacts DEF FreshIds, RowsKeep, TypeOK
  <2>3. \/ \E j \in ActiveJobs(e) : rows' = [rows EXCEPT ![j] = Wanted(rows[j])]
        \/ \E j \in FreshIds : rows' = [rows EXCEPT ![j] = NewRow(e)]
    BY <1>10 DEF Enqueue
  <2>. QED  BY <2>1, <2>2, <2>3, Zenon
<1>11. ASSUME NEW e \in Entries, DeleteEntry(e) PROVE RowsKeep
  BY <1>11, NoRowFacts DEF DeleteEntry, RowsKeep, TypeOK
<1>12. ASSUME RetryAllDead PROVE RowsKeep
  BY <1>12, RevivedFacts DEF RetryAllDead, DeadJobs, RowsKeep, TypeOK
<1>13. ASSUME PurgeDead PROVE RowsKeep
  BY <1>13, NoRowFacts DEF PurgeDead, DeadJobs, RowsKeep, TypeOK
<1>14. CASE QuietStep
  BY <1>14 DEF QuietStep, RowsKeep
<1>. QED
  BY <1>1, <1>2, <1>3, <1>4, <1>5, <1>6, <1>7, <1>8, <1>9, <1>10, <1>11,
     <1>12, <1>13, <1>14, RowSteps DEF RowStep

(* Every step keeps snapshots fresh: a worker that leases a row takes it    *)
(* from whoever held it.                                                    *)
LEMMA SnapshotFreshNext ==
  TypeOK /\ TypeOK' /\ WorkersLegal /\ SnapshotFresh /\ [Next]_vars => SnapshotFresh'
<1> SUFFICES ASSUME TypeOK, TypeOK', WorkersLegal, SnapshotFresh, [Next]_vars
             PROVE  SnapshotFresh'
  OBVIOUS
<1>1. ASSUME NEW w \in Workers, Dequeue(w) PROVE SnapshotFresh'
  <2>1. PICK j \in Runnable :
          /\ rows' = [rows EXCEPT ![j] = Leased(@, w)]
          /\ work' = [work EXCEPT ![w] = [pc |-> "fetching", job |-> j,
                        entry |-> rows[j].entry,
                        attempts |-> Bumped(rows[j].attempts), renewing |-> TRUE]]
    BY <1>1 DEF Dequeue
  <2>2. j \in JobIds /\ rows[j] \in Row
    BY DEF Runnable, TypeOK
  <2> SUFFICES ASSUME NEW v \in Workers, Holds(v)'
               PROVE  /\ RowOf(v).entry' = work'[v].entry
                      /\ RowOf(v).attempts' = work'[v].attempts
    BY DEF SnapshotFresh
  <2>3. CASE v = w
    BY <2>1, <2>2, <2>3, LeasedFacts DEF RowOf, TypeOK
  <2>4. CASE v # w
    <3>1. work'[v] = work[v]
      BY <2>1, <2>4 DEF TypeOK
    <3>2. work[v].job # j
      BY <2>1, <2>2, <2>4, <3>1, LeasedFacts DEF Holds, TypeOK
    <3>3. rows'[work[v].job] = rows[work[v].job]
      BY <2>1, <2>2, <3>2 DEF TypeOK
    <3>. QED  BY <3>1, <3>3 DEF Holds, RowOf, SnapshotFresh
  <2>. QED  BY <2>3, <2>4
<1>2. ASSUME NEW w \in Workers, LostLease(w) PROVE SnapshotFresh'
  <2>1. PICK j \in Runnable : rows' = [rows EXCEPT ![j] = Leased(@, w)]
    BY <1>2 DEF LostLease
  <2>2. j \in JobIds /\ rows[j] \in Row /\ work' = work /\ work[w].job = NoJob
    BY <1>2 DEF LostLease, Runnable, TypeOK, WorkersLegal, LegalWorker
  <2> SUFFICES ASSUME NEW v \in Workers, Holds(v)'
               PROVE  /\ RowOf(v).entry' = work'[v].entry
                      /\ RowOf(v).attempts' = work'[v].attempts
    BY DEF SnapshotFresh
  <2>3. v # w
    BY <2>2 DEF Holds
  <2>4. work[v].job # j
    BY <2>1, <2>2, <2>3, LeasedFacts DEF Holds, TypeOK
  <2>5. rows'[work[v].job] = rows[work[v].job]
    BY <2>1, <2>2, <2>4 DEF TypeOK
  <2>. QED  BY <2>2, <2>5 DEF Holds, RowOf, SnapshotFresh
<1>. QED  BY <1>1, <1>2, WorkersKeepNext, RowsKeepNext, KeptSnapshot


(* A worker has a job exactly while it works on one.                        *)
LEMMA WorkersLegalNext ==
  TypeOK /\ RowsLegal /\ WorkersLegal /\ [Next]_vars => WorkersLegal'
<1> SUFFICES ASSUME TypeOK, RowsLegal, WorkersLegal, [Next]_vars PROVE WorkersLegal'
  OBVIOUS
<1>1. ASSUME NEW w \in Workers, Dequeue(w) PROVE WorkersLegal'
  <2>1. PICK j \in Runnable :
          work' = [work EXCEPT ![w] = [pc |-> "fetching", job |-> j,
                     entry |-> rows[j].entry,
                     attempts |-> Bumped(rows[j].attempts), renewing |-> TRUE]]
    BY <1>1 DEF Dequeue
  <2>2. j \in JobIds /\ j # NoJob /\ rows[j].entry \in Entries
    BY ConstantsAssumption DEF Runnable, IsActive, ActiveStatus, RowsLegal, LegalRow
  <2>. QED  BY <2>1, <2>2 DEF WorkersLegal, LegalWorker, TypeOK
<1>2. ASSUME NEW w \in Workers, Save(w) PROVE WorkersLegal'
  BY <1>2 DEF Save, Goto, Fetching, WorkersLegal, LegalWorker, TypeOK
<1>3. ASSUME NEW w \in Workers, ProcessOk(w) PROVE WorkersLegal'
  BY <1>3 DEF ProcessOk, Goto, WorkersLegal, LegalWorker, TypeOK
<1>4. ASSUME NEW w \in Workers, ProcessPermanent(w) PROVE WorkersLegal'
  BY <1>4 DEF ProcessPermanent, Goto, Fetching, WorkersLegal, LegalWorker,
     TypeOK
<1>5. ASSUME NEW w \in Workers, ProcessTransient(w) PROVE WorkersLegal'
  BY <1>5 DEF ProcessTransient, Goto, Fetching, WorkersLegal, LegalWorker,
     TypeOK
<1>6. ASSUME NEW w \in Workers, MarkPermanent(w) PROVE WorkersLegal'
  BY <1>6 DEF MarkPermanent, Goto, WorkersLegal, LegalWorker, TypeOK
<1>7. ASSUME NEW w \in Workers, Complete(w) PROVE WorkersLegal'
  BY <1>7, IdleFacts DEF Complete, Return, WorkersLegal, LegalWorker, TypeOK
<1>8. ASSUME NEW w \in Workers, FailRetry(w) PROVE WorkersLegal'
  BY <1>8, IdleFacts DEF FailRetry, Return, WorkersLegal, LegalWorker, TypeOK
<1>9. ASSUME NEW w \in Workers, FailDead(w) PROVE WorkersLegal'
  BY <1>9 DEF FailDead, Goto, WorkersLegal, LegalWorker, TypeOK
<1>10. ASSUME NEW w \in Workers, MarkDead(w) PROVE WorkersLegal'
  BY <1>10, IdleFacts DEF MarkDead, Return, WorkersLegal, LegalWorker, TypeOK
<1>11. ASSUME NEW w \in Workers, Restart(w) PROVE WorkersLegal'
  BY <1>11, IdleFacts DEF Restart, WorkersLegal, LegalWorker, TypeOK
<1>12. ASSUME NEW w \in Workers, Shutdown(w) PROVE WorkersLegal'
  BY <1>12, IdleFacts DEF Shutdown, WorkersLegal, LegalWorker, TypeOK
<1>13. ASSUME NEW w \in Workers, Crash(w) PROVE WorkersLegal'
  BY <1>13, IdleFacts DEF Crash, WorkersLegal, LegalWorker, TypeOK
<1>14. ASSUME NEW w \in Workers, Panic(w) PROVE WorkersLegal'
  BY <1>14 DEF Panic, Goto, Fetching, WorkersLegal, LegalWorker, TypeOK
<1>15. ASSUME NEW w \in Workers, RenewerStops(w) PROVE WorkersLegal'
  BY <1>15 DEF RenewerStops, WorkersLegal, LegalWorker, TypeOK
<1>16. ASSUME NEW w \in Workers, LostWrite(w) PROVE WorkersLegal'
  <2>1. CASE Return(w)
    BY <2>1, IdleFacts DEF Return, WorkersLegal, LegalWorker, TypeOK
  <2>2. CASE /\ Goto(w, "completing") \/ Goto(w, "burying")
             /\ work[w].pc \in Settling
    <3>1. work[w].job # NoJob /\ work[w].entry \in Entries
      BY <2>2 DEF Settling, WorkersLegal, LegalWorker
    <3>2. \E pc \in {"completing", "burying"} :
            work' = [work EXCEPT ![w].pc = pc]
      BY <2>2 DEF Goto
    <3>. QED  BY <3>1, <3>2 DEF WorkersLegal, LegalWorker, TypeOK, Worker
  <2>. QED  BY <1>16, <2>1, <2>2 DEF LostWrite, Settling
<1>17. CASE work' = work
  BY <1>17 DEF WorkersLegal
<1>. QED
  BY <1>1, <1>2, <1>3, <1>4, <1>5, <1>6, <1>7, <1>8, <1>9, <1>10, <1>11,
     <1>12, <1>13, <1>14, <1>15, <1>16, <1>17 DEF Next, SystemStep,
     EnvironmentStep, WorkerStep, TimeStep, UserStep, AdminStep, FaultStep,
     RenewLease, LostLease, ExpireLease, BecomeDue, DeleteJob, Retry, Enqueue,
     EditEntry, DeleteEntry, RetryAllDead, PurgeDead, vars

-----------------------------------------------------------------------------
(* The invariant, and what follows from it.                                 *)

(* The invariant holds at the start.                                        *)
LEMMA QueueInvInit == Init => QueueInv
<1> SUFFICES ASSUME Init PROVE QueueInv
  OBVIOUS
<1>1. TypeOK
  BY TypeInit
<1>2. \A j \in JobIds : rows[j] = NoRow
  BY DEF Init
<1>3. \A w \in Workers : work[w] = Idle
  BY DEF Init
<1>4. RowsLegal /\ RowsHaveEntries /\ SingleActive
  BY <1>2, NoRowFacts DEF RowsLegal, LegalRow, RowsHaveEntries, SingleActive,
     IsActive, ActiveStatus
<1>5. WorkersLegal /\ SnapshotFresh
  BY <1>3, IdleFacts DEF WorkersLegal, LegalWorker, SnapshotFresh, Holds
<1>. QED  BY <1>1, <1>4, <1>5 DEF QueueInv

(* Every step preserves the invariant.                                      *)
LEMMA QueueInvNext == QueueInv /\ [Next]_vars => QueueInv'
<1> SUFFICES ASSUME QueueInv, [Next]_vars PROVE QueueInv'
  OBVIOUS
<1>1. TypeOK'
  BY TypeNext DEF QueueInv
<1>. QED
  BY <1>1, RowsLegalNext, WorkersLegalNext, SingleActiveNext, RowsHaveEntriesNext,
     SnapshotFreshNext DEF QueueInv

(* The inductive invariant holds of the queue, whatever faults are allowed.  *)
THEOREM QueueInvariant == Spec => []QueueInv
  BY QueueInvInit, QueueInvNext, PTL DEF Spec

(* In every reachable state the variables hold what they are declared to.   *)
THEOREM TypeCorrect == Spec => []TypeOK
<1>1. QueueInv => TypeOK
  BY DEF QueueInv
<1>. QED  BY <1>1, QueueInvariant, PTL

(* Exactly the running rows carry a lease and a holder, so dequeue_one can   *)
(* tell a free row by its lease, and fail() may match leased_by alone.      *)
THEOREM LeaseShapeHolds == Spec => []LeaseShape
<1>1. QueueInv => LeaseShape
  BY DEF QueueInv, RowsLegal, LegalRow, LeaseShape
<1>. QED  BY <1>1, QueueInvariant, PTL

(* However requests, leases, takeovers, completions and revivals interleave, *)
(* an entry has at most one active row, and no row outlives its entry.       *)
THEOREM OneActiveJobHolds == Spec => []OneActiveJob
<1>1. QueueInv => OneActiveJob
  BY DEF QueueInv, SingleActive, RowsHaveEntries, RowsLegal, LegalRow,
     OneActiveJob, ActiveJobs
<1>. QED  BY <1>1, QueueInvariant, PTL

(* A row dies only with its attempts used up, and waits or backs off only   *)
(* with some left: the decision fail() takes on the snapshot of a lease is  *)
(* right for the row it writes.                                             *)
THEOREM AttemptsAgreeHolds == Spec => []AttemptsAgree
<1>1. QueueInv => AttemptsAgree
  BY DEF QueueInv, RowsLegal, LegalRow, AttemptsAgree
<1>. QED  BY <1>1, QueueInvariant, PTL
-----------------------------------------------------------------------------
(* Requests. A worker that holds its row, and whose row nobody has asked for *)
(* again, fetches for every request so far; once it has saved or found the   *)
(* entry unfetchable, no request for the entry is owed any more.             *)

Covered == \A w \in Workers : Holds(w) /\ ~RowOf(w).again => w \in covering

Served ==
    \A w \in covering :
        work[w].pc \in {"saved", "permanent", "completing"} => work[w].entry \notin owed

RequestInv == QueueInv /\ Covered /\ Served /\ RequestNotLost

(* Coverage survives a step in which only workers that lose their row, or   *)
(* whose row is flagged, are no longer covering.                            *)
LEMMA KeptCovered ==
  ASSUME TypeOK, TypeOK', WorkersKeep, RowsKeep, Covered,
         \A v \in covering \ covering' : ~Holds(v)' \/ RowOf(v).again'
  PROVE  Covered'
<1> SUFFICES ASSUME NEW v \in Workers, Holds(v)', ~RowOf(v).again', v \notin covering'
             PROVE  FALSE
  BY DEF Covered
<1>1. work'[v].job = work[v].job /\ work[v].job \in JobIds
  BY DEF Holds, WorkersKeep, TypeOK, Worker
<1>2. rows'[work[v].job].holder = v /\ v # NoWorker
  BY <1>1, ConstantsAssumption DEF Holds
<1>3. /\ rows[work[v].job].holder = v
      /\ rows[work[v].job].again => rows'[work[v].job].again
  BY <1>1, <1>2 DEF RowsKeep
<1>4. Holds(v) /\ ~RowOf(v).again
  BY <1>1, <1>3, ConstantsAssumption DEF Holds, RowOf
<1>. QED  BY <1>4 DEF Covered

(* Whoever holds an unflagged row covers all requests: enqueue flags the    *)
(* running row in the statement that makes a worker stop covering.          *)
LEMMA CoveredNext ==
  QueueInv /\ TypeOK' /\ Covered /\ [Next]_vars => Covered'
<1> SUFFICES ASSUME QueueInv, TypeOK', Covered, [Next]_vars PROVE Covered'
  OBVIOUS
<1> DEFINE Dropped == \A v \in covering \ covering' : ~Holds(v)' \/ RowOf(v).again'
<1>1. ASSUME NEW w \in Workers, Dequeue(w) PROVE Covered'
  <2>1. PICK j \in Runnable :
          /\ rows' = [rows EXCEPT ![j] = Leased(@, w)]
          /\ \A v \in Workers : v # w => work'[v] = work[v]
    BY <1>1 DEF Dequeue, QueueInv, TypeOK
  <2>2. j \in JobIds /\ rows[j] \in Row /\ covering' = covering \cup {w}
    BY <1>1 DEF Dequeue, Runnable, QueueInv, TypeOK
  <2> SUFFICES ASSUME NEW v \in Workers, Holds(v)', ~RowOf(v).again', v # w
               PROVE  v \in covering
    BY <2>2 DEF Covered
  <2>3. work'[v] = work[v] /\ work[v].job # j
    BY <2>1, <2>2, LeasedFacts DEF Holds, QueueInv, TypeOK
  <2>4. rows'[work[v].job] = rows[work[v].job]
    BY <2>1, <2>2, <2>3 DEF QueueInv, TypeOK
  <2>. QED  BY <2>3, <2>4 DEF Holds, RowOf, Covered
<1>2. ASSUME NEW w \in Workers, LostLease(w) PROVE Covered'
  <2>1. PICK j \in Runnable : rows' = [rows EXCEPT ![j] = Leased(@, w)]
    BY <1>2 DEF LostLease
  <2>2. j \in JobIds /\ rows[j] \in Row /\ work' = work /\ work[w].job = NoJob
    BY <1>2 DEF LostLease, Runnable, QueueInv, TypeOK, WorkersLegal, LegalWorker
  <2> SUFFICES ASSUME NEW v \in Workers, Holds(v)', ~RowOf(v).again'
               PROVE  v \in covering
    BY <1>2 DEF Covered, LostLease
  <2>3. v # w
    BY <2>2 DEF Holds
  <2>4. work[v].job # j
    BY <2>1, <2>2, <2>3, LeasedFacts DEF Holds, QueueInv, TypeOK
  <2>5. rows'[work[v].job] = rows[work[v].job]
    BY <2>1, <2>2, <2>4 DEF QueueInv, TypeOK
  <2>. QED  BY <2>2, <2>5 DEF Holds, RowOf, Covered
<1>3. ASSUME NEW w \in Workers, Return(w) \/ Crash(w) \/ Shutdown(w) PROVE Dropped
  <2>1. covering \ covering' \subseteq {w} /\ work'[w].job = NoJob
    BY <1>3, IdleFacts DEF Return, Crash, Shutdown, QueueInv, TypeOK
  <2>. QED  BY <2>1 DEF Holds
<1>4. ASSUME NEW e \in Entries, Enqueue(e) PROVE Dropped
  <2> SUFFICES ASSUME NEW v \in Workers, work[v].entry = e, Holds(v)'
               PROVE  RowOf(v).again'
    BY <1>4 DEF Enqueue, WorkersOn, QueueInv, TypeOK
  <2> DEFINE i == work[v].job
  <2>1. work' = work /\ i \in JobIds /\ rows'[i].holder = v
    BY <1>4 DEF Enqueue, Holds, QueueInv, TypeOK, Worker
  <2>2. ASSUME NEW j \in ActiveJobs(e), rows' = [rows EXCEPT ![j] = Wanted(rows[j])]
        PROVE  RowOf(v).again'
    <3>1. j \in JobIds /\ rows[j] \in Row
      BY DEF ActiveJobs, QueueInv, TypeOK
    <3>2. rows[i].holder = v
      BY <2>1, <2>2, <3>1, WantedFacts DEF QueueInv, TypeOK
    <3>3. rows[i].status = "running" /\ rows[i].entry = e
      BY <2>1, <3>2, ConstantsAssumption
         DEF Holds, RowOf, QueueInv, SnapshotFresh, RowsLegal, LegalRow
    <3>4. i = j
      BY <2>1, <3>1, <3>3 DEF ActiveJobs, IsActive, ActiveStatus, QueueInv, SingleActive
    <3>. QED  BY <2>1, <2>2, <3>1, <3>3, <3>4, WantedFacts DEF RowOf, QueueInv, TypeOK
  <2>3. ASSUME NEW j \in FreshIds, rows' = [rows EXCEPT ![j] = NewRow(e)],
               ActiveJobs(e) = {}
        PROVE  FALSE
    <3>1. j \in JobIds /\ i # j
      BY DEF FreshIds
    <3>2. rows[i].holder = v
      BY <2>1, <2>3, <3>1 DEF QueueInv, TypeOK
    <3>3. rows[i].status = "running" /\ rows[i].entry = e
      BY <2>1, <3>2, ConstantsAssumption
         DEF Holds, RowOf, QueueInv, SnapshotFresh, RowsLegal, LegalRow
    <3>. QED  BY <2>1, <2>3, <3>3 DEF ActiveJobs, IsActive, ActiveStatus
  <2>4. \/ \E j \in ActiveJobs(e) : rows' = [rows EXCEPT ![j] = Wanted(rows[j])]
        \/ /\ ActiveJobs(e) = {}
           /\ \E j \in FreshIds : rows' = [rows EXCEPT ![j] = NewRow(e)]
    BY <1>4 DEF Enqueue
  <2>. QED  BY <2>2, <2>3, <2>4, Zenon
<1>5. ASSUME NEW j \in JobIds, Retry(j) PROVE Dropped
  <2> SUFFICES ASSUME NEW v \in Workers, work[v].entry = rows[j].entry, Holds(v)'
               PROVE  FALSE
    BY <1>5 DEF Retry, WorkersOn, QueueInv, TypeOK
  <2> DEFINE i == work[v].job
  <2>1. work' = work /\ i \in JobIds /\ rows'[i].holder = v /\ rows[j] \in Row
    BY <1>5 DEF Retry, Holds, QueueInv, TypeOK, Worker
  <2>2. i # j /\ rows[i].holder = v
    BY <1>5, <2>1, RequeuedFacts, ConstantsAssumption DEF Retry, QueueInv, TypeOK
  <2>3. rows[i].status = "running" /\ rows[i].entry = rows[j].entry
    BY <2>1, <2>2, ConstantsAssumption
       DEF Holds, RowOf, QueueInv, SnapshotFresh, RowsLegal, LegalRow
  <2>. QED  BY <1>5, <2>1, <2>2, <2>3 DEF Retry, ActiveJobs, IsActive, ActiveStatus
<1>6. ASSUME RetryAllDead PROVE Dropped
  <2>1. PICK P \in SUBSET DeadJobs :
          /\ Revivable(P)
          /\ rows' = [j \in JobIds |-> IF j \in P THEN Revived(rows[j]) ELSE rows[j]]
          /\ covering' = covering \ {w \in Workers : \E j \in P : work[w].entry = rows[j].entry}
    BY <1>6 DEF RetryAllDead
  <2> SUFFICES ASSUME NEW v \in Workers, NEW j \in P, work[v].entry = rows[j].entry,
                      Holds(v)'
               PROVE  FALSE
    BY <2>1
  <2> DEFINE i == work[v].job
  <2>2. work' = work /\ i \in JobIds /\ rows'[i].holder = v
    BY <1>6 DEF RetryAllDead, Holds, QueueInv, TypeOK, Worker
  <2>3. i \notin P /\ rows[i].holder = v
    BY <2>1, <2>2, RevivedFacts, ConstantsAssumption DEF QueueInv, TypeOK
  <2>4. rows[i].status = "running" /\ rows[i].entry = rows[j].entry
    BY <2>2, <2>3, ConstantsAssumption
       DEF Holds, RowOf, QueueInv, SnapshotFresh, RowsLegal, LegalRow
  <2>. QED  BY <2>1, <2>2, <2>4 DEF Revivable, ActiveJobs, IsActive, ActiveStatus
<1>7. ASSUME covering \subseteq covering' PROVE Dropped
  BY <1>7
<1>8. \/ Dropped
      \/ \E w \in Workers : Dequeue(w) \/ LostLease(w)
  <2>1. \/ covering \subseteq covering'
        \/ \E w \in Workers : \/ Return(w) \/ Crash(w) \/ Shutdown(w)
                               \/ Dequeue(w) \/ LostLease(w)
        \/ RetryAllDead \/ (\E j \in JobIds : Retry(j)) \/ \E e \in Entries : Enqueue(e)
    BY DEF Next, SystemStep, EnvironmentStep, WorkerStep, TimeStep, UserStep,
       AdminStep, FaultStep, Save, ProcessOk, ProcessPermanent,
       ProcessTransient, MarkPermanent, FailDead, RenewLease, Restart, Panic,
       RenewerStops, ExpireLease, BecomeDue, DeleteJob, EditEntry,
       DeleteEntry, PurgeDead, Complete, FailRetry, MarkDead, LostWrite, vars
  <2>. QED  BY <2>1, <1>3, <1>4, <1>5, <1>6, <1>7
<1>9. CASE Dropped
  BY <1>1, <1>2, <1>9, WorkersKeepNext, RowsKeepNext, KeptCovered DEF QueueInv
<1>. QED  BY <1>1, <1>2, <1>8, <1>9

(* After a covering fetch the entry is owed nothing, unless save() hides an *)
(* error.                                                                   *)
LEMMA ServedNext ==
  ASSUME "save_error" \notin Faults, TypeOK, Served, [Next]_vars
  PROVE  Served'
<1>1. ASSUME NEW w \in Workers, Dequeue(w) PROVE Served'
  BY <1>1 DEF Dequeue, Served, TypeOK, Worker
<1>2. ASSUME NEW w \in Workers, Save(w) PROVE Served'
  BY <1>2 DEF Save, Goto, Served, TypeOK, Worker
<1>3. ASSUME NEW w \in Workers, ProcessOk(w) PROVE Served'
  BY <1>3 DEF ProcessOk, Goto, Served, TypeOK, Worker
<1>4. ASSUME NEW w \in Workers, ProcessPermanent(w) PROVE Served'
  BY <1>4 DEF ProcessPermanent, Goto, Served, TypeOK, Worker
<1>5. ASSUME NEW w \in Workers, ProcessTransient(w) PROVE Served'
  BY <1>5 DEF ProcessTransient, Goto, Served, TypeOK, Worker
<1>6. ASSUME NEW w \in Workers, MarkPermanent(w) PROVE Served'
  BY <1>6 DEF MarkPermanent, Goto, Served, TypeOK, Worker
<1>7. ASSUME NEW w \in Workers, Complete(w) PROVE Served'
  BY <1>7, IdleFacts DEF Complete, Return, Served, TypeOK, Worker
<1>8. ASSUME NEW w \in Workers, FailRetry(w) PROVE Served'
  BY <1>8, IdleFacts DEF FailRetry, Return, Served, TypeOK, Worker
<1>9. ASSUME NEW w \in Workers, FailDead(w) PROVE Served'
  BY <1>9 DEF FailDead, Goto, Served, TypeOK, Worker
<1>10. ASSUME NEW w \in Workers, MarkDead(w) PROVE Served'
  BY <1>10, IdleFacts DEF MarkDead, Return, Served, TypeOK, Worker
<1>11. ASSUME NEW w \in Workers, Restart(w) PROVE Served'
  BY <1>11, IdleFacts DEF Restart, Served, TypeOK, Worker
<1>12. ASSUME NEW w \in Workers, Shutdown(w) PROVE Served'
  BY <1>12, IdleFacts DEF Shutdown, Served, TypeOK, Worker
<1>13. ASSUME NEW w \in Workers, Crash(w) PROVE Served'
  BY <1>13, IdleFacts DEF Crash, Served, TypeOK, Worker
<1>14. ASSUME NEW w \in Workers, Panic(w) PROVE Served'
  BY <1>14 DEF Panic, Goto, Served, TypeOK, Worker
<1>15. ASSUME NEW w \in Workers, RenewerStops(w) PROVE Served'
  BY <1>15 DEF RenewerStops, Served, TypeOK, Worker
<1>16. ASSUME NEW w \in Workers, LostWrite(w) PROVE Served'
  BY <1>16, IdleFacts DEF LostWrite, Return, Goto, Served, TypeOK, Worker
<1>17. ASSUME NEW j \in JobIds, Retry(j) PROVE Served'
  BY <1>17 DEF Retry, WorkersOn, Served, TypeOK, Worker
<1>18. ASSUME NEW j \in JobIds, DeleteJob(j) PROVE Served'
  BY <1>18 DEF DeleteJob, Served, TypeOK, Worker
<1>19. ASSUME NEW e \in Entries, Enqueue(e) PROVE Served'
  BY <1>19 DEF Enqueue, WorkersOn, Served, TypeOK, Worker
<1>20. ASSUME NEW e \in Entries, DeleteEntry(e) PROVE Served'
  BY <1>20 DEF DeleteEntry, Served, TypeOK, Worker
<1>21. ASSUME RetryAllDead PROVE Served'
  BY <1>21 DEF RetryAllDead, Served, TypeOK, Worker
<1>22. CASE UNCHANGED <<work, owed, covering>>
  BY <1>22 DEF Served
<1>. QED
  BY <1>1, <1>2, <1>3, <1>4, <1>5, <1>6, <1>7, <1>8, <1>9, <1>10, <1>11,
     <1>12, <1>13, <1>14, <1>15, <1>16, <1>17, <1>18, <1>19, <1>20,
     <1>21, <1>22 DEF Next, SystemStep, EnvironmentStep, WorkerStep, TimeStep,
     UserStep, AdminStep, FaultStep, RenewLease, LostLease, ExpireLease,
     BecomeDue, EditEntry, PurgeDead, vars

(* No step takes the last active row of an entry away from a request.       *)
LEMMA RequestKeptNext ==
  ASSUME QueueInv, Covered, Served, RequestNotLost, [Next]_vars
  PROVE  RequestNotLost'
<1> SUFFICES ASSUME NEW e \in Entries, e \in owed'
             PROVE  \E j \in JobIds : IsActive(j)' /\ rows'[j].entry = e
  BY QueueInvNext DEF RequestNotLost, ActiveJobs, QueueInv, TypeOK
<1> DEFINE Stands == \E j \in JobIds : IsActive(j)' /\ rows'[j].entry = e
<1>1. e \in owed => \E j \in JobIds : IsActive(j) /\ rows[j].entry = e
  BY DEF RequestNotLost, ActiveJobs
<1> HIDE DEF Stands
<1>2. ASSUME NEW w \in Workers, Dequeue(w) PROVE Stands
  BY <1>1, <1>2, LeasedFacts, ConstantsAssumption DEF Dequeue, Runnable,
     Stands, IsActive, ActiveStatus, QueueInv, TypeOK
<1>3. ASSUME NEW w \in Workers, Complete(w) PROVE Stands
  <2> DEFINE k == work[w].job
  <2>1. PICK j \in JobIds : IsActive(j) /\ rows[j].entry = e
    BY <1>1, <1>3 DEF Complete
  <2>2. CASE rows' = rows
    BY <2>1, <2>2 DEF Stands, IsActive
  <2>3. CASE /\ Holds(w) /\ RowOf(w).status = "running"
             /\ rows' = [rows EXCEPT ![k] = CompletedRow(@)]
    <3>1. k \in JobIds /\ rows[k] \in Row /\ rows[k].entry = work[w].entry
      BY <2>3 DEF Holds, RowOf, QueueInv, SnapshotFresh, TypeOK, Worker
    <3>2. CASE rows[k].again
      <4>1. rows' = [rows EXCEPT ![k] = Requeued(@)]
        BY <2>3, <3>2 DEF CompletedRow, QueueInv, TypeOK
      <4>. QED  BY <2>1, <3>1, <4>1, RequeuedFacts
                DEF Stands, IsActive, ActiveStatus, QueueInv, TypeOK
    <3>3. CASE ~rows[k].again
      <4>1. work[w].entry \notin owed
        BY <1>3, <2>3, <3>3 DEF Complete, RowOf, Covered, Served
      <4>2. j # k
        BY <1>3, <2>1, <3>1, <4>1 DEF Complete
      <4>. QED  BY <2>1, <2>3, <4>2 DEF Stands, IsActive, QueueInv, TypeOK
    <3>. QED  BY <3>2, <3>3
  <2>. QED  BY <1>3, <2>2, <2>3 DEF Complete
<1>4. ASSUME NEW w \in Workers, FailRetry(w) PROVE Stands
  BY <1>1, <1>4, BackingOffFacts, ConstantsAssumption DEF FailRetry, Holds,
     Worker, Stands, IsActive, ActiveStatus, QueueInv, TypeOK
<1>5. ASSUME NEW w \in Workers, FailDead(w) PROVE Stands
  <2>1. PICK j \in JobIds : IsActive(j) /\ rows[j].entry = e
    BY <1>1, <1>5 DEF FailDead
  <2>2. CASE rows' = rows
    BY <2>1, <2>2 DEF Stands, IsActive
  <2>3. CASE /\ Holds(w) /\ owed' = owed \ {work[w].entry}
             /\ rows' = [rows EXCEPT ![work[w].job] = Unleased(@, "dead")]
    <3>1. rows[work[w].job].entry = work[w].entry
      BY <2>3 DEF Holds, RowOf, QueueInv, SnapshotFresh
    <3>2. j # work[w].job
      BY <2>1, <2>3, <3>1
    <3>. QED  BY <2>1, <2>3, <3>2 DEF Stands, IsActive, QueueInv, TypeOK
  <2>. QED  BY <1>5, <2>2, <2>3 DEF FailDead
<1>6. ASSUME NEW w \in Workers, RenewLease(w) PROVE Stands
  BY <1>1, <1>6, ConstantsAssumption DEF RenewLease, Holds, RowOf, Row,
     Worker, Stands, IsActive, ActiveStatus, QueueInv, TypeOK
<1>7. ASSUME NEW w \in Workers, Shutdown(w) PROVE Stands
  BY <1>1, <1>7, ReleasedFacts, ConstantsAssumption DEF Shutdown, Holds,
     RowOf, Worker, Stands, IsActive, ActiveStatus, QueueInv, TypeOK
<1>8. ASSUME NEW w \in Workers, LostLease(w) PROVE Stands
  BY <1>1, <1>8, LeasedFacts, ConstantsAssumption DEF LostLease, Runnable,
     Stands, IsActive, ActiveStatus, QueueInv, TypeOK
<1>9. ASSUME NEW j \in JobIds, ExpireLease(j) PROVE Stands
  BY <1>1, <1>9, ConstantsAssumption DEF ExpireLease, Row, Stands, IsActive,
     ActiveStatus, QueueInv, TypeOK
<1>10. ASSUME NEW j \in JobIds, BecomeDue(j) PROVE Stands
  BY <1>1, <1>10, ConstantsAssumption DEF BecomeDue, Row, Stands, IsActive,
     ActiveStatus, QueueInv, TypeOK
<1>11. ASSUME NEW j \in JobIds, DeleteJob(j) PROVE Stands
  BY <1>1, <1>11, NoRowFacts, ConstantsAssumption DEF DeleteJob, Stands,
     IsActive, ActiveStatus, QueueInv, TypeOK
<1>12. ASSUME NEW j \in JobIds, Retry(j) PROVE Stands
  BY <1>1, <1>12, RequeuedFacts, ConstantsAssumption DEF Retry, Stands,
     IsActive, ActiveStatus, QueueInv, TypeOK
<1>13. ASSUME NEW d \in Entries, Enqueue(d) PROVE Stands
  BY <1>1, <1>13, WantedFacts, NewRowFacts, ConstantsAssumption DEF Enqueue,
     ActiveJobs, FreshIds, Stands, IsActive, ActiveStatus, QueueInv, TypeOK
<1>14. ASSUME NEW d \in Entries, DeleteEntry(d) PROVE Stands
  BY <1>1, <1>14, NoRowFacts, ConstantsAssumption DEF DeleteEntry, Stands,
     IsActive, ActiveStatus, QueueInv, TypeOK
<1>15. ASSUME RetryAllDead PROVE Stands
  BY <1>1, <1>15, RevivedFacts, ConstantsAssumption DEF RetryAllDead,
     DeadJobs, Stands, IsActive, ActiveStatus, QueueInv, TypeOK
<1>16. ASSUME PurgeDead PROVE Stands
  BY <1>1, <1>16, NoRowFacts, ConstantsAssumption DEF PurgeDead, DeadJobs,
     Stands, IsActive, ActiveStatus, QueueInv, TypeOK
<1>17. CASE QuietStep
  BY <1>1, <1>17 DEF QuietStep, Stands, IsActive
<1>18. RowStep \/ QuietStep
  BY RowSteps DEF QueueInv
<1>19. CASE RowStep
  <2>1. CASE \E w \in Workers : \/ Dequeue(w) \/ Complete(w) \/ FailRetry(w)
                                \/ FailDead(w) \/ RenewLease(w) \/ Shutdown(w)
                                \/ LostLease(w)
    BY <2>1, <1>2, <1>3, <1>4, <1>5, <1>6, <1>7, <1>8 DEF Stands
  <2>2. CASE \E j \in JobIds : ExpireLease(j) \/ BecomeDue(j) \/ DeleteJob(j) \/ Retry(j)
    BY <2>2, <1>9, <1>10, <1>11, <1>12 DEF Stands
  <2>3. CASE \E d \in Entries : Enqueue(d) \/ DeleteEntry(d)
    BY <2>3, <1>13, <1>14 DEF Stands
  <2>. QED  BY <1>15, <1>16, <1>19, <2>1, <2>2, <2>3 DEF RowStep, Stands
<1>. QED  BY <1>17, <1>18, <1>19 DEF Stands

(* Unless save() hides a failed UPDATE, what makes a request survive a      *)
(* completion holds throughout: whoever holds a row that nobody has asked   *)
(* for again answers every request for its entry.                           *)
THEOREM RequestInvariant ==
  ASSUME "save_error" \notin Faults
  PROVE  Spec => []RequestInv
<1>1. Init => RequestInv
  <2> SUFFICES ASSUME Init PROVE RequestInv
    OBVIOUS
  <2>1. \A w \in Workers : ~Holds(w)
    BY IdleFacts DEF Init, Holds
  <2>. QED  BY <2>1, QueueInvInit DEF Init, RequestInv, Covered, Served, RequestNotLost
<1>2. RequestInv /\ [Next]_vars => RequestInv'
  <2> SUFFICES ASSUME RequestInv, [Next]_vars PROVE RequestInv'
    OBVIOUS
  <2>1. QueueInv'
    BY QueueInvNext DEF RequestInv
  <2>2. Covered'
    BY <2>1, CoveredNext DEF RequestInv, QueueInv
  <2>3. Served'
    BY ServedNext DEF RequestInv, QueueInv
  <2>4. RequestNotLost'
    BY RequestKeptNext DEF RequestInv
  <2>. QED  BY <2>1, <2>2, <2>3, <2>4 DEF RequestInv
<1>. QED  BY <1>1, <1>2, PTL DEF Spec

(* Unless save() hides a failed UPDATE, no request is forgotten: whatever    *)
(* crashes, stalls, lost statements and interventions happen, an unanswered *)
(* request has an active row. The coalescing flag of enqueue is what makes  *)
(* this hold for requests that arrive while their entry is being fetched.   *)
THEOREM RequestNotLostHolds ==
  ASSUME "save_error" \notin Faults
  PROVE  Spec => []RequestNotLost
<1>1. RequestInv => RequestNotLost
  BY DEF RequestInv
<1>. QED  BY <1>1, RequestInvariant, PTL

-----------------------------------------------------------------------------
(* A step that changes the holder of a row with a live lease is its holder's *)
(* own, an administrator's, or the deletion of the entry: dequeue_one takes  *)
(* only rows whose lease is gone, and the statements of a worker match its   *)
(* id.                                                                       *)
LeaseKept ==
    \A j \in JobIds : \A w \in Workers :
        (rows[j].lease = "live" /\ rows[j].holder = w /\ rows'[j].holder # w)
        => \/ work[w].job = j /\ work'[w] # work[w]
           \/ AdminStep
           \/ \E e \in Entries : DeleteEntry(e)

(* A row with a live lease is running.                                      *)
LEMMA LiveIsRunning ==
  ASSUME TypeOK, RowsLegal, NEW j \in JobIds, rows[j].lease = "live"
  PROVE  rows[j].status = "running"
  BY DEF RowsLegal, LegalRow, TypeOK

(* In every step of the queue the lease is respected.                       *)
LEMMA LeaseKeptNext == QueueInv /\ [Next]_vars => LeaseKept
<1> SUFFICES ASSUME QueueInv, [Next]_vars,
                    NEW j \in JobIds, NEW w \in Workers,
                    rows[j].lease = "live", rows[j].holder = w, rows'[j].holder # w,
                    ~AdminStep, \A e \in Entries : ~DeleteEntry(e)
             PROVE  work[w].job = j /\ work'[w] # work[w]
  BY DEF LeaseKept
<1>1. TypeOK /\ rows[j].status = "running" /\ w # NoWorker /\ rows[j] \in Row
  BY LiveIsRunning, ConstantsAssumption DEF QueueInv, TypeOK
<1>2. ASSUME NEW v \in Workers, Complete(v) \/ FailRetry(v) \/ FailDead(v) \/ Shutdown(v)
      PROVE  work[w].job = j /\ work'[w] # work[w]
  <2>1. Holds(v) /\ work[v].job = j
    BY <1>1, <1>2 DEF Complete, FailRetry, FailDead, Shutdown, TypeOK, Holds, Worker
  <2>2. v = w
    BY <2>1 DEF Holds
  <2>3. work[v] \in Worker /\ work[v].pc \notin {"idle", "down"}
    BY <1>1, <2>1, ConstantsAssumption
       DEF QueueInv, Holds, WorkersLegal, LegalWorker, TypeOK
  <2>4. ASSUME Complete(v) \/ FailRetry(v) PROVE work'[v].pc # work[v].pc
    BY <1>1, <2>3, <2>4, IdleFacts DEF Complete, FailRetry, Return, TypeOK
  <2>5. ASSUME FailDead(v) PROVE work'[v].pc # work[v].pc
    BY <1>1, <2>3, <2>5 DEF FailDead, Goto, TypeOK, Worker
  <2>6. ASSUME Shutdown(v) PROVE work'[v].pc # work[v].pc
    BY <1>1, <2>3, <2>6, IdleFacts DEF Shutdown, TypeOK
  <2>7. work'[v] # work[v]
    BY <1>2, <2>4, <2>5, <2>6
  <2>. QED  BY <2>1, <2>2, <2>7
<1>3. ASSUME NEW v \in Workers, Dequeue(v) \/ LostLease(v) PROVE FALSE
  BY <1>1, <1>3 DEF Dequeue, LostLease, Runnable, TypeOK
<1>4. ASSUME NEW v \in Workers, RenewLease(v) PROVE FALSE
  BY <1>1, <1>4 DEF RenewLease, Holds, TypeOK, Worker, Row
<1>5. ASSUME NEW i \in JobIds, ExpireLease(i) \/ BecomeDue(i) PROVE FALSE
  BY <1>1, <1>5 DEF ExpireLease, BecomeDue, TypeOK, Row
<1>6. ASSUME NEW e \in Entries, Enqueue(e) PROVE FALSE
  BY <1>1, <1>6, WantedFacts DEF Enqueue, ActiveJobs, FreshIds, TypeOK
<1>7. ASSUME PurgeDead PROVE FALSE
  BY <1>1, <1>7 DEF PurgeDead, DeadJobs, TypeOK
<1>8. CASE QuietStep
  BY <1>8 DEF QuietStep
<1>. QED
  BY <1>1, <1>2, <1>3, <1>4, <1>5, <1>6, <1>7, <1>8, RowSteps DEF RowStep, AdminStep

(* Whatever crashes, stalls and takeovers happen, only its holder ends a     *)
(* live lease, an administrator, or the deletion of the entry.              *)
THEOREM LeaseRespectedHolds == Spec => LeaseRespected
<1>1. QueueInv /\ [Next]_vars => [LeaseKept]_vars
  BY LeaseKeptNext
<1>2. Spec => [][LeaseKept]_vars
  BY <1>1, QueueInvariant, PTL DEF Spec
<1>. QED  BY <1>2, PTL DEF LeaseRespected, LeaseKept

-----------------------------------------------------------------------------
(* The refinement of FetchPromise. These are the values that the mapping    *)
(* gives to the variables of the promise.                                   *)
Queued == {e \in Entries : ActiveJobs(e) # {}}
GivenUp == {rows[j].entry : j \in DeadJobs}
Gone == {e \in Entries : content[e] = "gone"}

Becomes(a, q, g, d) == owed' = a /\ Queued' = q /\ GivenUp' = g /\ Gone' = d

(* What the actions of the promise say of these values.                     *)
LEMMA PromiseSteps ==
  /\ \A e \in Entries :
       /\ e \notin Gone /\ Becomes(owed \cup {e}, Queued \cup {e}, GivenUp, Gone)
          => Promise!Next
       /\ Becomes(owed \ {e}, Queued, GivenUp, Gone) => Promise!Next
       /\ e \notin owed /\ Becomes(owed, Queued \ {e}, GivenUp, Gone) => Promise!Next
       /\ e \in Queued /\ Becomes(owed \ {e}, Queued \ {e}, GivenUp \cup {e}, Gone)
          => Promise!Next
       /\ Becomes(owed \ {e}, Queued \ {e}, GivenUp \ {e}, Gone \cup {e}) => Promise!Next
       /\ Admin /\ Becomes(owed \ {e}, Queued \ {e}, GivenUp, Gone) => Promise!Next
  /\ \A S \in SUBSET Entries :
       /\ S \subseteq GivenUp /\ Becomes(owed, Queued, GivenUp \ S, Gone) => Promise!Next
       /\ \A T \in SUBSET Entries :
            /\ Admin /\ S \cap Gone = {} /\ T \subseteq S
            /\ Becomes(owed \cup S, Queued \cup S, GivenUp \ T, Gone)
            => Promise!Next
  /\ Becomes(owed, Queued, GivenUp, Gone) => UNCHANGED Promise!vars
  BY Zenon DEF Promise!Next, Promise!Request, Promise!Answer, Promise!Close, Promise!GiveUp,
     Promise!Delete, Promise!Drop, Promise!Forget, Promise!Revive, Promise!vars,
     Becomes, Queued, GivenUp, Gone

(* A step of the queue that the promise allows.                             *)
Promised == [Promise!Next]_(Promise!vars)

(* An entry is queued when it has an active row, given up when a dead one.  *)
LEMMA MappingFacts ==
  /\ \A e : e \in Queued <=> e \in Entries /\ \E j \in JobIds : IsActive(j) /\ rows[j].entry = e
  /\ \A e : e \in GivenUp <=> \E j \in JobIds : rows[j].status = "dead" /\ rows[j].entry = e
  /\ RowsLegal => GivenUp \subseteq Entries
  BY DEF Queued, GivenUp, ActiveJobs, DeadJobs, RowsLegal, LegalRow

(* The same after the step.                                                 *)
LEMMA MappingFactsNext ==
  /\ \A e : e \in Queued' <=> e \in Entries /\ \E j \in JobIds : IsActive(j)' /\ rows'[j].entry = e
  /\ \A e : e \in GivenUp' <=> \E j \in JobIds : rows'[j].status = "dead" /\ rows'[j].entry = e
  BY DEF Queued, GivenUp, ActiveJobs, DeadJobs

(* Steps that leave every row active, dead or absent as it was.             *)
SameShape ==
    \A j \in JobIds :
        /\ IsActive(j)' <=> IsActive(j)
        /\ rows'[j].status = "dead" <=> rows[j].status = "dead"
        /\ rows[j].status # "absent" => rows'[j].entry = rows[j].entry

(* The promise sees nothing of the rows in such a step.                     *)
LEMMA SameShapeHides == SameShape => Queued' = Queued /\ GivenUp' = GivenUp
<1> SUFFICES ASSUME SameShape PROVE Queued' = Queued /\ GivenUp' = GivenUp
  OBVIOUS
<1>1. ASSUME NEW j \in JobIds, IsActive(j) \/ IsActive(j)' \/ rows[j].status = "dead" \/ rows'[j].status = "dead"
      PROVE  rows'[j].entry = rows[j].entry
  BY <1>1 DEF SameShape, IsActive, ActiveStatus
<1>2. \A e : e \in Queued' <=> e \in Queued
  BY <1>1, MappingFacts, MappingFactsNext DEF SameShape
<1>3. \A e : e \in GivenUp' <=> e \in GivenUp
  BY <1>1, MappingFacts, MappingFactsNext DEF SameShape
<1>. QED  BY <1>2, <1>3

(* Leases, backoffs, renewals and releases keep the shape of the table.     *)
LEMMA LeaseShapes ==
  ASSUME QueueInv,
         \/ \E w \in Workers : \/ Dequeue(w) \/ LostLease(w) \/ FailRetry(w)
                               \/ RenewLease(w) \/ Shutdown(w)
         \/ \E j \in JobIds : ExpireLease(j) \/ BecomeDue(j)
  PROVE  Promised
<1>1. ASSUME NEW w \in Workers, Dequeue(w) \/ LostLease(w) PROVE SameShape
  BY <1>1, LeasedFacts DEF Dequeue, LostLease, Runnable, SameShape, IsActive,
     ActiveStatus, QueueInv, TypeOK
<1>2. ASSUME NEW w \in Workers, FailRetry(w) PROVE SameShape
  BY <1>2, BackingOffFacts, ConstantsAssumption DEF FailRetry, Holds, Worker, SameShape,
     IsActive, ActiveStatus, QueueInv, TypeOK, RowsLegal, LegalRow
<1>3. ASSUME NEW w \in Workers, RenewLease(w) PROVE SameShape
  BY <1>3 DEF RenewLease, Holds, Row, Worker, SameShape, IsActive, ActiveStatus, QueueInv, TypeOK
<1>4. ASSUME NEW w \in Workers, Shutdown(w) PROVE SameShape
  BY <1>4, ReleasedFacts DEF Shutdown, Holds, RowOf, Worker, SameShape, IsActive,
     ActiveStatus, QueueInv, TypeOK
<1>5. ASSUME NEW j \in JobIds, ExpireLease(j) \/ BecomeDue(j) PROVE SameShape
  BY <1>5 DEF ExpireLease, BecomeDue, Row, SameShape, IsActive, ActiveStatus, QueueInv, TypeOK
<1>6. SameShape
  BY <1>1, <1>2, <1>3, <1>4, <1>5
<1>7. owed' = owed /\ content' = content
  BY DEF Dequeue, LostLease, FailRetry, RenewLease, Shutdown, ExpireLease, BecomeDue
<1>8. Gone' = Gone
  BY <1>7 DEF Gone
<1>. QED  BY <1>6, <1>7, <1>8, SameShapeHides, PromiseSteps DEF Becomes, Promised

(* A row that becomes active or leaves, and no other, changes what is queued *)
(* for its entry and no other.                                               *)
LEMMA OneRowQueued ==
  ASSUME SingleActive, NEW k \in JobIds, NEW e \in Entries,
         \A j \in JobIds \ {k} : rows'[j] = rows[j]
  PROVE  /\ IsActive(k) /\ rows[k].entry = e /\ ~IsActive(k)' => Queued' = Queued \ {e}
         /\ IsActive(k)' /\ rows'[k].entry = e /\ ~IsActive(k) => Queued' = Queued \cup {e}
         /\ ~IsActive(k) /\ ~IsActive(k)' => Queued' = Queued
<1>1. ASSUME IsActive(k), rows[k].entry = e, ~IsActive(k)' PROVE Queued' = Queued \ {e}
  <2>1. \A d : d \in Queued' <=> d \in Queued /\ d # e
    BY <1>1, MappingFacts, MappingFactsNext DEF SingleActive, IsActive
  <2>. QED  BY <2>1
<1>2. ASSUME IsActive(k)', rows'[k].entry = e, ~IsActive(k) PROVE Queued' = Queued \cup {e}
  <2>1. \A d : d \in Queued' <=> d \in Queued \/ d = e
    BY <1>2, MappingFacts, MappingFactsNext DEF IsActive
  <2>. QED  BY <2>1
<1>3. ASSUME ~IsActive(k), ~IsActive(k)' PROVE Queued' = Queued
  <2>1. \A d : d \in Queued' <=> d \in Queued
    BY <1>3, MappingFacts, MappingFactsNext DEF IsActive
  <2>. QED  BY <2>1
<1>. QED  BY <1>1, <1>2, <1>3

(* No row dies or is dead no more when none did.                            *)
LEMMA SameDead ==
  ASSUME \A j \in JobIds : /\ rows'[j].status = "dead" <=> rows[j].status = "dead"
                           /\ rows[j].status = "dead" => rows'[j].entry = rows[j].entry
  PROVE  GivenUp' = GivenUp
<1>1. \A d : d \in GivenUp' <=> d \in GivenUp
  BY MappingFacts, MappingFactsNext
<1>. QED  BY <1>1
(* A request is one: it inserts a row, or flags the one there is.           *)
LEMMA EnqueuePromised ==
  ASSUME QueueInv, NEW e \in Entries, Enqueue(e)
  PROVE  Promised
<1>1. e \notin Gone /\ owed' = owed \cup {e} /\ Gone' = Gone
  BY DEF Enqueue, Gone
<1>2. ASSUME NEW j \in ActiveJobs(e), rows' = [rows EXCEPT ![j] = Wanted(rows[j])]
      PROVE  Queued' = Queued \cup {e} /\ GivenUp' = GivenUp
  <2>1. SameShape
    BY <1>2, WantedFacts DEF ActiveJobs, SameShape, IsActive, QueueInv, TypeOK
  <2>2. e \in Queued
    BY DEF Queued
  <2>. QED  BY <2>1, <2>2, SameShapeHides
<1>3. ASSUME NEW j \in FreshIds, rows' = [rows EXCEPT ![j] = NewRow(e)]
      PROVE  Queued' = Queued \cup {e} /\ GivenUp' = GivenUp
  <2>1. /\ j \in JobIds /\ \A i \in JobIds \ {j} : rows'[i] = rows[i]
        /\ rows'[j].status = "pending" /\ rows'[j].entry = e /\ rows[j].status = "absent"
    BY <1>3, NewRowFacts DEF FreshIds, QueueInv, TypeOK
  <2>2. IsActive(j)' /\ ~IsActive(j)
    BY <2>1 DEF IsActive, ActiveStatus
  <2>3. GivenUp' = GivenUp
    BY <2>1, SameDead
  <2>. QED  BY <2>1, <2>2, <2>3, OneRowQueued DEF QueueInv
<1>4. \/ \E j \in ActiveJobs(e) : rows' = [rows EXCEPT ![j] = Wanted(rows[j])]
      \/ \E j \in FreshIds : rows' = [rows EXCEPT ![j] = NewRow(e)]
  BY DEF Enqueue
<1>5. Queued' = Queued \cup {e} /\ GivenUp' = GivenUp
  BY <1>2, <1>3, <1>4, Zenon
<1>. QED  BY <1>1, <1>5, PromiseSteps DEF Becomes, Promised

(* A completion closes the job only when no request is unanswered: the row  *)
(* goes only if it is not flagged, and then its worker has served them all. *)
LEMMA CompletePromised ==
  ASSUME QueueInv, Covered, Served, NEW w \in Workers, Complete(w)
  PROVE  Promised
<1> DEFINE k == work[w].job
           e == work[w].entry
<1>1. owed' = owed /\ Gone' = Gone
  BY DEF Complete, Gone
<1>2. CASE rows' = rows
  <2>1. SameShape
    BY <1>2 DEF SameShape, IsActive
  <2>. QED  BY <1>1, <2>1, SameShapeHides, PromiseSteps DEF Becomes, Promised
<1>3. CASE /\ Holds(w) /\ RowOf(w).status = "running"
           /\ rows' = [rows EXCEPT ![k] = CompletedRow(@)]
  <2>1. /\ k \in JobIds /\ rows[k] \in Row /\ rows[k].entry = e /\ e \in Entries
        /\ rows[k].status = "running"
        /\ \A i \in JobIds \ {k} : rows'[i] = rows[i]
    BY <1>3 DEF Holds, RowOf, QueueInv, SnapshotFresh, WorkersLegal, LegalWorker,
       TypeOK, Worker
  <2>2. CASE rows[k].again
    <3>1. rows'[k].status = "pending" /\ rows'[k].entry = rows[k].entry
      BY <1>3, <2>1, <2>2, RequeuedFacts DEF CompletedRow, QueueInv, TypeOK
    <3>2. SameShape
      BY <2>1, <3>1 DEF SameShape, IsActive, ActiveStatus
    <3>. QED  BY <1>1, <3>2, SameShapeHides, PromiseSteps DEF Becomes, Promised
  <2>3. CASE ~rows[k].again
    <3>1. e \notin owed
      BY <1>3, <2>3 DEF Complete, RowOf, Covered, Served
    <3>2. rows'[k].status = "absent"
      BY <1>3, <2>1, <2>3, NoRowFacts DEF CompletedRow, QueueInv, TypeOK
    <3>3. GivenUp' = GivenUp
      BY <2>1, <3>2, SameDead
    <3>4. Queued' = Queued \ {e}
      BY <2>1, <3>2, OneRowQueued DEF QueueInv, IsActive, ActiveStatus
    <3>. QED  BY <1>1, <2>1, <3>1, <3>3, <3>4, PromiseSteps DEF Becomes, Promised
  <2>. QED  BY <2>2, <2>3
<1>. QED  BY <1>2, <1>3 DEF Complete

(* A job that dies gives its entry up.                                      *)
LEMMA FailDeadPromised ==
  ASSUME QueueInv, NEW w \in Workers, FailDead(w)
  PROVE  Promised
<1> DEFINE k == work[w].job
           e == work[w].entry
<1>1. Gone' = Gone
  BY DEF FailDead, Gone
<1>2. CASE rows' = rows /\ owed' = owed
  <2>1. SameShape
    BY <1>2 DEF SameShape, IsActive
  <2>. QED  BY <1>1, <1>2, <2>1, SameShapeHides, PromiseSteps DEF Becomes, Promised
<1>3. CASE /\ Holds(w) /\ rows' = [rows EXCEPT ![k] = Unleased(@, "dead")]
           /\ owed' = owed \ {e}
  <2>1. /\ k \in JobIds /\ rows[k] \in Row /\ rows[k].entry = e /\ e \in Entries
        /\ rows[k].status = "running"
        /\ \A i \in JobIds \ {k} : rows'[i] = rows[i]
    BY <1>3, ConstantsAssumption DEF Holds, RowOf, QueueInv, SnapshotFresh,
       WorkersLegal, LegalWorker, RowsLegal, LegalRow, TypeOK, Worker
  <2>2. rows'[k].status = "dead" /\ rows'[k].entry = e
    BY <1>3, <2>1, UnleasedFacts DEF QueueInv, TypeOK
  <2>3. e \in Queued
    BY <2>1, MappingFacts DEF IsActive, ActiveStatus
  <2>4. Queued' = Queued \ {e}
    BY <2>1, <2>2, OneRowQueued DEF QueueInv, IsActive, ActiveStatus
  <2>5. \A d : d \in GivenUp' <=> d \in GivenUp \/ d = e
    BY <2>1, <2>2, MappingFacts, MappingFactsNext
  <2>6. GivenUp' = GivenUp \cup {e}
    BY <2>5
  <2>. QED  BY <1>1, <1>3, <2>1, <2>3, <2>4, <2>6, PromiseSteps DEF Becomes, Promised
<1>. QED  BY <1>2, <1>3 DEF FailDead

(* Deletion takes the entry's rows and its requests with it.                *)
LEMMA DeletePromised ==
  ASSUME QueueInv, NEW e \in Entries, DeleteEntry(e)
  PROVE  Promised
<1>1. owed' = owed \ {e} /\ Gone' = Gone \cup {e}
  BY DEF DeleteEntry, Gone, QueueInv, TypeOK
<1>2. \A j \in JobIds : rows'[j] = IF rows[j].entry = e THEN NoRow ELSE rows[j]
  BY DEF DeleteEntry
<1>3. \A d : d \in Queued' <=> d \in Queued /\ d # e
  BY <1>2, NoRowFacts, MappingFacts, MappingFactsNext DEF IsActive, ActiveStatus
<1>4. \A d : d \in GivenUp' <=> d \in GivenUp /\ d # e
  BY <1>2, NoRowFacts, MappingFacts, MappingFactsNext
<1>5. Queued' = Queued \ {e} /\ GivenUp' = GivenUp \ {e}
  BY <1>3, <1>4
<1>. QED  BY <1>1, <1>5, PromiseSteps DEF Becomes, Promised

(* What leaves given_up, when nothing else changes, is forgotten.           *)
LEMMA ForgetPromised ==
  ASSUME QueueInv, owed' = owed, Queued' = Queued, Gone' = Gone, GivenUp' \subseteq GivenUp
  PROVE  Promised
<1> DEFINE S == GivenUp \ GivenUp'
<1>1. S \in SUBSET Entries /\ S \subseteq GivenUp /\ GivenUp' = GivenUp \ S
  BY MappingFacts DEF QueueInv
<1> HIDE DEF S
<1>. QED  BY <1>1, PromiseSteps DEF Becomes, Promised

(* The purge only forgets dead jobs.                                        *)
LEMMA PurgePromised ==
  ASSUME QueueInv, PurgeDead
  PROVE  Promised
<1>1. owed' = owed /\ Gone' = Gone
  BY DEF PurgeDead, Gone
<1>2. PICK old \in SUBSET DeadJobs :
        rows' = [j \in JobIds |-> IF j \in old THEN NoRow ELSE rows[j]]
  BY DEF PurgeDead
<1>3. \A j \in JobIds : \/ rows'[j] = rows[j]
                        \/ rows'[j].status = "absent" /\ rows[j].status = "dead"
  BY <1>2, NoRowFacts DEF DeadJobs
<1>4. \A d : d \in Queued' <=> d \in Queued
  BY <1>3, MappingFacts, MappingFactsNext DEF IsActive, ActiveStatus
<1>5. \A d : d \in GivenUp' => d \in GivenUp
  BY <1>3, MappingFacts, MappingFactsNext
<1>6. Queued' = Queued /\ GivenUp' \subseteq GivenUp
  BY <1>4, <1>5
<1>. QED  BY <1>1, <1>6, ForgetPromised

(* The administrator drops an active job or forgets a dead one.             *)
LEMMA DeleteJobPromised ==
  ASSUME QueueInv, NEW k \in JobIds, DeleteJob(k)
  PROVE  Promised
<1> DEFINE e == rows[k].entry
<1>1. /\ Gone' = Gone /\ Admin /\ rows[k].status # "absent" /\ e \in Entries
      /\ rows'[k].status = "absent"
      /\ \A i \in JobIds \ {k} : rows'[i] = rows[i]
  BY NoRowFacts DEF DeleteJob, Gone, QueueInv, TypeOK, RowsLegal, LegalRow
<1>2. CASE IsActive(k)
  <2>1. owed' = owed \ {e}
    BY <1>2 DEF DeleteJob
  <2>2. Queued' = Queued \ {e}
    BY <1>1, <1>2, OneRowQueued DEF QueueInv, IsActive, ActiveStatus
  <2>3. GivenUp' = GivenUp
    BY <1>1, <1>2, SameDead DEF IsActive, ActiveStatus
  <2>. QED  BY <1>1, <2>1, <2>2, <2>3, PromiseSteps DEF Becomes, Promised
<1>3. CASE ~IsActive(k)
  <2>1. owed' = owed
    BY <1>3 DEF DeleteJob
  <2>2. Queued' = Queued
    BY <1>1, <1>3, OneRowQueued DEF QueueInv, IsActive, ActiveStatus
  <2>3. \A d : d \in GivenUp' => d \in GivenUp
    BY <1>1, MappingFacts, MappingFactsNext
  <2>4. GivenUp' \subseteq GivenUp
    BY <2>3
  <2>. QED  BY <1>1, <2>1, <2>2, <2>4, ForgetPromised
<1>. QED  BY <1>2, <1>3

(* Jobs that start anew are asked for and queued, and dead no more.         *)
LEMMA RevivePromised ==
  ASSUME QueueInv, Admin, NEW S \in SUBSET Entries, S \cap Gone = {},
         Gone' = Gone, owed' = owed \cup S, Queued' = Queued \cup S,
         GivenUp' \subseteq GivenUp, GivenUp \ GivenUp' \subseteq S
  PROVE  Promised
<1> DEFINE T == GivenUp \ GivenUp'
<1>1. T \in SUBSET Entries /\ T \subseteq S /\ GivenUp' = GivenUp \ T
  BY MappingFacts DEF QueueInv
<1> HIDE DEF T
<1>. QED  BY <1>1, PromiseSteps DEF Becomes, Promised

(* A retry is a new request, for an entry that has no other active row.     *)
LEMMA RetryPromised ==
  ASSUME QueueInv, NEW k \in JobIds, Retry(k)
  PROVE  Promised
<1> DEFINE e == rows[k].entry
<1>1. /\ Gone' = Gone /\ Admin /\ rows[k].status # "absent" /\ e \in Entries
      /\ owed' = owed \cup {e} /\ e \notin Gone
      /\ rows'[k].status = "pending" /\ rows'[k].entry = e
      /\ \A i \in JobIds \ {k} : rows'[i] = rows[i]
  BY RequeuedFacts DEF Retry, Gone, QueueInv, TypeOK, RowsLegal, LegalRow, RowsHaveEntries
<1>2. \A d : d \in Queued' <=> d \in Queued \/ d = e
  BY <1>1, MappingFacts, MappingFactsNext DEF IsActive, ActiveStatus
<1>3. \A d : d \in GivenUp' => d \in GivenUp
  BY <1>1, MappingFacts, MappingFactsNext
<1>4. \A d : d \in GivenUp => d \in GivenUp' \/ d = e
  BY <1>1, MappingFacts, MappingFactsNext
<1>5. /\ Queued' = Queued \cup {e} /\ GivenUp' \subseteq GivenUp
      /\ GivenUp \ GivenUp' \subseteq {e} /\ {e} \cap Gone = {} /\ {e} \in SUBSET Entries
  BY <1>1, <1>2, <1>3, <1>4
<1>. QED  BY <1>1, <1>5, RevivePromised

(* So is the revival of all dead jobs, up to its limit.                     *)
LEMMA RetryAllPromised ==
  ASSUME QueueInv, RetryAllDead
  PROVE  Promised
<1>1. PICK P \in SUBSET DeadJobs :
        /\ rows' = [j \in JobIds |-> IF j \in P THEN Revived(rows[j]) ELSE rows[j]]
        /\ owed' = owed \cup {rows[j].entry : j \in P}
  BY DEF RetryAllDead
<1> DEFINE S == {rows[j].entry : j \in P}
<1>2. Gone' = Gone /\ Admin
  BY DEF RetryAllDead, Gone
<1>3. /\ \A j \in P : /\ j \in JobIds /\ rows[j].entry \in Entries
                      /\ content[rows[j].entry] # "gone"
                      /\ rows'[j].status = "pending" /\ rows'[j].entry = rows[j].entry
      /\ \A j \in JobIds \ P : rows'[j] = rows[j]
  BY <1>1, RevivedFacts DEF DeadJobs, QueueInv, TypeOK, RowsLegal, LegalRow, RowsHaveEntries
<1>4. S \in SUBSET Entries /\ S \cap Gone = {}
  BY <1>3 DEF Gone
<1>5. \A d : d \in S <=> \E j \in P : rows[j].entry = d
  OBVIOUS
<1> HIDE DEF S
<1>6. \A d : d \in Queued' <=> d \in Queued \/ d \in S
  BY <1>3, <1>5, MappingFacts, MappingFactsNext DEF IsActive, ActiveStatus, DeadJobs
<1>7. \A d : d \in GivenUp' => d \in GivenUp
  BY <1>3, MappingFacts, MappingFactsNext
<1>8. \A d : d \in GivenUp => d \in GivenUp' \/ d \in S
  BY <1>3, <1>5, MappingFacts, MappingFactsNext
<1>9. /\ Queued' = Queued \cup S /\ GivenUp' \subseteq GivenUp
      /\ GivenUp \ GivenUp' \subseteq S
  BY <1>6, <1>7, <1>8
<1>. QED  BY <1>1, <1>2, <1>4, <1>9, RevivePromised DEF S

(* A fetch that covers the requests answers them, and no step that leaves   *)
(* the rows alone does anything else that the promise sees.                 *)
LEMMA QuietPromised ==
  ASSUME QueueInv,
         \/ \E w \in Workers :
              \/ Save(w) \/ ProcessOk(w) \/ ProcessPermanent(w) \/ ProcessTransient(w)
              \/ MarkPermanent(w) \/ MarkDead(w) \/ Restart(w)
              \/ Crash(w) \/ Panic(w) \/ RenewerStops(w) \/ LostWrite(w)
         \/ \E e \in Entries : EditEntry(e)
         \/ UNCHANGED vars
  PROVE  Promised
<1>1. rows' = rows
  BY DEF Save, ProcessOk, ProcessPermanent, ProcessTransient, MarkPermanent,
     MarkDead, Restart, Crash, Panic, RenewerStops, LostWrite, EditEntry, vars
<1>2. Queued' = Queued /\ GivenUp' = GivenUp
  BY <1>1 DEF Queued, GivenUp, ActiveJobs, DeadJobs, IsActive
<1>3. ASSUME NEW w \in Workers, Save(w) \/ MarkPermanent(w) \/ MarkDead(w) PROVE Gone' = Gone
  BY <1>3 DEF Save, MarkPermanent, MarkDead, MarkFailed, Overwritable, Gone, QueueInv, TypeOK
<1>4. ASSUME NEW e \in Entries, EditEntry(e) PROVE Gone' = Gone
  BY <1>4 DEF EditEntry, Gone, QueueInv, TypeOK
<1>5. Gone' = Gone
  BY <1>3, <1>4 DEF ProcessOk, ProcessPermanent, ProcessTransient, Restart, Crash,
     Panic, RenewerStops, LostWrite, vars, Gone
<1>6. owed' = owed \/ \E e \in Entries : owed' = owed \ {e}
  <2>1. ASSUME NEW w \in Workers, Save(w) \/ ProcessPermanent(w) PROVE work[w].entry \in Entries
    BY <2>1 DEF Save, ProcessPermanent, QueueInv, WorkersLegal, LegalWorker
  <2>2. ASSUME NEW w \in Workers, Save(w) \/ ProcessPermanent(w)
        PROVE  owed' = owed \/ owed' = owed \ {work[w].entry}
    BY <2>2 DEF Save, ProcessPermanent
  <2>. QED  BY <2>1, <2>2 DEF ProcessOk, ProcessTransient, MarkPermanent, MarkDead, Restart,
            Crash, Panic, RenewerStops, LostWrite, EditEntry, vars
<1>. QED  BY <1>2, <1>5, <1>6, PromiseSteps DEF Becomes, Promised

(* The queue keeps its promise: unless save() hides a failed UPDATE, every  *)
(* step of the table and its workers, with all their faults, is one the     *)
(* promise allows, or is invisible to it. In particular a job is closed     *)
(* only when every request for its entry has been answered.                 *)
THEOREM ImplementsPromiseHolds ==
  ASSUME "save_error" \notin Faults
  PROVE  Spec => ImplementsPromise
<1>1. Init => Promise!Init
  <2> SUFFICES ASSUME Init PROVE Promise!Init
    OBVIOUS
  <2>1. \A j \in JobIds : rows[j].status = "absent"
    BY NoRowFacts DEF Init
  <2>2. Queued = {} /\ GivenUp = {} /\ Gone = {}
    BY <2>1 DEF Init, Queued, GivenUp, Gone, ActiveJobs, DeadJobs, IsActive, ActiveStatus
  <2>. QED  BY <2>2 DEF Init, Promise!Init, Queued, GivenUp, Gone
<1>2. RequestInv /\ [Next]_vars => Promised
  <2> SUFFICES ASSUME RequestInv, [Next]_vars PROVE Promised
    OBVIOUS
  <2>1. QueueInv /\ Covered /\ Served
    BY DEF RequestInv
  <2>. QED
    BY <2>1, LeaseShapes, EnqueuePromised, CompletePromised, FailDeadPromised,
       DeletePromised, PurgePromised, DeleteJobPromised, RetryPromised,
       RetryAllPromised, QuietPromised
       DEF Next, SystemStep, EnvironmentStep, WorkerStep, TimeStep, UserStep,
       AdminStep, FaultStep
<1>3. Spec => []RequestInv
  BY RequestInvariant
<1>. QED  BY <1>1, <1>2, <1>3, PTL DEF Spec, ImplementsPromise, Promise!Spec, Promised

-----------------------------------------------------------------------------
(* The two regimes. While nothing stalls, a worker that fetches still has   *)
(* its row, under a live lease that is being renewed, unless the entry has  *)
(* been deleted under it.                                                   *)
FetchHeld ==
    \A v \in Workers : work[v].pc \in Fetching =>
        /\ work[v].renewing
        /\ \/ content[work[v].entry] = "gone"
           \/ Holds(v) /\ RowOf(v).lease = "live"

RegimeInv ==
    /\ QueueInv
    /\ regime = "deaths" => FetchHeld /\ NoDoubleFetch
    /\ regime = "delays" => DeadJobMarked

(* Each regime takes steps of the queue only.                               *)
LEMMA RegimesAreQueues == DeathStep \/ DelayStep => Next
  BY DelayEntriesAssumption DEF DeathStep, DelayStep, Next, SystemStep, EnvironmentStep,
     UserStep, FaultStep

(* A worker that a step does not concern goes on with its fetch, or has none.*)
FetchesKeep ==
    \A v \in Workers : work'[v].pc \in Fetching =>
        /\ work[v].pc \in Fetching
        /\ work'[v].job = work[v].job
        /\ work'[v].entry = work[v].entry
        /\ work'[v].renewing = work[v].renewing

(* What is deleted stays deleted.                                           *)
GoneStays == \A e \in Entries : content[e] = "gone" => content'[e] = "gone"

(* A live lease of a fetching worker stays, or its entry goes.              *)
HeldKeep ==
    \A v \in Workers :
        (/\ work'[v].pc \in Fetching /\ work[v].pc \in Fetching
         /\ content'[work[v].entry] # "gone" /\ content[work[v].entry] # "gone"
         /\ Holds(v) /\ RowOf(v).lease = "live" /\ work[v].renewing)
        => /\ rows'[work[v].job].holder = v
           /\ rows'[work[v].job].lease = "live"

(* Deleted entries stay deleted.                                            *)
LEMMA GoneStaysNext == TypeOK /\ [Next]_vars => GoneStays
<1> SUFFICES ASSUME TypeOK, [Next]_vars PROVE GoneStays
  OBVIOUS
<1>1. ASSUME NEW w \in Workers, Save(w) \/ MarkPermanent(w) \/ MarkDead(w) PROVE GoneStays
  BY <1>1 DEF Save, MarkPermanent, MarkDead, MarkFailed, Overwritable, GoneStays, TypeOK
<1>2. ASSUME NEW e \in Entries, EditEntry(e) \/ DeleteEntry(e) PROVE GoneStays
  BY <1>2 DEF EditEntry, DeleteEntry, GoneStays, TypeOK
<1>3. CASE content' = content
  BY <1>3 DEF GoneStays
<1>. QED
  BY <1>1, <1>2, <1>3 DEF Next, SystemStep, EnvironmentStep, WorkerStep, TimeStep,
     UserStep, AdminStep, FaultStep, Dequeue, ProcessOk, ProcessPermanent,
     ProcessTransient, Complete, FailRetry, FailDead, RenewLease, Restart, Shutdown,
     ExpireLease, BecomeDue, PurgeDead, DeleteJob, Retry, RetryAllDead, Enqueue,
     Crash, Panic, RenewerStops, LostWrite, LostLease, vars

(* Only dequeue_one starts a fetch, and without renewer faults none is left *)
(* without its renewer.                                                     *)
LEMMA FetchesKeepNext ==
  TypeOK /\ DeathStep => FetchesKeep \/ \E w \in Workers : Dequeue(w)
<1> SUFFICES ASSUME TypeOK, DeathStep, \A w \in Workers : ~Dequeue(w)
             PROVE  FetchesKeep
  OBVIOUS
<1>1. ASSUME NEW w \in Workers, Save(w) PROVE FetchesKeep
  BY <1>1 DEF Save, Goto, Fetching, FetchesKeep, TypeOK, Worker
<1>2. ASSUME NEW w \in Workers,
             ProcessOk(w) \/ ProcessPermanent(w) \/ ProcessTransient(w)
             \/ MarkPermanent(w) \/ FailDead(w)
      PROVE  FetchesKeep
  BY <1>2 DEF ProcessOk, ProcessPermanent, ProcessTransient, MarkPermanent, FailDead,
     Goto, Fetching, FetchesKeep, TypeOK, Worker
<1>3. ASSUME NEW w \in Workers,
             Complete(w) \/ FailRetry(w) \/ MarkDead(w) \/ Restart(w) \/ Shutdown(w) \/ Crash(w)
      PROVE  FetchesKeep
  BY <1>3, IdleFacts DEF Complete, FailRetry, MarkDead, Restart, Shutdown, Crash, Return,
     Fetching, FetchesKeep, TypeOK
<1>4. ASSUME NEW w \in Workers, LostWrite(w) PROVE FetchesKeep
  BY <1>4, IdleFacts DEF LostWrite, Return, Goto, Fetching, FetchesKeep, TypeOK, Worker
<1>5. CASE work' = work
  BY <1>5 DEF FetchesKeep
<1>. QED
  BY <1>1, <1>2, <1>3, <1>4, <1>5 DEF DeathStep, WorkerStep, TimeStep, UserStep,
     RenewLease, LostLease, ExpireLease, BecomeDue, PurgeDead, Enqueue, EditEntry,
     DeleteEntry

(* In the regime of deaths nobody takes a live lease from a fetching worker.*)
LEMMA HeldKeepNext == QueueInv /\ DeathStep => HeldKeep
<1> SUFFICES ASSUME QueueInv, DeathStep, NEW v \in Workers,
                    work'[v].pc \in Fetching, work[v].pc \in Fetching,
                    content'[work[v].entry] # "gone", content[work[v].entry] # "gone",
                    Holds(v), RowOf(v).lease = "live", work[v].renewing
             PROVE  rows'[work[v].job].holder = v /\ rows'[work[v].job].lease = "live"
  BY DEF HeldKeep
<1> DEFINE k == work[v].job
           Goal == rows'[k].holder = v /\ rows'[k].lease = "live"
<1>1. /\ TypeOK /\ k \in JobIds /\ k # NoJob /\ rows[k] \in Row /\ rows[k].holder = v
      /\ rows[k].lease = "live" /\ rows[k].status = "running" /\ v # NoWorker
      /\ rows[k].entry = work[v].entry
  BY LiveIsRunning, ConstantsAssumption
     DEF Holds, RowOf, QueueInv, TypeOK, Worker, SnapshotFresh
<1> HIDE DEF Goal
<1>2. ASSUME NEW w \in Workers, Dequeue(w) \/ LostLease(w) PROVE Goal
  BY <1>1, <1>2 DEF Dequeue, LostLease, Runnable, Goal, TypeOK
<1>3. ASSUME NEW w \in Workers, Complete(w) \/ FailRetry(w) \/ FailDead(w) PROVE Goal
  <2>1. w # v
    BY <1>3 DEF Complete, FailRetry, FailDead, Fetching
  <2>2. Holds(w) => work[w].job # k
    BY <1>1, <2>1 DEF Holds
  <2>. QED  BY <1>1, <1>3, <2>2 DEF Complete, FailRetry, FailDead, Goal, TypeOK
<1>4. ASSUME NEW w \in Workers, Shutdown(w) PROVE Goal
  <2>1. w # v
    BY <1>4, IdleFacts DEF Shutdown, Fetching, QueueInv, TypeOK
  <2>2. Holds(w) => work[w].job # k
    BY <1>1, <2>1 DEF Holds
  <2>. QED  BY <1>1, <1>4, <2>2 DEF Shutdown, Goal, TypeOK
<1>5. ASSUME NEW w \in Workers, RenewLease(w) PROVE Goal
  BY <1>1, <1>5 DEF RenewLease, Holds, Row, Worker, Goal, TypeOK
<1>6. ASSUME NEW j \in JobIds, ExpireLease(j), ~Stall PROVE Goal
  <2>1. j # k
    BY <1>1, <1>6 DEF Stall, Renewed
  <2>. QED  BY <1>1, <1>6, <2>1 DEF ExpireLease, Goal, TypeOK
<1>7. ASSUME NEW j \in JobIds, BecomeDue(j) PROVE Goal
  BY <1>1, <1>7 DEF BecomeDue, Row, Goal, TypeOK
<1>8. ASSUME NEW e \in Entries, Enqueue(e) PROVE Goal
  <2>1. ASSUME NEW j \in ActiveJobs(e), rows' = [rows EXCEPT ![j] = Wanted(rows[j])]
        PROVE  Goal
    BY <1>1, <2>1, WantedFacts DEF ActiveJobs, Goal, TypeOK
  <2>2. ASSUME NEW j \in FreshIds, rows' = [rows EXCEPT ![j] = NewRow(e)] PROVE Goal
    BY <1>1, <2>2 DEF FreshIds, Goal, TypeOK
  <2>3. \/ \E j \in ActiveJobs(e) : rows' = [rows EXCEPT ![j] = Wanted(rows[j])]
        \/ \E j \in FreshIds : rows' = [rows EXCEPT ![j] = NewRow(e)]
    BY <1>8 DEF Enqueue
  <2>. QED  BY <2>1, <2>2, <2>3, Zenon
<1>9. ASSUME NEW e \in Entries, DeleteEntry(e) PROVE Goal
  <2>1. rows[k].entry # e
    BY <1>1, <1>9 DEF DeleteEntry, TypeOK
  <2>. QED  BY <1>1, <1>9, <2>1 DEF DeleteEntry, Goal
<1>10. ASSUME PurgeDead PROVE Goal
  BY <1>1, <1>10 DEF PurgeDead, DeadJobs, Goal
<1>11. CASE \E w \in Workers : \/ Save(w) \/ ProcessOk(w) \/ ProcessPermanent(w)
            \/ ProcessTransient(w) \/ MarkPermanent(w) \/ MarkDead(w) \/ Restart(w)
            \/ Crash(w) \/ LostWrite(w)
  BY <1>1, <1>11 DEF Save, ProcessOk, ProcessPermanent, ProcessTransient, MarkPermanent,
     MarkDead, Restart, Crash, LostWrite, Goal
<1>12. CASE \E e \in Entries : EditEntry(e)
  BY <1>1, <1>12 DEF EditEntry, Goal
<1>13. ASSUME NEW w \in Workers,
              \/ WorkerStep(w) \/ RenewLease(w) \/ Restart(w)
              \/ Shutdown(w) \/ Crash(w) \/ LostWrite(w) \/ LostLease(w)
       PROVE  Goal
  BY <1>13, <1>2, <1>3, <1>4, <1>5, <1>11 DEF WorkerStep, Goal
<1>14. CASE TimeStep /\ ~Stall
  BY <1>14, <1>6, <1>7 DEF TimeStep, Goal
<1>15. CASE UserStep
  BY <1>15, <1>8, <1>9, <1>12 DEF UserStep, Goal
<1>. QED  BY <1>10, <1>13, <1>14, <1>15 DEF DeathStep, Goal

(* A worker that leases a row finds nobody fetching its entry: whoever did  *)
(* would hold the only active row of the entry under a live lease.          *)
LEMMA DequeueIsAlone ==
  ASSUME QueueInv, FetchHeld, NEW w \in Workers, NEW j \in Runnable,
         NEW v \in Workers, work[v].pc \in Fetching, work[v].entry = rows[j].entry
  PROVE  FALSE
<1>1. /\ j \in JobIds /\ IsActive(j) /\ rows[j].lease # "live"
      /\ content[rows[j].entry] # "gone"
  BY DEF Runnable, IsActive, ActiveStatus, QueueInv, RowsHaveEntries
<1>2. Holds(v) /\ RowOf(v).lease = "live"
  BY <1>1 DEF FetchHeld
<1>3. /\ work[v].job \in JobIds /\ rows[work[v].job].entry = rows[j].entry
      /\ rows[work[v].job].status = "running"
  BY <1>2, LiveIsRunning DEF Holds, RowOf, QueueInv, SnapshotFresh, TypeOK, Worker
<1>4. work[v].job = j
  BY <1>1, <1>3 DEF QueueInv, SingleActive, IsActive, ActiveStatus
<1>. QED  BY <1>1, <1>2, <1>4 DEF RowOf

(* Fetches stay held, and exclusive.                                        *)
LEMMA FetchHeldNext ==
  ASSUME QueueInv, QueueInv', FetchHeld, NoDoubleFetch, DeathStep
  PROVE  FetchHeld' /\ NoDoubleFetch'
<1>1. GoneStays /\ HeldKeep /\ TypeOK /\ TypeOK'
  BY GoneStaysNext, HeldKeepNext, RegimesAreQueues DEF QueueInv
<1>2. ASSUME NEW v \in Workers, work'[v].pc \in Fetching, work[v].pc \in Fetching,
             work'[v].job = work[v].job, work'[v].entry = work[v].entry,
             work'[v].renewing = work[v].renewing
      PROVE  /\ work'[v].renewing
             /\ \/ content'[work'[v].entry] = "gone"
                \/ Holds(v)' /\ RowOf(v)'.lease = "live"
  <2>1. work[v].entry \in Entries
    BY <1>2 DEF QueueInv, WorkersLegal, LegalWorker, Fetching
  <2>2. CASE content[work[v].entry] = "gone"
    BY <1>1, <1>2, <2>1, <2>2 DEF GoneStays, FetchHeld
  <2>3. CASE content[work[v].entry] # "gone"
    BY <1>1, <1>2, <2>1, <2>3 DEF HeldKeep, FetchHeld, Holds, RowOf
  <2>. QED  BY <2>2, <2>3
<1>3. CASE FetchesKeep
  <2>1. FetchHeld'
    BY <1>2, <1>3 DEF FetchesKeep, FetchHeld
  <2>2. NoDoubleFetch'
    BY <1>3 DEF FetchesKeep, NoDoubleFetch
  <2>. QED  BY <2>1, <2>2
<1>4. ASSUME NEW w \in Workers, Dequeue(w) PROVE FetchHeld' /\ NoDoubleFetch'
  <2>1. PICK j \in Runnable :
          /\ rows' = [rows EXCEPT ![j] = Leased(@, w)]
          /\ work' = [work EXCEPT ![w] = [pc |-> "fetching", job |-> j,
                        entry |-> rows[j].entry,
                        attempts |-> Bumped(rows[j].attempts), renewing |-> TRUE]]
    BY <1>4 DEF Dequeue
  <2>2. j \in JobIds /\ j # NoJob /\ rows[j] \in Row
    BY ConstantsAssumption DEF Runnable, QueueInv, TypeOK
  <2>3. /\ work'[w].job = j /\ work'[w].entry = rows[j].entry /\ work'[w].renewing
        /\ \A v \in Workers \ {w} : work'[v] = work[v]
    BY <2>1 DEF QueueInv, TypeOK
  <2>4. Holds(w)' /\ RowOf(w)'.lease = "live"
    BY <2>1, <2>2, <2>3, LeasedFacts DEF Holds, RowOf, QueueInv, TypeOK
  <2>5. FetchHeld'
    BY <1>2, <2>3, <2>4 DEF FetchHeld
  <2>6. NoDoubleFetch'
    BY <2>3, DequeueIsAlone DEF NoDoubleFetch
  <2>. QED  BY <2>5, <2>6
<1>. QED  BY <1>3, <1>4, FetchesKeepNext DEF QueueInv

(* An entry that holds nothing never held anything.                         *)
LEMMA NoneWasNone ==
  TypeOK /\ [Next]_vars => \A e \in Entries : content'[e] = "none" => content[e] = "none"
<1> DEFINE Goal == \A e \in Entries : content'[e] = "none" => content[e] = "none"
<1> SUFFICES ASSUME TypeOK, [Next]_vars PROVE Goal
  OBVIOUS
<1>1. ASSUME NEW w \in Workers, Save(w) \/ MarkPermanent(w) \/ MarkDead(w) PROVE Goal
  BY <1>1 DEF Save, MarkPermanent, MarkDead, MarkFailed, TypeOK
<1>2. ASSUME NEW e \in Entries, EditEntry(e) \/ DeleteEntry(e) PROVE Goal
  BY <1>2 DEF EditEntry, DeleteEntry, TypeOK
<1>3. CASE content' = content
  BY <1>3
<1>. QED
  BY <1>1, <1>2, <1>3 DEF Next, SystemStep, EnvironmentStep, WorkerStep, TimeStep,
     UserStep, AdminStep, FaultStep, Dequeue, ProcessOk, ProcessPermanent,
     ProcessTransient, Complete, FailRetry, FailDead, RenewLease, Restart, Shutdown,
     ExpireLease, BecomeDue, PurgeDead, DeleteJob, Retry, RetryAllDead, Enqueue,
     Crash, Panic, RenewerStops, LostWrite, LostLease, vars

(* A dead row died in fail(), or was dead before.                           *)
DeadWasDead ==
    \A j \in JobIds : rows'[j].status = "dead" =>
        rows[j].status = "dead" /\ rows'[j].entry = rows[j].entry

(* What is dead in the next state was dead, or died in this step.           *)
LEMMA DeadWasDeadNext ==
  QueueInv /\ [Next]_vars => DeadWasDead \/ \E w \in Workers : FailDead(w)
<1> SUFFICES ASSUME QueueInv, [Next]_vars, \A w \in Workers : ~FailDead(w)
             PROVE  DeadWasDead
  OBVIOUS
<1>1. TypeOK
  BY DEF QueueInv
<1>2. ASSUME NEW w \in Workers, Dequeue(w) \/ LostLease(w) PROVE DeadWasDead
  <2>1. PICK j \in Runnable : rows' = [rows EXCEPT ![j] = Leased(rows[j], w)]
    BY <1>2 DEF Dequeue, LostLease
  <2>. QED  BY <1>1, <2>1, LeasedFacts DEF Runnable, DeadWasDead, TypeOK
<1>3. ASSUME NEW w \in Workers, Complete(w) PROVE DeadWasDead
  BY <1>1, <1>3, RequeuedFacts, NoRowFacts DEF Complete, Holds, CompletedRow, Worker,
     DeadWasDead, TypeOK
<1>4. ASSUME NEW w \in Workers, FailRetry(w) PROVE DeadWasDead
  BY <1>1, <1>4, BackingOffFacts DEF FailRetry, Holds, Worker, DeadWasDead, TypeOK
<1>5. ASSUME NEW w \in Workers, Shutdown(w) PROVE DeadWasDead
  BY <1>1, <1>5, ReleasedFacts DEF Shutdown, Holds, Worker, DeadWasDead, TypeOK
<1>6. ASSUME NEW w \in Workers, RenewLease(w) PROVE DeadWasDead
  BY <1>1, <1>6 DEF RenewLease, Holds, Row, Worker, DeadWasDead, TypeOK
<1>7. ASSUME NEW j \in JobIds, ExpireLease(j) \/ BecomeDue(j) PROVE DeadWasDead
  BY <1>1, <1>7 DEF ExpireLease, BecomeDue, Row, DeadWasDead, TypeOK
<1>8. ASSUME NEW j \in JobIds, DeleteJob(j) \/ Retry(j) PROVE DeadWasDead
  BY <1>1, <1>8, RequeuedFacts, NoRowFacts DEF DeleteJob, Retry, DeadWasDead, TypeOK
<1>9. ASSUME NEW e \in Entries, Enqueue(e) PROVE DeadWasDead
  BY <1>1, <1>9, WantedFacts, NewRowFacts
     DEF Enqueue, ActiveJobs, FreshIds, DeadWasDead, TypeOK
<1>10. ASSUME NEW e \in Entries, DeleteEntry(e) PROVE DeadWasDead
  BY <1>1, <1>10, NoRowFacts DEF DeleteEntry, DeadWasDead, TypeOK
<1>11. ASSUME RetryAllDead PROVE DeadWasDead
  BY <1>1, <1>11, RevivedFacts DEF RetryAllDead, DeadJobs, DeadWasDead, TypeOK
<1>12. ASSUME PurgeDead PROVE DeadWasDead
  BY <1>1, <1>12, NoRowFacts DEF PurgeDead, DeadWasDead, TypeOK
<1>13. CASE QuietStep
  BY <1>13 DEF QuietStep, DeadWasDead
<1>. QED
  BY <1>1, <1>2, <1>3, <1>4, <1>5, <1>6, <1>7, <1>8, <1>9, <1>10, <1>11, <1>12, <1>13,
     RowSteps DEF RowStep

(* Only mark_failed ends a burial where no process dies and none is lost.   *)
LEMMA BurialStays ==
  ASSUME TypeOK, DelayStep, NEW v \in Workers, work[v].pc = "burying", ~MarkDead(v)
  PROVE  work'[v] = work[v]
<1>1. ASSUME NEW w \in Workers,
             Dequeue(w) \/ Save(w) \/ ProcessOk(w) \/ ProcessPermanent(w)
             \/ ProcessTransient(w) \/ MarkPermanent(w) \/ Complete(w)
             \/ FailRetry(w) \/ FailDead(w) \/ MarkDead(w) \/ Restart(w)
             \/ Shutdown(w) \/ RenewerStops(w)
      PROVE  work'[v] = work[v]
  BY <1>1 DEF Dequeue, Save, ProcessOk, ProcessPermanent, ProcessTransient,
     MarkPermanent, Complete, FailRetry, FailDead, MarkDead, Restart, Shutdown,
     RenewerStops, Return, Goto, Fetching, TypeOK
<1>2. CASE work' = work
  BY <1>2
<1>. QED
  BY <1>1, <1>2 DEF DelayStep, WorkerStep, TimeStep, AdminStep, RenewLease,
     ExpireLease, BecomeDue, PurgeDead, DeleteJob, Retry, RetryAllDead, Enqueue,
     EditEntry, DeleteEntry

(* While no process dies between two statements and none is lost, whoever   *)
(* buried a job is still there until its entry is marked.                   *)
LEMMA DeadJobMarkedNext ==
  ASSUME QueueInv, QueueInv', DeadJobMarked, DelayStep
  PROVE  DeadJobMarked'
<1> SUFFICES ASSUME NEW j \in JobIds, rows'[j].status = "dead",
                    content'[rows'[j].entry] = "none"
             PROVE  \E w \in Workers : work'[w].entry = rows'[j].entry
                                         /\ work'[w].pc = "burying"
  BY DEF DeadJobMarked, DeadJobs, WorkersOn
<1>1. TypeOK /\ TypeOK' /\ rows'[j].entry \in Entries
  BY DEF QueueInv, RowsLegal, LegalRow
<1>2. content[rows'[j].entry] = "none"
  BY <1>1, NoneWasNone, RegimesAreQueues
<1>3. CASE rows[j].status = "dead" /\ rows'[j].entry = rows[j].entry
  <2>1. PICK w \in Workers : work[w].entry = rows[j].entry /\ work[w].pc = "burying"
    BY <1>2, <1>3 DEF DeadJobMarked, DeadJobs, WorkersOn
  <2>2. ~MarkDead(w)
    BY <1>1, <1>2, <1>3, <2>1 DEF MarkDead, MarkFailed, Overwritable
  <2>. QED  BY <1>1, <1>3, <2>1, <2>2, BurialStays
<1>4. CASE ~(rows[j].status = "dead" /\ rows'[j].entry = rows[j].entry)
  <2>1. PICK w \in Workers : FailDead(w)
    BY <1>4, DeadWasDeadNext, RegimesAreQueues DEF DeadWasDead
  <2>2. /\ Holds(w) /\ work[w].job = j /\ work[w] \in Worker
        /\ rows' = [rows EXCEPT ![j] = Unleased(@, "dead")]
    BY <1>1, <1>4, <2>1 DEF FailDead, TypeOK
  <2>3. rows'[j].entry = work[w].entry
    BY <1>1, <2>2, UnleasedFacts DEF QueueInv, SnapshotFresh, RowOf, TypeOK
  <2>4. work'[w].pc = "burying" /\ work'[w].entry = work[w].entry
    BY <1>1, <2>1, <2>2 DEF FailDead, Goto, TypeOK, Worker
  <2>. QED  BY <2>3, <2>4
<1>. QED  BY <1>3, <1>4

(* The invariant of the regimes.                                            *)
THEOREM RegimeInvariant == RegimeSpec => []RegimeInv
<1>1. RegimeInit => RegimeInv
  <2> SUFFICES ASSUME RegimeInit PROVE RegimeInv
    OBVIOUS
  <2>1. QueueInv /\ \A w \in Workers : work[w].pc = "idle"
    BY QueueInvInit, IdleFacts DEF RegimeInit, Init
  <2>2. DeadJobs = {}
    BY NoRowFacts DEF RegimeInit, Init, DeadJobs
  <2>. QED  BY <2>1, <2>2 DEF RegimeInv, FetchHeld, NoDoubleFetch, DeadJobMarked, Fetching
<1>2. RegimeInv /\ [RegimeNext]_RegimeVars => RegimeInv'
  <2> SUFFICES ASSUME RegimeInv, [RegimeNext]_RegimeVars PROVE RegimeInv'
    OBVIOUS
  <2>1. QueueInv /\ QueueInv'
    BY QueueInvNext, RegimesAreQueues DEF RegimeInv, RegimeNext, RegimeVars
  <2>2. CASE regime = "deaths" /\ DeathStep /\ UNCHANGED regime
    BY <2>1, <2>2, FetchHeldNext DEF RegimeInv
  <2>3. CASE regime = "delays" /\ DelayStep /\ UNCHANGED regime
    BY <2>1, <2>3, DeadJobMarkedNext DEF RegimeInv
  <2>4. CASE UNCHANGED RegimeVars
    BY <2>1, <2>4 DEF RegimeInv, RegimeVars, vars, FetchHeld, NoDoubleFetch,
       DeadJobMarked, DeadJobs, WorkersOn, Holds, RowOf
  <2>. QED  BY <2>2, <2>3, <2>4 DEF RegimeNext
<1>. QED  BY <1>1, <1>2, PTL DEF RegimeSpec

(* As long as leases are renewed on time and nobody takes a job away, two   *)
(* workers never fetch one entry at once, whichever of them die, restart or *)
(* do not see what their statements did: the lease is the mutual exclusion. *)
THEOREM FetchesAreExclusiveHolds == RegimeSpec => []FetchesAreExclusive
<1>1. RegimeInv => FetchesAreExclusive
  BY DEF RegimeInv, FetchesAreExclusive
<1>. QED  BY <1>1, RegimeInvariant, PTL

(* As long as no process dies between two statements and none is lost, the  *)
(* entry of a dead job has its failure mark or a worker about to give it,   *)
(* whatever takeovers, revivals and late results came before.               *)
THEOREM DeathsAreMarkedHolds == RegimeSpec => []DeathsAreMarked
<1>1. RegimeInv => DeathsAreMarked
  BY DEF RegimeInv, DeathsAreMarked
<1>. QED  BY <1>1, RegimeInvariant, PTL
=============================================================================
