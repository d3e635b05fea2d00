----------------------------- MODULE FetchQueue -----------------------------
(***************************************************************************)
(* The durable fetch queue of lettura: the PostgreSQL table fetch_jobs, the *)
(* workers that lease its rows and run the fetch pipeline on them, the      *)
(* requests, the administrator's interventions, and the faults the design   *)
(* says the queue survives.                                                 *)
(*                                                                          *)
(* Every SQL statement of src/models/fetch_job.rs is one atomic step. A     *)
(* worker of src/tasks/fetch_worker.rs is a process that moves through the  *)
(* statements of process_one; other actors act between any two of them.     *)
(*                                                                          *)
(* Wall-clock time is abstracted: `due` is run_after <= NOW(), and a lease  *)
(* is "live" while leased_until lies ahead and "expired" afterwards.        *)
(***************************************************************************)
EXTENDS Integers, FiniteSets

CONSTANTS
    Workers,      \* worker ids, hostname:pid/n
    Entries,      \* ids of saved entries
    JobIds,       \* ids of fetch_jobs rows; bounds the rows alive at once
    NoWorker, NoEntry, NoJob,
    MaxAttempts,  \* fetch_jobs.max_attempts
    ReviveLimit,  \* the limit of retry_all_dead
    Faults,       \* the faults that may happen
    Admin         \* whether an administrator intervenes

FaultKinds == {"crash", "panic", "stall", "renewer", "lost_write", "save_error"}

ASSUME ConstantsAssumption ==
    /\ NoWorker \notin Workers
    /\ NoEntry \notin Entries
    /\ NoJob \notin JobIds
    /\ MaxAttempts \in Nat \ {0}
    /\ ReviveLimit \in Nat \ {0}
    /\ Faults \subseteq FaultKinds
    /\ Admin \in BOOLEAN

VARIABLES
    rows,     \* rows[j]: the row of fetch_jobs with id j
    work,     \* work[w]: the local state of worker w
    content,  \* content[e]: what the row of entries holds for e
    owed,     \* history: entries with a request that no fetch has answered
    covering  \* history: workers whose fetch began after every request so far

vars == <<rows, work, content, owed, covering>>

-----------------------------------------------------------------------------
(* Rows, workers and entries.                                               *)

ActiveStatus == {"pending", "running", "failed"}

SendPriority == 0
RevivePriority == 5

Row == [entry    : Entries \cup {NoEntry},
        status   : ActiveStatus \cup {"dead", "absent"},
        priority : {SendPriority, RevivePriority},
        attempts : 0..MaxAttempts,
        due      : BOOLEAN,
        lease    : {"none", "live", "expired"},
        holder   : Workers \cup {NoWorker},
        again    : BOOLEAN]

NewRow(e) == [entry |-> e, status |-> "pending", priority |-> SendPriority,
              attempts |-> 0, due |-> TRUE, lease |-> "none",
              holder |-> NoWorker, again |-> FALSE]

NoRow == [NewRow(NoEntry) EXCEPT !.status = "absent"]

(* pc names the next thing process_one does: run the pipeline up to save    *)
(* ("fetching") and past it ("saved"), call mark_failed before complete     *)
(* ("permanent"), complete, fail, or mark_failed after a fatal fail         *)
(* ("burying"). A panicked worker is gone but its process is not.           *)
(* `renewing` says that no renewal has failed: the lease was extended less  *)
(* than a minute ago, and so outlives the statements after renew.abort().   *)
Fetching == {"fetching", "saved"}
Settling == {"permanent", "completing", "failing", "burying"}

Worker == [pc       : Fetching \cup Settling \cup {"idle", "down", "panicked"},
           job      : JobIds \cup {NoJob},
           entry    : Entries \cup {NoEntry},
           attempts : 0..MaxAttempts,
           renewing : BOOLEAN]

Idle == [pc |-> "idle", job |-> NoJob, entry |-> NoEntry, attempts |-> 0,
         renewing |-> FALSE]

Down == [Idle EXCEPT !.pc = "down"]

ContentState == {"none", "saved", "failed", "edited", "gone"}

Overwritable(e) == content[e] \in {"none", "saved", "failed"}

TypeOK ==
    /\ rows \in [JobIds -> Row]
    /\ work \in [Workers -> Worker]
    /\ content \in [Entries -> ContentState]
    /\ owed \subseteq Entries
    /\ covering \subseteq Workers

-----------------------------------------------------------------------------
(* Helpers.                                                                 *)

Lesser(m, n) == IF m <= n THEN m ELSE n
Higher(m, n) == IF m >= n THEN m ELSE n

IsActive(j) == rows[j].status \in ActiveStatus
ActiveJobs(e) == {j \in JobIds : IsActive(j) /\ rows[j].entry = e}
DeadJobs == {j \in JobIds : rows[j].status = "dead"}

(* gen_random_uuid() never returns an id that anyone still remembers.       *)
FreshIds == {j \in JobIds : /\ rows[j].status = "absent"
                            /\ \A w \in Workers : work[w].job # j}

(* Faulty variants, each a slip the code avoids, are named Bad... and stand *)
(* before the definition they would replace: here, a dequeue_one that       *)
(* ignores leases, takes no row over, or forgets rows in backoff.           *)
BadRunnableLeased == {j \in JobIds : IsActive(j) /\ rows[j].due}
BadRunnableNoTakeover ==
    {j \in JobIds : rows[j].status \in {"pending", "failed"} /\ rows[j].due}
BadRunnableNoRetry ==
    {j \in JobIds : /\ rows[j].status \in {"pending", "running"}
                    /\ rows[j].due /\ rows[j].lease # "live"}

(* The WHERE clause of dequeue_one.                                         *)
Runnable == {j \in JobIds : IsActive(j) /\ rows[j].due /\ rows[j].lease # "live"}

MostUrgent(j) == \A k \in Runnable : rows[k].priority <= rows[j].priority

(* The WHERE clause of complete, fail and release: the row is still ours.   *)
Holds(w) == work[w].job # NoJob /\ rows[work[w].job].holder = w

RowOf(w) == rows[work[w].job]

Unleased(row, status) ==
    [row EXCEPT !.status = status, !.lease = "none", !.holder = NoWorker]

(* The statement forgets attempts = 0.                                      *)
BadRequeued(row) ==
    [Unleased(row, "pending") EXCEPT !.due = TRUE, !.again = FALSE]

(* complete() on a wanted row, and retry(): a fresh start.                  *)
Requeued(row) ==
    [Unleased(row, "pending") EXCEPT !.attempts = 0, !.due = TRUE, !.again = FALSE]

(* retry_all_dead, which leaves the refetch flag as it was.                 *)
Revived(row) ==
    [Unleased(row, "pending") EXCEPT !.attempts = 0, !.due = TRUE,
                                     !.priority = RevivePriority]

BackingOff(row) == [Unleased(row, "failed") EXCEPT !.due = FALSE]

Released(row) == [Unleased(row, "pending") EXCEPT !.attempts = Higher(@ - 1, 0)]

(* ON CONFLICT forgets the refetch flag.                                    *)
BadWanted(row) == [row EXCEPT !.priority = Higher(@, SendPriority), !.due = TRUE]

Wanted(row) == [row EXCEPT !.priority = Higher(@, SendPriority), !.due = TRUE,
                           !.again = @ \/ row.status = "running"]

WorkersOn(e) == {w \in Workers : work[w].entry = e}

Bumped(attempts) == Lesser(attempts + 1, MaxAttempts)

Leased(row, w) == [row EXCEPT !.status = "running", !.lease = "live",
                              !.holder = w, !.attempts = Bumped(@)]

(* No renewer is spawned.                                                   *)
BadRenewed(j) == FALSE

(* The lease of j is being renewed, or was until its worker came to settle. *)
Renewed(j) == \E w \in Workers : /\ rows[j].holder = w
                                 /\ work[w].job = j
                                 /\ work[w].renewing

Goto(w, pc) == work' = [work EXCEPT ![w].pc = pc]

(* process_one returns to the loop of worker_loop.                          *)
Return(w) ==
    /\ work' = [work EXCEPT ![w] = Idle]
    /\ covering' = covering \ {w}

-----------------------------------------------------------------------------
Init ==
    /\ rows = [j \in JobIds |-> NoRow]
    /\ work = [w \in Workers |-> Idle]
    /\ content = [e \in Entries |-> "none"]
    /\ owed = {}
    /\ covering = {}

-----------------------------------------------------------------------------
(* Requests. Every caller uses FetchQueue::send, hence SendPriority. A      *)
(* refetch of an edited entry is refused on an earlier read of the entry,   *)
(* so an edit may still come between the check and the statement.           *)

Enqueue(e) ==
    /\ content[e] # "gone"
    /\ \/ \E j \in ActiveJobs(e) :
             rows' = [rows EXCEPT ![j] = Wanted(@)]
       \/ /\ ActiveJobs(e) = {}
          /\ \E j \in FreshIds : rows' = [rows EXCEPT ![j] = NewRow(e)]
    /\ owed' = owed \cup {e}
    /\ covering' = covering \ WorkersOn(e)
    /\ UNCHANGED <<work, content>>

(* PATCH of the content of an entry by its reader.                          *)
EditEntry(e) ==
    /\ content[e] \notin {"edited", "gone"}
    /\ content' = [content EXCEPT ![e] = "edited"]
    /\ UNCHANGED <<rows, work, owed, covering>>

(* Permanent deletion; the foreign key cascades to fetch_jobs.              *)
DeleteEntry(e) ==
    /\ content[e] # "gone"
    /\ content' = [content EXCEPT ![e] = "gone"]
    /\ rows' = [j \in JobIds |-> IF rows[j].entry = e THEN NoRow ELSE rows[j]]
    /\ owed' = owed \ {e}
    /\ UNCHANGED <<work, covering>>

-----------------------------------------------------------------------------
(* A worker: one disjunct of process_one after another.                     *)

Dequeue(w) ==
    /\ work[w].pc = "idle"
    /\ \E j \in Runnable :
          /\ MostUrgent(j)
          /\ rows' = [rows EXCEPT ![j] = Leased(@, w)]
          /\ work' = [work EXCEPT
                        ![w] = [pc |-> "fetching", job |-> j,
                                entry |-> rows[j].entry,
                                attempts |-> Bumped(rows[j].attempts),
                                renewing |-> TRUE]]
    /\ covering' = covering \cup {w}
    /\ UNCHANGED <<content, owed>>

(* save() of the pipeline: update_entry_content skips an edited entry, and  *)
(* an error of it is only logged.                                           *)
Save(w) ==
    /\ work[w].pc = "fetching"
    /\ \/ /\ content' = [e \in Entries |-> IF e = work[w].entry /\ Overwritable(e)
                                           THEN "saved" ELSE content[e]]
          /\ owed' = IF w \in covering THEN owed \ {work[w].entry} ELSE owed
       \/ /\ "save_error" \in Faults
          /\ UNCHANGED <<content, owed>>
    /\ Goto(w, "saved")
    /\ UNCHANGED <<rows, covering>>

ProcessOk(w) ==
    /\ work[w].pc = "saved"
    /\ Goto(w, "completing")
    /\ UNCHANGED <<rows, content, owed, covering>>

ProcessPermanent(w) ==
    /\ work[w].pc = "fetching"
    /\ owed' = IF w \in covering THEN owed \ {work[w].entry} ELSE owed
    /\ Goto(w, "permanent")
    /\ UNCHANGED <<rows, content, covering>>

ProcessTransient(w) ==
    /\ work[w].pc = "fetching"
    /\ Goto(w, "failing")
    /\ UNCHANGED <<rows, content, owed, covering>>

(* mark_failed asks for the lease, which fail() has just given back.        *)
BadMarkFailed(w) ==
    content' = [e \in Entries |-> IF /\ e = work[w].entry /\ Overwritable(e)
                                     /\ Holds(w)
                                  THEN "failed" ELSE content[e]]

(* mark_failed is an UPDATE by entry id: it asks nothing of the lease.      *)
MarkFailed(w) ==
    content' = [e \in Entries |-> IF e = work[w].entry /\ Overwritable(e)
                                  THEN "failed" ELSE content[e]]

MarkPermanent(w) ==
    /\ work[w].pc = "permanent"
    /\ MarkFailed(w)
    /\ Goto(w, "completing")
    /\ UNCHANGED <<rows, owed, covering>>

(* complete() always deletes, or requeues without clearing the flag.        *)
BadCompletedRowDeleted(row) == NoRow
BadCompletedRowAgain(row) ==
    IF row.again THEN [Requeued(row) EXCEPT !.again = TRUE] ELSE NoRow

CompletedRow(row) == IF row.again THEN Requeued(row) ELSE NoRow

Complete(w) ==
    /\ work[w].pc = "completing"
    /\ \/ /\ Holds(w) /\ RowOf(w).status = "running"
          /\ rows' = [rows EXCEPT ![work[w].job] = CompletedRow(@)]
       \/ /\ ~(Holds(w) /\ RowOf(w).status = "running")
          /\ UNCHANGED rows
    /\ Return(w)
    /\ UNCHANGED <<content, owed>>

(* fail() decides between a retry and death on the snapshot of attempts     *)
(* that dequeue_one returned.                                               *)
FailRetry(w) ==
    /\ work[w].pc = "failing"
    /\ work[w].attempts < MaxAttempts
    /\ rows' = IF Holds(w) THEN [rows EXCEPT ![work[w].job] = BackingOff(@)]
                           ELSE rows
    /\ Return(w)
    /\ UNCHANGED <<content, owed>>

FailDead(w) ==
    /\ work[w].pc = "failing"
    /\ work[w].attempts >= MaxAttempts
    /\ \/ /\ Holds(w)
          /\ rows' = [rows EXCEPT ![work[w].job] = Unleased(@, "dead")]
          /\ owed' = owed \ {work[w].entry}
       \/ /\ ~Holds(w)
          /\ UNCHANGED <<rows, owed>>
    /\ Goto(w, "burying")
    /\ UNCHANGED <<content, covering>>

MarkDead(w) ==
    /\ work[w].pc = "burying"
    /\ MarkFailed(w)
    /\ Return(w)
    /\ UNCHANGED <<rows, owed>>

(* Cancellation: release the job if the pipeline was running, and stop.     *)
Shutdown(w) ==
    /\ work[w].pc \in Fetching \cup {"idle"}
    /\ rows' = IF Holds(w) /\ RowOf(w).status = "running"
               THEN [rows EXCEPT ![work[w].job] = Released(@)]
               ELSE rows
    /\ work' = [work EXCEPT ![w] = Down]
    /\ covering' = covering \ {w}
    /\ UNCHANGED <<content, owed>>

Restart(w) ==
    /\ work[w].pc = "down"
    /\ work' = [work EXCEPT ![w] = Idle]
    /\ UNCHANGED <<rows, content, owed, covering>>

-----------------------------------------------------------------------------
(* Time.                                                                    *)

(* The renewer pushes leased_until ahead every 60 s of a lease of 300 s, so *)
(* a lease that is renewed only expires if its process stalls for minutes.  *)
ExpireLease(j) ==
    /\ rows[j].lease = "live"
    /\ "stall" \in Faults \/ ~Renewed(j)
    /\ rows' = [rows EXCEPT ![j].lease = "expired"]
    /\ UNCHANGED <<work, content, owed, covering>>

RenewLease(w) ==
    /\ work[w].renewing /\ work[w].pc \in Fetching \cup {"panicked"}
    /\ Holds(w)
    /\ RowOf(w).status = "running" /\ RowOf(w).lease = "expired"
    /\ rows' = [rows EXCEPT ![work[w].job].lease = "live"]
    /\ UNCHANGED <<work, content, owed, covering>>

BecomeDue(j) ==
    /\ rows[j].status = "failed" /\ ~rows[j].due
    /\ rows' = [rows EXCEPT ![j].due = TRUE]
    /\ UNCHANGED <<work, content, owed, covering>>

(* The hourly purge of dead rows older than the configured days.            *)
PurgeDead ==
    /\ \E old \in SUBSET DeadJobs :
          /\ old # {}
          /\ rows' = [j \in JobIds |-> IF j \in old THEN NoRow ELSE rows[j]]
    /\ UNCHANGED <<work, content, owed, covering>>

-----------------------------------------------------------------------------
(* The administrator. A retry is a new request for the entry.               *)

DeleteJob(j) ==
    /\ Admin /\ rows[j].status # "absent"
    /\ rows' = [rows EXCEPT ![j] = NoRow]
    /\ owed' = IF IsActive(j) THEN owed \ {rows[j].entry} ELSE owed
    /\ UNCHANGED <<work, content, covering>>

(* The unique index on active entries refuses the UPDATE when another row   *)
(* of the entry is active.                                                  *)
Retry(j) ==
    /\ Admin /\ rows[j].status # "absent"
    /\ ActiveJobs(rows[j].entry) \subseteq {j}
    /\ rows' = [rows EXCEPT ![j] = Requeued(@)]
    /\ owed' = owed \cup {rows[j].entry}
    /\ covering' = covering \ WorkersOn(rows[j].entry)
    /\ UNCHANGED <<work, content>>

(* What the SELECT ... LIMIT of retry_all_dead may return.                  *)
ReviveSelection(S) ==
    /\ S \subseteq DeadJobs
    /\ Cardinality(S) = Lesser(ReviveLimit, Cardinality(DeadJobs))

(* The index does not see active rows outside the selection.                *)
BadRevivable(S) == \A j, k \in S : rows[j].entry = rows[k].entry => j = k

(* One UPDATE for the whole selection: the index refuses all or nothing.    *)
Revivable(S) ==
    /\ \A j \in S : ActiveJobs(rows[j].entry) = {}
    /\ \A j, k \in S : rows[j].entry = rows[k].entry => j = k

RetryAllDead ==
    /\ Admin /\ DeadJobs # {}
    /\ \E S \in SUBSET DeadJobs :
          /\ ReviveSelection(S) /\ Revivable(S)
          /\ rows' = [j \in JobIds |-> IF j \in S THEN Revived(rows[j])
                                                  ELSE rows[j]]
          /\ owed' = owed \cup {rows[j].entry : j \in S}
          /\ covering' = covering \ {w \in Workers : \E j \in S : work[w].entry = rows[j].entry}
    /\ UNCHANGED <<work, content>>

-----------------------------------------------------------------------------
(* Faults.                                                                  *)

(* The process of w dies, with the worker and its renewer.                  *)
Crash(w) ==
    /\ "crash" \in Faults
    /\ work[w].pc # "down"
    /\ work' = [work EXCEPT ![w] = Down]
    /\ covering' = covering \ {w}
    /\ UNCHANGED <<rows, content, owed>>

(* A panic inside the pipeline unwinds the worker's task. The JoinHandle of *)
(* the renewer is dropped, which detaches the renewer and leaves it running.*)
Panic(w) ==
    /\ "panic" \in Faults
    /\ work[w].pc \in Fetching
    /\ Goto(w, "panicked")
    /\ UNCHANGED <<rows, content, owed, covering>>

(* The renewer gives up at the first database error.                        *)
RenewerStops(w) ==
    /\ "renewer" \in Faults
    /\ work[w].renewing /\ work[w].pc \in Fetching \cup {"panicked"}
    /\ work' = [work EXCEPT ![w].renewing = FALSE]
    /\ UNCHANGED <<rows, content, owed, covering>>

(* A statement of process_one fails; the result is discarded by `let _`.    *)
LostWrite(w) ==
    /\ "lost_write" \in Faults
    /\ \/ work[w].pc = "permanent" /\ Goto(w, "completing") /\ UNCHANGED covering
       \/ /\ work[w].pc = "failing" /\ work[w].attempts >= MaxAttempts
          /\ Goto(w, "burying") /\ UNCHANGED covering
       \/ work[w].pc = "failing" /\ work[w].attempts < MaxAttempts /\ Return(w)
       \/ work[w].pc \in {"completing", "burying"} /\ Return(w)
    /\ UNCHANGED <<rows, content, owed>>

(* dequeue_one commits but its answer never reaches the worker.             *)
LostLease(w) ==
    /\ "lost_write" \in Faults
    /\ work[w].pc = "idle"
    /\ \E j \in Runnable :
          /\ MostUrgent(j)
          /\ rows' = [rows EXCEPT ![j] = Leased(@, w)]
    /\ UNCHANGED <<work, content, owed, covering>>

-----------------------------------------------------------------------------
WorkerStep(w) ==
    \/ Dequeue(w)
    \/ Save(w) \/ ProcessOk(w) \/ ProcessPermanent(w) \/ ProcessTransient(w)
    \/ MarkPermanent(w) \/ Complete(w)
    \/ FailRetry(w) \/ FailDead(w) \/ MarkDead(w)

TimeStep == \E j \in JobIds : ExpireLease(j) \/ BecomeDue(j)

(* What the running system does by itself.                                  *)
SystemStep ==
    \/ \E w \in Workers : WorkerStep(w) \/ RenewLease(w) \/ Restart(w)
    \/ TimeStep

(* What people, operators and misfortune do to it.                          *)
UserStep == \E e \in Entries : Enqueue(e) \/ EditEntry(e) \/ DeleteEntry(e)

AdminStep == RetryAllDead \/ \E j \in JobIds : DeleteJob(j) \/ Retry(j)

FaultStep ==
    \E w \in Workers : \/ Crash(w) \/ Panic(w) \/ RenewerStops(w)
                       \/ LostWrite(w) \/ LostLease(w)

EnvironmentStep ==
    \/ UserStep \/ AdminStep \/ FaultStep \/ PurgeDead
    \/ \E w \in Workers : Shutdown(w)

Next == SystemStep \/ EnvironmentStep

Spec == Init /\ [][Next]_vars

(* The loop of every worker runs, its HTTP client and renderer time out,    *)
(* leases and backoffs run out, and a stopped process is started again.     *)
Fairness ==
    /\ \A w \in Workers : WF_vars(WorkerStep(w)) /\ WF_vars(Restart(w))
    /\ \A j \in JobIds : WF_vars(ExpireLease(j)) /\ WF_vars(BecomeDue(j))

-----------------------------------------------------------------------------
(* Properties.                                                              *)

(* A row is leased exactly while it runs, and then to a worker: nothing     *)
(* else tells dequeue_one that a pending or failed row is free, and fail()  *)
(* relies on it when it matches leased_by without looking at status.        *)
LeaseShape ==
    \A j \in JobIds :
        /\ (rows[j].status = "running") <=> (rows[j].holder # NoWorker)
        /\ (rows[j].holder # NoWorker) <=> (rows[j].lease # "none")

(* At most one active row per entry, and no row of a deleted entry.         *)
OneActiveJob ==
    /\ \A e \in Entries : \A j, k \in ActiveJobs(e) : j = k
    /\ \A j \in JobIds : rows[j].status # "absent" =>
          /\ rows[j].entry \in Entries
          /\ content[rows[j].entry] # "gone"

(* The attempts of a row agree with its status whatever sequence of leases, *)
(* takeovers, releases and retries led there: a row dies only when its      *)
(* attempts are used up, and one that waits or backs off has some left.     *)
AttemptsAgree ==
    \A j \in JobIds :
        /\ rows[j].status = "dead" => rows[j].attempts = MaxAttempts
        /\ rows[j].status = "failed" => rows[j].attempts \in 1..(MaxAttempts - 1)
        /\ rows[j].status = "pending" => rows[j].attempts < MaxAttempts
        /\ rows[j].status = "running" => rows[j].attempts > 0

(* A request is not forgotten: until a fetch that began after it has saved  *)
(* the entry or found it permanently unfetchable, the job has died, or      *)
(* someone withdrew it, some active row stands for it.                      *)
RequestNotLost == \A e \in owed : ActiveJobs(e) # {}

(* Two workers do not fetch the same entry at the same time.                *)
NoDoubleFetch ==
    \A v, w \in Workers :
        /\ work[v].pc \in Fetching /\ work[w].pc \in Fetching
        /\ work[v].entry = work[w].entry
        => v = w

(* Only its holder ends a live lease, unless an administrator steps in or   *)
(* the entry is deleted.                                                    *)
LeaseRespected ==
    [][\A j \in JobIds : \A w \in Workers :
          (rows[j].lease = "live" /\ rows[j].holder = w /\ rows'[j].holder # w)
          => \/ work[w].job = j /\ work'[w] # work[w]
             \/ AdminStep
             \/ \E e \in Entries : DeleteEntry(e)]_vars

(* Once the job of an entry that was never fetched has died, the entry is   *)
(* marked failed: "Err(Transient) x max_attempts: dead, mark_failed".       *)
DeadJobMarked ==
    \A j \in DeadJobs :
        content[rows[j].entry] = "none" =>
            \E w \in WorkersOn(rows[j].entry) : work[w].pc = "burying"

(* Saved content is replaced by a failure mark only while no other worker   *)
(* holds, and nothing else awaits, a job for the entry.                     *)
OnlyOwnerErases ==
    [][\A e \in Entries :
          (content[e] = "saved" /\ content'[e] = "failed")
          => \E w \in WorkersOn(e) :
                /\ work'[w] # work[w]
                /\ \A j \in ActiveJobs(e) : rows[j].holder = w]_vars

(* A job whose attempts are used up is not run once more: "max_attempts:    *)
(* the limit; beyond it the job goes to dead".                              *)
NoRunBeyondMaxAttempts ==
    [][\A w \in Workers :
          (work[w].pc = "idle" /\ work'[w].pc = "fetching")
          => rows[work'[w].job].attempts < MaxAttempts]_vars

(* retry_all_dead revives dead jobs whenever there are any.                 *)
ReviveNeverRefused ==
    \A S \in SUBSET DeadJobs : ReviveSelection(S) => Revivable(S)

(* No worker is running the job although its row says so.                   *)
Abandoned(j) ==
    /\ rows[j].status = "running"
    /\ \A w \in Workers : work[w].pc \in Fetching \cup Settling =>
          ~(work[w].job = j /\ rows[j].holder = w)

(* A job whose worker is gone is taken over, or goes away.                  *)
AbandonedJobTakenOver ==
    \A j \in JobIds : Abandoned(j) ~> ~Abandoned(j)

(* Every request is answered, given up, or withdrawn in the end.            *)
RequestsSettle == \A e \in Entries : (e \in owed) ~> (e \notin owed)

(* No active row stays for ever.                                            *)
QueueDrains == \A j \in JobIds : IsActive(j) ~> ~IsActive(j)
=============================================================================
