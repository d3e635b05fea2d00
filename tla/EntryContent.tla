---------------------------- MODULE EntryContent ----------------------------
(***************************************************************************)
(* The content of one saved entry and everyone who writes it: the fetches   *)
(* of src/fetch/pipeline.rs, the image processor, which replaces the images *)
(* of a fetched page by local copies, and readers who PATCH the entry.      *)
(*                                                                          *)
(* Each SQL statement is one step; a PATCH is two, a SELECT and an UPDATE   *)
(* that writes back the columns it was not asked to change. Fetches take    *)
(* part here through what they write, not through the queue that runs them. *)
(***************************************************************************)
EXTENDS Integers, Sequences, FiniteSets

CONSTANTS
    Fetchers,     \* fetches that may run at the same time
    Editors,      \* PATCH requests with new content
    Flaggers,     \* PATCH requests without: title, star, archive
    Permits,      \* the permits of the image processor's semaphore
    MaxRetries,   \* MAX_RETRIES
    MaxPages,     \* bound: pages fetched in a behaviour
    Faults        \* the faults that may happen

FaultKinds == {"crash", "update", "download", "insert", "lost_mark"}

ASSUME ConstantsAssumption ==
    /\ MaxRetries \in Nat
    /\ MaxPages \in Nat
    /\ Faults \subseteq FaultKinds

Patchers == Editors \cup Flaggers

VARIABLES
    entry,     \* the row of entries
    fetch,     \* fetch[f]: where fetch f stands
    patch,     \* patch[r]: where PATCH request r stands
    jobs,      \* the rows of image_process_jobs of the entry, oldest first
    claimed,   \* the job the processor's loop holds while it awaits a permit
    task,      \* task[p]: the task that holds permit p
    pages,     \* number of pages fetched so far
    runs,      \* history: runs[j], how often job j was handed to a task
    lost,      \* history: pages whose image job was never stored, or was in
               \* the hands of a process that ended or did not mark it
    reverted   \* history: pages whose remote images a PATCH wrote back

vars == <<entry, fetch, patch, jobs, claimed, task, pages, runs, lost, reverted>>

-----------------------------------------------------------------------------
(* Content: nothing, the n-th page that was fetched, or what a reader made  *)
(* of it. The images of a page are remote until process_images has replaced *)
(* them by local copies: all, or only some if a download or a store failed. *)

Images == {"none", "remote", "some_local", "local"}

Empty == [by |-> "nobody", page |-> 0, images |-> "none"]
Fetched(n) == [by |-> "fetch", page |-> n, images |-> "remote"]
Processed(n, images) == [Fetched(n) EXCEPT !.images = images]
Edited == [by |-> "reader", page |-> 0, images |-> "none"]

Content == [by : {"nobody", "fetch", "reader"}, page : 0..MaxPages, images : Images]

Job == [page : 1..MaxPages,
        status : {"pending", "processing", "completed", "failed"},
        retries : 0..(MaxRetries + 1)]

NoJob == 0
NoFetch == [pc |-> "idle", page |-> 0]
NoPatch == [pc |-> "idle", content |-> Empty, edited |-> FALSE]
NoTask == [pc |-> "idle", job |-> NoJob, page |-> 0]

TypeOK ==
    /\ entry \in [content : Content, text : 0..MaxPages, edited : BOOLEAN,
                  gone : BOOLEAN]
    /\ fetch \in [Fetchers -> [pc : {"idle", "got", "saved"}, page : 0..MaxPages]]
    /\ patch \in [Patchers -> [pc : {"idle", "read"}, content : Content, edited : BOOLEAN]]
    /\ jobs \in Seq(Job) /\ Len(jobs) <= MaxPages
    /\ claimed \in 0..MaxPages
    /\ task \in [Permits -> [pc : {"idle", "working", "updated", "failing"},
                             job : 0..MaxPages, page : 0..MaxPages]]
    /\ pages \in 0..MaxPages
    /\ runs \in [1..MaxPages -> Nat]
    /\ lost \subseteq 0..MaxPages /\ reverted \subseteq 0..MaxPages

-----------------------------------------------------------------------------
(* UPDATE entries SET ... WHERE id = ... AND is_content_edited = false. The *)
(* image processor's forgets the second condition.                          *)
BadRewritten(row) == IF entry.gone THEN entry ELSE row

Rewritten(row) == IF entry.edited \/ entry.gone THEN entry ELSE row

(* What update_entry_content stores: the content of a page, and its text    *)
(* for the search; or, from mark_failed, neither.                           *)
Saved(n) == [entry EXCEPT !.content = Fetched(n), !.text = n]
Failed == [entry EXCEPT !.content = Empty, !.text = 0]

(* claim_pending also takes rows in progress, or no row that was retried.   *)
BadClaimable == {j \in DOMAIN jobs : jobs[j].status \in {"pending", "processing"}}
BadClaimableOnce == {j \in DOMAIN jobs : jobs[j].status = "pending" /\ jobs[j].retries = 0}

Claimable == {j \in DOMAIN jobs : jobs[j].status = "pending"}

(* mark_failed forgets to count a retry; leaves the row processing; or      *)
(* calls a job that used up its retries completed.                          *)
BadRetriedUncounted(job) == [job EXCEPT !.status = "pending"]
BadRetriedStuck(job) ==
    [job EXCEPT !.status = IF job.retries >= MaxRetries THEN "failed" ELSE @,
                !.retries = @ + 1]
BadRetriedCompleted(job) ==
    [job EXCEPT !.status = IF job.retries >= MaxRetries THEN "completed" ELSE "pending",
                !.retries = @ + 1]

Retried(job) ==
    [job EXCEPT !.status = IF job.retries >= MaxRetries THEN "failed" ELSE "pending",
                !.retries = @ + 1]

(* An UPDATE of the row of job j, which is gone if the entry is.            *)
Mark(j, row) ==
    jobs' = IF j \in DOMAIN jobs THEN [jobs EXCEPT ![j] = row] ELSE jobs

-----------------------------------------------------------------------------
Init ==
    /\ entry = [content |-> Empty, text |-> 0, edited |-> FALSE, gone |-> FALSE]
    /\ fetch = [f \in Fetchers |-> NoFetch]
    /\ patch = [r \in Patchers |-> NoPatch]
    /\ jobs = <<>>
    /\ claimed = NoJob
    /\ task = [p \in Permits |-> NoTask]
    /\ pages = 0
    /\ runs = [j \in 1..MaxPages |-> 0]
    /\ lost = {} /\ reverted = {}

-----------------------------------------------------------------------------
(* Fetches. process has extracted a page and calls save, or has not and     *)
(* the worker calls mark_failed.                                            *)

GetPage(f) ==
    /\ fetch[f].pc = "idle" /\ pages < MaxPages
    /\ pages' = pages + 1
    /\ fetch' = [fetch EXCEPT ![f] = [pc |-> "got", page |-> pages + 1]]
    /\ UNCHANGED <<entry, patch, jobs, claimed, task, runs, lost, reverted>>

(* update_entry_content; if it fails, save logs that and goes on.           *)
SaveContent(f) ==
    /\ fetch[f].pc = "got"
    /\ \/ entry' = Rewritten(Saved(fetch[f].page))
       \/ "update" \in Faults /\ UNCHANGED entry
    /\ fetch' = [fetch EXCEPT ![f].pc = "saved"]
    /\ UNCHANGED <<patch, jobs, claimed, task, pages, runs, lost, reverted>>

(* image_process_job::create, which the foreign key refuses for an entry    *)
(* that is gone.                                                            *)
QueueImages(f) ==
    /\ fetch[f].pc = "saved"
    /\ \/ /\ ~entry.gone
          /\ jobs' = Append(jobs, [page |-> fetch[f].page, status |-> "pending",
                                   retries |-> 0])
          /\ UNCHANGED lost
       \/ /\ entry.gone \/ "insert" \in Faults
          /\ lost' = lost \cup {fetch[f].page}
          /\ UNCHANGED jobs
    /\ fetch' = [fetch EXCEPT ![f] = NoFetch]
    /\ UNCHANGED <<entry, patch, claimed, task, pages, runs, reverted>>

MarkFailed(f) ==
    /\ fetch[f].pc = "idle"
    /\ entry' = Rewritten(Failed)
    /\ UNCHANGED <<fetch, patch, jobs, claimed, task, pages, runs, lost, reverted>>

-----------------------------------------------------------------------------
(* PATCH /entries/{id}: update_entry. It reads the row; what it is not asked *)
(* to change it will write back, with the is_content_edited it has read.    *)

ReadEntry(r, content, edited) ==
    /\ patch[r].pc = "idle" /\ ~entry.gone
    /\ patch' = [patch EXCEPT ![r] = [pc |-> "read", content |-> content, edited |-> edited]]
    /\ UNCHANGED <<entry, fetch, jobs, claimed, task, pages, runs, lost, reverted>>

EditContent(r) == r \in Editors /\ ReadEntry(r, Edited, TRUE)

SetFlags(r) == r \in Flaggers /\ ReadEntry(r, entry.content, entry.edited)

WriteEntry(r) ==
    /\ patch[r].pc = "read"
    /\ entry' = IF entry.gone THEN entry
                ELSE [entry EXCEPT !.content = patch[r].content, !.edited = patch[r].edited]
    /\ reverted' = IF /\ ~entry.gone /\ patch[r].content.images = "remote"
                      /\ patch[r].content # entry.content
                   THEN reverted \cup {patch[r].content.page} ELSE reverted
    /\ patch' = [patch EXCEPT ![r] = NoPatch]
    /\ UNCHANGED <<fetch, jobs, claimed, task, pages, runs, lost>>

(* permanently_delete_entry; the foreign key cascades to the image jobs.    *)
Delete ==
    /\ ~entry.gone
    /\ entry' = [content |-> Empty, text |-> 0, edited |-> FALSE, gone |-> TRUE]
    /\ jobs' = <<>>
    /\ UNCHANGED <<fetch, patch, claimed, task, pages, runs, lost, reverted>>

-----------------------------------------------------------------------------
(* The image processor: its loop claims a job, then waits for a permit.     *)

Claim ==
    /\ claimed = NoJob
    /\ \E j \in Claimable :
          /\ \A k \in Claimable : j <= k
          /\ Mark(j, [jobs[j] EXCEPT !.status = "processing"])
          /\ claimed' = j
    /\ UNCHANGED <<entry, fetch, patch, task, pages, runs, lost, reverted>>

Dispatch(p) ==
    /\ claimed # NoJob /\ task[p].pc = "idle"
    /\ task' = [task EXCEPT ![p] = [pc |-> "working", job |-> claimed,
                                    page |-> IF claimed \in DOMAIN jobs
                                             THEN jobs[claimed].page ELSE 0]]
    /\ runs' = [runs EXCEPT ![claimed] = @ + 1]
    /\ claimed' = NoJob
    /\ UNCHANGED <<entry, fetch, patch, jobs, pages, lost, reverted>>

(* process_images, which passes over images it cannot load or store, then   *)
(* update_content_only, which succeeds, too, when it matches no row. Either *)
(* way the job is done: what is still remote is not tried again.            *)
UpdateContent(p) ==
    /\ task[p].pc = "working"
    /\ \E images \in {"local"} \cup (IF "download" \in Faults THEN {"some_local"} ELSE {}) :
          entry' = Rewritten([entry EXCEPT !.content = Processed(task[p].page, images)])
    /\ task' = [task EXCEPT ![p].pc = "updated"]
    /\ UNCHANGED <<fetch, patch, jobs, claimed, pages, runs, lost, reverted>>

UpdateFails(p) ==
    /\ "update" \in Faults
    /\ task[p].pc = "working"
    /\ task' = [task EXCEPT ![p].pc = "failing"]
    /\ UNCHANGED <<entry, fetch, patch, jobs, claimed, pages, runs, lost, reverted>>

MarkCompleted(p) ==
    /\ task[p].pc = "updated"
    /\ Mark(task[p].job, [jobs[task[p].job] EXCEPT !.status = "completed"])
    /\ task' = [task EXCEPT ![p] = NoTask]
    /\ UNCHANGED <<entry, fetch, patch, claimed, pages, runs, lost, reverted>>

MarkJobFailed(p) ==
    /\ task[p].pc = "failing"
    /\ Mark(task[p].job, Retried(jobs[task[p].job]))
    /\ task' = [task EXCEPT ![p] = NoTask]
    /\ UNCHANGED <<entry, fetch, patch, claimed, pages, runs, lost, reverted>>

-----------------------------------------------------------------------------
(* Faults. The jobs that the loop or a task has; pages of jobs.             *)

Handed == {claimed} \cup {task[p].job : p \in Permits}

PagesOf(js) == {jobs[j].page : j \in js \cap DOMAIN jobs}

(* mark_completed or mark_failed fails; the task only logs it.              *)
LostMark(p) ==
    /\ "lost_mark" \in Faults
    /\ task[p].pc \in {"updated", "failing"}
    /\ lost' = lost \cup PagesOf({task[p].job})
    /\ task' = [task EXCEPT ![p] = NoTask]
    /\ UNCHANGED <<entry, fetch, patch, jobs, claimed, pages, runs, reverted>>

(* The process ends, killed or asked to: main waits for none of its tasks.  *)
(* A new one starts; fetches are leased again, image jobs are as they are.  *)
Crash ==
    /\ "crash" \in Faults
    /\ fetch' = [f \in Fetchers |-> NoFetch]
    /\ patch' = [r \in Patchers |-> NoPatch]
    /\ claimed' = NoJob
    /\ task' = [p \in Permits |-> NoTask]
    /\ lost' = lost \cup {fetch[f].page : f \in {g \in Fetchers : fetch[g].pc = "saved"}}
                    \cup PagesOf(Handed)
    /\ UNCHANGED <<entry, jobs, pages, runs, reverted>>

-----------------------------------------------------------------------------
FetchStep ==
    \E f \in Fetchers : GetPage(f) \/ SaveContent(f) \/ QueueImages(f) \/ MarkFailed(f)

ReaderStep == Delete \/ \E r \in Patchers : EditContent(r) \/ SetFlags(r) \/ WriteEntry(r)

TaskStep(p) == UpdateContent(p) \/ UpdateFails(p) \/ MarkCompleted(p) \/ MarkJobFailed(p)

Next ==
    \/ FetchStep \/ ReaderStep
    \/ Claim \/ \E p \in Permits : Dispatch(p) \/ TaskStep(p) \/ LostMark(p)
    \/ Crash

Spec == Init /\ [][Next]_vars

(* The processor's loop polls every 5 s, downloads time out, and permits    *)
(* are granted in turn.                                                     *)
Fairness ==
    /\ WF_vars(Claim)
    /\ WF_vars(\E p \in Permits : Dispatch(p))
    /\ \A p \in Permits : WF_vars(TaskStep(p))

FairSpec == Spec /\ Fairness

-----------------------------------------------------------------------------
(* Properties.                                                              *)

(* No image job is in two hands at once, between claim, permit and retry.   *)
OneHandPerJob ==
    \A p \in Permits : task[p].job # NoJob =>
        /\ claimed # task[p].job
        /\ \A q \in Permits : task[q].job = task[p].job => p = q

(* An image job is tried once and retried at most MAX_RETRIES times.        *)
RunsBounded == \A j \in DOMAIN runs : runs[j] <= MaxRetries + 1

(* A PATCH of flags that has read the entry before it was edited.           *)
TakesBack(r) == WriteEntry(r) /\ ~patch[r].edited

(* What a reader wrote is not overwritten by fetches or image jobs, whenever *)
(* they started ("once edited, not overwritten automatically"). The only    *)
(* thing that takes an edit back is a PATCH of flags, of any reader, that   *)
(* crosses it: entry.rs reads the row and writes all of it back.            *)
EditKept ==
    [][entry.edited =>
          \/ entry'.gone
          \/ entry'.edited /\ entry'.content.by = "reader"
          \/ \E r \in Patchers : TakesBack(r)]_entry

(* The image job of page n is still to come: its fetch has yet to queue it, *)
(* or it has not been completed, and may have failed for good.              *)
Awaited(n) ==
    \/ \E f \in Fetchers : fetch[f] = [pc |-> "saved", page |-> n]
    \/ \E j \in DOMAIN jobs : jobs[j].page = n /\ jobs[j].status # "completed"

(* Once its image job is done no page is shown as it was before it, in      *)
(* whatever order saves, image jobs and PATCH requests come, unless the job *)
(* was lost or a PATCH of flags wrote back the content it had read. (Images *)
(* that could not be loaded stay remote, which is "some_local".)            *)
SettledIsLocal ==
    LET shown == entry.content
    IN  shown.images = "remote" =>
            Awaited(shown.page) \/ shown.page \in lost \/ shown.page \in reverted

(* A row is 'processing' exactly while the loop or a task has it, or if it  *)
(* was lost: claim_pending never takes such a row.                          *)
ProcessingIsHeld ==
    \A j \in DOMAIN jobs :
        jobs[j].status = "processing" <=> j \in Handed \/ jobs[j].page \in lost

(* Every image job that is not lost comes to an end, however often the      *)
(* process dies.                                                            *)
Unsettled(j) ==
    j \in DOMAIN jobs /\ jobs[j].status \in {"pending", "processing"}
JobsSettle ==
    \A j \in 1..MaxPages :
        Unsettled(j) ~> (~Unsettled(j) \/ jobs[j].page \in lost)

(* "being killed mid-flight would just trigger a normal retry on the next   *)
(* startup": this does not hold, as a job that was in hand stays            *)
(* 'processing' and claim_pending only takes those that are 'pending'.      *)
KilledJobsRetried == \A j \in 1..MaxPages : Unsettled(j) ~> ~Unsettled(j)
=============================================================================
