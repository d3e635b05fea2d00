------------------------- MODULE EntryContentProofs -------------------------
(***************************************************************************)
(* Proofs about EntryContent, for any fetches, permits, retries, pages and  *)
(* faults.                                                                  *)
(*                                                                          *)
(* ContentInv is the inductive invariant. HandsInv says where the image     *)
(* jobs are: a job in the loop's hand or a task's is 'processing', so it    *)
(* cannot be claimed again. RunsInv counts: the runs of a job never exceed  *)
(* the retries its row has counted by more than the run that is going on.   *)
(* PagesApart bounds the jobs: every page has at most one. LocalInv, which  *)
(* builds on it, says of remote images who has still to replace them.       *)
(***************************************************************************)
EXTENDS EntryContent, SequenceTheorems, FunctionTheorems, FiniteSetTheorems, TLAPS

TaskJob(p) == task[p].job

HandsInv ==
    /\ \A p \in Permits : task[p].pc = "idle" => TaskJob(p) = NoJob
    /\ entry.gone => jobs = <<>>
    /\ ~entry.gone => /\ claimed <= Len(jobs)
                      /\ \A p \in Permits : TaskJob(p) <= Len(jobs)
    /\ \A j \in 1..Len(jobs) :
          (claimed = j \/ \E p \in Permits : TaskJob(p) = j) => jobs[j].status = "processing"
    /\ OneHandPerJob

RunsInv ==
    /\ \A j \in 1..MaxPages :
          /\ runs[j] <= MaxRetries + 1
          /\ claimed = j => runs[j] <= MaxRetries
          /\ ~entry.gone /\ j > Len(jobs) => runs[j] = 0
    /\ \A j \in 1..Len(jobs) :
          /\ jobs[j].status \in {"pending", "processing"} => jobs[j].retries <= MaxRetries
          /\ runs[j] <= jobs[j].retries + 1
          /\ jobs[j].status = "pending" \/ claimed = j => runs[j] <= jobs[j].retries

InFlight(f) == fetch[f].pc # "idle"

PagesApart ==
    /\ \A f \in Fetchers : InFlight(f) => fetch[f].page \in 1..pages
    /\ \A f, g \in Fetchers :
          InFlight(f) /\ InFlight(g) /\ fetch[f].page = fetch[g].page => f = g
    /\ \A j \in 1..Len(jobs) :
          /\ jobs[j].page <= pages
          /\ \A f \in Fetchers : InFlight(f) => fetch[f].page # jobs[j].page
          /\ \A k \in 1..Len(jobs) : jobs[j].page = jobs[k].page => j = k

ContentInv == TypeOK /\ HandsInv /\ RunsInv /\ PagesApart

-----------------------------------------------------------------------------
(* Rows of image jobs.                                                      *)

(* No content and a reader's are content.                                   *)
LEMMA ContentFacts == Empty \in Content /\ Edited \in Content /\ 0 \in 0..MaxPages
  BY ConstantsAssumption DEF Empty, Edited, Content, Images

(* jobs is a finite sequence of rows.                                       *)
LEMMA JobsFacts ==
  ASSUME TypeOK
  PROVE  /\ jobs \in Seq(Job) /\ Len(jobs) \in 0..MaxPages
         /\ DOMAIN jobs = 1..Len(jobs)
         /\ \A j \in 1..Len(jobs) : jobs[j] \in Job /\ j \in 1..MaxPages
<1>1. jobs \in Seq(Job) /\ Len(jobs) <= MaxPages /\ MaxPages \in Nat
  BY ConstantsAssumption DEF TypeOK
<1>2. Len(jobs) \in Nat /\ DOMAIN jobs = 1..Len(jobs)
  BY <1>1, LenProperties
<1>. QED  BY <1>1, <1>2, ElementOfSeq

(* An UPDATE by id changes that row alone, and none if it is gone.          *)
LEMMA MarkFacts ==
  ASSUME TypeOK, NEW j, NEW row, Mark(j, row),
         j \in 1..Len(jobs) => row \in Job
  PROVE  /\ jobs' \in Seq(Job) /\ Len(jobs') = Len(jobs)
         /\ \A k \in 1..Len(jobs) : jobs'[k] = IF k = j THEN row ELSE jobs[k]
<1>1. CASE j \in 1..Len(jobs)
  <2>1. jobs' = [jobs EXCEPT ![j] = row]
    BY <1>1, JobsFacts DEF Mark
  <2>. QED  BY <1>1, <2>1, JobsFacts, ExceptSeq
<1>2. CASE j \notin 1..Len(jobs)
  <2>1. jobs' = jobs
    BY <1>2, JobsFacts DEF Mark
  <2>. QED  BY <1>2, <2>1, JobsFacts
<1>. QED  BY <1>1, <1>2

(* mark_failed counts one retry and gives up after MAX_RETRIES of them.     *)
LEMMA RetriedFacts ==
  ASSUME NEW r \in Job, r.retries <= MaxRetries
  PROVE  /\ Retried(r) \in Job
         /\ Retried(r).page = r.page
         /\ Retried(r).retries = r.retries + 1
         /\ Retried(r).status \in {"pending", "failed"}
         /\ Retried(r).status = "pending" => Retried(r).retries <= MaxRetries
<1>1. MaxRetries \in Nat /\ r.retries \in 0..(MaxRetries + 1)
  BY ConstantsAssumption DEF Job
<1>2. r.retries + 1 \in 0..(MaxRetries + 1)
  BY <1>1
<1> DEFINE s == IF r.retries >= MaxRetries THEN "failed" ELSE "pending"
<1>3. Retried(r) = [r EXCEPT !.status = s, !.retries = r.retries + 1]
  BY DEF Retried
<1>4. s \in {"pending", "failed"} /\ (s = "pending" => r.retries + 1 <= MaxRetries)
  BY <1>1
<1> HIDE DEF s
<1>. QED  BY <1>2, <1>3, <1>4 DEF Job

(* Claiming and completing change the status of a row.                      *)
LEMMA StatusFacts ==
  ASSUME NEW r \in Job, NEW s \in {"processing", "completed"}
  PROVE  /\ [r EXCEPT !.status = s] \in Job
         /\ [r EXCEPT !.status = s].page = r.page
         /\ [r EXCEPT !.status = s].retries = r.retries
         /\ [r EXCEPT !.status = s].status = s
  BY DEF Job

(* Pages of jobs are pages.                                                 *)
LEMMA PagesFacts == ASSUME TypeOK, NEW js PROVE PagesOf(js) \subseteq 0..MaxPages
  BY JobsFacts DEF PagesOf, Job

(* What a task holds.                                                       *)
LEMMA HandType ==
  ASSUME TypeOK
  PROVE  claimed \in Nat /\ \A p \in Permits : TaskJob(p) \in Nat
  BY ConstantsAssumption DEF TypeOK, TaskJob, NoJob

(* A page that a fetch has in flight has no image job yet, so that its job  *)
(* is not one too many: the pages of all jobs differ and are at most        *)
(* MaxPages.                                                                *)
LEMMA RoomForJob ==
  ASSUME TypeOK, PagesApart, NEW f \in Fetchers, InFlight(f)
  PROVE  Len(jobs) + 1 <= MaxPages
<1> DEFINE n == Len(jobs) + 1
           g == [i \in 1..n |-> IF i = n THEN fetch[f].page ELSE jobs[i].page]
<1>1. Len(jobs) \in Nat /\ MaxPages \in Nat /\ pages \in 0..MaxPages
  BY JobsFacts, ConstantsAssumption DEF TypeOK
<1>2. \A i \in 1..Len(jobs) : jobs[i].page \in 1..MaxPages
  BY JobsFacts DEF Job
<1>3. fetch[f].page \in 1..MaxPages
  BY <1>1 DEF PagesApart
<1>4. g \in [1..n -> 1..MaxPages]
  BY <1>1, <1>2, <1>3
<1>5. \A i, k \in 1..n : g[i] = g[k] => i = k
  <2> SUFFICES ASSUME NEW i \in 1..n, NEW k \in 1..n, g[i] = g[k] PROVE i = k
    OBVIOUS
  <2>1. (i = n \/ i \in 1..Len(jobs)) /\ (k = n \/ k \in 1..Len(jobs))
    BY <1>1
  <2>. QED  BY <2>1 DEF PagesApart
<1>6. g \in Injection(1..n, 1..MaxPages)
  BY <1>4, <1>5, Fun_IsInj
<1>7. IsFiniteSet(1..MaxPages) /\ Cardinality(1..MaxPages) = MaxPages
  BY <1>1, FS_Interval
<1>8. Cardinality(1..n) <= Cardinality(1..MaxPages)
  BY <1>6, <1>7, FS_Injection
<1>9. Cardinality(1..n) = n
  BY <1>1, FS_Interval
<1>. QED  BY <1>7, <1>8, <1>9

-----------------------------------------------------------------------------
(* Types. Only a row that is created, or retried, could leave them.         *)
LEMMA TypeNext == ContentInv /\ [Next]_vars => TypeOK'
<1> SUFFICES ASSUME ContentInv, [Next]_vars PROVE TypeOK'
  OBVIOUS
<1>a. TypeOK /\ HandsInv /\ RunsInv /\ PagesApart
  BY DEF ContentInv
<1>b. MaxPages \in Nat /\ pages \in 0..MaxPages
  BY <1>a, ConstantsAssumption DEF TypeOK
<1>c. NoTask \in [pc : {"idle", "working", "updated", "failing"},
                 job : 0..MaxPages, page : 0..MaxPages]
  BY <1>b DEF NoTask, NoJob
<1>1. ASSUME NEW f \in Fetchers, GetPage(f) PROVE TypeOK'
  <2>1. pages' \in 1..MaxPages
    BY <1>1, <1>b DEF GetPage
  <2>2. fetch' = [fetch EXCEPT ![f] = [pc |-> "got", page |-> pages']]
    BY <1>1 DEF GetPage
  <2>. QED  BY <1>1, <1>a, <2>1, <2>2 DEF GetPage, TypeOK
<1>2. ASSUME NEW f \in Fetchers, SaveContent(f) PROVE TypeOK'
  <2>1. entry' \in [content : Content, text : 0..MaxPages, edited : BOOLEAN, gone : BOOLEAN]
    <3>1. fetch[f].page \in 0..MaxPages
      BY <1>a DEF TypeOK
    <3>2. Fetched(fetch[f].page) \in Content
      BY <3>1 DEF Fetched, Content, Images
    <3>. QED  BY <1>2, <1>a, <3>1, <3>2 DEF SaveContent, Rewritten, Saved, TypeOK
  <2>2. fetch' \in [Fetchers -> [pc : {"idle", "got", "saved"}, page : 0..MaxPages]]
    BY <1>2, <1>a DEF SaveContent, TypeOK
  <2>. QED  BY <1>2, <1>a, <2>1, <2>2 DEF SaveContent, TypeOK
<1>3. ASSUME NEW f \in Fetchers, QueueImages(f) PROVE TypeOK'
  <2>1. fetch' \in [Fetchers -> [pc : {"idle", "got", "saved"}, page : 0..MaxPages]]
    BY <1>3, <1>a, <1>b DEF QueueImages, NoFetch, TypeOK
  <2>2. jobs' \in Seq(Job) /\ Len(jobs') <= MaxPages
    <3> DEFINE row == [page |-> fetch[f].page, status |-> "pending", retries |-> 0]
    <3>1. CASE UNCHANGED jobs
      BY <3>1, <1>a, JobsFacts
    <3>2. CASE jobs' = Append(jobs, row)
      <4>1. InFlight(f)
        BY <1>3 DEF QueueImages, InFlight
      <4>2. row \in Job
        BY <4>1, <1>a, <1>b, ConstantsAssumption DEF PagesApart, Job
      <4>. QED  BY <3>2, <4>1, <4>2, <1>a, JobsFacts, AppendProperties, RoomForJob
    <3>. QED  BY <1>3, <3>1, <3>2 DEF QueueImages
  <2>3. lost' \subseteq 0..MaxPages
    <3>1. fetch[f].page \in 0..MaxPages /\ lost \subseteq 0..MaxPages
      BY <1>a DEF TypeOK
    <3>2. lost' \subseteq lost \cup {fetch[f].page}
      BY <1>3 DEF QueueImages
    <3>. QED  BY <3>1, <3>2
  <2>4. UNCHANGED <<entry, patch, claimed, task, pages, runs, reverted>>
    BY <1>3 DEF QueueImages
  <2>. QED  BY <1>a, <2>1, <2>2, <2>3, <2>4 DEF TypeOK
<1>4. ASSUME NEW f \in Fetchers, MarkFailed(f) PROVE TypeOK'
  <2>1. Empty \in Content /\ 0 \in 0..MaxPages
    BY ContentFacts
  <2>2. entry' \in [content : Content, text : 0..MaxPages, edited : BOOLEAN, gone : BOOLEAN]
    BY <1>4, <1>a, <2>1 DEF MarkFailed, Rewritten, Failed, TypeOK
  <2>. QED  BY <1>4, <1>a, <2>2 DEF MarkFailed, TypeOK
<1>5. ASSUME NEW r \in Patchers, EditContent(r) \/ SetFlags(r) PROVE TypeOK'
  <2>1. PICK c \in Content, e \in BOOLEAN : ReadEntry(r, c, e)
    BY <1>5, <1>a, ContentFacts DEF EditContent, SetFlags, TypeOK
  <2>. QED  BY <1>a, <2>1 DEF ReadEntry, TypeOK
<1>6. ASSUME NEW r \in Patchers, WriteEntry(r) PROVE TypeOK'
  <2>1. Empty \in Content /\ Edited \in Content
    BY ContentFacts
  <2>2. NoPatch \in [pc : {"idle", "read"}, content : Content, edited : BOOLEAN]
    BY <2>1 DEF NoPatch
  <2>3. entry' \in [content : Content, text : 0..MaxPages, edited : BOOLEAN, gone : BOOLEAN]
    BY <1>6, <1>a DEF WriteEntry, TypeOK
  <2>4. reverted' \subseteq 0..MaxPages
    <3>1. patch[r].content.page \in 0..MaxPages
      BY <1>a DEF TypeOK, Content
    <3>. QED  BY <1>6, <1>a, <3>1 DEF WriteEntry, TypeOK
  <2>. QED  BY <1>6, <1>a, <2>2, <2>3, <2>4 DEF WriteEntry, TypeOK
<1>7. ASSUME Delete PROVE TypeOK'
  <2>1. Empty \in Content
    BY ContentFacts
  <2>2. jobs' \in Seq(Job) /\ Len(jobs') <= MaxPages
    BY <1>7, <1>b, EmptySeq DEF Delete
  <2>. QED  BY <1>7, <1>a, <2>1, <2>2 DEF Delete, TypeOK
<1>8. ASSUME Claim PROVE TypeOK'
  <2>1. PICK j \in Claimable :
          Mark(j, [jobs[j] EXCEPT !.status = "processing"]) /\ claimed' = j
    BY <1>8 DEF Claim
  <2>2. j \in 1..Len(jobs) /\ j \in 0..MaxPages /\ jobs[j] \in Job
    BY <2>1, <1>a, JobsFacts DEF Claimable
  <2>3. jobs' \in Seq(Job) /\ Len(jobs') <= MaxPages
    <3>1. [jobs[j] EXCEPT !.status = "processing"] \in Job
      BY <2>2, StatusFacts
    <3>. QED  BY <2>1, <3>1, <1>a, JobsFacts, MarkFacts
  <2>. QED  BY <1>8, <1>a, <2>1, <2>2, <2>3 DEF Claim, TypeOK
<1>9. ASSUME NEW p \in Permits, Dispatch(p) PROVE TypeOK'
  <2>1. claimed \in 1..MaxPages
    BY <1>9, <1>a DEF Dispatch, NoJob, TypeOK
  <2>2. (IF claimed \in DOMAIN jobs THEN jobs[claimed].page ELSE 0) \in 0..MaxPages
    BY <1>a, <1>b, JobsFacts DEF Job
  <2>3. task' \in [Permits -> [pc : {"idle", "working", "updated", "failing"},
                              job : 0..MaxPages, page : 0..MaxPages]]
    BY <1>9, <1>a, <2>1, <2>2 DEF Dispatch, TypeOK
  <2>4. runs' \in [1..MaxPages -> Nat] /\ claimed' \in 0..MaxPages
    <3>1. runs \in [1..MaxPages -> Nat]
      BY <1>a DEF TypeOK
    <3>2. runs' = [runs EXCEPT ![claimed] = @ + 1] /\ claimed' = 0
      BY <1>9 DEF Dispatch, NoJob
    <3>. QED  BY <1>b, <2>1, <3>1, <3>2
  <2>. QED  BY <1>9, <1>a, <2>3, <2>4 DEF Dispatch, TypeOK
<1>10. ASSUME NEW p \in Permits, UpdateContent(p) PROVE TypeOK'
  <2>1. task[p].page \in 0..MaxPages
    BY <1>a DEF TypeOK
  <2>2. \A images \in Images : Processed(task[p].page, images) \in Content
    BY <2>1 DEF Processed, Fetched, Content
  <2>3. entry' \in [content : Content, text : 0..MaxPages, edited : BOOLEAN, gone : BOOLEAN]
    <3>1. PICK images \in Images :
            entry' = Rewritten([entry EXCEPT !.content = Processed(task[p].page, images)])
      BY <1>10 DEF UpdateContent, Images
    <3>. QED  BY <1>a, <2>2, <3>1 DEF Rewritten, TypeOK
  <2>4. task' \in [Permits -> [pc : {"idle", "working", "updated", "failing"},
                              job : 0..MaxPages, page : 0..MaxPages]]
    BY <1>10, <1>a DEF UpdateContent, TypeOK
  <2>. QED  BY <1>10, <1>a, <2>3, <2>4 DEF UpdateContent, TypeOK
<1>11. ASSUME NEW p \in Permits, UpdateFails(p) PROVE TypeOK'
  <2>1. task' \in [Permits -> [pc : {"idle", "working", "updated", "failing"},
                              job : 0..MaxPages, page : 0..MaxPages]]
    BY <1>11, <1>a DEF UpdateFails, TypeOK
  <2>. QED  BY <1>11, <1>a, <2>1 DEF UpdateFails, TypeOK
<1>12. ASSUME NEW p \in Permits, MarkCompleted(p) PROVE TypeOK'
  <2>1. jobs' \in Seq(Job) /\ Len(jobs') <= MaxPages
    <3> DEFINE j == task[p].job
               row == [jobs[j] EXCEPT !.status = "completed"]
    <3>1. j \in 1..Len(jobs) => row \in Job
      BY <1>a, JobsFacts, StatusFacts
    <3>2. Mark(j, row)
      BY <1>12 DEF MarkCompleted
    <3> HIDE DEF j, row
    <3>. QED  BY <3>1, <3>2, <1>a, JobsFacts, MarkFacts
  <2>2. task' \in [Permits -> [pc : {"idle", "working", "updated", "failing"},
                              job : 0..MaxPages, page : 0..MaxPages]]
    BY <1>12, <1>a, <1>c DEF MarkCompleted, TypeOK
  <2>. QED  BY <1>12, <1>a, <2>1, <2>2 DEF MarkCompleted, TypeOK
<1>13. ASSUME NEW p \in Permits, MarkJobFailed(p) PROVE TypeOK'
  <2> DEFINE j == task[p].job
  <2>1. j \in 1..Len(jobs) => jobs[j].status = "processing" /\ jobs[j].retries <= MaxRetries
    BY <1>13, <1>a DEF MarkJobFailed, HandsInv, RunsInv, TaskJob
  <2>2. j \in 1..Len(jobs) => Retried(jobs[j]) \in Job
    BY <1>a, <2>1, JobsFacts, RetriedFacts
  <2>3. jobs' \in Seq(Job) /\ Len(jobs') <= MaxPages
    BY <1>13, <1>a, <2>2, JobsFacts, MarkFacts DEF MarkJobFailed
  <2>4. task' \in [Permits -> [pc : {"idle", "working", "updated", "failing"},
                              job : 0..MaxPages, page : 0..MaxPages]]
    BY <1>13, <1>a, <1>c DEF MarkJobFailed, TypeOK
  <2>. QED  BY <1>13, <1>a, <2>3, <2>4 DEF MarkJobFailed, TypeOK
<1>14. ASSUME NEW p \in Permits, LostMark(p) PROVE TypeOK'
  <2>1. task' \in [Permits -> [pc : {"idle", "working", "updated", "failing"},
                              job : 0..MaxPages, page : 0..MaxPages]]
    BY <1>14, <1>a, <1>c DEF LostMark, TypeOK
  <2>2. lost' \subseteq 0..MaxPages
    BY <1>14, <1>a, PagesFacts DEF LostMark, TypeOK
  <2>. QED  BY <1>14, <1>a, <2>1, <2>2 DEF LostMark, TypeOK
<1>15. ASSUME Crash PROVE TypeOK'
  <2>1. Empty \in Content
    BY ContentFacts
  <2>2. {fetch[f].page : f \in {g \in Fetchers : fetch[g].pc = "saved"}} \subseteq 0..MaxPages
    BY <1>a DEF TypeOK
  <2>3. lost' \subseteq 0..MaxPages
    BY <1>15, <1>a, <2>2, PagesFacts DEF Crash, TypeOK
  <2>. QED  BY <1>15, <1>a, <1>b, <2>1, <2>3 DEF Crash, NoFetch, NoPatch, NoTask, NoJob, TypeOK
<1>16. CASE UNCHANGED vars
  BY <1>16, <1>a DEF vars, TypeOK
<1>. QED
  BY <1>1, <1>2, <1>3, <1>4, <1>5, <1>6, <1>7, <1>8, <1>9, <1>10, <1>11,
     <1>12, <1>13, <1>14, <1>15, <1>16 DEF Next, FetchStep, ReaderStep, TaskStep

-----------------------------------------------------------------------------
(* Steps that neither touch a row of the image jobs nor hand one on.        *)
QuietStep ==
    /\ jobs' = jobs /\ runs' = runs
    /\ entry'.gone = entry.gone
    /\ claimed' \in {claimed, NoJob}
    /\ \A p \in Permits : /\ TaskJob(p)' \in {TaskJob(p), NoJob}
                          /\ task'[p].pc = "idle" => task[p].pc = "idle" \/ TaskJob(p)' = NoJob

(* The others.                                                              *)
JobStep ==
    \/ \E f \in Fetchers : QueueImages(f) /\ jobs' # jobs
    \/ Delete \/ Claim
    \/ \E p \in Permits : Dispatch(p) \/ MarkCompleted(p) \/ MarkJobFailed(p)

(* Every step is one or the other.                                          *)
LEMMA JobSteps == TypeOK /\ [Next]_vars => JobStep \/ QuietStep
<1> SUFFICES ASSUME TypeOK, [Next]_vars PROVE JobStep \/ QuietStep
  OBVIOUS
<1>1. ASSUME NEW f \in Fetchers, GetPage(f) PROVE QuietStep
  BY <1>1 DEF GetPage, QuietStep, TaskJob
<1>2. ASSUME NEW f \in Fetchers, SaveContent(f) \/ MarkFailed(f) PROVE QuietStep
  <2>1. entry'.gone = entry.gone
    BY <1>2 DEF SaveContent, MarkFailed, Rewritten, Saved, Failed, TypeOK
  <2>. QED  BY <1>2, <2>1 DEF SaveContent, MarkFailed, QuietStep, TaskJob
<1>3. ASSUME NEW f \in Fetchers, QueueImages(f), jobs' = jobs PROVE QuietStep
  BY <1>3 DEF QueueImages, QuietStep, TaskJob
<1>4. ASSUME NEW r \in Patchers, EditContent(r) \/ SetFlags(r) PROVE QuietStep
  BY <1>4 DEF EditContent, SetFlags, ReadEntry, QuietStep, TaskJob
<1>5. ASSUME NEW r \in Patchers, WriteEntry(r) PROVE QuietStep
  <2>1. entry'.gone = entry.gone
    BY <1>5 DEF WriteEntry, TypeOK
  <2>. QED  BY <1>5, <2>1 DEF WriteEntry, QuietStep, TaskJob
<1>6. ASSUME NEW p \in Permits, UpdateContent(p) PROVE QuietStep
  <2>1. entry'.gone = entry.gone
    BY <1>6 DEF UpdateContent, Rewritten, TypeOK
  <2>2. \A q \in Permits : /\ TaskJob(q)' = TaskJob(q)
                           /\ task'[q].pc = "idle" => task[q].pc = "idle"
    BY <1>6 DEF UpdateContent, TaskJob, TypeOK
  <2>. QED  BY <1>6, <2>1, <2>2 DEF UpdateContent, QuietStep
<1>7. ASSUME NEW p \in Permits, UpdateFails(p) PROVE QuietStep
  <2>1. \A q \in Permits : /\ TaskJob(q)' = TaskJob(q)
                           /\ task'[q].pc = "idle" => task[q].pc = "idle"
    BY <1>7 DEF UpdateFails, TaskJob, TypeOK
  <2>. QED  BY <1>7, <2>1 DEF UpdateFails, QuietStep
<1>8. ASSUME NEW p \in Permits, LostMark(p) PROVE QuietStep
  <2>1. \A q \in Permits :
           /\ TaskJob(q)' \in {TaskJob(q), NoJob}
           /\ task'[q].pc = "idle" => task[q].pc = "idle" \/ TaskJob(q)' = NoJob
    BY <1>8 DEF LostMark, NoTask, TaskJob, TypeOK
  <2>. QED  BY <1>8, <2>1 DEF LostMark, QuietStep
<1>9. ASSUME Crash PROVE QuietStep
  BY <1>9 DEF Crash, NoTask, TaskJob, QuietStep
<1>10. CASE UNCHANGED vars
  BY <1>10 DEF vars, QuietStep, TaskJob
<1>. QED
  BY <1>1, <1>2, <1>3, <1>4, <1>5, <1>6, <1>7, <1>8, <1>9, <1>10 DEF Next,
     FetchStep, ReaderStep, TaskStep, JobStep

(* Dispatch moves the claimed job from the loop's hand into the task's.     *)
LEMMA DispatchHands ==
  ASSUME TypeOK, HandsInv, NEW p \in Permits, Dispatch(p)
  PROVE  /\ TaskJob(p) = NoJob /\ TaskJob(p)' = claimed /\ claimed' = NoJob
         /\ \A q \in Permits \ {p} : TaskJob(q)' = TaskJob(q)
         /\ task'[p].pc = "working" /\ \A q \in Permits \ {p} : task'[q] = task[q]
  BY DEF Dispatch, TaskJob, HandsInv, TypeOK

(* A mark takes the job out of its task's hand.                             *)
LEMMA MarkHands ==
  ASSUME TypeOK, NEW p \in Permits, MarkCompleted(p) \/ MarkJobFailed(p)
  PROVE  /\ TaskJob(p) = task[p].job /\ TaskJob(p)' = NoJob /\ claimed' = claimed
         /\ \A q \in Permits \ {p} : TaskJob(q)' = TaskJob(q) /\ task'[q] = task[q]
  BY DEF MarkCompleted, MarkJobFailed, NoTask, TaskJob, TypeOK

(* A mark writes a row whose task has it: processing, with a retry left.    *)
LEMMA MarkRow ==
  ASSUME ContentInv, NEW p \in Permits, MarkCompleted(p) \/ MarkJobFailed(p)
  PROVE  /\ Len(jobs') = Len(jobs) /\ entry' = entry /\ runs' = runs /\ fetch' = fetch
         /\ pages' = pages
         /\ \A k \in 1..Len(jobs) : k # task[p].job => jobs'[k] = jobs[k]
         /\ \A k \in 1..Len(jobs) : k = task[p].job =>
               /\ jobs[k].status = "processing"
               /\ jobs'[k].page = jobs[k].page
               /\ jobs'[k].status \in {"completed", "failed", "pending"}
               /\ jobs'[k].retries \in {jobs[k].retries, jobs[k].retries + 1}
               /\ jobs'[k].status = "pending" =>
                     /\ jobs'[k].retries = jobs[k].retries + 1
                     /\ jobs'[k].retries <= MaxRetries
<1> DEFINE j == task[p].job
           done == [jobs[j] EXCEPT !.status = "completed"]
           row == IF MarkCompleted(p) THEN done ELSE Retried(jobs[j])
<1>1. TypeOK /\ HandsInv /\ RunsInv
  BY DEF ContentInv
<1>2. j \in 1..Len(jobs) => /\ jobs[j] \in Job /\ jobs[j].status = "processing"
                            /\ jobs[j].retries <= MaxRetries
  BY <1>1, JobsFacts, MarkHands DEF HandsInv, RunsInv
<1>3. Mark(j, row)
  BY DEF MarkCompleted, MarkJobFailed
<1>4. j \in 1..Len(jobs) =>
        /\ row \in Job /\ row.page = jobs[j].page
        /\ row.status \in {"completed", "failed", "pending"}
        /\ row.retries \in {jobs[j].retries, jobs[j].retries + 1}
        /\ row.status = "pending" =>
              row.retries = jobs[j].retries + 1 /\ row.retries <= MaxRetries
  <2> SUFFICES ASSUME j \in 1..Len(jobs)
               PROVE  /\ row \in Job /\ row.page = jobs[j].page
                      /\ row.status \in {"completed", "failed", "pending"}
                      /\ row.retries \in {jobs[j].retries, jobs[j].retries + 1}
                      /\ row.status = "pending" =>
                            row.retries = jobs[j].retries + 1 /\ row.retries <= MaxRetries
    OBVIOUS
  <2>1. CASE MarkCompleted(p)
    <3>1. row = done
      BY <2>1
    <3>. QED  BY <3>1, <1>2, StatusFacts
  <2>2. CASE ~MarkCompleted(p)
    <3>1. row = Retried(jobs[j])
      BY <2>2
    <3>. QED  BY <3>1, <1>2, RetriedFacts
  <2>. QED  BY <2>1, <2>2
<1>5. entry' = entry /\ runs' = runs /\ fetch' = fetch /\ pages' = pages
  BY DEF MarkCompleted, MarkJobFailed
<1> HIDE DEF row, done
<1>6. /\ Len(jobs') = Len(jobs)
      /\ \A k \in 1..Len(jobs) : jobs'[k] = IF k = j THEN row ELSE jobs[k]
  BY <1>1, <1>3, <1>4, MarkFacts
<1>. QED  BY <1>2, <1>4, <1>5, <1>6

(* create adds a pending row for the page its fetch had in flight.          *)
LEMMA CreatedRow ==
  ASSUME ContentInv, NEW f \in Fetchers, QueueImages(f), jobs' # jobs
  PROVE  /\ ~entry.gone /\ InFlight(f) /\ Len(jobs') = Len(jobs) + 1
         /\ entry' = entry /\ claimed' = claimed /\ task' = task
         /\ runs' = runs /\ pages' = pages
         /\ \A j \in 1..Len(jobs) : jobs'[j] = jobs[j]
         /\ jobs'[Len(jobs) + 1] = [page |-> fetch[f].page, status |-> "pending",
                                    retries |-> 0]
         /\ Len(jobs) + 1 \in 1..MaxPages
<1> DEFINE row == [page |-> fetch[f].page, status |-> "pending", retries |-> 0]
<1>1. TypeOK /\ PagesApart /\ InFlight(f) /\ MaxPages \in Nat /\ MaxRetries \in Nat
  BY ConstantsAssumption DEF ContentInv, QueueImages, InFlight
<1>2. row \in Job
  BY <1>1 DEF PagesApart, Job, TypeOK
<1>3. /\ ~entry.gone /\ jobs' = Append(jobs, row)
      /\ entry' = entry /\ claimed' = claimed /\ task' = task
      /\ runs' = runs /\ pages' = pages
  BY DEF QueueImages
<1>4. /\ Len(jobs') = Len(jobs) + 1
      /\ \A j \in 1..Len(jobs) : jobs'[j] = jobs[j]
      /\ jobs'[Len(jobs) + 1] = row
  <2>1. jobs \in Seq(Job)
    BY <1>1, JobsFacts
  <2> HIDE DEF row
  <2>. QED  BY <1>2, <1>3, <2>1, AppendProperties
<1>5. Len(jobs) + 1 \in 1..MaxPages
  BY <1>1, JobsFacts, RoomForJob
<1>. QED  BY <1>1, <1>3, <1>4, <1>5

-----------------------------------------------------------------------------
(* A job stays in one hand from its claim to its mark.                      *)
LEMMA HandsNext == ContentInv /\ TypeOK' /\ [Next]_vars => HandsInv'
<1> SUFFICES ASSUME ContentInv, TypeOK', [Next]_vars PROVE HandsInv'
  OBVIOUS
<1>a. TypeOK /\ HandsInv
  BY DEF ContentInv
<1>b. /\ claimed \in Nat /\ \A p \in Permits : TaskJob(p) \in Nat
      /\ Len(jobs) \in Nat /\ NoJob = 0
      /\ \A j \in 1..Len(jobs) : jobs[j] \in Job
  BY <1>a, HandType, JobsFacts DEF NoJob
<1>1. CASE QuietStep
  <2>1. OneHandPerJob'
    BY <1>1, <1>a, <1>b DEF QuietStep, HandsInv, OneHandPerJob, TaskJob
  <2>. QED  BY <1>1, <2>1, <1>a, <1>b DEF QuietStep, HandsInv
<1>2. ASSUME NEW f \in Fetchers, QueueImages(f), jobs' # jobs PROVE HandsInv'
  <2>1. /\ ~entry.gone /\ entry' = entry /\ claimed' = claimed /\ task' = task
    BY <1>2, CreatedRow
  <2>2. \A p \in Permits : TaskJob(p)' = TaskJob(p)
    BY <2>1 DEF TaskJob
  <2>4. /\ Len(jobs') = Len(jobs) + 1
        /\ \A j \in 1..Len(jobs) : jobs'[j] = jobs[j]
    BY <1>2, CreatedRow
  <2>5. claimed <= Len(jobs) /\ \A p \in Permits : TaskJob(p) <= Len(jobs)
    BY <2>1, <1>a DEF HandsInv
  <2>6. \A j \in 1..Len(jobs') :
          (claimed = j \/ \E p \in Permits : TaskJob(p) = j) => j \in 1..Len(jobs)
    BY <2>4, <2>5, <1>b
  <2>7. OneHandPerJob'
    BY <2>1, <2>2, <1>a DEF HandsInv, OneHandPerJob, TaskJob
  <2>8. /\ claimed' <= Len(jobs') /\ \A p \in Permits : TaskJob(p)' <= Len(jobs')
    BY <2>1, <2>2, <2>4, <2>5, <1>b
  <2>9. \A j \in 1..Len(jobs') :
          (claimed' = j \/ \E p \in Permits : TaskJob(p)' = j) => jobs'[j].status = "processing"
    BY <2>1, <2>2, <2>4, <2>6, <1>a DEF HandsInv
  <2>. QED  BY <2>1, <2>2, <2>7, <2>8, <2>9, <1>a DEF HandsInv
<1>3. CASE Delete
  <2>1. jobs' = <<>> /\ entry'.gone /\ claimed' = claimed /\ task' = task
    BY <1>3 DEF Delete
  <2>2. Len(jobs') = 0
    BY <2>1
  <2>. QED  BY <2>1, <2>2, <1>a DEF HandsInv, OneHandPerJob, TaskJob, TaskJob
<1>4. CASE Claim
  <2>1. PICK j \in Claimable :
          Mark(j, [jobs[j] EXCEPT !.status = "processing"]) /\ claimed' = j
    BY <1>4 DEF Claim
  <2>2. claimed = NoJob /\ entry' = entry /\ task' = task
    BY <1>4 DEF Claim
  <2>3. j \in 1..Len(jobs) /\ jobs[j].status = "pending" /\ jobs[j] \in Job
    BY <2>1, <1>a, JobsFacts DEF Claimable
  <2>4. /\ Len(jobs') = Len(jobs)
        /\ \A k \in 1..Len(jobs) : k # j => jobs'[k] = jobs[k]
        /\ jobs'[j].status = "processing"
    <3>1. /\ [jobs[j] EXCEPT !.status = "processing"] \in Job
          /\ [jobs[j] EXCEPT !.status = "processing"].status = "processing"
      BY <2>3, StatusFacts
    <3>. QED  BY <2>1, <2>3, <3>1, <1>a, MarkFacts
  <2>5. \A p \in Permits : TaskJob(p)' = TaskJob(p) /\ TaskJob(p) # j
    BY <2>2, <2>3, <1>a DEF HandsInv, TaskJob
  <2>6. jobs # <<>>
    BY <2>3
  <2>7. OneHandPerJob'
    BY <2>1, <2>5, <1>a DEF HandsInv, OneHandPerJob, TaskJob
  <2>. QED  BY <2>1, <2>2, <2>3, <2>4, <2>5, <2>6, <2>7, <1>a, <1>b DEF HandsInv
<1>5. ASSUME NEW p \in Permits, Dispatch(p) PROVE HandsInv'
  <2>1. jobs' = jobs /\ entry' = entry /\ claimed # NoJob
    BY <1>5 DEF Dispatch
  <2>2. /\ TaskJob(p) = NoJob /\ TaskJob(p)' = claimed /\ claimed' = NoJob
        /\ \A q \in Permits \ {p} : TaskJob(q)' = TaskJob(q)
        /\ task'[p].pc = "working" /\ \A q \in Permits \ {p} : task'[q] = task[q]
    BY <1>5, <1>a, DispatchHands
  <2>3. OneHandPerJob'
    BY <2>1, <2>2, <1>a, <1>b DEF HandsInv, OneHandPerJob, TaskJob
  <2>. QED  BY <2>1, <2>2, <2>3, <1>a, <1>b DEF HandsInv
<1>6. ASSUME NEW p \in Permits, MarkCompleted(p) \/ MarkJobFailed(p) PROVE HandsInv'
  <2>1. /\ TaskJob(p) = task[p].job /\ TaskJob(p)' = NoJob /\ claimed' = claimed
        /\ \A q \in Permits \ {p} : TaskJob(q)' = TaskJob(q) /\ task'[q] = task[q]
    BY <1>6, <1>a, MarkHands
  <2>2. /\ Len(jobs') = Len(jobs) /\ entry' = entry
        /\ \A k \in 1..Len(jobs) : k # task[p].job => jobs'[k] = jobs[k]
    BY <1>6, MarkRow
  <2>8. \A q \in Permits : task'[q].pc = "idle" => TaskJob(q)' = NoJob
    BY <2>1, <1>a DEF HandsInv
  <2>3. \A j \in 1..Len(jobs) :
          (claimed' = j \/ \E q \in Permits : TaskJob(q)' = j) => j # task[p].job
    BY <2>1, <1>a, <1>b DEF HandsInv, OneHandPerJob, TaskJob
  <2>4. entry.gone => jobs' = <<>>
    BY <2>2, <1>a, <1>b, JobsFacts, TypeOK', EmptySeq DEF HandsInv, TypeOK
  <2>5. OneHandPerJob'
    BY <2>1, <1>a, <1>b DEF HandsInv, OneHandPerJob, TaskJob
  <2>6. \A j \in 1..Len(jobs') :
          (claimed' = j \/ \E q \in Permits : TaskJob(q)' = j) => jobs'[j].status = "processing"
    BY <2>1, <2>2, <2>3, <1>a, <1>b DEF HandsInv
  <2>7. ~entry.gone => /\ claimed' <= Len(jobs')
                       /\ \A q \in Permits : TaskJob(q)' <= Len(jobs')
    BY <2>1, <2>2, <1>a, <1>b DEF HandsInv
  <2>. QED  BY <2>2, <2>4, <2>5, <2>6, <2>7, <2>8 DEF HandsInv
<1>. QED  BY <1>a, <1>1, <1>2, <1>3, <1>4, <1>5, <1>6, JobSteps DEF JobStep

-----------------------------------------------------------------------------
(* No run is lost from the count: a row that may run again has a retry left *)
(* for every run it had.                                                    *)
LEMMA RunsNext == ContentInv /\ TypeOK' /\ [Next]_vars => RunsInv'
<1> SUFFICES ASSUME ContentInv, TypeOK', [Next]_vars PROVE RunsInv'
  OBVIOUS
<1>a. TypeOK /\ HandsInv /\ RunsInv
  BY DEF ContentInv
<1>b. /\ claimed \in Nat /\ NoJob = 0 /\ MaxRetries \in Nat /\ MaxPages \in Nat
      /\ runs \in [1..MaxPages -> Nat]
      /\ Len(jobs) \in 0..MaxPages
      /\ \A j \in 1..Len(jobs) : /\ j \in 1..MaxPages
                                 /\ jobs[j] \in Job /\ jobs[j].retries \in Nat
  <2>1. \A j \in 1..Len(jobs) : j \in 1..MaxPages /\ jobs[j] \in Job
    BY <1>a, JobsFacts
  <2>2. \A r \in Job : r.retries \in Nat
    BY ConstantsAssumption DEF Job
  <2>. QED  BY <2>1, <2>2, <1>a, JobsFacts, HandType, ConstantsAssumption DEF NoJob, TypeOK
<1>1. CASE QuietStep
  <2>1. /\ jobs' = jobs /\ runs' = runs /\ entry'.gone = entry.gone
        /\ claimed' \in {claimed, NoJob}
    BY <1>1 DEF QuietStep
  <2>. QED  BY <2>1, <1>a, <1>b DEF RunsInv
<1>2. ASSUME NEW f \in Fetchers, QueueImages(f), jobs' # jobs PROVE RunsInv'
  <2> DEFINE n == Len(jobs) + 1
  <2>1. /\ ~entry.gone /\ entry' = entry /\ claimed' = claimed /\ runs' = runs
        /\ Len(jobs') = n /\ n \in 1..MaxPages
        /\ \A j \in 1..Len(jobs) : jobs'[j] = jobs[j]
        /\ jobs'[n].status = "pending" /\ jobs'[n].retries = 0
    <3>1. jobs'[n] = [page |-> fetch[f].page, status |-> "pending", retries |-> 0]
      BY <1>2, CreatedRow
    <3>2. jobs'[n].status = "pending" /\ jobs'[n].retries = 0
      BY <3>1
    <3>. QED  BY <1>2, <3>2, CreatedRow
  <2>2. runs[n] = 0
    BY <2>1, <1>a, <1>b DEF RunsInv
  <2>3. \A j \in 1..MaxPages :
           /\ runs'[j] <= MaxRetries + 1
           /\ claimed' = j => runs'[j] <= MaxRetries
           /\ ~entry'.gone /\ j > Len(jobs') => runs'[j] = 0
    BY <2>1, <1>a, <1>b DEF RunsInv
  <2>4. \A j \in 1..Len(jobs) :
           /\ jobs'[j].status \in {"pending", "processing"} => jobs'[j].retries <= MaxRetries
           /\ runs'[j] <= jobs'[j].retries + 1
           /\ jobs'[j].status = "pending" \/ claimed' = j => runs'[j] <= jobs'[j].retries
    BY <2>1, <1>a DEF RunsInv
  <2>5. \A j \in 1..Len(jobs') : j \in 1..Len(jobs) \/ j = n
    BY <2>1, <1>b
  <2> HIDE DEF n
  <2>6. /\ jobs'[n].retries <= MaxRetries
        /\ runs'[n] <= jobs'[n].retries + 1 /\ runs'[n] <= jobs'[n].retries
    BY <2>1, <2>2, <1>b
  <2>. QED  BY <2>3, <2>4, <2>5, <2>6 DEF RunsInv
<1>3. CASE Delete
  <2>1. jobs' = <<>> /\ entry'.gone /\ claimed' = claimed /\ runs' = runs
    BY <1>3 DEF Delete
  <2>2. Len(jobs') = 0
    BY <2>1
  <2>. QED  BY <2>1, <2>2, <1>a, <1>b DEF RunsInv
<1>4. CASE Claim
  <2>1. PICK j \in Claimable :
          Mark(j, [jobs[j] EXCEPT !.status = "processing"]) /\ claimed' = j
    BY <1>4 DEF Claim
  <2>2. entry' = entry /\ runs' = runs /\ claimed = NoJob
    BY <1>4 DEF Claim
  <2>3. j \in 1..Len(jobs) /\ jobs[j].status = "pending" /\ jobs[j] \in Job
    BY <2>1, <1>a, JobsFacts DEF Claimable
  <2>4. /\ Len(jobs') = Len(jobs)
        /\ \A k \in 1..Len(jobs) : k # j => jobs'[k] = jobs[k]
        /\ jobs'[j].status = "processing" /\ jobs'[j].retries = jobs[j].retries
    <3>1. /\ [jobs[j] EXCEPT !.status = "processing"] \in Job
          /\ [jobs[j] EXCEPT !.status = "processing"].status = "processing"
          /\ [jobs[j] EXCEPT !.status = "processing"].retries = jobs[j].retries
      BY <2>3, StatusFacts
    <3>. QED  BY <2>1, <2>3, <3>1, <1>a, MarkFacts
  <2>5. runs[j] <= jobs[j].retries /\ jobs[j].retries <= MaxRetries /\ j \in 1..MaxPages
    BY <2>3, <1>a, <1>b DEF RunsInv
  <2>6. runs[j] <= MaxRetries
    BY <2>5, <2>3, <1>b
  <2>7. \A k \in 1..MaxPages :
           /\ runs'[k] <= MaxRetries + 1
           /\ claimed' = k => runs'[k] <= MaxRetries
           /\ ~entry'.gone /\ k > Len(jobs') => runs'[k] = 0
    BY <2>1, <2>2, <2>4, <2>6, <1>a DEF RunsInv
  <2>8. \A k \in 1..Len(jobs) :
           /\ jobs'[k].status \in {"pending", "processing"} => jobs'[k].retries <= MaxRetries
           /\ runs'[k] <= jobs'[k].retries + 1
           /\ jobs'[k].status = "pending" \/ claimed' = k => runs'[k] <= jobs'[k].retries
    <3> TAKE k \in 1..Len(jobs)
    <3>1. CASE k = j
      BY <3>1, <2>2, <2>4, <2>5, <2>3, <1>a DEF RunsInv
    <3>2. CASE k # j
      BY <3>2, <2>1, <2>2, <2>4, <1>a DEF RunsInv
    <3>. QED  BY <3>1, <3>2
  <2>. QED  BY <2>4, <2>7, <2>8 DEF RunsInv
<1>5. ASSUME NEW p \in Permits, Dispatch(p) PROVE RunsInv'
  <2>1. /\ jobs' = jobs /\ entry' = entry /\ claimed # NoJob /\ claimed' = NoJob
        /\ runs' = [runs EXCEPT ![claimed] = @ + 1]
    BY <1>5 DEF Dispatch
  <2>2. claimed \in 1..MaxPages
    BY <2>1, <1>a, <1>b DEF TypeOK
  <2>3. \A j \in 1..MaxPages : runs'[j] = IF j = claimed THEN runs[j] + 1 ELSE runs[j]
    BY <2>1, <2>2, <1>b
  <2>4. \A j \in 1..Len(jobs) : claimed = j => jobs[j].status = "processing"
    BY <1>a DEF HandsInv
  <2>5. \A j \in 1..MaxPages : ~entry.gone /\ j > Len(jobs) => j # claimed
    BY <1>a, <1>b DEF HandsInv
  <2>6. \A j \in 1..MaxPages :
           /\ runs'[j] <= MaxRetries + 1
           /\ ~entry'.gone /\ j > Len(jobs') => runs'[j] = 0
    BY <2>1, <2>3, <2>5, <1>a, <1>b DEF RunsInv
  <2>7. \A j \in 1..Len(jobs) :
           /\ runs'[j] <= jobs[j].retries + 1
           /\ jobs[j].status = "pending" => runs'[j] <= jobs[j].retries
    <3> TAKE j \in 1..Len(jobs)
    <3>1. /\ runs[j] <= jobs[j].retries + 1
          /\ jobs[j].status = "pending" \/ claimed = j => runs[j] <= jobs[j].retries
          /\ runs[j] \in Nat /\ jobs[j].retries \in Nat
      BY <1>a, <1>b DEF RunsInv
    <3>2. runs'[j] = IF j = claimed THEN runs[j] + 1 ELSE runs[j]
      BY <2>3, <1>b
    <3>3. j = claimed => jobs[j].status # "pending"
      BY <2>4
    <3>. QED  BY <3>1, <3>2, <3>3
  <2>8. \A j \in 1..MaxPages : claimed' # j
    BY <2>1, <1>b
  <2>. QED  BY <2>1, <2>6, <2>7, <2>8, <1>a, <1>b DEF RunsInv
<1>6. ASSUME NEW p \in Permits, MarkCompleted(p) \/ MarkJobFailed(p) PROVE RunsInv'
  <2> DEFINE j == task[p].job
  <2>1. /\ Len(jobs') = Len(jobs) /\ entry' = entry /\ runs' = runs
        /\ \A k \in 1..Len(jobs) : k # j => jobs'[k] = jobs[k]
    BY <1>6, MarkRow
  <2>2. claimed' = claimed
    BY <1>6, <1>a, MarkHands
  <2>3. \A k \in 1..Len(jobs) : k = j =>
          /\ jobs[k].status = "processing"
          /\ jobs'[k].status \in {"completed", "failed", "pending"}
          /\ jobs'[k].retries \in {jobs[k].retries, jobs[k].retries + 1}
          /\ jobs'[k].status = "pending" =>
                jobs'[k].retries = jobs[k].retries + 1 /\ jobs'[k].retries <= MaxRetries
    BY <1>6, MarkRow
  <2> HIDE DEF j
  <2>4. \A k \in 1..Len(jobs) :
           /\ jobs'[k].status \in {"pending", "processing"} => jobs'[k].retries <= MaxRetries
           /\ runs[k] <= jobs'[k].retries + 1
           /\ jobs'[k].status = "pending" \/ claimed = k => runs[k] <= jobs'[k].retries
    <3> TAKE k \in 1..Len(jobs)
    <3>1. CASE k = j
      <4>1. runs[k] \in Nat /\ jobs[k].retries \in Nat
        BY <1>b
      <4>2. runs[k] <= jobs[k].retries + 1 /\ (claimed = k => runs[k] <= jobs[k].retries)
        BY <1>a DEF RunsInv
      <4>. QED  BY <3>1, <4>1, <4>2, <2>3
    <3>2. CASE k # j
      BY <3>2, <2>1, <1>a DEF RunsInv
    <3>. QED  BY <3>1, <3>2
  <2>. QED  BY <2>1, <2>2, <2>4, <1>a DEF RunsInv
<1>. QED  BY <1>a, <1>1, <1>2, <1>3, <1>4, <1>5, <1>6, JobSteps DEF JobStep

-----------------------------------------------------------------------------
(* A page has one fetch or one image job, never two of them.                *)
LEMMA PagesNext == ContentInv /\ TypeOK' /\ [Next]_vars => PagesApart'
<1> SUFFICES ASSUME ContentInv, TypeOK', [Next]_vars PROVE PagesApart'
  OBVIOUS
<1>a. TypeOK /\ PagesApart
  BY DEF ContentInv
<1>b. /\ pages \in Nat /\ Len(jobs) \in Nat
      /\ \A j \in 1..Len(jobs) : jobs[j].page \in Nat
      /\ \A f \in Fetchers : fetch[f].page \in Nat
  <2>1. \A r \in Job : r.page \in Nat
    BY ConstantsAssumption DEF Job
  <2>. QED  BY <2>1, <1>a, JobsFacts, ConstantsAssumption DEF TypeOK
(* Most steps neither start nor requeue a fetch nor make a row.             *)
<1>c. ASSUME Len(jobs') = Len(jobs), pages' = pages,
             \A j \in 1..Len(jobs) : jobs'[j].page = jobs[j].page,
             \A f \in Fetchers : InFlight(f)' =>
                InFlight(f) /\ fetch'[f].page = fetch[f].page
      PROVE  PagesApart'
  BY <1>a, <1>c DEF PagesApart
<1>1. ASSUME NEW f \in Fetchers, GetPage(f) PROVE PagesApart'
  <2>1. /\ pages' = pages + 1 /\ jobs' = jobs
        /\ fetch' = [fetch EXCEPT ![f] = [pc |-> "got", page |-> pages + 1]]
    BY <1>1 DEF GetPage
  <2>2. /\ fetch'[f].page = pages + 1
        /\ \A g \in Fetchers \ {f} : fetch'[g] = fetch[g]
    BY <2>1, <1>a DEF TypeOK
  <2>3. \A g \in Fetchers : InFlight(g)' =>
          \/ g = f /\ fetch'[g].page = pages + 1
          \/ g # f /\ InFlight(g) /\ fetch'[g].page = fetch[g].page /\ fetch[g].page \in 1..pages
    BY <2>2, <1>a DEF InFlight, PagesApart
  <2>4. \A j \in 1..Len(jobs) : jobs[j].page <= pages
    BY <1>a DEF PagesApart
  <2>5. \A g \in Fetchers : InFlight(g)' => fetch'[g].page \in 1..pages'
    BY <2>1, <2>3, <1>b
  <2>6. \A g, h \in Fetchers :
          InFlight(g)' /\ InFlight(h)' /\ fetch'[g].page = fetch'[h].page => g = h
    BY <2>3, <1>a, <1>b DEF PagesApart
  <2>7. \A j \in 1..Len(jobs') :
           /\ jobs'[j].page <= pages'
           /\ \A g \in Fetchers : InFlight(g)' => fetch'[g].page # jobs'[j].page
           /\ \A k \in 1..Len(jobs') : jobs'[j].page = jobs'[k].page => j = k
    BY <2>1, <2>3, <2>4, <1>a, <1>b DEF PagesApart
  <2>. QED  BY <2>5, <2>6, <2>7 DEF PagesApart
<1>2. ASSUME NEW f \in Fetchers, SaveContent(f) PROVE PagesApart'
  <2>1. \A g \in Fetchers : InFlight(g)' => InFlight(g) /\ fetch'[g].page = fetch[g].page
    BY <1>2, <1>a DEF SaveContent, InFlight, TypeOK
  <2>. QED  BY <1>2, <1>c, <2>1 DEF SaveContent
<1>3. ASSUME NEW f \in Fetchers, QueueImages(f) PROVE PagesApart'
  <2>1. fetch' = [fetch EXCEPT ![f] = NoFetch] /\ InFlight(f) /\ pages' = pages
    BY <1>3 DEF QueueImages, InFlight
  <2>2. \A g \in Fetchers : InFlight(g)' =>
          g # f /\ InFlight(g) /\ fetch'[g].page = fetch[g].page
    BY <2>1, <1>a DEF InFlight, NoFetch, TypeOK
  <2>3. CASE jobs' = jobs
    BY <2>1, <2>2, <2>3, <1>c
  <2>4. CASE jobs' # jobs
    <3> DEFINE n == Len(jobs) + 1
    <3>1. /\ Len(jobs') = n
          /\ \A j \in 1..Len(jobs) : jobs'[j] = jobs[j]
      BY <1>3, <2>4, CreatedRow
    <3>2. jobs'[n].page = fetch[f].page
      <4>1. jobs'[n] = [page |-> fetch[f].page, status |-> "pending", retries |-> 0]
        BY <1>3, <2>4, CreatedRow
      <4>. QED  BY <4>1
    <3>3. \A j \in 1..n : j \in 1..Len(jobs) \/ j = n
      BY <1>b
    <3> HIDE DEF n
    <3>4. \A g \in Fetchers : InFlight(g)' => fetch'[g].page \in 1..pages'
      BY <2>1, <2>2, <1>a DEF PagesApart
    <3>5. \A g, h \in Fetchers :
            InFlight(g)' /\ InFlight(h)' /\ fetch'[g].page = fetch'[h].page => g = h
      BY <2>2, <1>a DEF PagesApart
    <3>6. fetch[f].page <= pages /\ \A j \in 1..Len(jobs) : fetch[f].page # jobs[j].page
      BY <2>1, <1>a, <1>b DEF PagesApart
    <3>7. \A j \in 1..n : /\ jobs'[j].page <= pages'
                          /\ \A k \in 1..n : jobs'[j].page = jobs'[k].page => j = k
      BY <3>1, <3>2, <3>3, <3>6, <2>1, <1>a DEF PagesApart
    <3>8. \A j \in 1..n : \A g \in Fetchers :
            InFlight(g)' => fetch'[g].page # jobs'[j].page
      BY <3>1, <3>2, <3>3, <2>1, <2>2, <1>a DEF PagesApart
    <3>. QED  BY <3>1, <3>4, <3>5, <3>7, <3>8 DEF PagesApart
  <2>. QED  BY <2>3, <2>4
<1>4. ASSUME NEW f \in Fetchers, MarkFailed(f) PROVE PagesApart'
  BY <1>4, <1>c DEF MarkFailed, InFlight
<1>5. ASSUME NEW r \in Patchers, EditContent(r) \/ SetFlags(r) \/ WriteEntry(r)
      PROVE  PagesApart'
  BY <1>5, <1>c DEF EditContent, SetFlags, ReadEntry, WriteEntry, InFlight
<1>6. ASSUME Delete PROVE PagesApart'
  <2>1. jobs' = <<>> /\ fetch' = fetch /\ pages' = pages
    BY <1>6 DEF Delete
  <2>2. Len(jobs') = 0
    BY <2>1
  <2>. QED  BY <2>1, <2>2, <1>a DEF PagesApart, InFlight
<1>7. ASSUME Claim PROVE PagesApart'
  <2>1. PICK j \in Claimable : Mark(j, [jobs[j] EXCEPT !.status = "processing"])
    BY <1>7 DEF Claim
  <2>2. /\ [jobs[j] EXCEPT !.status = "processing"] \in Job
        /\ [jobs[j] EXCEPT !.status = "processing"].page = jobs[j].page
    BY <2>1, <1>a, JobsFacts, StatusFacts DEF Claimable
  <2>3. Len(jobs') = Len(jobs) /\ \A k \in 1..Len(jobs) : jobs'[k].page = jobs[k].page
    BY <2>1, <2>2, <1>a, MarkFacts
  <2>. QED  BY <1>7, <1>c, <2>3 DEF Claim, InFlight
<1>8. ASSUME NEW p \in Permits, Dispatch(p) \/ UpdateContent(p) \/ UpdateFails(p) \/ LostMark(p)
      PROVE  PagesApart'
  BY <1>8, <1>c DEF Dispatch, UpdateContent, UpdateFails, LostMark, InFlight
<1>9. ASSUME NEW p \in Permits, MarkCompleted(p) \/ MarkJobFailed(p) PROVE PagesApart'
  <2>1. /\ Len(jobs') = Len(jobs) /\ fetch' = fetch /\ pages' = pages
        /\ \A k \in 1..Len(jobs) : jobs'[k].page = jobs[k].page
    BY <1>9, MarkRow
  <2>. QED  BY <1>c, <2>1 DEF InFlight
<1>10. ASSUME Crash PROVE PagesApart'
  BY <1>10, <1>c DEF Crash, NoFetch, InFlight
<1>11. CASE UNCHANGED vars
  BY <1>11, <1>c DEF vars, InFlight
<1>. QED
  BY <1>1, <1>2, <1>3, <1>4, <1>5, <1>6, <1>7, <1>8, <1>9, <1>10, <1>11 DEF
     Next, FetchStep, ReaderStep, TaskStep

-----------------------------------------------------------------------------
(* Before anything was fetched, nobody holds anything.                      *)
LEMMA ContentInvInit == Init => ContentInv
<1> SUFFICES ASSUME Init PROVE ContentInv
  OBVIOUS
<1>1. MaxPages \in Nat /\ MaxRetries \in Nat
  BY ConstantsAssumption
<1>2. jobs = <<>> /\ jobs \in Seq(Job) /\ Len(jobs) = 0
  BY EmptySeq DEF Init
<1>3. entry \in [content : Content, text : 0..MaxPages, edited : BOOLEAN, gone : BOOLEAN]
  BY ContentFacts DEF Init
<1>4. patch \in [Patchers -> [pc : {"idle", "read"}, content : Content, edited : BOOLEAN]]
  BY ContentFacts DEF Init, NoPatch
<1>5. TypeOK
  BY <1>1, <1>2, <1>3, <1>4 DEF Init, TypeOK, NoFetch, NoTask, NoJob
<1>6. \A p \in Permits : TaskJob(p) = 0
  BY DEF Init, TaskJob, NoTask, NoJob
<1>7. HandsInv
  BY <1>2, <1>6 DEF Init, HandsInv, OneHandPerJob, NoJob, TaskJob
<1>8. RunsInv
  BY <1>1, <1>2 DEF Init, RunsInv
<1>9. PagesApart
  BY <1>2 DEF Init, PagesApart, InFlight, NoFetch
<1>. QED  BY <1>5, <1>7, <1>8, <1>9 DEF ContentInv

(* ContentInv is an invariant.                                              *)
THEOREM ContentInvariant == Spec => []ContentInv
<1>1. ContentInv /\ [Next]_vars => ContentInv'
  BY TypeNext, HandsNext, RunsNext, PagesNext DEF ContentInv
<1>. QED  BY <1>1, ContentInvInit, PTL DEF Spec

(* The row of the entry, its image jobs and everyone who works on them have *)
(* the types of their columns and fields: in particular retry_count stays   *)
(* within MAX_RETRIES + 1.                                                  *)
THEOREM TypeCorrect == Spec => []TypeOK
<1>1. ContentInv => TypeOK
  BY DEF ContentInv
<1>. QED  BY <1>1, ContentInvariant, PTL

(* claim_pending and the permits never put an image job into two hands,     *)
(* after any crashes, lost marks and retries.                               *)
THEOREM OneHandPerJobHolds == Spec => []OneHandPerJob
<1>1. ContentInv => OneHandPerJob
  BY DEF ContentInv, HandsInv
<1>. QED  BY <1>1, ContentInvariant, PTL

(* mark_failed's comparison with MAX_RETRIES bounds the runs of a job.      *)
THEOREM RunsBoundedHolds == Spec => []RunsBounded
<1>1. ContentInv => RunsBounded
  BY DEF ContentInv, RunsInv, RunsBounded, TypeOK
<1>. QED  BY <1>1, ContentInvariant, PTL

-----------------------------------------------------------------------------
(* Edits. Whoever knows of an edit, be it the row or a PATCH that has read   *)
(* it, has the reader's content with it.                                    *)
EditsInv ==
    /\ entry.edited => entry.content = Edited
    /\ entry.gone => entry.content = Empty
    /\ \A r \in Patchers : patch[r].edited => patch[r].content = Edited

(* An automatic step leaves an edited entry alone, and starts no PATCH.     *)
AutomaticStep ==
    /\ entry.edited \/ entry.gone => entry' = entry
    /\ entry'.edited = entry.edited /\ entry'.gone = entry.gone
    /\ \A r \in Patchers : patch'[r] \in {patch[r], NoPatch}

(* All steps but those of readers are automatic.                            *)
LEMMA AutomaticSteps ==
  TypeOK /\ [Next]_vars =>
     \/ AutomaticStep \/ Delete
     \/ \E r \in Patchers : EditContent(r) \/ SetFlags(r) \/ WriteEntry(r)
<1> SUFFICES ASSUME TypeOK, [Next]_vars
             PROVE  \/ AutomaticStep \/ Delete
                    \/ \E r \in Patchers : EditContent(r) \/ SetFlags(r) \/ WriteEntry(r)
  OBVIOUS
<1>1. ASSUME NEW f \in Fetchers, GetPage(f) \/ QueueImages(f) PROVE AutomaticStep
  BY <1>1 DEF GetPage, QueueImages, AutomaticStep
<1>2. ASSUME NEW f \in Fetchers, SaveContent(f) \/ MarkFailed(f) PROVE AutomaticStep
  <2>1. /\ entry.edited \/ entry.gone => entry' = entry
        /\ entry'.edited = entry.edited /\ entry'.gone = entry.gone
    BY <1>2 DEF SaveContent, MarkFailed, Rewritten, Saved, Failed, TypeOK
  <2>. QED  BY <1>2, <2>1 DEF SaveContent, MarkFailed, AutomaticStep
<1>3. ASSUME NEW p \in Permits, UpdateContent(p) PROVE AutomaticStep
  <2>1. /\ entry.edited \/ entry.gone => entry' = entry
        /\ entry'.edited = entry.edited /\ entry'.gone = entry.gone
    BY <1>3 DEF UpdateContent, Rewritten, TypeOK
  <2>. QED  BY <1>3, <2>1 DEF UpdateContent, AutomaticStep
<1>4. ASSUME NEW p \in Permits,
             Dispatch(p) \/ UpdateFails(p) \/ MarkCompleted(p) \/ MarkJobFailed(p) \/ LostMark(p)
      PROVE  AutomaticStep
  BY <1>4 DEF Dispatch, UpdateFails, MarkCompleted, MarkJobFailed, LostMark, AutomaticStep
<1>5. ASSUME Claim PROVE AutomaticStep
  BY <1>5 DEF Claim, AutomaticStep
<1>6. ASSUME Crash PROVE AutomaticStep
  BY <1>6 DEF Crash, AutomaticStep
<1>7. CASE UNCHANGED vars
  BY <1>7 DEF vars, AutomaticStep
<1>. QED
  BY <1>1, <1>2, <1>3, <1>4, <1>5, <1>6, <1>7 DEF Next, FetchStep, ReaderStep, TaskStep

(* What a PATCH has read stays together: an edit and its flag.              *)
LEMMA ReadFacts ==
  ASSUME TypeOK, EditsInv, NEW r \in Patchers, EditContent(r) \/ SetFlags(r)
  PROVE  EditsInv' /\ entry' = entry
<1>1. PICK c, e : ReadEntry(r, c, e) /\ (e => c = Edited)
  BY DEF EditContent, SetFlags, EditsInv
<1>2. /\ entry' = entry
      /\ patch' = [patch EXCEPT ![r] = [pc |-> "read", content |-> c, edited |-> e]]
  BY <1>1 DEF ReadEntry
<1>. QED  BY <1>1, <1>2 DEF EditsInv, TypeOK

(* What a PATCH writes.                                                     *)
LEMMA WriteFacts ==
  ASSUME TypeOK, NEW r \in Patchers, WriteEntry(r)
  PROVE  /\ entry'.gone = entry.gone
         /\ entry.gone => entry' = entry
         /\ ~entry.gone => /\ entry'.content = patch[r].content
                           /\ entry'.edited = patch[r].edited
         /\ \A s \in Patchers : patch'[s] \in {patch[s], NoPatch}
  BY DEF WriteEntry, TypeOK

(* So no step parts an edit from its flag.                                  *)
LEMMA EditsNext == TypeOK /\ EditsInv /\ [Next]_vars => EditsInv'
<1> SUFFICES ASSUME TypeOK, EditsInv, [Next]_vars PROVE EditsInv'
  OBVIOUS
<1>a. ~NoPatch.edited
  BY DEF NoPatch
<1>1. CASE AutomaticStep
  BY <1>1, <1>a DEF AutomaticStep, EditsInv
<1>2. CASE Delete
  <2>1. entry'.content = Empty /\ ~entry'.edited /\ patch' = patch
    BY <1>2 DEF Delete
  <2>. QED  BY <2>1 DEF EditsInv
<1>3. ASSUME NEW r \in Patchers, WriteEntry(r) PROVE EditsInv'
  BY <1>3, <1>a, WriteFacts DEF EditsInv
<1>. QED  BY <1>1, <1>2, <1>3, ReadFacts, AutomaticSteps

(* The same, of all reachable states.                                       *)
LEMMA EditsInvariant == Spec => []EditsInv
<1>1. Init => EditsInv
  BY DEF Init, EditsInv, NoPatch
<1>. QED  BY <1>1, EditsNext, TypeCorrect, PTL DEF Spec

(* No fetch, failure mark or image job, however late, overwrites what a     *)
(* reader wrote, and no PATCH but one of flags that has read the row before *)
(* the edit: the guard on is_content_edited in every automatic UPDATE is    *)
(* enough, for any readers and any overlap of their requests.               *)
THEOREM EditKeptHolds == Spec => EditKept
<1> DEFINE Kept == \/ entry'.gone
                   \/ entry'.edited /\ entry'.content.by = "reader"
                   \/ \E r \in Patchers : TakesBack(r)
<1>1. ASSUME TypeOK, EditsInv, [Next]_vars, entry.edited PROVE Kept
  <2>a. Edited.by = "reader"
    BY DEF Edited
  <2>1. CASE entry' = entry
    BY <1>1, <2>1, <2>a DEF EditsInv
  <2>2. CASE Delete
    BY <2>2 DEF Delete
  <2>3. ASSUME NEW r \in Patchers, WriteEntry(r) PROVE Kept
    <3>1. CASE ~patch[r].edited
      BY <2>3, <3>1 DEF TakesBack
    <3>2. CASE patch[r].edited
      BY <1>1, <2>1, <2>3, <2>a, <3>2, WriteFacts DEF EditsInv
    <3>. QED  BY <3>1, <3>2
  <2>. QED  BY <1>1, <2>1, <2>2, <2>3, ReadFacts, AutomaticSteps DEF AutomaticStep
<1>2. TypeOK /\ EditsInv /\ [Next]_vars => [entry.edited => Kept]_entry
  BY <1>1
<1>. QED  BY <1>2, EditsInvariant, TypeCorrect, PTL DEF Spec, EditKept

-----------------------------------------------------------------------------
(* Lost jobs. A page is lost only once its fetch is over, and its job, if   *)
(* it has one, is left 'processing' in nobody's hands, for good.            *)
LostInv ==
    /\ \A n \in lost : n <= pages
    /\ \A f \in Fetchers : InFlight(f) => fetch[f].page \notin lost
    /\ \A j \in 1..Len(jobs) : jobs[j].page \in lost =>
          jobs[j].status = "processing" /\ j \notin Handed
    /\ \A j \in 1..Len(jobs) : jobs[j].status = "processing" =>
          j \in Handed \/ jobs[j].page \in lost

(* Pages of jobs, pointwise.                                                *)
LEMMA PagesOfFacts ==
  ASSUME TypeOK, PagesApart, NEW js
  PROVE  /\ \A j \in 1..Len(jobs) : jobs[j].page \in PagesOf(js) <=> j \in js
         /\ \A n \in PagesOf(js) : n \in 1..pages /\ n <= pages
         /\ \A f \in Fetchers : InFlight(f) => fetch[f].page \notin PagesOf(js)
<1>1. DOMAIN jobs = 1..Len(jobs)
  BY JobsFacts
<1>2. \A n \in PagesOf(js) : \E j \in 1..Len(jobs) : j \in js /\ n = jobs[j].page
  BY <1>1 DEF PagesOf
<1>3. \A j \in 1..Len(jobs) : jobs[j].page \in 1..pages
  <2>1. \A j \in 1..Len(jobs) : jobs[j].page \in Nat \ {0} /\ jobs[j].page <= pages
    BY JobsFacts, ConstantsAssumption DEF Job, PagesApart
  <2>. QED  BY <2>1 DEF TypeOK
<1>4. \A j \in 1..Len(jobs) : j \in js => jobs[j].page \in PagesOf(js)
  BY <1>1 DEF PagesOf
<1>5. \A n \in PagesOf(js) : n \in 1..pages /\ n <= pages
  BY <1>2, <1>3, ConstantsAssumption DEF TypeOK
<1>. QED  BY <1>2, <1>4, <1>5 DEF PagesApart

(* A step that keeps the hands, the rows and what is lost, and starts no    *)
(* fetch of a lost page, keeps LostInv.                                     *)
LEMMA LostStays ==
  ASSUME LostInv, TypeOK, TypeOK', jobs' = jobs, Handed' = Handed, lost' = lost,
         pages' >= pages,
         \A f \in Fetchers : InFlight(f)' =>
            \/ InFlight(f) /\ fetch'[f].page = fetch[f].page
            \/ fetch'[f].page > pages
  PROVE  LostInv'
<1>1. /\ pages \in Nat /\ pages' \in Nat /\ lost \subseteq Nat
      /\ \A f \in Fetchers : fetch'[f].page \in Nat
  BY ConstantsAssumption DEF TypeOK
<1>2. \A n \in lost' : n <= pages'
  BY <1>1 DEF LostInv
<1>3. \A f \in Fetchers : InFlight(f)' => fetch'[f].page \notin lost'
  BY <1>1 DEF LostInv
<1>. QED  BY <1>2, <1>3 DEF LostInv

(* Nobody has the row that was not there.                                   *)
LEMMA HandedFacts ==
  ASSUME ContentInv
  PROVE  /\ \A j : j \in Handed <=> claimed = j \/ \E p \in Permits : TaskJob(p) = j
         /\ ~entry.gone => \A j \in Handed : j <= Len(jobs)
         /\ \A j \in 1..Len(jobs) : j \in Handed => jobs[j].status = "processing"
         /\ Handed \subseteq Nat
<1>1. \A j : j \in Handed <=> claimed = j \/ \E p \in Permits : TaskJob(p) = j
  BY DEF Handed, TaskJob
<1>. QED  BY <1>1, HandType DEF ContentInv, HandsInv

(* Image jobs stay in hand or are lost, in whatever order fetches end,      *)
(* tasks mark their jobs and processes die.                                 *)
LEMMA LostNext ==
  ASSUME ContentInv, ContentInv', LostInv, [Next]_vars
  PROVE  LostInv'
<1>a. /\ TypeOK /\ TypeOK' /\ PagesApart /\ HandsInv /\ NoJob = 0 /\ pages \in Nat
      /\ Len(jobs) \in Nat /\ DOMAIN jobs = 1..Len(jobs)
  <2>1. TypeOK /\ TypeOK' /\ PagesApart /\ HandsInv
    BY DEF ContentInv
  <2>2. pages \in Nat
    BY <2>1, ConstantsAssumption DEF TypeOK
  <2>. QED  BY <2>1, <2>2, JobsFacts DEF NoJob
<1>1. ASSUME NEW f \in Fetchers, GetPage(f) PROVE LostInv'
  <2>1. /\ pages' = pages + 1 /\ jobs' = jobs /\ claimed' = claimed /\ task' = task
        /\ lost' = lost
        /\ fetch' = [fetch EXCEPT ![f] = [pc |-> "got", page |-> pages + 1]]
    BY <1>1 DEF GetPage
  <2>2. /\ fetch'[f].page = pages + 1
        /\ \A g \in Fetchers \ {f} : fetch'[g] = fetch[g]
    BY <2>1, <1>a DEF TypeOK
  <2>3. \A g \in Fetchers : InFlight(g)' =>
           \/ InFlight(g) /\ fetch'[g].page = fetch[g].page
           \/ fetch'[g].page > pages
    BY <2>2, <1>a DEF InFlight
  <2>. QED  BY <2>1, <2>3, <1>a, LostStays DEF Handed
<1>2. ASSUME NEW f \in Fetchers, SaveContent(f) \/ MarkFailed(f) PROVE LostInv'
  <2>1. /\ pages' = pages /\ jobs' = jobs /\ claimed' = claimed /\ task' = task
        /\ lost' = lost
    BY <1>2 DEF SaveContent, MarkFailed
  <2>2. \A g \in Fetchers : InFlight(g)' => InFlight(g) /\ fetch'[g].page = fetch[g].page
    BY <1>2, <1>a DEF SaveContent, MarkFailed, InFlight, TypeOK
  <2>. QED  BY <2>1, <2>2, <1>a, LostStays DEF Handed
<1>3. ASSUME NEW f \in Fetchers, QueueImages(f) PROVE LostInv'
  <2>1. /\ pages' = pages /\ claimed' = claimed /\ task' = task /\ InFlight(f)
        /\ fetch' = [fetch EXCEPT ![f] = NoFetch]
    BY <1>3 DEF QueueImages, InFlight
  <2>2. \A g \in Fetchers : InFlight(g)' =>
           g # f /\ InFlight(g) /\ fetch'[g].page = fetch[g].page
    BY <2>1, <1>a DEF InFlight, NoFetch, TypeOK
  <2>3. Handed' = Handed
    BY <2>1 DEF Handed
  <2>4. CASE jobs' = jobs /\ lost' = lost
    BY <2>1, <2>2, <2>3, <2>4, <1>a, LostStays
  <2>5. CASE jobs' = jobs /\ lost' = lost \cup {fetch[f].page}
    <3>1. /\ fetch[f].page \in 1..pages
          /\ \A g \in Fetchers \ {f} : InFlight(g) => fetch[g].page # fetch[f].page
          /\ \A j \in 1..Len(jobs) : jobs[j].page # fetch[f].page
      BY <2>1, <1>a DEF PagesApart
    <3>. QED  BY <2>1, <2>2, <2>3, <2>5, <3>1, <1>a DEF LostInv
  <2>6. CASE jobs' # jobs
    <3> DEFINE n == Len(jobs) + 1
    <3>1. /\ Len(jobs') = n /\ ~entry.gone
          /\ \A j \in 1..Len(jobs) : jobs'[j] = jobs[j]
      BY <1>3, <2>6, CreatedRow
    <3>2. jobs'[n].page = fetch[f].page /\ jobs'[n].status = "pending"
      <4>1. jobs'[n] = [page |-> fetch[f].page, status |-> "pending", retries |-> 0]
        BY <1>3, <2>6, CreatedRow
      <4>. QED  BY <4>1
    <3>3. \A j \in 1..n : j \in 1..Len(jobs) \/ j = n
      BY <1>a
    <3>4. fetch[f].page \notin lost
      BY <2>1 DEF LostInv
    <3>5. lost' = lost
      BY <1>3, <2>6 DEF QueueImages
    <3> HIDE DEF n
    <3>. QED  BY <2>1, <2>2, <2>3, <3>1, <3>2, <3>3, <3>4, <3>5 DEF LostInv
  <2>7. \/ jobs' = jobs /\ lost' = lost \cup {fetch[f].page}
        \/ lost' = lost
    BY <1>3 DEF QueueImages
  <2>. QED  BY <2>4, <2>5, <2>6, <2>7
<1>4. ASSUME NEW r \in Patchers, EditContent(r) \/ SetFlags(r) \/ WriteEntry(r) PROVE LostInv'
  <2>1. /\ pages' = pages /\ jobs' = jobs /\ claimed' = claimed /\ task' = task
        /\ lost' = lost /\ fetch' = fetch
    BY <1>4 DEF EditContent, SetFlags, ReadEntry, WriteEntry
  <2>. QED  BY <2>1, <1>a, LostStays DEF Handed, InFlight
<1>5. CASE Delete
  <2>1. jobs' = <<>> /\ pages' = pages /\ lost' = lost /\ fetch' = fetch
    BY <1>5 DEF Delete
  <2>2. Len(jobs') = 0
    BY <2>1
  <2>. QED  BY <2>1, <2>2 DEF LostInv, InFlight
<1>6. CASE Claim
  <2>1. PICK j \in Claimable :
          Mark(j, [jobs[j] EXCEPT !.status = "processing"]) /\ claimed' = j
    BY <1>6 DEF Claim
  <2>2. /\ claimed = NoJob /\ task' = task /\ lost' = lost /\ fetch' = fetch
        /\ pages' = pages
    BY <1>6 DEF Claim
  <2>3. j \in 1..Len(jobs) /\ jobs[j].status = "pending" /\ jobs[j] \in Job
    BY <2>1, <1>a, JobsFacts DEF Claimable
  <2>4. /\ Len(jobs') = Len(jobs)
        /\ \A k \in 1..Len(jobs) : k # j => jobs'[k] = jobs[k]
        /\ jobs'[j].status = "processing" /\ jobs'[j].page = jobs[j].page
    <3>1. /\ [jobs[j] EXCEPT !.status = "processing"] \in Job
          /\ [jobs[j] EXCEPT !.status = "processing"].status = "processing"
          /\ [jobs[j] EXCEPT !.status = "processing"].page = jobs[j].page
      BY <2>3, StatusFacts
    <3>. QED  BY <2>1, <2>3, <3>1, <1>a, MarkFacts
  <2>5. \A k \in 1..Len(jobs) : k \in Handed' <=> k = j \/ k \in Handed
    BY <2>1, <2>2, <1>a DEF Handed
  <2>6. jobs[j].page \notin lost
    BY <2>3 DEF LostInv
  <2>7. \A k \in 1..Len(jobs') : jobs'[k].page \in lost' =>
           jobs'[k].status = "processing" /\ k \notin Handed'
    BY <2>2, <2>4, <2>5, <2>6 DEF LostInv
  <2>8. \A k \in 1..Len(jobs') : jobs'[k].status = "processing" =>
           k \in Handed' \/ jobs'[k].page \in lost'
    BY <2>2, <2>4, <2>5 DEF LostInv
  <2>. QED  BY <2>2, <2>7, <2>8 DEF LostInv, InFlight
<1>7. ASSUME NEW p \in Permits, Dispatch(p) PROVE LostInv'
  <2>1. /\ pages' = pages /\ jobs' = jobs /\ lost' = lost /\ fetch' = fetch
    BY <1>7 DEF Dispatch
  <2>2. \A j \in 1..Len(jobs) : j \in Handed' <=> j \in Handed
    BY <1>7, <1>a, DispatchHands DEF Handed, TaskJob
  <2>. QED  BY <2>1, <2>2 DEF LostInv, InFlight
<1>8. ASSUME NEW p \in Permits, UpdateContent(p) \/ UpdateFails(p) PROVE LostInv'
  <2>1. /\ pages' = pages /\ jobs' = jobs /\ lost' = lost /\ fetch' = fetch
        /\ claimed' = claimed
    BY <1>8 DEF UpdateContent, UpdateFails
  <2>2. \A q \in Permits : task'[q].job = task[q].job
    <3>1. task \in [Permits -> [pc : {"idle", "working", "updated", "failing"},
                                job : 0..MaxPages, page : 0..MaxPages]]
      BY <1>a DEF TypeOK
    <3>2. \/ task' = [task EXCEPT ![p].pc = "updated"]
          \/ task' = [task EXCEPT ![p].pc = "failing"]
      BY <1>8 DEF UpdateContent, UpdateFails
    <3>. QED  BY <3>1, <3>2
  <2>. QED  BY <2>1, <2>2, <1>a, LostStays DEF Handed, InFlight
<1>9. ASSUME NEW p \in Permits, MarkCompleted(p) \/ MarkJobFailed(p) PROVE LostInv'
  <2> DEFINE k == task[p].job
  <2>1. /\ Len(jobs') = Len(jobs) /\ fetch' = fetch /\ pages' = pages
        /\ \A j \in 1..Len(jobs) : j # k => jobs'[j] = jobs[j]
    BY <1>9, MarkRow
  <2>2. \A j \in 1..Len(jobs) : j = k =>
          jobs'[j].page = jobs[j].page /\ jobs'[j].status # "processing"
    BY <1>9, MarkRow
  <2>3. lost' = lost
    BY <1>9 DEF MarkCompleted, MarkJobFailed
  <2>4. k \in Handed
    BY DEF Handed
  <2>5. \A j \in 1..Len(jobs) : j \in Handed' <=> j \in Handed /\ j # k
    <3>1. /\ TaskJob(p) = k /\ TaskJob(p)' = NoJob /\ claimed' = claimed
          /\ \A q \in Permits \ {p} : TaskJob(q)' = TaskJob(q)
      BY <1>9, <1>a, MarkHands
    <3>2. k # NoJob => claimed # k /\ \A q \in Permits : TaskJob(q) = k => p = q
      BY <1>a DEF HandsInv, OneHandPerJob, TaskJob
    <3>. QED  BY <3>1, <3>2, <1>a DEF Handed, TaskJob
  <2> HIDE DEF k
  <2>6. \A j \in 1..Len(jobs') : jobs'[j].page \in lost' =>
           jobs'[j].status = "processing" /\ j \notin Handed'
    BY <2>1, <2>2, <2>3, <2>4, <2>5 DEF LostInv
  <2>7. \A j \in 1..Len(jobs') : jobs'[j].status = "processing" =>
           j \in Handed' \/ jobs'[j].page \in lost'
    BY <2>1, <2>2, <2>3, <2>5 DEF LostInv
  <2>. QED  BY <2>1, <2>3, <2>6, <2>7 DEF LostInv, InFlight
<1>10. ASSUME NEW p \in Permits, LostMark(p) PROVE LostInv'
  <2> DEFINE k == task[p].job
  <2>1. /\ jobs' = jobs /\ fetch' = fetch /\ pages' = pages /\ claimed' = claimed
        /\ lost' = lost \cup PagesOf({k}) /\ task' = [task EXCEPT ![p] = NoTask]
    BY <1>10 DEF LostMark
  <2>2. /\ \A j \in 1..Len(jobs) : jobs[j].page \in PagesOf({k}) <=> j = k
        /\ \A n \in PagesOf({k}) : n \in 1..pages
        /\ \A f \in Fetchers : InFlight(f) => fetch[f].page \notin PagesOf({k})
    <3> HIDE DEF k
    <3>. QED  BY <1>a, PagesOfFacts
  <2>3. task'[p].job = NoJob /\ \A q \in Permits \ {p} : task'[q] = task[q]
    BY <2>1, <1>a DEF NoTask, TypeOK
  <2>4. k # NoJob => claimed # k /\ \A q \in Permits : task[q].job = k => p = q
    BY <1>a DEF HandsInv, OneHandPerJob
  <2>5. \A j \in 1..Len(jobs) : j \in Handed' <=> j \in Handed /\ j # k
    BY <2>1, <2>3, <2>4, <1>a DEF Handed
  <2>6. \A j \in 1..Len(jobs) : j = k => jobs[j].status = "processing"
    BY <1>a DEF HandsInv, TaskJob
  <2> HIDE DEF k
  <2>7. \A n \in lost' : n <= pages'
    <3>1. \A n \in lost : n <= pages
      BY DEF LostInv
    <3>2. \A n \in PagesOf({k}) : n <= pages
      BY <1>a, PagesOfFacts
    <3>. QED  BY <2>1, <3>1, <3>2
  <2>8. \A f \in Fetchers : InFlight(f)' => fetch'[f].page \notin lost'
    BY <2>1, <2>2 DEF LostInv, InFlight
  <2>9. \A j \in 1..Len(jobs') : jobs'[j].page \in lost' =>
           jobs'[j].status = "processing" /\ j \notin Handed'
    BY <2>1, <2>2, <2>5, <2>6 DEF LostInv
  <2>10. \A j \in 1..Len(jobs') : jobs'[j].status = "processing" =>
           j \in Handed' \/ jobs'[j].page \in lost'
    BY <2>1, <2>2, <2>5 DEF LostInv
  <2>. QED  BY <2>7, <2>8, <2>9, <2>10 DEF LostInv
<1>11. CASE Crash
  <2> DEFINE unqueued == {fetch[f].page : f \in {g \in Fetchers : fetch[g].pc = "saved"}}
  <2>1. /\ jobs' = jobs /\ pages' = pages /\ lost' = lost \cup unqueued \cup PagesOf(Handed)
        /\ claimed' = NoJob /\ task' = [p \in Permits |-> NoTask]
        /\ fetch' = [f \in Fetchers |-> NoFetch]
    BY <1>11 DEF Crash
  <2>2. /\ \A f \in Fetchers : ~InFlight(f)'
        /\ \A j \in 1..Len(jobs) : j \notin Handed'
    BY <2>1, <1>a DEF NoFetch, NoTask, InFlight, Handed
  <2>3. /\ \A j \in 1..Len(jobs) : jobs[j].page \in PagesOf(Handed) <=> j \in Handed
        /\ \A n \in PagesOf(Handed) : n <= pages
    <3>1. /\ \A j \in 1..Len(jobs) : jobs[j].page \in PagesOf(Handed) <=> j \in Handed
          /\ \A n \in PagesOf(Handed) : n \in 1..pages
      BY <1>a, PagesOfFacts
    <3>. QED  BY <3>1, <1>a
  <2>4. \A n \in unqueued : n <= pages /\ \A j \in 1..Len(jobs) : jobs[j].page # n
    <3>1. \A f \in Fetchers : fetch[f].pc = "saved" =>
            /\ fetch[f].page \in 1..pages
            /\ \A j \in 1..Len(jobs) : jobs[j].page # fetch[f].page
      BY <1>a DEF PagesApart, InFlight
    <3>. QED  BY <3>1, <1>a
  <2>5. \A j \in 1..Len(jobs) : j \in Handed => jobs[j].status = "processing"
    BY HandedFacts
  <2> HIDE DEF unqueued
  <2>6. \A n \in lost' : n <= pages'
    BY <2>1, <2>3, <2>4 DEF LostInv
  <2>. QED  BY <2>1, <2>2, <2>3, <2>4, <2>5, <2>6 DEF LostInv
<1>12. CASE UNCHANGED vars
  BY <1>12, <1>a, LostStays DEF vars, Handed, InFlight
<1>. QED
  BY <1>1, <1>2, <1>3, <1>4, <1>5, <1>6, <1>7, <1>8, <1>9, <1>10, <1>11, <1>12 DEF
     Next, FetchStep, ReaderStep, TaskStep

(* The same, of all reachable states.                                       *)
LEMMA LostInvariant == Spec => []LostInv
<1>1. Init => LostInv
  <2>1. Init => lost = {} /\ Len(jobs) = 0
    BY EmptySeq DEF Init
  <2>. QED  BY <2>1 DEF LostInv
<1>. QED  BY <1>1, LostNext, ContentInvariant, PTL DEF Spec

(* A row is 'processing' exactly while the loop or a task has it, or if its *)
(* job was lost, when a process died or a mark failed: those are the rows   *)
(* that claim_pending never looks at.                                       *)
THEOREM ProcessingIsHeldHolds == Spec => []ProcessingIsHeld
<1>1. ContentInv /\ LostInv => ProcessingIsHeld
  BY JobsFacts, HandedFacts DEF ContentInv, LostInv, ProcessingIsHeld
<1>. QED  BY <1>1, LostInvariant, ContentInvariant, PTL

-----------------------------------------------------------------------------
(* Images. Where page n is shown with remote images, a fetch has still to   *)
(* queue its image job, or that job has still to replace them.              *)
InWork(n) ==
    \/ \E f \in Fetchers : fetch[f] = [pc |-> "saved", page |-> n]
    \/ \E j \in 1..Len(jobs) :
          /\ jobs[j].page = n /\ jobs[j].status # "completed"
          /\ \A p \in Permits : TaskJob(p) = j => task[p].pc # "updated"

Excused(n) == InWork(n) \/ n \in lost \/ n \in reverted

LocalInv == entry.content.images = "remote" => Excused(entry.content.page)

(* A step that neither ends a fetch nor touches a row or a task.            *)
LEMMA WorkStays ==
  ASSUME fetch' = fetch, jobs' = jobs, task' = task,
         lost \subseteq lost', reverted \subseteq reverted',
         NEW n, Excused(n)
  PROVE  Excused(n)'
  BY DEF Excused, InWork, TaskJob

(* Lost pages, and those that were written back, stay so.                   *)
LEMMA ExcusesStay == [Next]_vars => lost \subseteq lost' /\ reverted \subseteq reverted'
  BY DEF Next, FetchStep, ReaderStep, TaskStep, GetPage, SaveContent, QueueImages,
     MarkFailed, EditContent, SetFlags, ReadEntry, WriteEntry, Delete, Claim, Dispatch,
     UpdateContent, UpdateFails, MarkCompleted, MarkJobFailed, LostMark, Crash, vars

(* Whoever is to replace the remote images of a page stays so, or hands     *)
(* that on, or the page is lost, until the images are replaced.             *)
LEMMA ExcusedNext ==
  ASSUME ContentInv, ContentInv', [Next]_vars, ~Delete,
         \A p \in Permits : ~UpdateContent(p), NEW n, Excused(n)
  PROVE  Excused(n)'
<1>a. /\ TypeOK /\ HandsInv /\ PagesApart /\ NoJob = 0
      /\ Len(jobs) \in Nat /\ DOMAIN jobs = 1..Len(jobs)
      /\ lost \subseteq lost' /\ reverted \subseteq reverted'
  BY JobsFacts, ExcusesStay DEF ContentInv, NoJob
<1>0. CASE n \in lost' \/ n \in reverted'
  BY <1>0 DEF Excused
<1> SUFFICES ASSUME n \notin lost', n \notin reverted' PROVE InWork(n)'
  BY <1>0 DEF Excused
<1>b. InWork(n)
  BY <1>a DEF Excused
<1>1. ASSUME NEW f \in Fetchers, GetPage(f) \/ SaveContent(f) PROVE InWork(n)'
  <2>1. jobs' = jobs /\ task' = task
    BY <1>1 DEF GetPage, SaveContent
  <2>2. \A g \in Fetchers : fetch[g].pc = "saved" => fetch'[g] = fetch[g]
    BY <1>1, <1>a DEF GetPage, SaveContent, TypeOK
  <2>. QED  BY <2>1, <2>2, <1>b DEF InWork, TaskJob
<1>2. ASSUME NEW f \in Fetchers, QueueImages(f) PROVE InWork(n)'
  <2>1. /\ task' = task /\ fetch[f].pc = "saved"
        /\ \A g \in Fetchers \ {f} : fetch'[g] = fetch[g]
    BY <1>2, <1>a DEF QueueImages, TypeOK
  <2>2. CASE jobs' = jobs
    <3> DEFINE row == [page |-> fetch[f].page, status |-> "pending", retries |-> 0]
    <3>0. row \in Job /\ jobs \in Seq(Job)
      <4>1. fetch[f].page \in 1..MaxPages
        <5>1. fetch[f].page \in 1..pages /\ pages \in 0..MaxPages /\ MaxPages \in Nat
          BY <2>1, <1>a, ConstantsAssumption DEF PagesApart, InFlight, TypeOK
        <5>. QED  BY <5>1
      <4>. QED  BY <4>1, <1>a, JobsFacts, ConstantsAssumption DEF Job
    <3>1. fetch[f].page \in lost'
      <4>1. jobs' = Append(jobs, row) \/ fetch[f].page \in lost'
        BY <1>2 DEF QueueImages
      <4> HIDE DEF row
      <4>2. Len(Append(jobs, row)) = Len(jobs) + 1
        BY <3>0, AppendProperties
      <4>3. jobs' # Append(jobs, row)
        <5> SUFFICES ASSUME jobs' = Append(jobs, row) PROVE FALSE
          OBVIOUS
        <5>1. Len(jobs') = Len(jobs) + 1
          BY <4>2
        <5>2. Len(jobs') = Len(jobs)
          BY <2>2
        <5>. QED  BY <5>1, <5>2, <1>a
      <4>. QED  BY <4>1, <4>3
    <3>2. fetch[f].page # n
      BY <3>1
    <3>. QED  BY <2>1, <2>2, <3>2, <1>b DEF InWork, TaskJob
  <2>3. CASE jobs' # jobs
    <3> DEFINE k == Len(jobs) + 1
    <3>1. /\ Len(jobs') = k /\ ~entry.gone
          /\ \A j \in 1..Len(jobs) : jobs'[j] = jobs[j]
      BY <1>2, <2>3, CreatedRow
    <3>2. jobs'[k].page = fetch[f].page /\ jobs'[k].status = "pending"
      <4>1. jobs'[k] = [page |-> fetch[f].page, status |-> "pending", retries |-> 0]
        BY <1>2, <2>3, CreatedRow
      <4>. QED  BY <4>1
    <3>3. \A p \in Permits : TaskJob(p)' = TaskJob(p) /\ TaskJob(p) # k
      <4>1. \A p \in Permits : TaskJob(p) <= Len(jobs) /\ TaskJob(p) \in Nat
        BY <3>1, <1>a, HandType DEF HandsInv
      <4>. QED  BY <2>1, <4>1, <1>a DEF TaskJob
    <3>4. k \in 1..k /\ \A j \in 1..Len(jobs) : j \in 1..k
      BY <1>a
    <3> HIDE DEF k
    <3>5. CASE fetch[f] = [pc |-> "saved", page |-> n]
      <4>1. fetch[f].page = n
        BY <3>5
      <4>. QED  BY <3>1, <3>2, <3>3, <3>4, <4>1 DEF InWork
    <3>6. CASE fetch[f] # [pc |-> "saved", page |-> n]
      BY <2>1, <3>1, <3>3, <3>4, <3>6, <1>b DEF InWork
    <3>. QED  BY <3>5, <3>6
  <2>. QED  BY <2>2, <2>3
<1>3. CASE fetch' = fetch /\ jobs' = jobs /\ task' = task
  BY <1>3, <1>b DEF InWork, TaskJob
<1>4. CASE Claim
  <2>1. PICK k \in Claimable : Mark(k, [jobs[k] EXCEPT !.status = "processing"])
    BY <1>4 DEF Claim
  <2>2. /\ [jobs[k] EXCEPT !.status = "processing"] \in Job
        /\ [jobs[k] EXCEPT !.status = "processing"].page = jobs[k].page
        /\ [jobs[k] EXCEPT !.status = "processing"].status = "processing"
    BY <2>1, <1>a, JobsFacts, StatusFacts DEF Claimable
  <2>3. Len(jobs') = Len(jobs)
        /\ \A j \in 1..Len(jobs) : /\ jobs'[j].page = jobs[j].page
                                   /\ jobs[j].status # "completed" => jobs'[j].status # "completed"
    BY <2>1, <2>2, <1>a, MarkFacts
  <2>4. fetch' = fetch /\ task' = task
    BY <1>4 DEF Claim
  <2>. QED  BY <2>3, <2>4, <1>b DEF InWork, TaskJob
<1>5. ASSUME NEW p \in Permits, Dispatch(p) PROVE InWork(n)'
  <2>1. jobs' = jobs /\ fetch' = fetch
    BY <1>5 DEF Dispatch
  <2>2. /\ task'[p].pc = "working"
        /\ \A q \in Permits \ {p} : task'[q] = task[q]
    BY <1>5, <1>a, DispatchHands
  <2>. QED  BY <2>1, <2>2, <1>b DEF InWork, TaskJob
<1>6. ASSUME NEW p \in Permits, UpdateFails(p) PROVE InWork(n)'
  <2>1. jobs' = jobs /\ fetch' = fetch
    BY <1>6 DEF UpdateFails
  <2>2. \A q \in Permits : /\ task'[q].job = task[q].job
                           /\ task'[q].pc = "updated" => task[q].pc = "updated"
    BY <1>6, <1>a DEF UpdateFails, TypeOK
  <2>. QED  BY <2>1, <2>2, <1>b DEF InWork, TaskJob
<1>7. ASSUME NEW p \in Permits, MarkCompleted(p) \/ MarkJobFailed(p) PROVE InWork(n)'
  <2> DEFINE k == task[p].job
  <2>1. /\ Len(jobs') = Len(jobs) /\ fetch' = fetch
        /\ \A j \in 1..Len(jobs) : j # k => jobs'[j] = jobs[j]
        /\ \A j \in 1..Len(jobs) : j = k => jobs'[j].page = jobs[j].page
    BY <1>7, MarkRow
  <2>2. /\ TaskJob(p) = k /\ TaskJob(p)' = NoJob
        /\ \A q \in Permits \ {p} : TaskJob(q)' = TaskJob(q) /\ task'[q] = task[q]
    BY <1>7, <1>a, MarkHands
  <2>3. \/ task[p].pc = "updated"
        \/ \A j \in 1..Len(jobs) : j = k => jobs'[j].status # "completed"
    <3>1. ASSUME MarkJobFailed(p), NEW j \in 1..Len(jobs), j = k
          PROVE  jobs'[j].status # "completed"
      <4>1. jobs[j].status = "processing" /\ jobs[j].retries <= MaxRetries
        BY <3>1, <2>2, <1>a DEF HandsInv, RunsInv, ContentInv
      <4>2. /\ Retried(jobs[j]) \in Job
            /\ Retried(jobs[j]).status \in {"pending", "failed"}
        BY <4>1, <1>a, JobsFacts, RetriedFacts
      <4>3. Mark(j, Retried(jobs[j]))
        BY <3>1 DEF MarkJobFailed
      <4>. QED  BY <4>2, <4>3, <1>a, MarkFacts
    <3>. QED  BY <1>7, <3>1 DEF MarkCompleted
  <2>4. CASE \E f \in Fetchers : fetch[f] = [pc |-> "saved", page |-> n]
    BY <2>1, <2>4 DEF InWork
  <2>5. ASSUME NEW j \in 1..Len(jobs), jobs[j].page = n, jobs[j].status # "completed",
               \A q \in Permits : TaskJob(q) = j => task[q].pc # "updated"
        PROVE  InWork(n)'
    <3>1. jobs'[j].page = n /\ jobs'[j].status # "completed"
      BY <2>1, <2>2, <2>3, <2>5
    <3>2. \A q \in Permits : TaskJob(q)' = j => task'[q].pc # "updated"
      BY <2>2, <2>5, <1>a
    <3>. QED  BY <2>1, <3>1, <3>2 DEF InWork
  <2>. QED  BY <2>4, <2>5, <1>b DEF InWork
<1>8. ASSUME NEW p \in Permits, LostMark(p) PROVE InWork(n)'
  <2>1. jobs' = jobs /\ fetch' = fetch /\ task' = [task EXCEPT ![p] = NoTask]
    BY <1>8 DEF LostMark
  <2>2. task'[p].pc = "idle" /\ \A q \in Permits \ {p} : task'[q] = task[q]
    BY <2>1, <1>a DEF NoTask, TypeOK
  <2>. QED  BY <2>1, <2>2, <1>b DEF InWork, TaskJob
<1>9. CASE Crash
  <2>1. /\ jobs' = jobs /\ \A p \in Permits : task'[p].pc = "idle"
        /\ \A f \in Fetchers : fetch[f].pc = "saved" => fetch[f].page \in lost'
    BY <1>9 DEF Crash, NoTask
  <2>2. \A f \in Fetchers : fetch[f] # [pc |-> "saved", page |-> n]
    BY <2>1
  <2>. QED  BY <2>1, <2>2, <1>b DEF InWork
<1>. QED
  BY <1>1, <1>2, <1>3, <1>4, <1>5, <1>6, <1>7, <1>8, <1>9 DEF Next, FetchStep, ReaderStep,
     TaskStep, MarkFailed, EditContent, SetFlags, ReadEntry, WriteEntry, vars

(* Remote images are a save's, a PATCH's, or were there before.             *)
LEMMA RemoteSteps ==
  ASSUME TypeOK, EditsInv, [Next]_vars, entry'.content.images = "remote"
  PROVE  \/ \E f \in Fetchers : SaveContent(f) /\ entry'.content = Fetched(fetch[f].page)
         \/ entry'.content.page \in reverted'
         \/ /\ entry'.content = entry.content
            /\ ~Delete /\ \A p \in Permits : ~UpdateContent(p)
<1>a. /\ Empty.images = "none" /\ Edited.images = "none"
      /\ \A m, images : Processed(m, images).images = images
  BY DEF Empty, Edited, Processed, Fetched
<1>1. ~Delete
  BY <1>a DEF Delete
<1>2. ASSUME NEW p \in Permits, UpdateContent(p) PROVE FALSE
  <2>1. PICK images \in {"local", "some_local"} :
          entry' = Rewritten([entry EXCEPT !.content = Processed(task[p].page, images)])
    BY <1>2 DEF UpdateContent
  <2>2. \/ entry' = entry /\ (entry.edited \/ entry.gone)
        \/ entry'.content = Processed(task[p].page, images)
    BY <2>1 DEF Rewritten, TypeOK
  <2>. QED  BY <2>2, <1>a DEF EditsInv
<1>3. ASSUME NEW f \in Fetchers, SaveContent(f)
      PROVE  \/ entry'.content = entry.content
             \/ entry'.content = Fetched(fetch[f].page)
  BY <1>3 DEF SaveContent, Rewritten, Saved, TypeOK
<1>4. ASSUME NEW f \in Fetchers, MarkFailed(f) PROVE entry'.content = entry.content
  BY <1>4, <1>a DEF MarkFailed, Rewritten, Failed, TypeOK
<1>5. ASSUME NEW r \in Patchers, WriteEntry(r)
      PROVE  entry'.content = entry.content \/ entry'.content.page \in reverted'
  <2>1. entry.gone => entry' = entry
    BY <1>5 DEF WriteEntry
  <2>2. ~entry.gone => entry'.content = patch[r].content
    BY <1>5, WriteFacts
  <2>. QED  BY <1>5, <2>1, <2>2 DEF WriteEntry
<1>6. CASE entry' = entry
  BY <1>6, <1>1, <1>2
<1>. QED
  BY <1>1, <1>2, <1>3, <1>4, <1>5, <1>6 DEF Next, FetchStep, ReaderStep, TaskStep,
     GetPage, QueueImages, EditContent, SetFlags, ReadEntry, Claim, Dispatch, UpdateFails,
     MarkCompleted, MarkJobFailed, LostMark, Crash, vars

(* Remote images have somebody to replace them, or a named excuse, in all   *)
(* reachable states.                                                        *)
THEOREM LocalInvariant == Spec => []LocalInv
<1>1. Init => LocalInv
  BY DEF Init, LocalInv, Empty
<1>2. ASSUME ContentInv, ContentInv', EditsInv, LocalInv, [Next]_vars PROVE LocalInv'
  <2> SUFFICES ASSUME NEW n, n = entry'.content.page, entry'.content.images = "remote"
               PROVE  Excused(n)'
    BY DEF LocalInv
  <2>a. TypeOK
    BY <1>2 DEF ContentInv
  <2>1. ASSUME NEW f \in Fetchers, SaveContent(f), entry'.content = Fetched(fetch[f].page)
        PROVE  Excused(n)'
    <3>1. fetch[f] \in [pc : {"idle", "got", "saved"}, page : 0..MaxPages]
      BY <2>a DEF TypeOK
    <3>2. fetch'[f] = [fetch[f] EXCEPT !.pc = "saved"]
      BY <2>1, <2>a DEF SaveContent, TypeOK
    <3>3. fetch'[f] = [pc |-> "saved", page |-> fetch[f].page]
      BY <3>1, <3>2
    <3>4. n = fetch[f].page
      BY <2>1 DEF Fetched
    <3>. QED  BY <3>3, <3>4 DEF Excused, InWork
  <2>2. CASE n \in reverted'
    BY <2>2 DEF Excused
  <2>3. CASE /\ entry'.content = entry.content
             /\ ~Delete /\ \A p \in Permits : ~UpdateContent(p)
    <3>1. Excused(n)
      BY <1>2, <2>3 DEF LocalInv
    <3>. QED  BY <1>2, <2>3, <3>1, ExcusedNext
  <2>. QED  BY <1>2, <2>a, <2>1, <2>2, <2>3, RemoteSteps
<1>. QED  BY <1>1, <1>2, ContentInvariant, EditsInvariant, PTL DEF Spec

(* Once its image job is done no page is shown as it was before it, however *)
(* saves, image jobs and PATCH requests interleave and processes die: where *)
(* a page has remote images only, its job is still to come, or the page is  *)
(* lost, or a PATCH of flags wrote it back.                                 *)
THEOREM SettledIsLocalHolds == Spec => []SettledIsLocal
<1>1. ContentInv /\ LocalInv => SettledIsLocal
  BY JobsFacts DEF ContentInv, LocalInv, Excused, InWork, SettledIsLocal, Awaited
<1>. QED  BY <1>1, ContentInvariant, LocalInvariant, PTL
=============================================================================
