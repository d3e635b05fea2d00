# A verification project for lettura

lettura is a self-hosted read-later server: readers save URLs, workers fetch
the pages and extract their text, images are copied to local storage, and the
result is searched, tagged, annotated, published and backed up. This directory
holds TLA+ modules that model the parts of it in which several actors write the
same rows, the TLC configurations that check them on small instances, and
theorems about them that TLAPS checks for every instance: 30 modules, 12 runs
and 51 theorems worth knowing of. Every invariant and every action property that a
run checks is also stated by a theorem; liveness is checked by TLC only.

Paths below are relative to `src/` of the repository, so `src/tasks/fetch_worker.rs`
is the server's Rust module and `docs/specs/...` a design document.

    tlc -workers 2 -config FetchQueueSafe.cfg MCFetchQueue.tla    # a run
    tlapm FetchQueueProofs.tla                                    # the proofs
    tlapm EntryContentProofs.tla
    tlapm AccountsProofs.tla
    tlapm RenderProofs.tla
    tlapm LibraryProofs.tla
    tlapm TagsProofs.tla
    tlapm ReadersProofs.tla
    tlapm PagesProofs.tla

`PROJECT.json` lists the components, the runs, the lines every definition
models, for every checked property a faulty variant of the code that breaks it
(the `Bad...` operators), the hazards of the code, and the findings.

## 1. Inventory

**Fetch queue** (`src/models/fetch_job.rs`, `src/tasks/fetch_worker.rs`,
`src/tasks/fetcher.rs`, `src/api/fetch_jobs.rs`, `migrations/021`). State: the
table `fetch_jobs` (status, priority, attempts, run_after, lease, refetch flag;
a partial unique index allows one active row per entry) and, in each worker, a
snapshot of the row it leased. Operations: enqueue (insert, or fold into the
active row), dequeue, renew, complete, fail, release, the administrator's
delete, retry and retry_all_dead, the hourly purge. Hard: workers of several
processes interleave between any two statements; leases expire under a live
worker; crashes, panics, dropped results. Correct when no accepted request is
forgotten, no two workers fetch one entry, every job ends, attempts are counted
right and a job that died is visible on its entry.

**Fetch pipeline** (`src/fetch/pipeline.rs`). Fetches a page, falls back to
rendering it, extracts, saves, indexes, tags; each failing step is logged or
classified as permanent or transient. State: none of its own; it writes
`entries`, `image_process_jobs`, the index and the tags. Correct when what it
reports is what it did.

**Entries and their content** (`src/models/entry.rs`, `src/api/entries.rs`). State:
the row of `entries`. Written by saves, failure marks, image jobs, PATCH
requests, bulk operations and imports. Hard: reads followed by writes of the
whole row. Correct when a reader's edit survives and content, text and flags
belong together.

**Image processing** (`src/tasks/image_processor.rs`,
`src/models/image_process_job.rs`, `migrations/016`). State: the table
`image_process_jobs`, a semaphore of four permits, detached tasks. Operations:
create, claim, mark completed, mark failed with retries. Hard: tasks of one
entry end in any order, next to newer fetches; the process dies. Correct when a
job is in one hand, is retried boundedly, ends, and no page is left as it was
before its image job.

**Search index** (`src/search.rs`, `src/main.rs`, `src/api/admin.rs`). A writer
behind a mutex, buffered until a commit every few seconds; upsert, delete, clear,
rebuild. Hard: an upsert after a deletion or after a newer text, a crash before the
commit, a request that is dropped before it has indexed, a restore under running
workers. Correct when it comes to have the latest text of every entry.

**Caches** (`src/cache/mod.rs`). Per-user lists read through and invalidated
after writes. Hard: an insert of a list that was read before the invalidation.
Correct when a wrong list has somebody who will invalidate it.

**Tags and rules** (`src/models/tag.rs`, `src/models/tagging_rule.rs`). Find or
create, link, rename, delete; rules evaluated on every fetch. Hard: SELECT and
INSERT in two statements, loops that pass over errors. Correct when what was asked
to be tagged or untagged is.

**Lists and bulk operations** (`src/models/entry.rs`, `src/api/bulk.rs`). Pages by
number or cursor, filters, flags with their times; a filter's ids are read before
they are acted on. Hard: everything changes between two statements. Correct when a
walk passes over nothing and flags and times agree.

**Import, export, backup** (`src/api/import.rs`, `src/api/export.rs`,
`src/api/backup.rs`). Loops of single statements, SELECTs of one table after the
other, or one transaction (restore) followed by index work. Hard: partial failure,
and references between tables read at different times. Correct when a file can be
restored and brings back what it was made of.

**Accounts and sessions** (`src/models/user.rs`, `src/api/auth.rs`, `src/auth/`,
`src/models/pat.rs`). Refresh tokens rotate within a family; reuse may revoke the
family; a password change ends the sessions. Hard: two refreshes with one token,
logins around a password change. Correct when a family has one live token, what
was revoked stays revoked, and somebody is administrator.

**Published pages** (`src/services/pages.rs`, `src/api/pages*.rs`,
`src/storage/`, `cli/src/commands/pages.rs`). Upload to a staging directory, then
copy to storage and write rows. Hard: failure between file and row operations, the
clean-up of staging, whole rows written back. Correct when a page's files are those
of one upload, its row says so, and an owner's edit stays.

**Rendering** (`src/fetch/render.rs`). Workers share one browser behind a lock, a
semaphore and a circuit breaker. Hard: trips, launches and calls that still use
the browser of an earlier trip. Correct when processes are bounded, the breaker
opens in time, and what died is replaced.

**The rest** is single statements on one table (tokens, annotations, memos, site
rules, audit log), pure functions of strings (URL rewriting, extraction,
sanitising), file and network I/O, wiring, and clients (`cli/`, `web/`,
`extension/`).

How they interact:

    API ---enqueue---> fetch_jobs <---lease/complete/fail--- workers
     |                                                        |
     | PATCH, delete                                 pipeline | save, mark_failed
     v                                                        v
    entries <------update_content_only------ image tasks <-- image_process_jobs
     |                                                        |
     +------ index, caches, tags  <---------------------------+

There is no shared memory between these actors but the database, the index, the
caches, the render service and the files of pages: the statement, or the single
call of one of these, is the unit of atomicity, and everything between two of them
may be interrupted or overtaken. axum drops the future of a handler whose client has
gone, at any await: `Library`, `Tags` and `Accounts` have an action `Drop` for that.
In `EntryContent`, `Listing` and `Backup` a request that never goes on is a dropped
one (safety does not need it to go on, and it holds nothing others wait for); in
`Pages` it is one of the errors (`GiveUp`).

## 2. Plan

| Modules | Question | State |
|---|---|---|
| `FetchQueue`, `FetchPromise`, `FetchQueueRefines`, `FetchQueueRegimes`, `FetchQueueLive`, `FetchQueueProofs` | does the durable queue keep its requests, leases and attempts right, and drain (section 3) | checked, with liveness; safety and refinement proved |
| `EntryContent`, `EntryContentProofs` | do fetches, image jobs and readers leave the right content (4) | checked, with liveness; safety proved |
| `Library`, `LibraryProofs` | is every entry fetched, and does the index come to agree with the tables (5) | checked, with liveness; safety proved |
| `Tags`, `TagsProofs` | is tagging done, and are cached lists right (6) | checked and proved |
| `Tables`, `Listing`, `Backup`, composed in `Readers`; `ReadersProofs` | what do those see who read the tables over several statements (7) | checked and proved |
| `Accounts`, `AccountsProofs` | rotation and revocation of sessions, the administrator (8) | checked and proved |
| `Staging`, extended by `Pages`; `PagesProofs` | files, staging directories and rows of published pages (9) | checked and proved |
| `Render`, `RenderProofs` | the shared browser and its breaker (10) | checked, with liveness; safety proved |

What is left to do: an abstract specification of the index (the set of entries a
search finds), which `Library` would implement but for the fates it names; theorems
that name the fates one by one (without crashes, dropped requests, restores and
promotions no entry with text is missing); the safety half of `QueueDrains` (what the queue can rest in).

Conventions. Constants are parameters with named assumptions in the module that
declares them. One action per SQL statement or step between statements. Helpers
are plain operators or functions, never RECURSIVE, so that each module can be
proved about. A faulty variant of a definition, named `Bad...`, stands right
before it; it is a slip the code avoids and shows that a property can be broken.

## 3. FetchQueue

### State

| Variable | Code |
|---|---|
| `rows[j]` | the row of `fetch_jobs` with id `j`; a deleted row is `"absent"` |
| `work[w]` | a worker: where it is in `process_one`, the `LeasedJob` it got, and whether a renewal has failed |
| `content[e]` | the row of `entries`: nothing, saved, marked failed, edited by the reader, or deleted |
| `owed`, `covering` | history: entries with an unanswered request, and workers whose fetch began after every request so far |

### Actions

| Action | Code |
|---|---|
| `Enqueue` | `enqueue` through `FetchQueue::send`: INSERT ... ON CONFLICT, the flag `refetch_requested` |
| `Dequeue` | `dequeue_one`, and the spawning of the renewer |
| `Save`, `ProcessOk`, `ProcessPermanent`, `ProcessTransient` | the outcomes of `pipeline::process` and its write to the entry |
| `MarkPermanent`, `MarkDead` | `mark_failed` before `complete`, and after a fatal `fail` |
| `Complete`, `FailRetry`, `FailDead` | `complete` and the two branches of `fail`, each matching `leased_by` |
| `Shutdown`, `Restart` | cancellation with `release`, and a new process |
| `ExpireLease`, `RenewLease`, `BecomeDue` | time |
| `PurgeDead`, `DeleteJob`, `Retry`, `RetryAllDead` | the purge in `main.rs` and the administrator's API |
| `EditEntry`, `DeleteEntry` | PATCH of content; permanent deletion with its cascade |
| `Crash`, `Panic`, `RenewerStops`, `LostWrite`, `LostLease`, the second outcome of `Save` | faults, each enabled by a name in `Faults` |

### Abstractions

Time: `due` is `run_after <= NOW()`; a lease is none, live or expired. A lease
lasts 300 s and is renewed every 60 s until `renew.abort()`, so as long as no
renewal has failed (`renewing`) it outlives the statements that follow; it runs
out under such a worker only when `"stall"` is among the faults. Priority: the
two values callers use, 0 and 5. A row that several workers could take is taken
in any order among those of the highest priority; the statement's `SKIP LOCKED`
is not visible when statements are atomic. A request whose statement fails was
never accepted. Worker ids are stable, so a restarted worker reuses the id of
the one that died. Soft deletion does not touch the queue and is left out.

`FetchPromise` says what the queue promises its callers, with sets of entries
only: a job is kept as long as a request is unanswered and is closed only when
it is answered, given up visibly, or withdrawn. `FetchQueueRefines` maps rows,
leases and workers to it. `FetchQueueLive` adds a budget of environment steps.

### Runs

Every run has two workers. One or two entries and two row ids make takeovers,
two dead rows of one entry and a revival beside a new active row happen;
`JobIds` bounds the rows alive at one time, not those ever created. `MaxAttempts`
2 has a retry, a last attempt and a death. The type invariants of `FetchQueue`,
`EntryContent`, `Accounts` and `Render` are proved (`TypeCorrect`), so their runs do
not check them again.

| Run | Bounds | Shows |
|---|---|---|
| `safe` | 1 entry, 2 rows, 2 attempts, all faults but a failing save, administrator; 635,000 states | `OneActiveJob`, `AttemptsAgree`, `RequestNotLost`, `LeaseRespected`, `ImplementsPromise` |
| `regimes` | 2 attempts; failing saves; either 2 entries, crashes and lost statements, or 1 entry, stalls, failing renewers, administrator; 811,000 states | `FetchesAreExclusive`: no entry is fetched twice at once; `DeathsAreMarked`: a dead job's entry has its failure mark |
| `live` | 2 entries, 2 attempts, 3 environment steps | `RequestsSettle`, `AbandonedJobTakenOver`, `QueueDrains` |

`FetchQueueRegimes` lets each behaviour have one of two kinds of misfortune.
`NoDoubleFetch` needs the absence of stalls, panics, failing renewers and an
administrator: with any of them two workers do fetch one entry at once, as the
design document accepts. `DeadJobMarked` needs the absence of crashes between
two statements, and of lost ones: a crash between `fail` and `mark_failed`
leaves a dead job whose entry says nothing. `RequestNotLost` needs a `save` that
does not fail: `save` logs a failed update, `process` returns Ok and the job is
deleted. The faults a run leaves out are thus part of what it shows.

### Fairness

Weak fairness of each worker's next step: its loop polls every five seconds, and
the HTTP client and the renderer have timeouts, so `process` returns. Weak
fairness of the expiry of a lease (only enabled when nobody renews it) and of a
backoff, which is time passing. Weak fairness of a restart: `docker-compose.yml`
has `restart: unless-stopped`. Nothing is assumed of requests, administrators or
faults. They could go on for ever and starve any queue, hence the budget in
`FetchQueueLive`: when it is spent the system must come to rest.
`CHECK_DEADLOCK FALSE` in the liveness runs says that it may.

### Proofs

`FetchQueueProofs`, for any sets of workers, entries and row ids, any
`MaxAttempts`, any faults, from `ConstantsAssumption` alone unless stated:

* `TypeCorrect`, `LeaseShapeHolds`, `OneActiveJobHolds`, `AttemptsAgreeHolds`:
  the types, that a row is leased exactly while it is running, and two invariants
  of run `safe`, from the inductive invariant `QueueInv`.
  `AttemptsAgree` is not inductive: `fail` chooses between retry and death by the
  attempts in the worker's snapshot, not by the row's. `SnapshotFresh` says that
  while `leased_by` names a worker, what it read is still what the row holds. It
  is kept because every statement that changes attempts clears or replaces the
  holder, and because a new row never has an id a worker still remembers.
* `RequestNotLostHolds`, assuming `"save_error" \notin Faults`, from `RequestInv`:
  for each unanswered request there is an active row, and if that row is being
  completed by its holder then its refetch flag is set or the worker's fetch does
  not cover the request. That is what `refetch_requested` is for: without the
  flag in the invariant, `complete` would be allowed to delete the row.

* `LeaseRespectedHolds`, an action property: no step ends a lease that has not run
  out but its holder's own, an administrator's or the deletion of the entry. It
  rests on `QueueInv` because a worker's own step must be shown to be that of the
  holder, whichever worker the row names.
* `ImplementsPromiseHolds`, the refinement of `FetchPromise`, assuming
  `"save_error" \notin Faults`. `PromiseSteps` lists what the actions of the promise
  do to its four sets (`owed`, `Queued`, `GivenUp`, `Gone`); then each step of the
  queue is mapped to one of them or to a stutter. Most steps keep the shape of the
  table (`SameShape`), and so change none of the sets. `CompletePromised` is where
  `RequestInv` is needed: a row is only deleted when its entry is not owed anything.
* `FetchesAreExclusiveHolds` and `DeathsAreMarkedHolds`, the two properties of run
  `regimes`, from `RegimeInv`. In the regime of deaths `FetchHeld` says that whoever
  fetches has its row, under a live lease with a living renewer, or the entry was
  deleted under it; two workers on one entry would hold the one active row it has.
  In the regime of delays `DeadJobMarked` is inductive with `QueueInv`. The steps of
  both regimes are steps of the queue, so that `QueueInv` is taken from above.

Each proof has a lemma per row operator, then a step per action with the
conjuncts it disturbs. Liveness and `ENABLED` are out of the prover's reach:
`RequestsSettle`, `AbandonedJobTakenOver` and `QueueDrains` are checked by TLC only.

## 4. EntryContent

One entry, its image jobs and everyone who writes its content.

| Variable | Code |
|---|---|
| `entry` | `content` (whose it is, which page, its images), the page of `text_content`, `is_content_edited`, and whether the row is gone |
| `fetch[f]` | a fetch between its read of the page, `update_entry_content`, and `image_process_job::create` |
| `patch[r]` | a PATCH between its SELECT and its UPDATE, with what it read |
| `jobs` | rows of `image_process_jobs` of the entry in `created_at` order |
| `claimed`, `task[p]` | the job the processor's loop holds while it waits for a permit, and the task that holds permit `p` |
| `pages`, `runs` | the pages fetched so far; history: how often a job was handed to a task |
| `lost`, `reverted` | history: pages whose image job was never stored or was in a hand that died or failed to mark it; pages a PATCH wrote back with remote images |

| Action | Code |
|---|---|
| `GetPage`, `SaveContent`, `QueueImages` | extraction, then the two writes of `pipeline::save`, the second of which also happens when the first failed |
| `MarkFailed` | `mark_failed`: content and text become NULL |
| `EditContent`, `SetFlags`, `WriteEntry` | `update_entry`, with new content, or without (title, star, archive): then the content and the mark `is_content_edited` that were read are written back |
| `Delete` | `permanently_delete_entry`, with the cascade to the image jobs |
| `Claim`, `Dispatch` | `claim_pending`; permit and spawn |
| `UpdateContent`, `UpdateFails`, `MarkCompleted`, `MarkJobFailed` | `process_job`. `process_images` replaces all images or, with the fault `"download"`, leaves some remote because they could not be loaded or stored; the job is completed either way |
| `LostMark`, `Crash` | a mark that fails and is only logged; the end of the process, graceful or not, since `main` awaits none of its tasks |

Fetches appear through what they write: which fetches run at the same time is the
business of `FetchQueue`, whose run `regimes` says when one entry has two (and
a worker that was taken over still marks). Bulk star and archive do not write
content; the import's and the memos' direct writes of content happen at creation,
before there is a fetch; both are left out, as is soft deletion.

| Run | Bounds | Shows |
|---|---|---|
| `content` | 2 fetches, 2 readers (one edits, one sets flags, over and over), 2 permits, 1 retry, 2 pages, all faults; 464,000 states | `OneHandPerJob`, `RunsBounded`, `SettledIsLocal`, `ProcessingIsHeld`, `EditKept`, `JobsSettle` |
| `content_killed` | 1 page, crashes only; refuted | `KilledJobsRetried`, which a comment of the code promises |

Two permits stand for four: an order of two tasks is what can go wrong, and two
pages give an older and a newer job. One retry has a first run, a retry and a
failure for good; the code's `MAX_RETRIES` is 3, and the theorem is for any number.

`EditKept` says that only one thing takes a reader's edit back: a PATCH of flags, of
whichever reader, that read the entry before it was edited and writes it back
afterwards. That case is real, and section 11 names it. `SettledIsLocal` says that a
page is shown as it was before its image job only while the job is to come, if the
job was lost, or if such a PATCH wrote the page back. It does not say that all images
are local, as those that cannot be loaded stay remote and are never tried again, nor
that the page is the newest: an older page's task that ends last overwrites a newer
page, whose text the search keeps. `JobsSettle` and `ProcessingIsHeld` except jobs
that were lost; that a process which is killed loses its jobs is the finding of run
`content_killed`.

Fairness: weak, of the claim (the loop polls every five seconds), of each
dispatch and of each task (the processor's HTTP client has timeouts, so a
download ends). A PATCH that read and never writes does not hold up the jobs, so
readers and fetches are left without fairness, and so are the faults.

### Proofs

`EntryContentProofs`, for any sets of fetches, readers and permits, any `MaxRetries`
and `MaxPages`, and any faults, from `ConstantsAssumption` alone:

* `TypeCorrect`, `OneHandPerJobHolds`, `RunsBoundedHolds`, from the inductive
  invariant `ContentInv`. Neither property is inductive alone. `HandsInv` adds
  that a job in a hand is 'processing', so that it is not claimed again, and
  covers the jobs a deletion has taken from under a task. `RunsInv` relates the
  runs of a job to the retries its row has counted, with the run in progress as
  the slack. `PagesApart` says that a page has one fetch in flight or one job;
  from it `RoomForJob` bounds the number of jobs by the number of pages, with the
  library's counting of injections.
* `EditKeptHolds`, from `EditsInv`: whoever knows of an edit, be it the row or a
  PATCH that has read it, has the reader's content with it. Hence a PATCH that read
  the entry after the edit writes the edit back, and one that read it before is the
  one the property names.
* `ProcessingIsHeldHolds`, from `LostInv`: a page is lost only once its fetch is
  over, and its job, if there is one, stays 'processing' in nobody's hand for good.
* `SettledIsLocalHolds`, from `LocalInv`: wherever a page is shown with remote images,
  its fetch is on its way to `image_process_job::create`, or its job is not completed
  and no task is between its write of the content and its mark (`InWork`), or the page
  is lost or was reverted. `SettledIsLocal` is weaker in that it counts a job whose
  task has written and not marked yet.

`JobsSettle` is liveness and stays with TLC.

## 5. Library

Entries from the request that saves them to their purge, with the index.

| Variable | Code |
|---|---|
| `rows[i]` | the row of `entries` with id `i`: its URL, live or in the trash, whether it has content, and which text (`text_content`) |
| `texts` | texts are numbered as they are written |
| `view`, `disk` | the documents, each with its text or with a title alone, as tantivy's writer has them, and those of the last commit, which searches read |
| `queue`, `fetch` | entries whose fetch is queued (section 3 is behind it), and the fetch in progress |
| `req[r]` | a request, with the file it imports, the documents it has read or written and still has to index, and what it has to send |
| `rebuild` | the administrator's restore or reindex |
| `fate[i]` | history: what befell the entry, see below |

Requests: `SaveUrl` (`create_entry`), `PromoteMemo`, the three imports (`OpenFile`,
`Stage`, `FlushIndex`, ...), `DeleteEntry`, `BulkDelete`, `PurgeEntry`,
`RestoreEntry`, `RefetchEntry`, each with one action per statement; a statement may
fail (`StatementFails`). Beside them the fetch (`StartFetch`, `SaveText`,
`IndexFetched`, `FetchFails`), the commit loop of `main.rs`, the restore and the
reindex (`ReplaceTables`, `Reindex`, `ClearIndex`, `CommitClear`, `SelectLive`,
`RebuildIndex`), crashes, and `Drop` and `DropRebuild`: any handler, the
administrator's included, may be dropped between two statements. Whoever indexes
carries the text it wrote or read earlier (an import what it staged, `restore_entry`
and a rebuild what their SELECT gave), so that an older document may take the place
of a newer one. Content is told apart only as none, some, or erased by a failed
fetch. An import from wallabag stores content without `text_content` but indexes that
content as the document's text. Calls of the index succeed. Of restores and
reindexes one runs at a time, and tantivy's `delete_all_documents` empties what the
writer has. Edits by PATCH change neither `text_content` nor the index and are left
out here.

The history `fate` names the exceptions exactly, so that everything else is
promised. An entry may stay unfetched only if a crash, a failing statement, a dropped
request or a restore cut its request off (`"cut"`). The text of an entry may be
missing from the index (`"hidden"`) only after a crash before the commit; a deletion
whose `search.delete` comes after the restore of the same entry has indexed it; an
older text, of a restore, an import, a fetch or a rebuild, that was indexed after it;
the promotion of a memo (nothing indexes what `promote_memo` writes); or the drop of
the request or rebuild that was to index it. A purged entry may be in the index only
if a fetch, an import or a rebuild that was under way wrote it back.

Run `library`: one URL, one entry, two texts, two requests (the first may ask for
anything, the second purges), one crash or rebuild, failing statements and dropped
requests; 799,000 states. One entry suffices for an entry racing with its own
deletion, restore, fetch and rebuild, which is what the properties are about:
documents do not depend on each other. Two texts are an older and a newer one.
By hand the invariants were also checked with two crashes or rebuilds and a second
request that restores, too (5.3 million states). `TextReachesDisk` is liveness: weak
fairness of the steps of a request, a fetch and a rebuild that were begun, and of
the commit loop's tick. Requests, crashes and rebuilds need never begin.

### Proofs

`LibraryProofs`, for any URLs, ids, requests and bounds, from `LibraryAssumption`
alone: the types, `TextIsIndexed`, `NoEntryForgotten` and `PurgeReachesDisk`. They
follow from one inductive invariant, `LibraryInv`:

* `RequestsFit` and `FetchFits` say what a request or fetch has in hand where it
  stands, for instance that only an import has documents staged.
* `PurgeInv` gives `PurgeReachesDisk`. That property speaks of the disk only, and
  the disk comes from the writer's view at a commit, so the invariant must keep a
  purged entry out of the view as well, and, for a purge between its deletion and
  its commit, out of the view before the fate is told.
* `FetchInv` is stronger than `NoEntryForgotten`: `BeingFetched` counts a request
  that stands at a statement it may already be through with, `WillBeFetched` names
  only those who are still going to enqueue or fetch.
* `TextIsIndexed` is inductive with these: whoever wrote a text, restored or
  rebuilt holds that text until the document is written, or was dropped or overtaken,
  which its fate tells.

`TextReachesDisk` is liveness and stays with TLC.

## 6. Tags

`tags`, `links`, `rules` and `entries` are the tables of one user; `cache[k]` is one
of the lists in memory (tags, their statistics, rules), held as right, wrong, or
wrong with nobody left to invalidate it (`"late"`); `req[r]` is a request or the fetch that
applies the rules. `FindTag`, `CreateTag`, `LinkTag` are the statements
of `find_or_create_tag` and `add_tag_to_entry`, inside the loops of `ensure_and_link`
and `bulk_tag`, whose errors are passed over; `EvaluateRule` evaluates rules with groups,
and `LookUpTag`, `Unlink`, `RenameTag`, `DeleteTag`, the rules' requests and every
invalidation are actions too. `PurgeEntry`, the import of a rule and the restore of
a backup change the tables without an invalidation, which the held value `"late"`
records. So does `Drop`: a request may be dropped between its statement and the
invalidation it owes, unless another one owes the same; the fetch that applies the
rules is a worker's, which nobody drops.

Run `tags`: one entry, two tags, three labels of which two have one slug, one rule
with a nested group and articles on both sides of its limit; a request that may ask
for anything and a fetch; 2.0 million states. Two requests are enough for every
property, as each is about one writer and one who comes between its statements.

### Proofs

`TagsProofs` proves the types and the three properties of the run for any entries,
tags, labels, rules and requests, from `TagsAssumption`: the ids are told apart from
the values the model uses for none, a slug is a label, the tags of a rule are labels
(the code stores them as text in the rule), and there are finitely many tag ids, so
that a transaction which creates as many tags as slugs are missing, one for each
slug, creates none twice (`NewSlugsDiffer`).

The inductive invariant is `TagsInv`. `ListsAreCurrent` is inductive with the types:
each statement that changes a table leaves the list stale with the writer named, and
`PlaceFits` says that a request which owes an invalidation is about to do it. For
tagging, `PairsTagged` says that each pair of an entry and a label that is no longer
to do is done, and `TagIsHeld` what the tag in hand is worth: as long as the request
is `alone` (nobody deleted, renamed or unlinked under it, or created the tag of the
same slug), a tag it found still exists and one it did not find is still missing.
`SlugsAreUnique`, the table's unique index, makes the tag that was found the one that
counts. `PairsUntagged` is the same for bulk removal.

## 7. Readers

Everything that reads tables over several statements. `Tables` has the tables
(`db`) and the single statements that change them. `Listing` adds a client that
walks a list (`FindIdsMatching` with flags, domain, labels, exclusions and times,
ordered by `created_at` and id, by cursor or page number with `MAX_PAGE`), PATCH of
flags, and bulk archive and star on ids read before. The words of a search, which the
index answers without pages, and the list of the trash, which has none, are left out. `Backup` adds the backup, table by table
and without a transaction, the export of a scope, their breaks, and the restore in
one transaction that any unresolved reference undoes. `Readers` composes the three
and keeps what the properties need to know of the past.

Run `readers`: two users, three entries, two of which share their time, one flag,
one tag, pages of one entry, and three changes, walks, PATCHes or backups in all;
540,000 states. Pages of one entry make every step of the cursor a boundary, and
three events are a change before, during and after a walk or a backup.

`FlagsAgree` has a named exception. An import takes `is_archived` and `archived_at`
from its file, each for itself (`RestoreImportStatus`), so a file in which they
disagree leaves a row in which they do. The field `odd` of a row, which is history,
has those flags until a PATCH or a bulk change sets them anew, and the property says
that nothing else makes flag and time disagree: a PATCH that writes back what it read
does not, whatever came in between. Backup files are those the program wrote; a file
somebody changed by hand is not modelled.

### Proofs

`ReadersProofs` proves the types and the four properties for any users, entries,
tags, filters and bounds, from the assumptions of the four modules. The inductive
invariant `ReadersInv` is proved in layers, each from those before:

* `TablesInv`: references between the tables resolve and what belongs together has
  one owner (`DbOK`), stated of any database so that it also speaks of the one a
  backup began with; a PATCH holds a row whose flags and times agreed when read, but
  for those in `odd`; and
  a file contains rows of this kind only. Its hardest case is the restore, which
  builds a database from whatever is in the file; that its references resolve is
  what `Resolves`, the restore's foreign keys, tests. `FlagsAgreeHolds` follows.
* `BackupInv` and `FileInv`: what has been written resolves within what has been
  written, and, unless something was added, what has been read covers what is in the
  tables now, so that a row read later refers to one read before. For a quiet
  backup the tables written are those of the database it began with (`CopyOf`), from
  which `RestoreBringsBackHolds`, an action property, follows. An export has its own
  part (`ExportOK`): its references are to entries it has, or to tags of the user.
* `WalkInv`: with a cursor, entries beyond it have not been seen and those that
  matched all along and are not beyond it have been seen once; `CursorHolds` needs
  that the page taken is a prefix of what lies beyond. By page number, while the
  set of matches does not change, an entry has been seen exactly if its rank (the
  number of matches ahead of it) lies before the page (`PageHolds`); the proof
  counts prefixes of an ordered finite set, with the library's theorems on
  cardinality. `WalkCompleteHolds` follows from both.

## 8. Accounts

`users`, `tokens` (refresh tokens by id, their family, and the password they stand
on), `access` (valid JWTs), `pats`, `saved` (the users of a backup), `req[r]`.
Actions follow `api/auth.rs` statement by statement: registration counts users and
then inserts; login finds the user, stores a token; `refresh` finds, deletes and
inserts, and revokes the family if its DELETE hit nothing; a change of the password
updates and then revokes; logout, expiry, clean-up, personal tokens, and the
restore, which keeps no password (`Restored`) and no session. `Drop` ends a request
between two statements, as when the client goes away.

Run `accounts`: two users, one request that may do anything and one that registers
or refreshes, three refresh tokens, two passwords, two events of the environment;
3.0 million states. Three tokens are a login, its successor and a rival's.

### Proofs

`AccountsProofs` proves the four properties of the run and the types for any users,
requests, bounds and faults, from `AccountsAssumption` alone. The inductive
invariant is `AccountsInv`, of three parts beside the types. `SessionsInv`: the
families and tokens anyone knows were issued (`Names`), so that the next one is new;
a refresh about to delete a token knows its family (`Followed`); the two properties
of families. `OldSessionsEnd` is inductive with the types. `Founded` gives
`SomeoneIsAdmin`: whoever registers without becoming administrator has seen a user,
users never all disappear, and a backup that has users has an administrator.

## 9. Staging and Pages

`Staging` has, as operators on sets of paths, what the command line packs
(`PrepareUpload`), what the server unpacks (`StripCommonPrefix`,
`IsSafeRelativePath`), and which files may be shown. An upload has any number of
parts, archives among single files. `Pages` adds the state:
`rows[p]` (status, password and whether it is hashed, entry file, file count), `files[p][n]` (whose file is served at path `n`), `staged[u]`, `timers`
(clean-up tasks), `removing`, `req[r]`. Requests create, replace files, edit, and
visit with a password, which hashes an old one; each of the first three may name any
string as the file to be shown, and a PATCH, with files or without, may name none:
nobody looks whether there is such a file; placing files is one action per
deletion, copy and row write; the clean-up removes a staging directory file by file
at any time; uploads, copies and statements fail; a restore deletes rows; crashes
leave files behind. `storage` is local or an object storage, whose `delete_prefix`
lists with a delimiter and leaves sub-directories.

`PublishedIsWhole` compares what is served with what the owner meant to publish,
from the archive on his side to the row: the files of each part of one upload are in
their places and nothing else is, the row counts them, and the file to be shown is one
of them unless the client named one that is not, or kept the name of one that is no
longer (section 11). `torn` names the pages it cannot speak of:
those whose last placing broke off, ran beside another one, lost its staging
directory to the clean-up, or had its row overwritten by an edit that had read the
one before. `EditStays` excepts, by `crossed`, pages whose row two requests wrote
across each other.

Run `pages`: two pages, three uploads (a directory with hidden files, an archive
with one top directory next to a single file, a single file), two requests, three events, both storages;
1.7 million states.

### Proofs

`PagesProofs`, for any pages, uploads, requests, faults and bounds:

* `TypeCorrect` and `EditStaysHolds`, from `PagesAssumption` and `StagingAssumption`.
  `PagesInv` relates what a request has in hand to where it stands. `EditStays` is
  inductive with it: whoever writes back a row he read either finds that it still
  says what he read, so that his edit is applied to what the owner said last, or the
  page is marked as crossed.
* `PublishedIsWholeHolds`, from `WholeInv`. A request that places files is marked
  `mixed` when it meets another one at the same page or staging directory
  (`MeetingsMarked`), so that whoever is not marked is alone with both; then
  `WellPlaced` follows its progress: the staging directory is whole as long as it is
  needed, nothing but its upload is served once the old files are cleared, the files
  it has copied are those it no longer has to, and the row it will write or has
  written counts them. The file to be shown does not come from there: it is what the
  owner said last (`EditStays`) but for rows that were crossed. `Complete` is what a page is left with. `WholeInvariant` needs
  no hypothesis of its own; from `Complete` to the property, that is from what was
  staged to what the owner meant, two facts about the inputs are assumed:
  `SourcesArePaths` (sources are sets of sequences of some components, as in
  every instance) and `FilesArePlain` (files that are sent one by one have names that
  `sanitize_filename` leaves as they are). Without the second the property does not
  hold: the server drops hidden components of such a name, so that two files may
  become one, while the owner meant both. Directories and archives may contain
  hidden files and top directories without restriction; that packing, unpacking and
  stripping bring back what was meant is part of the proof (`StripFacts`, with the
  library's theorems on sequences).

## 10. Render

`render[r]` is where the call of worker `r` stands and the `Arc<Browser>` it holds;
`browser` and `writer` are the service's browser and who has its lock for writing;
`failures` and `cooldown` are the breaker; `dead` has the browsers whose process or
message loop ended. `CheckBreaker`, `Acquire`, `ReadBrowser`, `LockBrowser`,
`Launch` are the statements of `render` and `ensure_browser`; `PageFails`,
`OpenBreaker`, `TakeBrowser`, `ResetFailures` those of `record_failure`, between
which other calls go on. The failures are counted outside of the lock, so that the
reset wipes out what others counted: `BreakerOpens` bounds what is lost by the
number of permits.

Run `render`: three calls, two permits, three browsers, three failures for the
breaker (the code has five: what matters is that there are failures before the last
one which others may reset); 189,000 states. By hand the invariants were also
checked with four calls. Two permits let one call use a browser of the past while
another one launches, and the third call waits. Fairness is strong for the steps of
a call, since semaphore and lock are first-in first-out and launches and loads have
timeouts, and weak for the end of the cooldown. `DeadBrowserGoes` assumes that
somebody renders again and again; nothing else ever looks at the browser.

### Proofs

`RenderProofs` proves, from `RenderAssumption` alone, the types and who has the
lock; `BrowsersBounded`; `NoSecondLaunch` (a browser is only replaced after it was
taken away); and `FreshAfterTrip` (once every trip has taken the browser, what the
service has is newer than the trips). The number of processes is not bounded by
counting calls alone: after a trip every permit may hold a browser of the past. The
invariant `OthersBounded` says that next to the one in the service there is room for
one less than the permits. A launch establishes it, because its caller has a permit
and no browser; afterwards the browsers of the past only become fewer.

`BreakerOpensHolds` bounds the failures in a row before the breaker opens, although
they are counted outside of the lock. `StreakInv` is the invariant: calls that have
opened the breaker and not yet reset the count (`Down`) will each wipe out less than
`Threshold` failures, so what has been lost and what will be lost is bounded by the
permits those calls have (`PermitsKept`), less one for the call whose failure is
being counted. Liveness is model-checked only.

## 11. Findings and observations

Two findings have runs of their own, which TLC refutes; `PROJECT.json` quotes the lines.

| Run | What the code does | Against |
|---|---|---|
| `panic` | a panic in the pipeline leaves the detached renewer running, and the job is never taken over while the process lives | the design: taken over after 5 minutes |
| `content_killed` | an image job that was 'processing' when the process was killed is never claimed again (`image_process_job.rs:57`) | the comment in `image_processor.rs:43`: "would just trigger a normal retry on the next startup" |

Stated in the modules as properties that do not hold; each can be seen by checking
it in the instance named:

| Property | Instance | What happens |
|---|---|---|
| `OnlyOwnerErases` | `FetchQueue`, faults `{"stall"}` | a worker that was taken over marks the entry failed, by id alone, over its successor's content (`fetch_worker.rs:182`; the design, `docs/specs/2026-05-16-fetch-queue-persistence.md:494`, calls it harmless) |
| `NoRunBeyondMaxAttempts` | `FetchQueue`, faults `{"crash"}` | a job that kills its process is leased without end, since only `fail` ends a job (`fetch_job.rs:159`; the design, lines 100 and 513) |
| `ReviveNeverRefused` | `FetchQueue`, `Admin = TRUE` | one dead job whose entry was enqueued again makes `retry_all_dead` fail for all (`fetch_job.rs:385`) |
| `NextRenderRelaunches` | `Render` | a browser whose message loop ended is handed out until the breaker trips (`render.rs:116`; the comment at line 183: "the next render() will trigger a relaunch") |

Read in the code while modelling it, part of the models where they are about state:

* A PATCH of flags undoes an edit of the content made since it read the entry
  (`entry.rs:400`), against "once edited, not overwritten automatically"
  (`docs/specs/2026-03-28-lettura-design.md:99`); `EditKept` names it as the only
  case.
* An image that cannot be loaded or stored stays remote, and its job is completed
  (`storage/mod.rs:172`): there is no second try.
* A request that is dropped between its statement and the next one leaves an entry
  nobody fetches (`entries.rs:98`), a text that is not indexed, or a stale list
  (`tag.rs:68`); a dropped purge leaves its document until the next rebuild.
* What is indexed may be older than the row: `restore_entry`, a rebuild and the end of
  an import index what they read before (`entries.rs:349`, `admin.rs:107`,
  `import.rs:566`), also when a fetch has indexed a newer text meanwhile.
* Entries imported from wallabag have no `text_content`: a restore of the entry or a
  rebuild of the index leaves only their title to be found (`import.rs:67`).
* An import writes `is_archived` and `archived_at` as the file has them, although a
  comment says that the file may be tampered with (`import.rs:393`).
* The entry file of a page is any string the client sends, and a PATCH with new files
  keeps the old one if it sends none, so that a page may show nothing
  (`services/pages.rs:565`).

* `refetch_entry` enqueues with priority 0: nothing calls `send_refetch`, which
  would give 10. `RequestNotLost` does not hold if `save` fails, since the pipeline
  logs it and reports success.
* Saving a URL whose entry is in the trash fails (`entry.rs:165`).
* `reindex` commits the cleared index before it fills it, so a crash leaves it
  empty (`admin.rs:101`). The restore commits its tables before it clears the index.
* After a restore nobody can log in with a password: hashes are "!restored", and
  there is no endpoint to reset one. A page prevents a restore by its foreign key
  (`backup.rs:699`). A download that broke off can still be restored. Bundles that
  begin with `[` are refused, although a comment speaks of them.
* Lists are not invalidated by a restore, an import of rules or a purge
  (`tagging_rule.rs:132`); the cache of site rules is never read.
* PATCH of a rule, an annotation or a site rule reads the row and writes all of it
  back (`tagging_rule.rs:98`, `annotation.rs:67`, `site_rule.rs:106`).
* A used refresh token revokes its family only when two refreshes race; later it
  is simply unknown, while migration 019 speaks of reuse.
* Staging directories survive a failing upload and a restart
  (`services/pages.rs:288`, `:348`). A file whose name contains `__MACOSX` is packed
  by the command line and left out by the server.
* `delete_prefix` in an object storage leaves nested objects (`oss.rs:91`), against
  its description "Delete all objects under a prefix" (`storage/mod.rs:27`).
* `record_failure` cannot close the browser gracefully: its caller holds an Arc, so
  `into_inner` gives None. `shutdown()` has no caller. A launch that fails is not
  counted as a failure.
* The rate limiter is one per worker, so the gap per domain holds within a worker
  only. `Retry-After` is slept without a cap, after the last attempt too, while the
  lease is renewed.

## 12. What is not modelled, and why

* Functions of strings without state: URL rewriting, the SSRF filter, JSON
  extraction, readability, sanitising. Their inputs are texts, for which the unit
  tests of the repository are the better check.
* The HTTP client: retries and the rate limiter are sleeps of one worker that no one
  else observes. Which page gives which outcome is left open in `FetchQueue`.
* Scoring and query syntax of the index; tantivy's files.
* The audit log (inserts only), feeds (which only read), files of
  site rules read at start-up, metrics, per-client rate limits, wiring.
* The web client, the browser extension and most of the command line are clients of
  the HTTP API; what they keep is not relied upon by the server.
* The text of annotations and memos: their rows are created, promoted, backed up and
  restored in the models, but not edited.

The database is taken to execute each statement atomically and to keep what it
committed; isolation levels matter only where a transaction has several statements
(the restore), which is one action. Unique indexes and cascades are part of the
actions.

Every invariant and every action property of a passing run is stated by a theorem,
under the hypotheses named in its section. Those of `EntryContent`, `Library`, `Tags`,
`Readers`, `Accounts` and `Render` have none beside the assumptions on the constants. Liveness and `ENABLED` are out of the
prover's reach and checked by TLC only: `RequestsSettle`, `AbandonedJobTakenOver` and
`QueueDrains` of the queue, `JobsSettle` of image jobs, `TextReachesDisk` of the index,
and `DeadBrowserGoes` of rendering. No module defines anything by
recursion, so there is no induction over data to be left out.
