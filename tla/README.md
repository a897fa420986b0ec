# TLA+ models of @trebired/git-host

`@trebired/git-host` is an embeddable Git host and forge for Node or Bun: smart HTTP and SSH
transports, repository operations by calls of `git`, and a forge with activity, releases, forks and
Actions. Everything runs in one process on one event loop, so code interleaves at `await`, never
inside a synchronous stretch. The storage of the forge is an adapter supplied by the embedder (an
in-memory one is included); every call of it is awaited. These modules model the parts of the
program whose correctness depends on such interleavings, on failures and on the order of things.
Paths below are relative to the repository's `src/`.

## Inventory

| Component | State it keeps | Operations | What is hard | What makes it correct |
|---|---|---|---|---|
| Repository lock (`core/locks.ts`, used through `withRepositoryLock` of `core/create/git/host.ts`) | a map from repository key to the tail of a promise chain; one gate per call | `withLock` | arrivals and ends interleave; operations reject; calls nest; entries are deleted | mutual exclusion per repository, arrival order, no call stranded, no entry left behind |
| Actions runtime: queue, run, cancellation (`core/forge_actions/runtime/{queue,engine,api}.ts`, `run/execute.ts`, `runtime_support.ts`) | `queuedRuns`, `processingRef`, `activeRuns`, `runExecutionContexts`; rows of runs, jobs, events in storage | `queueWorkflowRun`, `processQueue`, `executeRun`, `cancelWorkflowRun` | reads that are stale when used; rivals of a group that cancel each other; exceptions outside the `try`; the process ends | one run at a time, no lost wake-up, every run ends once, a cancelled run stays cancelled |
| Actions runtime: jobs and steps (`job/execute.ts`, `job/step/execute.ts`, `job/steps.ts`, `core/actions/local_runner.ts`, `shared.ts`) | rows of jobs and steps; `cancelRequested` and `child` of the run | pick a runnable job, pre-checks, steps, spawn, timeout, cancel | a cancellation at any await; SIGTERM ignored; exceptions; needs on matrices | needs honoured, steps sequential, verdicts borne out, the run ends |
| Run events and sockets (`runtime_support.ts`, `runtime/api.ts`, `api/forge/socket*.ts`) | cache of the last sequence number, listener sets, stored events, sockets | emit, list, subscribe, close, replay | emissions that race for a number; a gap between replay and subscription; sets replaced while in use | no number twice, no event missed, listeners reachable and released |
| Workflow definitions and planner (`core/actions/{planner,normalize,workflows}.ts`) | none; files at a ref | list, read, normalise, check acyclicity, expand matrices, match triggers | cycles, dropped jobs, two formats of triggers, one broken file among many | queues only what can run to its end, in the order of the list, and for the ref that was pushed (which it does not: finding `requests_filters`) |
| Expressions, redaction, environment (`core/actions/{expressions,redaction,environment}.ts`) | none | pure functions on text | secrets split over chunks | secrets never shown |
| Runners (`core/actions/{runner,node_runner,go_runner}.ts`, `go/`) | one process and its lines of JSON | start a job, relay events | a runner that dies without a last line | one result per job |
| Archive service and cache (`core/archive/*`, `core/archive_cache_filesystem.ts`) | data and metadata files per key, expiry | open, resolve, write, read, clean up | writers, readers and cleanup of one key; two renames; a killed `git archive` | the cache and `read()` hold what was generated for the key, whole; the length fits the body |
| Releases and assets (`core/create/git/forge/release_methods.ts`, `core/actions/release_assets.ts`) | release rows, lists of assets, tags | create, update, delete, publish | read-modify-write across awaits; tag and row one after the other | no asset lost but by a stale list; success means done |
| Forks (`core/create/git/forge/fork_methods.ts`) | fork rows, repositories | create, list, sync | several steps with a failure in between; git outside the lock | a row names a fork that is ready |
| Social state (`social_methods.ts`) | stars and watchers | star, unstar, watch, unwatch | a row and an activity | success means done |
| Activity and triggers (`core/activity.ts`, `runtime/api.ts`) | activity rows | record, derive triggers | HEAD is read when the push is recorded; errors are swallowed | an undisturbed push is built |
| HTTP and SSH transports (`http/handler.ts`, `ssh/server.ts`) | a request, its child process | ask the callbacks, serve, audit | error, close, finish and abort in any order; rejected keys | one audit event per end of a request, and one per rejected key |
| Working tree, branches, remotes (`core/working_tree/*`, `core/create_git_host/*`, `core/remote.ts`, `core/run_git/*`, `core/create/git/host_runtime.ts`) | the repository itself | ensure, branch, tag, commit, merge, fetch, push, ... | sequences of git commands, each of which may fail, be killed or meet a conflict | they run under the repository lock, give it back, and have done what they report |
| Inspection (`core/inspection/*`, `core/inspect/*`, `core/repository.ts`) | none | tree, file, directory, blob, blame, compare, search, linguist, summary | several git commands without the lock while refs move | an answer is of one commit |
| JSON APIs, linguist socket, configuration (`api/*`, `config/*`) | none | route, authorise, serialise | - | one call each |
| In-memory storage (`core/git_forge/storage_memory/*`) | maps of rows | list, insert, patch | rows are copied in and out | rows read are rows written |

How they interact: the transports and the JSON API call the host; its mutations take the repository
lock and emit audit events, from which activity is recorded; the Actions runtime is triggered by
activity, plans jobs, queues a run and executes it; every change of a run is emitted as an event
that is stored with a sequence number and sent to listeners, the run sockets among them.
Cancellation comes from the API, from rivals of a concurrency group, and reaches a run through
`activeRuns` (a flag, a signal) or through storage.

## Modules

| Module | Models |
|---|---|
| `SerialAccess` | abstract specification: first-come first-served access per key |
| `RepositoryLock` | `withLock`; implements `SerialAccess` |
| `RepositoryLockProofs` | proofs about `RepositoryLock` |
| `WorkflowRuns` | submission, queue, run, cancellation, end of the process |
| `WorkflowRunsProofs` | proofs about `WorkflowRuns`: the queue and its loop |
| `WorkflowRunsOutcomeProofs` | proofs about `WorkflowRuns`: how a run ends |
| `JobExecution` | the jobs, steps and artifacts of one run |
| `JobExecutionProofs` | proofs about `JobExecution` |
| `RunEvents` | event numbers, listeners and sockets of one run |
| `RunEventsProofs` | proofs about `RunEvents` |
| `GitCommands` | a repository as the host sees it, and what git does to it |
| `HostMethods` | the methods of the host and the forge as tables of steps |
| `HostOperations` | concurrent calls of those methods, locks, rows, failures |
| `HostOperationsProofs` | proofs about `HostOperations` |
| `Inspection` | reads of a repository while its refs move |
| `Archives` | archive requests and the cache; extends `Inspection` |
| `ArchivesProofs` | proofs about `Inspection` and `Archives` |
| `Workflows` | files, triggers, matrices and planning, as functions |
| `Transports` | requests over HTTP and SSH |
| `PushTriggers` | from a request to queued and started runs; composes `Transports` and `Workflows` |
| `PushTriggersProofs` | proofs about `Transports` and `PushTriggers` |
| `MC...` | the instances TLC checks |

The three runtime modules cut the runtime by question, each keeping of the others what it needs:
`WorkflowRuns` has a job row that takes some legal sequence of statuses, `JobExecution` has a run
that is registered already, `RunEvents` has a run that ends at some moment. `PushTriggers` ends
where `WorkflowRuns` begins, with a run that is queued, and has of its execution only the second
reading of the workflow. `HostOperations` has the lock as one holder per repository; that callers
get it in their order is the subject of `RepositoryLock`.

### RepositoryLock

One call of `withLock` is one element of `Call`. `tails` is the map; the promise a call stores there
is named by the call, so that `previous[c]` says what it awaits. `open` are the gates that were
opened, `settled` the tails that have settled since. `Acquire` is the synchronous stretch up to the
first await, `SettleTail` and `Admit` are promise continuations (a promise settles some time before
those that await it run), `Finish` the end of the operation with the `finally` block. `KeyOf` is the
`trim` of the id; a blank id runs without lock. A running operation may make a call and await it
(`child`), as arbitrary code passed to `withRepositoryLock` may. `ahead` is history: the unfinished
calls for the key when `c` arrived; no action reads it.

### WorkflowRuns

`status`, `rows` and `announced` are storage; `queue`, `processing`, `active`, `requested`,
`contexts` are `queuedRuns`, `processingRef.value`, the keys of `activeRuns`, those of them with
`cancelRequested`, and the keys of `runExecutionContexts`. `submit[r]` and `rivals[r]` is the
progress of the `queueWorkflowRun` call that makes run `r`; `cancel[p]` that of a
`cancelWorkflowRun` call, made by a user or by the submission of a rival; `loop[r]` that of the
`processQueue` call which the push of `r` schedules (there are as many as pushes). Every storage
read whose result is used later, and every write that somebody else reads, is an action of its own;
awaits between which nothing changes that anyone here can see are merged. What a job does is left
out: its row is skipped, refused, or run and finished, and the run is set `running` by each step.
A rejection is modelled wherever the code can meet one: in a submission (`SubmitFails`), before the
`try` block of `executeRun` (`PrepareThrows`), at any of the steps in it, the ones after the last
job's row is stored included (`RunThrows`, from which `handleRunFailure` goes on with `caught` set),
and in that handler (`HandlerThrows`). `Crash` is the end of the process; storage survives and
nothing reads it back. `passive` (a cancel call found no state object), `stranded` (a failure left
the run behind) and `thrown` (something in its `try` block rejected) are history.

### JobExecution

`jobRow` and `stepRow` are storage, `verdict` the status of the run once it has ended; `pending` and
`done` are the sets of `runPendingJobs`; `pc`, `job`, `step` is where the executor stands;
`requested` and `child` are the fields of the run's state object. A command has a temper: `brief`
ends by itself, `hang` ends on SIGTERM, `stubborn` only on SIGKILL. `TermTimer` and `KillTimer` are
the two timers of the local runner, which exist only with `HasTimeout`. Each read of the flag is
where the code reads it; `failUsesStep` reads it three times. `late` counts commands started after
the cancellation, `threw` says whether an exception ended the run. Rows of a matrix share a `JobId`.
A step of `Uses` runs an action: in jobs of `Uploads` and `Downloads` that of an artifact (one name
for the run), elsewhere checkout or a setup. `files` is the directory of the name, which each upload
empties and fills (`Upload(FALSE)`: a copy fails half-way), `artifact` the rows, oldest first,
`got[j]` what job `j` downloaded and under which row.

### RunEvents

`ended` is the stored status, `stored` and `seq` the stored events with their numbers, `cached` the
cache of the last number, `pc[e]` where the call that emits `e` stands. `entry` is the listener set
the map holds, numbered (0 is none), `members` the sets, and `setOf[c]` the set that socket `c`
joined. A socket connects, possibly with the cursor another one reached, replays what is stored,
reads the status, subscribes, and may break at any moment. `doubt` is history: two emissions counted
at once, or a restart lost a number. `Accepted` and `Final` are the first and the last event of a
run, `Early` those that come from requests and need not happen.

### GitCommands, HostMethods, HostOperations

A method is the sequence of its awaited calls, each named after the command or the function:
`HostMethods` lists them, with `Under` for `withRepositoryLock` and `Ensure` for
`ensureHostedRepository` (which every locked method begins with). A method that branches on its
input is several (`checkoutBranch`, `checkoutMain`; `createRelease` with and without a tag); a
method that branches on what it finds leaves steps out (`Omitted`), by what its probes told it
(`RepositoryExists`, `RepositoryHasHead`): a probe that fails says no, and the method goes on.
`GitCommands` says what a git command may do to a repository: `Effect` when it exits with zero (no
effect at all means it refuses), `Mess` when it does not. That module is external: git is not part
of the program. In `HostOperations` each call takes one step at a time: `Lock`, `Unlock`, `Omit`,
`RunGit`, `Look` (a read, which must find what the method asks for), `Store` (the storage adapter or
a callback of the embedder), or `Fail`, which is the exception with its `finally`. `GitIsKilled` is
the close event with a code of `null`, which `runGit` takes for zero (`run_git/process.ts:61`).
`killed`, `misread` (a call was told that HEAD has no commit when it had) and `disturbed` are
history, in which the properties name their exceptions. `repo`, `holder`, `release`, `forkRow`,
`activity`, `starred` are the disk, the lock and the rows.

### Inspection, Archives

A read is the sequence of its git commands, told apart by what they name: a ref (`read`), a hash
(`pinned`), the search for a target (`target`, in its own steps `TryRef`, `HasHead`,
`ReadCurrentBranch`, `TryBranch`, `TryHead`), the resolution of a name (`named`). A commit is a
number, and what a command reads is the commit it reads it from (`got`). Each command may also fail,
or be killed and print nothing with success (`Answers`); to the search for a target every failure is
an absent ref, and one of HEAD the word that there is no commit (`Unborn`, with `misread` as history
of a wrong one). `CommitOrPush`, `Checkout` and `DeleteBranch` move the refs meanwhile. `Archives`
has the two files of each key (`data`, `entry`), and requests that go through `resolve`, the first
lookup, the second lookup and then the stream or the generation, as `openArchive` does;
`readEntryFromDisk` is `ReadEntry`, `CheckData`, `Remove` (the two files, in either order), whoever
calls it. The output of git ends (`Generate`) and with it the caller's stream, before the exit code
is known (`Exit`); then the writer moves its files (`MoveData`, `MoveEntry`). Whatever fails on the
way leads to `Abort`: the writer is aborted first, so that the caller of `open` may have by then
what git had written, as a stream that ended well. An archive is its commit, its root directory and
whether it is whole. `Expire` and `Crash` are the environment's.

### Workflows, Transports, PushTriggers

`Workflows` has no state: a file is a record of what the code tells apart, and normalisation,
validation, matching, matrices and planning are operators on it. `AssertAcyclic` is the depth-first
search of `assertAcyclicWorkflow`: the calls of `visit` under way are a stack, each with the needs
its loop has still to come to, and `Search` is where the search stands after so many steps; it stays
one atomic guard of `Queue`, as the code awaits nothing in it. `Ordered`, its reference definition,
says that the jobs can be ordered. `Transports` asks the callbacks of one request in the order of
`Stages`, starts git, passes its headers on, and ends by a close, an abort or a response, with
`audits` the number of audit events. The first stage of HTTP is the record of the request, made of
its URL before the audit is registered; a login over SSH may be turned down (`TurnDown`, counted by
`tries`) and try again, or its client leaves (`Leave`). A push is of a branch or of the one tag.
`PushTriggers` goes on with the activity: `ReadBranch` and `ReadCommit` read HEAD when the push is
recorded, `Record` stores the activity and calls the listener of the runtime, `Target`, `List`,
`Show`, `Listed`, `Queue` are `enqueueWorkflowsForTrigger`, `Start` reads the workflow again.
`Selects` is the match of a file with what the activity carries: the branch that HEAD named, never a
tag. `Release` and `Dispatch` come in at their own steps. `Fault` is a rejected call, which the
listener swallows.

## What the runs check

| Run | Instance | Shows |
|---|---|---|
| `lock` | 4 calls, 2 keys, ids that trim to the same key, a blank id | `MutualExclusion`, `TailIsLastPending`, `ServesInOrder` (refinement), `StuckNeedsNesting`, `EveryCallIsAdmitted` |
| `runs` | 2 runs in one group that supersede each other, 1 job, 1 user, every fault | `OneRunAtATime`, `NoLostWakeup`, `AnnouncedOnce`, `CleanRunLeavesNothing`, `CancelledBeforeStart`, `EveryPushedRunEnds` |
| `runs_cancel` | 1 run, 1 user, no fault | finding: `CancelledStaysCancelled` is violated |
| `jobs` | 4 rows (a matrix of two that uploads, needed by a row planned before it; a row with `if` that downloads), 3 steps, all tempers, timeout | `NeedsHonoured`, `DownloadIsWhole`, `OneStepAfterCancel`, `VerdictBorneOut`, `EveryRunEnds` |
| `jobs_verdict` | the same, brief commands | finding: `CancelledRunIsNoSuccess` is violated |
| `jobs_cancel` | the same, no timeout, commands that obey SIGTERM | finding: `CancelledRunEnds` is violated |
| `events` | 3 emissions (one from a request), 2 sockets, 1 restart | `UniqueSequences`, `StaysReachable`, `LiveSocketIsReleased` |
| `events_gap` | 2 emissions, 1 socket | finding: `CaughtUp` is violated |
| `operations` | 2 callers of every method, a base and a fork, three beginnings, all faults (failing probes among them) | `LockIsFor`, `OnlyForksDisturb`, `SuccessKeepsPromise`, `ForkRowMeansReady`, `AssetsStay` |
| `archives` | 1 reader or 2 archive requests, 2 commits, 2 root directories, commands that fail and that are killed | `AnswerIsOfItsCommit`, `UnbornWasUnborn`, `ArchivesAreMade`, `LengthFits` |
| `requests` | 2 requests (or a release, or a dispatch), 3 commits, pushes of 2 branches and a tag, 2 rejected methods or keys, 6 directories, all 512 graphs of needs of 3 jobs | `AuditedOnce`, `QueuedInOrder`, `QueuedRunsAreOrdered`, `RunsItsCommit`, `PushIsBuilt` |
| `requests_filters` | the same, no fault, no rejected key | finding: `PushedRefMatches` is violated |

Why the bounds are enough for the cases of interest. `lock`: a chain of three behind a nested call,
two keys for a circle of two, and a call for the other key. `runs`: two runs are needed for mutual
cancellation, and with a user's call three cancellations may overlap on one run; the hazards of the
loop need one run executing and one arriving. The two runs differ in nothing but their names, so the
user is let cancel only one of them (`MCNext`). One row shows a listing that is stale when it is
written back and a row inserted after the listing; a second row multiplies the states by twenty, and
`CleanRunLeavesNothing`, which is about the rows, is proved for every number of them. `jobs`: every
way a need can fail (failed, cancelled, skipped, mixed matrix) occurs with two rows and one
dependent; three steps give one before and one after the step being cancelled, and one of them is a
`uses` step. `events`: two emissions race, the third is the last event; two sockets replace each
other's listener set. `operations`: every pair of methods that share a lock, a row or a repository
(`Meet`; a method of the host on the fork and one on the base do not, and a method of forks shares
with the base only whether it is there); each caller makes one call, so that an error and the retry
after it are a pair, too. The three beginnings are a path with files but no repository, a repository
without a commit in which files are changed and staged, and one in use, tagged, with changed and
staged files and its fork. `archives`: two requests are two writers of one key, or a writer and a
cleanup or a reader, in the same or another root directory; two commits let a ref move once and
`main` and `dev` differ. Every command of the reader may fail or be killed, so that a wrong "no
commit" comes at each of its places. The reader and the requests share only the refs and have no
effect on each other, so that either moves while the other is done. `requests`: two pushes that
overlap give the commit of the other one and a later one; one request alone goes through all stages,
refusals and exceptions, with none, one or two rejected keys before; the graphs of three jobs hold
every cycle of up to three. The largest instances are `archives` with 2.1 million states,
`operations` with 1.5 million, `runs` with 763 thousand and `requests` with 254 thousand; each takes
less than three minutes. A call, a run or an emission happens at most once, each user cancels once,
and the restart happens once: these are the bounds on unbounded behaviour. All passing runs turn the
deadlock check off because the systems stop when all calls are made; what must not stop is stated as
a liveness property.

Fairness. The event loop runs every continuation that is ready, so each step after a call has been
made is weakly fair, and making a call is not. `RepositoryLock` assumes that an operation which
awaits no other call ends. `WorkflowRuns` assumes that storage answers and that jobs end, which is
the subject of `JobExecution`: there timers fire, and a command ends only if it is brief or was sent
a signal it obeys. `RunEvents` assumes that the run ends while its process lives. `PushTriggers`
assumes that callbacks, git and the storage answer and that the steps of a trigger follow each
other, but not that a client stays: a request over HTTP whose client left is under no fairness.
`HostOperations` and `Archives` have safety properties only, and no fairness. A user's request, a
fault, a crash, a disconnection are never assumed.

## What is proved

TLC checks each property on the instance of its run; the theorems below state it for every value of
the constants. Each proof has the same frame: an invariant `IInv` that holds initially and that
every action keeps, one lemma per action or per conjunct, from which the properties follow. The
invariants were checked by TLC on the runs' instances before they were proved. What is said below of
each is why the property is not inductive by itself, and what was added.

### RepositoryLock

`RepositoryLockProofs`, for all sets of calls, ids and keys satisfying `LockAssumption` (the "none"
values differ from the others, and `KeyOf` maps ids to keys or to none):

- `TypeCorrect`: `Spec => []TypeOK`;
- `MutualExclusionHolds`: `Spec => []MutualExclusion`;
- `TailIsLastPendingHolds`: `Spec => []TailIsLastPending`;
- `ServesInOrderHolds`: `Spec => ServesInOrder`, that is, the lock refines `SerialAccess`;
- `StuckNeedsNestingHolds`: `Spec => []StuckNeedsNesting`.

A call sees only its predecessor's promise, so mutual exclusion is not inductive. The invariant
`IInv` ties the local chain to the global order: `Order` says that `ahead` is a strict order among
the unfinished calls of a key and total there; `Chain` that what is ahead of a waiting call is its
predecessor and what is ahead of that, or nothing once the predecessor is over; `Tails` that the map
entry is the last unfinished call, which is what a new call chains behind; `Gates` that gates open
and tails settle only behind finished calls. From `Chain` and `Gates`: a call admitted has nobody
ahead; from `Order`: two unfinished calls of one key are ordered, so both inside is impossible. The
refinement follows from the same facts, since the abstract entry condition is "nobody ahead".

A circle of calls that wait for one another would be a set of waiting calls, each behind another of
the set. What is ahead of a call is then a strict superset of what is ahead of its predecessor, and
among finitely many finite sets one is minimal (`SomeoneIsFirst`, from the well-foundedness of the
strict subset order). That only finitely many calls have been made at any time is the second
invariant, `Made`; the set `Call` itself may be infinite.

### WorkflowRuns

`WorkflowRunsProofs` and `WorkflowRunsOutcomeProofs`, for every number of runs, jobs and users,
every choice of groups and every set of faults satisfying `RunsAssumption` (users are not runs,
`NoRun` is neither):

- `TypeCorrect`: `Spec => []TypeOK`;
- `OneRunAtATimeHolds`: `Spec => []OneRunAtATime`;
- `NoLostWakeupHolds`: `Spec => []NoLostWakeup`;
- `CancelledBeforeStartHolds`: `Spec => CancelledBeforeStart`;
- `AnnouncedOnceHolds`: `Spec => []AnnouncedOnce`;
- `CleanRunLeavesNothingHolds`: `Spec => []CleanRunLeavesNothing`.

The guard is a Boolean that many scheduled calls test, so that one of them at most is live is
inductive only together with "the guard is set exactly while one is" (`Guard`). `Shape` says that a
live loop has a run in hand and, once it has judged it, a final verdict; without it a step could
write a status that is none. `LoopStep` summarises what any step of a loop does to the guard, the
state objects and the queue; one lemma (`LoopStepKeeps`) shows that such a step keeps the invariant,
and every action of the loop is shown to be one. The single exception is a second loop that finds
the guard set and gives up. `CancelledBeforeStart` holds because the steps behind the second look
concern the run in hand alone (`QuietRun`), and the look itself turns a cancelled run away.

The last two properties speak only of a run that is over. `TracedInv`, on top of `IInv`, follows a
run from its submission to there. `Placed` says that it is in one place: before its push, in the
queue once, in the hand of the one live loop, or over; if it could be in two, one loop would write
behind the other's back. `Traced` says what its status, its rows and its events are at each of them.
The difficult places are the failure paths: a verdict of `failed` must have a row that bears it out,
or an exception behind it, already when it is passed, before the queued rows have been listed and
marked one by one; and an exception may come when a verdict is stored and not yet announced, so that
it is passed a second time. The
invariant speaks of runs outside `passive` only; that a cancellation which lists, marks and writes
has put its run there is a part of `Placed`.

### JobExecution

`JobExecutionProofs`, for any number of jobs and steps, any rows per job, conditions, actions and
commands satisfying `JobAssumption` (needs are acyclic, as `assertAcyclicWorkflow` has checked; no
job uploads and downloads):

- `TypeCorrect`: `Spec => []TypeOK`;
- `NeedsHonouredHolds`: `Spec => NeedsHonoured`;
- `OneStepAfterCancelHolds`: `Spec => []OneStepAfterCancel`;
- `VerdictBorneOutHolds`: `Spec => []VerdictBorneOut`;
- `DownloadIsWholeHolds`: `Spec => []DownloadIsWhole`.

`Place` says that every row is pending, returned, or the one in hand, and `InHand` that before the
step under way all have passed and behind it all wait, so that a job that reaches its end has no
failed step, and one that failed has. `Rows` says that a row that has returned is final and borne
out, one still pending untouched. `VerdictBorneOut` then follows from the statuses the run is
aggregated from. `NeedsMet` remembers, from the moment a row is picked, that the rows it needs have
returned: `NeedsHonoured` is about the later step that writes `running`. `Late` says where the
executor cannot be any more once something has had an effect after the request, which makes
`late <= 1` inductive. `Shelf` says whose files the shared directory of an artifact holds: those of
the newest row, or an upload failed for good, or the uploader in hand is about to fail;
`DownloadIsWhole` follows because one job at a time is in hand.

### RunEvents

`RunEventsProofs`, for any finite sets of emissions and sockets (`EventsAssumption`; `Accepted` and
`Final` are two of them):

- `TypeCorrect`: `Spec => []TypeOK`, numbers being at most the number of emissions;
- `UniqueSequencesHolds`: `Spec => []UniqueSequences`;
- `StaysReachableHolds`: `Spec => []StaysReachable`.

Even the type is not obvious: that no number exceeds the emissions needs `Counting`, by which the
cache and each count that is under way leave room for the emissions that have no number yet.
`Numbering` says that, while numbering is not in `doubt`, the cache is either the last number handed
out or absent, and that in the second case one emission at most is counting the stored ones, all of
which have a number. `Reach` adds to `StaysReachable` what a socket that does not listen has not
joined, because `close` removes a set from the map when it is empty, and the sets that replace one
another must not be confused. `Ends` says that the terminal event, and with it the word that the run
is done, comes after the stored status.

### HostOperations

`HostOperationsProofs`, for any callers, whatever they ask for, any repositories to begin with and
any faults satisfying `OperationsAssumption` (what is asked for are methods of the table, forks are
made at the path of forks, and a fork with an upstream to begin with is made and hosted):

- `TypeCorrect`: `Spec => []TypeOK`;
- `LockIsForItsHolder`: `Spec => []LockIsFor`;
- `OnlyForksDisturbHolds`: `Spec => OnlyForksDisturb`;
- `ForkRowMeansReadyHolds`: `Spec => []ForkRowMeansReady`;
- `AssetsStayHolds`: `Spec => AssetsStay`;
- `SuccessKeepsPromiseHolds`: `Spec => SuccessKeepsPromise`.

That the holder of a lock still runs says nothing about the step at which it gives the lock back.
The invariant `LockInv` ties the two: a call holds the lock of its repository exactly while the
place where it stands is `Held`, that is, a `lock` lies behind it and no `unlock` since.
`MethodsAssumption` says of the table that a method takes a lock only where it holds none, gives
back only what it holds, holds none at its end, and runs git only in between, the forks' methods
excepted, and which methods write the row of a fork and the assets of a release; it is an assumption
about constants that have a value, and TLC evaluates it on every run of the module (the table itself
is a finite case analysis of sequences, which the provers do not compute). The lemma `HeldNext` says
how `Held` changes from one step to the next; with it each action is shown to keep the invariant. A
step that changes a repository is a step of git, so that its caller holds the lock, and the holder
is one.

`ForkInv` says of each call of `createFork` what lies behind the step where it stands: beyond the
configuration the fork is made and hosted, beyond the next step it has its upstream, unless a
command was killed; and no step of any method takes these three back (`RepoStays`: git has no
command here that unmakes a repository or drops a remote). That the row is written behind both is
computed from the joined sequences (`CreateForkSteps`). `AssetsStay` needs that a row which a call
makes keeps the assets it was made with (`RowInv`), which is why writing it a second time would lose
none; what a publish takes out it takes out of the list it has read, and by the file name.

`SuccessKeepsPromise` is about the step at which a call returns, and the promise was mostly brought
about long before. `Brings` names the steps that do, of each method; `PromisesAssumption` (again a
fact about the constant table, which TLC evaluates) says that every method has them, that behind one
whose effect could be taken back the method keeps its lock to the end, runs no git that would and
does not probe again, and that no commit is made between the look at HEAD and the step that relies
on it. `WroughtInv` then says of each running call whose commands were not killed, whose repository
nobody disturbed and which was not misread to: what the steps behind it have brought about still
holds, always if it is `Lasting` (no step of any method takes it back), otherwise while the call
holds the lock.

`discardPaths`, `discardUntracked` and `unstagePaths` do what they were told is right: restore where
HEAD has a commit, clean or `rm --cached` where it has none. `HeadInv` says that what a call was
told of HEAD, if it is that there is no commit, stays right while it holds the lock; the other answer
may be wrong too (a killed `rev-parse` counts as success), but then the restore refuses, and no
success is reported. `ensureRepository` is promised only for the repository it makes: one that its
probe finds is taken as it is.

### Inspection and Archives

`ArchivesProofs`, for any sets of readers, requests and root directories, any number of commits and
any faults of git commands:

- `TypeCorrect`: `Spec => []TypeOK`;
- `UnbornWasUnbornHolds`: `Spec => []UnbornWasUnborn`;
- `AnswerIsOfItsCommitHolds`: `Spec => []AnswerIsOfItsCommit`;
- `ArchivesAreMadeHolds`: `Spec => []ArchivesAreMade`;
- `LengthFitsHolds`: `Spec => []LengthFits`.

An answer is the end of several commands. `ReadInv` says of a read under way that what it has read
is of the commit its ref is at, unless the ref has moved since, that a `readCommit` has read by the
hash alone, and that HEAD keeps the commit it had when the read began: an answer of "unborn" to a
read that began with a commit was then given to a failed `rev-parse`, which is what `misread`
records. Of the programs only their shape is used: a target comes first, and only `readCommit` reads
by a hash (`ProgramSteps`). `Honest` says that everything a request holds (the entry of its first
lookup, that of its second, and, once git has exited, the body) was made for its key, that a body is
of its key even before, and that only an `open` keeps one when it fails; `CacheInv` says the first
of the two files, wherever writers, cleanups and a crash have left them: `made` only grows, so a
file that is overwritten between two looks stays one that was made. `LengthFits` follows: two sizes
that differ are two archives made for one key.

### Transports and PushTriggers

`PushTriggersProofs`, for any number of requests and commits and any workflow directories, valid,
broken or cyclic, and any number of rejected keys (`TriggersAssumption` says that file names are
numbers here, each the name of one file of a directory, that a file has finitely many jobs, and that
the axes of a matrix have values, as the normaliser sees to):

- `TypeCorrect`: `Spec => []TypeOK`;
- `AuditedOnceHolds`: `Spec => []AuditedOnce`;
- `RunsItsCommitHolds`: `Spec => []RunsItsCommit`;
- `QueuedInOrderHolds`: `Spec => []QueuedInOrder`;
- `QueuedRunsAreOrderedHolds`: `Spec => []QueuedRunsAreOrdered`;
- `AcyclicIsOrdered`: for any finite graph of needs, `AssertAcyclic` holds exactly if every needed
  job is known and the jobs can be put in an order.

`Audits` counts how many audits there have been at each point of a request, not only at its end,
besides those its login was turned down for, and
`Placed` says where the process of a request can be; without it the close of a process that never
started could not be told from that of one that did. `TrigInv` follows a trigger: from the moment
its commit is known until its runs are queued it is of the commit its ref is at, and what it has
listed is in that commit, unless the ref moved or HEAD switched while it was read. `OrderInv`, a
second invariant on top, is what the loop over the workflows keeps at any point it may break at:
`Awaited` says that a workflow the trigger wants is still to be read, or listed, or has its run,
`Behind` that a trigger is done with the workflow of each of its runs (it is not listed any more, so
it cannot be queued again), `InFront` that the wanted ones before it have theirs. The step that
needs all three is `Queue` itself, which takes the least listed name: what is wanted in front of it
is no longer listed.

The search for cycles is proved correct, not only safe. `Search` is a recursive function of a number
of steps; that a function with its equations exists, and every fact about all its steps, is shown by
the least number at which it would fail (`LeastNatural`, from the well-foundedness of the numbers),
since induction itself is not to be had from the provers. `Progress` is what holds after each step.
`Path`: the stack holds different jobs, none of them visited, each needed by the one below; a loop
has left behind only what is visited, or being visited above it. `Settled`: the visited jobs need
only visited ones and are ordered, which a call that returns keeps because its loop has nothing
left. `Effort`: a step looks at a need that was not looked at before, enters a job or leaves one, so
that `Longest` steps, quadratic in the number of jobs, always suffice. A throw is right because the
jobs on the stack from the repeated one upwards form a circle. `QueuedRunsAreOrdered` follows, since
a run keeps the file it was queued of (`RunsStem`); and so does the assumption on needs that the
proofs of `JobExecution` start from.

### Only model-checked

- Liveness: `EveryCallIsAdmitted`, `EveryPushedRunEnds`, `EveryRunEnds`, `LiveSocketIsReleased`,
  `PushIsBuilt`. It is out of the prover's reach.
- That an acyclic graph of needs leaves no job pending for ever is a part of `EveryRunEnds`.

Every safety invariant and every action property of a passing run is a theorem.

## Findings

- `runs_cancel` (`run/execute.ts:45`): `startRunExecution` reads the run, then writes `starting`;
  the run is registered in `activeRuns` later still. A cancellation in between writes `cancelled`,
  announces it and returns; the executor overwrites it and runs every job. `CancelledBeforeStart` is
  what does hold: a run cancelled before the second look is never executed.
- `jobs_verdict` (`job/execute.ts:210`): a cancellation seen between two steps cancels the remaining
  steps one by one and then finalises the job as a success; in the last job, the run too.
- `jobs_cancel` (`job/step/execute.ts:237`): a cancellation between the look at the flag and the
  spawn signals nobody; the command is started and, without `execTimeoutMs`, may run for ever.
- `events_gap` (`api/forge/socket_subscription.ts:286`): an event between the replay and the
  subscription is sent by neither; a later one moves the client's cursor past it.
- `requests_filters` (`activity.ts:106`): `README.md:177` lists `on.push.branches` and `on.push.tags`
  as supported, but the activity of a push carries the branch that HEAD names and no tag. A push to
  `dev` while HEAD is at `main` runs the workflows that name only `main`, and none that name `dev`;
  `on.push.tags` matches no push, unless by `*`. What does hold is `QueuedInOrder`: of the workflows
  that match HEAD's branch none is left out or queued twice.

Model-checking also showed behaviours the properties exclude by name, because no document denies
them: runs `stranded` by an exception outside the `try` block or by a restart; two submissions that
cancel each other; numbers given twice when two emissions count at once (`doubt`). Others of this
kind, where a reader of the code should look:

- `run_git/process.ts:67` (and `ssh/server.ts:264`, `archive/generation.ts:41`): the exit code of a
  process killed by a signal is `null`, which counts as zero. A method reports success for a command
  that did nothing (`killed`), and a truncated archive is cached and served with its own length
  (`"kill"` in the faults of `Archives`).
- `run/execute.ts:193`, `job/execute.ts:260`: the row of the last job is stored as success and then
  its event, the list of the rows or the final status is refused: the run ends as failed over rows
  that all succeeded (`thrown`). When the handler of the failure is refused too, the run never ends
  (`stranded`).
- `host_runtime.ts:274`: a repository whose initial commit or `set-url` failed exists at the next
  call, which takes it for whole: it stays without a commit, or with the credentials in its url. The
  other way round, a failed probe of a repository that is there runs `init` on it, which may turn
  its HEAD to `main`, and commits the user's changes as the initial commit.
- `working_tree/shared.ts:57`, `inspection/target.ts:35`: any failure of `rev-parse` counts as no
  commit (`misread`). `discardPaths` then skips the restore, removes untracked files and reports
  success with the changes kept; an inspection answers that the repository is empty.
- `archive/open.ts:104-110`, `:166`, `api/handler/archive.ts:79`: the stream of an archive ends with
  git's output, before its exit code is known, and is destroyed only after the writer was aborted: a
  client may have a complete-looking 200 with a truncated archive. Nothing looks at `completed` in
  the handler, so its rejection is unhandled, which by default ends a Node process (`Crash`).
- `fork_methods.ts:80`, `fork_methods.ts:23`: `createFork`, `listForks` and `syncFork` run git in
  repositories whose lock they do not hold; a method of the host that works there at the same time
  may find its branch switched or a merge in progress (`disturbed`).
- `release_assets.ts:149`: two publications on one release read the same list and the second writes
  the first one's asset away; a release that is deleted meanwhile gives success with nothing
  recorded. `release_methods.ts:190`: with a `normalizeAssets` in the asset store, an update that
  does not mention assets empties them; one that does replaces the published ones.
- `release_methods.ts:237-250`, `:156`: the row goes before the tag and the tag comes before the
  row; a failure in between leaves the other.
- `archive/open.ts:206`: the key of the cache does not contain the root directory; requests with
  different ones share an entry, and an answer may carry the length of another's. A temporary file
  whose writer died is never removed.
- `inspection/snapshots.ts:60`, `inspect/linguist.ts:204`: a commit is resolved and reported, then
  the tree is read at the ref: the entries may be those of another commit (`moved`). `readCommit`
  and the archives read at the hash.
- `workflows.ts:168`, `runtime/api.ts:112`: one file that does not parse, or one cycle of needs,
  loses the trigger without a word.
- `ssh/server.ts:281`: `error` and then `close` of a git that does not start write two audit events;
  an exception in a callback of SSH writes none and answers nothing. `ssh/server.ts:49`: each method
  and key that is turned down is audited (`tries`), so that an ordinary push leaves a rejection, too.
  `http/handler.ts:275`: a URL that does not parse is answered with 500 and not audited; `:91`: a
  response that never finishes is not audited, and its push triggers nothing.
- `actions/artifacts.ts:104`: all uploads of one name in a run share a directory. When two children
  of a matrix upload one name, the rows of both lead to the files of the second; a copy that fails
  leaves half of them.

## Abstractions

Names, payloads, messages, logs and timestamps are left out. Secrets are only present or absent. A
run's rows are inserted in planned order and executed in any order in `WorkflowRuns`, in dependency
order in `JobExecution`. When one write of `markQueuedJobsAndSteps` is refused its siblings, which
were started together, are taken to have landed before the handler goes on, or not at all. The
storage is modelled as rows that are read and written one at a time
with an await each, which covers the in-memory adapter and slower ones.

`GitCommands` has two branches, one tag, one remote and one upstream; commits and contents are left
out, so that a merge either changes nothing that shows, stays uncommitted as asked, or stops at a
conflict. `revert`, which the host can continue and abort but never begins, is left out. An asset is
named for the call that publishes it, and has one of two file names. Methods that only read
(`listBranches`, `listTags`, `readWorkingTree`, lists of releases and activities) take no lock and
change nothing; those that a mutating method calls are steps of it. `watch`, `unwatch` and `unstar`
are `starRepository` on another row.

In `Archives` an archive stands for its size: two that are equal have equal lengths, two that differ
may be told apart. Repository, format and version of the key are fixed. A cleanup goes through one
key. What a failed generation leaves in a
caller's hands is of no length: whole or broken off is all that is told. A client of HTTP that goes
away leaves a stream nobody reads (`api/handler/archive.ts:83`), on which git may wait for ever: no
liveness is stated of archives. In `Transports` bytes, headers and credentials are left out; an SSH
connection gives one command. In `Inspection` and `PushTriggers` HEAD names a branch: it
is never detached, and the commits of a repository are on one line. The check that a repository is
there, with which every inspection begins, is left out: it is. A name or pattern of a filter is
a branch, a tag or the star. What a dispatch passes as inputs is left out.

## Not modelled

- Expressions, redaction, environments, parsing of git output, rendering of trees, languages:
  functions on text, whose only state is the text that every model here abstracts.
- JSON APIs, the linguist socket, configuration: a call is parsed, authorised, passed on and
  serialised; no state of their own. In the linguist socket an authorisation that throws is an
  unhandled rejection and the client is never told.
- The runners of `core/actions/runner.ts` and `go/`: one process that runs the steps of one job in
  order and prints lines of JSON; the forge runtime does not use them.
- Redirect urls and links of archives and assets, and caches other than the one on the file system:
  supplied by the embedder.
- The smart HTTP protocol and the object database: git's.

The liveness of real storage and real commands is assumed, never shown. What would be worth adding
next is the runners' protocol of lines.
