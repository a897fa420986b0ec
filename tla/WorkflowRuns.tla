----------------------------- MODULE WorkflowRuns -----------------------------
(***************************************************************************)
(* The life of workflow runs in the Actions runtime: queueWorkflowRun      *)
(* writes a run and its job rows, cancels rivals of its concurrency group  *)
(* and pushes the run on an in-memory queue; processQueue drains the queue *)
(* one run at a time; cancelWorkflowRun may be called for any run at any   *)
(* moment.  Storage is read and written by awaited calls, so every read    *)
(* and every write is an action of its own and what was read may be stale. *)
(*                                                                         *)
(* A job is a row with a status; what happens inside a job is the subject  *)
(* of JobExecution, here it ends with any status or throws.                *)
(***************************************************************************)
EXTENDS Integers, Sequences, FiniteSets

CONSTANTS Run,       \* the runs that are queued, one queueWorkflowRun call each
          JobCount,  \* the number of planned jobs of a run
          User,      \* calls of cancelWorkflowRun by users
          Group,     \* Group[r]: the concurrency group of r, or NoGroup
          NoGroup,
          Supersedes,\* the runs whose workflow sets cancel-in-progress
          NoRun,
          Faults     \* which failures happen, see FaultKind

Job == 1..JobCount           \* the job rows of a run, in planned order
Canceller == User \cup Run   \* a queueWorkflowRun call cancels its rivals itself

\* A rejected insert of queueWorkflowRun; a rejection before the try block of
\* executeRun, in it, and in its catch block; the end of the process.
FaultKind == {"submit", "prepare", "job", "handler", "crash"}

ASSUME RunsAssumption ==
  /\ JobCount \in Nat
  /\ User \cap Run = {}
  /\ NoRun \notin Run
  /\ Supersedes \subseteq Run
  /\ Faults \subseteq FaultKind

VARIABLES
  status,     \* storage: the status of each run
  rows,       \* storage: the status of each job row
  announced,  \* storage: the terminal events of each run, in order of emission
  submit,     \* submit[r]: progress of the queueWorkflowRun call of r
  rivals,     \* rivals[r]: the runs that call still has to cancel
  cancel,     \* cancel[p]: progress of the cancelWorkflowRun call made by p
  queue,      \* queuedRuns
  processing, \* processingRef.value
  loop,       \* loop[r]: the processQueue call that the push of r scheduled
  active,     \* activeRuns: the runs whose state object is registered
  requested,  \* the runs whose state object has cancelRequested
  contexts,   \* runExecutionContexts: the runs whose secrets are held
  passive,    \* history: runs some cancel call found without a state object
  stranded,   \* history: runs a failure has left behind
  thrown      \* history: runs whose try block was left by an exception

vars == <<status, rows, announced, submit, rivals, cancel, queue, processing,
          loop, active, requested, contexts, passive, stranded, thrown>>
storage == <<status, rows, announced>>
caller == <<submit, rivals, cancel>>
engine == <<queue, processing, loop, active, requested, contexts>>
history == <<passive, stranded, thrown>>

TerminalStatus == {"success", "failed", "cancelled", "skipped"}
RunStatus == {"absent", "queued", "starting", "running"} \cup TerminalStatus
RowStatus == {"absent", "queued", "running"} \cup TerminalStatus
Terminal(r) == status[r] \in TerminalStatus

\* Where a processQueue call stands; it is live from poll to announce.
LivePc == {"poll", "exec", "start", "prepare", "jobs", "job", "begun", "running",
           "tally", "list", "mark", "write", "announce"}
LoopPc == {"none", "scheduled", "ended"} \cup LivePc
CancelPc == {"idle", "look", "ask", "list", "mark", "write", "announce"}
SubmitPc == {"new", "creating", "accepted", "listing", "rivals", "pushed", "lost"}
Outcome == TerminalStatus \cup {"none"}

LoopState == [pc : LoopPc, run : Run \cup {NoRun}, pending : SUBSET Job, job : Job \cup {0},
              marks : SUBSET Job, markAs : Outcome, verdict : Outcome, caught : BOOLEAN]
CancelState == [pc : CancelPc, run : Run \cup {NoRun}, marks : SUBSET Job, used : BOOLEAN]

IdleLoop == [pc |-> "none", run |-> NoRun, pending |-> {}, job |-> 0,
             marks |-> {}, markAs |-> "none", verdict |-> "none", caught |-> FALSE]
IdleCancel == [pc |-> "idle", run |-> NoRun, marks |-> {}, used |-> FALSE]

TypeOK ==
  /\ status \in [Run -> RunStatus]
  /\ rows \in [Run -> [Job -> RowStatus]]
  /\ announced \in [Run -> Seq(TerminalStatus)]
  /\ submit \in [Run -> SubmitPc]
  /\ rivals \in [Run -> SUBSET Run]
  /\ cancel \in [Canceller -> CancelState]
  /\ queue \in Seq(Run)
  /\ processing \in BOOLEAN
  /\ loop \in [Run -> LoopState]
  /\ active \in SUBSET Run
  /\ requested \in SUBSET Run
  /\ contexts \in SUBSET Run
  /\ passive \in SUBSET Run
  /\ stranded \in SUBSET Run
  /\ thrown \in SUBSET Run

Init ==
  /\ status = [r \in Run |-> "absent"]
  /\ rows = [r \in Run |-> [j \in Job |-> "absent"]]
  /\ announced = [r \in Run |-> <<>>]
  /\ submit = [r \in Run |-> "new"]
  /\ rivals = [r \in Run |-> {}]
  /\ cancel = [p \in Canceller |-> IdleCancel]
  /\ queue = <<>>
  /\ processing = FALSE
  /\ loop = [r \in Run |-> IdleLoop]
  /\ active = {} /\ requested = {} /\ contexts = {}
  /\ passive = {} /\ stranded = {} /\ thrown = {}

SetStatus(r, s) == status' = [status EXCEPT ![r] = s]
Announce(r, s) == announced' = [announced EXCEPT ![r] = Append(@, s)]

-----------------------------------------------------------------------------
(* queueWorkflowRun.                                                       *)

\* createQueuedRun: the run row exists from here on, with status queued.
CreateRun(r) ==
  /\ submit[r] = "new" /\ status[r] = "absent"  \* the id is fresh
  /\ submit' = [submit EXCEPT ![r] = "creating"]
  /\ SetStatus(r, "queued")
  /\ UNCHANGED <<rows, announced, rivals, cancel, engine, history>>

\* createPlannedJobRuns: one awaited insert per job, in index order.
CreateJob(r, j) ==
  /\ submit[r] = "creating"
  /\ rows[r][j] = "absent"
  /\ \A i \in Job : i < j => rows[r][i] # "absent"
  /\ rows' = [rows EXCEPT ![r][j] = "queued"]
  /\ UNCHANGED <<status, announced, caller, engine, history>>

\* emitAcceptedRun, then the secrets are kept for the executor.
Accept(r) ==
  /\ submit[r] = "creating"
  /\ \A j \in Job : rows[r][j] # "absent"
  /\ contexts' = contexts \cup {r}
  /\ submit' = [submit EXCEPT ![r] =
       IF Group[r] # NoGroup /\ r \in Supersedes THEN "listing" ELSE "accepted"]
  /\ UNCHANGED <<storage, rivals, cancel, queue, processing, loop, active, requested, history>>

\* cancelConflictingRuns reads the unfinished runs of the group once ...
ListRivals(r) ==
  /\ submit[r] = "listing"
  /\ rivals' = [rivals EXCEPT ![r] =
       {x \in Run \ {r} : Group[x] = Group[r] /\ status[x] \in {"queued", "running", "starting"}}]
  /\ submit' = [submit EXCEPT ![r] = "rivals"]
  /\ UNCHANGED <<storage, cancel, engine, history>>

\* ... and when it has cancelled each of them the run can be pushed.
RivalsDone(r) ==
  /\ submit[r] = "rivals" /\ rivals[r] = {} /\ cancel[r].pc = "idle"
  /\ submit' = [submit EXCEPT ![r] = "accepted"]
  /\ UNCHANGED <<storage, rivals, cancel, engine, history>>

\* queuedRuns.push and scheduleQueueProcessing, with no await in between.
Push(r) ==
  /\ submit[r] = "accepted"
  /\ submit' = [submit EXCEPT ![r] = "pushed"]
  /\ queue' = Append(queue, r)
  /\ loop' = IF processing THEN loop ELSE [loop EXCEPT ![r].pc = "scheduled"]
  /\ stranded' = IF processing THEN stranded ELSE stranded \ {queue[i] : i \in DOMAIN queue}
  /\ UNCHANGED <<storage, rivals, cancel, processing, active, requested, contexts, passive, thrown>>

\* An insert, the event or the cancellation of a rival fails: the call rejects
\* and what it has written stays.
SubmitFails(r) ==
  /\ "submit" \in Faults
  /\ submit[r] \in {"creating", "listing", "rivals"}
  /\ cancel[r].pc = "idle"
  /\ submit' = [submit EXCEPT ![r] = "lost"]
  /\ stranded' = stranded \cup {r}
  /\ UNCHANGED <<storage, rivals, cancel, engine, passive, thrown>>

-----------------------------------------------------------------------------
(* cancelWorkflowRun, called by p for run r.                               *)

\* Whose turn it is to call: each user once, a submitter once per rival.
MayCancel(p, r) ==
  /\ cancel[p].pc = "idle"
  /\ \/ p \in User /\ ~cancel[p].used /\ status[r] # "absent"
     \/ p \in Run /\ submit[p] = "rivals" /\ r \in rivals[p]

\* The run is read; a finished one is returned as it is.
CancelReads(p, r) ==
  /\ MayCancel(p, r)
  /\ rivals' = [x \in Run |-> IF x = p THEN rivals[x] \ {r} ELSE rivals[x]]
  /\ cancel' = [cancel EXCEPT ![p] =
       [pc |-> IF Terminal(r) THEN "idle" ELSE "look", run |-> r, marks |-> {}, used |-> TRUE]]
  /\ UNCHANGED <<storage, submit, engine, history>>

\* When the read returns, activeRuns is consulted and the
\* run.cancellation_requested event is emitted.
CancelLooks(p) ==
  LET r == cancel[p].run IN
  /\ cancel[p].pc = "look"
  /\ cancel' = [cancel EXCEPT ![p].pc = IF r \in active THEN "ask" ELSE "list"]
  /\ passive' = IF r \in active THEN passive ELSE passive \cup {r}
  /\ UNCHANGED <<storage, submit, rivals, engine, stranded, thrown>>

\* Mutant: the return after flagging the state object is missing.
CancelAsksAndGoesOn(p) ==
  /\ cancel[p].pc = "ask"
  /\ requested' = requested \cup {cancel[p].run}
  /\ cancel' = [cancel EXCEPT ![p].pc = "list"]
  /\ UNCHANGED <<storage, submit, rivals, queue, processing, loop, active, contexts, history>>

\* A registered state object is flagged and its child signalled; only the
\* summary of the run is updated.
CancelAsks(p) ==
  /\ cancel[p].pc = "ask"
  /\ requested' = requested \cup {cancel[p].run}
  /\ cancel' = [cancel EXCEPT ![p].pc = "idle"]
  /\ UNCHANGED <<storage, submit, rivals, queue, processing, loop, active, contexts, history>>

\* markQueuedJobsAndSteps lists the rows, then writes those it saw queued.
CancelLists(p) ==
  /\ cancel[p].pc = "list"
  /\ cancel' = [cancel EXCEPT ![p].pc = "mark",
                              ![p].marks = {j \in Job : rows[cancel[p].run][j] = "queued"}]
  /\ UNCHANGED <<storage, submit, rivals, engine, history>>

CancelMarks(p, j) ==
  /\ cancel[p].pc = "mark" /\ j \in cancel[p].marks
  /\ rows' = [rows EXCEPT ![cancel[p].run][j] = "cancelled"]
  /\ cancel' = [cancel EXCEPT ![p].marks = @ \ {j}]
  /\ UNCHANGED <<status, announced, submit, rivals, engine, history>>

CancelWrites(p) ==
  /\ cancel[p].pc = "mark" /\ cancel[p].marks = {}
  /\ SetStatus(cancel[p].run, "cancelled")
  /\ cancel' = [cancel EXCEPT ![p].pc = "announce"]
  /\ UNCHANGED <<rows, announced, submit, rivals, engine, history>>

CancelAnnounces(p) ==
  /\ cancel[p].pc = "announce"
  /\ Announce(cancel[p].run, "cancelled")
  /\ cancel' = [cancel EXCEPT ![p].pc = "idle"]
  /\ UNCHANGED <<status, rows, submit, rivals, engine, history>>

-----------------------------------------------------------------------------
(* processQueue and executeRun, in the call that the push of m scheduled.  *)

At(m, pc) == loop[m].pc = pc
Goto(m, pc) == loop' = [loop EXCEPT ![m].pc = pc]

\* Mutant: the guard is not reset when the queue has been drained.
TakeNextKeepsGuard(m) ==
  \/ /\ queue = <<>>
     /\ loop' = [loop EXCEPT ![m] = [IdleLoop EXCEPT !.pc = "ended"]]
     /\ UNCHANGED <<queue, processing>>
  \/ /\ queue # <<>>
     /\ processing' = TRUE
     /\ loop' = [loop EXCEPT ![m] = [IdleLoop EXCEPT !.pc = "poll", !.run = Head(queue)]]
     /\ queue' = Tail(queue)

\* The head of the while loop: take the next run, or stop.
TakeNext(m) ==
  \/ /\ queue = <<>>
     /\ processing' = FALSE
     /\ loop' = [loop EXCEPT ![m] = [IdleLoop EXCEPT !.pc = "ended"]]
     /\ UNCHANGED queue
  \/ /\ queue # <<>>
     /\ processing' = TRUE
     /\ loop' = [loop EXCEPT ![m] = [IdleLoop EXCEPT !.pc = "poll", !.run = Head(queue)]]
     /\ queue' = Tail(queue)

\* Mutant: processQueue does not test the guard.
StartLoopUnguarded(m) ==
  /\ At(m, "scheduled") /\ TakeNext(m)
  /\ UNCHANGED <<storage, caller, active, requested, contexts, history>>

\* The microtask runs; a second loop does not start beside a live one.
StartLoop(m) ==
  /\ At(m, "scheduled")
  /\ \/ processing /\ Goto(m, "ended") /\ UNCHANGED <<queue, processing>>
     \/ ~processing /\ TakeNext(m)
  /\ UNCHANGED <<storage, caller, active, requested, contexts, history>>

\* Mutant: a run that ended while it was queued ends the loop.
PollReturns(m) ==
  /\ At(m, "poll")
  /\ \/ /\ Terminal(loop[m].run) /\ processing' = FALSE
        /\ loop' = [loop EXCEPT ![m] = [IdleLoop EXCEPT !.pc = "ended"]]
     \/ ~Terminal(loop[m].run) /\ Goto(m, "exec") /\ UNCHANGED processing
  /\ UNCHANGED <<storage, caller, queue, active, requested, contexts, history>>

\* A run that ended while it was queued is passed over ...
Poll(m) ==
  /\ At(m, "poll")
  /\ \/ Terminal(loop[m].run) /\ TakeNext(m)
     \/ ~Terminal(loop[m].run) /\ Goto(m, "exec") /\ UNCHANGED <<queue, processing>>
  /\ UNCHANGED <<storage, caller, active, requested, contexts, history>>

\* Mutant: executeRun trusts the status the loop has read.
ReadAgainBlindly(m) ==
  /\ At(m, "exec") /\ Goto(m, "start")
  /\ UNCHANGED <<storage, caller, queue, processing, active, requested, contexts, history>>

\* ... and executeRun reads it once more before it starts it.
ReadAgain(m) ==
  /\ At(m, "exec")
  /\ \/ Terminal(loop[m].run) /\ TakeNext(m)
     \/ ~Terminal(loop[m].run) /\ Goto(m, "start") /\ UNCHANGED <<queue, processing>>
  /\ UNCHANGED <<storage, caller, active, requested, contexts, history>>

MarkStarting(m) ==
  /\ At(m, "start")
  /\ SetStatus(loop[m].run, "starting")
  /\ Goto(m, "prepare")
  /\ UNCHANGED <<rows, announced, caller, queue, processing, active, requested, contexts, history>>

\* The repository path and the workflow at the run's ref are read, the state
\* object is registered and the job rows are listed.
Prepare(m) ==
  /\ At(m, "prepare")
  /\ active' = active \cup {loop[m].run}
  /\ loop' = [loop EXCEPT ![m].pc = "jobs",
                          ![m].pending = {j \in Job : rows[loop[m].run][j] # "absent"}]
  /\ UNCHANGED <<storage, caller, queue, processing, requested, contexts, history>>

\* A call before the try block rejects, one of the two looks at the run or the
\* event of its start included: the loop dies and leaves the run as it is, and
\* what is queued waits for the next push.
PrepareThrows(m) ==
  /\ "prepare" \in Faults
  /\ loop[m].pc \in {"poll", "exec", "start", "prepare"}
  /\ processing' = FALSE
  /\ loop' = [loop EXCEPT ![m] = [IdleLoop EXCEPT !.pc = "ended"]]
  /\ stranded' = stranded \cup {loop[m].run} \cup {queue[i] : i \in DOMAIN queue}
  /\ UNCHANGED <<storage, caller, queue, active, requested, contexts, passive, thrown>>

\* Mutant: a cancelled run is finalised without its status.
NextJobForgetsVerdict(m) ==
  /\ At(m, "jobs")
  /\ \/ loop[m].pending = {} /\ Goto(m, "tally")
     \/ loop[m].pending # {} /\ Goto(m, "list")
  /\ UNCHANGED <<storage, caller, queue, processing, active, requested, contexts, history>>

\* runPendingJobs: the flag is looked at before every job; the needs of the
\* jobs, not modelled here, decide which of them is the next.
NextJob(m) ==
  /\ At(m, "jobs")
  /\ \/ /\ loop[m].pending = {}
        /\ Goto(m, "tally")
     \/ /\ loop[m].pending # {} /\ loop[m].run \in requested
        /\ loop' = [loop EXCEPT ![m].pc = "list", ![m].markAs = "cancelled", ![m].verdict = "cancelled"]
     \/ /\ loop[m].pending # {} /\ loop[m].run \notin requested
        /\ \E j \in loop[m].pending :
             loop' = [loop EXCEPT ![m].pc = "job", ![m].job = j, ![m].pending = @ \ {j}]
  /\ UNCHANGED <<storage, caller, queue, processing, active, requested, contexts, history>>

\* The job is not started: skipped, cancelled or refused by the runner.
SettleJobUnstarted(m, s) ==
  /\ At(m, "job")
  /\ s \in {"skipped", "cancelled", "failed"}
  /\ rows' = [rows EXCEPT ![loop[m].run][loop[m].job] = s]
  /\ Goto(m, "jobs")
  /\ UNCHANGED <<status, announced, caller, queue, processing, active, requested, contexts, history>>

\* startJobExecution marks the row, then the run, as running.
StartJobRow(m) ==
  /\ At(m, "job")
  /\ rows' = [rows EXCEPT ![loop[m].run][loop[m].job] = "running"]
  /\ Goto(m, "begun")
  /\ UNCHANGED <<status, announced, caller, queue, processing, active, requested, contexts, history>>

\* So does every step that is started later in the job.
MarkRunning(m) ==
  /\ loop[m].pc \in {"begun", "running"}
  /\ SetStatus(loop[m].run, "running")
  /\ Goto(m, "running")
  /\ UNCHANGED <<rows, announced, caller, queue, processing, active, requested, contexts, history>>

FinishJob(m, s) ==
  /\ At(m, "running")
  /\ s \in {"success", "failed", "cancelled"}
  /\ rows' = [rows EXCEPT ![loop[m].run][loop[m].job] = s]
  /\ Goto(m, "jobs")
  /\ UNCHANGED <<status, announced, caller, queue, processing, active, requested, contexts, history>>

\* A call in the try block rejects and handleRunFailure takes over: in a job
\* (workspace, spawn, storage), between two of them (the event of a job whose row
\* already carries its result, the list of the rows), at the tally, while queued
\* rows are marked, when the status is stored, or when it is stored and its
\* event is not.
RunThrows(m) ==
  /\ "job" \in Faults
  /\ loop[m].pc \in {"jobs", "job", "begun", "running", "tally", "list", "mark", "write", "announce"}
  /\ ~loop[m].caught
  /\ LET flagged == loop[m].run \in requested IN
     loop' = [loop EXCEPT ![m].pc = "list", ![m].caught = TRUE,
                          ![m].markAs = IF flagged THEN "cancelled" ELSE "skipped",
                          ![m].verdict = IF flagged THEN "cancelled" ELSE "failed"]
  /\ thrown' = thrown \cup {loop[m].run}
  /\ UNCHANGED <<storage, caller, queue, processing, active, requested, contexts, passive, stranded>>

\* finalizeCompletedRun judges by the rows in storage.
Tally(m) ==
  /\ At(m, "tally")
  /\ LET seen == {rows[loop[m].run][j] : j \in Job} IN
     loop' = [loop EXCEPT
       ![m].pc = IF seen \cap {"failed", "cancelled"} # {} THEN "list" ELSE "write",
       ![m].markAs = IF "failed" \in seen THEN "skipped" ELSE "cancelled",
       ![m].verdict = IF "failed" \in seen THEN "failed"
                      ELSE IF "cancelled" \in seen THEN "cancelled"
                      ELSE IF seen \subseteq {"skipped"} THEN "skipped" ELSE "success"]
  /\ UNCHANGED <<storage, caller, queue, processing, active, requested, contexts, history>>

ListQueued(m) ==
  /\ At(m, "list")
  /\ loop' = [loop EXCEPT ![m].pc = "mark",
                          ![m].marks = {j \in Job : rows[loop[m].run][j] = "queued"}]
  /\ UNCHANGED <<storage, caller, queue, processing, active, requested, contexts, history>>

MarkQueued(m, j) ==
  /\ At(m, "mark") /\ j \in loop[m].marks
  /\ rows' = [rows EXCEPT ![loop[m].run][j] = loop[m].markAs]
  /\ loop' = [loop EXCEPT ![m].marks = @ \ {j}]
  /\ UNCHANGED <<status, announced, caller, queue, processing, active, requested, contexts, history>>

\* Mutant: the marking of the rows left queued is not awaited.
WriteVerdictEarly(m) ==
  /\ loop[m].pc \in {"write", "mark"}
  /\ SetStatus(loop[m].run, loop[m].verdict)
  /\ Goto(m, "announce")
  /\ UNCHANGED <<rows, announced, caller, queue, processing, active, requested, contexts, history>>

\* finalizeRun: first the status, then the event.
WriteVerdict(m) ==
  /\ At(m, "write") \/ (At(m, "mark") /\ loop[m].marks = {})
  /\ SetStatus(loop[m].run, loop[m].verdict)
  /\ Goto(m, "announce")
  /\ UNCHANGED <<rows, announced, caller, queue, processing, active, requested, contexts, history>>

\* The event is out; cleanupActiveRun; back to the head of the loop.
EndRun(m) ==
  /\ At(m, "announce")
  /\ Announce(loop[m].run, loop[m].verdict)
  /\ active' = active \ {loop[m].run}
  /\ contexts' = contexts \ {loop[m].run}
  /\ TakeNext(m)
  /\ UNCHANGED <<status, rows, caller, requested, history>>

\* handleRunFailure itself rejects: the state object is cleaned up, and the
\* exception ends the loop with the run half finished.
HandlerThrows(m) ==
  /\ "handler" \in Faults
  /\ loop[m].caught
  /\ active' = active \ {loop[m].run}
  /\ contexts' = contexts \ {loop[m].run}
  /\ processing' = FALSE
  /\ loop' = [loop EXCEPT ![m] = [IdleLoop EXCEPT !.pc = "ended"]]
  /\ stranded' = stranded \cup {loop[m].run} \cup {queue[i] : i \in DOMAIN queue}
  /\ UNCHANGED <<storage, caller, queue, requested, passive, thrown>>

-----------------------------------------------------------------------------
\* The process dies: storage stays, everything in memory is gone, and nothing
\* in the runtime reads unfinished runs back.
Crash ==
  /\ "crash" \in Faults
  /\ \E r \in Run : status[r] # "absent" /\ ~Terminal(r) /\ r \notin stranded
  /\ submit' = [r \in Run |-> IF submit[r] \in {"new", "pushed"} THEN submit[r] ELSE "lost"]
  /\ rivals' = [r \in Run |-> {}]
  /\ cancel' = [p \in Canceller |-> [IdleCancel EXCEPT !.used = cancel[p].used]]
  /\ queue' = <<>> /\ processing' = FALSE
  /\ loop' = [r \in Run |-> IF At(r, "none") THEN IdleLoop ELSE [IdleLoop EXCEPT !.pc = "ended"]]
  /\ active' = {} /\ requested' = {} /\ contexts' = {}
  /\ stranded' = stranded \cup {r \in Run : status[r] # "absent"}
  /\ UNCHANGED <<storage, passive, thrown>>

Submitter(r) ==
  \/ CreateRun(r) \/ (\E j \in Job : CreateJob(r, j)) \/ Accept(r)
  \/ ListRivals(r) \/ RivalsDone(r) \/ Push(r)

CancelCall(p) ==
  \/ CancelLooks(p) \/ CancelAsks(p) \/ CancelLists(p) \/ (\E j \in Job : CancelMarks(p, j))
  \/ CancelWrites(p) \/ CancelAnnounces(p)

\* A step of the loop that ends the job or the run, or leads there.
Advance(m) ==
  \/ StartLoop(m) \/ Poll(m) \/ ReadAgain(m) \/ MarkStarting(m) \/ Prepare(m)
  \/ NextJob(m) \/ StartJobRow(m) \/ (At(m, "begun") /\ MarkRunning(m))
  \/ (\E s \in TerminalStatus : SettleJobUnstarted(m, s) \/ FinishJob(m, s))
  \/ Tally(m) \/ ListQueued(m) \/ (\E j \in Job : MarkQueued(m, j))
  \/ WriteVerdict(m) \/ EndRun(m)

Next ==
  \/ \E r \in Run : Submitter(r) \/ SubmitFails(r)
  \/ \E p \in Canceller, r \in Run : CancelReads(p, r)
  \/ \E p \in Canceller : CancelCall(p)
  \/ \E m \in Run : Advance(m) \/ MarkRunning(m)
  \/ \E m \in Run : PrepareThrows(m) \/ RunThrows(m) \/ HandlerThrows(m)
  \/ Crash

Spec == Init /\ [][Next]_vars

\* Awaited storage calls return, jobs end, and a submitter that has started
\* goes on to cancel its rivals; nobody has to make a call in the first place.
Fairness ==
  /\ \A r \in Run : WF_vars(submit[r] # "new" /\ Submitter(r))
  /\ \A r, x \in Run : WF_vars(CancelReads(r, x))
  /\ \A p \in Canceller : WF_vars(CancelCall(p))
  /\ \A m \in Run : WF_vars(Advance(m))

FairSpec == Spec /\ Fairness

-----------------------------------------------------------------------------
(* Properties.                                                             *)

Holds(m, r) == loop[m].pc \in LivePc /\ loop[m].run = r
Cancelling(r) == \E p \in Canceller : cancel[p].pc # "idle" /\ cancel[p].run = r

\* Run r went through the queue and nobody works on it any more.
Settled(r) ==
  /\ submit[r] = "pushed"
  /\ \A i \in DOMAIN queue : queue[i] # r
  /\ \A m \in Run : ~Holds(m, r)
  /\ ~Cancelling(r)

\* However many pushes schedule processQueue, at most one call drains the
\* queue, the guard being set exactly while it does (run/execute.ts:201-202,
\* 211): two runs never execute at the same time, in one group or not, and a
\* state object is registered for no run but the one that executes.
OneRunAtATime ==
  /\ \A m, n \in Run : loop[m].pc \in LivePc /\ loop[n].pc \in LivePc => m = n
  /\ processing = (\E m \in Run : loop[m].pc \in LivePc)
  /\ \A r \in active : \E m \in Run : Holds(m, r)

\* No wake-up is lost between the test of the queue and the reset of the guard
\* (engine.ts:16-21, run/execute.ts:203-211): a queued run has a loop that
\* drains the queue or is about to, unless an exception killed the loop.
NoLostWakeup ==
  \A i \in DOMAIN queue :
    queue[i] \in stranded \/ \E m \in Run : loop[m].pc \in LivePc \cup {"scheduled"}

\* A run that was cancelled before executeRun has looked at it a second time.
CancelledInTime(r) ==
  /\ status[r] = "cancelled"
  /\ \A m \in Run : Holds(m, r) => loop[m].pc \in {"poll", "exec"}

\* Such a run stays cancelled and is never executed (run/execute.ts:44, 208),
\* whatever rivals, other runs or a restart do meanwhile.
CancelledBeforeStart ==
  [][\A r \in Run : CancelledInTime(r) => CancelledInTime(r)']_vars

\* A run that no cancel call found unregistered, and no failure left behind,
\* ends with one terminal event, and it carries the status that is stored
\* (runtime_support.ts:245-269).
AnnouncedOnce ==
  \A r \in Run \ (passive \cup stranded) :
    Settled(r) => Terminal(r) /\ announced[r] = <<status[r]>>

\* Such a run also leaves nothing behind (run/execute.ts:120-171): no secrets,
\* no state object, no row still queued, and a success that its rows bear out.
\* Only an exception in the try block leaves a row running or ends a run as
\* failed without a failed row: one that comes after the last job has been
\* stored as success turns a run of successful jobs into a failed one.
CleanRunLeavesNothing ==
  \A r \in Run \ (passive \cup stranded) :
    Settled(r) =>
      /\ r \notin active \cup contexts
      /\ \A j \in Job : rows[r][j] # "queued"
      /\ status[r] \in {"success", "skipped"} => \A j \in Job : rows[r][j] \in {"success", "skipped"}
      /\ status[r] = "failed" => r \in thrown \/ \E j \in Job : rows[r][j] = "failed"
      /\ \A j \in Job : rows[r][j] = "running" => r \in thrown

\* Every run that was pushed ends, whatever is cancelled or throws meanwhile,
\* unless a failure outside the try block or the end of the process strands it.
EveryPushedRunEnds ==
  \A r \in Run : <>[](submit[r] = "pushed" => Terminal(r) \/ r \in stranded)

\* What the documentation of cancellation leads one to expect: a run that has
\* been cancelled stays cancelled.
CancelledStaysCancelled ==
  [][\A r \in Run : status[r] = "cancelled" => status'[r] = "cancelled"]_vars
===============================================================================
