----------------------------- MODULE JobExecution -----------------------------
(***************************************************************************)
(* One executing run: runPendingJobs picks the jobs in the order their     *)
(* needs allow, the job executor runs the steps of a job one after the     *)
(* other, a shell step spawns a command, and a cancellation or a timer may *)
(* come at any await.  Nobody else writes the rows of the run here (the    *)
(* races on them are in WorkflowRuns), so writes between which the         *)
(* cancellation flag is not read are one action.                           *)
(***************************************************************************)
EXTENDS Integers, FiniteSets, Sequences

CONSTANTS JobCount,   \* rows of the run, in planned order
          StepCount,  \* steps of each job
          JobId,      \* the ids of the definition
          IdOf,       \* IdOf[j]: the id of row j (a matrix has several rows per id)
          Needs,      \* Needs[i]: the ids that i depends on
          HasIf,      \* the ids with an if condition
          Uses,       \* the steps that use an action, the others are shell steps
          Uploads,    \* the ids whose action uploads the artifact of the run ...
          Downloads,  \* ... and those whose action downloads it
          Tempers,    \* how commands behave: "brief", "hang", "stubborn"
          HasTimeout  \* whether localRunner.execTimeoutMs is set

Job == 1..JobCount
Step == 1..StepCount

ASSUME JobAssumption ==
  /\ JobCount \in Nat /\ StepCount \in Nat
  /\ IdOf \in [Job -> JobId]
  /\ Needs \in [JobId -> SUBSET JobId]
  /\ \A S \in SUBSET JobId : S # {} => \E i \in S : Needs[i] \cap S = {}  \* assertAcyclicWorkflow
  /\ HasIf \subseteq JobId /\ Uses \subseteq Step
  /\ Uploads \subseteq JobId /\ Downloads \subseteq JobId \ Uploads
  /\ Tempers \subseteq {"brief", "hang", "stubborn"}
  /\ HasTimeout \in BOOLEAN

VARIABLES jobRow,    \* storage: the status of each job row
          stepRow,   \* storage: the status of each step row
          verdict,   \* storage: the final status of the run, or "none"
          pending,   \* pendingJobs
          done,      \* completedByJobId: the rows executeJob has returned
          pc,        \* where the executor stands
          job,       \* the row being executed
          step,      \* its current step
          requested, \* activeState.cancelRequested
          child,     \* activeState.child: the running command and its last signal
          files,     \* disk: whose upload the directory of the artifact holds
          artifact,  \* storage: the rows of the artifact, each as the job row it is of
          late,      \* history: commands spawned and actions ended after the request
          threw,     \* history: executeJob has thrown
          got        \* history: got[j]: the newest artifact row and the files j downloaded

artifacts == <<files, artifact, got>>
vars == <<jobRow, stepRow, verdict, pending, done, pc, job, step, requested, child, late, threw, artifacts>>
place == <<pending, done, job>>
history == <<late, threw, artifacts>>

TerminalStatus == {"success", "failed", "cancelled", "skipped"}
RowStatus == {"queued", "running"} \cup TerminalStatus
Pc == {"pick", "check", "start", "workspace", "step", "spawn", "command", "uses", "upload",
       "used", "usesBroken", "usesMark", "usesJob", "conclude", "ended"}
NoFiles == [of |-> 0, whole |-> TRUE]
NotGot == [row |-> 0, files |-> NoFiles]
NoChild == [temper |-> "none", signal |-> "none"]

TypeOK ==
  /\ jobRow \in [Job -> RowStatus]
  /\ stepRow \in [Job -> [Step -> RowStatus]]
  /\ verdict \in TerminalStatus \cup {"none"}
  /\ pending \subseteq Job /\ done \subseteq Job
  /\ pc \in Pc
  /\ job \in Job \cup {0} /\ step \in 0..StepCount + 1
  /\ requested \in BOOLEAN /\ threw \in BOOLEAN
  /\ child \in [temper : Tempers \cup {"none"}, signal : {"none", "term", "kill"}]
  /\ late \in Nat
  /\ files \in [of : Job \cup {0}, whole : BOOLEAN] /\ artifact \in Seq(Job)
  /\ got \in [Job -> [row : Job \cup {0}, files : [of : Job \cup {0}, whole : BOOLEAN]]]

Init ==
  /\ jobRow = [j \in Job |-> "queued"]
  /\ stepRow = [j \in Job |-> [s \in Step |-> "queued"]]
  /\ verdict = "none"
  /\ pending = Job /\ done = {} /\ job = 0 /\ step = 0
  /\ pc = "pick"
  /\ requested = FALSE /\ child = NoChild
  /\ late = 0 /\ threw = FALSE
  /\ files = NoFiles /\ artifact = <<>> /\ got = [j \in Job |-> NotGot]

-----------------------------------------------------------------------------
RowsOf(i) == {j \in Job : IdOf[j] = i}

\* aggregateJobStatus: a mixture of success and skipped is neither.
Aggregate(S) ==
  CASE "failed" \in S -> "failed"
    [] "failed" \notin S /\ "cancelled" \in S -> "cancelled"
    [] S \subseteq {"skipped"} -> "skipped"
    [] S = {"success"} -> "success"
    [] OTHER -> "queued"

\* buildNeeds: the result of the ids that row j needs.
NeedResults(j) == {Aggregate({jobRow[d] : d \in done \cap RowsOf(i)}) : i \in Needs[IdOf[j]]}

\* Mutant: a need is settled when one of its rows is.
RunnableAfterOne(j) == \A i \in Needs[IdOf[j]] : RowsOf(i) \cap done # {}

\* resolveNextRunnableJobIndex: every row of every needed id has returned.
Runnable(j) == \A i \in Needs[IdOf[j]] : RowsOf(i) \subseteq done

\* markQueuedStepsForJob and markQueuedJobsAndSteps.
Marked(row, s) == [x \in DOMAIN row |-> IF row[x] = "queued" THEN s ELSE row[x]]
MarkAll(s) == /\ jobRow' = Marked(jobRow, s)
              /\ stepRow' = [j \in Job |-> Marked(stepRow[j], s)]

\* The job of the executor ends with status s, what is queued in it with q.
JobReturns(s) ==
  /\ jobRow' = [jobRow EXCEPT ![job] = s]
  /\ done' = done \cup {job}
  /\ pc' = "pick" /\ job' = 0 /\ step' = 0

EndJob(s, q) ==
  /\ JobReturns(s)
  /\ stepRow' = [stepRow EXCEPT ![job] = Marked(@, q)]

-----------------------------------------------------------------------------
(* runPendingJobs.                                                         *)

\* A cancelled run ends here, otherwise the first runnable row is taken.
PickJob ==
  /\ pc = "pick" /\ pending # {}
  /\ ~requested
  /\ \E j \in pending :
       /\ Runnable(j)
       /\ \A i \in pending : Runnable(i) => j <= i
       /\ job' = j /\ pending' = pending \ {j}
  /\ pc' = "check"
  /\ UNCHANGED <<jobRow, stepRow, verdict, done, step, requested, child, history>>

StopPicking ==
  /\ pc = "pick" /\ pending # {}
  /\ requested
  /\ MarkAll("cancelled")
  /\ verdict' = "cancelled" /\ pc' = "ended"
  /\ UNCHANGED <<place, step, requested, child, history>>

AllReturned ==
  /\ pc = "pick" /\ pending = {}
  /\ pc' = "conclude"
  /\ UNCHANGED <<jobRow, stepRow, verdict, place, step, requested, child, history>>

-----------------------------------------------------------------------------
(* resolvePreExecutionResult, in the order of its tests.                   *)

NeedsFail == IdOf[job] \notin HasIf /\ \E x \in NeedResults(job) : x # "success"

SkipJob ==
  /\ pc = "check"
  /\ NeedsFail \/ IdOf[job] \in HasIf
  /\ EndJob("skipped", "skipped")
  /\ UNCHANGED <<verdict, pending, requested, child, history>>

CancelJob ==
  /\ pc = "check" /\ ~NeedsFail /\ requested
  /\ EndJob("cancelled", "cancelled")
  /\ UNCHANGED <<verdict, pending, requested, child, history>>

\* assertJobRunnerSupported: the runner has not all of the job's labels ...
RefuseJob ==
  /\ pc = "check" /\ ~NeedsFail /\ ~requested
  /\ EndJob("failed", "skipped")
  /\ UNCHANGED <<verdict, pending, requested, child, history>>

\* ... or it has.
AcceptJob ==
  /\ pc = "check" /\ ~NeedsFail /\ ~requested
  /\ pc' = "start"
  /\ UNCHANGED <<jobRow, stepRow, verdict, place, step, requested, child, history>>

\* startJobExecution: the repository is cloned into a workspace of the job and the
\* commit of the run checked out ...
MaterializeWorkspace ==
  /\ pc = "start" /\ pc' = "workspace"
  /\ UNCHANGED <<jobRow, stepRow, verdict, place, step, requested, child, history>>

\* ... then its row is running.
StartJob ==
  /\ pc = "workspace"
  /\ jobRow' = [jobRow EXCEPT ![job] = "running"]
  /\ step' = 1 /\ pc' = "step"
  /\ UNCHANGED <<stepRow, verdict, place, requested, child, history>>

-----------------------------------------------------------------------------
(* executeJobStep.                                                         *)

FinishStep(s) == stepRow' = [stepRow EXCEPT ![job][step] = s]
NextStep == step' = step + 1 /\ pc' = "step"
TakesEffect == late' = IF requested THEN late + 1 ELSE late

\* Before a step the flag is looked at; the job goes on either way.
PassStep ==
  /\ pc = "step" /\ step \in Step
  /\ \/ requested /\ FinishStep("cancelled")
     \/ ~requested /\ FinishStep("skipped")
  /\ NextStep
  /\ UNCHANGED <<jobRow, verdict, place, requested, child, history>>

\* Mutant: the flag is not looked at between steps.
StartStepUnasked ==
  /\ pc = "step" /\ step \in Step
  /\ FinishStep("running")
  /\ pc' = IF step \in Uses THEN "uses" ELSE "spawn"
  /\ UNCHANGED <<jobRow, verdict, place, step, requested, child, history>>

\* startStepExecution writes the row; its command is spawned some awaits later.
StartStep ==
  /\ pc = "step" /\ step \in Step /\ ~requested
  /\ FinishStep("running")
  /\ pc' = IF step \in Uses THEN "uses" ELSE "spawn"
  /\ UNCHANGED <<jobRow, verdict, place, step, requested, child, history>>

\* runShellCommand spawns without looking at the flag again.
Spawn(temper) ==
  /\ pc = "spawn"
  /\ child' = [temper |-> temper, signal |-> "none"]
  /\ TakesEffect
  /\ pc' = "command"
  /\ UNCHANGED <<jobRow, stepRow, verdict, place, step, requested, threw, artifacts>>

\* Mutant: no SIGKILL follows.
KillTimerUnset ==
  /\ HasTimeout /\ pc = "command" /\ child.signal = "kill"
  /\ UNCHANGED vars

\* attachExecTimeout: SIGTERM, and SIGKILL after a grace period.
TermTimer ==
  /\ HasTimeout /\ pc = "command" /\ child.signal = "none"
  /\ child' = [child EXCEPT !.signal = "term"]
  /\ UNCHANGED <<jobRow, stepRow, verdict, place, pc, step, requested, history>>

KillTimer ==
  /\ HasTimeout /\ pc = "command" /\ child.signal = "term"
  /\ child' = [child EXCEPT !.signal = "kill"]
  /\ UNCHANGED <<jobRow, stepRow, verdict, place, pc, step, requested, history>>

\* The exit codes that resolveExitCode may return for the child.
ExitCodes ==
  CASE child.temper = "brief" -> {0, 1, 130}
    [] child.temper = "hang" -> IF child.signal = "none" THEN {} ELSE {1, 130}
    [] child.temper = "stubborn" -> IF child.signal = "kill" THEN {137} ELSE {}

\* The end of executeShellStep: 130 counts as a cancellation.
CommandEnds(code) ==
  /\ pc = "command" /\ code \in ExitCodes
  /\ child' = NoChild
  /\ IF requested \/ code = 130
     THEN /\ JobReturns("cancelled")
          /\ stepRow' = [stepRow EXCEPT ![job] = Marked([@ EXCEPT ![step] = "cancelled"], "cancelled")]
     ELSE IF code = 0
     THEN FinishStep("success") /\ NextStep /\ UNCHANGED <<jobRow, done, job>>
     ELSE /\ JobReturns("failed")
          /\ stepRow' = [stepRow EXCEPT ![job] = Marked([@ EXCEPT ![step] = "failed"], "skipped")]
  /\ UNCHANGED <<verdict, pending, requested, history>>

\* createUsesDispatcher: checkout has nothing left to do, a setup asks for a version.
UseAction ==
  /\ pc = "uses" /\ IdOf[job] \notin Uploads \cup Downloads
  /\ pc' = "used"
  /\ UNCHANGED <<jobRow, stepRow, verdict, place, step, requested, child, history>>

\* Mutant: files that cannot be copied are passed over.
UploadUnnoticed(whole) ==
  /\ pc = "uses" /\ IdOf[job] \in Uploads
  /\ files' = [of |-> job, whole |-> whole]
  /\ pc' = "upload"
  /\ UNCHANGED <<jobRow, stepRow, verdict, place, step, requested, child, late, threw, artifact, got>>

\* uploadArtifact: the directory of the name is removed and filled anew, in one
\* go; a file that cannot be copied stops it half-way.
Upload(whole) ==
  /\ pc = "uses" /\ IdOf[job] \in Uploads
  /\ files' = [of |-> job, whole |-> whole]
  /\ pc' = IF whole THEN "upload" ELSE "usesBroken"
  /\ UNCHANGED <<jobRow, stepRow, verdict, place, step, requested, child, late, threw, artifact, got>>

\* The row is created when the files are there.
CreateArtifact ==
  /\ pc = "upload"
  /\ artifact' = Append(artifact, job)
  /\ pc' = "used"
  /\ UNCHANGED <<jobRow, stepRow, verdict, place, step, requested, child, late, threw, files, got>>

\* The newest row of the name (rows are made at different times); every row of
\* the run leads to the one directory of the name.
Newest == artifact[Len(artifact)]
Download ==
  /\ pc = "uses" /\ IdOf[job] \in Downloads
  /\ artifact # <<>> /\ files # NoFiles
  /\ got' = [got EXCEPT ![job] = [row |-> Newest, files |-> files]]
  /\ pc' = "used"
  /\ UNCHANGED <<jobRow, stepRow, verdict, place, step, requested, child, late, threw, files, artifact>>

\* An action ends well, cancelled or not ...
UsesSucceeds ==
  /\ pc = "used"
  /\ FinishStep("success") /\ NextStep
  /\ TakesEffect
  /\ UNCHANGED <<jobRow, verdict, place, requested, child, threw, artifacts>>

\* ... or failUsesStep reads the flag anew for the step, the rest and the job.
FailedOr(other) == IF requested THEN "cancelled" ELSE other

UsesFails ==
  /\ pc \in {"uses", "upload", "used", "usesBroken"}
  /\ FinishStep(FailedOr("failed"))
  /\ pc' = "usesMark"
  /\ TakesEffect
  /\ UNCHANGED <<jobRow, verdict, place, step, requested, child, threw, artifacts>>

UsesMarks ==
  /\ pc = "usesMark"
  /\ stepRow' = [stepRow EXCEPT ![job] = Marked(@, FailedOr("skipped"))]
  /\ pc' = "usesJob"
  /\ UNCHANGED <<jobRow, verdict, place, step, requested, child, history>>

UsesEndsJob ==
  /\ pc = "usesJob"
  /\ JobReturns(FailedOr("failed"))
  /\ UNCHANGED <<stepRow, verdict, pending, requested, child, history>>

\* Mutant: a job whose last step ended is left running.
JobSucceedsSilently ==
  /\ pc = "step" /\ step > StepCount
  /\ done' = done \cup {job} /\ pc' = "pick" /\ job' = 0 /\ step' = 0
  /\ UNCHANGED <<jobRow, stepRow, verdict, pending, requested, child, history>>

\* finalizeSuccessfulJob: no step has ended the job.
JobSucceeds ==
  /\ pc = "step" /\ step > StepCount
  /\ JobReturns("success")
  /\ UNCHANGED <<stepRow, verdict, pending, requested, child, history>>

-----------------------------------------------------------------------------
\* executeJob throws: the job is gone from the workflow, the clone or checkout
\* fails, beforeSpawn or the spawn does.  handleRunFailure ends the run; rows already running stay so.
JobThrows ==
  /\ pc \in {"check", "start", "spawn"}
  /\ MarkAll(FailedOr("skipped"))
  /\ verdict' = FailedOr("failed")
  /\ threw' = TRUE /\ pc' = "ended"
  /\ UNCHANGED <<place, step, requested, child, late, artifacts>>

\* Mutant: the verdict is computed like the result of a need.
ConcludeByAggregate ==
  /\ pc = "conclude"
  /\ verdict' = Aggregate({jobRow[j] : j \in Job})
  /\ pc' = "ended"
  /\ UNCHANGED <<jobRow, stepRow, place, step, requested, child, history>>

\* finalizeCompletedRun.
Conclude ==
  /\ pc = "conclude"
  /\ LET seen == {jobRow[j] : j \in Job} IN
     CASE "failed" \in seen -> verdict' = "failed" /\ MarkAll("skipped")
       [] "failed" \notin seen /\ "cancelled" \in seen -> verdict' = "cancelled" /\ MarkAll("cancelled")
       [] seen \subseteq {"skipped"} -> verdict' = "skipped" /\ UNCHANGED <<jobRow, stepRow>>
       [] OTHER -> verdict' = "success" /\ UNCHANGED <<jobRow, stepRow>>
  /\ pc' = "ended"
  /\ UNCHANGED <<place, step, requested, child, history>>

\* cancelWorkflowRun for the registered run: the flag, and SIGTERM for the
\* command unless one was sent to it before.
Cancel ==
  /\ pc # "ended" /\ ~requested
  /\ requested' = TRUE
  /\ child' = IF child # NoChild /\ child.signal = "none"
              THEN [child EXCEPT !.signal = "term"] ELSE child
  /\ UNCHANGED <<jobRow, stepRow, verdict, place, pc, step, history>>

Advance ==
  \/ PickJob \/ StopPicking \/ AllReturned
  \/ SkipJob \/ CancelJob \/ RefuseJob \/ AcceptJob \/ MaterializeWorkspace \/ StartJob
  \/ PassStep \/ StartStep \/ (\E t \in Tempers : Spawn(t))
  \/ TermTimer \/ KillTimer \/ (\E code \in {0, 1, 130, 137} : CommandEnds(code))
  \/ UseAction \/ (\E whole \in BOOLEAN : Upload(whole)) \/ CreateArtifact \/ Download
  \/ UsesSucceeds \/ UsesFails \/ UsesMarks \/ UsesEndsJob \/ JobSucceeds
  \/ Conclude

Next == Advance \/ JobThrows \/ Cancel

Spec == Init /\ [][Next]_vars

\* Storage, clones and timers answer, a brief command ends, and another one
\* does once it got a signal that it cannot or does not ignore.
FairSpec == Spec /\ WF_vars(Advance)

-----------------------------------------------------------------------------
(* Properties.                                                             *)

\* A job starts only when every row of every job it needs, all children of a
\* matrix included, has ended, and ended well unless the job has a condition of
\* its own (run/execute.ts:60-79, job/execute.ts:81-87): whatever the order in
\* which the workflow lists its jobs.
NeedsHonoured ==
  [][\A j \in Job : jobRow[j] # "running" /\ jobRow'[j] = "running" =>
       \A i \in Needs[IdOf[j]] : \A d \in RowsOf(i) :
         jobRow[d] \in TerminalStatus /\ (IdOf[j] \notin HasIf => jobRow[d] = "success")]_vars

\* A download gets the whole upload of the job whose artifact row it read, not
\* half of it or the files of another, though all uploads of a name share one
\* directory that each empties first (actions/artifacts.ts:104): unless an upload
\* ended badly in a job that the downloading one does not need, or needs by a
\* condition of its own.
DownloadIsWhole ==
  \A j \in Job : got[j] # NotGot =>
    \/ got[j].files = [of |-> got[j].row, whole |-> TRUE]
    \/ \E u \in Job :
         /\ IdOf[u] \in Uploads /\ jobRow[u] # "success"
         /\ IdOf[u] \in Needs[IdOf[j]] => IdOf[j] \in HasIf

\* A cancellation lets the step under way spawn its command or end its action,
\* and nothing else: no later step of that job or of another has an effect
\* (run/execute.ts:95, job/execute.ts:207, step/execute.ts:237).
OneStepAfterCancel == late <= 1

\* When the run has ended without an exception no row is left unfinished, and
\* each verdict is borne out one level below it, in spite of failUsesStep
\* reading the flag three times (run/execute.ts:120-151, step/execute.ts:60-90).
VerdictBorneOut ==
  pc = "ended" /\ ~threw =>
    /\ \A j \in Job : jobRow[j] \in TerminalStatus /\ \A s \in Step : stepRow[j][s] \in TerminalStatus
    /\ verdict = "failed" => \E j \in Job : jobRow[j] = "failed"
    /\ verdict = "success" => \A j \in Job : jobRow[j] \in {"success", "skipped"}
    /\ \A j \in Job : jobRow[j] = "failed" =>
         (\E s \in Step : stepRow[j][s] = "failed") \/ (\A s \in Step : stepRow[j][s] = "skipped")
    /\ \A j \in Job : jobRow[j] = "success" => \A s \in Step : stepRow[j][s] # "failed"

\* With a timeout configured every run ends, be its commands deaf to SIGTERM
\* and its cancellation lost (local_runner.ts:61-71); in particular an acyclic
\* needs graph never leaves pending jobs of which none is runnable.
EveryRunEnds == <>(pc = "ended")

\* What the documentation of cancellation leads one to expect of the verdict:
\* a run that left out steps because it was cancelled is not a success.
CancelledRunIsNoSuccess ==
  verdict = "success" => \A j \in Job : \A s \in Step : stepRow[j][s] # "cancelled"

\* ... and of the command: once it is requested, and if commands obey SIGTERM,
\* a cancellation ends the run, with or without a timeout.
CancelledRunEnds == requested ~> (pc = "ended")
===============================================================================
