----------------------------- MODULE PushTriggers ------------------------------
(***************************************************************************)
(* From a request to the runs of workflows: a completed request is         *)
(* recorded as an activity, with the branch that HEAD names and the commit *)
(* it is at by then; the Actions runtime, which has wrapped the storage of *)
(* activities, lists the workflows at that branch, queues a run of each    *)
(* that matches, and reads the workflow again when the run starts.  A      *)
(* release and a dispatch by hand come in at later steps.  Meanwhile refs  *)
(* move: by other pushes, and by a checkout of the host.                   *)
(*                                                                         *)
(* The lines of a commit are one, and HEAD is never detached.  How a run   *)
(* proceeds is the subject of WorkflowRuns.                                *)
(***************************************************************************)
EXTENDS Transports, Workflows

CONSTANTS Dir, Files(_, _), \* Files(d, c): the workflow files of commit c when the directory
                            \* is d; each has an id, a number in the order of their names
          Faults            \* what fails: "storage", "embedder"

ASSUME TriggersAssumption ==
  /\ MaxCommit \in Nat \ {0} /\ Tries \in Nat
  /\ \A d \in Dir, c \in 1..MaxCommit : \A f \in Files(d, c) :
       /\ f.id \in Nat /\ \A g \in Files(d, c) : g.id = f.id => g = f
       /\ IsFiniteSet(DOMAIN f.jobs)
       /\ \A j \in DOMAIN f.jobs : Axes(f.jobs[j].matrix)

VARIABLES dir,     \* the workflow directory, over all commits
          trig,    \* trig[q]: the trigger that the request q, or the forge, has set off
          runs     \* the rows of the runs

vars == <<refs, req, dir, trig, runs>>

FileOf(c, id) == CHOOSE f \in Files(dir, c) : f.id = id
HasFile(c, id) == \E f \in Files(dir, c) : f.id = id

NoTrig == [kind |-> "none", at |-> "none", branch |-> "", commit |-> 0, paths |-> {}, listed |-> {},
           fault |-> FALSE, torn |-> FALSE, moved |-> FALSE]

TypeOK ==
  /\ RequestsTypeOK
  /\ dir \in Dir
  /\ \A q \in Request :
       /\ trig[q].kind \in {"none", "push", "fetch", "release.update", "manual"}
       /\ trig[q].at \in {"none", "commit", "record", "tag", "target", "list", "show", "queue", "done", "lost"}
       /\ trig[q].branch \in Ref \cup {""} /\ trig[q].commit \in 0..MaxCommit
       /\ trig[q].listed \subseteq [of : 1..MaxCommit, id : Nat]
  /\ \A r \in runs : r.commit \in 1..MaxCommit /\ r.started \in 0..MaxCommit /\ HasFile(r.of, r.id)

CommitAt(r) == tip[r]
IdsAt(r) == IF tip[r] = 0 THEN {} ELSE {f.id : f \in Files(dir, tip[r])}
To(q, t) == trig' = [trig EXCEPT ![q] = t] /\ UNCHANGED <<refs, req, dir>>
Lost(t) == [t EXCEPT !.at = "lost", !.paths = {}, !.listed = {}]
At(q, at) == trig[q].at = at

\* A push moves its ref: a commit that was read from it before is not its last.
Overtakes(r) ==
  /\ trig' = [q \in Request |-> [trig[q] EXCEPT !.moved = @ \/ (trig[q].branch = r /\ trig[q].commit # 0)]]
  /\ runs' = {[x EXCEPT !.moved = @ \/ x.ref = r] : x \in runs}

Around(q) ==
  /\ IF tip' = tip THEN UNCHANGED <<trig, runs>> ELSE Overtakes(req[q].branch)
  /\ UNCHANGED dir

Requests(q) == RequestStep(q) /\ Around(q)

\* Another branch is checked out through the host.
Checkout(b) ==
  /\ b # head /\ tip[b] # 0
  /\ head' = b
  /\ trig' = [q \in Request |-> [trig[q] EXCEPT !.torn = @ \/ trig[q].at = "commit"]]
  /\ UNCHANGED <<tip, last, req, dir, runs>>

-----------------------------------------------------------------------------
(* The activity of a request.                                              *)

\* Mutant: the recorder is not given the events of SSH.
ReadBranchOverHttp(q) ==
  /\ At(q, "none") /\ req[q].at = "over" /\ Http(q)
  /\ req[q].outcome = "completed" /\ req[q].service # "advert"
  /\ To(q, [trig[q] EXCEPT !.kind = req[q].service, !.branch = head, !.at = "commit"])
  /\ UNCHANGED runs

\* recordHttpAuditEvent and recordSshAuditEvent: of completed requests only, over
\* HTTP of those by POST.  Two git commands read HEAD.
ReadBranch(q) ==
  /\ At(q, "none") /\ req[q].at = "over"
  /\ req[q].outcome = "completed" /\ req[q].service # "advert"
  /\ To(q, [trig[q] EXCEPT !.kind = req[q].service, !.branch = head, !.at = "commit"])
  /\ UNCHANGED runs

ReadCommit(q) ==
  /\ At(q, "commit")
  /\ To(q, [trig[q] EXCEPT !.commit = CommitAt(head), !.at = "record"])
  /\ UNCHANGED runs

\* createActivity, then the listener of the runtime: it knows pushes and releases.
Record(q) ==
  /\ At(q, "record")
  /\ To(q, [trig[q] EXCEPT !.at = IF trig[q].kind = "fetch" THEN "done" ELSE "target"])
  /\ UNCHANGED runs

\* handleReleaseActivity: a release that was created with its tag keeps "HEAD" as
\* its target ref, which is resolved now, and the ref of the run is the tag.
Release(q) ==
  /\ At(q, "none") /\ req[q].at = "idle"
  /\ req' = [req EXCEPT ![q].at = "over"]
  /\ trig' = [trig EXCEPT ![q] = [NoTrig EXCEPT !.kind = "release.update", !.branch = "v1",
                                               !.commit = CommitAt(head), !.at = "target"]]
  /\ UNCHANGED <<refs, dir, runs>>

\* runWorkflow, which resolves HEAD's branch itself, or a branch that is given.
Dispatch(q, b) ==
  /\ At(q, "none") /\ req[q].at = "idle"
  /\ req' = [req EXCEPT ![q].at = "over"]
  /\ trig' = [trig EXCEPT ![q] = [NoTrig EXCEPT !.kind = "manual", !.branch = b, !.at = "target"]]
  /\ UNCHANGED <<refs, dir, runs>>

-----------------------------------------------------------------------------
(* enqueueWorkflowsForTrigger.                                             *)

\* Mutant: the commit of the run is resolved at HEAD.
TargetOfHead(q) ==
  /\ At(q, "target")
  /\ LET t == trig[q]
         ref == IF t.branch = "" THEN head ELSE t.branch
         commit == CommitAt(head) IN
     To(q, IF commit = 0 THEN Lost(t) ELSE [t EXCEPT !.branch = ref, !.commit = commit, !.at = "list"])
  /\ UNCHANGED runs

\* resolveRunTarget: the commit of the context, or that of the ref.
Target(q) ==
  /\ At(q, "target")
  /\ LET t == trig[q]
         ref == IF t.branch = "" THEN head ELSE t.branch
         commit == IF t.commit = 0 THEN CommitAt(ref) ELSE t.commit IN
     To(q, IF commit = 0 THEN Lost(t) ELSE [t EXCEPT !.branch = ref, !.commit = commit, !.at = "list"])
  /\ UNCHANGED runs

\* listWorkflowDefinitionPaths: ls-tree at the ref; a dispatch names its workflow.
List(q) ==
  /\ At(q, "list")
  /\ LET ids == IdsAt(trig[q].branch) IN
     \E paths \in (IF trig[q].kind = "manual" THEN {{1}, {2}} ELSE {ids}) :
       To(q, IF CommitAt(trig[q].branch) = 0 THEN Lost(trig[q])
             ELSE [trig[q] EXCEPT !.paths = paths, !.at = "show"])
  /\ UNCHANGED runs

\* readWorkflowDefinition of one of the paths: show at the ref, one process each.  A
\* file that is gone or not valid rejects Promise.all: the trigger is lost.
Show(q, id) ==
  /\ At(q, "show") /\ id \in trig[q].paths
  /\ LET t == trig[q]
         c == CommitAt(t.branch) IN
     To(q, IF id \in IdsAt(t.branch) /\ Valid(FileOf(c, id))
           THEN [t EXCEPT !.paths = @ \ {id}, !.listed = @ \cup {[of |-> c, id |-> id]}]
           ELSE Lost(t))
  /\ UNCHANGED runs

\* The listing is complete: what is disabled is filtered out, except for a dispatch.
Listed(q) ==
  /\ At(q, "show") /\ trig[q].paths = {}
  /\ To(q, [trig[q] EXCEPT !.at = "queue",
                           !.listed = {w \in @ : trig[q].kind = "manual" \/ FileOf(w.of, w.id).enabled}])
  /\ UNCHANGED runs

\* What a trigger is matched by: a push by the branch that HEAD named, whatever ref
\* was pushed, and by no tag.
Selects(kind, ref, file) ==
  IF kind = "manual" THEN Dispatchable(file)
  ELSE Matches(file, kind, IF kind = "push" THEN ref ELSE "", IF kind = "push" THEN "" ELSE "v1")
Selected(q, file) == Selects(trig[q].kind, trig[q].branch, file)

\* The run that queueWorkflowRun makes of workflow w; started: the commit its
\* definition is read from when it starts, 0 before.
NewRun(q, w) ==
  [by |-> q, kind |-> trig[q].kind, id |-> w.id, of |-> w.of, ref |-> trig[q].branch,
   commit |-> trig[q].commit, started |-> 0, moved |-> trig[q].moved \/ trig[q].torn]

\* Mutant: the workflows are taken as they come.
QueueAny(q) ==
  /\ At(q, "queue")
  /\ \E w \in trig[q].listed :
       LET file == FileOf(w.of, w.id)
           queues == Selected(q, file) /\ AssertAcyclic(Needs(Jobs(file))) IN
       /\ To(q, IF queues \/ (~Selected(q, file) /\ trig[q].kind # "manual")
                THEN [trig[q] EXCEPT !.listed = @ \ {w}] ELSE Lost(trig[q]))
       /\ runs' = IF queues THEN runs \cup {NewRun(q, w)} ELSE runs

\* The loop over the workflows, in the order of their names.  assertAcyclicWorkflow
\* throws out of it: those after it are not looked at.
Queue(q) ==
  /\ At(q, "queue") /\ trig[q].listed # {}
  /\ \E w \in trig[q].listed :
       /\ \A v \in trig[q].listed : w.id <= v.id
       /\ LET file == FileOf(w.of, w.id) IN
          IF ~Selected(q, file) THEN
            /\ To(q, IF trig[q].kind = "manual" THEN Lost(trig[q]) ELSE [trig[q] EXCEPT !.listed = @ \ {w}])
            /\ UNCHANGED runs
          ELSE IF AssertAcyclic(Needs(Jobs(file))) THEN
            /\ runs' = runs \cup {NewRun(q, w)}
            /\ To(q, [trig[q] EXCEPT !.listed = @ \ {w}])
          ELSE To(q, Lost(trig[q])) /\ UNCHANGED runs

Queued(q) ==
  /\ At(q, "queue") /\ trig[q].listed = {}
  /\ To(q, [trig[q] EXCEPT !.at = "done"])
  /\ UNCHANGED runs

\* An awaited call fails: the storage, a callback of the embedder.  The listener
\* and the transports swallow the error, a dispatch reports it.
Fault(q) ==
  /\ trig[q].at \in (IF "storage" \in Faults THEN {"record", "target", "queue"} ELSE {})
                      \cup (IF "embedder" \in Faults THEN {"list", "queue"} ELSE {})
  /\ To(q, [Lost(trig[q]) EXCEPT !.fault = TRUE])
  /\ UNCHANGED runs

\* executeRun reads the workflow anew, at the ref of the run; when it is gone or not
\* valid any more, the run stays as it is (WorkflowRuns).
Start(r) ==
  /\ r.started = 0 /\ r.id \in IdsAt(r.ref) /\ Valid(FileOf(CommitAt(r.ref), r.id))
  /\ runs' = (runs \ {r}) \cup {[r EXCEPT !.started = CommitAt(r.ref)]}
  /\ UNCHANGED <<refs, req, dir, trig>>

Trace(q) ==
  \/ ReadBranch(q) \/ ReadCommit(q) \/ Record(q) \/ Target(q) \/ List(q) \/ Listed(q)
  \/ Queue(q) \/ Queued(q) \/ \E id \in trig[q].paths : Show(q, id)

Init ==
  /\ RefsInit /\ dir \in Dir
  /\ req = [q \in Request |-> NoRequest] /\ trig = [q \in Request |-> NoTrig] /\ runs = {}

Next ==
  \/ \E q \in Request :
       \/ Requests(q) \/ Trace(q) \/ Fault(q) \/ Release(q)
       \/ \E b \in Branch \cup {""} : Dispatch(q, b)
  \/ \E b \in Branch : Checkout(b)
  \/ \E r \in runs : Start(r)

\* Callbacks, git and the storage answer; a client that leaves HTTP may keep the
\* backend and the response from ending.
Answers(q) == Serve(q) /\ Around(q) /\ ~(Http(q) /\ req[q].aborted)

Spec == Init /\ [][Next]_vars /\ \A q \in Request : WF_vars(Answers(q)) /\ WF_vars(Trace(q))

-----------------------------------------------------------------------------
(* Properties.                                                             *)

\* The jobs of a run can be put in an order: the depth-first search lets no cycle of
\* needs pass (planner.ts:75).
QueuedRunsAreOrdered == \A r \in runs : Ordered(Needs(Jobs(FileOf(r.of, r.id))))

\* However the loop over the workflows ends (a cyclic one throws out of it, the
\* storage or a callback fails, workflows.ts:187, 200), a trigger has queued one run
\* each of the first workflows it selects: none twice, and none before all those
\* in front of it.
QueuedInOrder ==
  \A r \in runs :
    LET before == {f \in Files(dir, r.of) : f.id < r.id /\ f.enabled /\ Selects(r.kind, r.ref, f)} IN
    /\ \A s \in runs : s.by = r.by /\ s.id = r.id => s = r
    /\ r.moved \/ r.kind = "manual" \/ \A f \in before : \E s \in runs : s.by = r.by /\ s.id = f.id

\* What the file says about branches and about tags, in either place where it may.
Filters(file, of) ==
  file.source[of] \cup (IF file.on = "object" /\ file.onPush # NoTrigger THEN file.onPush[of] ELSE {})

\* A push runs no workflow whose filter of branches, or of tags, leaves out the ref
\* that was pushed (README.md:177).  The code matches the branch HEAD names instead
\* (activity.ts:106, 107).
PushedRefMatches ==
  \A r \in runs : r.kind = "push" /\ req[r.by].pushed # 0 =>
    LET ref == req[r.by].branch
        filter == Filters(FileOf(r.of, r.id), IF ref \in Branch THEN "branches" ELSE "tags") IN
    filter = {} \/ MatchRef(ref, filter)

\* The definition a run was queued for and the one it starts with are those of the
\* commit it checks out, unless its branch was pushed to in between, or HEAD
\* switched while it was read (run/execute.ts:178, activity.ts:107); for a release
\* they are those of its tag, whatever commit it checks out (runtime/api.ts:75).
RunsItsCommit ==
  \A r \in runs :
    LET of == IF r.kind = "release.update" THEN tip["v1"] ELSE r.commit IN
    r.moved \/ {r.of, r.started} \subseteq {of, 0}

\* Directories that every push to b can be built with, whichever commit it finds.
Buildable ==
  {x \in Dir \X Branch : \A c \in 1..MaxCommit :
     /\ \A f \in Files(x[1], c) : Valid(f) /\ (f.enabled => Ordered(Needs(Jobs(f))))
     /\ \E f \in Files(x[1], c) : Matches(f, "push", x[2], "")}

\* A push that has moved the branch is built, at its commit or a later one,
\* however pushes overlap and whatever becomes of the git process, unless the
\* client left HTTP before the response had finished (handler.ts:91), the request
\* counts as failed, something failed behind it (activity.ts:207, api.ts:114), a
\* definition is broken (workflows.ts:168), or HEAD did not name the branch when
\* the push was recorded (activity.ts:106).
PushIsBuilt ==
  \A q \in Request :
    (req[q].pushed # 0) ~>
      \/ \E r \in runs : r.ref = req[q].branch /\ r.commit >= req[q].pushed
      \/ Http(q) /\ req[q].aborted
      \/ req[q].at = "over" /\ req[q].outcome = "failed"
      \/ trig[q].fault \/ trig[q].torn \/ <<dir, req[q].branch>> \notin Buildable
      \/ trig[q].branch \notin {"", req[q].branch}
===============================================================================
