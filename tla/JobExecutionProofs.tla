-------------------------- MODULE JobExecutionProofs ---------------------------
(***************************************************************************)
(* Proofs about JobExecution, for any number of jobs and steps, any        *)
(* acyclic needs, any conditions, actions and commands: type correctness,  *)
(* that needs are honoured, that at most one step has an effect after the  *)
(* cancellation, that the verdict is borne out by the rows, and that a     *)
(* download is of a whole upload.                                          *)
(*                                                                         *)
(* Every row is pending, done or the one in hand (Place); what its rows in *)
(* storage hold follows from which of the three it is and, for the row in  *)
(* hand, from where the executor stands (Rows, InHand).                    *)
(***************************************************************************)
EXTENDS JobExecution, TLAPS

\* Where the row in hand has not been started, where a step of it is under way,
\* and where it has a row in hand at all.
Before == {"check", "start", "workspace"}
AtStep == {"spawn", "command", "uses", "upload", "used", "usesBroken"}
Busy == Before \cup {"step", "usesMark", "usesJob"} \cup AtStep

Place ==
  /\ pc \in Busy => job \in Job
  /\ pc \in {"pick", "conclude"} => job = 0
  /\ pc = "conclude" => pending = {}
  /\ pending \cap done = {} /\ job \notin pending \cup done
  /\ Job \subseteq pending \cup done \cup {job}

\* A row that has returned: what VerdictBorneOut says of a single job.
Settled(j) ==
  /\ jobRow[j] \in TerminalStatus /\ \A s \in Step : stepRow[j][s] \in TerminalStatus
  /\ jobRow[j] = "failed" =>
       (\E s \in Step : stepRow[j][s] = "failed") \/ (\A s \in Step : stepRow[j][s] = "skipped")
  /\ jobRow[j] = "success" => \A s \in Step : stepRow[j][s] # "failed"
Untouched(j) == jobRow[j] = "queued" /\ \A s \in Step : stepRow[j][s] = "queued"
Rows ==
  /\ \A j \in done : Settled(j)
  /\ pc # "ended" => \A j \in pending : Untouched(j)

\* The steps before the current one have passed, those after it wait.
Passed == \A s \in Step : s < step => stepRow[job][s] \in {"success", "skipped", "cancelled"}
Waiting == \A s \in Step : s > step => stepRow[job][s] = "queued"
InHand ==
  /\ pc \in Before => Untouched(job)
  /\ pc = "step" => step \in 1..StepCount + 1 /\ Passed /\ Waiting
  /\ pc \in AtStep \cup {"usesMark"} => step \in Step /\ Passed /\ Waiting
  /\ pc = "usesMark" => \/ stepRow[job][step] = "failed"
                        \/ requested /\ stepRow[job][step] = "cancelled"
  /\ pc = "usesJob" => /\ \A s \in Step : stepRow[job][s] \in TerminalStatus
                       /\ requested \/ \E s \in Step : stepRow[job][s] = "failed"

\* What the row in hand needs has returned, and well.
NeedsMet ==
  pc \in Busy =>
    \A i \in Needs[IdOf[job]] : \A d \in RowsOf(i) :
      d \in done /\ (pc # "check" /\ IdOf[job] \notin HasIf => jobRow[d] = "success")

\* Once something had an effect after the request nothing else is on its way to one.
Late ==
  \/ late = 0
  \/ late = 1 /\ requested /\ pc \notin Before \cup (AtStep \ {"command"})

\* An upload that ended badly, for good.
Broken(u) == u \in done /\ IdOf[u] \in Uploads /\ jobRow[u] # "success"
\* The directory holds the upload of the newest row.
Whole == artifact # <<>> /\ files # NoFiles => files = [of |-> Newest, whole |-> TRUE]
Shelf ==
  /\ pc = "upload" => files = [of |-> job, whole |-> TRUE]
  /\ \/ Whole
     \/ \E u \in Job : Broken(u)
     \/ pc \in {"upload", "usesBroken", "usesMark", "usesJob"} /\ IdOf[job] \in Uploads
Fetched ==
  \A j \in Job : got[j] # NotGot =>
    \/ got[j].files = [of |-> got[j].row, whole |-> TRUE]
    \/ \E u \in Job : Broken(u) /\ (IdOf[u] \in Needs[IdOf[j]] => IdOf[j] \in HasIf)

IInv ==
  TypeOK /\ Place /\ Rows /\ InHand /\ NeedsMet /\ Late /\ Shelf /\ Fetched /\ VerdictBorneOut

-----------------------------------------------------------------------------
LEMMA InitIInv == Init => IInv
<1> SUFFICES ASSUME Init PROVE IInv
  OBVIOUS
<1> USE JobAssumption DEF Init
<1>1. TypeOK
  <2>1. /\ files \in [of : Job \cup {0}, whole : BOOLEAN] /\ artifact \in Seq(Job)
        /\ got \in [Job -> [row : Job \cup {0}, files : [of : Job \cup {0}, whole : BOOLEAN]]]
        /\ child \in [temper : Tempers \cup {"none"}, signal : {"none", "term", "kill"}]
    BY DEF NoFiles, NotGot, NoChild
  <2>2. /\ jobRow \in [Job -> RowStatus] /\ stepRow \in [Job -> [Step -> RowStatus]]
        /\ pc \in Pc
    BY DEF RowStatus, Pc
  <2>3. step \in 0..StepCount + 1 /\ late \in Nat
    OBVIOUS
  <2>4. QED
    BY <2>1, <2>2, <2>3 DEF TypeOK
<1>2. Place /\ Rows /\ InHand /\ NeedsMet
  <2>1. 0 \notin Job
    BY DEF Job
  <2>2. QED
    BY <2>1 DEF Place, Rows, InHand, NeedsMet, Untouched, Before, AtStep, Busy
<1>3. Late /\ Shelf /\ Fetched /\ VerdictBorneOut
  BY DEF Late, Shelf, Whole, Fetched, VerdictBorneOut
<1>4. QED
  BY <1>1, <1>2, <1>3 DEF IInv

-----------------------------------------------------------------------------
(* Types.                                                                  *)

\* Marking what is queued keeps rows rows, and leaves none queued.
LEMMA MarkedType ==
  ASSUME NEW S, NEW row \in [S -> RowStatus], NEW s \in TerminalStatus
  PROVE  /\ Marked(row, s) \in [S -> RowStatus]
         /\ \A x \in S : Marked(row, s)[x] = IF row[x] = "queued" THEN s ELSE row[x]
BY DEF Marked, RowStatus

LEMMA MarkAllType ==
  ASSUME TypeOK, NEW s \in TerminalStatus, MarkAll(s)
  PROVE  jobRow' \in [Job -> RowStatus] /\ stepRow' \in [Job -> [Step -> RowStatus]]
BY MarkedType DEF MarkAll, TypeOK

LEMMA JobReturnsType ==
  ASSUME TypeOK, job \in Job, NEW s \in TerminalStatus, JobReturns(s)
  PROVE  /\ jobRow' \in [Job -> RowStatus] /\ done' \subseteq Job
         /\ pc' \in Pc /\ job' \in Job \cup {0} /\ step' \in 0..StepCount + 1
BY JobAssumption DEF JobReturns, TypeOK, RowStatus, Pc

LEMMA EndJobType ==
  ASSUME TypeOK, job \in Job, NEW s \in TerminalStatus, NEW q \in TerminalStatus, EndJob(s, q)
  PROVE  /\ jobRow' \in [Job -> RowStatus] /\ done' \subseteq Job
         /\ pc' \in Pc /\ job' \in Job \cup {0} /\ step' \in 0..StepCount + 1
         /\ stepRow' \in [Job -> [Step -> RowStatus]]
BY JobReturnsType, MarkedType DEF EndJob, TypeOK

LEMMA FinishStepType ==
  ASSUME TypeOK, NEW s \in RowStatus, FinishStep(s)
  PROVE  stepRow' \in [Job -> [Step -> RowStatus]]
BY DEF FinishStep, TypeOK

LEMMA TypeStep == TypeOK /\ Place /\ InHand /\ [Next]_vars => TypeOK'
<1> SUFFICES ASSUME TypeOK, Place, InHand, [Next]_vars PROVE TypeOK'
  OBVIOUS
<1> USE JobAssumption DEF history, artifacts, place
<1>0. /\ {"success", "failed", "cancelled", "skipped", "running"} \subseteq RowStatus
      /\ TerminalStatus = {"success", "failed", "cancelled", "skipped"}
      /\ pc \in Busy => job \in Job
      /\ pc \in {"step"} \cup AtStep => step \in 1..StepCount + 1
  BY DEF RowStatus, TerminalStatus, Place, InHand, AtStep, Step
<1>1. CASE PickJob \/ AllReturned \/ AcceptJob \/ MaterializeWorkspace \/ UseAction
  BY <1>1 DEF TypeOK, PickJob, AllReturned, AcceptJob, MaterializeWorkspace, UseAction, Pc
<1>2. CASE StopPicking \/ JobThrows
  <2>1. MarkAll("cancelled") \/ MarkAll("skipped")
    BY <1>2 DEF StopPicking, JobThrows, FailedOr
  <2>2. jobRow' \in [Job -> RowStatus] /\ stepRow' \in [Job -> [Step -> RowStatus]]
    BY <1>0, <2>1, MarkAllType
  <2>3. QED
    BY ZenonT(30), <1>0, <1>2, <2>2 DEF TypeOK, StopPicking, JobThrows, FailedOr, Pc
<1>3. CASE Conclude
  <2>1. \/ MarkAll("skipped") \/ MarkAll("cancelled")
        \/ UNCHANGED <<jobRow, stepRow>>
    BY <1>3 DEF Conclude
  <2>2. jobRow' \in [Job -> RowStatus] /\ stepRow' \in [Job -> [Step -> RowStatus]]
    BY <1>0, <2>1, MarkAllType DEF TypeOK
  <2>3. verdict' \in TerminalStatus
    BY <1>0, <1>3 DEF Conclude
  <2>4. QED
    BY <1>3, <2>2, <2>3 DEF TypeOK, Conclude, Pc
<1>4. CASE SkipJob \/ CancelJob \/ RefuseJob
  <2>1. pc = "check" /\ \E s, q \in TerminalStatus : EndJob(s, q)
    BY <1>0, <1>4 DEF SkipJob, CancelJob, RefuseJob
  <2>2. QED
    BY <1>0, <1>4, <2>1, EndJobType DEF TypeOK, SkipJob, CancelJob, RefuseJob, Busy, Before
<1>5. CASE StartJob
  <2>1. jobRow' \in [Job -> RowStatus] /\ pc' \in Pc
    BY <1>5 DEF TypeOK, StartJob, Pc, RowStatus
  <2>2. step' \in 0..StepCount + 1
    BY <1>5 DEF StartJob
  <2>3. QED
    BY <1>5, <2>1, <2>2 DEF TypeOK, StartJob
<1>6. CASE PassStep \/ StartStep \/ UsesSucceeds
  <2>1. \E s \in RowStatus : FinishStep(s)
    BY <1>0, <1>6 DEF PassStep, StartStep, UsesSucceeds
  <2>2. step \in Step
    BY <1>6 DEF PassStep, StartStep, UsesSucceeds, InHand, AtStep
  <2>3. step + 1 \in 0..StepCount + 1
    BY <2>2 DEF Step
  <2>4. QED
    BY <1>0, <1>6, <2>1, <2>3, FinishStepType
    DEF TypeOK, PassStep, StartStep, UsesSucceeds, NextStep, TakesEffect, Pc
<1>7. ASSUME NEW t \in Tempers, Spawn(t) PROVE TypeOK'
  BY <1>7 DEF TypeOK, Spawn, TakesEffect, Pc
<1>8. CASE TermTimer \/ KillTimer \/ Cancel
  <2>1. \A s \in {"term", "kill"} : [child EXCEPT !.signal = s]
                                      \in [temper : Tempers \cup {"none"}, signal : {"none", "term", "kill"}]
    BY DEF TypeOK
  <2>2. child' \in [temper : Tempers \cup {"none"}, signal : {"none", "term", "kill"}]
    BY SMTT(30), <1>8, <2>1 DEF TypeOK, TermTimer, KillTimer, Cancel
  <2>3. QED
    BY ZenonT(30), <1>8, <2>2 DEF TypeOK, TermTimer, KillTimer, Cancel
<1>9. ASSUME NEW code \in {0, 1, 130, 137}, CommandEnds(code) PROVE TypeOK'
  <2>1. pc = "command" /\ job \in Job /\ step \in Step
    BY <1>0, <1>9 DEF CommandEnds, InHand, AtStep, Busy
  <2>2. child' \in [temper : Tempers \cup {"none"}, signal : {"none", "term", "kill"}]
    BY <1>9 DEF CommandEnds, NoChild
  <2>3. UNCHANGED <<verdict, pending, requested, late, threw, files, artifact, got>>
    BY <1>9 DEF CommandEnds
  <2>4. CASE ~(requested \/ code = 130) /\ code = 0
    <3>1. FinishStep("success") /\ NextStep /\ UNCHANGED <<jobRow, done, job>>
      BY <1>9, <2>4 DEF CommandEnds
    <3>2. QED
      BY <1>0, <2>1, <2>2, <2>3, <3>1, FinishStepType DEF TypeOK, NextStep, Pc, Step
  <2>5. CASE ~(~(requested \/ code = 130) /\ code = 0)
    <3>1. PICK s \in TerminalStatus, t \in TerminalStatus, q \in TerminalStatus :
            /\ JobReturns(s)
            /\ stepRow' = [stepRow EXCEPT ![job] = Marked([@ EXCEPT ![step] = t], q)]
      BY <1>0, <1>9, <2>5 DEF CommandEnds
    <3>2. [stepRow[job] EXCEPT ![step] = t] \in [Step -> RowStatus]
      BY <2>1 DEF TypeOK, RowStatus
    <3>3. Marked([stepRow[job] EXCEPT ![step] = t], q) \in [Step -> RowStatus]
      BY <3>2, MarkedType
    <3>4. stepRow' \in [Job -> [Step -> RowStatus]]
      BY <2>1, <3>1, <3>3 DEF TypeOK
    <3>5. QED
      BY <2>1, <2>2, <2>3, <3>1, <3>4, JobReturnsType DEF TypeOK
  <2>6. QED
    BY <2>4, <2>5
<1>10. CASE \E whole \in BOOLEAN : Upload(whole)
  BY <1>0, <1>10 DEF TypeOK, Upload, Pc, Busy, AtStep
<1>11. CASE CreateArtifact
  BY <1>0, <1>11 DEF TypeOK, CreateArtifact, Pc, Busy, AtStep
<1>12. CASE Download
  <2>1. job \in Job /\ Newest \in Job
    BY <1>0, <1>12 DEF TypeOK, Download, Newest, Busy, AtStep
  <2>2. [row |-> Newest, files |-> files]
          \in [row : Job \cup {0}, files : [of : Job \cup {0}, whole : BOOLEAN]]
    BY <2>1 DEF TypeOK
  <2>3. QED
    BY <1>12, <2>1, <2>2 DEF TypeOK, Download, Pc
<1>13. CASE UsesFails
  <2>1. \E s \in RowStatus : FinishStep(s)
    BY <1>0, <1>13 DEF UsesFails, FailedOr
  <2>2. QED
    BY <1>13, <2>1, FinishStepType DEF TypeOK, UsesFails, TakesEffect, Pc
<1>14. CASE UsesMarks
  <2>1. job \in Job /\ FailedOr("skipped") \in TerminalStatus
    BY <1>0, <1>14 DEF UsesMarks, Busy, FailedOr
  <2>2. Marked(stepRow[job], FailedOr("skipped")) \in [Step -> RowStatus]
    BY <2>1, MarkedType DEF TypeOK
  <2>3. QED
    BY <1>14, <2>1, <2>2 DEF TypeOK, UsesMarks, Pc
<1>15. CASE UsesEndsJob \/ JobSucceeds
  <2>1. job \in Job /\ \E s \in TerminalStatus : JobReturns(s)
    BY <1>0, <1>15 DEF UsesEndsJob, JobSucceeds, FailedOr, Busy
  <2>2. QED
    BY <1>15, <2>1, JobReturnsType DEF TypeOK, UsesEndsJob, JobSucceeds
<1>16. CASE UNCHANGED vars
  BY <1>16 DEF TypeOK, vars
<1>17. QED
  BY <1>1, <1>2, <1>3, <1>4, <1>5, <1>6, <1>7, <1>8, <1>9, <1>10, <1>11, <1>12, <1>13, <1>14,
     <1>15, <1>16 DEF Next, Advance
-----------------------------------------------------------------------------
(* What a step does to the rows as a whole.                                *)

Returns == pc \in Busy /\ pending' = pending /\ \E s \in TerminalStatus : JobReturns(s)
Stays == UNCHANGED place /\ (pc' = pc \/ pc' = "ended" \/ (pc \in Busy /\ pc' \in Busy))

\* A row is taken, returns, or stays in hand.
LEMMA StepKinds ==
  ASSUME [Next]_vars
  PROVE  PickJob \/ AllReturned \/ Returns \/ Stays
<1> USE DEF Busy, Before, AtStep, place
<1>1. CASE SkipJob \/ CancelJob \/ RefuseJob \/ UsesEndsJob \/ JobSucceeds
  BY <1>1 DEF SkipJob, CancelJob, RefuseJob, UsesEndsJob, JobSucceeds, EndJob, Returns, FailedOr,
     TerminalStatus
<1>2. CASE StopPicking \/ AcceptJob \/ MaterializeWorkspace \/ StartJob \/ JobThrows \/ Conclude
  BY <1>2 DEF StopPicking, AcceptJob, MaterializeWorkspace, StartJob, JobThrows, Conclude, Stays
<1>3. CASE PassStep \/ StartStep \/ (\E t \in Tempers : Spawn(t)) \/ TermTimer \/ KillTimer \/ Cancel
  BY <1>3 DEF PassStep, StartStep, Spawn, TermTimer, KillTimer, Cancel, NextStep, Stays
<1>4. ASSUME NEW code \in {0, 1, 130, 137}, CommandEnds(code) PROVE Returns \/ Stays
  BY <1>4 DEF CommandEnds, NextStep, Returns, Stays, TerminalStatus
<1>5. CASE UseAction \/ (\E whole \in BOOLEAN : Upload(whole)) \/ CreateArtifact \/ Download
           \/ UsesSucceeds \/ UsesFails \/ UsesMarks
  BY <1>5 DEF UseAction, Upload, CreateArtifact, Download, UsesSucceeds, UsesFails, UsesMarks, NextStep,
     Stays
<1>6. CASE UNCHANGED vars
  BY <1>6 DEF vars, Stays
<1>7. QED
  BY <1>1, <1>2, <1>3, <1>4, <1>5, <1>6 DEF Next, Advance

LEMMA PlaceStep == TypeOK /\ Place /\ [Next]_vars => Place'
<1> SUFFICES ASSUME TypeOK, Place, [Next]_vars PROVE Place'
  OBVIOUS
<1>0. 0 \notin Job
  BY DEF Job
<1> USE DEF Place, Busy, Before, AtStep
<1>1. CASE PickJob
  BY <1>0, <1>1 DEF PickJob, TypeOK
<1>2. CASE AllReturned
  BY <1>2 DEF AllReturned, place
<1>3. CASE Returns
  BY <1>0, <1>3 DEF Returns, JobReturns, TypeOK
<1>4. CASE Stays
  BY <1>4 DEF Stays, place
<1>5. QED
  BY <1>1, <1>2, <1>3, <1>4, StepKinds

Same(j) == jobRow'[j] = jobRow[j] /\ stepRow'[j] = stepRow[j]
MarksAll == pc' = "ended" /\ \E s \in TerminalStatus : MarkAll(s)

\* Rows other than the one in hand are only written at the end of the run.
LEMMA OthersStay ==
  ASSUME TypeOK, [Next]_vars
  PROVE  (\A j \in Job \ {job} : Same(j)) \/ MarksAll
<1> USE DEF TypeOK, Same, place
<1>1. CASE PickJob \/ AllReturned \/ AcceptJob \/ MaterializeWorkspace \/ StartJob
  BY <1>1 DEF PickJob, AllReturned, AcceptJob, MaterializeWorkspace, StartJob
<1>2. CASE StopPicking \/ JobThrows \/ Conclude
  BY <1>2 DEF StopPicking, JobThrows, Conclude, MarksAll, FailedOr, TerminalStatus
<1>3. CASE SkipJob \/ CancelJob \/ RefuseJob \/ UsesEndsJob \/ JobSucceeds
  BY <1>3 DEF SkipJob, CancelJob, RefuseJob, UsesEndsJob, JobSucceeds, EndJob, JobReturns
<1>4. CASE PassStep \/ StartStep \/ (\E t \in Tempers : Spawn(t)) \/ TermTimer \/ KillTimer \/ Cancel
  BY <1>4 DEF PassStep, StartStep, Spawn, TermTimer, KillTimer, Cancel, FinishStep
<1>5. ASSUME NEW code \in {0, 1, 130, 137}, CommandEnds(code) PROVE \A j \in Job \ {job} : Same(j)
  BY <1>5 DEF CommandEnds, FinishStep, JobReturns
<1>6. CASE UseAction \/ (\E whole \in BOOLEAN : Upload(whole)) \/ CreateArtifact \/ Download
           \/ UsesSucceeds \/ UsesFails \/ UsesMarks
  BY <1>6 DEF UseAction, Upload, CreateArtifact, Download, UsesSucceeds, UsesFails, UsesMarks, FinishStep
<1>7. CASE UNCHANGED vars
  BY <1>7 DEF vars
<1>8. QED
  BY <1>1, <1>2, <1>3, <1>4, <1>5, <1>6, <1>7 DEF Next, Advance

\* What has returned is not written again.
LEMMA DoneStays ==
  ASSUME TypeOK, Place, Rows, [Next]_vars, NEW j \in done
  PROVE  /\ jobRow'[j] = jobRow[j] /\ \A s \in Step : stepRow'[j][s] = stepRow[j][s]
         /\ j \in done'
<1>1. j \in Job /\ j # job /\ Settled(j)
  BY DEF TypeOK, Place, Rows
<1>2. j \in done'
  BY StepKinds DEF PickJob, AllReturned, Returns, JobReturns, Stays, place
<1>3. CASE MarksAll
  <2>1. jobRow[j] # "queued" /\ \A s \in Step : stepRow[j][s] # "queued"
    BY <1>1 DEF Settled, TerminalStatus
  <2>2. PICK s \in TerminalStatus : MarkAll(s)
    BY <1>3 DEF MarksAll
  <2>3. jobRow'[j] = jobRow[j]
    BY SMTT(30), <1>1, <2>1, <2>2, MarkedType DEF MarkAll, TypeOK
  <2>4. stepRow[j] \in [Step -> RowStatus] /\ stepRow'[j] = Marked(stepRow[j], s)
    BY <1>1, <2>2 DEF MarkAll, TypeOK
  <2>5. \A x \in Step : stepRow'[j][x] = stepRow[j][x]
    BY <2>1, <2>4, MarkedType
  <2>6. QED
    BY <1>2, <2>3, <2>5
<1>4. CASE ~MarksAll
  BY <1>1, <1>2, <1>4, OthersStay DEF Same
<1>5. QED
  BY <1>3, <1>4

-----------------------------------------------------------------------------
(* The rows of the job in hand.                                            *)

\* What JobReturns and EndJob leave of the row in hand.
LEMMA Returned ==
  ASSUME TypeOK, job \in Job, NEW s \in TerminalStatus, JobReturns(s)
  PROVE  jobRow'[job] = s /\ done' = done \cup {job}
BY DEF JobReturns, TypeOK

\* A job whose steps were not started ends with one status for the steps.
LEMMA UnstartedSettles ==
  ASSUME TypeOK, InHand, pc = "check", NEW j \in Job, j = job, NEW s \in {"skipped", "cancelled", "failed"},
         NEW q \in TerminalStatus, EndJob(s, q), s = "failed" => q = "skipped"
  PROVE  Settled(j)'
<1>1. \A x \in Step : stepRow[j][x] = "queued"
  BY DEF InHand, Untouched, Before
<1>2. stepRow[j] \in [Step -> RowStatus] /\ stepRow'[j] = Marked(stepRow[j], q)
  BY DEF EndJob, TypeOK
<1>3. \A x \in Step : stepRow'[j][x] = q
  BY <1>1, <1>2, MarkedType
<1>4. jobRow'[j] = s
  BY Returned DEF EndJob, TerminalStatus
<1>5. QED
  BY <1>3, <1>4 DEF Settled, TerminalStatus

\* A command that ends the job settles it: the steps before have passed, its own
\* step has s, and those after it what is given to them.
LEMMA CommandSettles ==
  ASSUME TypeOK, InHand, pc = "command", NEW j \in Job, j = job, NEW s \in {"cancelled", "failed"},
         NEW q \in TerminalStatus, JobReturns(s),
         stepRow' = [stepRow EXCEPT ![job] = Marked([@ EXCEPT ![step] = s], q)],
         q # "failed"
  PROVE  Settled(j)'
<1>1. step \in Step /\ Passed /\ Waiting
  BY DEF InHand, AtStep
<1> DEFINE row == [stepRow[j] EXCEPT ![step] = s]
<1>2. row \in [Step -> RowStatus] /\ s \in TerminalStatus
  BY <1>1 DEF TypeOK, RowStatus, TerminalStatus
<1>3. stepRow'[j] = Marked(row, q)
  BY DEF TypeOK
<1>4. \A x \in Step : stepRow'[j][x] = IF row[x] = "queued" THEN q ELSE row[x]
  BY <1>2, <1>3, MarkedType
<1>5. \A x \in Step : x = step \/ x < step \/ x > step
  BY <1>1 DEF Step
<1>6. \A x \in Step : row[x] = IF x = step THEN s ELSE stepRow[j][x]
  BY <1>1 DEF TypeOK
<1>7. \A x \in Step : row[x] \in TerminalStatus \cup {"queued"}
  BY <1>1, <1>2, <1>5, <1>6 DEF Passed, Waiting, TerminalStatus
<1>8. \A x \in Step : stepRow'[j][x] \in TerminalStatus
  BY <1>4, <1>7
<1>9. stepRow'[j][step] = s
  BY <1>1, <1>4, <1>6
<1>10. jobRow'[j] = s
  BY <1>2, Returned
<1>11. QED
  BY <1>1, <1>2, <1>8, <1>9, <1>10 DEF Settled

LEMMA ReturnSettles ==
  ASSUME TypeOK, Place, InHand, [Next]_vars, Returns, NEW j \in Job, j = job
  PROVE  Settled(j)'
<1>1. CASE SkipJob \/ CancelJob \/ RefuseJob
  BY <1>1, UnstartedSettles DEF SkipJob, CancelJob, RefuseJob, TerminalStatus
<1>2. ASSUME NEW code \in {0, 1, 130, 137}, CommandEnds(code), ~Stays PROVE Settled(j)'
  <2>1. requested \/ code = 130 \/ code # 0
    BY <1>2 DEF CommandEnds, NextStep, Stays, place, Busy, AtStep
  <2>2. PICK s \in {"cancelled", "failed"}, q \in {"cancelled", "skipped"} :
          /\ JobReturns(s)
          /\ stepRow' = [stepRow EXCEPT ![job] = Marked([@ EXCEPT ![step] = s], q)]
    BY <1>2, <2>1 DEF CommandEnds
  <2>3. pc = "command" /\ q \in TerminalStatus /\ q # "failed"
    BY <1>2 DEF CommandEnds, TerminalStatus
  <2>4. QED
    BY <2>2, <2>3, CommandSettles
<1>3. CASE UsesEndsJob
  <2>1. jobRow'[j] = FailedOr("failed") /\ stepRow' = stepRow
    BY <1>3, Returned DEF UsesEndsJob, FailedOr, TerminalStatus
  <2>2. QED
    BY <1>3, <2>1 DEF UsesEndsJob, InHand, Settled, FailedOr, TerminalStatus
<1>4. CASE JobSucceeds
  <2>1. jobRow'[j] = "success" /\ stepRow' = stepRow
    BY <1>4, Returned DEF JobSucceeds, TerminalStatus
  <2>2. \A s \in Step : s < step
    BY <1>4, JobAssumption DEF JobSucceeds, InHand, Step
  <2>3. \A s \in Step : stepRow[j][s] \in {"success", "skipped", "cancelled"}
    BY <1>4, <2>2 DEF JobSucceeds, InHand, Passed
  <2>4. QED
    BY <2>1, <2>3 DEF Settled, TerminalStatus
<1>5. CASE Stays
  BY <1>5 DEF Stays, Returns, JobReturns, place, Place, Busy, Before, AtStep, TypeOK
<1>6. CASE PickJob \/ AllReturned
  BY <1>6 DEF PickJob, AllReturned, Returns, Busy, Before, AtStep
<1>7. CASE StopPicking \/ AcceptJob \/ MaterializeWorkspace \/ StartJob \/ JobThrows \/ Conclude
  BY <1>7 DEF StopPicking, AcceptJob, MaterializeWorkspace, StartJob, JobThrows, Conclude,
     Returns, JobReturns
<1>8. CASE PassStep \/ StartStep \/ (\E t \in Tempers : Spawn(t)) \/ TermTimer \/ KillTimer \/ Cancel
  BY <1>8 DEF PassStep, StartStep, Spawn, TermTimer, KillTimer, Cancel, NextStep,
     Returns, JobReturns, Busy, Before, AtStep
<1>9. CASE UseAction \/ (\E whole \in BOOLEAN : Upload(whole)) \/ CreateArtifact \/ Download
           \/ UsesSucceeds \/ UsesFails \/ UsesMarks
  BY <1>9 DEF UseAction, Upload, CreateArtifact, Download, UsesSucceeds, UsesFails, UsesMarks, NextStep,
     Returns, JobReturns
<1>10. CASE UNCHANGED vars
  BY <1>10 DEF vars, Returns, JobReturns, Busy, Before, AtStep
<1>11. QED
  BY <1>1, <1>2, <1>3, <1>4, <1>5, <1>6, <1>7, <1>8, <1>9, <1>10 DEF Next, Advance

LEMMA RowsStep == TypeOK /\ Place /\ Rows /\ InHand /\ [Next]_vars => Rows'
<1> SUFFICES ASSUME TypeOK, Place, Rows, InHand, [Next]_vars PROVE Rows'
  OBVIOUS
<1>1. ASSUME NEW j \in done' PROVE Settled(j)'
  <2>1. CASE j \in done
    BY <2>1, DoneStays DEF Rows, Settled
  <2>2. CASE j \notin done
    <3>1. Returns /\ j = job
      BY <1>1, <2>2, StepKinds DEF PickJob, AllReturned, Returns, JobReturns, Stays, place
    <3>2. j \in Job
      BY <3>1 DEF Returns, Place
    <3>3. QED
      BY <3>1, <3>2, ReturnSettles
  <2>3. QED
    BY <2>1, <2>2
<1>2. ASSUME pc' # "ended", NEW j \in pending' PROVE Untouched(j)'
  <2>1. pc # "ended" /\ j \in pending
    BY <1>2, StepKinds DEF PickJob, AllReturned, Returns, Stays, place, Busy, Before, AtStep
  <2>2. j \in Job \ {job}
    BY <2>1 DEF Place, TypeOK
  <2>3. QED
    BY <1>2, <2>1, <2>2, OthersStay DEF Rows, Untouched, Same, MarksAll
<1>3. QED
  BY <1>1, <1>2 DEF Rows

LEMMA InHandStep == TypeOK /\ Place /\ Rows /\ InHand /\ [Next]_vars => InHand'
<1> SUFFICES ASSUME TypeOK, Place, Rows, InHand, [Next]_vars PROVE InHand'
  OBVIOUS
<1> USE DEF history, artifacts, place
<1>1. CASE PickJob
  <2>1. job' \in pending /\ pc' = "check" /\ UNCHANGED <<jobRow, stepRow>>
    BY <1>1 DEF PickJob
  <2>2. Untouched(job)'
    BY <1>1, <2>1 DEF PickJob, Rows, Untouched
  <2>3. QED
    BY <2>1, <2>2 DEF InHand, Before, AtStep
<1>2. CASE AllReturned \/ StopPicking \/ JobThrows \/ Conclude
  BY <1>2 DEF AllReturned, StopPicking, JobThrows, Conclude, InHand, Before, AtStep
<1>3. CASE AcceptJob \/ MaterializeWorkspace
  BY <1>3 DEF AcceptJob, MaterializeWorkspace, InHand, Untouched, Before, AtStep
<1>4. CASE Returns
  BY <1>4 DEF Returns, JobReturns, InHand, Before, AtStep
<1>5. CASE StartJob
  <2>1. step' = 1 /\ pc' = "step" /\ job' = job /\ stepRow' = stepRow
    BY <1>5 DEF StartJob
  <2>2. \A s \in Step : stepRow[job][s] = "queued"
    BY <1>5 DEF StartJob, InHand, Untouched, Before
  <2>3. 1 \in 1..StepCount + 1 /\ \A s \in Step : ~(s < 1)
    BY JobAssumption DEF Step
  <2>4. QED
    BY <2>1, <2>2, <2>3 DEF InHand, Passed, Waiting, Before, AtStep
<1>6. ASSUME NEW s \in {"success", "skipped", "cancelled"}, FinishStep(s), NextStep, job' = job,
             step \in Step, Passed, Waiting, job \in Job
      PROVE  InHand'
  <2>1. /\ step + 1 \in 1..StepCount + 1
        /\ \A x \in Step : x < step + 1 => x = step \/ x < step
        /\ \A x \in Step : x > step + 1 => x > step /\ x # step
    BY <1>6, JobAssumption DEF Step
  <2>2. \A x \in Step : stepRow'[job][x] = IF x = step THEN s ELSE stepRow[job][x]
    BY <1>6 DEF FinishStep, TypeOK
  <2>3. Passed' /\ Waiting'
    BY <1>6, <2>1, <2>2 DEF NextStep, Passed, Waiting
  <2>4. QED
    BY <1>6, <2>1, <2>3 DEF NextStep, InHand, Before, AtStep
<1>7. CASE PassStep \/ UsesSucceeds
  <2>1. step \in Step /\ Passed /\ Waiting /\ job \in Job
    BY <1>7 DEF PassStep, UsesSucceeds, InHand, AtStep, Place, Busy
  <2>2. \E s \in {"success", "skipped", "cancelled"} : FinishStep(s)
    BY <1>7 DEF PassStep, UsesSucceeds
  <2>3. QED
    BY <1>6, <1>7, <2>1, <2>2 DEF PassStep, UsesSucceeds
<1>8. ASSUME NEW s, FinishStep(s), step \in Step, Passed, Waiting, job \in Job,
             UNCHANGED <<job, step>>
      PROVE  Passed' /\ Waiting' /\ stepRow'[job][step] = s
  <2>1. \A x \in Step : stepRow'[job][x] = IF x = step THEN s ELSE stepRow[job][x]
    BY <1>8 DEF FinishStep, TypeOK
  <2>2. \A x \in Step : (x < step \/ x > step) => x # step
    BY <1>8 DEF Step
  <2>3. QED
    BY <1>8, <2>1, <2>2 DEF Passed, Waiting
<1>9. CASE StartStep
  <2>1. step \in Step /\ Passed /\ Waiting /\ job \in Job
    BY <1>9 DEF StartStep, InHand, Place, Busy
  <2>2. Passed' /\ Waiting'
    BY <1>8, <1>9, <2>1 DEF StartStep
  <2>3. QED
    BY <1>9, <2>1, <2>2 DEF StartStep, InHand, Before, AtStep
<1>10. CASE \/ \E t \in Tempers : Spawn(t)
            \/ TermTimer \/ KillTimer \/ UseAction \/ (\E whole \in BOOLEAN : Upload(whole))
            \/ CreateArtifact \/ Download
  <2>1. /\ pc \in AtStep /\ pc' \in AtStep
        /\ UNCHANGED <<stepRow, job, step>>
    BY <1>10 DEF Spawn, TermTimer, KillTimer, UseAction, Upload, CreateArtifact, Download, AtStep
  <2>2. QED
    BY <2>1 DEF InHand, Passed, Waiting, Before, AtStep
<1>11. ASSUME NEW code \in {0, 1, 130, 137}, CommandEnds(code), ~Returns PROVE InHand'
  <2>1. step \in Step /\ Passed /\ Waiting /\ job \in Job
    BY <1>11 DEF CommandEnds, InHand, AtStep, Place, Busy
  <2>2. FinishStep("success") /\ NextStep /\ job' = job
    BY <1>11 DEF CommandEnds, Returns, Busy, AtStep, TerminalStatus
  <2>3. QED
    BY <1>6, <2>1, <2>2
<1>12. CASE UsesFails
  <2>1. step \in Step /\ Passed /\ Waiting /\ job \in Job
    BY <1>12 DEF UsesFails, InHand, AtStep, Place, Busy
  <2>2. /\ FinishStep(FailedOr("failed")) /\ pc' = "usesMark"
        /\ UNCHANGED <<job, step, requested>>
    BY <1>12 DEF UsesFails
  <2>3. Passed' /\ Waiting' /\ stepRow'[job][step] = FailedOr("failed")
    BY <1>8, <2>1, <2>2
  <2>4. QED
    BY <2>1, <2>2, <2>3 DEF InHand, FailedOr, Before, AtStep
<1>13. CASE UsesMarks
  <2>1. step \in Step /\ Passed /\ Waiting /\ job \in Job
    BY <1>13 DEF UsesMarks, InHand, Place, Busy
  <2>2. FailedOr("skipped") \in TerminalStatus /\ stepRow[job] \in [Step -> RowStatus]
    BY <2>1 DEF FailedOr, TerminalStatus, TypeOK
  <2>3. stepRow'[job] = Marked(stepRow[job], FailedOr("skipped"))
    BY <1>13, <2>1 DEF UsesMarks, TypeOK
  <2>4. \A x \in Step : stepRow'[job][x] =
          IF stepRow[job][x] = "queued" THEN FailedOr("skipped") ELSE stepRow[job][x]
    BY <2>2, <2>3, MarkedType
  <2>5. \A x \in Step : x = step \/ x < step \/ x > step
    BY <2>1 DEF Step
  <2>6. stepRow[job][step] \in {"failed", "cancelled"}
    BY <1>13 DEF UsesMarks, InHand
  <2>7. \A x \in Step : stepRow'[job][x] \in TerminalStatus
    BY <2>1, <2>2, <2>4, <2>5, <2>6 DEF Passed, Waiting, TerminalStatus
  <2>8. requested \/ \E x \in Step : stepRow'[job][x] = "failed"
    BY <1>13, <2>1, <2>4 DEF UsesMarks, InHand
  <2>9. QED
    BY <1>13, <2>7, <2>8 DEF UsesMarks, InHand, Before, AtStep
<1>14. CASE SkipJob \/ CancelJob \/ RefuseJob \/ UsesEndsJob \/ JobSucceeds
  BY <1>4, <1>14 DEF SkipJob, CancelJob, RefuseJob, UsesEndsJob, JobSucceeds, EndJob, Returns,
     FailedOr, Busy, Before, TerminalStatus
<1>15. CASE Cancel
  BY <1>15 DEF Cancel, InHand, Untouched, Passed, Waiting
<1>16. CASE UNCHANGED vars
  BY <1>16 DEF vars, InHand, Untouched, Passed, Waiting
<1>17. QED
  BY <1>1, <1>2, <1>3, <1>4, <1>5, <1>7, <1>9, <1>10, <1>11, <1>12, <1>13, <1>14, <1>15, <1>16
  DEF Next, Advance
-----------------------------------------------------------------------------
(* What the row in hand needs.                                             *)

LEMMA AggregateSuccess ==
  ASSUME NEW S, Aggregate(S) = "success"
  PROVE  S = {"success"}
BY DEF Aggregate

\* An accepted job that has no condition has rows of "success" only in its needs.
LEMMA AcceptedNeeds ==
  ASSUME TypeOK, ~NeedsFail, job \in Job, IdOf[job] \notin HasIf,
         NEW i \in Needs[IdOf[job]], NEW d \in RowsOf(i), d \in done
  PROVE  jobRow[d] = "success"
<1> DEFINE S == {jobRow[x] : x \in done \cap RowsOf(i)}
<1>1. Aggregate(S) \in NeedResults(job)
  BY DEF NeedResults
<1>2. Aggregate(S) = "success"
  BY <1>1 DEF NeedsFail
<1>3. S = {"success"}
  BY <1>2, AggregateSuccess
<1>4. jobRow[d] \in S
  OBVIOUS
<1>5. QED
  BY <1>3, <1>4

\* The only way on from "check" with the job in hand.
LEMMA LeavesCheck ==
  ASSUME [Next]_vars, pc = "check", pc' \in Busy, pc' # "check"
  PROVE  AcceptJob
<1> USE DEF Busy, Before, AtStep
<1>1. CASE Advance
  BY <1>1 DEF Advance, PickJob, StopPicking, AllReturned, SkipJob, CancelJob, RefuseJob, EndJob,
     JobReturns, MaterializeWorkspace, StartJob, PassStep, StartStep, Spawn, TermTimer, KillTimer,
     CommandEnds, UseAction, Upload, CreateArtifact, Download, UsesSucceeds, UsesFails, UsesMarks,
     UsesEndsJob, JobSucceeds, Conclude
<1>2. CASE JobThrows \/ Cancel \/ UNCHANGED vars
  BY <1>2 DEF JobThrows, Cancel, vars
<1>3. QED
  BY <1>1, <1>2 DEF Next

LEMMA NeedsMetStep == TypeOK /\ Place /\ Rows /\ NeedsMet /\ [Next]_vars => NeedsMet'
<1> SUFFICES ASSUME TypeOK, Place, Rows, NeedsMet, [Next]_vars PROVE NeedsMet'
  OBVIOUS
<1>1. CASE PickJob
  BY <1>1 DEF PickJob, Runnable, NeedsMet, RowsOf
<1>2. CASE AllReturned \/ Returns
  BY <1>2 DEF AllReturned, Returns, JobReturns, NeedsMet, Busy, Before, AtStep
<1>3. CASE Stays
  <2> SUFFICES ASSUME pc' \in Busy, NEW i \in Needs[IdOf[job]], NEW d \in RowsOf(i)
               PROVE  /\ d \in done'
                      /\ pc' # "check" /\ IdOf[job] \notin HasIf => jobRow'[d] = "success"
    BY <1>3 DEF NeedsMet, Stays, place, RowsOf
  <2>1. pc \in Busy /\ job \in Job
    BY <1>3 DEF Stays, Place, Busy, Before, AtStep
  <2>2. d \in done /\ (pc # "check" /\ IdOf[job] \notin HasIf => jobRow[d] = "success")
    BY <2>1 DEF NeedsMet
  <2>3. d \in done' /\ jobRow'[d] = jobRow[d]
    BY <2>2, DoneStays
  <2>4. CASE pc = "check" /\ pc' # "check" /\ IdOf[job] \notin HasIf
    BY <2>1, <2>2, <2>3, <2>4, LeavesCheck, AcceptedNeeds DEF AcceptJob
  <2>5. QED
    BY <2>2, <2>3, <2>4
<1>4. QED
  BY <1>1, <1>2, <1>3, StepKinds

-----------------------------------------------------------------------------
(* After the cancellation.                                                 *)

LEMMA LateStep == TypeOK /\ Late /\ [Next]_vars => Late'
<1> SUFFICES ASSUME TypeOK, Late, [Next]_vars PROVE Late'
  OBVIOUS
<1> USE DEF Late, Before, AtStep, history, artifacts
<1>1. CASE PickJob \/ StopPicking \/ AllReturned
  BY <1>1 DEF PickJob, StopPicking, AllReturned
<1>2. CASE SkipJob \/ CancelJob \/ RefuseJob \/ UsesEndsJob \/ JobSucceeds
  BY <1>2 DEF SkipJob, CancelJob, RefuseJob, UsesEndsJob, JobSucceeds, EndJob, JobReturns
<1>3. CASE AcceptJob \/ MaterializeWorkspace \/ StartJob \/ JobThrows \/ Conclude
  BY <1>3 DEF AcceptJob, MaterializeWorkspace, StartJob, JobThrows, Conclude
<1>4. CASE PassStep \/ StartStep \/ TermTimer \/ KillTimer \/ Cancel
  BY <1>4 DEF PassStep, StartStep, TermTimer, KillTimer, Cancel, NextStep
<1>5. CASE (\E t \in Tempers : Spawn(t)) \/ UsesSucceeds \/ UsesFails
  BY <1>5 DEF Spawn, UsesSucceeds, UsesFails, TakesEffect, NextStep, TypeOK
<1>6. ASSUME NEW code \in {0, 1, 130, 137}, CommandEnds(code) PROVE Late'
  BY <1>6 DEF CommandEnds, JobReturns, NextStep
<1>7. CASE UseAction \/ (\E whole \in BOOLEAN : Upload(whole)) \/ CreateArtifact \/ Download \/ UsesMarks
  BY <1>7 DEF UseAction, Upload, CreateArtifact, Download, UsesMarks
<1>8. CASE UNCHANGED vars
  BY <1>8 DEF vars
<1>9. QED
  BY <1>1, <1>2, <1>3, <1>4, <1>5, <1>6, <1>7, <1>8 DEF Next, Advance
-----------------------------------------------------------------------------
(* The artifact.                                                           *)

LEMMA BrokenStays ==
  ASSUME TypeOK, Place, Rows, [Next]_vars, NEW u \in Job, Broken(u)
  PROVE  Broken(u)'
BY DoneStays DEF Broken

\* An upload that did not get as far as its row ends the job badly.
LEMMA UploaderFails ==
  ASSUME TypeOK, Place, UsesEndsJob, NEW j \in Job, j = job, IdOf[j] \in Uploads
  PROVE  Broken(j)'
<1>1. FailedOr("failed") \in TerminalStatus /\ FailedOr("failed") # "success"
  BY DEF FailedOr, TerminalStatus
<1>2. jobRow'[j] = FailedOr("failed") /\ j \in done'
  BY <1>1, Returned DEF UsesEndsJob
<1>3. QED
  BY <1>1, <1>2 DEF Broken

\* Steps that leave the artifact alone and are not on the way of an upload.
ShelfKept ==
  UNCHANGED <<files, artifact>> /\ pc' # "upload" /\ pc \notin {"upload", "usesBroken", "usesMark", "usesJob"}

LEMMA ShelfStep == TypeOK /\ Place /\ Rows /\ Shelf /\ [Next]_vars => Shelf'
<1> SUFFICES ASSUME TypeOK, Place, Rows, Shelf, [Next]_vars PROVE Shelf'
  OBVIOUS
<1> USE DEF history, artifacts, place
<1>1. (\E u \in Job : Broken(u)) => (\E u \in Job : Broken(u))'
  BY BrokenStays
<1>2. UNCHANGED <<files, artifact>> /\ Whole => Whole'
  BY DEF Whole, Newest
<1>3. CASE ShelfKept
  BY <1>1, <1>2, <1>3 DEF Shelf, ShelfKept
<1>4. CASE PickJob \/ StopPicking \/ AllReturned \/ AcceptJob \/ MaterializeWorkspace \/ StartJob
           \/ JobThrows \/ Conclude
  BY <1>3, <1>4 DEF PickJob, StopPicking, AllReturned, AcceptJob, MaterializeWorkspace, StartJob,
     JobThrows, Conclude, ShelfKept
<1>5. CASE SkipJob \/ CancelJob \/ RefuseJob \/ JobSucceeds
  BY <1>3, <1>5 DEF SkipJob, CancelJob, RefuseJob, JobSucceeds, EndJob, JobReturns, ShelfKept
<1>6. CASE PassStep \/ StartStep \/ (\E t \in Tempers : Spawn(t)) \/ TermTimer \/ KillTimer
           \/ UseAction \/ Download \/ UsesSucceeds
  BY <1>3, <1>6 DEF PassStep, StartStep, Spawn, TermTimer, KillTimer, UseAction, Download, UsesSucceeds,
     NextStep, ShelfKept
<1>7. ASSUME NEW code \in {0, 1, 130, 137}, CommandEnds(code) PROVE Shelf'
  BY <1>3, <1>7 DEF CommandEnds, NextStep, JobReturns, ShelfKept
<1>8. ASSUME NEW whole \in BOOLEAN, Upload(whole) PROVE Shelf'
  <2>1. files' = [of |-> job, whole |-> whole] /\ job' = job /\ IdOf[job] \in Uploads
    BY <1>8 DEF Upload
  <2>2. (pc' = "upload" /\ whole = TRUE) \/ pc' = "usesBroken"
    BY <1>8 DEF Upload
  <2>3. QED
    BY <2>1, <2>2 DEF Shelf
<1>9. CASE CreateArtifact
  <2>1. /\ files = [of |-> job, whole |-> TRUE] /\ files' = files
        /\ artifact' = Append(artifact, job) /\ pc' = "used"
    BY <1>9 DEF CreateArtifact, Shelf
  <2>2. job \in Job /\ artifact \in Seq(Job)
    BY <1>9 DEF CreateArtifact, Place, Busy, AtStep, TypeOK
  <2>3. Len(artifact') = Len(artifact) + 1 /\ artifact'[Len(artifact) + 1] = job
    BY <2>1, <2>2
  <2>4. QED
    BY <2>1, <2>3 DEF Shelf, Whole, Newest
<1>10. CASE UsesFails \/ UsesMarks
  BY <1>1, <1>2, <1>10 DEF UsesFails, UsesMarks, Shelf
<1>11. CASE UsesEndsJob
  <2>1. job \in Job
    BY <1>11 DEF UsesEndsJob, Place, Busy
  <2>2. pc' = "pick" /\ UNCHANGED <<files, artifact>>
    BY <1>11 DEF UsesEndsJob, JobReturns
  <2>3. CASE IdOf[job] \in Uploads
    <3>1. \A j \in Job : j = job => Broken(j)'
      BY <1>11, <2>3, UploaderFails
    <3>2. (\E u \in Job : Broken(u))'
      BY <2>1, <3>1
    <3>3. QED
      BY <2>2, <3>2 DEF Shelf
  <2>4. CASE IdOf[job] \notin Uploads
    BY <1>1, <1>2, <2>2, <2>4 DEF Shelf
  <2>5. QED
    BY <2>3, <2>4
<1>12. CASE Cancel \/ UNCHANGED vars
  BY <1>1, <1>2, <1>12 DEF Cancel, vars, Shelf
<1>13. QED
  BY <1>4, <1>5, <1>6, <1>7, <1>8, <1>9, <1>10, <1>11, <1>12 DEF Next, Advance

\* Only a download changes what a job got.
LEMMA GotStays ==
  ASSUME [Next]_vars
  PROVE  got' = got \/ Download
<1> USE DEF history, artifacts
<1>1. CASE Advance
  BY <1>1 DEF Advance, PickJob, StopPicking, AllReturned, SkipJob, CancelJob, RefuseJob,
     AcceptJob, MaterializeWorkspace, StartJob, PassStep, StartStep, Spawn, TermTimer, KillTimer,
     CommandEnds, UseAction, Upload, CreateArtifact, UsesSucceeds, UsesFails, UsesMarks,
     UsesEndsJob, JobSucceeds, Conclude
<1>2. CASE JobThrows \/ Cancel \/ UNCHANGED vars
  BY <1>2 DEF JobThrows, Cancel, vars
<1>3. QED
  BY <1>1, <1>2 DEF Next

LEMMA FetchedStep ==
  TypeOK /\ Place /\ Rows /\ NeedsMet /\ Shelf /\ Fetched /\ [Next]_vars => Fetched'
<1> SUFFICES ASSUME TypeOK, Place, Rows, NeedsMet, Shelf, Fetched, [Next]_vars,
                    NEW j \in Job, got'[j] # NotGot
             PROVE  \/ got'[j].files = [of |-> got'[j].row, whole |-> TRUE]
                    \/ \E u \in Job : Broken(u)' /\ (IdOf[u] \in Needs[IdOf[j]] => IdOf[j] \in HasIf)
  BY DEF Fetched
<1>1. \A u \in Job : Broken(u) => Broken(u)'
  BY BrokenStays
<1>2. CASE got'[j] = got[j]
  BY <1>1, <1>2 DEF Fetched
<1>3. CASE got'[j] # got[j]
  <2>1. Download /\ j = job
    BY <1>3, GotStays DEF Download, TypeOK
  <2>2. got'[j] = [row |-> Newest, files |-> files]
    BY <2>1 DEF Download, TypeOK
  <2>3. CASE Whole
    <3>1. files = [of |-> Newest, whole |-> TRUE]
      BY <2>1, <2>3 DEF Whole, Download
    <3>2. got'[j].files = files /\ got'[j].row = Newest
      BY <2>2
    <3>3. QED
      BY <3>1, <3>2
  <2>4. CASE ~Whole
    <3>1. PICK u \in Job : Broken(u)
      BY <2>1, <2>4 DEF Shelf, Download
    <3>2. IdOf[u] \in Needs[IdOf[j]] => IdOf[j] \in HasIf
      BY <2>1, <3>1 DEF NeedsMet, Busy, AtStep, Download, Broken, RowsOf
    <3>3. QED
      BY <1>1, <3>1, <3>2
  <2>5. QED
    BY <2>3, <2>4
<1>4. QED
  BY <1>2, <1>3
-----------------------------------------------------------------------------
(* The verdict.                                                            *)

LEMMA EndsBy ==
  ASSUME [Next]_vars, pc' = "ended"
  PROVE  StopPicking \/ JobThrows \/ Conclude \/ UNCHANGED <<jobRow, stepRow, verdict, pc, threw>>
<1> USE DEF history
<1>1. CASE Advance
  BY <1>1 DEF Advance, PickJob, AllReturned, SkipJob, CancelJob, RefuseJob, EndJob,
     JobReturns, AcceptJob, MaterializeWorkspace, StartJob, PassStep, StartStep, NextStep, Spawn, TermTimer,
     KillTimer, CommandEnds, UseAction, Upload, CreateArtifact, Download, UsesSucceeds, UsesFails,
     UsesMarks, UsesEndsJob, JobSucceeds
<1>2. CASE JobThrows \/ Cancel \/ UNCHANGED vars
  BY <1>2 DEF Cancel, vars
<1>3. QED
  BY <1>1, <1>2 DEF Next

\* A row nobody took is written as a whole.
LEMMA UntouchedSettles ==
  ASSUME TypeOK, NEW j \in Job, Untouched(j), MarkAll("cancelled")
  PROVE  Settled(j)' /\ jobRow'[j] = "cancelled"
<1>1. "cancelled" \in TerminalStatus
  BY DEF TerminalStatus
<1>2. jobRow'[j] = "cancelled"
  BY <1>1, MarkedType DEF MarkAll, Untouched, TypeOK
<1>3. stepRow[j] \in [Step -> RowStatus] /\ stepRow'[j] = Marked(stepRow[j], "cancelled")
  BY DEF MarkAll, TypeOK
<1>4. \A x \in Step : stepRow'[j][x] = "cancelled"
  BY <1>1, <1>3, MarkedType DEF Untouched
<1>5. QED
  BY <1>1, <1>2, <1>4 DEF Settled

LEMMA VerdictStep == TypeOK /\ Place /\ Rows /\ VerdictBorneOut /\ [Next]_vars => VerdictBorneOut'
<1> SUFFICES ASSUME TypeOK, Place, Rows, VerdictBorneOut, [Next]_vars, pc' = "ended", ~threw'
             PROVE  VerdictBorneOut'
  BY DEF VerdictBorneOut
<1>1. SUFFICES ASSUME StopPicking \/ Conclude PROVE VerdictBorneOut'
  <2>1. CASE UNCHANGED <<jobRow, stepRow, verdict, pc, threw>>
    BY <2>1 DEF VerdictBorneOut
  <2>2. CASE JobThrows
    BY <2>2 DEF JobThrows
  <2>3. QED
    BY <1>1, <2>1, <2>2, EndsBy
<1>2. ASSUME NEW j \in done PROVE Settled(j)' /\ jobRow'[j] = jobRow[j]
  BY <1>2, DoneStays DEF Rows, Settled
<1>3. SUFFICES /\ \A j \in Job : Settled(j)'
               /\ verdict' = "failed" => \E j \in Job : jobRow'[j] = "failed"
               /\ verdict' = "success" => \A j \in Job : jobRow'[j] \in {"success", "skipped"}
  BY DEF VerdictBorneOut, Settled
<1>4. CASE StopPicking
  <2>1. MarkAll("cancelled") /\ verdict' = "cancelled" /\ pc = "pick"
    BY <1>4 DEF StopPicking
  <2>2. \A j \in Job : j \in done \/ j \in pending
    BY <2>1 DEF Place, Job
  <2>3. \A j \in Job : Settled(j)'
    BY <1>2, <2>1, <2>2, UntouchedSettles DEF Rows
  <2>4. QED
    BY <2>1, <2>3
<1>5. CASE Conclude
  <2>1. Job \subseteq done
    BY <1>5 DEF Conclude, Place, Job
  <2>2. \A j \in Job : Settled(j)' /\ Settled(j) /\ jobRow'[j] = jobRow[j]
    BY <1>2, <2>1 DEF Rows
  <2> DEFINE seen == {jobRow[j] : j \in Job}
  <2>3. verdict' = "failed" => "failed" \in seen
    BY <1>5 DEF Conclude
  <2>4. verdict' = "success" => "failed" \notin seen /\ "cancelled" \notin seen
    BY <1>5 DEF Conclude
  <2>5. QED
    BY <2>2, <2>3, <2>4 DEF Settled, TerminalStatus
<1>6. QED
  BY <1>1, <1>4, <1>5

-----------------------------------------------------------------------------
LEMMA NextKeeps == IInv /\ [Next]_vars => IInv'
BY TypeStep, PlaceStep, RowsStep, InHandStep, NeedsMetStep, LateStep, ShelfStep, FetchedStep, VerdictStep
   DEF IInv

LEMMA Invariance == Spec => []IInv
BY InitIInv, NextKeeps, PTL DEF Spec

-----------------------------------------------------------------------------
\* In every reachable state the rows, the artifact and the place of the executor
\* have their types, for any number of jobs and steps.
THEOREM TypeCorrect == Spec => []TypeOK
<1>1. IInv => TypeOK
  BY DEF IInv
<1>2. QED
  BY <1>1, Invariance, PTL

\* A row is written "running" only by the start of the job in hand.
LEMMA RunningByStart ==
  ASSUME TypeOK, [Next]_vars, NEW j \in Job, jobRow[j] # "running", jobRow'[j] = "running"
  PROVE  StartJob /\ j = job
<1>1. ~MarksAll
  <2>1. SUFFICES ASSUME NEW s \in TerminalStatus, MarkAll(s) PROVE FALSE
    BY DEF MarksAll
  <2>2. jobRow'[j] = IF jobRow[j] = "queued" THEN s ELSE jobRow[j]
    BY SMTT(30), <2>1, MarkedType DEF MarkAll, TypeOK
  <2>3. QED
    BY <2>2 DEF TerminalStatus
<1>2. j = job
  BY <1>1, OthersStay DEF Same
<1>3. ~(\E s \in TerminalStatus : JobReturns(s))
  BY <1>2 DEF JobReturns, TerminalStatus, TypeOK
<1>4. CASE \E code \in {0, 1, 130, 137} : CommandEnds(code)
  BY <1>3, <1>4 DEF CommandEnds, TerminalStatus
<1>5. CASE SkipJob \/ CancelJob \/ RefuseJob \/ UsesEndsJob \/ JobSucceeds
  BY <1>3, <1>5 DEF SkipJob, CancelJob, RefuseJob, UsesEndsJob, JobSucceeds, EndJob, FailedOr,
     TerminalStatus
<1>6. CASE StopPicking \/ JobThrows \/ Conclude
  BY <1>1, <1>6 DEF StopPicking, JobThrows, Conclude, MarksAll, FailedOr, TerminalStatus
<1>7. CASE jobRow' = jobRow
  BY <1>7
<1>8. QED
  BY <1>2, <1>4, <1>5, <1>6, <1>7
  DEF Next, Advance, PickJob, AllReturned, AcceptJob, MaterializeWorkspace, PassStep, StartStep,
      Spawn, TermTimer, KillTimer, UseAction, Upload, CreateArtifact, Download, UsesSucceeds,
      UsesFails, UsesMarks, Cancel, vars

\* A job starts only when every row of every job it needs has ended, and ended well
\* unless the job has a condition of its own (run/execute.ts:60-79): whatever the
\* needs, the order of the jobs and the rows of a matrix.
THEOREM NeedsHonouredHolds == Spec => NeedsHonoured
<1>1. ASSUME IInv, [Next]_vars, NEW j \in Job, jobRow[j] # "running", jobRow'[j] = "running",
             NEW i \in Needs[IdOf[j]], NEW d \in RowsOf(i)
      PROVE  jobRow[d] \in TerminalStatus /\ (IdOf[j] \notin HasIf => jobRow[d] = "success")
  <2>1. pc = "workspace" /\ j = job
    BY <1>1, RunningByStart DEF IInv, StartJob
  <2>2. d \in done /\ (IdOf[j] \notin HasIf => jobRow[d] = "success")
    BY <1>1, <2>1 DEF IInv, NeedsMet, Busy, Before
  <2>3. QED
    BY <1>1, <2>2 DEF IInv, Rows, Settled
<1>2. IInv /\ [Next]_vars =>
        [\A j \in Job : jobRow[j] # "running" /\ jobRow'[j] = "running" =>
           \A i \in Needs[IdOf[j]] : \A d \in RowsOf(i) :
             jobRow[d] \in TerminalStatus /\ (IdOf[j] \notin HasIf => jobRow[d] = "success")]_vars
  BY <1>1
<1>3. QED
  BY <1>2, Invariance, PTL DEF Spec, NeedsHonoured

\* A cancellation lets at most one command be spawned or one action end after it
\* (run/execute.ts:95, job/execute.ts:207, step/execute.ts:237), wherever it comes.
THEOREM OneStepAfterCancelHolds == Spec => []OneStepAfterCancel
<1>1. IInv => OneStepAfterCancel
  BY DEF IInv, Late, OneStepAfterCancel
<1>2. QED
  BY <1>1, Invariance, PTL

\* When the run has ended without an exception no row is left unfinished and each
\* verdict is borne out one level below it (run/execute.ts:120-151,
\* step/execute.ts:60-90), for any jobs and steps and wherever the cancellation comes.
THEOREM VerdictBorneOutHolds == Spec => []VerdictBorneOut
<1>1. IInv => VerdictBorneOut
  BY DEF IInv
<1>2. QED
  BY <1>1, Invariance, PTL

\* A download gets the whole upload of the job whose row it read, unless an upload
\* it does not depend on ended badly (actions/artifacts.ts:104), for any number of
\* uploading and downloading jobs.
THEOREM DownloadIsWholeHolds == Spec => []DownloadIsWhole
<1>1. IInv => DownloadIsWhole
  BY DEF IInv, TypeOK, Fetched, Broken, DownloadIsWhole
<1>2. QED
  BY <1>1, Invariance, PTL
===============================================================================
