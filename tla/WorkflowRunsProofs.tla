-------------------------- MODULE WorkflowRunsProofs --------------------------
(***************************************************************************)
(* Proofs about WorkflowRuns, for any number of runs, jobs, users and      *)
(* groups and any set of faults: type correctness, one run at a time, no   *)
(* lost wake-up, and that a run cancelled in time is never executed.       *)
(*                                                                         *)
(* Many processQueue calls may be scheduled at once; that only one of them *)
(* is live follows from the guard being set exactly while one is (Guard),  *)
(* and this in turn from every live call having a run in hand (Shape).     *)
(***************************************************************************)
EXTENDS WorkflowRuns, TLAPS

Live(m) == loop[m].pc \in LivePc

\* Where a state object is registered for the run in hand.
RegisteredPc == LivePc \ {"poll", "exec", "start", "prepare"}

\* A live loop has a run in hand, and a verdict once it has passed judgement,
\* as it has in the catch block; so has a cancellation under way a run.
Sound(l) ==
  /\ l \in LoopState
  /\ l.pc \in LivePc => l.run \in Run
  /\ l.pc \in {"list", "mark", "write", "announce"} => l.verdict \in TerminalStatus
  /\ l.pc \in {"list", "mark"} => l.markAs \in TerminalStatus
  /\ l.caught => l.pc \in {"list", "mark", "write", "announce"}
Shape ==
  /\ \A m \in Run : Sound(loop[m])
  /\ \A p \in Canceller : cancel[p].pc # "idle" => cancel[p].run \in Run

\* The guard is set exactly while one loop is live, and only the run that loop
\* executes has a state object.
Guard ==
  /\ \A m, n \in Run : Live(m) /\ Live(n) => m = n
  /\ processing = TRUE => \E m \in Run : Live(m)
  /\ \A m \in Run : Live(m) => processing = TRUE
  /\ \A r \in active : \E m \in Run : loop[m].pc \in RegisteredPc /\ loop[m].run = r

IInv == TypeOK /\ Shape /\ Guard /\ NoLostWakeup

-----------------------------------------------------------------------------
LEMMA InitIInv == Init => IInv
<1> SUFFICES ASSUME Init PROVE IInv
  OBVIOUS
<1> USE DEF Init, IdleLoop, IdleCancel
<1>1. /\ IdleLoop \in LoopState /\ IdleCancel \in CancelState
  BY DEF LoopState, LoopPc, LivePc, Outcome, CancelState, CancelPc
<1>2. TypeOK
  <2>1. status \in [Run -> RunStatus] /\ rows \in [Run -> [Job -> RowStatus]]
    BY DEF RunStatus, RowStatus
  <2>2. announced \in [Run -> Seq(TerminalStatus)] /\ queue \in Seq(Run)
    OBVIOUS
  <2>3. submit \in [Run -> SubmitPc] /\ rivals \in [Run -> SUBSET Run]
    BY DEF SubmitPc
  <2>4. cancel \in [Canceller -> CancelState] /\ loop \in [Run -> LoopState]
    BY <1>1
  <2>5. QED
    BY <2>1, <2>2, <2>3, <2>4 DEF TypeOK
<1>3. Shape /\ Guard
  BY <1>1 DEF Shape, Sound, Guard, Live, LivePc
<1>4. NoLostWakeup
  BY DEF NoLostWakeup
<1>5. QED
  BY <1>2, <1>3, <1>4 DEF IInv

-----------------------------------------------------------------------------
(* Types and shapes, action by action.                                     *)

\* A loop that only moves on keeps its type.
LEMMA LoopPcMoves ==
  ASSUME NEW l \in LoopState, NEW pc \in LoopPc
  PROVE  [l EXCEPT !.pc = pc] \in LoopState
BY DEF LoopState

\* The events of a run stay a sequence of final statuses.
LEMMA AnnouncedTypes ==
  ASSUME announced \in [Run -> Seq(TerminalStatus)], NEW r, NEW s \in TerminalStatus
  PROVE  [announced EXCEPT ![r] = Append(@, s)] \in [Run -> Seq(TerminalStatus)]
<1>1. \A q \in Seq(TerminalStatus) : Append(q, s) \in Seq(TerminalStatus)
  OBVIOUS
<1>2. \A x \in Run : announced[x] \in Seq(TerminalStatus)
  OBVIOUS
<1>3. QED
  BY <1>1, <1>2

\* The actions of a submission.
LEMMA SubmitTypes ==
  ASSUME TypeOK, Shape, Guard, NEW r \in Run, Submitter(r) \/ SubmitFails(r)
  PROVE  TypeOK' /\ Shape'
<1> USE RunsAssumption DEF TypeOK, Shape, Live, storage, caller, engine, history
<1>1. CASE CreateRun(r)
  BY <1>1 DEF CreateRun, SetStatus, RunStatus, SubmitPc
<1>2. ASSUME NEW j \in Job, CreateJob(r, j) PROVE TypeOK' /\ Shape'
  BY <1>2 DEF CreateJob, RowStatus
<1>3. CASE Accept(r)
  BY <1>3 DEF Accept, SubmitPc
<1>4. CASE ListRivals(r)
  BY <1>4 DEF ListRivals, SubmitPc
<1>5. CASE RivalsDone(r)
  BY <1>5 DEF RivalsDone, SubmitPc
<1>6. CASE Push(r)
  <2>1. queue' \in Seq(Run) /\ submit' \in [Run -> SubmitPc]
    BY <1>6 DEF Push, SubmitPc
  <2>2. loop' \in [Run -> LoopState]
    <3>1. loop[r] \in LoopState /\ "scheduled" \in LoopPc
      BY DEF LoopPc
    <3> HIDE DEF TypeOK, Shape
    <3>2. [loop[r] EXCEPT !.pc = "scheduled"] \in LoopState
      BY <3>1, LoopPcMoves
    <3>3. QED
      BY <1>6, <3>2 DEF Push, TypeOK
  <2>3. stranded' \in SUBSET Run
    BY <1>6 DEF Push
  <2>4. TypeOK'
    BY <1>6, <2>1, <2>2, <2>3 DEF Push
  <2>5. ~processing => ~loop[r].caught
    BY DEF Guard, LivePc, Sound
  <2>6. Shape'
    <3>1. CASE processing
      BY <1>6, <3>1 DEF Push
    <3>2. CASE ~processing
      <4>1. loop' = [loop EXCEPT ![r] = [loop[r] EXCEPT !.pc = "scheduled"]] /\ cancel' = cancel
        BY <1>6, <3>2 DEF Push
      <4>2. /\ loop'[r] \in LoopState /\ loop'[r].pc = "scheduled" /\ ~loop'[r].caught
            /\ \A m \in Run \ {r} : loop'[m] = loop[m]
        <5>1. loop \in [Run -> LoopState]
          OBVIOUS
        <5> HIDE DEF TypeOK, Shape
        <5>2. loop'[r] = [loop[r] EXCEPT !.pc = "scheduled"] /\ \A m \in Run \ {r} : loop'[m] = loop[m]
          BY <4>1, <5>1
        <5>3. loop'[r] \in LoopState
          BY <2>2
        <5>4. QED
          BY <2>5, <3>2, <5>1, <5>2, <5>3 DEF LoopState
      <4>3. \A m \in Run : Sound(loop'[m])
        BY <4>2 DEF Sound, LivePc
      <4>4. QED
        BY <4>1, <4>3
    <3>3. QED
      BY <3>1, <3>2
  <2>7. QED
    BY <2>4, <2>6
<1>7. CASE SubmitFails(r)
  BY <1>7 DEF SubmitFails, SubmitPc
<1>8. QED
  BY <1>1, <1>2, <1>3, <1>4, <1>5, <1>6, <1>7 DEF Submitter

\* The actions of a cancellation.
CancelShape ==
  /\ cancel \in [Canceller -> CancelState]
  /\ \A p \in Canceller : cancel[p].pc # "idle" => cancel[p].run \in Run

\* The types of what else a cancellation may write.
Data ==
  /\ status \in [Run -> RunStatus]
  /\ rows \in [Run -> [Job -> RowStatus]]
  /\ announced \in [Run -> Seq(TerminalStatus)]
  /\ rivals \in [Run -> SUBSET Run]
  /\ requested \in SUBSET Run
  /\ passive \in SUBSET Run

LEMMA CancelMoves ==
  ASSUME CancelShape, NEW p \in Canceller, NEW c \in CancelState,
         cancel' = [cancel EXCEPT ![p] = c], c.pc # "idle" => c.run \in Run
  PROVE  CancelShape'
BY DEF CancelShape

LEMMA CancelTypes ==
  ASSUME TypeOK, Shape, NEW p \in Canceller,
         CancelCall(p) \/ \E r \in Run : CancelReads(p, r)
  PROVE  TypeOK' /\ Shape'
<1>1. CancelShape
  BY DEF CancelShape, TypeOK, Shape
<1>2. CancelShape'
  <2>1. ASSUME NEW r \in Run, CancelReads(p, r) PROVE CancelShape'
    <3> DEFINE c == [pc |-> IF Terminal(r) THEN "idle" ELSE "look", run |-> r, marks |-> {},
                     used |-> TRUE]
    <3>1. c \in CancelState
      BY DEF CancelState, CancelPc
    <3>2. cancel' = [cancel EXCEPT ![p] = c] /\ c.run \in Run
      BY <2>1 DEF CancelReads
    <3> HIDE DEF c
    <3>3. QED
      BY <1>1, <3>1, <3>2, CancelMoves
  <2>2. ASSUME NEW pc \in CancelPc, NEW marks \in SUBSET Job, cancel[p].pc # "idle",
               \/ cancel' = [cancel EXCEPT ![p].pc = pc]
               \/ cancel' = [cancel EXCEPT ![p].marks = marks]
               \/ cancel' = [cancel EXCEPT ![p].pc = pc, ![p].marks = marks]
        PROVE  CancelShape'
    BY <1>1, <2>2 DEF CancelShape, CancelState
  <2>3. CASE CancelLooks(p)
    BY <2>2, <2>3 DEF CancelLooks, CancelPc
  <2>4. CASE CancelAsks(p)
    BY <2>2, <2>4 DEF CancelAsks, CancelPc
  <2>5. CASE CancelLists(p)
    BY <2>2, <2>5 DEF CancelLists, CancelPc
  <2>6. ASSUME NEW j \in Job, CancelMarks(p, j) PROVE CancelShape'
    <3>1. cancel[p].marks \ {j} \in SUBSET Job
      BY <1>1 DEF CancelShape, CancelState
    <3>2. QED
      BY <2>2, <2>6, <3>1 DEF CancelMarks, CancelPc
  <2>7. CASE CancelWrites(p)
    BY <2>2, <2>7 DEF CancelWrites, CancelPc
  <2>8. CASE CancelAnnounces(p)
    BY <2>2, <2>8 DEF CancelAnnounces, CancelPc
  <2>9. QED
    BY <2>1, <2>3, <2>4, <2>5, <2>6, <2>7, <2>8 DEF CancelCall
<1>3. UNCHANGED <<submit, queue, processing, loop, active, contexts, stranded, thrown>>
  BY DEF CancelCall, CancelReads, CancelLooks, CancelAsks, CancelLists, CancelMarks, CancelWrites,
         CancelAnnounces, storage, engine, history
<1>4. Data'
  <2> USE DEF Data, TypeOK, storage, engine, history, RunStatus, RowStatus, TerminalStatus
  <2>1. ASSUME NEW r \in Run, CancelReads(p, r) PROVE Data'
    BY <2>1 DEF CancelReads
  <2>2. CASE CancelLooks(p)
    BY <2>2, <1>1 DEF CancelLooks, CancelShape
  <2>3. CASE CancelAsks(p)
    BY <2>3, <1>1 DEF CancelAsks, CancelShape
  <2>4. CASE CancelLists(p)
    BY <2>4 DEF CancelLists
  <2>5. ASSUME NEW j \in Job, CancelMarks(p, j) PROVE Data'
    BY <2>5 DEF CancelMarks
  <2>6. CASE CancelWrites(p)
    BY <2>6 DEF CancelWrites, SetStatus
  <2>7. CASE CancelAnnounces(p)
    <3>1. announced' = [announced EXCEPT ![cancel[p].run] = Append(@, "cancelled")]
      BY <2>7 DEF CancelAnnounces, Announce
    <3>2. announced' \in [Run -> Seq(TerminalStatus)]
      BY <3>1, AnnouncedTypes
    <3>3. QED
      BY <2>7, <3>2 DEF CancelAnnounces
  <2>8. QED
    BY <2>1, <2>2, <2>3, <2>4, <2>5, <2>6, <2>7 DEF CancelCall
<1>5. QED
  BY <1>2, <1>3, <1>4 DEF Data, TypeOK, Shape, Live, CancelShape

-----------------------------------------------------------------------------
(* The loops.                                                              *)

\* What a step of the loop m does to it, to the guard, to the state objects
\* and to the queue; only a step of a second loop that gives up is different.
LoopStep(m) ==
  /\ Live(m) \/ processing = FALSE
  /\ loop' = [loop EXCEPT ![m] = loop'[m]]
  /\ Sound(loop'[m])
  /\ loop'[m].pc \in LivePc => processing' = TRUE
  /\ loop'[m].pc \notin LivePc => processing' = FALSE
  /\ \A r \in active' : loop'[m].pc \in RegisteredPc /\ loop'[m].run = r
  /\ loop'[m].pc \in LivePc \/ \A i \in DOMAIN queue' : queue'[i] \in stranded'

LEMMA LoopStepKeeps ==
  ASSUME IInv, NEW m \in Run, LoopStep(m), UNCHANGED cancel
  PROVE  Shape' /\ Guard' /\ NoLostWakeup'
<1>1. \A n \in Run : n # m => loop'[n] = loop[n] /\ ~Live(n)
  BY DEF IInv, TypeOK, LoopStep, Guard
<1>2. Shape'
  BY <1>1 DEF IInv, Shape, LoopStep
<1>3. Guard'
  <2>1. \A n \in Run : Live(n)' => n = m
    BY <1>1 DEF Live
  <2>2. /\ processing' = TRUE => Live(m)'
        /\ Live(m)' => processing' = TRUE
    BY DEF LoopStep, Live
  <2>3. \A r \in active' : loop'[m].pc \in RegisteredPc /\ loop'[m].run = r
    BY DEF LoopStep
  <2>4. QED
    BY <2>1, <2>2, <2>3 DEF Guard, RegisteredPc
<1>4. NoLostWakeup'
  BY DEF LoopStep, NoLostWakeup
<1>5. QED
  BY <1>2, <1>3, <1>4

LEMMA ActiveIsInHand ==
  ASSUME IInv, NEW m \in Run, Live(m)
  PROVE  \A r \in active : loop[m].pc \in RegisteredPc /\ loop[m].run = r
BY DEF IInv, Guard, Live, RegisteredPc

LEMMA TakeNextSteps ==
  ASSUME IInv, NEW m \in Run, TakeNext(m), Live(m) \/ processing = FALSE, active' = {}
  PROVE  LoopStep(m) /\ queue' \in Seq(Run) /\ processing' \in BOOLEAN
<1> USE DEF IInv, TypeOK
<1>1. CASE queue = <<>> 
  <2>1. [IdleLoop EXCEPT !.pc = "ended"] \in LoopState
    BY DEF IdleLoop, LoopState, LoopPc, Outcome
  <2>2. loop'[m] = [IdleLoop EXCEPT !.pc = "ended"] /\ processing' = FALSE /\ queue' = queue
    BY <1>1 DEF TakeNext
  <2>3. loop'[m].pc = "ended" /\ ~loop'[m].caught
    BY <2>2 DEF IdleLoop
  <2>4. loop' = [loop EXCEPT ![m] = loop'[m]]
    BY <1>1 DEF TakeNext
  <2>5. Sound(loop'[m]) /\ loop'[m].pc \notin LivePc
    BY <2>1, <2>2, <2>3 DEF Sound, LivePc
  <2>6. \A i \in DOMAIN queue' : queue'[i] \in stranded'
    BY <1>1, <2>2
  <2>7. QED
    BY <1>1, <2>2, <2>4, <2>5, <2>6 DEF LoopStep
<1>2. CASE queue # <<>>
  <2> DEFINE l == [IdleLoop EXCEPT !.pc = "poll", !.run = Head(queue)]
  <2>1. Head(queue) \in Run /\ Tail(queue) \in Seq(Run)
    BY <1>2
  <2>2. l \in LoopState /\ l.pc = "poll" /\ l.run = Head(queue) /\ ~l.caught
    BY <2>1 DEF IdleLoop, LoopState, LoopPc, LivePc, Outcome
  <2>3. loop' = [loop EXCEPT ![m] = l] /\ processing' = TRUE /\ queue' = Tail(queue)
    BY <1>2 DEF TakeNext
  <2> HIDE DEF l
  <2>4. loop'[m] = l
    BY <2>3
  <2>5. QED
    BY <2>1, <2>2, <2>3, <2>4 DEF LoopStep, Sound, LivePc
<1>3. QED
  BY <1>1, <1>2

\* A loop that goes on with the run in hand.
LEMMA StaysLive ==
  ASSUME IInv, NEW m \in Run, Live(m), NEW l, Sound(l), loop' = [loop EXCEPT ![m] = l],
         l.pc \in LivePc, l.run = loop[m].run, processing' = processing,
         loop[m].pc \in RegisteredPc => l.pc \in RegisteredPc,
         active' = active \/ (l.pc \in RegisteredPc /\ active' = active \cup {l.run})
  PROVE  LoopStep(m)
<1>1. loop'[m] = l
  BY DEF IInv, TypeOK
<1>2. processing = TRUE
  BY DEF IInv, Guard
<1>3. \A r \in active : loop[m].pc \in RegisteredPc /\ loop[m].run = r
  BY ActiveIsInHand
<1>4. QED
  BY <1>1, <1>2, <1>3 DEF LoopStep

\* The steps that read or write nothing but the loop and the storage.
LEMMA QuietSteps ==
  ASSUME IInv, NEW m \in Run,
         \/ MarkStarting(m) \/ NextJob(m) \/ StartJobRow(m) \/ MarkRunning(m)
         \/ \E s \in TerminalStatus : SettleJobUnstarted(m, s) \/ FinishJob(m, s)
         \/ RunThrows(m) \/ Tally(m) \/ ListQueued(m) \/ WriteVerdict(m)
         \/ \E j \in Job : MarkQueued(m, j)
  PROVE  LoopStep(m)
<1>1. loop[m] \in LoopState /\ Sound(loop[m])
  BY DEF IInv, TypeOK, Shape
<1>2. ASSUME NEW pc \in RegisteredPc \ {"list", "mark", "write", "announce"}, Live(m),
             ~loop[m].caught, Goto(m, pc), UNCHANGED <<processing, active>>
      PROVE  LoopStep(m)
  <2> DEFINE l == [loop[m] EXCEPT !.pc = pc]
  <2>1. l \in LoopState /\ l.pc = pc /\ l.run = loop[m].run /\ l.caught = loop[m].caught
    BY <1>1, <1>2, LoopPcMoves DEF LoopState, RegisteredPc, LoopPc
  <2>2. loop' = [loop EXCEPT ![m] = l]
    BY <1>2 DEF Goto
  <2>3. Sound(l)
    BY <1>1, <1>2, <2>1 DEF Sound, Live, RegisteredPc
  <2>4. l.pc \in LivePc
    BY <2>1 DEF RegisteredPc
  <2> HIDE DEF l
  <2>5. QED
    BY <1>2, <2>1, <2>2, <2>3, <2>4, StaysLive

<1>3. CASE MarkStarting(m)
  <2> DEFINE l == [loop[m] EXCEPT !.pc = "prepare"]
  <2>1. l \in LoopState /\ l.pc = "prepare" /\ l.run = loop[m].run /\ l.caught = loop[m].caught
    BY <1>1, LoopPcMoves DEF LoopState, LoopPc, LivePc
  <2>2. loop' = [loop EXCEPT ![m] = l] /\ loop[m].pc = "start"
    BY <1>3 DEF MarkStarting, Goto, At
  <2>3. Sound(l) /\ Live(m)
    BY <1>1, <2>1, <2>2 DEF Sound, Live, LivePc
  <2>4. l.pc \in LivePc /\ loop[m].pc \notin RegisteredPc
    BY <2>1, <2>2 DEF LivePc, RegisteredPc
  <2> HIDE DEF l
  <2>5. QED
    BY <1>3, <2>1, <2>2, <2>3, <2>4, StaysLive DEF MarkStarting
<1>4. ASSUME NEW l \in LoopState, Live(m), loop[m].pc \in RegisteredPc,
             loop' = [loop EXCEPT ![m] = l], l.pc \in RegisteredPc, l.run = loop[m].run,
             Sound(l), UNCHANGED <<processing, active>>
      PROVE  LoopStep(m)
  BY <1>4, StaysLive DEF RegisteredPc
<1>5. CASE NextJob(m)
  <2>1. loop[m].pc = "jobs" /\ Live(m)
    BY <1>5 DEF NextJob, At, Live, LivePc
  <2>2. CASE loop[m].pending = {}
    BY <1>1, <1>2, <1>5, <2>1, <2>2 DEF NextJob, RegisteredPc, LivePc, Sound
  <2>3. CASE loop[m].pending # {} /\ loop[m].run \in requested
    <3> DEFINE l == [loop[m] EXCEPT !.pc = "list", !.markAs = "cancelled", !.verdict = "cancelled"]
    <3>1. loop' = [loop EXCEPT ![m] = l] /\ UNCHANGED <<processing, active>>
      BY <1>5, <2>3 DEF NextJob
    <3>2. /\ l \in LoopState /\ l.run = loop[m].run
          /\ l.pc = "list" /\ l.markAs = "cancelled" /\ l.verdict = "cancelled"
      BY <1>1 DEF LoopState, LoopPc, LivePc, Outcome, TerminalStatus
    <3> HIDE DEF l
    <3>3. Sound(l)
      BY <1>1, <2>1, <3>2 DEF Sound, LivePc, TerminalStatus
    <3>4. QED
      BY <1>4, <2>1, <3>1, <3>2, <3>3 DEF RegisteredPc, LivePc
  <2>4. ASSUME NEW j \in loop[m].pending,
               loop' = [loop EXCEPT ![m].pc = "job", ![m].job = j, ![m].pending = @ \ {j}]
        PROVE  LoopStep(m)
    <3> DEFINE l == [loop[m] EXCEPT !.pc = "job", !.job = j, !.pending = @ \ {j}]
    <3>1. loop' = [loop EXCEPT ![m] = l] /\ UNCHANGED <<processing, active>>
      BY <1>5, <2>4 DEF NextJob
    <3>2. l \in LoopState /\ l.run = loop[m].run /\ l.pc = "job" /\ l.caught = loop[m].caught
      BY <1>1 DEF LoopState, LoopPc, LivePc
    <3> HIDE DEF l
    <3>3. Sound(l)
      BY <1>1, <2>1, <3>2 DEF Sound, LivePc
    <3>4. QED
      BY <1>4, <2>1, <3>1, <3>2, <3>3 DEF RegisteredPc, LivePc
  <2>5. QED
    BY <1>5, <2>2, <2>3, <2>4 DEF NextJob
<1>6. CASE StartJobRow(m) \/ MarkRunning(m)
  <2>1. Live(m) /\ ~loop[m].caught /\ \E pc \in {"begun", "running"} : Goto(m, pc)
    BY <1>1, <1>6 DEF StartJobRow, MarkRunning, At, Live, LivePc, Sound
  <2>2. UNCHANGED <<processing, active>>
    BY <1>6 DEF StartJobRow, MarkRunning
  <2>3. QED
    BY <1>2, <2>1, <2>2 DEF RegisteredPc, LivePc
<1>7. ASSUME NEW s \in TerminalStatus, SettleJobUnstarted(m, s) \/ FinishJob(m, s)
      PROVE  LoopStep(m)
  <2>1. Live(m) /\ ~loop[m].caught /\ Goto(m, "jobs") /\ UNCHANGED <<processing, active>>
    BY <1>1, <1>7 DEF SettleJobUnstarted, FinishJob, At, Live, LivePc, Sound
  <2>2. QED
    BY <1>2, <2>1 DEF RegisteredPc, LivePc
<1>8. CASE RunThrows(m)
  <2> DEFINE flagged == loop[m].run \in requested
             l == [loop[m] EXCEPT !.pc = "list",
                                  !.caught = TRUE,
                                  !.markAs = IF flagged THEN "cancelled" ELSE "skipped",
                                  !.verdict = IF flagged THEN "cancelled" ELSE "failed"]
  <2>1. loop[m].pc \in RegisteredPc
    BY <1>8 DEF RunThrows, RegisteredPc, LivePc
  <2>2. loop' = [loop EXCEPT ![m] = l] /\ UNCHANGED <<processing, active>>
    BY <1>8 DEF RunThrows
  <2>3. /\ l \in LoopState /\ l.run = loop[m].run /\ l.pc = "list"
        /\ l.markAs \in TerminalStatus /\ l.verdict \in TerminalStatus
    BY <1>1 DEF LoopState, LoopPc, LivePc, Outcome, TerminalStatus
  <2> HIDE DEF l
  <2>4. Sound(l)
    BY <1>1, <2>1, <2>3 DEF Sound, LivePc, RegisteredPc
  <2>5. QED
    BY <1>4, <2>1, <2>2, <2>3, <2>4 DEF RegisteredPc, LivePc, Live
<1>9. CASE Tally(m)
  <2> DEFINE seen == {rows[loop[m].run][j] : j \in Job}
             judged == IF "failed" \in seen THEN "failed"
                       ELSE IF "cancelled" \in seen THEN "cancelled"
                       ELSE IF seen \subseteq {"skipped"} THEN "skipped" ELSE "success"
             next == IF seen \cap {"failed", "cancelled"} # {} THEN "list" ELSE "write"
             as == IF "failed" \in seen THEN "skipped" ELSE "cancelled"
             l == [loop[m] EXCEPT !.pc = next, !.markAs = as, !.verdict = judged]
  <2>1. loop' = [loop EXCEPT ![m] = l] /\ UNCHANGED <<processing, active>>
    BY <1>9 DEF Tally
  <2>2. next \in {"list", "write"} /\ as \in TerminalStatus /\ judged \in TerminalStatus
    BY DEF TerminalStatus
  <2> HIDE DEF next, as, judged
  <2>3. l \in LoopState /\ l.run = loop[m].run /\ l.pc = next /\ l.markAs = as /\ l.verdict = judged
    BY <1>1, <2>2 DEF LoopState, LoopPc, LivePc, Outcome
  <2> HIDE DEF l
  <2>4. loop[m].pc = "tally"
    BY <1>9 DEF Tally, At
  <2>5. Sound(l)
    BY <1>1, <2>2, <2>3, <2>4 DEF Sound, LivePc
  <2>6. QED
    BY <1>4, <2>1, <2>2, <2>3, <2>4, <2>5 DEF RegisteredPc, LivePc, Live
<1>10. CASE ListQueued(m)
  <2> DEFINE left == {j \in Job : rows[loop[m].run][j] = "queued"}
             l == [loop[m] EXCEPT !.pc = "mark", !.marks = left]
  <2>1. loop' = [loop EXCEPT ![m] = l] /\ UNCHANGED <<processing, active>> /\ loop[m].pc = "list"
    BY <1>10 DEF ListQueued, At
  <2>2. left \in SUBSET Job
    OBVIOUS
  <2> HIDE DEF left
  <2>3. /\ l \in LoopState /\ l.run = loop[m].run /\ l.pc = "mark"
        /\ l.markAs = loop[m].markAs /\ l.verdict = loop[m].verdict /\ l.caught = loop[m].caught
    BY <1>1, <2>2 DEF LoopState, LoopPc, LivePc
  <2> HIDE DEF l
  <2>4. Sound(l)
    BY <1>1, <2>1, <2>3 DEF Sound, LivePc
  <2>5. QED
    BY <1>4, <2>1, <2>3, <2>4 DEF RegisteredPc, LivePc, Live
<1>11. ASSUME NEW j \in Job, MarkQueued(m, j) PROVE LoopStep(m)
  <2> DEFINE l == [loop[m] EXCEPT !.marks = @ \ {j}]
  <2>1. loop' = [loop EXCEPT ![m] = l] /\ UNCHANGED <<processing, active>> /\ loop[m].pc = "mark"
    BY <1>11 DEF MarkQueued, At
  <2>2. /\ l \in LoopState /\ l.run = loop[m].run /\ l.pc = loop[m].pc
        /\ l.markAs = loop[m].markAs /\ l.verdict = loop[m].verdict /\ l.caught = loop[m].caught
    BY <1>1 DEF LoopState
  <2> HIDE DEF l
  <2>3. Sound(l)
    BY <1>1, <2>2 DEF Sound
  <2>4. QED
    BY <1>4, <2>1, <2>2, <2>3 DEF RegisteredPc, LivePc, Live
<1>12. CASE WriteVerdict(m)
  <2> DEFINE l == [loop[m] EXCEPT !.pc = "announce"]
  <2>1. /\ loop' = [loop EXCEPT ![m] = l] /\ UNCHANGED <<processing, active>>
        /\ loop[m].pc \in {"write", "mark"}
    BY <1>12 DEF WriteVerdict, At, Goto
  <2>2. /\ l \in LoopState /\ l.run = loop[m].run /\ l.pc = "announce"
        /\ l.verdict = loop[m].verdict /\ l.caught = loop[m].caught
    BY <1>1 DEF LoopState, LoopPc, LivePc
  <2> HIDE DEF l
  <2>3. Sound(l)
    BY <1>1, <2>1, <2>2 DEF Sound, LivePc
  <2>4. QED
    BY <1>4, <2>1, <2>2, <2>3 DEF RegisteredPc, LivePc, Live
<1>13. QED
  BY <1>3, <1>5, <1>6, <1>7, <1>8, <1>9, <1>10, <1>11, <1>12

\* What they write to storage has its type.
StorageOnly ==
  /\ status' \in [Run -> RunStatus]
  /\ rows' \in [Run -> [Job -> RowStatus]]
  /\ UNCHANGED <<announced, submit, rivals, cancel, queue, processing, active, requested,
                 contexts, passive, stranded>>
  /\ thrown' \in SUBSET Run

LEMMA QuietTypes ==
  ASSUME IInv, NEW m \in Run,
         \/ MarkStarting(m) \/ NextJob(m) \/ StartJobRow(m) \/ MarkRunning(m)
         \/ \E s \in TerminalStatus : SettleJobUnstarted(m, s) \/ FinishJob(m, s)
         \/ RunThrows(m) \/ Tally(m) \/ ListQueued(m) \/ WriteVerdict(m)
         \/ \E j \in Job : MarkQueued(m, j)
  PROVE  StorageOnly
<1> USE DEF StorageOnly, storage, caller, history
<1>1. /\ status \in [Run -> RunStatus] /\ rows \in [Run -> [Job -> RowStatus]]
      /\ TerminalStatus \subseteq RunStatus /\ TerminalStatus \subseteq RowStatus
      /\ thrown \in SUBSET Run
  BY DEF IInv, TypeOK, RunStatus, RowStatus
<1>2. Sound(loop[m])
  BY DEF IInv, Shape
<1>3. CASE MarkStarting(m) \/ MarkRunning(m)
  BY <1>1, <1>3 DEF MarkStarting, MarkRunning, SetStatus, RunStatus
<1>4. CASE NextJob(m) \/ RunThrows(m) \/ Tally(m) \/ ListQueued(m)
  <2>1. RunThrows(m) => loop[m].run \in Run
    BY <1>2 DEF RunThrows, Sound, LivePc
  <2>2. QED
    BY <1>1, <1>4, <2>1 DEF NextJob, RunThrows, Tally, ListQueued
<1>5. CASE StartJobRow(m)
  BY <1>1, <1>5 DEF StartJobRow, RowStatus
<1>6. ASSUME NEW s \in TerminalStatus, SettleJobUnstarted(m, s) \/ FinishJob(m, s)
      PROVE  StorageOnly
  <2>1. UNCHANGED <<status, announced, caller, queue, processing, active, requested, contexts, history>>
    BY <1>6 DEF SettleJobUnstarted, FinishJob
  <2>2. rows' \in [Run -> [Job -> RowStatus]]
    BY <1>1, <1>6 DEF SettleJobUnstarted, FinishJob
  <2>3. QED
    BY <1>1, <2>1, <2>2
<1>7. CASE WriteVerdict(m)
  <2>1. loop[m].verdict \in TerminalStatus
    BY <1>2, <1>7 DEF WriteVerdict, At, Sound
  <2>2. QED
    BY <1>1, <1>7, <2>1 DEF WriteVerdict, SetStatus
<1>8. ASSUME NEW j \in Job, MarkQueued(m, j) PROVE StorageOnly
  <2>1. loop[m].markAs \in TerminalStatus
    BY <1>2, <1>8 DEF MarkQueued, At, Sound
  <2>2. QED
    BY <1>1, <1>8, <2>1 DEF MarkQueued
<1>9. QED
  BY <1>3, <1>4, <1>5, <1>6, <1>7, <1>8

LEMMA QuietKeeps ==
  ASSUME IInv, NEW m \in Run,
         \/ MarkStarting(m) \/ NextJob(m) \/ StartJobRow(m) \/ MarkRunning(m)
         \/ \E s \in TerminalStatus : SettleJobUnstarted(m, s) \/ FinishJob(m, s)
         \/ RunThrows(m) \/ Tally(m) \/ ListQueued(m) \/ WriteVerdict(m)
         \/ \E j \in Job : MarkQueued(m, j)
  PROVE  IInv'
<1>1. LoopStep(m) /\ StorageOnly
  BY QuietSteps, QuietTypes
<1>2. Shape' /\ Guard' /\ NoLostWakeup'
  BY <1>1, LoopStepKeeps DEF StorageOnly
<1>3. loop' \in [Run -> LoopState]
  BY <1>1 DEF LoopStep, Sound, IInv, TypeOK
<1>4. TypeOK'
  BY <1>1, <1>3 DEF StorageOnly, IInv, TypeOK
<1>5. QED
  BY <1>2, <1>4 DEF IInv

\* A loop step that leaves the storage alone.
LEMMA EngineStepKeeps ==
  ASSUME IInv, NEW m \in Run, LoopStep(m),
         UNCHANGED <<status, rows, submit, rivals, cancel, requested, passive, thrown>>,
         announced' \in [Run -> Seq(TerminalStatus)], queue' \in Seq(Run),
         active' \in SUBSET Run, contexts' \in SUBSET Run, stranded' \in SUBSET Run
  PROVE  IInv'
<1>1. Shape' /\ Guard' /\ NoLostWakeup'
  BY LoopStepKeeps
<1>2. loop' \in [Run -> LoopState] /\ processing' \in BOOLEAN
  BY DEF LoopStep, Sound, IInv, TypeOK
<1>3. TypeOK'
  BY <1>2 DEF IInv, TypeOK
<1>4. QED
  BY <1>1, <1>3 DEF IInv

\* The head of the loop, from the four places that lead there.
LEMMA HeadKeeps ==
  ASSUME IInv, NEW m \in Run, StartLoop(m) \/ Poll(m) \/ ReadAgain(m) \/ EndRun(m)
  PROVE  IInv'
<1> USE DEF storage, caller, history
<1>1. Sound(loop[m])
  BY DEF IInv, Shape
<1>2. ASSUME NEW pc \in {"exec", "start"}, loop[m].pc \in {"poll", "exec"}, Goto(m, pc),
             UNCHANGED <<storage, caller, queue, processing, active, requested, contexts, history>>
      PROVE  IInv'
  <2> DEFINE l == [loop[m] EXCEPT !.pc = pc]
  <2>1. /\ l \in LoopState /\ l.pc = pc /\ l.run = loop[m].run /\ l.caught = loop[m].caught
        /\ loop' = [loop EXCEPT ![m] = l]
    BY <1>1, <1>2, LoopPcMoves DEF Sound, LoopState, LoopPc, LivePc, Goto
  <2> HIDE DEF l
  <2>2. Sound(l) /\ Live(m)
    BY <1>1, <1>2, <2>1 DEF Sound, LivePc, Live
  <2>3. LoopStep(m)
    BY <1>2, <2>1, <2>2, StaysLive DEF LivePc, RegisteredPc
  <2>4. QED
    BY <1>2, <2>3, EngineStepKeeps DEF IInv, TypeOK
<1>3. ASSUME TakeNext(m), Live(m) \/ processing = FALSE, active' = {},
             UNCHANGED <<status, rows, submit, rivals, cancel, requested, passive, stranded, thrown>>,
             announced' \in [Run -> Seq(TerminalStatus)], contexts' \in SUBSET Run
      PROVE  IInv'
  <2>1. LoopStep(m) /\ queue' \in Seq(Run)
    BY <1>3, TakeNextSteps
  <2>2. QED
    BY <1>3, <2>1, EngineStepKeeps DEF IInv, TypeOK
<1>4. CASE StartLoop(m)
  <2>1. CASE ~processing /\ TakeNext(m)
    <3>1. processing = FALSE /\ active = {}
      BY <2>1 DEF IInv, TypeOK, Guard, RegisteredPc, Live
    <3>2. QED
      BY <1>3, <1>4, <2>1, <3>1 DEF StartLoop, IInv, TypeOK
  <2>2. CASE processing /\ Goto(m, "ended") /\ UNCHANGED <<queue, processing>>
    <3> DEFINE l == [loop[m] EXCEPT !.pc = "ended"]
    <3>1. l \in LoopState /\ l.pc = "ended" /\ ~l.caught /\ loop' = [loop EXCEPT ![m] = l]
      BY <1>1, <1>4, <2>2, LoopPcMoves DEF StartLoop, At, Sound, LoopState, LoopPc, Goto
    <3> HIDE DEF l
    <3>2. /\ loop'[m] = l /\ \A n \in Run \ {m} : loop'[n] = loop[n]
          /\ loop' \in [Run -> LoopState]
      BY <3>1 DEF IInv, TypeOK
    <3>3. loop[m].pc = "scheduled" /\ ~Live(m) /\ ~Live(m)'
      BY <1>4, <3>1, <3>2 DEF StartLoop, At, Live, LivePc
    <3>4. /\ UNCHANGED <<status, rows, announced, submit, rivals, cancel, queue, processing>>
          /\ UNCHANGED <<active, requested, contexts, passive, stranded, thrown>>
      BY <1>4, <2>2 DEF StartLoop
    <3>5. PICK n \in Run : Live(n)
      BY <2>2 DEF IInv, TypeOK, Guard
    <3>6. TypeOK' /\ Shape'
      BY <3>1, <3>2, <3>4 DEF IInv, TypeOK, Shape, Sound, LivePc
    <3>7. \A k \in Run : Live(k)' = Live(k)
      BY <3>2, <3>3 DEF Live
    <3>8. \A k \in Run : loop[k].pc \in RegisteredPc => k # m
      BY <3>3 DEF RegisteredPc, LivePc
    <3>9. Guard'
      BY <3>2, <3>4, <3>7, <3>8 DEF IInv, Guard
    <3>10. NoLostWakeup'
      BY <3>5, <3>7 DEF NoLostWakeup, Live
    <3>11. QED
      BY <3>6, <3>9, <3>10 DEF IInv
  <2>3. QED
    BY <1>4, <2>1, <2>2 DEF StartLoop
<1>5. CASE Poll(m) \/ ReadAgain(m)
  <2>1. loop[m].pc \in {"poll", "exec"} /\ Live(m)
    BY <1>5 DEF Poll, ReadAgain, At, Live, LivePc
  <2>2. active = {}
    BY <2>1, ActiveIsInHand DEF RegisteredPc
  <2>3. \/ TakeNext(m)
        \/ \E pc \in {"exec", "start"} : Goto(m, pc) /\ UNCHANGED <<queue, processing>>
    BY <1>5 DEF Poll, ReadAgain
  <2>4. UNCHANGED <<storage, caller, active, requested, contexts, history>>
    BY <1>5 DEF Poll, ReadAgain
  <2>5. QED
    BY <1>2, <1>3, <2>1, <2>2, <2>3, <2>4 DEF IInv, TypeOK
<1>6. CASE EndRun(m)
  <2>1. Live(m) /\ loop[m].verdict \in TerminalStatus
    BY <1>1, <1>6 DEF EndRun, At, Live, LivePc, Sound
  <2>2. active' = {}
    BY <1>6, <2>1, ActiveIsInHand DEF EndRun
  <2>3. announced' \in [Run -> Seq(TerminalStatus)]
    BY <1>6, <2>1, AnnouncedTypes DEF EndRun, Announce, IInv, TypeOK
  <2>4. QED
    BY <1>3, <1>6, <2>1, <2>2, <2>3 DEF EndRun, IInv, TypeOK
<1>7. QED
  BY <1>4, <1>5, <1>6

LEMMA PrepareKeeps ==
  ASSUME IInv, NEW m \in Run, Prepare(m)
  PROVE  IInv'
<1> USE DEF storage, caller, history
<1>1. Sound(loop[m]) /\ loop[m].pc = "prepare" /\ Live(m)
  BY DEF IInv, Shape, Prepare, At, Live, LivePc
<1>2. loop[m].run \in Run
  BY <1>1 DEF Sound, Live
<1> DEFINE listed == {j \in Job : rows[loop[m].run][j] # "absent"}
           l == [loop[m] EXCEPT !.pc = "jobs", !.pending = listed]
<1>3. loop' = [loop EXCEPT ![m] = l] /\ active' = active \cup {loop[m].run}
  BY DEF Prepare
<1>4. listed \in SUBSET Job
  OBVIOUS
<1> HIDE DEF listed
<1>5. l \in LoopState /\ l.pc = "jobs" /\ l.run = loop[m].run /\ l.caught = loop[m].caught
  BY <1>1, <1>4 DEF Sound, LoopState, LoopPc, LivePc
<1> HIDE DEF l
<1>6. Sound(l)
  BY <1>1, <1>2, <1>5 DEF Sound
<1>7. LoopStep(m)
  BY <1>1, <1>3, <1>5, <1>6, StaysLive DEF Prepare, LivePc, RegisteredPc
<1>8. QED
  BY ZenonT(30), <1>2, <1>3, <1>7, EngineStepKeeps DEF Prepare, IInv, TypeOK

\* An exception before the try block or in the catch block ends the loop, with
\* no state object left and what is queued among the stranded.
LEMMA DeathKeeps ==
  ASSUME IInv, NEW m \in Run, PrepareThrows(m) \/ HandlerThrows(m)
  PROVE  IInv'
<1> USE DEF storage, caller
<1>1. Sound(loop[m]) /\ Live(m)
  BY DEF IInv, Shape, Sound, PrepareThrows, HandlerThrows, Live, LivePc
<1>2. loop[m].run \in Run
  BY <1>1 DEF Sound, Live
<1> DEFINE l == [IdleLoop EXCEPT !.pc = "ended"]
<1>3. l \in LoopState /\ l.pc = "ended" /\ ~l.caught /\ loop' = [loop EXCEPT ![m] = l]
  BY DEF PrepareThrows, HandlerThrows, IdleLoop, LoopState, LoopPc, Outcome
<1> HIDE DEF l
<1>4. loop'[m] = l /\ Sound(l) /\ l.pc \notin LivePc
  BY <1>3 DEF IInv, TypeOK, Sound, LivePc
<1>5. active' = {}
  BY <1>1, ActiveIsInHand DEF PrepareThrows, HandlerThrows, RegisteredPc
<1>6. /\ processing' = FALSE /\ queue' = queue
      /\ stranded' = stranded \cup {loop[m].run} \cup {queue[i] : i \in DOMAIN queue}
      /\ contexts' = contexts \/ contexts' = contexts \ {loop[m].run}
  BY DEF PrepareThrows, HandlerThrows
<1>7. /\ \A i \in DOMAIN queue' : queue'[i] \in stranded'
      /\ stranded' \in SUBSET Run /\ contexts' \in SUBSET Run
  BY <1>2, <1>6 DEF IInv, TypeOK
<1>8. LoopStep(m)
  BY <1>1, <1>3, <1>4, <1>5, <1>6, <1>7 DEF LoopStep
<1>9. /\ UNCHANGED <<announced, queue>>
      /\ UNCHANGED <<status, rows, submit, rivals, cancel, requested, passive, thrown>>
  BY DEF PrepareThrows, HandlerThrows
<1>10. announced' \in [Run -> Seq(TerminalStatus)] /\ queue' \in Seq(Run) /\ active' \in SUBSET Run
  BY <1>5, <1>9 DEF IInv, TypeOK
<1>11. QED
  BY <1>7, <1>8, <1>9, <1>10, EngineStepKeeps

\* Storage steps of a submission or a cancellation leave loops, queue and state
\* objects alone.
LEMMA LoopsUntouched ==
  ASSUME IInv, TypeOK', Shape',
         UNCHANGED <<loop, queue, processing, active>>, stranded \subseteq stranded'
  PROVE  IInv'
<1>1. Guard'
  BY DEF IInv, Guard, Live
<1>2. NoLostWakeup'
  BY DEF IInv, NoLostWakeup
<1>3. QED
  BY <1>1, <1>2 DEF IInv

LEMMA SubmitKeeps ==
  ASSUME IInv, NEW r \in Run, Submitter(r) \/ SubmitFails(r)
  PROVE  IInv'
<1>1. TypeOK' /\ Shape'
  BY SubmitTypes DEF IInv
<1>2. CASE Push(r)
  <2>1. CASE processing
    <3>1. UNCHANGED <<loop, active, processing>>
      BY <1>2, <2>1 DEF Push
    <3>2. Guard' /\ \E m \in Run : Live(m)'
      BY <2>1, <3>1 DEF IInv, TypeOK, Guard, Live
    <3>3. QED
      BY <1>1, <3>2 DEF IInv, NoLostWakeup, Live
  <2>2. CASE ~processing
    <3>1. /\ loop' = [loop EXCEPT ![r] = [loop[r] EXCEPT !.pc = "scheduled"]]
          /\ UNCHANGED <<active, processing>>
      BY <1>2, <2>2 DEF Push
    <3>2. \A m \in Run : ~Live(m)
      BY <2>2 DEF IInv, TypeOK, Guard
    <3>3. loop'[r].pc = "scheduled" /\ \A m \in Run : ~Live(m)'
      BY <3>1, <3>2 DEF IInv, TypeOK, LoopState, Live, LivePc
    <3>4. Guard'
      BY <2>2, <3>1, <3>2, <3>3 DEF IInv, TypeOK, Guard, RegisteredPc, Live
    <3>5. NoLostWakeup'
      BY <3>3 DEF NoLostWakeup
    <3>6. QED
      BY <1>1, <3>4, <3>5 DEF IInv
  <2>3. QED
    BY <2>1, <2>2
<1>3. CASE ~Push(r)
  <2>1. UNCHANGED <<loop, queue, processing, active>> /\ stranded \subseteq stranded'
    BY <1>3 DEF Submitter, SubmitFails, CreateRun, CreateJob, Accept, ListRivals, RivalsDone,
                storage, caller, engine, history
  <2>2. QED
    BY <1>1, <2>1, LoopsUntouched
<1>4. QED
  BY <1>2, <1>3

LEMMA CancelKeeps ==
  ASSUME IInv, NEW p \in Canceller, CancelCall(p) \/ \E r \in Run : CancelReads(p, r)
  PROVE  IInv'
<1>1. TypeOK' /\ Shape'
  BY CancelTypes DEF IInv
<1>2. UNCHANGED <<loop, queue, processing, active, stranded>>
  BY DEF CancelCall, CancelReads, CancelLooks, CancelAsks, CancelLists, CancelMarks, CancelWrites,
         CancelAnnounces, storage, engine, history
<1>3. QED
  BY <1>1, <1>2, LoopsUntouched

LEMMA CrashKeeps ==
  ASSUME IInv, Crash
  PROVE  IInv'
<1> USE DEF storage
<1>1. \A p \in Canceller : cancel'[p] \in CancelState /\ cancel'[p].pc = "idle"
  BY DEF Crash, IdleCancel, CancelState, CancelPc, IInv, TypeOK
<1>2. \A m \in Run : loop'[m] \in LoopState /\ loop'[m].pc \in {"none", "ended"} /\ ~loop'[m].caught
  BY DEF Crash, IdleLoop, LoopState, LoopPc, Outcome
<1>3. /\ loop' \in [Run -> LoopState] /\ cancel' \in [Canceller -> CancelState]
  BY <1>1, <1>2 DEF Crash
<1>4. /\ submit' \in [Run -> SubmitPc] /\ rivals' \in [Run -> SUBSET Run]
      /\ queue' = <<>> /\ processing' = FALSE /\ active' = {} /\ requested' = {} /\ contexts' = {}
      /\ stranded' \in SUBSET Run
  BY DEF Crash, SubmitPc, IInv, TypeOK
<1>5. TypeOK'
  <2>1. <<>> \in Seq(Run) /\ FALSE \in BOOLEAN
    OBVIOUS
  <2>2. UNCHANGED <<status, rows, announced, passive, thrown>>
    BY DEF Crash
  <2>3. QED
    BY <1>3, <1>4, <2>1, <2>2 DEF IInv, TypeOK
<1>6. Shape' /\ Guard'
  BY <1>1, <1>2, <1>4 DEF Shape, Sound, Guard, Live, LivePc
<1>7. NoLostWakeup'
  BY <1>4 DEF NoLostWakeup
<1>8. QED
  BY <1>5, <1>6, <1>7 DEF IInv

-----------------------------------------------------------------------------
LEMMA NextKeeps == IInv /\ [Next]_vars => IInv'
<1> SUFFICES ASSUME IInv, [Next]_vars PROVE IInv'
  OBVIOUS
<1>1. ASSUME NEW r \in Run, Submitter(r) \/ SubmitFails(r) PROVE IInv'
  BY <1>1, SubmitKeeps
<1>2. ASSUME NEW p \in Canceller, CancelCall(p) \/ \E r \in Run : CancelReads(p, r) PROVE IInv'
  BY <1>2, CancelKeeps
<1>3. ASSUME NEW m \in Run,
             \/ Advance(m) \/ MarkRunning(m)
             \/ PrepareThrows(m) \/ RunThrows(m) \/ HandlerThrows(m)
      PROVE  IInv'
  BY <1>3, HeadKeeps, PrepareKeeps, QuietKeeps, DeathKeeps DEF Advance
<1>4. CASE Crash
  BY <1>4, CrashKeeps
<1>5. CASE UNCHANGED vars
  BY <1>5 DEF vars, IInv, TypeOK, Shape, Guard, NoLostWakeup, Live
<1>6. QED
  BY <1>1, <1>2, <1>3, <1>4, <1>5 DEF Next

LEMMA Invariance == Spec => []IInv
BY InitIInv, NextKeeps, PTL DEF Spec

\* The variables of the runtime and its storage keep their types.
THEOREM TypeCorrect == Spec => []TypeOK
<1>1. IInv => TypeOK
  BY DEF IInv
<1>2. QED
  BY <1>1, Invariance, PTL

\* However many pushes schedule processQueue, one call at most drains the queue
\* and only the run it executes has a state object.
THEOREM OneRunAtATimeHolds == Spec => []OneRunAtATime
<1>1. IInv => OneRunAtATime
  <2> SUFFICES ASSUME IInv PROVE OneRunAtATime
    OBVIOUS
  <2>1. processing = (\E m \in Run : loop[m].pc \in LivePc)
    <3>1. CASE processing = TRUE
      BY <3>1 DEF IInv, Guard, Live
    <3>2. CASE processing = FALSE
      BY <3>2 DEF IInv, Guard, Live
    <3>3. QED
      BY <3>1, <3>2 DEF IInv, TypeOK
  <2>2. \A r \in active : \E m \in Run : Holds(m, r)
    BY DEF IInv, Guard, Holds, RegisteredPc
  <2>3. QED
    BY <2>1, <2>2 DEF IInv, Guard, Live, OneRunAtATime
<1>2. QED
  BY <1>1, Invariance, PTL

\* No run waits in the queue without a loop to take it, unless an exception
\* killed the loop.
THEOREM NoLostWakeupHolds == Spec => []NoLostWakeup
<1>1. IInv => NoLostWakeup
  BY DEF IInv
<1>2. QED
  BY <1>1, Invariance, PTL

-----------------------------------------------------------------------------
(* A run that is cancelled in time is never executed.                      *)

\* Steps behind the second look concern the run in hand, and keep it in hand.
LEMMA QuietRun ==
  ASSUME IInv, NEW m \in Run,
         \/ MarkStarting(m) \/ NextJob(m) \/ StartJobRow(m) \/ MarkRunning(m)
         \/ \E s \in TerminalStatus : SettleJobUnstarted(m, s) \/ FinishJob(m, s)
         \/ RunThrows(m) \/ Tally(m) \/ ListQueued(m) \/ WriteVerdict(m)
         \/ \E j \in Job : MarkQueued(m, j)
         \/ Prepare(m)
  PROVE  /\ Live(m) /\ loop[m].pc \notin {"poll", "exec"}
         /\ loop'[m].run = loop[m].run
         /\ \A n \in Run \ {m} : loop'[n] = loop[n]
         /\ \A x \in Run \ {loop[m].run} : status'[x] = status[x]
<1>1. loop \in [Run -> LoopState] /\ loop[m] \in LoopState /\ status \in [Run -> RunStatus]
  BY DEF IInv, TypeOK
<1>2. Live(m) /\ loop[m].pc \notin {"poll", "exec"}
  BY DEF MarkStarting, NextJob, StartJobRow, MarkRunning, SettleJobUnstarted, FinishJob, RunThrows,
         Tally, ListQueued, WriteVerdict, MarkQueued, Prepare, At, Live, LivePc
<1>3. \A n \in Run \ {m} : loop'[n] = loop[n]
  BY <1>1 DEF MarkStarting, NextJob, StartJobRow, MarkRunning, SettleJobUnstarted, FinishJob,
         RunThrows, Tally, ListQueued, WriteVerdict, MarkQueued, Prepare, Goto
<1>4. loop'[m].run = loop[m].run
  <2>1. CASE MarkStarting(m) \/ StartJobRow(m) \/ MarkRunning(m) \/ WriteVerdict(m)
             \/ \E x \in TerminalStatus : SettleJobUnstarted(m, x) \/ FinishJob(m, x)
    BY <1>1, <2>1 DEF MarkStarting, StartJobRow, MarkRunning, WriteVerdict, SettleJobUnstarted,
                      FinishJob, Goto, LoopState
  <2>2. CASE NextJob(m)
    <3>1. CASE Goto(m, "tally")
      BY <1>1, <3>1 DEF Goto, LoopState
    <3>2. CASE loop' = [loop EXCEPT ![m].pc = "list", ![m].markAs = "cancelled",
                                    ![m].verdict = "cancelled"]
      BY <1>1, <3>2 DEF LoopState
    <3>3. ASSUME NEW j \in loop[m].pending,
                 loop' = [loop EXCEPT ![m].pc = "job", ![m].job = j, ![m].pending = @ \ {j}]
          PROVE  loop'[m].run = loop[m].run
      BY <1>1, <3>3 DEF LoopState
    <3>4. QED
      BY <2>2, <3>1, <3>2, <3>3 DEF NextJob
  <2>3. CASE RunThrows(m)
    BY <1>1, <2>3 DEF RunThrows, LoopState
  <2>4. CASE Tally(m)
    BY <1>1, <2>4 DEF Tally, LoopState
  <2>5. CASE ListQueued(m) \/ Prepare(m) \/ \E j \in Job : MarkQueued(m, j)
    BY <1>1, <2>5 DEF ListQueued, Prepare, MarkQueued, LoopState
  <2>6. QED
    BY <2>1, <2>2, <2>3, <2>4, <2>5
<1>5. \A x \in Run \ {loop[m].run} : status'[x] = status[x]
  BY <1>1 DEF MarkStarting, NextJob, StartJobRow, MarkRunning, SettleJobUnstarted, FinishJob,
         RunThrows, Tally, ListQueued, WriteVerdict, MarkQueued, Prepare, SetStatus, storage
<1>6. QED
  BY <1>2, <1>3, <1>4, <1>5

LEMMA StaysCancelled ==
  ASSUME IInv, [Next]_vars, NEW r \in Run, CancelledInTime(r)
  PROVE  CancelledInTime(r)'
<1> USE DEF storage, caller, engine, history
<1>1. /\ status[r] = "cancelled" /\ Terminal(r)
      /\ \A m \in Run : Live(m) /\ loop[m].run = r => loop[m].pc \in {"poll", "exec"}
  BY DEF CancelledInTime, Holds, Terminal, TerminalStatus, Live
<1>2. SUFFICES /\ status'[r] = "cancelled"
               /\ \A m \in Run : Live(m)' /\ loop'[m].run = r => loop'[m].pc \in {"poll", "exec"}
  BY DEF CancelledInTime, Holds, Live
<1> DEFINE Goal == /\ status'[r] = "cancelled"
                   /\ \A m \in Run : Live(m)' /\ loop'[m].run = r => loop'[m].pc \in {"poll", "exec"}
<1>3. ASSUME NEW x \in Run, Submitter(x) \/ SubmitFails(x) PROVE Goal
  <2>1. status'[r] = status[r]
    <3>1. CASE CreateRun(x) /\ x = r
      BY <1>1, <3>1 DEF CreateRun
    <3>2. CASE CreateRun(x) /\ x # r
      BY <3>2 DEF CreateRun, SetStatus, IInv, TypeOK
    <3>3. CASE ~CreateRun(x)
      BY <1>3, <3>3 DEF Submitter, SubmitFails, CreateJob, Accept, ListRivals, RivalsDone, Push
    <3>4. QED
      BY <3>1, <3>2, <3>3
  <2>2. \A m \in Run : loop'[m] = loop[m] \/ loop'[m].pc = "scheduled"
    BY <1>3 DEF Submitter, SubmitFails, CreateRun, CreateJob, Accept, ListRivals, RivalsDone, Push,
       IInv, TypeOK, LoopState
  <2>3. QED
    BY <1>1, <2>1, <2>2 DEF Live, LivePc
<1>4. ASSUME NEW p \in Canceller, CancelCall(p) \/ \E x \in Run : CancelReads(p, x) PROVE Goal
  <2>1. status'[r] = "cancelled" /\ loop' = loop
    BY <1>1, <1>4 DEF CancelCall, CancelReads, CancelLooks, CancelAsks, CancelLists, CancelMarks,
       CancelWrites, CancelAnnounces, SetStatus, IInv, TypeOK
  <2>2. QED
    BY <1>1, <2>1 DEF Live
<1>5. ASSUME NEW m \in Run, TakeNext(m), status' = status PROVE Goal
  <2>0. loop \in [Run -> LoopState]
    BY DEF IInv, TypeOK
  <2>1. \A n \in Run \ {m} : loop'[n] = loop[n]
    BY <1>5, <2>0 DEF TakeNext
  <2>2. loop'[m].pc \in {"ended", "poll"}
    <3>1. loop'[m] \in {[IdleLoop EXCEPT !.pc = "ended"], [IdleLoop EXCEPT !.pc = "poll", !.run = Head(queue)]}
      BY <1>5, <2>0 DEF TakeNext
    <3>2. QED
      BY <3>1 DEF IdleLoop
  <2>3. QED
    BY <1>1, <1>5, <2>1, <2>2 DEF Live, LivePc
<1>6. ASSUME NEW m \in Run, NEW pc \in {"ended", "exec", "start"}, Goto(m, pc), status' = status,
             pc = "start" => loop[m].run # r
      PROVE  Goal
  <2>1. /\ \A n \in Run \ {m} : loop'[n] = loop[n]
        /\ loop'[m].pc = pc /\ loop'[m].run = loop[m].run
    BY <1>6 DEF Goto, IInv, TypeOK, LoopState
  <2>2. QED
    BY <1>1, <1>6, <2>1 DEF Live, LivePc
<1>7. ASSUME NEW m \in Run, StartLoop(m) \/ Poll(m) \/ ReadAgain(m) \/ EndRun(m) PROVE Goal
  <2>1. status' = status
    BY <1>7 DEF StartLoop, Poll, ReadAgain, EndRun
  <2>2. CASE ReadAgain(m) /\ ~TakeNext(m)
    <3>1. loop[m].run # r /\ Goto(m, "start")
      BY <1>1, <2>2 DEF ReadAgain
    <3>2. QED
      BY <1>6, <2>1, <3>1
  <2>3. CASE TakeNext(m)
    BY <1>5, <2>1, <2>3
  <2>4. CASE ~TakeNext(m) /\ (Goto(m, "ended") \/ Goto(m, "exec"))
    BY <1>6, <2>1, <2>4
  <2>5. QED
    BY <1>7, <2>2, <2>3, <2>4 DEF StartLoop, Poll, ReadAgain, EndRun
<1>8. ASSUME NEW m \in Run,
             \/ MarkStarting(m) \/ NextJob(m) \/ StartJobRow(m) \/ MarkRunning(m)
             \/ \E s \in TerminalStatus : SettleJobUnstarted(m, s) \/ FinishJob(m, s)
             \/ RunThrows(m) \/ Tally(m) \/ ListQueued(m) \/ WriteVerdict(m)
             \/ \E j \in Job : MarkQueued(m, j)
             \/ Prepare(m)
      PROVE  Goal
  <2>1. /\ Live(m) /\ loop[m].pc \notin {"poll", "exec"}
        /\ loop'[m].run = loop[m].run
        /\ \A n \in Run \ {m} : loop'[n] = loop[n]
        /\ \A x \in Run \ {loop[m].run} : status'[x] = status[x]
    BY <1>8, QuietRun
  <2>2. loop[m].run # r
    BY <1>1, <2>1
  <2>3. QED
    BY <1>1, <2>1, <2>2 DEF Live
<1>9. ASSUME NEW m \in Run, PrepareThrows(m) \/ HandlerThrows(m) PROVE Goal
  <2>1. status' = status /\ \A n \in Run : loop'[n] = loop[n] \/ loop'[n].pc = "ended"
    BY <1>9 DEF PrepareThrows, HandlerThrows, IdleLoop, IInv, TypeOK
  <2>2. QED
    BY <1>1, <2>1 DEF Live, LivePc
<1>10. CASE Crash
  <2>1. status' = status /\ \A n \in Run : loop'[n].pc \in {"none", "ended"}
    BY <1>10 DEF Crash, IdleLoop
  <2>2. QED
    BY <1>1, <2>1 DEF Live, LivePc
<1>11. CASE UNCHANGED vars
  BY <1>1, <1>11 DEF vars, Live
<1>12. QED
  BY <1>3, <1>4, <1>7, <1>8, <1>9, <1>10, <1>11 DEF Next, Advance

\* A run cancelled before executeRun has looked at it a second time is never
\* executed and stays cancelled.
THEOREM CancelledBeforeStartHolds == Spec => CancelledBeforeStart
<1>1. IInv /\ [Next]_vars => [\A r \in Run : CancelledInTime(r) => CancelledInTime(r)']_vars
  BY StaysCancelled
<1>2. QED
  BY <1>1, Invariance, PTL DEF Spec, CancelledBeforeStart
===============================================================================
