----------------------- MODULE WorkflowRunsOutcomeProofs -----------------------
(***************************************************************************)
(* Proofs about how runs end in WorkflowRuns, for any number of runs, jobs *)
(* and users and any faults: a run that no cancellation found unregistered *)
(* and no failure left behind ends with one event that carries its stored  *)
(* status, its rows bear the status out, and nothing of it is left.        *)
(*                                                                         *)
(* The two properties speak of the end; Traced says what holds of a run at *)
(* every place on the way there, and Placed that it is in one place only:  *)
(* before its push, in the queue, in the hand of the one live loop, over.  *)
(***************************************************************************)
EXTENDS WorkflowRunsProofs

InQueue(r) == \E i \in DOMAIN queue : queue[i] = r

\* A run is in one place: it is pushed once, waits in the queue or is in the
\* hand of a loop, never both.  A cancellation that marks rows and writes the
\* status has found its run unregistered.
Placed ==
  /\ \A i, j \in DOMAIN queue : queue[i] = queue[j] => i = j
  /\ \A i \in DOMAIN queue : submit[queue[i]] = "pushed"
  /\ \A m \in Run : Live(m) => submit[loop[m].run] = "pushed" /\ ~InQueue(loop[m].run)
  /\ \A p \in Canceller : cancel[p].pc \in {"list", "mark", "write", "announce"} => cancel[p].run \in passive

Unfinished == {"queued", "starting", "running"}

\* The rows w of a run before anything has happened to it, and when a verdict
\* has been written: none is queued, and they bear it out unless the run threw.
Fresh(w) == \A j \in Job : w[j] = "queued"
BornOut(w, s, threw) ==
  /\ \A j \in Job : w[j] # "queued"
  /\ s \in {"success", "skipped"} => \A j \in Job : w[j] \in {"success", "skipped"}
  /\ s = "failed" => threw \/ \E j \in Job : w[j] = "failed"
  /\ \A j \in Job : w[j] = "running" => threw

\* The rows while jobs are run: the pending ones are queued, those that are
\* neither pending nor under way are final.
Worked(w, l, busy) ==
  \A j \in Job \ busy : IF j \in l.pending THEN w[j] = "queued" ELSE w[j] \in TerminalStatus
Rows(w, l) ==
  /\ l.pc \in {"poll", "exec", "start", "prepare"} => Fresh(w)
  /\ l.pc = "jobs" => Worked(w, l, {})
  /\ l.pc \in {"job", "begun", "running"} =>
       /\ l.job \in Job \ l.pending
       /\ w[l.job] = IF l.pc = "job" THEN "queued" ELSE "running"
       /\ Worked(w, l, {l.job})
  /\ l.pc = "tally" => \A j \in Job : w[j] \in TerminalStatus
  /\ l.pc \in {"list", "mark"} =>
       /\ l.verdict \in {"failed", "cancelled"}
       /\ ~l.caught => /\ l.verdict = "failed" => \E j \in Job : w[j] = "failed"
                       /\ \A j \in Job : w[j] # "running"
  /\ l.pc = "mark" => l.marks = {j \in Job : w[j] = "queued"}
  /\ l.pc \in {"write", "announce"} => BornOut(w, l.verdict, l.caught)

\* A run the loop l has in hand: it is unfinished until the verdict is written,
\* and what was written before an exception is written over.
Standing(l) == IF l.pc = "announce" THEN {l.verdict}
               ELSE IF l.caught THEN RunStatus \ {"absent"} ELSE Unfinished
InHand(r, l) ==
  /\ announced[r] = <<>>
  /\ l.pc \in {"poll", "exec", "start"} => status[r] = "queued"
  /\ status[r] \in Standing(l)
  /\ l.caught => r \in thrown
  /\ Rows(rows[r], l)

\* A run that is over.
Concluded(r) ==
  /\ Terminal(r) /\ announced[r] = <<status[r]>>
  /\ r \notin contexts
  /\ BornOut(rows[r], status[r], r \in thrown)

\* What holds of a run that no cancellation has found unregistered.
Traced(r) ==
  /\ submit[r] = "new" => announced[r] = <<>> /\ \A j \in Job : rows[r][j] = "absent"
  /\ submit[r] = "creating" => \A j \in Job : rows[r][j] \in {"absent", "queued"}
  /\ submit[r] \in {"listing", "rivals", "accepted"} => Fresh(rows[r])
  /\ submit[r] \in {"creating", "listing", "rivals", "accepted"} =>
       announced[r] = <<>> /\ status[r] = "queued"
  /\ InQueue(r) => announced[r] = <<>> /\ status[r] = "queued" /\ Fresh(rows[r])
  /\ \A m \in Run : Holds(m, r) => InHand(r, loop[m])
  /\ submit[r] = "lost" => r \in stranded
  /\ submit[r] = "pushed" /\ ~InQueue(r) /\ (\A m \in Run : ~Holds(m, r)) /\ r \notin stranded
       => Concluded(r)

TracedInv == Placed /\ \A r \in Run \ passive : Traced(r)

-----------------------------------------------------------------------------
(* The queue.                                                              *)

LEMMA QueueGrows ==
  ASSUME TypeOK, Placed, NEW r \in Run, ~InQueue(r), queue' = Append(queue, r)
  PROVE  /\ \A i, j \in DOMAIN queue' : queue'[i] = queue'[j] => i = j
         /\ \A x : InQueue(x)' <=> InQueue(x) \/ x = r
<1>1. queue \in Seq(Run)
  BY DEF TypeOK
<1>2. /\ DOMAIN queue = 1..Len(queue) /\ DOMAIN queue' = 1..(Len(queue) + 1) /\ Len(queue) \in Nat
      /\ \A i \in DOMAIN queue : queue'[i] = queue[i]
      /\ queue'[Len(queue) + 1] = r
  BY <1>1
<1>3. \A i \in DOMAIN queue' : i = Len(queue) + 1 \/ i \in DOMAIN queue
  BY <1>2
<1>4. \A i \in DOMAIN queue : queue[i] # r
  BY DEF InQueue
<1>5. \A i, j \in DOMAIN queue' : queue'[i] = queue'[j] => i = j
  BY <1>2, <1>3, <1>4 DEF Placed
<1>6. \A x : InQueue(x)' <=> InQueue(x) \/ x = r
  BY <1>2, <1>3 DEF InQueue
<1>7. QED
  BY <1>5, <1>6

LEMMA QueueShrinks ==
  ASSUME TypeOK, Placed, queue # <<>>, queue' = Tail(queue)
  PROVE  /\ \A i, j \in DOMAIN queue' : queue'[i] = queue'[j] => i = j
         /\ \A x : InQueue(x)' <=> InQueue(x) /\ x # Head(queue)
         /\ InQueue(Head(queue)) /\ Head(queue) \in Run
         /\ submit[Head(queue)] = "pushed"
<1>1. queue \in Seq(Run)
  BY DEF TypeOK
<1>2. /\ DOMAIN queue = 1..Len(queue) /\ Len(queue) \in Nat \ {0}
      /\ DOMAIN queue' = 1..(Len(queue) - 1)
      /\ \A i \in DOMAIN queue' : queue'[i] = queue[i + 1]
      /\ Head(queue) = queue[1] /\ queue[1] \in Run
  BY <1>1
<1>3. \A i \in DOMAIN queue' : i + 1 \in DOMAIN queue /\ i + 1 # 1
  BY <1>2
<1>4. \A i \in DOMAIN queue : i = 1 \/ (i - 1 \in DOMAIN queue' /\ queue'[i - 1] = queue[i])
  BY <1>2
<1>5. \A i, j \in DOMAIN queue' : queue'[i] = queue'[j] => i = j
  <2>1. ASSUME NEW i \in DOMAIN queue', NEW j \in DOMAIN queue', queue'[i] = queue'[j]
        PROVE  i = j
    <3>1. i + 1 = j + 1
      BY <1>2, <1>3, <2>1 DEF Placed
    <3>2. i \in Int /\ j \in Int
      BY <1>2
    <3>3. QED
      BY <3>1, <3>2
  <2>2. QED
    BY <2>1
<1>6. ASSUME NEW x, InQueue(x)' PROVE InQueue(x) /\ x # Head(queue)
  <2>1. PICK i \in DOMAIN queue' : queue'[i] = x
    BY <1>6 DEF InQueue
  <2>2. queue[i + 1] = x /\ i + 1 \in DOMAIN queue /\ i + 1 # 1 /\ 1 \in DOMAIN queue
    BY <1>2, <1>3, <2>1
  <2>3. QED
    BY <1>2, <2>2 DEF InQueue, Placed
<1>7. ASSUME NEW x, InQueue(x), x # Head(queue) PROVE InQueue(x)'
  <2>1. PICK i \in DOMAIN queue : queue[i] = x
    BY <1>7 DEF InQueue
  <2>2. QED
    BY <1>2, <1>4, <1>7, <2>1 DEF InQueue
<1>8. InQueue(Head(queue)) /\ submit[Head(queue)] = "pushed"
  BY <1>2 DEF InQueue, Placed
<1>9. QED
  BY <1>2, <1>5, <1>6, <1>7, <1>8

-----------------------------------------------------------------------------
(* A run is in one place.                                                  *)

LEMMA SubmitPlaced ==
  ASSUME IInv, Placed, NEW r \in Run, Submitter(r) \/ SubmitFails(r)
  PROVE  Placed'
<1> USE DEF storage, caller, engine, history
<1>1. TypeOK /\ submit \in [Run -> SubmitPc] /\ queue \in Seq(Run)
  BY DEF IInv, TypeOK
<1>2. \A m \in Run : Live(m) => loop[m].run \in Run
  BY DEF IInv, Shape, Sound, Live
<1>3. CASE Push(r)
  <2>1. submit[r] = "accepted" /\ queue' = Append(queue, r) /\ UNCHANGED <<cancel, passive>>
    BY <1>3 DEF Push
  <2>2. ~InQueue(r) /\ \A m \in Run : Live(m) => loop[m].run # r
    BY <2>1 DEF InQueue, Placed
  <2>3. /\ \A i, j \in DOMAIN queue' : queue'[i] = queue'[j] => i = j
        /\ \A x : InQueue(x)' <=> InQueue(x) \/ x = r
    BY <1>1, <2>1, <2>2, QueueGrows
  <2>4. submit'[r] = "pushed" /\ \A x \in Run : submit[x] = "pushed" => submit'[x] = "pushed"
    BY <1>1, <1>3 DEF Push
  <2>5. \A m \in Run : Live(m)' => Live(m) /\ loop'[m] = loop[m]
    BY <1>3 DEF Push, IInv, TypeOK, LoopState, Live, LivePc
  <2>6. \A i \in DOMAIN queue' : submit'[queue'[i]] = "pushed"
    <3>1. ASSUME NEW i \in DOMAIN queue' PROVE submit'[queue'[i]] = "pushed"
      <4>1. queue'[i] = r \/ InQueue(queue'[i])
        BY <2>3 DEF InQueue
      <4>2. \A x : InQueue(x) => x \in Run /\ submit[x] = "pushed"
        BY <1>1 DEF InQueue, Placed
      <4>3. QED
        BY <2>4, <4>1, <4>2
    <3>2. QED
      BY <3>1
  <2>7. ASSUME NEW m \in Run, Live(m)'
        PROVE  submit'[loop'[m].run] = "pushed" /\ ~InQueue(loop[m].run)'
    <3>1. PICK x \in Run : x = loop[m].run
      BY <1>2, <2>5, <2>7
    <3>2. x = loop'[m].run /\ x # r /\ submit[x] = "pushed" /\ ~InQueue(x)
      BY <2>2, <2>5, <2>7, <3>1 DEF Placed
    <3>3. submit'[x] = "pushed" /\ ~InQueue(x)'
      BY <2>3, <2>4, <3>2
    <3>4. QED
      BY <3>2, <3>3 DEF InQueue
  <2>8. QED
    BY <2>1, <2>3, <2>6, <2>7 DEF Placed
<1>4. CASE ~Push(r)
  <2>1. UNCHANGED <<queue, loop, cancel, passive>>
    BY <1>4 DEF Submitter, SubmitFails, CreateRun, CreateJob, Accept, ListRivals, RivalsDone
  <2>2. \A x \in Run : submit[x] = "pushed" => submit'[x] = "pushed"
    BY <1>1, <1>4 DEF Submitter, SubmitFails, CreateRun, CreateJob, Accept, ListRivals, RivalsDone
  <2>3. \A i \in DOMAIN queue : queue[i] \in Run
    BY <1>1
  <2>4. QED
    BY <1>2, <2>1, <2>2, <2>3 DEF Placed, Live, InQueue
<1>5. QED
  BY <1>3, <1>4

\* A cancellation goes on to mark rows only when it has found its run
\* unregistered, and writes to storage for no other run.
LEMMA CancelPlaced ==
  ASSUME IInv, Placed, NEW p \in Canceller, CancelCall(p) \/ \E r \in Run : CancelReads(p, r)
  PROVE  /\ Placed'
         /\ passive \subseteq passive'
         /\ \A x \in Run \ passive : /\ status'[x] = status[x] /\ rows'[x] = rows[x]
                                    /\ announced'[x] = announced[x]
         /\ UNCHANGED <<queue, loop, submit, contexts, stranded, thrown>>
<1> USE DEF storage, engine, history
<1>1. /\ cancel \in [Canceller -> CancelState] /\ status \in [Run -> RunStatus]
      /\ rows \in [Run -> [Job -> RowStatus]] /\ announced \in [Run -> Seq(TerminalStatus)]
  BY DEF IInv, TypeOK
<1>2. UNCHANGED <<queue, loop, submit, contexts, stranded, thrown>> /\ passive \subseteq passive'
  BY DEF CancelCall, CancelReads, CancelLooks, CancelAsks, CancelLists, CancelMarks, CancelWrites,
         CancelAnnounces
<1> DEFINE Beyond(c) == c.pc \in {"list", "mark", "write", "announce"}
<1>3. \A q \in Canceller \ {p} : cancel'[q] = cancel[q]
  BY <1>1 DEF CancelCall, CancelReads, CancelLooks, CancelAsks, CancelLists, CancelMarks,
         CancelWrites, CancelAnnounces
<1>4. Beyond(cancel'[p]) => cancel'[p].run \in passive'
  <2>1. ASSUME NEW r \in Run, CancelReads(p, r) PROVE ~Beyond(cancel'[p])
    BY <1>1, <2>1 DEF CancelReads
  <2>2. CASE CancelLooks(p)
    BY <1>1, <2>2 DEF CancelLooks, CancelState
  <2>3. CASE CancelAsks(p)
    BY <1>1, <2>3 DEF CancelAsks, CancelState
  <2>4. ASSUME Beyond(cancel[p]), cancel'[p].run = cancel[p].run
        PROVE  cancel'[p].run \in passive'
    BY <1>2, <2>4 DEF Placed
  <2>5. CASE CancelLists(p) \/ CancelWrites(p) \/ CancelAnnounces(p) \/ \E j \in Job : CancelMarks(p, j)
    <3>1. Beyond(cancel[p])
      BY <2>5 DEF CancelLists, CancelWrites, CancelAnnounces, CancelMarks
    <3>2. cancel'[p].run = cancel[p].run
      <4>1. CASE CancelLists(p)
        BY <1>1, <4>1 DEF CancelLists, CancelState
      <4>2. CASE CancelWrites(p) \/ CancelAnnounces(p)
        BY <1>1, <4>2 DEF CancelWrites, CancelAnnounces, CancelState
      <4>3. ASSUME NEW j \in Job, CancelMarks(p, j) PROVE cancel'[p].run = cancel[p].run
        BY <1>1, <4>3 DEF CancelMarks, CancelState
      <4>4. QED
        BY <2>5, <4>1, <4>2, <4>3
    <3>3. QED
      BY <2>4, <3>1, <3>2
  <2>6. QED
    BY <2>1, <2>2, <2>3, <2>5 DEF CancelCall
<1>5. Placed'
  BY <1>2, <1>3, <1>4 DEF Placed, Live, InQueue
<1>6. ASSUME NEW x \in Run \ passive
      PROVE  status'[x] = status[x] /\ rows'[x] = rows[x] /\ announced'[x] = announced[x]
  <2>1. CASE CancelWrites(p) \/ CancelAnnounces(p) \/ \E j \in Job : CancelMarks(p, j)
    <3>1. cancel[p].run # x
      BY <2>1 DEF CancelWrites, CancelAnnounces, CancelMarks, Placed
    <3>2. QED
      BY <1>1, <2>1, <3>1 DEF CancelWrites, CancelAnnounces, CancelMarks, SetStatus, Announce
  <2>2. CASE ~(CancelWrites(p) \/ CancelAnnounces(p) \/ \E j \in Job : CancelMarks(p, j))
    BY <2>2 DEF CancelCall, CancelReads, CancelLooks, CancelAsks, CancelLists
  <2>3. QED
    BY <2>1, <2>2
<1>7. QED
  BY <1>2, <1>5, <1>6

\* The loops other than one that takes a step are not live, those it leaves
\* live are as they were.
LEMMA OnlyOneLive ==
  ASSUME IInv, NEW m \in Run, Live(m) \/ processing = FALSE
  PROVE  \A n \in Run \ {m} : ~Live(n)
BY DEF IInv, Guard

\* What taking the next run, or finding none, does to the places of the runs.
LEMMA HeadPlaced ==
  ASSUME IInv, Placed, NEW m \in Run, Live(m) \/ processing = FALSE, TakeNext(m),
         UNCHANGED <<submit, cancel, passive>>
  PROVE  /\ Placed'
         /\ \/ /\ \A n \in Run : ~Live(n)'
               /\ queue' = queue /\ \A x : ~InQueue(x)
            \/ \E h \in Run :
                 /\ InQueue(h) /\ \A n \in Run : ~Holds(n, h)
                 /\ \A x : InQueue(x)' <=> InQueue(x) /\ x # h
                 /\ loop'[m] = [IdleLoop EXCEPT !.pc = "poll", !.run = h]
                 /\ \A n \in Run \ {m} : ~Live(n)'
<1>1. TypeOK /\ loop \in [Run -> LoopState] /\ queue \in Seq(Run)
  BY DEF IInv, TypeOK
<1>2. \A n \in Run \ {m} : ~Live(n)
  BY OnlyOneLive
<1>3. \A n \in Run \ {m} : loop'[n] = loop[n]
  BY <1>1 DEF TakeNext
<1>4. \A n \in Run \ {m} : ~Live(n)'
  BY <1>2, <1>3 DEF Live
<1>5. CASE queue = <<>>
  <2>1. queue' = queue /\ loop'[m].pc = "ended"
    BY <1>1, <1>5 DEF TakeNext, IdleLoop
  <2>2. \A n \in Run : ~Live(n)'
    BY <1>4, <2>1 DEF Live, LivePc
  <2>3. QED
    BY <1>5, <2>1, <2>2 DEF Placed, InQueue
<1>6. CASE queue # <<>>
  <2>1. queue' = Tail(queue)
    BY <1>6 DEF TakeNext
  <2> DEFINE h == Head(queue)
  <2>2. /\ \A i, j \in DOMAIN queue' : queue'[i] = queue'[j] => i = j
        /\ \A x : InQueue(x)' <=> InQueue(x) /\ x # h
        /\ InQueue(h) /\ h \in Run /\ submit[h] = "pushed"
    BY <1>1, <1>6, <2>1, QueueShrinks
  <2>3. loop'[m] = [IdleLoop EXCEPT !.pc = "poll", !.run = h]
    BY <1>1, <1>6 DEF TakeNext
  <2>4. loop'[m].run = h
    BY <2>3 DEF IdleLoop
  <2>5. \A n \in Run : ~Holds(n, h)
    BY <2>2 DEF Holds, Placed, Live
  <2>6. \A i \in DOMAIN queue' : submit[queue'[i]] = "pushed"
    BY <2>2 DEF InQueue, Placed
  <2>7. ASSUME NEW n \in Run, Live(n)' PROVE submit'[loop'[n].run] = "pushed" /\ ~InQueue(loop[n].run)'
    <3>1. loop'[n].run = h
      BY <1>4, <2>4, <2>7
    <3>2. PICK g \in Run : g = h
      BY <2>2
    <3>3. ~InQueue(g)'
      BY <2>2, <3>2
    <3>4. QED
      BY <2>2, <3>1, <3>2, <3>3 DEF InQueue
  <2>8. Placed'
    BY <2>2, <2>6, <2>7 DEF Placed
  <2>9. PICK g \in Run : g = h
    BY <2>2
  <2> HIDE DEF h
  <2>10. QED
    BY <1>4, <2>2, <2>3, <2>5, <2>8, <2>9
<1>7. QED
  BY <1>5, <1>6

\* A loop step that leaves the queue alone and gives no loop another run.
LEMMA KeepsPlaced ==
  ASSUME IInv, Placed, UNCHANGED <<submit, cancel, queue>>, passive \subseteq passive',
         \A n \in Run : Live(n)' => Live(n) /\ loop'[n].run = loop[n].run
  PROVE  Placed'
BY DEF Placed, InQueue

LEMMA CrashPlaced ==
  ASSUME IInv, Placed, Crash
  PROVE  Placed'
<1>1. queue' = <<>> /\ \A m \in Run : ~Live(m)'
  BY DEF Crash, Live, LivePc, IdleLoop
<1>2. \A p \in Canceller : cancel'[p].pc = "idle"
  BY DEF Crash, IdleCancel
<1>3. QED
  BY <1>1, <1>2 DEF Placed

-----------------------------------------------------------------------------
\* A run that a step does not concern is traced as before; one that waits in the
\* queue may be taken off the list of the stranded.
LEMMA Unconcerned ==
  ASSUME Placed, NEW x \in Run, Traced(x),
         status'[x] = status[x], rows'[x] = rows[x], announced'[x] = announced[x],
         submit'[x] = submit[x], InQueue(x)' <=> InQueue(x),
         \A n \in Run : Holds(n, x)' => Holds(n, x) /\ loop'[n] = loop[n],
         \A n \in Run : Holds(n, x) => Holds(n, x)',
         x \in contexts' => x \in contexts, x \in thrown' <=> x \in thrown,
         x \in stranded => x \in stranded' \/ InQueue(x)
  PROVE  Traced(x)'
<1>1. InQueue(x) => submit[x] = "pushed"
  BY DEF InQueue, Placed
<1>2. \A n \in Run : Holds(n, x)' => InHand(x, loop[n])'
  BY DEF Traced, InHand
<1>3. Concluded(x) => Concluded(x)'
  BY DEF Concluded, Terminal
<1>4. submit[x] = "lost" => x \in stranded'
  BY <1>1 DEF Traced
<1>5. submit[x] = "pushed" /\ ~InQueue(x)' /\ (\A n \in Run : ~Holds(n, x)') /\ x \notin stranded'
        => Concluded(x)'
  BY <1>3 DEF Traced
<1>6. QED
  BY <1>2, <1>4, <1>5 DEF Traced

LEMMA SubmitTraced ==
  ASSUME IInv, TracedInv, Placed', NEW r \in Run, Submitter(r) \/ SubmitFails(r),
         NEW x \in Run \ passive'
  PROVE  Traced(x)'
<1> USE DEF storage, caller, engine, history
<1>1. /\ TypeOK /\ submit \in [Run -> SubmitPc] /\ loop \in [Run -> LoopState]
      /\ status \in [Run -> RunStatus] /\ rows \in [Run -> [Job -> RowStatus]]
  BY DEF IInv, TypeOK
<1>2. Placed /\ Traced(x)
  BY DEF TracedInv, Submitter, SubmitFails, CreateRun, CreateJob, Accept, ListRivals, RivalsDone, Push
<1>3. submit[r] \in {"new", "creating", "listing", "rivals", "accepted"}
  BY DEF Submitter, SubmitFails, CreateRun, CreateJob, Accept, ListRivals, RivalsDone, Push
<1>4. ~InQueue(r) /\ \A n \in Run : ~Holds(n, r)
  BY <1>2, <1>3 DEF Placed, InQueue, Holds, Live
<1>5. \A n \in Run : loop'[n] = loop[n] \/ (~Live(n) /\ ~Live(n)')
  <2>1. CASE Push(r)
    <3>1. CASE processing
      BY <2>1, <3>1 DEF Push
    <3>2. CASE ~processing
      <4>1. \A n \in Run : ~Live(n)
        BY <3>2 DEF IInv, Guard
      <4>2. \A n \in Run : loop'[n] = loop[n] \/ loop'[n].pc = "scheduled"
        BY <1>1, <2>1, <3>2 DEF Push, LoopState
      <4>3. QED
        BY <4>1, <4>2 DEF Live, LivePc
    <3>3. QED
      BY <3>1, <3>2
  <2>2. CASE ~Push(r)
    BY <2>2 DEF Submitter, SubmitFails, CreateRun, CreateJob, Accept, ListRivals, RivalsDone
  <2>3. QED
    BY <2>1, <2>2
<1>6. CASE x # r
  <2>1. /\ status'[x] = status[x] /\ rows'[x] = rows[x] /\ announced'[x] = announced[x]
        /\ submit'[x] = submit[x] /\ (x \in contexts' => x \in contexts) /\ thrown' = thrown
    BY <1>1, <1>6 DEF Submitter, SubmitFails, CreateRun, CreateJob, Accept, ListRivals, RivalsDone,
                      Push, SetStatus
  <2>2. InQueue(x)' <=> InQueue(x)
    <3>1. CASE Push(r)
      <4>1. queue' = Append(queue, r)
        BY <3>1 DEF Push
      <4>2. QED
        BY <1>1, <1>2, <1>4, <1>6, <4>1, QueueGrows
    <3>2. CASE ~Push(r)
      BY <3>2 DEF InQueue, Submitter, SubmitFails, CreateRun, CreateJob, Accept, ListRivals, RivalsDone
    <3>3. QED
      BY <3>1, <3>2
  <2>3. /\ \A n \in Run : Holds(n, x)' => Holds(n, x) /\ loop'[n] = loop[n]
        /\ \A n \in Run : Holds(n, x) => Holds(n, x)'
    BY <1>5 DEF Holds, Live
  <2>4. x \in stranded => x \in stranded' \/ InQueue(x)
    BY DEF Submitter, SubmitFails, CreateRun, CreateJob, Accept, ListRivals, RivalsDone, Push, InQueue
  <2>5. QED
    BY <1>2, <2>1, <2>2, <2>3, <2>4, Unconcerned
<1>7. CASE x = r /\ ~Push(r)
  <2>1. submit'[r] # "pushed"
    BY <1>1, <1>3, <1>7 DEF Submitter, SubmitFails, CreateRun, CreateJob, Accept, ListRivals, RivalsDone
  <2>2. ~InQueue(r)' /\ \A n \in Run : ~Holds(n, r)'
    BY <2>1 DEF Placed, InQueue, Holds, Live
  <2>3. SUFFICES
          /\ submit'[r] = "new" => announced'[r] = <<>> /\ \A j \in Job : rows'[r][j] = "absent"
          /\ submit'[r] = "creating" => \A j \in Job : rows'[r][j] \in {"absent", "queued"}
          /\ submit'[r] \in {"listing", "rivals", "accepted"} => Fresh(rows'[r])
          /\ submit'[r] \in {"creating", "listing", "rivals", "accepted"} =>
               announced'[r] = <<>> /\ status'[r] = "queued"
          /\ submit'[r] = "lost" => r \in stranded'
    BY <1>7, <2>1, <2>2 DEF Traced
  <2>4. CASE CreateRun(r)
    BY <1>1, <1>2, <1>7, <2>4 DEF CreateRun, SetStatus, Traced
  <2>5. ASSUME NEW j \in Job, CreateJob(r, j)
        PROVE  /\ UNCHANGED <<submit, announced, status>> /\ submit[r] = "creating"
               /\ \A i \in Job : rows'[r][i] \in {"absent", "queued"}
    BY <1>1, <1>2, <1>7, <2>5 DEF CreateJob, Traced
  <2>6. CASE Accept(r)
    BY <1>1, <1>2, <1>7, <2>6 DEF Accept, Traced, Fresh
  <2>7. CASE ListRivals(r) \/ RivalsDone(r) \/ SubmitFails(r)
    BY <1>1, <1>2, <1>7, <2>7 DEF ListRivals, RivalsDone, SubmitFails, Traced
  <2>8. QED
    BY <1>2, <1>7, <2>4, <2>5, <2>6, <2>7 DEF Submitter, Traced
<1>8. CASE x = r /\ Push(r)
  <2>1. queue' = Append(queue, r) /\ submit'[r] = "pushed" /\ submit[r] = "accepted"
        /\ UNCHANGED <<status, rows, announced>>
    BY <1>1, <1>8 DEF Push
  <2>2. InQueue(r)'
    BY <1>1, <1>2, <1>4, <2>1, QueueGrows
  <2>3. \A n \in Run : ~Holds(n, r)'
    BY <1>4, <1>5 DEF Holds, Live
  <2>4. QED
    BY <1>2, <1>8, <2>1, <2>2, <2>3 DEF Traced
<1>9. QED
  BY <1>6, <1>7, <1>8

LEMMA CancelTraced ==
  ASSUME IInv, TracedInv, NEW p \in Canceller, CancelCall(p) \/ \E r \in Run : CancelReads(p, r),
         NEW x \in Run \ passive'
  PROVE  Traced(x)'
<1>1. /\ passive \subseteq passive'
      /\ status'[x] = status[x] /\ rows'[x] = rows[x] /\ announced'[x] = announced[x]
      /\ UNCHANGED <<queue, loop, submit, contexts, stranded, thrown>>
  BY CancelPlaced DEF TracedInv
<1>2. InQueue(x)' <=> InQueue(x)
  BY <1>1 DEF InQueue
<1>3. \A n \in Run : Holds(n, x)' <=> Holds(n, x)
  BY <1>1 DEF Holds
<1>4. Placed /\ Traced(x)
  BY <1>1 DEF TracedInv
<1>5. QED
  BY <1>1, <1>2, <1>3, <1>4, Unconcerned

LEMMA CrashTraced ==
  ASSUME IInv, TracedInv, Placed', Crash, NEW x \in Run \ passive'
  PROVE  Traced(x)'
<1> USE DEF storage
<1>1. Traced(x) /\ submit \in [Run -> SubmitPc]
  BY DEF Crash, TracedInv, IInv, TypeOK
<1>2. ~InQueue(x)' /\ \A n \in Run : ~Holds(n, x)'
  BY DEF Crash, InQueue, Holds, IdleLoop, LivePc
<1>3. /\ UNCHANGED <<status, rows, announced>>
      /\ submit'[x] \in {"new", "pushed", "lost"}
      /\ submit'[x] \in {"new", "pushed"} => submit'[x] = submit[x]
      /\ x \in stranded \/ status[x] # "absent" => x \in stranded'
  BY <1>1 DEF Crash
<1>4. CASE submit[x] = "new"
  BY <1>1, <1>2, <1>3, <1>4 DEF Traced, Crash
<1>5. CASE submit[x] # "new" /\ status[x] # "absent"
  BY <1>2, <1>3, <1>5 DEF Traced, Crash
<1>6. CASE submit[x] # "new" /\ status[x] = "absent"
  <2>1. submit[x] \notin {"creating", "listing", "rivals", "accepted"} /\ ~InQueue(x)
    BY <1>1, <1>6 DEF Traced
  <2>2. \A n \in Run : ~Holds(n, x)
    <3>1. ASSUME NEW n \in Run, Holds(n, x) PROVE FALSE
      <4>1. status[x] \in Standing(loop[n])
        BY <1>1, <3>1 DEF Traced, InHand
      <4>2. Sound(loop[n])
        BY DEF IInv, Shape
      <4>3. QED
        BY <1>6, <4>1, <4>2 DEF Sound, Standing, Unfinished, TerminalStatus
    <3>2. QED
      BY <3>1
  <2>3. submit[x] = "pushed" => x \in stranded
    BY <1>1, <1>6, <2>1, <2>2 DEF Traced, Concluded, Terminal, TerminalStatus
  <2>4. submit[x] \in {"pushed", "lost"}
    BY <1>1, <1>6, <2>1 DEF SubmitPc
  <2>5. x \in stranded'
    BY <1>1, <1>3, <2>3, <2>4 DEF Traced
  <2>6. QED
    BY <1>2, <1>3, <1>6, <2>4, <2>5 DEF Traced, Crash
<1>7. QED
  BY <1>4, <1>5, <1>6

-----------------------------------------------------------------------------
(* The run in hand.                                                        *)

\* The steps of loop m that keep its run in hand, behind the second look.
Quiet(m) ==
  \/ MarkStarting(m) \/ NextJob(m) \/ StartJobRow(m) \/ MarkRunning(m)
  \/ \E s \in TerminalStatus : SettleJobUnstarted(m, s) \/ FinishJob(m, s)
  \/ RunThrows(m) \/ Tally(m) \/ ListQueued(m) \/ WriteVerdict(m)
  \/ \E j \in Job : MarkQueued(m, j)
  \/ Prepare(m)

LEMMA QuietInHand ==
  ASSUME IInv, NEW m \in Run, Quiet(m), NEW r \in Run, r = loop[m].run, InHand(r, loop[m])
  PROVE  InHand(r, loop[m])'
<1> DEFINE l == loop[m]
           w == rows[r]
<1> USE DEF storage, history
<1>1. /\ loop \in [Run -> LoopState] /\ l \in LoopState /\ Sound(l) /\ status \in [Run -> RunStatus]
      /\ rows \in [Run -> [Job -> RowStatus]] /\ w \in [Job -> RowStatus]
  BY DEF IInv, TypeOK, Shape
<1>2. announced[r] = <<>> /\ Rows(w, l) /\ l.run = r
  BY DEF InHand
<1> DEFINE Goal == /\ announced' = announced
                   /\ l'.pc \notin {"poll", "exec", "start"}
                   /\ status'[r] \in Standing(l')
                   /\ l'.caught => r \in thrown'
                   /\ Rows(w', l')
<1>3. SUFFICES Goal
  BY <1>2 DEF InHand
<1>16. /\ l.pc \in {"start", "prepare", "jobs", "job", "begun", "running", "tally"} =>
            ~l.caught /\ status[r] \in Unfinished
       /\ l.caught => r \in thrown
       /\ status[r] \in Standing(l)
  BY <1>1 DEF InHand, Sound, Standing
<1>17. ASSUME ~RunThrows(m) PROVE l'.caught = l.caught /\ thrown' = thrown
  <2>1. thrown' = thrown
    BY <1>17 DEF Quiet, MarkStarting, NextJob, StartJobRow, MarkRunning, SettleJobUnstarted, FinishJob,
                 Tally, ListQueued, WriteVerdict, MarkQueued, Prepare
  <2>2. CASE MarkStarting(m) \/ StartJobRow(m) \/ MarkRunning(m) \/ WriteVerdict(m)
             \/ \E x \in TerminalStatus : SettleJobUnstarted(m, x) \/ FinishJob(m, x)
    BY <1>1, <2>2 DEF MarkStarting, StartJobRow, MarkRunning, WriteVerdict, SettleJobUnstarted,
                      FinishJob, Goto, LoopState
  <2>3. CASE NextJob(m)
    <3>1. CASE Goto(m, "tally")
      BY <1>1, <2>1, <3>1 DEF Goto, LoopState
    <3>2. CASE loop' = [loop EXCEPT ![m].pc = "list", ![m].markAs = "cancelled",
                                    ![m].verdict = "cancelled"]
      BY <1>1, <2>1, <3>2 DEF LoopState
    <3>3. ASSUME NEW j \in loop[m].pending,
                 loop' = [loop EXCEPT ![m].pc = "job", ![m].job = j, ![m].pending = @ \ {j}]
          PROVE  l'.caught = l.caught
      BY <1>1, <3>3 DEF LoopState
    <3>4. QED
      BY <2>1, <2>3, <3>1, <3>2, <3>3 DEF NextJob
  <2>4. CASE Tally(m)
    BY <1>1, <2>4 DEF Tally, LoopState
  <2>5. CASE ListQueued(m) \/ Prepare(m) \/ \E j \in Job : MarkQueued(m, j)
    BY <1>1, <2>5 DEF ListQueued, Prepare, MarkQueued, LoopState
  <2>6. QED
    BY <1>17, <2>1, <2>2, <2>3, <2>4, <2>5 DEF Quiet
<1>18. ASSUME l'.pc \in {"prepare", "jobs", "job", "begun", "running", "tally"},
              l.pc \in {"start", "prepare", "jobs", "job", "begun", "running"}, ~RunThrows(m),
              announced' = announced, status'[r] \in Unfinished, Rows(w', l')
       PROVE  Goal
  BY <1>16, <1>17, <1>18 DEF Standing
<1>4. CASE MarkStarting(m) /\ ~RunThrows(m)
  <2>1. l.pc = "start" /\ l'.pc = "prepare" /\ status'[r] = "starting" /\ UNCHANGED <<rows, announced>>
    BY <1>1, <1>2, <1>4 DEF MarkStarting, At, Goto, SetStatus, LoopState
  <2>2. QED
    BY <1>2, <1>4, <1>18, <2>1 DEF Rows, Unfinished
<1>5. CASE Prepare(m) /\ ~RunThrows(m)
  <2>1. l.pc = "prepare" /\ l'.pc = "jobs" /\ UNCHANGED <<status, rows, announced>>
        /\ l'.pending = {j \in Job : w[j] # "absent"}
    BY <1>1, <1>2, <1>5 DEF Prepare, At, LoopState
  <2>2. status[r] \in Unfinished
    BY <1>16, <2>1
  <2>3. QED
    BY <1>2, <1>5, <1>18, <2>1, <2>2 DEF Rows, Fresh, Worked
<1>6. CASE NextJob(m) /\ ~RunThrows(m)
  <2>1. l.pc = "jobs" /\ UNCHANGED <<status, rows, announced>> /\ status[r] \in Unfinished /\ ~l.caught
    BY <1>6, <1>16 DEF NextJob, At
  <2>2. CASE l.pending = {}
    <3>1. l'.pc = "tally"
      BY <1>1, <1>6, <2>2 DEF NextJob, Goto, LoopState
    <3>2. QED
      BY <1>2, <1>6, <1>18, <2>1, <2>2, <3>1 DEF Rows, Worked
  <2>3. CASE l.pending # {} /\ r \in requested
    <3>1. l'.pc = "list" /\ l'.verdict = "cancelled"
      <4>1. loop' = [loop EXCEPT ![m].pc = "list", ![m].markAs = "cancelled",
                                 ![m].verdict = "cancelled"]
        BY <1>2, <1>6, <2>3 DEF NextJob
      <4>2. QED
        BY <1>1, <4>1 DEF LoopState
    <3>2. QED
      <4>1. l'.caught = l.caught /\ thrown' = thrown
        BY <1>6, <1>17
      <4>2. \A j \in Job : w[j] # "running"
        BY <1>2, <2>1 DEF Rows, Worked, TerminalStatus
      <4>3. QED
        BY <2>1, <3>1, <4>1, <4>2 DEF Rows, Standing
  <2>4. CASE l.pending # {} /\ r \notin requested
    <3>1. PICK j \in l.pending :
            loop' = [loop EXCEPT ![m].pc = "job", ![m].job = j, ![m].pending = @ \ {j}]
      BY <1>2, <1>6, <2>4 DEF NextJob
    <3>2. l'.pc = "job" /\ l'.job = j /\ l'.pending = l.pending \ {j} /\ j \in Job
      BY <1>1, <3>1 DEF LoopState
    <3>3. QED
      BY <1>2, <1>6, <1>18, <2>1, <3>2 DEF Rows, Worked
  <2>5. QED
    BY <2>2, <2>3, <2>4
<1>7. ASSUME NEW s \in TerminalStatus, SettleJobUnstarted(m, s) \/ FinishJob(m, s), ~RunThrows(m)
      PROVE  Goal
  <2>1. /\ l.pc \in {"job", "running"} /\ l'.pc = "jobs" /\ l'.pending = l.pending
        /\ w' = [w EXCEPT ![l.job] = s] /\ UNCHANGED <<status, announced>>
    BY <1>1, <1>2, <1>7 DEF SettleJobUnstarted, FinishJob, At, Goto, LoopState
  <2>2. status[r] \in Unfinished
    BY <1>16, <2>1
  <2>3. l.job \in Job \ l.pending /\ Worked(w, l, {l.job})
    BY <1>2, <2>1 DEF Rows
  <2>4. Worked(w', l', {})
    BY <1>1, <2>1, <2>3 DEF Worked
  <2>5. Rows(w', l')
    BY <2>1, <2>4 DEF Rows
  <2>6. QED
    BY <1>7, <1>18, <2>1, <2>2, <2>5
<1>8. CASE StartJobRow(m) /\ ~RunThrows(m)
  <2>1. /\ l.pc = "job" /\ l'.pc = "begun" /\ l'.pending = l.pending /\ l'.job = l.job
        /\ w' = [w EXCEPT ![l.job] = "running"] /\ UNCHANGED <<status, announced>>
    BY <1>1, <1>2, <1>8 DEF StartJobRow, At, Goto, LoopState
  <2>2. status[r] \in Unfinished
    BY <1>16, <2>1
  <2>3. l.job \in Job \ l.pending /\ Worked(w, l, {l.job})
    BY <1>2, <2>1 DEF Rows
  <2>4. Worked(w', l', {l'.job}) /\ w'[l'.job] = "running"
    BY <1>1, <2>1, <2>3 DEF Worked
  <2>5. QED
    BY <1>8, <1>18, <2>1, <2>2, <2>3, <2>4 DEF Rows
<1>9. CASE MarkRunning(m) /\ ~RunThrows(m)
  <2>1. /\ l.pc \in {"begun", "running"} /\ l'.pc = "running" /\ l'.pending = l.pending
        /\ l'.job = l.job /\ w' = w /\ announced' = announced /\ status'[r] = "running"
    BY <1>1, <1>2, <1>9 DEF MarkRunning, Goto, SetStatus, LoopState
  <2>2. QED
    BY <1>2, <1>9, <1>18, <2>1 DEF Rows, Worked, Unfinished
<1>10. CASE RunThrows(m)
  <2>1. /\ ~l.caught /\ l'.pc = "list" /\ l'.caught
        /\ UNCHANGED <<status, rows, announced>>
        /\ l'.verdict \in {"failed", "cancelled"}
    BY <1>1, <1>10 DEF RunThrows, LoopState
  <2>2. r \in thrown'
    BY <1>2, <1>10 DEF RunThrows
  <2>3. status[r] \in RunStatus \ {"absent"}
    <3>1. l.pc = "announce" => l.verdict \in TerminalStatus
      BY <1>1 DEF Sound
    <3>2. QED
      BY <1>1, <1>16, <2>1, <3>1 DEF Standing, Unfinished, RunStatus, TerminalStatus
  <2>4. QED
    BY <2>1, <2>2, <2>3 DEF Rows, Standing
<1>11. CASE Tally(m) /\ ~RunThrows(m)
  <2> DEFINE seen == {rows[loop[m].run][j] : j \in Job}
  <2>1. /\ l.pc = "tally" /\ UNCHANGED <<status, rows, announced>>
        /\ l'.pc = IF seen \cap {"failed", "cancelled"} # {} THEN "list" ELSE "write"
        /\ l'.markAs = IF "failed" \in seen THEN "skipped" ELSE "cancelled"
        /\ l'.verdict = IF "failed" \in seen THEN "failed"
                        ELSE IF "cancelled" \in seen THEN "cancelled"
                        ELSE IF seen \subseteq {"skipped"} THEN "skipped" ELSE "success"
    <3> DEFINE next == IF seen \cap {"failed", "cancelled"} # {} THEN "list" ELSE "write"
               as == IF "failed" \in seen THEN "skipped" ELSE "cancelled"
               judged == IF "failed" \in seen THEN "failed"
                         ELSE IF "cancelled" \in seen THEN "cancelled"
                         ELSE IF seen \subseteq {"skipped"} THEN "skipped" ELSE "success"
    <3>1. /\ l.pc = "tally" /\ UNCHANGED <<status, rows, announced>>
          /\ loop' = [loop EXCEPT ![m].pc = next, ![m].markAs = as, ![m].verdict = judged]
      BY <1>11 DEF Tally, At
    <3> HIDE DEF next, as, judged
    <3>2. l'.pc = next /\ l'.markAs = as /\ l'.verdict = judged
      BY <1>1, <3>1 DEF LoopState
    <3>3. QED
      BY <3>1, <3>2 DEF next, as, judged
  <2>2. /\ status[r] \in Unfinished /\ ~l.caught
        /\ l'.caught = l.caught /\ thrown' = thrown
    BY <1>11, <1>16, <1>17, <2>1
  <2>3. \A j \in Job : w[j] \in TerminalStatus
    BY <1>2, <2>1 DEF Rows
  <2>4. CASE "failed" \in seen \/ "cancelled" \in seen
    <3>1. l'.pc = "list" /\ l'.verdict \in {"failed", "cancelled"}
      BY <2>1, <2>4
    <3>2. l'.verdict = "failed" => \E j \in Job : w[j] = "failed"
      BY <2>1
    <3>3. \A j \in Job : w[j] # "running"
      BY <2>3 DEF TerminalStatus
    <3>4. QED
      BY <2>1, <2>2, <3>1, <3>2, <3>3 DEF Rows, Standing
  <2>5. CASE "failed" \notin seen /\ "cancelled" \notin seen
    <3>1. l'.pc = "write" /\ l'.verdict \in {"skipped", "success"}
      BY <2>1, <2>5
    <3>2. \A j \in Job : w[j] \in {"success", "skipped"}
      BY <2>3, <2>5 DEF TerminalStatus
    <3>3. BornOut(w, l'.verdict, l'.caught)
      BY <3>1, <3>2 DEF BornOut
    <3>4. QED
      BY <2>1, <2>2, <3>1, <3>3 DEF Rows, Standing
  <2>6. QED
    BY <2>4, <2>5
<1>12. CASE ListQueued(m) /\ ~RunThrows(m)
  <2>1. /\ l.pc = "list" /\ l'.pc = "mark" /\ l'.verdict = l.verdict /\ l'.markAs = l.markAs
        /\ l'.marks = {j \in Job : w[j] = "queued"}
        /\ UNCHANGED <<status, rows, announced>>
    BY <1>1, <1>2, <1>12 DEF ListQueued, At, LoopState
  <2>2. l'.caught = l.caught /\ thrown' = thrown
    BY <1>12, <1>17
  <2>3. status[r] \in Standing(l')
    BY <1>16, <2>1, <2>2 DEF Standing
  <2>4. QED
    BY <1>2, <1>16, <2>1, <2>2, <2>3 DEF Rows
<1>13. ASSUME NEW j \in Job, MarkQueued(m, j), ~RunThrows(m) PROVE Goal
  <2>1. /\ l.pc = "mark" /\ l'.pc = "mark" /\ l'.verdict = l.verdict /\ l'.markAs = l.markAs
        /\ l'.marks = l.marks \ {j} /\ j \in l.marks
        /\ w' = [w EXCEPT ![j] = l.markAs] /\ UNCHANGED <<status, announced>>
    BY <1>1, <1>2, <1>13 DEF MarkQueued, At, LoopState
  <2>2. l'.caught = l.caught /\ thrown' = thrown
    BY <1>13, <1>17
  <2>3. l.markAs # "queued" /\ l.markAs # "running"
    BY <1>1, <2>1 DEF Sound, TerminalStatus
  <2>4. l'.marks = {i \in Job : w'[i] = "queued"}
    BY <1>1, <1>2, <2>1, <2>3 DEF Rows
  <2>5. w[j] = "queued" /\ j \in Job
    BY <1>2, <2>1 DEF Rows
  <2>6. ~l.caught /\ l.verdict = "failed" => \E i \in Job : w'[i] = "failed"
    BY <1>1, <1>2, <2>1, <2>5 DEF Rows
  <2>7. ~l.caught => \A i \in Job : w'[i] # "running"
    BY <1>1, <1>2, <2>1, <2>3 DEF Rows
  <2>8. Rows(w', l')
    BY <1>2, <2>1, <2>2, <2>4, <2>6, <2>7 DEF Rows
  <2>9. status'[r] \in Standing(l')
    BY <1>16, <2>1, <2>2 DEF Standing
  <2>10. QED
    BY <1>16, <2>1, <2>2, <2>8, <2>9
<1>14. CASE WriteVerdict(m) /\ ~RunThrows(m)
  <2>1. /\ l.pc = "write" \/ (l.pc = "mark" /\ l.marks = {})
        /\ l'.pc = "announce" /\ l'.verdict = l.verdict /\ status'[r] = l.verdict
        /\ UNCHANGED <<rows, announced>>
    BY <1>1, <1>2, <1>14 DEF WriteVerdict, At, Goto, SetStatus, LoopState
  <2>2. l'.caught = l.caught /\ thrown' = thrown
    BY <1>14, <1>17
  <2>3. BornOut(w, l.verdict, l.caught)
    <3>1. CASE l.pc = "write"
      BY <1>2, <3>1 DEF Rows
    <3>2. CASE l.pc = "mark" /\ l.marks = {}
      BY <1>2, <3>2 DEF Rows, BornOut
    <3>3. QED
      BY <2>1, <3>1, <3>2
  <2>4. QED
    BY <1>16, <2>1, <2>2, <2>3 DEF Rows, Standing
<1>15. QED
  BY <1>4, <1>5, <1>6, <1>7, <1>8, <1>9, <1>10, <1>11, <1>12, <1>13, <1>14 DEF Quiet

LEMMA QuietTraced ==
  ASSUME IInv, IInv', TracedInv, NEW m \in Run, Quiet(m)
  PROVE  TracedInv'
<1> USE DEF storage, caller, history
<1>1. /\ Live(m) /\ loop'[m].run = loop[m].run
      /\ \A n \in Run \ {m} : loop'[n] = loop[n]
      /\ \A x \in Run \ {loop[m].run} : status'[x] = status[x]
  BY QuietRun DEF Quiet
<1>2. \A n \in Run \ {m} : ~Live(n) /\ ~Live(n)'
  BY <1>1, OnlyOneLive DEF Live
<1>3. /\ UNCHANGED <<submit, rivals, cancel, queue, processing, requested>>
      /\ UNCHANGED <<passive, stranded, contexts, announced>>
      /\ \A x \in Run \ {loop[m].run} : x \in thrown' <=> x \in thrown
  BY DEF Quiet, MarkStarting, NextJob, StartJobRow, MarkRunning, SettleJobUnstarted, FinishJob,
         RunThrows, Tally, ListQueued, WriteVerdict, MarkQueued, Prepare
<1>4. \A x \in Run \ {loop[m].run} : rows'[x] = rows[x]
  BY ZenonT(30) DEF Quiet, MarkStarting, NextJob, StartJobRow, MarkRunning, SettleJobUnstarted, FinishJob,
         RunThrows, Tally, ListQueued, WriteVerdict, MarkQueued, Prepare, IInv, TypeOK
<1>5. Live(m)'
  <2>1. processing' = TRUE
    BY <1>1, <1>3 DEF IInv, Guard
  <2>2. QED
    BY <1>2, <2>1 DEF IInv, Guard
<1>6. Placed'
  BY <1>1, <1>2, <1>3, KeepsPlaced DEF TracedInv
<1>7. \A x : InQueue(x)' <=> InQueue(x)
  BY <1>3 DEF InQueue
<1>8. ASSUME NEW x \in Run \ passive', x # loop[m].run PROVE Traced(x)'
  <2>1. \A n \in Run : ~Holds(n, x) /\ ~Holds(n, x)'
    BY <1>1, <1>2, <1>8 DEF Holds, Live
  <2>2. QED
    BY <1>1, <1>3, <1>4, <1>7, <1>8, <2>1, Unconcerned DEF TracedInv
<1>9. ASSUME NEW x \in Run \ passive', x = loop[m].run PROVE Traced(x)'
  <2>1. Traced(x) /\ Holds(m, x) /\ Holds(m, x)'
    BY <1>1, <1>3, <1>5, <1>9 DEF TracedInv, Holds, Live
  <2>2. InHand(x, loop[m])'
    BY <1>9, <2>1, QuietInHand DEF Traced
  <2>3. submit'[x] = "pushed" /\ ~InQueue(x)'
    <3>1. submit[x] = "pushed" /\ ~InQueue(x)
      BY <1>1, <1>9 DEF TracedInv, Placed
    <3>2. QED
      BY <1>3, <1>7, <3>1
  <2>4. \A n \in Run : Holds(n, x)' => n = m
    BY <1>2 DEF Holds, Live
  <2>5. QED
    BY <2>1, <2>2, <2>3, <2>4 DEF Traced
<1>10. QED
  BY <1>6, <1>8, <1>9 DEF TracedInv

\* Going back to the head of the loop concerns the run that was in hand and the
\* one that comes next; the latter was waiting in the queue.
LEMMA TakeNextTraced ==
  ASSUME IInv, TracedInv, NEW m \in Run, Live(m) \/ processing = FALSE, TakeNext(m),
         UNCHANGED <<submit, cancel, passive, stranded>>,
         NEW x \in Run \ passive, ~Holds(m, x),
         status'[x] = status[x], rows'[x] = rows[x], announced'[x] = announced[x],
         x \in contexts' => x \in contexts, x \in thrown' <=> x \in thrown
  PROVE  Traced(x)'
<1>1. Placed /\ Traced(x)
  BY DEF TracedInv
<1>2. \A n \in Run : ~Holds(n, x)
  BY OnlyOneLive DEF Holds, Live
<1>3. CASE (\A n \in Run : ~Live(n)') /\ queue' = queue
  <2>1. (InQueue(x)' <=> InQueue(x)) /\ \A n \in Run : ~Holds(n, x)'
    BY <1>3 DEF InQueue, Holds, Live
  <2>2. QED
    BY <1>1, <1>2, <2>1, Unconcerned
<1>4. ASSUME NEW h \in Run, InQueue(h),
             \A y : InQueue(y)' <=> InQueue(y) /\ y # h,
             loop'[m] = [IdleLoop EXCEPT !.pc = "poll", !.run = h],
             \A n \in Run \ {m} : ~Live(n)'
      PROVE  Traced(x)'
  <2>1. loop'[m].pc = "poll" /\ loop'[m].run = h /\ ~loop'[m].caught
    BY <1>4 DEF IdleLoop
  <2>2. CASE x # h
    <3>1. \A n \in Run : ~Holds(n, x)'
      BY <1>4, <2>1, <2>2 DEF Holds, Live
    <3>2. InQueue(x)' <=> InQueue(x)
      BY <1>4, <2>2
    <3>3. QED
      BY <1>1, <1>2, <3>1, <3>2, Unconcerned
  <2>3. CASE x = h
    <3>1. submit[x] = "pushed"
      BY <1>1, <1>4, <2>3 DEF InQueue, Placed
    <3>2. announced[x] = <<>> /\ status[x] = "queued" /\ Fresh(rows[x])
      BY <1>1, <1>4, <2>3 DEF Traced
    <3>3. Rows(rows[x], loop'[m])
      BY <2>1, <3>2 DEF Rows
    <3>4. InHand(x, loop[m])'
      BY <2>1, <3>2, <3>3 DEF InHand, Standing, Unfinished
    <3>5. Holds(m, x)' /\ \A n \in Run : Holds(n, x)' => n = m
      BY <1>4, <2>1, <2>3 DEF Holds, Live, LivePc
    <3>6. ~InQueue(x)'
      BY <1>4, <2>3
    <3>7. QED
      BY <3>1, <3>4, <3>5, <3>6 DEF Traced
  <2>4. QED
    BY <2>2, <2>3
<1>5. QED
  BY <1>1, <1>3, <1>4, HeadPlaced

LEMMA HeadTraced ==
  ASSUME IInv, TracedInv, NEW m \in Run,
         StartLoop(m) \/ Poll(m) \/ ReadAgain(m) \/ EndRun(m)
  PROVE  TracedInv'
<1> USE DEF storage, caller, history
<1>1. /\ Placed /\ loop \in [Run -> LoopState] /\ Sound(loop[m])
      /\ announced \in [Run -> Seq(TerminalStatus)]
  BY DEF TracedInv, IInv, TypeOK, Shape
<1>2. UNCHANGED <<submit, cancel, passive, stranded, thrown>>
  BY DEF StartLoop, Poll, ReadAgain, EndRun
<1>3. ASSUME Goto(m, "ended"), ~Live(m), UNCHANGED <<storage, queue, contexts>>
      PROVE  TracedInv'
  <2>1. loop'[m].pc = "ended" /\ \A n \in Run \ {m} : loop'[n] = loop[n]
    BY <1>1, <1>3 DEF Goto, LoopState
  <2>2. \A n \in Run : Live(n)' => Live(n) /\ loop'[n] = loop[n]
    BY <2>1 DEF Live, LivePc
  <2>3. Placed'
    BY <1>1, <1>2, <1>3, <2>2, KeepsPlaced
  <2>4. \A x, n \in Run : /\ Holds(n, x)' => Holds(n, x) /\ loop'[n] = loop[n]
                          /\ Holds(n, x) => Holds(n, x)'
    BY <1>3, <2>1, <2>2 DEF Holds, Live
  <2>5. \A x : InQueue(x)' <=> InQueue(x)
    BY <1>3 DEF InQueue
  <2>6. ASSUME NEW x \in Run \ passive' PROVE Traced(x)'
    BY <1>1, <1>2, <1>3, <2>4, <2>5, Unconcerned DEF TracedInv
  <2>7. QED
    BY <2>3, <2>6 DEF TracedInv
<1>4. ASSUME NEW pc \in {"exec", "start"}, loop[m].pc \in {"poll", "exec"}, Goto(m, pc),
             UNCHANGED <<storage, queue, contexts>>
      PROVE  TracedInv'
  <2>1. /\ loop'[m].pc = pc /\ loop'[m].run = loop[m].run
        /\ \A n \in Run \ {m} : loop'[n] = loop[n]
    BY <1>1, <1>4 DEF Goto, LoopState
  <2>2. \A n \in Run : /\ Live(n)' <=> Live(n)
                       /\ loop'[n].run = loop[n].run
    BY <1>4, <2>1 DEF Live, LivePc
  <2>3. Placed'
    BY <1>1, <1>2, <1>4, <2>2, KeepsPlaced
  <2>4. \A x, n \in Run : Holds(n, x)' <=> Holds(n, x)
    BY <2>2 DEF Holds, Live
  <2>5. \A x : InQueue(x)' <=> InQueue(x)
    BY <1>4 DEF InQueue
  <2>6. ASSUME NEW x \in Run \ passive' PROVE Traced(x)'
    <3>1. Traced(x)
      BY <1>2 DEF TracedInv
    <3>2. CASE ~Holds(m, x)
      <4>1. \A n \in Run : Holds(n, x)' => Holds(n, x) /\ loop'[n] = loop[n]
        BY <2>1, <2>4, <3>2
      <4>2. QED
        BY <1>1, <1>2, <1>4, <2>4, <2>5, <3>1, <4>1, Unconcerned
    <3>3. CASE Holds(m, x)
      <4>1. InHand(x, loop[m])
        BY <3>1, <3>3 DEF Traced
      <4>2. status[x] = "queued" /\ Fresh(rows[x]) /\ announced[x] = <<>>
        BY <1>4, <4>1 DEF InHand, Rows
      <4>3. Rows(rows[x], loop'[m])
        BY <2>1, <4>2 DEF Rows
      <4>4. InHand(x, loop[m])'
        <5>1. ~loop[m].caught /\ loop'[m].caught = loop[m].caught
          BY <1>1, <1>4 DEF Sound, Goto, LoopState
        <5>2. QED
          BY <1>4, <2>1, <4>2, <4>3, <5>1 DEF InHand, Standing, Unfinished
      <4>5. \A n \in Run : Holds(n, x)' => n = m
        BY <2>4, <3>3 DEF Holds, IInv, Guard, Live
      <4>6. submit[x] = "pushed" /\ ~InQueue(x)
        BY <1>1, <3>3 DEF Placed, Holds, Live
      <4>7. QED
        BY <1>2, <2>4, <2>5, <3>3, <4>4, <4>5, <4>6 DEF Traced
    <3>4. QED
      BY <3>2, <3>3
  <2>7. QED
    BY <2>3, <2>6 DEF TracedInv
<1>5. ASSUME TakeNext(m), Live(m) \/ processing = FALSE, UNCHANGED <<storage, contexts>>,
             \A x \in Run \ passive : ~Holds(m, x)
      PROVE  TracedInv'
  <2>1. Placed'
    BY <1>1, <1>2, <1>5, HeadPlaced
  <2>2. QED
    BY <1>2, <1>5, <2>1, TakeNextTraced DEF TracedInv
<1>6. CASE StartLoop(m)
  <2>1. loop[m].pc = "scheduled" /\ ~Live(m) /\ UNCHANGED <<storage, contexts>>
    BY <1>6 DEF StartLoop, At, Live, LivePc
  <2>2. CASE ~processing /\ TakeNext(m)
    <3>1. processing = FALSE
      BY <2>2 DEF IInv, TypeOK
    <3>2. QED
      BY <1>5, <2>1, <2>2, <3>1 DEF Holds, Live
  <2>3. CASE processing /\ Goto(m, "ended") /\ UNCHANGED <<queue, processing>>
    BY <1>3, <2>1, <2>3
  <2>4. QED
    BY <1>6, <2>2, <2>3 DEF StartLoop
<1>7. CASE Poll(m) \/ ReadAgain(m)
  <2>1. /\ loop[m].pc \in {"poll", "exec"} /\ Live(m)
        /\ UNCHANGED <<storage, contexts>>
    BY <1>7 DEF Poll, ReadAgain, At, Live, LivePc
  <2>2. CASE Terminal(loop[m].run) /\ TakeNext(m)
    <3>1. ASSUME NEW x \in Run \ passive, Holds(m, x) PROVE FALSE
      <4>1. status[x] = "queued"
        BY <2>1, <3>1 DEF TracedInv, Traced, InHand
      <4>2. QED
        BY <2>2, <3>1, <4>1 DEF Holds, Terminal, TerminalStatus
    <3>2. QED
      BY <1>5, <2>1, <2>2, <3>1
  <2>3. CASE (Goto(m, "exec") \/ Goto(m, "start")) /\ UNCHANGED <<queue, processing>>
    BY <1>4, <2>1, <2>3
  <2>4. QED
    BY <1>7, <2>2, <2>3 DEF Poll, ReadAgain
<1>8. CASE EndRun(m)
  <2>1. /\ loop[m].pc = "announce" /\ Live(m) /\ TakeNext(m) /\ UNCHANGED <<status, rows>>
        /\ announced' = [announced EXCEPT ![loop[m].run] = Append(@, loop[m].verdict)]
        /\ contexts' = contexts \ {loop[m].run}
    BY <1>8 DEF EndRun, At, Live, LivePc, Announce
  <2>2. Placed'
    BY <1>1, <1>2, <2>1, HeadPlaced
  <2>3. loop[m].run \in Run /\ loop[m].verdict \in TerminalStatus
    BY <1>1, <2>1 DEF Sound, Live
  <2>4. ASSUME NEW x \in Run \ passive', x # loop[m].run PROVE Traced(x)'
    <3>1. announced'[x] = announced[x] /\ (x \in contexts' => x \in contexts) /\ ~Holds(m, x)
      BY <1>1, <2>1, <2>4 DEF Holds
    <3>2. QED
      BY <1>2, <2>1, <2>4, <3>1, TakeNextTraced
  <2>5. ASSUME NEW x \in Run \ passive', x = loop[m].run PROVE Traced(x)'
    <3>1. InHand(x, loop[m])
      BY <1>2, <2>1, <2>5 DEF TracedInv, Traced, Holds, Live
    <3>2. announced[x] = <<>> /\ status[x] = loop[m].verdict /\ BornOut(rows[x], status[x], x \in thrown)
      BY <2>1, <3>1 DEF InHand, Standing, Rows, BornOut
    <3>3. announced'[x] = <<status[x]>>
      BY <1>1, <2>1, <2>5, <3>2
    <3>4. Concluded(x)'
      BY <1>2, <2>1, <2>3, <2>5, <3>2, <3>3 DEF Concluded, Terminal
    <3>5. submit[x] = "pushed" /\ ~InQueue(x)
      BY <1>1, <2>1, <2>5 DEF Placed
    <3>6. ~InQueue(x)' /\ \A n \in Run : ~Holds(n, x)'
      <4>1. CASE (\A n \in Run : ~Live(n)') /\ queue' = queue
        BY <3>5, <4>1 DEF InQueue, Holds, Live
      <4>2. ASSUME NEW h \in Run, InQueue(h),
                   \A y : InQueue(y)' <=> InQueue(y) /\ y # h,
                   loop'[m] = [IdleLoop EXCEPT !.pc = "poll", !.run = h],
                   \A n \in Run \ {m} : ~Live(n)'
            PROVE  ~InQueue(x)' /\ \A n \in Run : ~Holds(n, x)'
        <5>1. x # h /\ ~InQueue(x)'
          BY <3>5, <4>2
        <5>2. loop'[m].run = h
          BY <4>2 DEF IdleLoop
        <5>3. QED
          BY <4>2, <5>1, <5>2 DEF Holds, Live
      <4>3. QED
        BY <1>1, <1>2, <2>1, <4>1, <4>2, HeadPlaced
    <3>7. QED
      BY <1>2, <3>4, <3>5, <3>6 DEF Traced
  <2>6. QED
    BY <2>2, <2>4, <2>5 DEF TracedInv
<1>9. QED
  BY <1>6, <1>7, <1>8

LEMMA DeathTraced ==
  ASSUME IInv, TracedInv, NEW m \in Run, PrepareThrows(m) \/ HandlerThrows(m)
  PROVE  TracedInv'
<1> USE DEF storage, caller
<1>1. /\ UNCHANGED <<status, rows, announced, submit, cancel, queue, passive, thrown>>
      /\ contexts' \subseteq contexts
      /\ stranded \cup {loop[m].run} \subseteq stranded'
  BY DEF PrepareThrows, HandlerThrows
<1>2. Live(m)
  BY DEF PrepareThrows, HandlerThrows, Live, LivePc, IInv, Shape, Sound
<1>3. loop'[m].pc = "ended" /\ \A n \in Run \ {m} : loop'[n] = loop[n]
  BY DEF PrepareThrows, HandlerThrows, IdleLoop, IInv, TypeOK
<1>4. \A n \in Run : ~Live(n)'
  BY <1>2, <1>3, OnlyOneLive DEF Live, LivePc
<1>5. Placed'
  BY <1>1, <1>4, KeepsPlaced DEF TracedInv
<1>6. /\ \A x : InQueue(x)' <=> InQueue(x)
      /\ \A n, x \in Run : ~Holds(n, x)'
  BY <1>1, <1>4 DEF InQueue, Holds, Live
<1>7. ASSUME NEW x \in Run \ passive', x # loop[m].run PROVE Traced(x)'
  <2>1. \A n \in Run : ~Holds(n, x)
    BY <1>2, <1>7, OnlyOneLive DEF Holds, Live
  <2>2. QED
    BY <1>1, <1>6, <1>7, <2>1, Unconcerned DEF TracedInv
<1>8. ASSUME NEW x \in Run \ passive', x = loop[m].run PROVE Traced(x)'
  <2>1. x \in stranded' /\ submit[x] = "pushed" /\ ~InQueue(x)
    BY <1>1, <1>2, <1>8 DEF TracedInv, Placed
  <2>2. QED
    BY <1>1, <1>6, <2>1 DEF Traced
<1>9. QED
  BY <1>5, <1>7, <1>8 DEF TracedInv

-----------------------------------------------------------------------------
LEMMA TracedHolds == Spec => []TracedInv
<1>1. Init => TracedInv
  <2> SUFFICES ASSUME Init PROVE TracedInv
    OBVIOUS
  <2>1. queue = <<>> /\ \A m \in Run : ~Live(m)
    BY DEF Init, IdleLoop, Live, LivePc
  <2>2. Placed
    BY <2>1 DEF Init, Placed, IdleCancel
  <2>3. \A r \in Run : Traced(r)
    BY <2>1 DEF Init, Traced, InQueue, Holds, Live
  <2>4. QED
    BY <2>2, <2>3 DEF TracedInv
<1>2. IInv /\ IInv' /\ TracedInv /\ [Next]_vars => TracedInv'
  <2> SUFFICES ASSUME IInv, IInv', TracedInv, [Next]_vars PROVE TracedInv'
    OBVIOUS
  <2>1. ASSUME NEW r \in Run, Submitter(r) \/ SubmitFails(r) PROVE TracedInv'
    <3>1. Placed'
      BY <2>1, SubmitPlaced DEF TracedInv
    <3>2. QED
      BY <2>1, <3>1, SubmitTraced DEF TracedInv
  <2>2. ASSUME NEW p \in Canceller, CancelCall(p) \/ \E r \in Run : CancelReads(p, r)
        PROVE  TracedInv'
    <3>1. Placed'
      BY <2>2, CancelPlaced DEF TracedInv
    <3>2. QED
      BY <2>2, <3>1, CancelTraced DEF TracedInv
  <2>3. ASSUME NEW m \in Run,
               \/ Advance(m) \/ MarkRunning(m)
               \/ PrepareThrows(m) \/ RunThrows(m) \/ HandlerThrows(m)
        PROVE  TracedInv'
    BY <2>3, QuietTraced, HeadTraced, DeathTraced DEF Advance, Quiet
  <2>4. CASE Crash
    <3>1. Placed'
      BY <2>4, CrashPlaced DEF TracedInv
    <3>2. QED
      BY <2>4, <3>1, CrashTraced DEF TracedInv
  <2>5. CASE UNCHANGED vars
    <3>1. UNCHANGED vars
      BY <2>5
    <3>2. Placed'
      BY <3>1, KeepsPlaced DEF vars, TracedInv, Live
    <3>3. ASSUME NEW x \in Run \ passive' PROVE Traced(x)'
      <4>1. (InQueue(x)' <=> InQueue(x)) /\ \A n \in Run : Holds(n, x)' <=> Holds(n, x)
        BY <3>1 DEF vars, InQueue, Holds
      <4>2. QED
        BY <3>1, <4>1, Unconcerned DEF vars, TracedInv
    <3>4. QED
      BY <3>2, <3>3 DEF TracedInv
  <2>6. QED
    BY <2>1, <2>2, <2>3, <2>4, <2>5 DEF Next
<1>3. QED
  BY <1>1, <1>2, Invariance, PTL DEF Spec

LEMMA SettledIsConcluded ==
  ASSUME IInv, TracedInv, NEW r \in Run \ (passive \cup stranded), Settled(r)
  PROVE  Concluded(r) /\ r \notin active
<1>1. ~InQueue(r) /\ \A m \in Run : ~Holds(m, r)
  BY DEF Settled, InQueue
<1>2. Concluded(r)
  BY <1>1 DEF TracedInv, Traced, Settled
<1>3. r \notin active
  BY <1>1 DEF IInv, Guard, Holds, RegisteredPc
<1>4. QED
  BY <1>2, <1>3

\* A run that every cancellation found registered, or that none was asked for,
\* and that no failure left behind ends with exactly one terminal event, and
\* the event carries the stored status (finalizeRun, runtime_support.ts:245-269).
THEOREM AnnouncedOnceHolds == Spec => []AnnouncedOnce
<1>1. IInv /\ TracedInv => AnnouncedOnce
  BY SettledIsConcluded DEF AnnouncedOnce, Concluded
<1>2. QED
  BY <1>1, Invariance, TracedHolds, PTL

\* Of such a run no secrets and no state object are left, no row is queued, a
\* success is borne out by its rows, and unless a call in the try block threw no
\* row is running and a failure has a failed row (executeRun and its handler,
\* run/execute.ts:120-198), wherever in the run the exception came.
THEOREM CleanRunLeavesNothingHolds == Spec => []CleanRunLeavesNothing
<1>1. IInv /\ TracedInv => CleanRunLeavesNothing
  BY SettledIsConcluded DEF CleanRunLeavesNothing, Concluded, BornOut
<1>2. QED
  BY <1>1, Invariance, TracedHolds, PTL
===============================================================================
