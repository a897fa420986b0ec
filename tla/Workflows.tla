------------------------------- MODULE Workflows -------------------------------
(***************************************************************************)
(* Workflow definitions: what a file becomes when it is normalized, which  *)
(* triggers it matches, and what jobs are planned for a run of it.         *)
(*                                                                         *)
(* A file is a record of what the code tells apart.  parses: it is YAML    *)
(* with an object at its root; on: absent, one trigger or a list of them,  *)
(* or an object with filters of its own; source: the filters of the older  *)
(* format.  Names, steps and environments are left out.                    *)
(***************************************************************************)
EXTENDS Integers, Sequences, FiniteSets

\* Branch and tag names, and the only pattern besides them; no branch is "".
Filter(names) == [branches : SUBSET names, tags : SUBSET {"v1", "*"}]
Anything == [branches |-> {}, tags |-> {}]
NoTrigger == [branches |-> {"none"}, tags |-> {}]

\* matchRefPattern, of names and of the star, which matches the empty name, too.
MatchRef(name, patterns) == "*" \in patterns \/ name \in patterns

-----------------------------------------------------------------------------
(* normalizeWorkflowRecord.                                                *)

\* normalizeJobs leaves out a job without runs-on or without a runnable step; the
\* steps of the older format are one job.
Jobs(file) ==
  LET whole == {j \in DOMAIN file.jobs : file.jobs[j].complete} IN
  IF whole # {} THEN [j \in whole |-> file.jobs[j]]
  ELSE [j \in (IF file.steps THEN {"default"} ELSE {}) |->
          [complete |-> TRUE, supported |-> TRUE, needs |-> {}, matrix |-> {}, include |-> {}]]

\* loadYaml, the check of the root, validateJobs: a needed job that normalization
\* has dropped is unknown, a cycle is not looked for yet.
Valid(file) ==
  LET jobs == Jobs(file) IN
  /\ file.parses /\ jobs # << >>
  /\ \A j \in DOMAIN jobs : jobs[j].needs \subseteq DOMAIN jobs /\ jobs[j].supported

\* normalizeMatrix leaves out a name without values; a name is there once.
Axes(matrix) ==
  \A x \in matrix : x.values # {} /\ \A y \in matrix : y.key = x.key => y = x

\* normalizeTriggers: trigger and source count only where on does not.
OnPush(file) ==
  CASE file.on \in {"push", "both"} -> file.source
    [] file.on = "object" -> file.onPush
    [] file.on = "absent" /\ file.trigger = "push" -> file.source
    [] OTHER -> NoTrigger
OnDispatch(file) ==
  \/ file.on \in {"dispatch", "both"}
  \/ file.on = "object" /\ file.onDispatch
  \/ file.on = "absent" /\ file.trigger = "manual"

\* firstTriggerKind
Trigger(file) ==
  IF OnPush(file) # NoTrigger THEN "push" ELSE IF OnDispatch(file) THEN "manual" ELSE file.trigger

\* The push part of matchesWorkflowTrigger: each filter falls back on that of
\* source, an empty one lets all pass.
MatchesPush(file, branch, tag) ==
  LET push == OnPush(file)
      branches == IF push # NoTrigger /\ push.branches # {} THEN push.branches ELSE file.source.branches
      tags == IF push # NoTrigger /\ push.tags # {} THEN push.tags ELSE file.source.tags IN
  /\ push # NoTrigger \/ Trigger(file) = "push"
  /\ branches = {} \/ MatchRef(branch, branches)
  /\ tags = {} \/ MatchRef(tag, tags)

Matches(file, kind, branch, tag) ==
  /\ file.enabled
  /\ CASE kind = "manual" -> OnDispatch(file) \/ Trigger(file) = "manual"
       [] kind = "push" -> MatchesPush(file, branch, tag)
       [] OTHER -> Trigger(file) = kind

\* runWorkflow asks for less: a workflow that is disabled can be dispatched.
Dispatchable(file) == OnDispatch(file) \/ Trigger(file) = "manual"

-----------------------------------------------------------------------------
(* The planner.                                                            *)

\* expandJobMatrix: the product of the values (a single empty row when there are
\* none), and the rows of include that it does not have.  matrix is a set of
\* records [key, values].
Product(matrix) ==
  LET keys == {axis.key : axis \in matrix}
      all == UNION {axis.values : axis \in matrix} IN
  {row \in [keys -> all] : \A axis \in matrix : row[axis.key] \in axis.values}
Rows(job) == Product(job.matrix) \cup job.include

\* planWorkflowJobs, as a set: a row of the run for each row of each job.
Planned(jobs) == UNION {{<<j, row>> : row \in Rows(jobs[j])} : j \in DOMAIN jobs}

\* assertAcyclicWorkflow, on the graph of needs: depth first, in some order of the jobs
\* and of the needs.  stack: the calls of visit, each with the needs its loop has
\* still to come to; seen: what is visited; ok: nothing has thrown.
Calls(needs) == [job : DOMAIN needs, left : SUBSET UNION {needs[j] : j \in DOMAIN needs}]
States(needs) == [ok : BOOLEAN, stack : Seq(Calls(needs)), seen : SUBSET DOMAIN needs]
Call(needs, j) == [job |-> j, left |-> needs[j]]
Unsearched == [ok |-> TRUE, stack |-> << >>, seen |-> {}]

\* The loop over the jobs calls visit for one that is not visited.
StartVisit(needs, s) ==
  IF DOMAIN needs \subseteq s.seen THEN s
  ELSE [s EXCEPT !.stack = <<Call(needs, CHOOSE j \in DOMAIN needs \ s.seen : TRUE)>>]

\* The latest call of visit returns, or visits one of its needs: that throws at a job
\* that is being visited and at an unknown one.
GoOn(needs, s) ==
  LET depth == Len(s.stack)
      call == s.stack[depth] IN
  IF call.left = {} THEN [s EXCEPT !.stack = SubSeq(@, 1, depth - 1), !.seen = @ \cup {call.job}]
  ELSE LET n == CHOOSE n \in call.left : TRUE
           stack == [s.stack EXCEPT ![depth] = [call EXCEPT !.left = @ \ {n}]] IN
       IF n \in s.seen THEN [s EXCEPT !.stack = stack]
       ELSE IF n \notin DOMAIN needs \/ \E i \in 1..depth : stack[i].job = n THEN [s EXCEPT !.ok = FALSE]
       ELSE [s EXCEPT !.stack = Append(stack, Call(needs, n))]

SearchStep(needs, s) ==
  IF ~s.ok THEN s ELSE IF s.stack = << >> THEN StartVisit(needs, s) ELSE GoOn(needs, s)

\* So many steps are enough for any graph of needs between these jobs.
Longest(needs) == Cardinality(DOMAIN needs) * (Cardinality(DOMAIN needs) + 2)

\* Where the search is after so many steps; behind its end it stays as it is.
Search(needs) ==
  LET step == [s \in States(needs) |-> SearchStep(needs, s)]
      after[n \in 0..Longest(needs)] == IF n = 0 THEN Unsearched ELSE step[after[n - 1]]
  IN after

\* Mutant: visit is called for one job only.
AcyclicFromOne(needs) ==
  \E n \in 1..Longest(needs) : Search(needs)[n].ok /\ Search(needs)[n].stack = << >>

\* assertAcyclicWorkflow returns.
AssertAcyclic(needs) == Search(needs)[Longest(needs)].ok

Needs(jobs) == [j \in DOMAIN jobs |-> jobs[j].needs]

\* What it stands for: every set of jobs has one that needs none of them.
Ordered(needs) ==
  \A S \in SUBSET DOMAIN needs : S # {} => \E j \in S : needs[j] \cap S = {}
===============================================================================
