--------------------------- MODULE MCHostOperations ---------------------------
(***************************************************************************)
(* Two callers.  The base repository is absent but for files, there with   *)
(* files staged but no commit, or in use with a release of its tag and     *)
(* files changed and staged; the fork is absent or, in the last case,      *)
(* there.                                                                  *)
(***************************************************************************)
EXTENDS HostOperations

InUse ==
  [Absent(FALSE) EXCEPT !.made = TRUE, !.born = TRUE, !.hosted = TRUE, !.branches = {"main"}]
Forked == [InUse EXCEPT !.upstream = TRUE, !.fetched = TRUE, !.branches = Branch]

MCStart ==
  {[base |-> Absent(TRUE), fork |-> Absent(FALSE)],
   [base |-> [Absent(TRUE) EXCEPT !.made = TRUE, !.staged = TRUE], fork |-> Absent(FALSE)],
   [base |-> [InUse EXCEPT !.tagged = TRUE, !.work = TRUE, !.staged = TRUE], fork |-> Forked]}

HostMethod == UNION {DOMAIN BranchMethods, DOMAIN TreeMethods, DOMAIN RemoteMethods, DOMAIN EnsureMethods}
Callers == Permutations(Call)

MCAsked ==
  (HostMethod \X {"base"})
    \cup ((DOMAIN ReleaseMethods) \X {"base"})
    \cup ((ForkMethod \cup {"ensureClone", "checkoutMain", "checkoutBranch", "checkoutRef", "merge", "deleteBranch"})
             \X {"fork"})

\* Two calls meet in one repository, or where a method of forks looks whether the
\* base is there, which the methods that ensure it change.  Of two that share
\* nothing one is enough.
Meet(k, l) ==
  \/ k.on = l.on
  \/ k.op \in ForkMethod /\ l.op \in DOMAIN EnsureMethods
  \/ l.op \in ForkMethod /\ k.op \in DOMAIN EnsureMethods

MCNext ==
  Next /\ \A c, d \in Call : "idle" \in {call'[c].result, call'[d].result} \/ Meet(call'[c], call'[d])

MCSpec == Init /\ [][MCNext]_vars
===============================================================================
