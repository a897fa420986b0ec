----------------------------- MODULE GitCommands ------------------------------
(***************************************************************************)
(* The Git repository of one path, as far as the host can tell its states  *)
(* apart, and what the git commands it runs do there.  git is not part of  *)
(* the program: Effect says what a command may leave behind when it exits  *)
(* with zero (nothing: it refuses), Mess what it may leave when it does    *)
(* not.  Branches other than the default one and the new one, commits and  *)
(* file contents are left out.                                             *)
(***************************************************************************)
EXTENDS FiniteSets

Branch == {"main", "dev"}           \* DEFAULT_BRANCH and the one calls name
Operation == {"merge", "rebase", "cherry-pick"}

\* born: HEAD has a commit; work: files that are not staged; dirty index: staged;
\* hosted: the three settings of the hosted configuration; origin: the url it names,
\* "clone" with and "remote" without the credentials, "base" the path of the base.
Repository ==
  [made : BOOLEAN, born : BOOLEAN, work : BOOLEAN, staged : BOOLEAN,
   hosted : BOOLEAN, tagged : BOOLEAN, upstream : BOOLEAN, fetched : BOOLEAN,
   origin : {"none", "clone", "remote", "base"},
   branches : SUBSET Branch, head : Branch \cup {"detached"},
   op : Operation \cup {""}]

\* A path that holds no repository; the workspace may hold files.
Absent(files) ==
  [made |-> FALSE, born |-> FALSE, work |-> files, staged |-> FALSE,
   hosted |-> FALSE, tagged |-> FALSE, upstream |-> FALSE, fetched |-> FALSE,
   origin |-> "none", branches |-> {}, head |-> "main", op |-> ""]

Settled(r) == [r EXCEPT !.work = FALSE, !.staged = FALSE, !.op = ""]

\* commit also ends a merge or the cherry-pick of a commit.
Committed(r) ==
  [r EXCEPT !.born = TRUE, !.staged = FALSE, !.op = IF @ = "rebase" THEN @ ELSE "",
            !.branches = @ \cup ({r.head} \cap Branch)]

\* init --initial-branch, or, where git knows no such option, init and symbolic-ref,
\* which turns the HEAD of a repository that is there already to main; clone,
\* remote set-url, add -A and commit (of nothing, if the workspace has no file),
\* the three config commands.
SetupEffect(s, r) ==
  IF s = "init" THEN
    {[r EXCEPT !.made = TRUE]} \cup
    IF r.made
    THEN {[r EXCEPT !.head = "main", !.born = "main" \in r.branches, !.staged = t] : t \in {r.staged, TRUE}}
    ELSE {}
  ELSE IF s \in {"clone", "cloneBase"} THEN
    IF r.made \/ r.work THEN {}
    ELSE {[r EXCEPT !.made = TRUE, !.born = TRUE, !.branches = {"main"},
                    !.origin = IF s = "clone" THEN "clone" ELSE "base"]}
  ELSE IF s = "initialCommit" THEN
    {[Committed(r) EXCEPT !.work = FALSE]} \cup (IF r.work THEN {} ELSE {r})
  ELSE IF s = "setUrl" THEN {[r EXCEPT !.origin = "remote"]}
  ELSE {[r EXCEPT !.hosted = TRUE]}

\* branch, checkout, tag and their deletion; "dev" and the one tag are the names
\* that calls give.
RefEffect(s, r) ==
  CASE s = "branch" ->
         IF r.born /\ "dev" \notin r.branches THEN {[r EXCEPT !.branches = @ \cup {"dev"}]} ELSE {}
    [] s = "checkout" ->
         IF "dev" \in r.branches /\ r.op = "" THEN {[r EXCEPT !.head = "dev"]} ELSE {}
    [] s = "checkoutMain" ->
         IF "main" \in r.branches /\ r.op = "" THEN {[r EXCEPT !.head = "main"]} ELSE {}
    [] s = "detach" -> IF r.born /\ r.op = "" THEN {[r EXCEPT !.head = "detached"]} ELSE {}
    [] s = "deleteBranch" ->
         IF "dev" \in r.branches /\ r.head # "dev" THEN {[r EXCEPT !.branches = @ \ {"dev"}]} ELSE {}
    [] s = "tag" -> IF r.born /\ ~r.tagged THEN {[r EXCEPT !.tagged = TRUE]} ELSE {}
    [] s = "deleteTag" -> IF r.tagged THEN {[r EXCEPT !.tagged = FALSE]} ELSE {}

\* add, restore --staged or rm --cached, restore --worktree, clean, commit, merge,
\* rebase, cherry-pick, with and without --no-commit, their --continue and --abort,
\* for a call that has found k.head (a commit at HEAD) and k.kind (in progress).
\* rm --cached where there is a commit stages the removal of every file.
TreeEffect(s, r, k) ==
  CASE s = "add" -> {[r EXCEPT !.work = FALSE, !.staged = r.staged \/ r.work]}
    [] s = "unstage" /\ (k.head <=> r.born) -> {[r EXCEPT !.staged = FALSE, !.work = r.work \/ r.staged]}
    [] s = "unstage" /\ ~k.head /\ r.born -> {[r EXCEPT !.staged = TRUE, !.work = TRUE]}
    [] s = "unstage" /\ k.head /\ ~r.born -> {}
    [] s = "restore" ->
         IF r.born THEN {[r EXCEPT !.staged = FALSE, !.work = w] : w \in {r.work, FALSE}} ELSE {}
    [] s \in {"clean", "cleanUnborn"} -> {[r EXCEPT !.work = FALSE]}
    [] s = "commit" ->
         IF r.staged /\ ~(r.op # "" /\ r.work) THEN {Committed(r)} ELSE {}
    [] s \in Operation -> IF r.op = "" THEN {r} ELSE {}
    [] s = "mergeNoCommit" ->
         IF r.op = "" THEN {r, [r EXCEPT !.op = "merge", !.staged = TRUE]} ELSE {}
    [] s = "pickNoCommit" -> IF r.op = "" THEN {r, [r EXCEPT !.staged = TRUE]} ELSE {}
    [] s = "continue" -> IF r.op = k.kind /\ ~r.work THEN {Settled(r)} ELSE {}
    [] s = "abort" -> IF r.op = k.kind THEN {Settled(r)} ELSE {}

\* fetch, pull and push talk to another repository; remote add or set-url and
\* fetch of "upstream"; the merge of what was fetched.
RemoteEffect(s, r) ==
  CASE s \in {"fetch", "push"} -> {r}
    [] s = "pull" -> IF r.op = "" THEN {r} ELSE {}
    [] s = "upstream" -> {[r EXCEPT !.upstream = TRUE]}
    [] s = "fetchUpstream" -> IF r.upstream THEN {[r EXCEPT !.fetched = TRUE]} ELSE {}
    [] s \in {"syncFf", "syncMerge"} -> IF r.fetched /\ r.op = "" THEN {r} ELSE {}

\* A merge, rebase or cherry-pick that meets a conflict exits with an error and
\* stays in progress, unless a cherry-pick was not to commit; one that is continued
\* may meet the next conflict.  init may fail at symbolic-ref, the initial commit
\* after add -A.
Mess(s, r) ==
  {r} \cup
  IF s \in Operation \cup {"mergeNoCommit", "pull", "syncMerge"} /\ r.op = "" /\ r.born
  THEN {[r EXCEPT !.op = IF s \in Operation THEN s ELSE "merge", !.work = TRUE]}
  ELSE IF (s = "pickNoCommit" /\ r.op = "") \/ (s = "continue" /\ r.op \in {"rebase", "cherry-pick"})
  THEN {[r EXCEPT !.work = TRUE]}
  ELSE IF s = "init" THEN {[r EXCEPT !.made = TRUE]}
  ELSE IF s = "initialCommit" THEN {[r EXCEPT !.staged = r.staged \/ r.work, !.work = FALSE]}
  ELSE {}
===============================================================================
