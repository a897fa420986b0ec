---------------------------- MODULE HostOperations ----------------------------
(***************************************************************************)
(* Concurrent calls of the methods of the host and of the forge: one step  *)
(* of one call at a time.  Methods of the host hold the lock of their      *)
(* repository, those of the forge only while they call the host.  A git    *)
(* command, the storage or the embedder may fail at any step; the method   *)
(* then gives the lock back and reports an error; a call by another caller *)
(* stands for one by the same who tries again.  Where a look only asks     *)
(* whether a repository or a commit is there, a failure means no, and the  *)
(* method goes on.  runGit takes an exit code of null, which is what a     *)
(* command killed by a signal has, for zero.                               *)
(*                                                                         *)
(* The lock admits callers in any order (RepositoryLock: in theirs).       *)
(***************************************************************************)
EXTENDS Naturals, HostMethods

CONSTANTS Call,       \* the callers
          Asked,      \* the pairs <<method, path>> they may ask for
          Start,      \* the repositories [Path -> Repository] to begin with
          Faults,     \* what goes wrong: "git", "storage", "embedder", "signal"
          Normalizes, \* whether the asset store has normalizeAssets()
          Nobody

Path == {"base", "fork"}

\* A fork is made at its path; one with an upstream to begin with is ready, since
\* its row is there, too.
ASSUME OperationsAssumption ==
  /\ Asked \subseteq (DOMAIN Program) \X Path
  /\ \A a \in Asked : a[1] = "createFork" => a[2] = "fork"
  /\ Start \subseteq [Path -> Repository]
  /\ \A s \in Start : s["fork"].upstream => s["fork"].made /\ s["fork"].hosted
  /\ Normalizes \in BOOLEAN /\ Nobody \notin Call /\ "seed" \notin Call

ForkMethod == DOMAIN ForkMethods
PublishMethod == {"publishReleaseAsset", "publishOtherAsset"}

\* The lock is held before step i of method n.
Held(n, i) ==
  \E j \in 1..(i - 1) :
    Program[n][j] = "lock" /\ \A k \in j..(i - 1) : Program[n][k] # "unlock"

\* The table of the methods, which is finite: a method takes the lock when it does
\* not hold it, gives it back before it ends, and runs git in between, except
\* for the methods of forks; only createFork writes a row of a fork, only the ways
\* of updateRelease and publishReleaseAsset write the assets of a release.
ASSUME MethodsAssumption ==
  /\ \A n \in DOMAIN Program :
       /\ Program[n] \in Seq(STRING) /\ Len(Program[n]) \in 1..21
       /\ ~Held(n, Len(Program[n]) + 1)
       /\ \A i \in 1..Len(Program[n]) :
            /\ Program[n][i] = "lock" => ~Held(n, i)
            /\ Program[n][i] = "unlock" => Held(n, i)
            /\ Program[n][i] \in GitStep /\ n \notin ForkMethod => Held(n, i)
            /\ Program[n][i] = "forkRow" => n = "createFork"
            /\ Program[n][i] = "updateRow" => n = "updateRelease"
            /\ Program[n][i] = "updateAssets" => n = "updateReleaseAssets"
            /\ Program[n][i] = "appendAsset" => n \in PublishMethod
  /\ \A n \in ForkMethod : Program[n] = ForkMethods[n]

VARIABLES repo,      \* repo[p]: the repository at p
          holder,    \* holder[p]: the call that holds the lock of p
          call,      \* call[c]: the call of c and what it has read
          release,   \* release[i]: the row of release i; "seed" is there at first
          forkRow,   \* storage has a row for the fork
          activity,  \* the calls an activity was recorded for
          starred,
          killed,    \* history: the calls one of whose commands was killed
          misread,   \* history: the calls that were told HEAD has no commit when it had
          disturbed  \* history: the calls whose repository changed under their lock

rows == <<release, forkRow, activity, starred>>
history == <<killed, misread, disturbed>>
vars == <<repo, holder, call, rows, history>>

ReleaseId == Call \cup {"seed"}
Asset == Call \cup {"given"}       \* an asset is named for the call that published it
NoRelease == [there |-> FALSE, assets |-> {}]
NewRelease == [there |-> TRUE, assets |-> {"given"}]

\* exists, head, kind, seen: what the call found of the repository, of a commit at
\* HEAD, of an operation in progress and of the assets of the release.
Fresh(n, p, i, result) ==
  [op |-> n, on |-> p, pc |-> i, result |-> result,
   exists |-> FALSE, head |-> FALSE, kind |-> "", seen |-> {}]
Idle == Fresh("none", "base", 0, "idle")

CallState ==
  [op : DOMAIN Program \cup {"none"}, on : Path, pc : 0..21,
   result : {"idle", "running", "ok", "error"},
   exists : BOOLEAN, head : BOOLEAN, kind : Operation \cup {""}, seen : SUBSET Asset]

TypeOK ==
  /\ repo \in [Path -> Repository]
  /\ holder \in [Path -> Call \cup {Nobody}]
  /\ call \in [Call -> CallState]
  /\ release \in [ReleaseId -> [there : BOOLEAN, assets : SUBSET Asset]]
  /\ \A i \in ReleaseId : ~release[i].there => release[i].assets = {}
  /\ forkRow \in BOOLEAN /\ starred \in BOOLEAN /\ activity \subseteq Call
  /\ killed \subseteq Call /\ misread \subseteq Call /\ disturbed \subseteq Call

Init ==
  /\ repo \in Start
  /\ holder = [p \in Path |-> Nobody]
  /\ call = [c \in Call |-> Idle]
  /\ release = [i \in ReleaseId |-> IF i = "seed" /\ repo["base"].tagged THEN NewRelease ELSE NoRelease]
  /\ forkRow = repo["fork"].upstream
  /\ activity = {} /\ starred = FALSE
  /\ killed = {} /\ misread = {} /\ disturbed = {}

Running(c) == call[c].result = "running"
StepOf(c) == Program[call[c].op][call[c].pc]
At(c, s) == Running(c) /\ StepOf(c) = s

\* Where the step of c works: a fork method also looks at the upstream.
PathOf(c) == IF StepOf(c) = "readOverview" THEN "base" ELSE call[c].on
Here(c) == repo[PathOf(c)]

Ended(k, result) == [Fresh(k.op, k.on, 0, result) EXCEPT !.exists = k.exists]
Advanced(k) ==
  IF k.pc = Len(Program[k.op]) THEN Ended(k, "ok") ELSE [k EXCEPT !.pc = @ + 1]
Advance(c) == call' = [call EXCEPT ![c] = Advanced(@)]

Begin(c, n, p) ==
  /\ call[c].result = "idle"
  /\ call' = [call EXCEPT ![c] = Fresh(n, p, 1, "running")]
  /\ UNCHANGED <<repo, holder, rows, history>>

-----------------------------------------------------------------------------
(* Steps.                                                                  *)

\* Mutant: a call does not wait for the one that holds the lock.
LockAtOnce(c) ==
  /\ At(c, "lock")
  /\ holder' = [holder EXCEPT ![call[c].on] = c]
  /\ Advance(c)
  /\ UNCHANGED <<repo, rows, history>>

Lock(c) ==
  /\ At(c, "lock")
  /\ holder[call[c].on] = Nobody
  /\ holder' = [holder EXCEPT ![call[c].on] = c]
  /\ Advance(c)
  /\ UNCHANGED <<repo, rows, history>>

Unlock(c) ==
  /\ At(c, "unlock")
  /\ holder' = [holder EXCEPT ![call[c].on] = Nobody]
  /\ Advance(c)
  /\ UNCHANGED <<repo, rows, history>>

\* Mutant: the index is restored only where no commit was found.
OmittedWhenBorn(c, s) ==
  \/ s \in {"init", "initialCommit", "clone", "setUrl"} /\ call[c].exists
  \/ s = "initialCommit" /\ ~Here(c).work /\ ~Here(c).staged
  \/ s \in {"restore", "cleanUnborn"} /\ call[c].head

\* The steps a method leaves out after what it has found, and a first commit of a
\* workspace that is empty or unchanged.
Omitted(c, s) ==
  \/ s \in {"init", "initialCommit", "clone", "setUrl"} /\ call[c].exists
  \/ s = "initialCommit" /\ ~Here(c).work /\ ~Here(c).staged
  \/ s = "restore" /\ ~call[c].head
  \/ s = "cleanUnborn" /\ call[c].head

Omit(c) ==
  /\ Running(c) /\ Omitted(c, StepOf(c))
  /\ Advance(c)
  /\ UNCHANGED <<repo, holder, rows, history>>

Disturb(c, p) == disturbed \cup ({holder[p]} \ {c, Nobody})

\* A git command exits with zero.
RunGit(c) ==
  /\ Running(c) /\ StepOf(c) \in GitStep /\ ~Omitted(c, StepOf(c))
  /\ \E r \in Effect(StepOf(c), Here(c), call[c]) :
       /\ repo' = [repo EXCEPT ![PathOf(c)] = r]
       /\ disturbed' = IF r = Here(c) THEN disturbed ELSE Disturb(c, PathOf(c))
  /\ Advance(c)
  /\ UNCHANGED <<holder, rows, killed, misread>>

\* A git command is killed before it has done its work: runGit says ok.
GitIsKilled(c) ==
  /\ "signal" \in Faults
  /\ Running(c) /\ StepOf(c) \in GitStep /\ ~Omitted(c, StepOf(c))
  /\ killed' = killed \cup {c}
  /\ Advance(c)
  /\ UNCHANGED <<repo, holder, rows, misread, disturbed>>

\* What the reads find, and what a method needs them to find to go on.
RepositoryReady(c) == Here(c).made
ResolvesRef(c) == Here(c).born
HasStatus(c) == Here(c).staged
ReadTag(c) == Here(c).tagged
ReadOperationState(c) == Here(c).op
ForkComparison(c) == Here(c).fetched /\ Here(c).born
RequiredFork == forkRow
RequiredRelease == release["seed"].there

\* The looks that take a method one way where another of its entries in the table
\* goes the other.
WayStep == {"onBranch", "offBranch", "listedFork", "noFork"}
LookStep == {"ready", "readOverview", "readForkBranch", "summary", "verify",
             "currentBranch", "status", "readTag", "readOperation", "compare", "readFork",
             "readRelease", "resolveRelease"}
Looks == LookStep \cup WayStep \cup {"probe", "hasHead", "checkName", "isAncestor", "compress"}
Finds(c, s) ==
  CASE s \in {"ready", "readOverview", "readForkBranch", "summary"} -> RepositoryReady(c)
    [] s \in {"verify", "currentBranch"} -> ResolvesRef(c)
    [] s = "status" -> HasStatus(c)
    [] s = "readTag" -> ReadTag(c)
    [] s = "readOperation" -> ReadOperationState(c) # ""
    [] s = "compare" -> ForkComparison(c)
    [] s = "readFork" -> RequiredFork
    [] s \in {"readRelease", "resolveRelease"} -> RequiredRelease
    [] s = "onBranch" -> Here(c).head # "detached"
    [] s = "offBranch" -> Here(c).head = "detached"
    [] s = "listedFork" -> forkRow
    [] s = "noFork" -> ~forkRow
    [] s \in Looks \ (LookStep \cup WayStep) -> TRUE

\* What rev-parse tells of the repository, and of a commit at HEAD: a failure is a
\* no; killed, it prints no path of a repository, but leaves an exit code for zero.
RepositoryExists(c) == {Here(c).made} \cup (IF {"git", "signal"} \cap Faults # {} THEN {FALSE} ELSE {})
RepositoryHasHead(c) ==
  {Here(c).born} \cup (IF "git" \in Faults THEN {FALSE} ELSE {})
    \cup (IF "signal" \in Faults THEN {TRUE} ELSE {})

Look(c) ==
  /\ Running(c) /\ StepOf(c) \in Looks /\ Finds(c, StepOf(c))
  /\ \E e \in RepositoryExists(c), h \in RepositoryHasHead(c) :
       LET s == StepOf(c)
           k == Advanced(call[c]) IN
       /\ call' = [call EXCEPT ![c] =
            [k EXCEPT !.exists = IF s = "probe" THEN e ELSE @,
                      !.head = IF s = "hasHead" THEN h ELSE @,
                      !.kind = IF s = "readOperation" THEN ReadOperationState(c) ELSE @,
                      !.seen = IF s = "resolveRelease" THEN release["seed"].assets ELSE @]]
       /\ misread' = IF s = "hasHead" /\ Here(c).born /\ ~h THEN misread \cup {c} ELSE misread
  /\ UNCHANGED <<repo, holder, rows, killed, disturbed>>

-----------------------------------------------------------------------------
(* Calls of the storage adapter and of the embedder.                       *)

RecordActivity(c) == activity' = activity \cup {c} /\ UNCHANGED <<release, forkRow, starred>>
StarRow == starred' = TRUE /\ UNCHANGED <<release, forkRow, activity>>
ForkRow == forkRow' = TRUE /\ UNCHANGED <<release, activity, starred>>
ReleaseRow(c) ==
  release' = [release EXCEPT ![c] = NewRelease] /\ UNCHANGED <<forkRow, activity, starred>>
DeleteRow ==
  release' = [release EXCEPT !["seed"] = NoRelease] /\ UNCHANGED <<forkRow, activity, starred>>

\* Mutant: the assets of a release that is gone are written.
SetAssetsOfAny(assets) ==
  release' = [release EXCEPT !["seed"].assets = assets] /\ UNCHANGED <<forkRow, activity, starred>>

\* updateRelease of the storage.  A release that is gone when its assets are
\* written back is not an error to publishReleaseAsset; to the methods of the
\* forge it is (Refused).
SetAssets(assets) ==
  /\ release' = [release EXCEPT !["seed"].assets = IF release["seed"].there THEN assets ELSE @]
  /\ UNCHANGED <<forkRow, activity, starred>>

\* Mutant: the new asset takes the place of the others.
AppendedToNone(c) == {c}

\* The names of the files: the assets given with a release have one of the two.
FileName(a) == IF a \in Call /\ call[a].op = "publishOtherAsset" THEN "docs" ELSE "dist"

\* The list of assets that publishReleaseAsset writes back.
Appended(c) == {a \in call[c].seen : FileName(a) # FileName(c)} \cup {c}

StorageStep == {"activity", "setStar", "readSocialState", "forkRow", "readFork", "listedFork", "noFork",
                "readRelease", "resolveRelease", "releaseRow", "updateRow", "updateAssets",
                "deleteRow", "appendAsset"}
EmbedderStep == {"normalizeAssets", "createForkRepository"}

Written(c) ==
  \/ At(c, "activity") /\ RecordActivity(c)
  \/ At(c, "setStar") /\ StarRow
  \/ At(c, "forkRow") /\ ForkRow
  \/ At(c, "releaseRow") /\ ReleaseRow(c)
  \/ At(c, "updateRow") /\ (IF Normalizes THEN SetAssets({}) ELSE UNCHANGED rows)
  \/ At(c, "updateAssets") /\ \E given \in SUBSET {"given"} : SetAssets(given)
  \/ At(c, "appendAsset") /\ SetAssets(Appended(c))
  \/ At(c, "deleteRow") /\ DeleteRow
  \/ StepOf(c) \in {"readSocialState", "normalizeAssets", "createForkRepository"} /\ UNCHANGED rows

\* What must fail, and what may.
Refused(c, s) ==
  IF s \in GitStep THEN Effect(s, Here(c), call[c]) = {}
  ELSE IF s \in {"updateRow", "updateAssets", "deleteRow"} THEN ~RequiredRelease
  ELSE s \in LookStep /\ ~Finds(c, s)

Fault(s) ==
  IF s \in StorageStep THEN "storage" ELSE IF s \in EmbedderStep THEN "embedder" ELSE "git"

Store(c) ==
  /\ Running(c)
  /\ ~Refused(c, StepOf(c))
  /\ Written(c)
  /\ Advance(c)
  /\ UNCHANGED <<repo, holder, history>>

\* Mutant: the lock is given back by methods that succeed.
FailKeepsLock(c) ==
  /\ Running(c) /\ StepOf(c) \notin {"lock", "unlock"} /\ ~Omitted(c, StepOf(c))
  /\ Refused(c, StepOf(c)) \/ Fault(StepOf(c)) \in Faults
  /\ call' = [call EXCEPT ![c] = Ended(@, "error")]
  /\ UNCHANGED <<repo, holder, rows, history>>

\* A step throws: the finally block of withLock opens the gate, the caller gets
\* the error.
Fail(c) ==
  /\ Running(c) /\ StepOf(c) \notin {"lock", "unlock"} /\ ~Omitted(c, StepOf(c))
  /\ Refused(c, StepOf(c)) \/ Fault(StepOf(c)) \in Faults
  /\ \E r \in Mess(StepOf(c), Here(c)) :
       /\ repo' = [repo EXCEPT ![PathOf(c)] = r]
       /\ disturbed' = IF r = Here(c) THEN disturbed ELSE Disturb(c, PathOf(c))
  /\ holder' = [p \in Path |-> IF holder[p] = c THEN Nobody ELSE holder[p]]
  /\ call' = [call EXCEPT ![c] = Ended(@, "error")]
  /\ UNCHANGED <<rows, killed, misread>>

Step(c) ==
  Lock(c) \/ Unlock(c) \/ Omit(c) \/ RunGit(c) \/ GitIsKilled(c) \/ Look(c) \/ Store(c) \/ Fail(c)

Next == \E c \in Call : Step(c) \/ \E a \in Asked : Begin(c, a[1], a[2])

Spec == Init /\ [][Next]_vars

-----------------------------------------------------------------------------
(* Properties.                                                             *)

\* While a call holds the lock of a repository no other changes it, except the
\* methods of the forge that work on a fork without its lock
\* (forge/fork_methods.ts:23-88); every method of the host is held to it.
OnlyForksDisturb ==
  [][\A c \in Call, p \in Path :
       (call'[c] # call[c] /\ repo'[p] # repo[p] /\ holder[p] # c)
         => call[c].op \in ForkMethod]_vars

\* What a method that returns has brought about.
Promised(c) ==
  LET r == repo[call[c].on]
      n == call[c].op IN
  CASE n = "ensureRepository" -> r.made /\ r.hosted /\ (call[c].exists \/ (r.work => r.born))
    [] n = "ensureClone" -> r.made /\ r.hosted /\ (call[c].exists \/ r.origin # "clone")
    [] n = "createBranch" -> "dev" \in r.branches
    [] n \in {"createBranchCheckout", "checkoutBranch"} -> r.head = "dev"
    [] n = "checkoutMain" -> r.head = "main"
    [] n = "checkoutRef" -> r.head = "detached"
    [] n = "deleteBranch" -> "dev" \notin r.branches
    [] n = "createTag" -> r.tagged
    [] n = "deleteTag" -> ~r.tagged
    [] n = "stagePaths" -> ~r.work
    [] n \in {"unstagePaths", "commit"} -> ~r.staged
    [] n = "discardPaths" -> r.born => ~r.staged
    [] n = "discardUntracked" -> ~r.work /\ (r.born => ~r.staged)
    [] n \in {"merge", "rebase", "cherryPick", "pickNoCommit", "continueOperation", "abortOperation"} ->
         r.op = ""
    [] n = "mergeNoCommit" -> r.op \in {"", "merge"}
    [] n \in {"fetch", "pull", "push"} -> c \in activity /\ r.hosted
    [] n = "createFork" -> forkRow /\ r.hosted /\ r.fetched
    [] n \in {"createRelease", "createReleaseOfTag"} -> release[c].there /\ c \in activity
    [] n \in {"deleteRelease", "deleteReleaseAndTag"} -> ~release["seed"].there
    [] n \in PublishMethod -> release["seed"].there => c \in release["seed"].assets
    [] n = "starRepository" -> starred /\ c \in activity
    [] OTHER -> TRUE

\* The steps of method n that bring this about.
Brings(n) ==
  CASE n = "ensureRepository" -> {"initialCommit", "config"}
    [] n = "ensureClone" -> {"setUrl", "config"}
    [] n = "createBranch" -> {"branch"}
    [] n \in {"createBranchCheckout", "checkoutBranch"} -> {"checkout"}
    [] n = "checkoutMain" -> {"checkoutMain"}
    [] n = "checkoutRef" -> {"detach"}
    [] n = "deleteBranch" -> {"deleteBranch"}
    [] n = "createTag" -> {"tag"}
    [] n = "deleteTag" -> {"deleteTag"}
    [] n = "stagePaths" -> {"add"}
    [] n = "unstagePaths" -> {"unstage"}
    [] n = "commit" -> {"commit"}
    [] n = "discardPaths" -> {"restore"}
    [] n = "discardUntracked" -> {"restore", "clean"}
    [] n = "cherryPick" -> {"cherry-pick"}
    [] n \in {"merge", "mergeNoCommit", "rebase", "pickNoCommit"} -> {n}
    [] n = "continueOperation" -> {"continue"}
    [] n = "abortOperation" -> {"abort"}
    [] n \in {"fetch", "pull", "push"} -> {"config", "activity"}
    [] n = "createFork" -> {"config", "fetchUpstream", "forkRow"}
    [] n \in {"createRelease", "createReleaseOfTag"} -> {"releaseRow", "activity"}
    [] n \in {"deleteRelease", "deleteReleaseAndTag"} -> {"deleteRow"}
    [] n \in PublishMethod -> {"appendAsset"}
    [] n = "starRepository" -> {"setStar", "activity"}
    [] OTHER -> {}

\* No step of any method takes back what these have brought about.
Lasting == {"config", "fetchUpstream", "forkRow", "activity", "releaseRow", "deleteRow", "setStar"}

\* The table of the methods, again: a method has the steps that bring about what it
\* promises; if that does not last, it is the last step, or a git command after
\* which the method holds the lock to its end, does not look again and runs no git
\* that could take it back.  No commit is made after the look whether there is one.
ASSUME PromisesAssumption ==
  \A n \in DOMAIN Program :
    /\ \A s \in Brings(n) : \E i \in 1..Len(Program[n]) : Program[n][i] = s
    /\ Program[n][Len(Program[n])] \notin GitStep \cup {"probe"}
    /\ \A i \in 1..Len(Program[n]) :
         /\ Program[n][i] \in Brings(n) \ Lasting =>
              /\ i = Len(Program[n]) \/ (Program[n][i] \in GitStep /\ Held(n, Len(Program[n])))
              /\ \A j \in (i + 1)..Len(Program[n]) :
                   \/ Program[n][j] \notin GitStep \cup {"lock", "probe"}
                   \/ Program[n][i] = "restore" /\ Program[n][j] \in {"clean", "cleanUnborn"}
                   \/ Program[n][i] \in {"initialCommit", "setUrl"} /\ Program[n][j] = "config"
         /\ Program[n][i] \in {"unstage", "restore"} =>
              \E j \in 1..(i - 1) : Program[n][j] = "hasHead"
         /\ Program[n][i] = "hasHead" =>
              \A j \in (i + 1)..Len(Program[n]) :
                Program[n][j] \in {"unstage", "restore", "clean", "cleanUnborn", "summary", "unlock"}

\* A method that returns without error has done what it says, whatever failed or
\* ran before, unless a command of it was killed (process.ts:67), its repository
\* was changed under its lock (fork_methods.ts:80), or it was told that HEAD has no
\* commit because rev-parse failed (working_tree/shared.ts:57).  What makes a
\* repository makes it whole; one that is found is taken for whole, in whatever
\* state an earlier call has left it (host_runtime.ts:274).
SuccessKeepsPromise ==
  [][\A c \in Call :
       (call[c].result = "running" /\ call'[c].result = "ok")
         => \/ Promised(c)'
            \/ c \in killed \/ c \in disturbed \/ c \in misread]_vars

\* A fork row is written last: the fork it names is cloned, configured and has
\* its upstream (fork_methods.ts:42-56), unless a command was killed.
ForkRowMeansReady ==
  forkRow => \/ repo["fork"].made /\ repo["fork"].hosted /\ repo["fork"].upstream
             \/ killed # {}

\* The lock is held by a call that still runs, and that call is not about to ask
\* for it again: no error path keeps it, no method that holds it calls another
\* that takes it (locks.ts:25, release_methods.ts:268).
LockIsFor ==
  \A p \in Path : holder[p] # Nobody =>
    Running(holder[p]) /\ call[holder[p]].on = p /\ ~At(holder[p], "lock")

\* An asset leaves the row of its release with the row; with an updateRelease that
\* is given the assets, or of a host that normalizes them (release_methods.ts:190);
\* or by a publish, which takes out what has its file name and, what nobody asked
\* for, what was not yet in the list it has read (actions/release_assets.ts:150);
\* nothing else drops it.
AssetsStay ==
  [][\A i \in ReleaseId : \A a \in release[i].assets :
       (release'[i].there /\ a \notin release'[i].assets) =>
         \E c \in Call :
           /\ call'[c] # call[c]
           /\ \/ /\ call[c].op \in PublishMethod
                 /\ a \notin call[c].seen \/ FileName(a) = FileName(c)
              \/ call[c].op = "updateRelease" /\ Normalizes
              \/ call[c].op = "updateReleaseAssets"]_vars
===============================================================================
