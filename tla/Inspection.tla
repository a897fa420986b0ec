------------------------------ MODULE Inspection -------------------------------
(***************************************************************************)
(* The reads of a repository.  None of them takes the repository lock, and *)
(* each runs several git commands, while commits, pushes, checkouts and    *)
(* deletions move what its ref means.  A read first finds out what commit  *)
(* it is about; most of them then read at the ref again.                   *)
(*                                                                         *)
(* A commit is a number; trees, blobs and their rendering are left out:    *)
(* what a command reads is the commit it reads it from.  A command may     *)
(* fail, or be killed, whatever the refs are.                              *)
(***************************************************************************)
EXTENDS Naturals, Sequences

CONSTANTS Reader, MaxCommit,
          Faults      \* what may happen to a git command: "fail", "kill"
ASSUME InspectionAssumption == MaxCommit \in Nat \ {0}

Branch == {"main", "dev"}

VARIABLES tip,    \* tip[b]: the commit branch b is at; 0: there is no such branch
          head,   \* the branch HEAD names
          last,   \* the newest commit
          look    \* look[r]: the read of r

reads == <<tip, head, last, look>>

\* "target": resolveRepositoryInspectionTarget; "named": resolveCommitForRef or a
\* rev-parse; "read": commands at the ref; "pinned": commands at the hash; "log" and
\* "head": a git log and a rev-parse of which nothing is as good an answer.
InspectRepositoryTree == <<"target", "read">>
InspectDirectory == <<"target", "read", "read">>
InspectFile == <<"target", "read", "read">>
ReadRepositoryLinguist == <<"named", "read", "read">>
ReadRepositoryCompare == <<"named", "read", "read">>
SearchRepository == <<"named", "read">>
ReadRepositoryCommit == <<"named", "pinned">>
AttachLinguist == ReadRepositoryLinguist
\* These name no commit, but for the linguist that a tree may ask for.
ReadRepositoryBlob == <<"read", "read">>
ReadRepositoryBlame == <<"read">>
ReadRepositoryCommits == <<"log">>
ListRepositoryTree == <<"read">> \o ReadRepositoryLinguist
\* The parts of the summary run side by side: in either order.
BuildRepositorySummary(first, second) == <<first, second>>

Program ==
  [readTree      |-> InspectRepositoryTree,
   readTreeLinguist |-> InspectRepositoryTree \o AttachLinguist,
   readDirectory |-> InspectDirectory,
   readFile      |-> InspectFile,
   readLinguist  |-> ReadRepositoryLinguist,
   readBlob      |-> ReadRepositoryBlob,
   readCompare   |-> ReadRepositoryCompare,
   search        |-> SearchRepository,
   readSummary   |-> BuildRepositorySummary("head", "log"),
   readSummaryLogFirst |-> BuildRepositorySummary("log", "head"),
   readCommit    |-> ReadRepositoryCommit,
   readBlame     |-> ReadRepositoryBlame,
   listCommits   |-> ReadRepositoryCommits,
   listTree      |-> ListRepositoryTree]

Resting == [op |-> "none", ref |-> "auto", at |-> "start", pc |-> 0, resolved |-> "HEAD",
            commit |-> 0, got |-> {}, result |-> "idle",
            moved |-> FALSE, born |-> FALSE, misread |-> FALSE]     \* history

LookTypeOK ==
  /\ tip \in [Branch -> 0..MaxCommit] /\ head \in Branch /\ last \in 0..MaxCommit
  /\ \A r \in Reader :
       /\ look[r].op \in DOMAIN Program \cup {"none"} /\ look[r].pc \in 0..5
       /\ look[r].ref \in Branch \cup {"auto"} /\ look[r].resolved \in Branch \cup {"HEAD"}
       /\ look[r].commit \in 0..MaxCommit /\ look[r].got \subseteq 1..MaxCommit
       /\ look[r].result \in {"idle", "running", "ok", "error", "missing", "unborn"}

RefsInit ==
  /\ tip \in {[b \in Branch |-> 0], [b \in Branch |-> IF b = "main" THEN 1 ELSE 0]}
  /\ head = "main" /\ last = tip["main"]

CommitAt(ref) == tip[IF ref = "HEAD" THEN head ELSE ref]

\* What runGit gives of a command about commit c (0: none): its answer; or no spawn,
\* or an error of git; or, killed, nothing and success, for its exit code is null.
Failed == [ok |-> FALSE, commit |-> 0]
Silent == [ok |-> TRUE, commit |-> 0]
Answers(c) ==
  {[ok |-> c # 0, commit |-> c]}
    \cup {t \in {Failed} : "fail" \in Faults} \cup {t \in {Silent} : "kill" \in Faults}
Told(ref) == Answers(CommitAt(ref))

Running(r) == look[r].result = "running"
At(r, s) == Running(r) /\ Program[look[r].op][look[r].pc] = s
Set(r, l) == look' = [look EXCEPT ![r] = l] /\ UNCHANGED <<tip, head, last>>
Ends(r, result) == Set(r, [look[r] EXCEPT !.result = result])
Past(l) == IF l.pc = Len(Program[l.op]) THEN [l EXCEPT !.result = "ok"] ELSE [l EXCEPT !.pc = @ + 1]

\* An omitted ref is "auto" to the snapshots, HEAD to the others; a summary is of HEAD.
Ask(r, op, ref) ==
  /\ look[r].result = "idle"
  /\ op \in {"readSummary", "readSummaryLogFirst"} => ref = "auto"
  /\ Set(r, [Resting EXCEPT !.op = op, !.ref = ref, !.pc = 1, !.result = "running",
                            !.resolved = IF ref = "auto" THEN "HEAD" ELSE ref,
                            !.born = CommitAt("HEAD") # 0])

\* tryResolveCommitForRef succeeds for the ref in hand, with commit c.
Resolved(r, ref, c) ==
  Set(r, Past([look[r] EXCEPT !.commit = c, !.resolved = ref, !.at = "start"]))

\* rev-parse of HEAD did not succeed: there is no commit, whatever the reason.
Unborn(r) ==
  Set(r, [look[r] EXCEPT !.result = "unborn", !.misread = CommitAt("HEAD") # 0])

\* An explicit ref: it resolves, or whether HEAD does decides what is missing.
TryRef(r) ==
  /\ At(r, "target") /\ look[r].ref # "auto" /\ look[r].at = "start"
  /\ \E t \in Told(look[r].ref) :
       IF t.ok THEN Resolved(r, look[r].ref, t.commit) ELSE Set(r, [look[r] EXCEPT !.at = "hasHead"])

\* Mutant: a ref that does not resolve is taken for an unborn repository.
HasHeadUnasked(r) ==
  /\ At(r, "target") /\ look[r].at = "hasHead"
  /\ Ends(r, "unborn")

HasHead(r) ==
  /\ At(r, "target") /\ look[r].at = "hasHead"
  /\ \E t \in Told("HEAD") : IF t.ok THEN Ends(r, "missing") ELSE Unborn(r)

\* "auto": the branch that HEAD names, else HEAD itself, else nothing is there.
ReadCurrentBranch(r) ==
  /\ At(r, "target") /\ look[r].ref = "auto" /\ look[r].at = "start"
  /\ \/ Set(r, [look[r] EXCEPT !.at = "branch", !.resolved = head])
     \/ Faults # {} /\ Set(r, [look[r] EXCEPT !.at = "head"])

TryBranch(r) ==
  /\ At(r, "target") /\ look[r].at = "branch"
  /\ \E t \in Told(look[r].resolved) :
       IF t.ok THEN Resolved(r, look[r].resolved, t.commit) ELSE Set(r, [look[r] EXCEPT !.at = "head"])

TryHead(r) ==
  /\ At(r, "target") /\ look[r].at = "head"
  /\ \E t \in Told("HEAD") : IF t.ok THEN Resolved(r, "HEAD", t.commit) ELSE Unborn(r)

\* The linguist names the commit of the ref anew, for its own result: what the
\* snapshot names stays.
Name(r) ==
  /\ At(r, "named")
  /\ \E t \in Told(look[r].resolved) :
       IF ~t.ok THEN Ends(r, "error")
       ELSE Set(r, Past([look[r] EXCEPT !.commit = IF @ = 0 THEN t.commit ELSE @]))

\* A command shows a commit, or nothing, or fails.
Shows(r, t) ==
  IF ~t.ok THEN Ends(r, "error") ELSE Set(r, Past([look[r] EXCEPT !.got = @ \cup ({t.commit} \ {0})]))

\* Mutant: a command that fails is taken for one that prints nothing.
ReadAtRefRegardless(r) ==
  At(r, "read") /\ Set(r, Past([look[r] EXCEPT !.got = @ \cup {CommitAt(look[r].resolved)}]))

\* ls-tree, show, diff, blame, grep at the ref.
ReadAtRef(r) == At(r, "read") /\ \E t \in Told(look[r].resolved) : Shows(r, t)

\* Mutant: the commands take the ref.
ReadAtCommitByRef(r) == At(r, "pinned") /\ \E t \in Told(look[r].resolved) : Shows(r, t)

\* The five show commands of readRepositoryCommit take the hash, an empty one too.
ReadAtCommit(r) == At(r, "pinned") /\ \E t \in Answers(look[r].commit) : Shows(r, t)

\* A log of a ref without a commit is empty, any other failure is an error ...
ReadLog(r) ==
  /\ At(r, "log")
  /\ \E t \in Told(look[r].resolved) :
       \/ (t.ok \/ CommitAt(look[r].resolved) = 0) /\ Set(r, Past([look[r] EXCEPT !.got = {t.commit} \ {0}]))
       \/ ~t.ok /\ "fail" \in Faults /\ Ends(r, "error")

\* ... and a HEAD of which rev-parse tells nothing has no hash.
ReadHead(r) ==
  At(r, "head") /\ \E t \in Told("HEAD") : Set(r, Past([look[r] EXCEPT !.commit = t.commit]))

\* What others do to the refs meanwhile: through the host or by a push.
Moves(b) ==
  look' = [r \in Reader |->
    [look[r] EXCEPT !.moved = @ \/ (Running(r) /\ (look[r].commit # 0 \/ look[r].got # {})
                                     /\ look[r].resolved \in b)]]

CommitOrPush(b) ==
  /\ last < MaxCommit
  /\ last' = last + 1 /\ tip' = [tip EXCEPT ![b] = last + 1]
  /\ Moves({b} \cup (IF b = head THEN {"HEAD"} ELSE {})) /\ UNCHANGED head

Checkout(b) ==
  /\ b # head /\ tip[b] # 0
  /\ head' = b /\ Moves({"HEAD"}) /\ UNCHANGED <<tip, last>>

DeleteBranch(b) ==
  /\ b # head /\ tip[b] # 0
  /\ tip' = [tip EXCEPT ![b] = 0] /\ Moves({b}) /\ UNCHANGED <<head, last>>

Read(r) ==
  \/ \E op \in DOMAIN Program, ref \in Branch \cup {"auto"} : Ask(r, op, ref)
  \/ TryRef(r) \/ HasHead(r) \/ ReadCurrentBranch(r) \/ TryBranch(r) \/ TryHead(r)
  \/ Name(r) \/ ReadAtRef(r) \/ ReadAtCommit(r) \/ ReadLog(r) \/ ReadHead(r)

ReadsNext ==
  \/ \E r \in Reader : Read(r)
  \/ \E b \in Branch : CommitOrPush(b) \/ Checkout(b) \/ DeleteBranch(b)

\* An answer is of one commit at most, the one it names if it names one: always when the
\* commands take the hash (inspect/history.ts:49), else unless the ref moved after
\* the first of them, for all take the ref (inspection/snapshots.ts:60,
\* inspect/linguist.ts:204, inspect/tree_blob.ts:31).
AnswerIsOfItsCommit ==
  \A r \in Reader : look[r].result = "ok" =>
    \/ \E c \in 1..MaxCommit : look[r].got \subseteq {c} /\ look[r].commit \in {0, c}
    \/ look[r].moved /\ look[r].op # "readCommit"

\* A repository whose HEAD had a commit when the read began is called unborn only
\* when the last command, which asks for HEAD's commit, failed while there was one:
\* neither a ref that is missing, nor HEAD and the branches moving, nor a failed look
\* at the branch does it (inspection/target.ts:35, 132).
UnbornWasUnborn ==
  \A r \in Reader : look[r].result = "unborn" => ~look[r].born \/ look[r].misread
===============================================================================
