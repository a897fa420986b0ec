----------------------------- MODULE HostMethods ------------------------------
(***************************************************************************)
(* The methods of the Git host and of the forge on it, each as the         *)
(* sequence of its steps: a git command, a call of the storage or of the   *)
(* embedder, a look at the repository, the acquisition or release of the   *)
(* repository lock.  A method that an option changes, or what it finds,    *)
(* appears once per way.  Every step can fail.                             *)
(***************************************************************************)
EXTENDS Sequences, TLC, GitCommands

\* createEnsureRepositoryInner: what is not there yet is made, the hosted
\* configuration and the exclude file are written every time.
Ensure == <<"probe", "init", "initialCommit", "config">>

EnsureClone == <<"probe", "clone", "setUrl", "config">>

\* withLock around ensureRepositoryInner, the work, and the summary of the result.
Under(steps) == <<"lock">> \o steps \o <<"unlock">>

Locked(work) == Under(Ensure \o work \o <<"summary">>)

\* ensureRepository, with and without an url to clone.
EnsureRepository == Under(Ensure \o <<"summary">>)
EnsureOfRemote == Under(EnsureClone \o <<"summary">>)

-----------------------------------------------------------------------------
(* create_git_host/branch/methods.ts                                       *)

CreateBranch == Locked(<<"checkName", "branch">>)
CreateBranchCheckout == Locked(<<"checkName", "branch", "checkout">>)
CheckoutBranch == Locked(<<"checkout">>)
CheckoutMain == Locked(<<"checkoutMain">>)
CheckoutRef == Locked(<<"verify", "detach">>)
DeleteBranch == Locked(<<"deleteBranch">>)
WriteTag == <<"checkName", "verify", "tag", "readTag">>
CreateTag == Under(Ensure \o WriteTag)
DeleteTag == Under(Ensure \o <<"deleteTag">>)

-----------------------------------------------------------------------------
(* working_tree/mutate.ts, and create_git_host/working_tree_methods.ts.    *)

Stage == <<"ready", "add">>
Unstage == <<"ready", "hasHead", "unstage">>
Discard == <<"ready", "hasHead", "restore", "cleanUnborn">>
DiscardUntracked == <<"ready", "hasHead", "restore", "clean">>
Commit == <<"ready", "status", "commit">>
MergeRef == <<"ready", "verify", "merge">>
MergeNoCommit == <<"ready", "verify", "mergeNoCommit">>
RebaseRef == <<"ready", "verify", "rebase">>
CherryPick == <<"ready", "verify", "cherry-pick">>
PickNoCommit == <<"ready", "verify", "pickNoCommit">>
Continue == <<"ready", "readOperation", "continue">>
Abort == <<"ready", "readOperation", "abort">>

TreeMethods ==
  [stagePaths |-> Locked(Stage), unstagePaths |-> Locked(Unstage),
   discardPaths |-> Locked(Discard), discardUntracked |-> Locked(DiscardUntracked),
   commit |-> Locked(Commit), merge |-> Locked(MergeRef), mergeNoCommit |-> Locked(MergeNoCommit),
   rebase |-> Locked(RebaseRef), cherryPick |-> Locked(CherryPick),
   pickNoCommit |-> Locked(PickNoCommit), continueOperation |-> Locked(Continue),
   abortOperation |-> Locked(Abort)]

-----------------------------------------------------------------------------
(* remote.ts, under the methods of create_git_host/remote_methods.ts, which *)
(* record an activity.                                                     *)

Fetch == <<"ready", "fetch">>
Pull == <<"ready", "currentBranch", "pull">>
Push == <<"ready", "currentBranch", "push">>
FetchMethod == Locked(Fetch \o <<"activity">>)
PullMethod == Locked(Pull \o <<"activity">>)
PushMethod == Locked(Push \o <<"activity">>)

-----------------------------------------------------------------------------
(* forge/fork_methods.ts.  The status of a fork sets the upstream remote    *)
(* and fetches from it again.  No step takes the lock of the fork.         *)

CloneFork == <<"cloneBase", "config">>
EnsureUpstream == <<"upstream", "fetchUpstream">>
ForkStatus == <<"ready">> \o EnsureUpstream \o <<"compare">>

\* Mutant: the row is written before the fork is ready.
CreateForkRowFirst ==
  <<"readOverview", "createForkRepository", "forkRow">> \o CloneFork \o EnsureUpstream
    \o <<"activity">> \o ForkStatus
CreateFork ==
  <<"readOverview", "createForkRepository">> \o CloneFork \o EnsureUpstream
    \o <<"forkRow", "activity">> \o ForkStatus
\* The list of one fork, or of none.
ListForks == <<"readOverview", "listedFork">> \o ForkStatus
ListNoForks == <<"readOverview", "noFork">>
FastForward == <<"isAncestor", "syncFf">>
MergeUpstream == <<"syncMerge">>
Sync(strategy) ==
  <<"readFork", "readOverview", "readForkBranch", "onBranch">> \o EnsureUpstream \o strategy
    \o <<"activity">> \o ForkStatus

\* A fork whose HEAD is on no branch is brought to main by checkoutBranch of the host.
SyncDetached(strategy) ==
  <<"readFork", "readOverview", "readForkBranch", "offBranch">> \o EnsureUpstream \o CheckoutMain
    \o strategy \o <<"activity">> \o ForkStatus

-----------------------------------------------------------------------------
(* forge/release_methods.ts, actions/release_assets.ts.                    *)

CreateReleaseOfTag == <<"readTag", "normalizeAssets", "releaseRow", "activity">>

\* ensureReleaseTag makes the tag that is missing by createTag of the host.
CreateRelease == CreateTag \o CreateReleaseOfTag
UpdateRelease == <<"readRelease", "normalizeAssets", "updateRow", "activity">>
UpdateReleaseAssets == <<"readRelease", "normalizeAssets", "updateAssets", "activity">>
DeleteRelease == <<"readRelease", "deleteRow", "activity">>
DeleteReleaseAndTag == <<"readRelease", "deleteRow">> \o DeleteTag \o <<"activity">>

\* publishReleaseAsset of a workflow step: the row is read, an archive made, the
\* list of assets written back, without an older asset of the same file name.
PublishReleaseAsset == <<"resolveRelease", "compress", "appendAsset">>

\* forge/social_methods.ts
StarRepository == <<"setStar", "activity", "readSocialState">>

-----------------------------------------------------------------------------
(* The methods by name.                                                    *)

BranchMethods ==
  [createBranch |-> CreateBranch, createBranchCheckout |-> CreateBranchCheckout,
   checkoutBranch |-> CheckoutBranch, checkoutMain |-> CheckoutMain,
   checkoutRef |-> CheckoutRef, deleteBranch |-> DeleteBranch,
   createTag |-> CreateTag, deleteTag |-> DeleteTag]

RemoteMethods == [fetch |-> FetchMethod, pull |-> PullMethod, push |-> PushMethod]
EnsureMethods == [ensureRepository |-> EnsureRepository, ensureClone |-> EnsureOfRemote]

ForkMethods ==
  [createFork |-> CreateFork, listForks |-> ListForks, listNoForks |-> ListNoForks,
   syncFork |-> Sync(FastForward), syncForkMerge |-> Sync(MergeUpstream),
   syncDetached |-> SyncDetached(FastForward), syncDetachedMerge |-> SyncDetached(MergeUpstream)]

ReleaseMethods ==
  [createRelease |-> CreateRelease, createReleaseOfTag |-> CreateReleaseOfTag,
   updateRelease |-> UpdateRelease, updateReleaseAssets |-> UpdateReleaseAssets,
   deleteRelease |-> DeleteRelease, deleteReleaseAndTag |-> DeleteReleaseAndTag,
   publishReleaseAsset |-> PublishReleaseAsset, publishOtherAsset |-> PublishReleaseAsset,
   starRepository |-> StarRepository]

Program ==
  BranchMethods @@ TreeMethods @@ RemoteMethods @@ EnsureMethods @@ ForkMethods @@ ReleaseMethods

Setup == {"init", "initialCommit", "clone", "cloneBase", "setUrl", "config"}
Ref == {"branch", "checkout", "checkoutMain", "detach", "deleteBranch", "tag", "deleteTag"}
Tree == {"add", "unstage", "restore", "clean", "cleanUnborn", "commit", "mergeNoCommit", "pickNoCommit",
         "continue", "abort"} \cup Operation
Remote == {"fetch", "pull", "push", "upstream", "fetchUpstream", "syncFf", "syncMerge"}
GitStep == Setup \cup Ref \cup Tree \cup Remote

\* What git does in step s of a call that has found k.head and k.kind; but for the
\* commands that make a repository it refuses where there is none.
Effect(s, r, k) ==
  IF ~r.made /\ s \notin {"init", "clone", "cloneBase"} THEN {}
  ELSE IF s \in Setup THEN SetupEffect(s, r)
  ELSE IF s \in Ref THEN RefEffect(s, r)
  ELSE IF s \in Tree THEN TreeEffect(s, r, k)
  ELSE RemoteEffect(s, r)
===============================================================================
