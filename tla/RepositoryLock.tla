---------------------------- MODULE RepositoryLock ----------------------------
(***************************************************************************)
(* The per-repository mutex of core/locks.ts.  A module-level map holds,   *)
(* per key, the promise of the last caller (its tail).  withLock reads the *)
(* tail of its key, chains its own gate behind it, stores the new tail,    *)
(* waits for the old one, runs the operation and, whether that resolved or *)
(* rejected, opens its gate and drops the map entry if it is still its     *)
(* own.  Everything between two awaits is one action.                      *)
(*                                                                         *)
(* The operation is the embedder's: it may call withLock again and await   *)
(* the result (GitHost.withRepositoryLock hands it arbitrary code).        *)
(***************************************************************************)
EXTENDS FiniteSets

CONSTANTS Call,         \* the invocations of withLock, each made once
          RepositoryId, \* the ids callers pass
          Key,          \* the trimmed, non-empty ids
          NoKey,        \* the key of an id that is null or blank
          KeyOf,        \* KeyOf[id]: String(id).trim()
          NoCall        \* no promise, or no awaited call

ASSUME LockAssumption ==
  /\ NoKey \notin Key
  /\ NoCall \notin Call
  /\ KeyOf \in [RepositoryId -> Key \cup {NoKey}]

VARIABLES tails,    \* repositoryMutationTails: the call whose tail is stored
          key,      \* key[c]: the key of call c
          previous, \* previous[c]: the call whose tail c captured
          open,     \* the calls whose gate has been resolved
          settled,  \* the calls whose tail has settled
          pc,       \* pc[c]: where call c stands
          child,    \* child[c]: the withLock call c's operation awaits
          ahead     \* history: the unfinished calls that asked before c

vars == <<tails, key, previous, open, settled, pc, child, ahead>>

Stage == {"idle", "waiting", "running", "nested", "resolved", "rejected"}

\* The call holds the lock: its operation was started and has not ended.
Inside(c) == pc[c] \in {"running", "nested"}
Over(c) == pc[c] \in {"resolved", "rejected"}
Pending(c) == pc[c] \in {"waiting", "running", "nested"}

TypeOK ==
  /\ tails \in [Key -> Call \cup {NoCall}]
  /\ key \in [Call -> Key \cup {NoKey}]
  /\ previous \in [Call -> Call \cup {NoCall}]
  /\ open \in SUBSET Call
  /\ settled \in SUBSET Call
  /\ pc \in [Call -> Stage]
  /\ child \in [Call -> Call \cup {NoCall}]
  /\ ahead \in [Call -> SUBSET Call]

Init ==
  /\ tails = [k \in Key |-> NoCall]
  /\ key = [c \in Call |-> NoKey]
  /\ previous = [c \in Call |-> NoCall]
  /\ open = {}
  /\ settled = {}
  /\ pc = [c \in Call |-> "idle"]
  /\ child = [c \in Call |-> NoCall]
  /\ ahead = [c \in Call |-> {}]

-----------------------------------------------------------------------------
\* Who makes a call: code outside any lock (NoCall), or a running operation,
\* which then awaits it.
CalledBy(c, p) ==
  IF p = NoCall THEN child' = child /\ pc' = [pc EXCEPT ![c] = "waiting"]
  ELSE /\ pc[p] = "running"
       /\ child' = [child EXCEPT ![p] = c]
       /\ pc' = [pc EXCEPT ![c] = "waiting", ![p] = "nested"]

\* Mutant: the new tail is stored before the old one is read.
AcquireBehindItself(c, id, p) ==
  LET k == KeyOf[id] IN
  /\ pc[c] = "idle" /\ k # NoKey /\ p # c
  /\ CalledBy(c, p)
  /\ key' = [key EXCEPT ![c] = k]
  /\ tails' = [tails EXCEPT ![k] = c]
  /\ previous' = [previous EXCEPT ![c] = tails'[k]]
  /\ ahead' = [ahead EXCEPT ![c] = {d \in Call : Pending(d) /\ key[d] = k}]
  /\ UNCHANGED <<open, settled>>

\* Mutant: a missing tail is not replaced by a settled promise.
AcquireUndefined(c, id, p) ==
  LET k == KeyOf[id] IN
  /\ pc[c] = "idle" /\ k # NoKey /\ p # c
  /\ CalledBy(c, p)
  /\ key' = [key EXCEPT ![c] = k]
  /\ previous' = [previous EXCEPT ![c] = IF tails[k] = NoCall THEN NoKey ELSE tails[k]]
  /\ tails' = [tails EXCEPT ![k] = c]
  /\ UNCHANGED <<open, settled, ahead>>

\* withLock up to its first await, for a key that is not blank.
Acquire(c, id, p) ==
  LET k == KeyOf[id] IN
  /\ pc[c] = "idle"
  /\ k # NoKey
  /\ p # c
  /\ CalledBy(c, p)
  /\ key' = [key EXCEPT ![c] = k]
  /\ previous' = [previous EXCEPT ![c] = tails[k]]
  /\ tails' = [tails EXCEPT ![k] = c]
  /\ ahead' = [ahead EXCEPT ![c] = {d \in Call : Pending(d) /\ key[d] = k}]
  /\ UNCHANGED <<open, settled>>

\* A blank key runs the operation at once, under no lock.  (An inner call of
\* this kind takes no lock and is part of the operation that makes it.)
AcquireBlank(c, id) ==
  /\ pc[c] = "idle"
  /\ KeyOf[id] = NoKey
  /\ pc' = [pc EXCEPT ![c] = "running"]
  /\ UNCHANGED <<tails, key, previous, open, settled, child, ahead>>

\* previous.catch(() => {}).then(() => gate) settles.
SettleTail(c) ==
  /\ c \in open \ settled
  /\ previous[c] = NoCall \/ previous[c] \in settled
  /\ settled' = settled \cup {c}
  /\ UNCHANGED <<tails, key, previous, open, pc, child, ahead>>

\* Mutant: the old tail is not awaited.
AdmitAtOnce(c) ==
  /\ pc[c] = "waiting"
  /\ pc' = [pc EXCEPT ![c] = "running"]
  /\ UNCHANGED <<tails, key, previous, open, settled, child, ahead>>

\* await previous.catch(() => {}) returns and the operation starts.
Admit(c) ==
  /\ pc[c] = "waiting"
  /\ previous[c] = NoCall \/ previous[c] \in settled
  /\ pc' = [pc EXCEPT ![c] = "running"]
  /\ UNCHANGED <<tails, key, previous, open, settled, child, ahead>>

\* The awaited inner call ended; the operation goes on.
Resume(c) ==
  /\ pc[c] = "nested"
  /\ Over(child[c])
  /\ pc' = [pc EXCEPT ![c] = "running"]
  /\ child' = [child EXCEPT ![c] = NoCall]
  /\ UNCHANGED <<tails, key, previous, open, settled, ahead>>

\* What the mutants of Finish share: the call leaves, and may open its gate.
Leaves(c, result, opens) ==
  /\ pc[c] = "running"
  /\ pc' = [pc EXCEPT ![c] = result]
  /\ ahead' = [d \in Call |-> ahead[d] \ {c}]
  /\ open' = IF key[c] # NoKey /\ opens THEN open \cup {c} ELSE open
  /\ UNCHANGED <<key, previous, settled, child>>
Dropped(c) == [k \in Key |-> IF k = key[c] /\ tails[k] = c THEN NoCall ELSE tails[k]]

\* Mutants: the entry is dropped whoever owns it; it is never dropped; only an
\* operation that resolved opens the gate.
FinishDropsAnyEntry(c, result) ==
  Leaves(c, result, TRUE) /\ tails' = [k \in Key |-> IF k = key[c] THEN NoCall ELSE tails[k]]
FinishKeepsEntry(c, result) == Leaves(c, result, TRUE) /\ UNCHANGED tails
FinishOpensOnSuccess(c, result) == Leaves(c, result, result = "resolved") /\ tails' = Dropped(c)

\* The operation ends either way; the finally block runs for a locked call.
Finish(c, result) ==
  /\ pc[c] = "running"
  /\ pc' = [pc EXCEPT ![c] = result]
  /\ ahead' = [d \in Call |-> ahead[d] \ {c}]
  /\ \/ /\ key[c] = NoKey
        /\ UNCHANGED <<open, tails>>
     \/ /\ key[c] # NoKey
        /\ open' = open \cup {c}
        /\ tails' = [k \in Key |-> IF k = key[c] /\ tails[k] = c THEN NoCall ELSE tails[k]]
  /\ UNCHANGED <<key, previous, settled, child>>

Next ==
  \E c \in Call :
    \/ \E id \in RepositoryId, p \in Call \cup {NoCall} : Acquire(c, id, p)
    \/ \E id \in RepositoryId : AcquireBlank(c, id)
    \/ SettleTail(c)
    \/ Admit(c)
    \/ Resume(c)
    \/ \E result \in {"resolved", "rejected"} : Finish(c, result)

Spec == Init /\ [][Next]_vars

\* The event loop runs every ready continuation; an operation ends by itself.
Fairness ==
  \A c \in Call :
    /\ WF_vars(SettleTail(c))
    /\ WF_vars(Admit(c))
    /\ WF_vars(Resume(c))
    /\ WF_vars(\E result \in {"resolved", "rejected"} : Finish(c, result))

FairSpec == Spec /\ Fairness

-----------------------------------------------------------------------------
(* Properties.                                                             *)

\* Two operations on one repository never overlap (locks.ts:18-20): for every
\* history of arrivals, failures and deleted map entries, at most one call per
\* key is between the start and the end of its operation.
MutualExclusion ==
  \A c, d \in Call : Inside(c) /\ Inside(d) /\ key[c] = key[d] /\ key[c] # NoKey => c = d

\* The map entry of a key exists exactly while some call for it is pending, and
\* it is then the last of them: no entry outlives its calls (locks.ts:23-25),
\* and none is dropped under a call that still waits.
TailIsLastPending ==
  \A k \in Key :
    LET line == {c \in Call : Pending(c) /\ key[c] = k} IN
    IF tails[k] = NoCall THEN line = {}
    ELSE tails[k] \in line /\ \A d \in line : tails[k] \notin ahead[d]

\* A set of calls in which everyone waits for another of the set.
WaitCycle(S) ==
  /\ S # {}
  /\ \A c \in S : \/ pc[c] = "waiting" /\ previous[c] \in S
                  \/ pc[c] = "nested" /\ child[c] \in S
Stuck(c) == \E S \in SUBSET Call : c \in S /\ WaitCycle(S)

\* The lock is not re-entrant, so nested calls can wait for each other for
\* ever; without an operation that awaits an inner call nobody is ever stuck.
StuckNeedsNesting ==
  \A c \in Call : Stuck(c) => \E d \in Call : pc[d] = "nested" /\ key[d] # NoKey

\* Every waiting call gets its turn, unless nested calls wait in a circle
\* ahead of it: a rejected operation or a deleted entry never strands it.
EveryCallIsAdmitted ==
  \A c \in Call : (pc[c] = "waiting") ~> (pc[c] # "waiting" \/ Stuck(c))

\* The lock implements first-come first-served access per key.
StageOf(c) == IF pc[c] = "idle" THEN "outside"
              ELSE IF pc[c] = "waiting" THEN "queued"
              ELSE IF Inside(c) THEN "inside" ELSE "left"
Access == INSTANCE SerialAccess WITH wants <- key, stage <- [c \in Call |-> StageOf(c)]
ServesInOrder == Access!AbsSpec
===============================================================================
