-------------------------- MODULE HostOperationsProofs -------------------------
(***************************************************************************)
(* Proofs about the methods of the host and the forge, for any number of   *)
(* callers, whatever they ask for, and any faults.                         *)
(*                                                                         *)
(* The methods are a finite table, of which MethodsAssumption says what    *)
(* matters here.  LockInv ties the lock to the place of each call in its   *)
(* method: a call holds the lock of the repository it works on exactly     *)
(* between the two steps of its method that take it and give it back.      *)
(* WroughtInv and HeadInv, further down, say what a call has brought about *)
(* so far, that nobody has taken it back, and that it knows whether HEAD   *)
(* has a commit.                                                           *)
(***************************************************************************)
EXTENDS HostOperations, TLAPS

LockInv ==
  /\ \A c \in Call : Running(c) =>
       call[c].op \in DOMAIN Program /\ call[c].pc \in 1..Len(Program[call[c].op])
  /\ \A c \in Call, p \in Path :
       holder[p] = c <=> Running(c) /\ call[c].on = p /\ Held(call[c].op, call[c].pc)

IInv == TypeOK /\ LockInv

-----------------------------------------------------------------------------
(* The table of the methods and the effects of git.                        *)

LEMMA LenProgram == \A n \in DOMAIN Program : Len(Program[n]) \in 1..21
BY MethodsAssumption

LEMMA HeldAtFirst == \A n \in DOMAIN Program : ~Held(n, 1)
BY DEF Held

LEMMA HeldNext ==
  ASSUME NEW n \in DOMAIN Program, NEW i \in 1..Len(Program[n])
  PROVE  /\ Program[n][i] = "lock" => Held(n, i + 1)
         /\ Program[n][i] = "unlock" => ~Held(n, i + 1)
         /\ Program[n][i] \notin {"lock", "unlock"} => (Held(n, i + 1) <=> Held(n, i))
<1>1. i \in Nat /\ i >= 1 /\ (i + 1) - 1 = i
  BY MethodsAssumption
<1>2. ASSUME Program[n][i] = "lock" PROVE Held(n, i + 1)
  <2>1. i \in 1..((i + 1) - 1) /\ \A k \in i..((i + 1) - 1) : Program[n][k] # "unlock"
    BY <1>1, <1>2
  <2> QED BY <2>1, <1>2 DEF Held
<1>3. ASSUME Program[n][i] = "unlock", Held(n, i + 1) PROVE FALSE
  <2>1. PICK j \in 1..((i + 1) - 1) : \A k \in j..((i + 1) - 1) : Program[n][k] # "unlock"
    BY <1>3 DEF Held
  <2>2. i \in j..((i + 1) - 1)
    BY <1>1, <2>1
  <2> QED BY <2>1, <2>2, <1>3
<1>4. ASSUME Program[n][i] \notin {"lock", "unlock"}, Held(n, i) PROVE Held(n, i + 1)
  <2>1. PICK j \in 1..(i - 1) :
          Program[n][j] = "lock" /\ \A k \in j..(i - 1) : Program[n][k] # "unlock"
    BY <1>4 DEF Held
  <2>2. j \in 1..((i + 1) - 1) /\ \A k \in j..((i + 1) - 1) : k \in j..(i - 1) \/ k = i
    BY <1>1, <2>1
  <2> QED BY <2>1, <2>2, <1>4 DEF Held
<1>5. ASSUME Program[n][i] \notin {"lock", "unlock"}, Held(n, i + 1) PROVE Held(n, i)
  <2>1. PICK j \in 1..((i + 1) - 1) :
          Program[n][j] = "lock" /\ \A k \in j..((i + 1) - 1) : Program[n][k] # "unlock"
    BY <1>5 DEF Held
  <2>2. j # i
    BY <2>1, <1>5
  <2>3. j \in 1..(i - 1) /\ \A k \in j..(i - 1) : k \in j..((i + 1) - 1)
    BY <1>1, <2>1, <2>2
  <2> QED BY <2>1, <2>3 DEF Held
<1> QED BY <1>2, <1>3, <1>4, <1>5

LEMMA CommittedType == ASSUME NEW r \in Repository PROVE Committed(r) \in Repository
<1>1. \E o \in Operation \cup {""}, b \in SUBSET Branch :
        Committed(r) = [r EXCEPT !.born = TRUE, !.staged = FALSE, !.op = o, !.branches = b]
  <2> DEFINE o == IF r.op = "rebase" THEN r.op ELSE ""
             b == r.branches \cup ({r.head} \cap Branch)
  <2>1. o \in Operation \cup {""} /\ b \in SUBSET Branch
    BY DEF Repository
  <2>2. Committed(r) = [r EXCEPT !.born = TRUE, !.staged = FALSE, !.op = o, !.branches = b]
    BY DEF Committed
  <2> HIDE DEF o, b
  <2> QED BY <2>1, <2>2
<1> QED BY <1>1 DEF Repository

LEMMA SetupType ==
  ASSUME NEW r \in Repository, NEW s, NEW x \in SetupEffect(s, r)
  PROVE  x \in Repository
<1>1. CASE x = r \/ x = [r EXCEPT !.made = TRUE]
  BY <1>1 DEF Repository
<1>2. CASE x = [r EXCEPT !.made = TRUE, !.born = TRUE, !.branches = {"main"}, !.origin = "clone"]
  BY <1>2 DEF Repository, Branch
<1>3. CASE x = [r EXCEPT !.made = TRUE, !.born = TRUE, !.branches = {"main"}, !.origin = "base"]
  BY <1>3 DEF Repository, Branch
<1>4. CASE x = [Committed(r) EXCEPT !.work = FALSE]
  BY <1>4, CommittedType DEF Repository
<1>5. CASE x = [r EXCEPT !.origin = "remote"] \/ x = [r EXCEPT !.hosted = TRUE]
  BY <1>5 DEF Repository
<1>6. CASE \E b \in BOOLEAN, t \in BOOLEAN : x = [r EXCEPT !.head = "main", !.born = b, !.staged = t]
  BY <1>6 DEF Repository, Branch
<1>7. ("main" \in r.branches) \in BOOLEAN /\ r.staged \in BOOLEAN
  <2>1. ("main" \in r.branches) \in BOOLEAN
    OBVIOUS
  <2>2. r.staged \in BOOLEAN
    BY DEF Repository
  <2> QED BY <2>1, <2>2
<1>8. CASE s = "init"
  <2>1. \/ x = [r EXCEPT !.made = TRUE]
        \/ \E t \in {r.staged, TRUE} :
             x = [r EXCEPT !.head = "main", !.born = "main" \in r.branches, !.staged = t]
    BY <1>8 DEF SetupEffect
  <2> QED BY <1>1, <1>6, <1>7, <2>1
<1>9. CASE s = "initialCommit"
  BY <1>1, <1>4, <1>9 DEF SetupEffect
<1>10. CASE s \notin {"init", "initialCommit"}
  BY <1>2, <1>3, <1>5, <1>10 DEF SetupEffect
<1> QED BY <1>8, <1>9, <1>10

LEMMA RefType ==
  ASSUME NEW r \in Repository, NEW s \in Ref, NEW x \in RefEffect(s, r)
  PROVE  x \in Repository
<1>1. CASE \E names \in SUBSET Branch : x = [r EXCEPT !.branches = names]
  BY <1>1 DEF Repository
<1>2. CASE \E h \in Branch \cup {"detached"} : x = [r EXCEPT !.head = h]
  BY <1>2 DEF Repository
<1>3. CASE \E b \in BOOLEAN : x = [r EXCEPT !.tagged = b]
  BY <1>3 DEF Repository
<1>4. r.branches \cup {"dev"} \in SUBSET Branch /\ r.branches \ {"dev"} \in SUBSET Branch
  BY DEF Repository, Branch
<1>5. CASE s \in {"branch", "deleteBranch"}
  BY <1>1, <1>4, <1>5 DEF RefEffect
<1>6. CASE s \in {"checkout", "checkoutMain", "detach"}
  BY <1>2, <1>6 DEF RefEffect, Branch
<1>7. CASE s \in {"tag", "deleteTag"}
  BY <1>3, <1>7 DEF RefEffect
<1> QED BY <1>5, <1>6, <1>7 DEF Ref

LEMMA TreeType ==
  ASSUME NEW r \in Repository, NEW k, NEW s \in Tree, NEW x \in TreeEffect(s, r, k)
  PROVE  x \in Repository
<1>1. CASE \E w \in BOOLEAN, t \in BOOLEAN : x = [r EXCEPT !.work = w, !.staged = t]
  BY <1>1 DEF Repository
<1>2. CASE \E t \in BOOLEAN, w \in BOOLEAN : x = [r EXCEPT !.staged = t, !.work = w]
  BY <1>2 DEF Repository
<1>3. CASE \E w \in BOOLEAN : x = [r EXCEPT !.work = w] \/ x = r
  BY <1>3 DEF Repository
<1>4. CASE s = "commit"
  BY <1>4, CommittedType DEF TreeEffect, Operation
<1>5. CASE x = [r EXCEPT !.work = FALSE, !.staged = FALSE, !.op = ""]
  BY <1>5 DEF Repository
<1>6. r.work \in BOOLEAN /\ r.staged \in BOOLEAN
  BY DEF Repository
<1>7. CASE s \in {"add", "unstage"}
  BY <1>7, <1>1, <1>2, <1>6 DEF TreeEffect, Operation
<1>8. CASE s \in {"restore", "clean", "cleanUnborn"}
  BY <1>8, <1>2, <1>3, <1>6 DEF TreeEffect, Operation
<1>9. CASE s \in Operation \cup {"continue", "abort"}
  BY <1>9, <1>3, <1>5 DEF TreeEffect, Operation, Settled
<1>10. CASE s \in {"mergeNoCommit", "pickNoCommit"}
  <2>1. \/ x = r \/ x = [r EXCEPT !.op = "merge", !.staged = TRUE] \/ x = [r EXCEPT !.staged = TRUE]
    BY <1>10 DEF TreeEffect, Operation
  <2> QED BY <2>1 DEF Repository, Operation
<1> QED BY <1>4, <1>7, <1>8, <1>9, <1>10 DEF Tree

LEMMA RemoteType ==
  ASSUME NEW r \in Repository, NEW s \in Remote, NEW x \in RemoteEffect(s, r)
  PROVE  x \in Repository
<1>1. CASE x = r \/ x = [r EXCEPT !.upstream = TRUE] \/ x = [r EXCEPT !.fetched = TRUE]
  BY <1>1 DEF Repository
<1> QED BY <1>1 DEF RemoteEffect, Remote

LEMMA EffectType ==
  ASSUME NEW r \in Repository, NEW k, NEW s \in GitStep, NEW x \in Effect(s, r, k)
  PROVE  x \in Repository
<1>1. CASE s \in Setup
  BY <1>1, SetupType DEF Effect
<1>2. CASE s \notin Setup /\ s \in Ref
  BY <1>2, RefType DEF Effect
<1>3. CASE s \notin Setup /\ s \notin Ref /\ s \in Tree
  BY <1>3, TreeType DEF Effect
<1>4. CASE s \notin Setup /\ s \notin Ref /\ s \notin Tree
  BY <1>4, RemoteType DEF Effect, GitStep
<1> QED BY <1>1, <1>2, <1>3, <1>4

LEMMA MessType ==
  ASSUME NEW s, NEW r \in Repository, NEW x \in Mess(s, r)
  PROVE  x \in Repository
<1>1. \/ x = r
      \/ \E o \in Operation : x = [r EXCEPT !.op = o, !.work = TRUE]
      \/ x = [r EXCEPT !.work = TRUE] \/ x = [r EXCEPT !.made = TRUE]
      \/ \E t \in BOOLEAN : x = [r EXCEPT !.staged = t, !.work = FALSE]
  <2>1. (r.staged \/ r.work) \in BOOLEAN
    BY DEF Repository
  <2> QED BY <2>1 DEF Mess, Operation
<1> QED BY ZenonT(30), <1>1 DEF Repository, Operation

\* What git leaves alone where it fails: only its own steps can make a mess.
LEMMA MessIsOfGit ==
  ASSUME NEW s, NEW r, NEW x \in Mess(s, r), x # r
  PROVE  s \in GitStep
BY DEF Mess, GitStep, Setup, Operation, Remote, Tree

-----------------------------------------------------------------------------
(* Steps other than taking the lock and giving it back.                    *)

\* The call of c moves on in its method, the others stay.
Moved(c) ==
  /\ \A d \in Call \ {c} : call'[d] = call[d]
  /\ call'[c].op = call[c].op /\ call'[c].on = call[c].on
  /\ call[c].pc = Len(Program[call[c].op]) => call'[c].result = "ok"
  /\ call[c].pc # Len(Program[call[c].op]) =>
       call'[c].result = "running" /\ call'[c].pc = call[c].pc + 1

LEMMA FreshType ==
  ASSUME NEW n \in DOMAIN Program \cup {"none"}, NEW p \in Path, NEW i \in 0..21,
         NEW result \in {"idle", "running", "ok", "error"}
  PROVE  Fresh(n, p, i, result) \in CallState
<1>1. {} \in SUBSET Asset
  OBVIOUS
<1> QED BY <1>1 DEF Fresh, CallState

LEMMA IdleType == Idle \in CallState /\ Idle.result = "idle"
<1>1. 0 \in 0..21 /\ "base" \in Path
  BY DEF Path
<1> QED BY <1>1, FreshType DEF Idle, Fresh

LEMMA EndedIs ==
  ASSUME NEW k \in CallState, NEW result \in {"ok", "error"}
  PROVE  /\ Ended(k, result) \in CallState
         /\ Ended(k, result).op = k.op /\ Ended(k, result).on = k.on
         /\ Ended(k, result).result = result /\ Ended(k, result).exists = k.exists
<1>1. k.op \in DOMAIN Program \cup {"none"} /\ k.on \in Path
  BY Zenon DEF CallState
<1>2. 0 \in 0..21
  OBVIOUS
<1>3. PICK q : q = Fresh(k.op, k.on, 0, result)
  OBVIOUS
<1>4. q \in CallState /\ q.op = k.op /\ q.on = k.on /\ q.result = result
  BY <1>1, <1>2, <1>3, FreshType DEF Fresh
<1>5. Ended(k, result) = [q EXCEPT !.exists = k.exists] /\ k.exists \in BOOLEAN
  BY <1>3 DEF Ended, CallState
<1> QED BY <1>4, <1>5 DEF CallState

LEMMA AdvancedMoves ==
  ASSUME NEW k \in CallState, k.op \in DOMAIN Program, k.pc \in 1..Len(Program[k.op]),
         k.result = "running"
  PROVE  /\ Advanced(k) \in CallState /\ Advanced(k).op = k.op /\ Advanced(k).on = k.on
         /\ Advanced(k).exists = k.exists
         /\ k.pc # Len(Program[k.op]) => Advanced(k).head = k.head
         /\ k.pc = Len(Program[k.op]) => Advanced(k).result = "ok"
         /\ k.pc # Len(Program[k.op]) => Advanced(k).result = "running" /\ Advanced(k).pc = k.pc + 1
<1>1. CASE k.pc = Len(Program[k.op])
  BY <1>1, EndedIs DEF Advanced
<1>2. CASE k.pc # Len(Program[k.op])
  <2>1. Len(Program[k.op]) \in 1..21
    BY MethodsAssumption
  <2>2. \A m \in 1..21 : \A i \in 1..m : i # m => i + 1 \in 0..21
    OBVIOUS
  <2>3. k.pc + 1 \in 0..21
    BY <1>2, <2>1, <2>2, Zenon
  <2> QED BY <1>2, <2>3 DEF Advanced, CallState
<1> QED BY <1>1, <1>2

LEMMA AdvanceMoves ==
  ASSUME IInv, NEW c \in Call, Running(c), Advance(c)
  PROVE  Moved(c) /\ call' \in [Call -> CallState]
<1>1. /\ call[c] \in CallState /\ call[c].op \in DOMAIN Program
      /\ call[c].pc \in 1..Len(Program[call[c].op]) /\ call[c].result = "running"
  BY DEF IInv, TypeOK, LockInv, Running
<1>2. call'[c] = Advanced(call[c]) /\ \A d \in Call \ {c} : call'[d] = call[d]
  BY DEF IInv, TypeOK, Advance
<1>3. Advanced(call[c]) \in CallState
  BY <1>1, AdvancedMoves
<1>4. call' \in [Call -> CallState]
  BY <1>3 DEF IInv, TypeOK, Advance
<1> QED BY <1>1, <1>2, <1>4, AdvancedMoves DEF Moved

LEMMA MovedKeepsLockInv ==
  ASSUME IInv, NEW c \in Call, Running(c), Moved(c), holder' = holder,
         StepOf(c) \notin {"lock", "unlock"}
  PROVE  LockInv'
<1> DEFINE n == call[c].op
           i == call[c].pc
<1>1. n \in DOMAIN Program /\ i \in 1..Len(Program[n]) /\ Len(Program[n]) \in Nat
  BY MethodsAssumption DEF IInv, LockInv
<1>2. Program[n][i] \notin {"lock", "unlock"}
  BY DEF StepOf
<1>3. Held(n, i + 1) <=> Held(n, i)
  BY <1>1, <1>2, HeldNext
<1>4. i = Len(Program[n]) => ~Held(n, i)
  BY <1>1, <1>3, MethodsAssumption
<1> HIDE DEF n, i
<1>5. ASSUME NEW d \in Call, d # c PROVE call'[d] = call[d]
  BY <1>5 DEF Moved
<1>6. i # Len(Program[n]) => i + 1 \in 1..Len(Program[n])
  BY <1>1
<1>7. call'[c].op = n /\ call'[c].on = call[c].on
  BY DEF Moved, n
<1>8. CASE i = Len(Program[n])
  <2>1. call'[c].result = "ok"
    BY <1>8 DEF Moved, n, i
  <2>2. \A p \in Path : holder[p] # c
    BY <1>4, <1>8 DEF IInv, LockInv, n, i
  <2> QED BY <1>5, <2>1, <2>2 DEF IInv, LockInv, Running
<1>9. CASE i # Len(Program[n])
  <2>1. call'[c].result = "running" /\ call'[c].pc = i + 1
    BY <1>9 DEF Moved, n, i
  <2>2. \A p \in Path : holder[p] = c <=> call[c].on = p /\ Held(n, i)
    BY DEF IInv, LockInv, n, i
  <2> QED BY <1>1, <1>3, <1>5, <1>6, <1>7, <1>9, <2>1, <2>2 DEF IInv, LockInv, Running
<1> QED BY <1>8, <1>9
-----------------------------------------------------------------------------
(* The invariant.                                                          *)

\* The rows and the history, the parts of TypeOK that most steps leave alone.
RowsOK ==
  /\ release \in [ReleaseId -> [there : BOOLEAN, assets : SUBSET Asset]]
  /\ \A i \in ReleaseId : ~release[i].there => release[i].assets = {}
  /\ forkRow \in BOOLEAN /\ starred \in BOOLEAN /\ activity \subseteq Call
HistoryOK == killed \subseteq Call /\ misread \subseteq Call /\ disturbed \subseteq Call

LEMMA TypeOKParts ==
  TypeOK <=> /\ repo \in [Path -> Repository] /\ holder \in [Path -> Call \cup {Nobody}]
             /\ call \in [Call -> CallState] /\ RowsOK /\ HistoryOK
BY DEF TypeOK, RowsOK, HistoryOK

LEMMA RowsStay == ASSUME RowsOK, UNCHANGED rows PROVE RowsOK'
BY DEF RowsOK, rows

LEMMA HistoryStays == ASSUME HistoryOK, UNCHANGED history PROVE HistoryOK'
BY DEF HistoryOK, history

LEMMA InitIInv == Init => IInv
<1> SUFFICES ASSUME Init PROVE IInv
  OBVIOUS
<1>1. repo \in [Path -> Repository] /\ holder \in [Path -> Call \cup {Nobody}]
  BY OperationsAssumption DEF Init
<1>2. Idle \in CallState /\ Idle.result = "idle"
  BY IdleType
<1>3. call \in [Call -> CallState] /\ \A c \in Call : ~Running(c)
  BY <1>2 DEF Init, Running
<1>4. RowsOK
  <2>1. /\ NoRelease \in [there : BOOLEAN, assets : SUBSET Asset] /\ NoRelease.assets = {}
        /\ NewRelease \in [there : BOOLEAN, assets : SUBSET Asset] /\ NewRelease.there
    BY DEF NoRelease, NewRelease, Asset
  <2>2. repo["fork"].upstream \in BOOLEAN
    BY <1>1 DEF Path, Repository
  <2>3. \A i \in ReleaseId : release[i] = NoRelease \/ release[i] = NewRelease
    BY DEF Init
  <2>4. release \in [ReleaseId -> [there : BOOLEAN, assets : SUBSET Asset]]
    BY <2>1 DEF Init
  <2> QED BY <2>1, <2>2, <2>3, <2>4 DEF Init, RowsOK
<1>5. HistoryOK
  BY DEF Init, HistoryOK
<1>6. LockInv
  BY <1>3, OperationsAssumption DEF Init, LockInv
<1> QED BY <1>1, <1>3, <1>4, <1>5, <1>6, TypeOKParts DEF IInv

LEMMA BeginKeepsIInv ==
  ASSUME IInv, NEW c \in Call, NEW a \in Asked, Begin(c, a[1], a[2])
  PROVE  IInv'
<1> DEFINE k == Fresh(a[1], a[2], 1, "running")
<1>1. a[1] \in DOMAIN Program /\ a[2] \in Path /\ 1 \in 0..21
  BY OperationsAssumption
<1>2. k \in CallState /\ k.op = a[1] /\ k.pc = 1
  BY <1>1, FreshType DEF Fresh
<1>3. call'[c] = k /\ (\A d \in Call \ {c} : call'[d] = call[d]) /\ call' \in [Call -> CallState]
  BY <1>2 DEF Begin, IInv, TypeOK
<1> HIDE DEF k
<1>4. TypeOK'
  <2>1. RowsOK' /\ HistoryOK'
    BY RowsStay, HistoryStays, TypeOKParts DEF IInv, Begin
  <2>2. repo' = repo /\ holder' = holder
    BY DEF Begin
  <2> QED BY <1>3, <2>1, <2>2 DEF IInv, TypeOK, RowsOK, HistoryOK
<1>5. 1 \in 1..Len(Program[a[1]]) /\ ~Held(a[1], 1)
  <2>1. \A m \in 1..21 : 1 \in 1..m
    OBVIOUS
  <2>2. Len(Program[a[1]]) \in 1..21
    BY <1>1, LenProgram
  <2>3. 1 \in 1..Len(Program[a[1]])
    BY <2>1, <2>2, Zenon
  <2> QED BY <1>1, <2>3, HeldAtFirst
<1>6. ~Running(c) /\ holder' = holder
  BY DEF Begin, Running
<1>7. \A p \in Path : holder[p] # c
  BY <1>6 DEF IInv, LockInv
<1>8. LockInv'
  BY <1>1, <1>2, <1>3, <1>5, <1>6, <1>7 DEF IInv, LockInv, Running
<1> QED BY <1>4, <1>8 DEF IInv

\* A call that moves on between the lock and its release.
LEMMA MoveKeepsIInv ==
  ASSUME IInv, NEW c \in Call, Running(c), Moved(c), call' \in [Call -> CallState],
         StepOf(c) \notin {"lock", "unlock"}, holder' = holder,
         repo' \in [Path -> Repository], RowsOK', HistoryOK'
  PROVE  IInv'
<1>1. LockInv'
  BY MovedKeepsLockInv
<1>2. holder' \in [Path -> Call \cup {Nobody}]
  BY DEF IInv, TypeOK
<1>3. TypeOK'
  BY <1>2 DEF TypeOK, RowsOK, HistoryOK
<1> QED BY <1>1, <1>3 DEF IInv

LEMMA LockKeepsIInv ==
  ASSUME IInv, NEW c \in Call, Lock(c)
  PROVE  IInv'
<1> DEFINE n == call[c].op
           i == call[c].pc
           o == call[c].on
<1>1. Running(c) /\ Program[n][i] = "lock" /\ holder[o] = Nobody
  BY DEF Lock, At, StepOf
<1>2. n \in DOMAIN Program /\ i \in 1..Len(Program[n]) /\ Len(Program[n]) \in Nat
  BY <1>1, MethodsAssumption DEF IInv, LockInv
<1>3. Held(n, i + 1)
  BY <1>1, <1>2, HeldNext
<1>4. i # Len(Program[n])
  BY <1>2, <1>3, MethodsAssumption
<1>5. Moved(c) /\ call' \in [Call -> CallState]
  BY <1>1, AdvanceMoves DEF Lock
<1>6. o \in Path /\ holder \in [Path -> Call \cup {Nobody}]
  BY DEF IInv, TypeOK, CallState
<1>7. holder' = [holder EXCEPT ![o] = c] /\ holder' \in [Path -> Call \cup {Nobody}]
  BY <1>6 DEF Lock
<1>8. call'[c].result = "running" /\ call'[c].pc = i + 1 /\ call'[c].op = n /\ call'[c].on = o
  BY <1>4, <1>5 DEF Moved
<1>9. \A d \in Call \ {c} : call'[d] = call[d]
  BY <1>5 DEF Moved
<1> HIDE DEF n, i, o
<1>10. i + 1 \in 1..Len(Program[n])
  BY <1>2, <1>4
<1>11. ASSUME NEW p \in Path
       PROVE  holder'[p] = c <=> Running(c)' /\ call'[c].on = p /\ Held(n, i + 1)
  <2>1. p # o => holder[p] # c
    BY DEF IInv, LockInv, o
  <2> QED BY <2>1, <1>3, <1>6, <1>7, <1>8 DEF Running
<1>12. ASSUME NEW p \in Path, NEW d \in Call \ {c}
       PROVE  holder'[p] = d <=> Running(d) /\ call[d].on = p /\ Held(call[d].op, call[d].pc)
  <2>1. holder[p] = d <=> Running(d) /\ call[d].on = p /\ Held(call[d].op, call[d].pc)
    BY DEF IInv, LockInv
  <2>2. holder[o] # d
    BY <1>1, OperationsAssumption DEF o
  <2> QED BY <2>1, <2>2, <1>6, <1>7
<1>13. LockInv'
  <2>1. ASSUME NEW d \in Call, Running(d)'
        PROVE  call'[d].op \in DOMAIN Program /\ call'[d].pc \in 1..Len(Program[call'[d].op])
    <3>1. CASE d = c
      BY <3>1, <1>2, <1>8, <1>10
    <3>2. CASE d # c
      BY <2>1, <3>2, <1>9 DEF IInv, LockInv, Running
    <3> QED BY <3>1, <3>2
  <2>2. ASSUME NEW d \in Call, NEW p \in Path
        PROVE  holder'[p] = d <=> Running(d)' /\ call'[d].on = p /\ Held(call'[d].op, call'[d].pc)
    <3>1. CASE d = c
      BY <3>1, <1>8, <1>11
    <3>2. CASE d # c
      BY <3>2, <1>9, <1>12 DEF Running
    <3> QED BY <3>1, <3>2
  <2> QED BY <2>1, <2>2 DEF LockInv
<1>14. TypeOK'
  <2>1. RowsOK' /\ HistoryOK' /\ repo' = repo
    BY RowsStay, HistoryStays, TypeOKParts DEF IInv, Lock
  <2> QED BY <2>1, <1>5, <1>7 DEF IInv, TypeOK, RowsOK, HistoryOK
<1> QED BY <1>13, <1>14 DEF IInv

LEMMA UnlockKeepsIInv ==
  ASSUME IInv, NEW c \in Call, Unlock(c)
  PROVE  IInv'
<1> DEFINE n == call[c].op
           i == call[c].pc
           o == call[c].on
<1>1. Running(c) /\ Program[n][i] = "unlock"
  BY DEF Unlock, At, StepOf
<1>2. n \in DOMAIN Program /\ i \in 1..Len(Program[n]) /\ Len(Program[n]) \in Nat
  BY <1>1, MethodsAssumption DEF IInv, LockInv
<1>3. Held(n, i) /\ ~Held(n, i + 1)
  BY <1>1, <1>2, HeldNext, MethodsAssumption
<1>4. Moved(c) /\ call' \in [Call -> CallState]
  BY <1>1, AdvanceMoves DEF Unlock
<1>5. o \in Path /\ holder \in [Path -> Call \cup {Nobody}]
  BY DEF IInv, TypeOK, CallState
<1>6. holder' = [holder EXCEPT ![o] = Nobody] /\ holder' \in [Path -> Call \cup {Nobody}]
  BY <1>5 DEF Unlock
<1>7. holder[o] = c
  BY <1>1, <1>3, <1>5 DEF IInv, LockInv
<1>8. \A p \in Path : holder'[p] # c
  <2>1. \A p \in Path : holder[p] = c => p = o
    BY DEF IInv, LockInv
  <2> QED BY <2>1, <1>5, <1>6, OperationsAssumption
<1>9. /\ call'[c].op = n /\ call'[c].on = o /\ \A d \in Call \ {c} : call'[d] = call[d]
      /\ i = Len(Program[n]) => call'[c].result = "ok"
      /\ i # Len(Program[n]) => call'[c].pc = i + 1
  BY <1>4 DEF Moved
<1> HIDE DEF n, i, o
<1>10. i # Len(Program[n]) => i + 1 \in 1..Len(Program[n])
  BY <1>2
<1>11. LockInv'
  <2>1. ASSUME NEW d \in Call, Running(d)'
        PROVE  call'[d].op \in DOMAIN Program /\ call'[d].pc \in 1..Len(Program[call'[d].op])
    <3>1. CASE d = c
      BY <2>1, <3>1, <1>2, <1>9, <1>10 DEF Running
    <3>2. CASE d # c
      BY <2>1, <3>2, <1>9 DEF IInv, LockInv, Running
    <3> QED BY <3>1, <3>2
  <2>2. ASSUME NEW d \in Call, NEW p \in Path
        PROVE  holder'[p] = d <=> Running(d)' /\ call'[d].on = p /\ Held(call'[d].op, call'[d].pc)
    <3>1. CASE d = c
      BY <3>1, <1>3, <1>8, <1>9 DEF Running
    <3>2. CASE d # c
      <4>1. holder'[p] = d <=> holder[p] = d
        BY <3>2, <1>5, <1>6, <1>7, OperationsAssumption
      <4> QED BY <4>1, <3>2, <1>9 DEF IInv, LockInv, Running
    <3> QED BY <3>1, <3>2
  <2> QED BY <2>1, <2>2 DEF LockInv
<1>12. TypeOK'
  <2>1. RowsOK' /\ HistoryOK' /\ repo' = repo
    BY RowsStay, HistoryStays, TypeOKParts DEF IInv, Unlock
  <2> QED BY <2>1, <1>4, <1>6 DEF IInv, TypeOK, RowsOK, HistoryOK
<1> QED BY <1>11, <1>12 DEF IInv

\* The repository of a call, and git in it.
LEMMA PathType ==
  ASSUME IInv, NEW c \in Call
  PROVE  PathOf(c) \in Path /\ Here(c) \in Repository
<1>1. call[c].on \in Path
  BY DEF IInv, TypeOK, CallState
<1>2. PathOf(c) \in Path
  BY <1>1 DEF PathOf, Path
<1> QED BY <1>2 DEF IInv, TypeOK, Here

LEMMA OmitKeepsIInv ==
  ASSUME IInv, NEW c \in Call, Omit(c)
  PROVE  IInv'
<1>1. Running(c) /\ StepOf(c) \notin {"lock", "unlock"}
  BY DEF Omit, Omitted
<1>2. Moved(c) /\ call' \in [Call -> CallState]
  BY <1>1, AdvanceMoves DEF Omit
<1>3. RowsOK' /\ HistoryOK' /\ repo' \in [Path -> Repository] /\ holder' = holder
  BY RowsStay, HistoryStays, TypeOKParts DEF IInv, Omit
<1> QED BY <1>1, <1>2, <1>3, MoveKeepsIInv

LEMMA GitStepIsNoLock == "lock" \notin GitStep /\ "unlock" \notin GitStep
BY DEF GitStep, Setup, Ref, Tree, Operation, Remote

LEMMA DisturbType ==
  ASSUME IInv, NEW c \in Call, NEW p \in Path
  PROVE  Disturb(c, p) \subseteq Call
BY DEF IInv, TypeOK, Disturb

LEMMA RunGitKeepsIInv ==
  ASSUME IInv, NEW c \in Call, RunGit(c)
  PROVE  IInv'
<1>1. Running(c) /\ StepOf(c) \in GitStep /\ StepOf(c) \notin {"lock", "unlock"}
  BY GitStepIsNoLock DEF RunGit
<1>2. Moved(c) /\ call' \in [Call -> CallState]
  BY <1>1, AdvanceMoves DEF RunGit
<1>3. PICK r \in Effect(StepOf(c), Here(c), call[c]) :
        /\ repo' = [repo EXCEPT ![PathOf(c)] = r]
        /\ disturbed' = IF r = Here(c) THEN disturbed ELSE Disturb(c, PathOf(c))
  BY DEF RunGit
<1>4. r \in Repository
  BY <1>1, PathType, EffectType
<1>5. repo' \in [Path -> Repository]
  BY <1>3, <1>4 DEF IInv, TypeOK
<1>6. RowsOK' /\ holder' = holder
  BY RowsStay, TypeOKParts DEF IInv, RunGit
<1>7. disturbed' \subseteq Call
  BY <1>3, PathType, DisturbType DEF IInv, TypeOK
<1>8. HistoryOK'
  BY <1>7 DEF RunGit, IInv, TypeOK, HistoryOK
<1> QED BY <1>1, <1>2, <1>5, <1>6, <1>8, MoveKeepsIInv

LEMMA KillKeepsIInv ==
  ASSUME IInv, NEW c \in Call, GitIsKilled(c)
  PROVE  IInv'
<1>1. Running(c) /\ StepOf(c) \notin {"lock", "unlock"}
  BY GitStepIsNoLock DEF GitIsKilled
<1>2. Moved(c) /\ call' \in [Call -> CallState]
  BY <1>1, AdvanceMoves DEF GitIsKilled
<1>3. RowsOK' /\ repo' \in [Path -> Repository] /\ holder' = holder
  BY RowsStay, TypeOKParts DEF IInv, GitIsKilled
<1>4. HistoryOK'
  BY DEF GitIsKilled, IInv, TypeOK, HistoryOK
<1> QED BY <1>1, <1>2, <1>3, <1>4, MoveKeepsIInv

\* What a look makes of the call.
Looked(c, k, e, h) ==
  [k EXCEPT !.exists = IF StepOf(c) = "probe" THEN e ELSE @,
            !.head = IF StepOf(c) = "hasHead" THEN h ELSE @,
            !.kind = IF StepOf(c) = "readOperation" THEN ReadOperationState(c) ELSE @,
            !.seen = IF StepOf(c) = "resolveRelease" THEN release["seed"].assets ELSE @]

LEMMA LookedIs ==
  ASSUME IInv, NEW c \in Call, NEW k \in CallState,
         NEW e \in RepositoryExists(c), NEW h \in RepositoryHasHead(c), NEW q, q = Looked(c, k, e, h)
  PROVE  /\ q \in CallState /\ q.op = k.op /\ q.on = k.on /\ q.result = k.result /\ q.pc = k.pc
         /\ StepOf(c) # "probe" => q.exists = k.exists
         /\ q.head = IF StepOf(c) = "hasHead" THEN h ELSE k.head
<1> DEFINE s == StepOf(c)
           x == IF s = "probe" THEN e ELSE k.exists
           b == IF s = "hasHead" THEN h ELSE k.head
           o == IF s = "readOperation" THEN ReadOperationState(c) ELSE k.kind
           w == IF s = "resolveRelease" THEN release["seed"].assets ELSE k.seen
<1>1. /\ k.exists \in BOOLEAN /\ k.head \in BOOLEAN
      /\ k.kind \in Operation \cup {""} /\ k.seen \in SUBSET Asset
  BY DEF CallState
<1>2. x \in BOOLEAN /\ b \in BOOLEAN /\ o \in Operation \cup {""} /\ w \in SUBSET Asset
  <2>1. Here(c).made \in BOOLEAN /\ Here(c).born \in BOOLEAN /\ Here(c).op \in Operation \cup {""}
    BY PathType DEF Repository
  <2>2. e \in BOOLEAN /\ h \in BOOLEAN
    BY <2>1 DEF RepositoryExists, RepositoryHasHead
  <2>3. release["seed"].assets \in SUBSET Asset
    BY DEF IInv, TypeOK, ReleaseId
  <2> QED BY <1>1, <2>1, <2>2, <2>3 DEF ReadOperationState
<1>3. q = [k EXCEPT !.exists = x, !.head = b, !.kind = o, !.seen = w]
  BY DEF Looked
<1>4. (s # "probe" => x = k.exists) /\ b = IF s = "hasHead" THEN h ELSE k.head
  OBVIOUS
<1> HIDE DEF s, x, b, o, w
<1>5. q \in CallState /\ q.op = k.op /\ q.on = k.on /\ q.result = k.result /\ q.pc = k.pc
      /\ q.exists = x /\ q.head = b
  BY <1>2, <1>3 DEF CallState
<1> QED BY <1>4, <1>5 DEF s

LEMMA LookMoves ==
  ASSUME IInv, NEW c \in Call, Look(c)
  PROVE  /\ Running(c) /\ Moved(c) /\ call' \in [Call -> CallState]
         /\ StepOf(c) # "probe" => call'[c].exists = call[c].exists
         /\ call[c].pc # Len(Program[call[c].op]) /\ StepOf(c) # "hasHead" => call'[c].head = call[c].head
         /\ StepOf(c) = "hasHead" /\ Here(c).born => call'[c].head \/ c \in misread'
<1> DEFINE k == Advanced(call[c])
<1>1. Running(c)
  BY DEF Look
<1>2. /\ call[c] \in CallState /\ call[c].op \in DOMAIN Program
      /\ call[c].pc \in 1..Len(Program[call[c].op]) /\ call[c].result = "running"
  BY <1>1 DEF IInv, TypeOK, LockInv, Running
<1>3. k \in CallState /\ k.exists = call[c].exists
  BY <1>2, AdvancedMoves
<1>4. PICK e \in RepositoryExists(c), h \in RepositoryHasHead(c) :
        /\ call' = [call EXCEPT ![c] = Looked(c, k, e, h)]
        /\ misread' = IF StepOf(c) = "hasHead" /\ Here(c).born /\ ~h THEN misread \cup {c} ELSE misread
  BY DEF Look, Looked
<1> HIDE DEF k
<1>5. PICK q : q = Looked(c, k, e, h)
  OBVIOUS
<1>6. /\ q \in CallState /\ q.op = k.op /\ q.on = k.on /\ q.result = k.result /\ q.pc = k.pc
      /\ StepOf(c) # "probe" => q.exists = k.exists
      /\ q.head = IF StepOf(c) = "hasHead" THEN h ELSE k.head
  BY <1>3, <1>5, LookedIs
<1>7. call'[c] = q /\ (\A d \in Call \ {c} : call'[d] = call[d]) /\ call' \in [Call -> CallState]
  BY <1>4, <1>5, <1>6 DEF IInv, TypeOK
<1>8. Moved(c)
  BY <1>2, <1>6, <1>7, AdvancedMoves DEF Moved, k
<1>9. call[c].pc # Len(Program[call[c].op]) => k.head = call[c].head
  BY <1>2, AdvancedMoves DEF k
<1>10. StepOf(c) = "hasHead" /\ Here(c).born => call'[c].head \/ c \in misread'
  BY <1>4, <1>6, <1>7
<1>11. call[c].pc # Len(Program[call[c].op]) /\ StepOf(c) # "hasHead" => call'[c].head = call[c].head
  BY <1>6, <1>7, <1>9
<1> QED BY <1>1, <1>3, <1>6, <1>7, <1>8, <1>10, <1>11

LEMMA LookKeepsIInv ==
  ASSUME IInv, NEW c \in Call, Look(c)
  PROVE  IInv'
<1>1. Running(c) /\ StepOf(c) \notin {"lock", "unlock"}
  BY DEF Look, Looks, LookStep, WayStep
<1>2. RowsOK' /\ repo' \in [Path -> Repository] /\ holder' = holder
  BY RowsStay, TypeOKParts DEF IInv, Look
<1>3. HistoryOK'
  BY DEF IInv, TypeOK, HistoryOK, Look
<1> QED BY <1>1, <1>2, <1>3, LookMoves, MoveKeepsIInv

LEMMA AssetsType ==
  ASSUME RowsOK, NEW assets \in SUBSET Asset, SetAssets(assets)
  PROVE  RowsOK'
<1> DEFINE s == release["seed"]
           b == IF s.there THEN assets ELSE s.assets
<1>1. "seed" \in ReleaseId /\ s \in [there : BOOLEAN, assets : SUBSET Asset]
  BY DEF RowsOK, ReleaseId
<1>2. release' = [release EXCEPT !["seed"].assets = b]
  BY DEF SetAssets
<1>3. b \in SUBSET Asset /\ (~s.there => b = {})
  BY <1>1 DEF RowsOK
<1> HIDE DEF b
<1>4. release' \in [ReleaseId -> [there : BOOLEAN, assets : SUBSET Asset]]
  BY <1>1, <1>2, <1>3 DEF RowsOK
<1>5. \A i \in ReleaseId : ~release'[i].there => release'[i].assets = {}
  BY <1>1, <1>2, <1>3 DEF RowsOK
<1> QED BY <1>4, <1>5 DEF RowsOK, SetAssets

LEMMA WrittenKeepsRows ==
  ASSUME IInv, NEW c \in Call, Running(c), Written(c)
  PROVE  RowsOK'
<1>0. RowsOK
  BY TypeOKParts DEF IInv
<1>1. CASE RecordActivity(c) \/ StarRow \/ ForkRow
  BY <1>0, <1>1 DEF RowsOK, RecordActivity, StarRow, ForkRow
<1>2. ASSUME ReleaseRow(c) \/ DeleteRow PROVE RowsOK'
  <2>1. /\ NoRelease \in [there : BOOLEAN, assets : SUBSET Asset] /\ NoRelease.assets = {}
        /\ NewRelease \in [there : BOOLEAN, assets : SUBSET Asset] /\ NewRelease.there
    BY DEF NoRelease, NewRelease, Asset
  <2>2. PICK i \in ReleaseId : \/ release' = [release EXCEPT ![i] = NewRelease]
                                \/ release' = [release EXCEPT ![i] = NoRelease]
    BY <1>2 DEF ReleaseRow, DeleteRow, ReleaseId
  <2> HIDE DEF NewRelease, NoRelease
  <2>3. release' \in [ReleaseId -> [there : BOOLEAN, assets : SUBSET Asset]]
    BY <1>0, <2>1, <2>2 DEF RowsOK
  <2>4. \A j \in ReleaseId : ~release'[j].there => release'[j].assets = {}
    BY <1>0, <2>1, <2>2 DEF RowsOK
  <2> QED BY <1>0, <1>2, <2>3, <2>4 DEF RowsOK, ReleaseRow, DeleteRow
<1>3. CASE UNCHANGED rows
  BY <1>0, <1>3, RowsStay
<1>4. CASE SetAssets({})
  BY <1>0, <1>4, AssetsType
<1>5. ASSUME SetAssets(Appended(c)) PROVE RowsOK'
  <2>1. call[c].seen \in SUBSET Asset
    BY DEF IInv, TypeOK, CallState
  <2>2. Appended(c) \in SUBSET Asset
    BY <2>1 DEF Appended, Asset
  <2> QED BY <1>0, <1>5, <2>2, AssetsType
<1>6. ASSUME NEW given \in SUBSET {"given"}, SetAssets(given) PROVE RowsOK'
  BY <1>0, <1>6, AssetsType DEF Asset
<1> QED BY <1>1, <1>2, <1>3, <1>4, <1>5, <1>6 DEF Written

LEMMA StoreKeepsIInv ==
  ASSUME IInv, NEW c \in Call, Store(c)
  PROVE  IInv'
<1>1. Running(c) /\ StepOf(c) \notin {"lock", "unlock"}
  BY DEF Store, Written, At
<1>2. Moved(c) /\ call' \in [Call -> CallState]
  BY <1>1, AdvanceMoves DEF Store
<1>3. RowsOK'
  BY WrittenKeepsRows DEF Store
<1>4. HistoryOK' /\ repo' \in [Path -> Repository] /\ holder' = holder
  BY HistoryStays, TypeOKParts DEF IInv, Store
<1> QED BY <1>1, <1>2, <1>3, <1>4, MoveKeepsIInv

LEMMA FailKeepsIInv ==
  ASSUME IInv, NEW c \in Call, Fail(c)
  PROVE  IInv'
<1>1. PICK r \in Mess(StepOf(c), Here(c)) :
        /\ repo' = [repo EXCEPT ![PathOf(c)] = r]
        /\ disturbed' = IF r = Here(c) THEN disturbed ELSE Disturb(c, PathOf(c))
  BY DEF Fail
<1>2. r \in Repository
  BY PathType, MessType
<1>3. repo' \in [Path -> Repository]
  BY <1>1, <1>2 DEF IInv, TypeOK
<1>4. disturbed' \subseteq Call
  BY <1>1, PathType, DisturbType DEF IInv, TypeOK
<1>5. HistoryOK'
  BY <1>4 DEF Fail, IInv, TypeOK, HistoryOK
<1>6. RowsOK'
  BY RowsStay, TypeOKParts DEF IInv, Fail
<1> DEFINE k == Ended(call[c], "error")
<1>7. k \in CallState /\ k.result = "error"
  BY EndedIs DEF IInv, TypeOK
<1>8. call' = [call EXCEPT ![c] = k]
  BY DEF Fail
<1> HIDE DEF k
<1>9. /\ call' \in [Call -> CallState] /\ call'[c].result = "error"
      /\ \A d \in Call \ {c} : call'[d] = call[d]
  BY <1>7, <1>8 DEF IInv, TypeOK
<1>10. holder' = [p \in Path |-> IF holder[p] = c THEN Nobody ELSE holder[p]]
  BY DEF Fail
<1>11. holder' \in [Path -> Call \cup {Nobody}]
  BY <1>10 DEF IInv, TypeOK
<1>12. \A p \in Path, d \in Call : holder'[p] = d <=> d # c /\ holder[p] = d
  BY <1>10, OperationsAssumption
<1>13. LockInv'
  BY <1>9, <1>12 DEF IInv, LockInv, Running
<1>14. TypeOK'
  BY <1>3, <1>5, <1>6, <1>9, <1>11 DEF TypeOK, RowsOK, HistoryOK
<1> QED BY <1>13, <1>14 DEF IInv

-----------------------------------------------------------------------------
(* Theorems.                                                               *)

LEMMA NextKeepsIInv == IInv /\ [Next]_vars => IInv'
<1> SUFFICES ASSUME IInv, [Next]_vars PROVE IInv'
  OBVIOUS
<1>1. ASSUME NEW c \in Call, Step(c) PROVE IInv'
  BY <1>1, LockKeepsIInv, UnlockKeepsIInv, OmitKeepsIInv, RunGitKeepsIInv, KillKeepsIInv,
     LookKeepsIInv, StoreKeepsIInv, FailKeepsIInv DEF Step
<1>2. ASSUME NEW c \in Call, NEW a \in Asked, Begin(c, a[1], a[2]) PROVE IInv'
  BY <1>2, BeginKeepsIInv
<1>3. CASE UNCHANGED vars
  BY <1>3 DEF vars, rows, history, IInv, TypeOK, LockInv, Running
<1> QED BY <1>1, <1>2, <1>3 DEF Next

LEMMA Invariance == Spec => []IInv
<1> QED BY InitIInv, NextKeepsIInv, PTL DEF Spec

\* Whatever the methods do, the repositories, the rows and the calls stay within
\* their types; a release that is gone has no assets.
THEOREM TypeCorrect == Spec => []TypeOK
<1>1. IInv => TypeOK
  BY DEF IInv
<1> QED BY <1>1, Invariance, PTL

\* The lock of a repository is held by a running call on it that does not ask for
\* it again: the error paths give it back and no method nests it (locks.ts:25).
THEOREM LockIsForItsHolder == Spec => []LockIsFor
<1>1. ASSUME IInv, NEW p \in Path, holder[p] # Nobody
      PROVE  Running(holder[p]) /\ call[holder[p]].on = p /\ ~At(holder[p], "lock")
  <2> DEFINE c == holder[p]
  <2>1. c \in Call
    BY <1>1 DEF IInv, TypeOK
  <2>2. Running(c) /\ call[c].on = p /\ Held(call[c].op, call[c].pc)
    BY <1>1, <2>1 DEF IInv, LockInv
  <2>3. call[c].op \in DOMAIN Program /\ call[c].pc \in 1..Len(Program[call[c].op])
    BY <1>1, <2>1, <2>2 DEF IInv, LockInv
  <2>4. Program[call[c].op][call[c].pc] # "lock"
    BY <2>2, <2>3, MethodsAssumption
  <2> QED BY <2>2, <2>4 DEF At, StepOf
<1>2. IInv => LockIsFor
  BY <1>1 DEF LockIsFor
<1> QED BY <1>2, Invariance, PTL

\* A repository changes under a lock that its changer holds, but for the methods
\* of the forge that work on a fork (forge/fork_methods.ts:23-88).
THEOREM OnlyForksDisturbHolds == Spec => OnlyForksDisturb
<1> DEFINE Kept == \A c \in Call, p \in Path :
             (call'[c] # call[c] /\ repo'[p] # repo[p] /\ holder[p] # c)
               => call[c].op \in ForkMethod
<1>1. IInv /\ [Next]_vars => [Kept]_vars
  <2> SUFFICES ASSUME IInv, [Next]_vars, NEW c \in Call, NEW p \in Path,
                      call'[c] # call[c], repo'[p] # repo[p], holder[p] # c
               PROVE  call[c].op \in ForkMethod
    OBVIOUS
  <2>1. PICK d \in Call : Step(d) \/ \E a \in Asked : Begin(d, a[1], a[2])
    BY DEF Next, vars
  <2>2. RunGit(d) \/ Fail(d)
    BY <2>1 DEF Step, Lock, Unlock, Omit, GitIsKilled, Look, Store, Begin
  <2>3. d = c
    BY <2>2 DEF RunGit, Fail, Advance, IInv, TypeOK
  <2>4. PICK r : repo' = [repo EXCEPT ![PathOf(c)] = r] /\ (RunGit(c) \/ r \in Mess(StepOf(c), Here(c)))
    BY <2>2, <2>3 DEF RunGit, Fail
  <2>5. p = PathOf(c) /\ r # Here(c) /\ Running(c)
    BY <2>2, <2>3, <2>4 DEF IInv, TypeOK, Here, RunGit, Fail
  <2>6. StepOf(c) \in GitStep
    BY <2>4, <2>5, MessIsOfGit DEF RunGit
  <2>7. PathOf(c) = call[c].on
    BY <2>6 DEF PathOf, GitStep, Setup, Ref, Tree, Operation, Remote
  <2>8. ~Held(call[c].op, call[c].pc)
    BY <2>5, <2>7 DEF IInv, LockInv
  <2> QED BY <2>5, <2>6, <2>8, MethodsAssumption DEF IInv, LockInv, StepOf
<1>2. [][Kept]_vars => OnlyForksDisturb
  BY DEF OnlyForksDisturb
<1> QED BY <1>1, <1>2, Invariance, PTL DEF Spec

-----------------------------------------------------------------------------
(* The row of a fork: a second invariant, on top of the first.             *)

\* No step of git takes back what makes a fork ready.
Ready(r) == r.made /\ r.hosted /\ r.upstream
Stays(r, x) ==
  /\ r.made => x.made
  /\ r.hosted => x.hosted
  /\ r.upstream => x.upstream
  /\ r.fetched => x.fetched
RepoStays == \A p \in Path : Stays(repo[p], repo'[p])

\* A fork in the making has what the steps of createFork behind it have made.
ForkInv ==
  /\ forkRow => Ready(repo["fork"]) \/ killed # {}
  /\ \A c \in Call : Running(c) /\ call[c].op = "createFork" =>
       /\ call[c].on = "fork"
       /\ killed = {} => /\ call[c].pc > 4 => repo["fork"].made /\ repo["fork"].hosted
                         /\ call[c].pc > 5 => repo["fork"].upstream

\* Sequences of any names: the first of two that are joined, then the second.
LEMMA Joined ==
  ASSUME NEW S, NEW s \in Seq(S), NEW t \in Seq(S)
  PROVE  /\ s \o t \in Seq(S) /\ Len(s \o t) = Len(s) + Len(t)
         /\ \A i \in 1..Len(s) : (s \o t)[i] = s[i]
         /\ \A i \in 1..Len(t) : (s \o t)[Len(s) + i] = t[i]
OBVIOUS

\* createFork: the hosted configuration and the upstream come before the row.
LEMMA CreateForkSteps ==
  /\ Program["createFork"][4] = "config" /\ Program["createFork"][5] = "upstream"
  /\ \A i \in 1..5 : Program["createFork"][i] # "forkRow"
<1> DEFINE S == {"readOverview", "createForkRepository", "cloneBase", "config", "upstream", "fetchUpstream",
                 "forkRow", "activity", "ready", "compare"}
           a == <<"readOverview", "createForkRepository">>
           b == a \o CloneFork
           c == b \o EnsureUpstream
           f == <<"forkRow", "activity">>
           d == c \o f
<1>1. Program["createFork"] = CreateFork
  <2>1. "createFork" \in ForkMethod /\ ForkMethods["createFork"] = CreateFork
    BY DEF ForkMethod, ForkMethods
  <2>2. QED
    BY <2>1, MethodsAssumption
<1>2. CreateFork = d \o ForkStatus
  BY DEF CreateFork
<1>3. /\ a \in Seq(S) /\ CloneFork \in Seq(S) /\ EnsureUpstream \in Seq(S) /\ f \in Seq(S)
      /\ <<"ready">> \in Seq(S) /\ <<"compare">> \in Seq(S)
  BY DEF CloneFork, EnsureUpstream
<1>4. /\ Len(a) = 2 /\ a[1] = "readOverview" /\ a[2] = "createForkRepository"
      /\ Len(CloneFork) = 2 /\ CloneFork[1] = "cloneBase" /\ CloneFork[2] = "config"
      /\ Len(EnsureUpstream) = 2 /\ EnsureUpstream[1] = "upstream" /\ Len(f) = 2
  BY DEF CloneFork, EnsureUpstream
<1> HIDE DEF S, a, f
<1>5. ForkStatus \in Seq(S)
  BY <1>3, Joined DEF ForkStatus
<1>6. /\ b \in Seq(S) /\ Len(b) = Len(a) + Len(CloneFork)
      /\ \A i \in 1..Len(a) : b[i] = a[i]
      /\ \A i \in 1..Len(CloneFork) : b[Len(a) + i] = CloneFork[i]
  BY <1>3, Joined
<1>7. Len(b) = 4 /\ b[1] = "readOverview" /\ b[2] = "createForkRepository" /\ b[3] = "cloneBase" /\ b[4] = "config"
  BY <1>4, <1>6
<1>8. b \in Seq(S)
  BY <1>6
<1> HIDE DEF b
<1>9. /\ c \in Seq(S) /\ Len(c) = Len(b) + Len(EnsureUpstream)
      /\ \A i \in 1..Len(b) : c[i] = b[i]
      /\ \A i \in 1..Len(EnsureUpstream) : c[Len(b) + i] = EnsureUpstream[i]
  BY <1>3, <1>8, Joined
<1>10. Len(c) = 6 /\ (\A i \in 1..4 : c[i] = b[i]) /\ c[5] = "upstream"
  BY <1>4, <1>7, <1>9
<1>11. c \in Seq(S)
  BY <1>9
<1> HIDE DEF c
<1>12. d \in Seq(S) /\ Len(d) = Len(c) + Len(f) /\ \A i \in 1..Len(c) : d[i] = c[i]
  BY <1>3, <1>11, Joined
<1>13. Len(d) = 8 /\ \A i \in 1..6 : d[i] = c[i]
  BY <1>4, <1>10, <1>12
<1>14. d \in Seq(S)
  BY <1>12
<1> HIDE DEF d
<1>15. \A i \in 1..Len(d) : CreateFork[i] = d[i]
  BY <1>2, <1>5, <1>14, Joined
<1>16. \A i \in 1..5 : CreateFork[i] = c[i]
  BY <1>13, <1>15
<1>17. QED
  BY <1>1, <1>7, <1>10, <1>16

LEMMA EffectStays ==
  ASSUME NEW r \in Repository, NEW k, NEW s \in GitStep, NEW x \in Effect(s, r, k)
  PROVE  Stays(r, x)
<1>1. CASE s \in Setup
  <2>1. x \in SetupEffect(s, r)
    BY <1>1 DEF Effect
  <2>2. CASE s = "init"
    <3>1. \/ x = [r EXCEPT !.made = TRUE]
          \/ \E b, t : x = [r EXCEPT !.head = "main", !.born = b, !.staged = t]
      BY <2>1, <2>2 DEF SetupEffect
    <3>2. QED
      BY <3>1 DEF Repository, Stays
  <2>3. CASE s = "initialCommit"
    <3>1. x = r \/ x = [Committed(r) EXCEPT !.work = FALSE]
      BY <2>1, <2>3 DEF SetupEffect
    <3>2. QED
      BY <3>1 DEF Committed, Repository, Stays
  <2>4. CASE s \notin {"init", "initialCommit"}
    BY <2>1, <2>4 DEF SetupEffect, Repository, Stays
  <2>5. QED
    BY <2>2, <2>3, <2>4
<1>2. CASE s \notin Setup /\ s \in Ref
  BY ZenonT(30), <1>2 DEF Effect, RefEffect, Ref, Repository, Stays
<1>3. CASE s \notin Setup /\ s \notin Ref /\ s \in Tree
  <2>0. CASE x = Committed(r)
    BY <2>0 DEF Committed, Repository, Stays
  <2>1. ASSUME NEW w, NEW t, NEW o,
               \/ x = r \/ x = [r EXCEPT !.work = w] \/ x = [r EXCEPT !.work = w, !.staged = t]
               \/ x = [r EXCEPT !.staged = t, !.work = w] \/ x = [r EXCEPT !.work = w, !.staged = t, !.op = o]
               \/ x = [r EXCEPT !.op = o, !.staged = t] \/ x = [r EXCEPT !.staged = t]
        PROVE  Stays(r, x)
    BY <2>1 DEF Repository, Stays
  <2>2. QED
    BY <1>3, <2>0, <2>1 DEF Effect, TreeEffect, Tree, Settled, Operation
<1>4. CASE s \notin Setup /\ s \notin Ref /\ s \notin Tree
  BY <1>4 DEF Effect, RemoteEffect, Remote, GitStep, Repository, Stays
<1>5. QED
  BY <1>1, <1>2, <1>3, <1>4

LEMMA MessStays ==
  ASSUME NEW s, NEW r \in Repository, NEW x \in Mess(s, r)
  PROVE  Stays(r, x)
BY DEF Mess, Repository, Stays

LEMMA RepoStaysStep == IInv /\ [Next]_vars => RepoStays
<1> SUFFICES ASSUME IInv, [Next]_vars PROVE RepoStays
  OBVIOUS
<1>1. ASSUME NEW c \in Call, NEW x, Stays(Here(c), x), repo' = [repo EXCEPT ![PathOf(c)] = x]
      PROVE  RepoStays
  BY <1>1 DEF IInv, TypeOK, RepoStays, Stays, Here
<1>2. ASSUME NEW c \in Call, RunGit(c) PROVE RepoStays
  BY <1>1, <1>2, EffectStays, PathType DEF RunGit
<1>3. ASSUME NEW c \in Call, Fail(c) PROVE RepoStays
  BY <1>1, <1>3, MessStays, PathType DEF Fail
<1>4. repo' = repo => RepoStays
  BY DEF RepoStays, Stays
<1>5. QED
  BY <1>2, <1>3, <1>4 DEF Next, Step, Lock, Unlock, Omit, GitIsKilled, Look, Store, Begin, vars

LEMMA StepMoves ==
  ASSUME IInv, NEW c \in Call, Step(c), ~Fail(c)
  PROVE  Running(c) /\ Moved(c)
<1>1. Running(c) /\ (Advance(c) \/ Look(c))
  BY DEF Step, Lock, Unlock, Omit, RunGit, GitIsKilled, Look, Store, At
<1>2. QED
  BY <1>1, AdvanceMoves, LookMoves

\* The config and upstream steps of createFork are done once they lie behind, or a
\* command was killed.
LEMMA ForkStepsDone ==
  ASSUME IInv, NEW c \in Call, Step(c), ~Fail(c), StepOf(c) \in {"config", "upstream"}, call[c].on = "fork"
  PROVE  \/ killed' # {}
         \/ /\ StepOf(c) = "config" => repo'["fork"].made /\ repo'["fork"].hosted
            /\ StepOf(c) = "upstream" => repo'["fork"].upstream
<1>1. RunGit(c) \/ GitIsKilled(c)
  BY DEF Step, Lock, Unlock, Omit, Omitted, Look, Looks, LookStep, WayStep, Store, Written, At
<1>2. CASE GitIsKilled(c)
  BY <1>2 DEF GitIsKilled
<1>3. CASE RunGit(c)
  <2>1. PICK r \in Effect(StepOf(c), Here(c), call[c]) : repo' = [repo EXCEPT ![PathOf(c)] = r]
    BY <1>3 DEF RunGit
  <2>2. PathOf(c) = "fork" /\ Here(c) \in Repository
    BY PathType DEF PathOf
  <2>3. repo'["fork"] = r
    BY <2>1, <2>2 DEF IInv, TypeOK, Path
  <2>4. CASE StepOf(c) = "config"
    <3>1. Here(c).made /\ r = [Here(c) EXCEPT !.hosted = TRUE]
      BY <2>1, <2>4 DEF Effect, Setup, SetupEffect
    <3>2. r.made /\ r.hosted
      BY <2>2, <3>1 DEF Repository
    <3>3. QED
      BY <2>3, <2>4, <3>2
  <2>5. CASE StepOf(c) = "upstream"
    <3>1. r = [Here(c) EXCEPT !.upstream = TRUE]
      BY <2>1, <2>5 DEF Effect, Setup, Ref, Tree, Operation, RemoteEffect
    <3>2. r.upstream
      BY <2>2, <3>1 DEF Repository
    <3>3. QED
      BY <2>3, <2>5, <3>2
  <2>6. QED
    BY <2>4, <2>5
<1>4. QED
  BY <1>1, <1>2, <1>3

LEMMA ForkInvStep == IInv /\ ForkInv /\ [Next]_vars => ForkInv'
<1> SUFFICES ASSUME IInv, ForkInv, [Next]_vars PROVE ForkInv'
  OBVIOUS
<1>1. Stays(repo["fork"], repo'["fork"])
  BY RepoStaysStep DEF RepoStays, Path
<1>2. killed \subseteq killed'
  BY DEF Next, Step, Lock, Unlock, Omit, RunGit, GitIsKilled, Look, Store, Fail, Begin, history, vars
<1>3. ASSUME NEW d \in Call, Running(d)', call'[d].op = "createFork"
      PROVE  /\ call'[d].on = "fork"
             /\ killed' = {} => /\ call'[d].pc > 4 => repo'["fork"].made /\ repo'["fork"].hosted
                                /\ call'[d].pc > 5 => repo'["fork"].upstream
  <2>1. CASE call'[d] = call[d]
    BY <1>1, <1>2, <1>3, <2>1 DEF ForkInv, Running, Stays
  <2>2. CASE call'[d] # call[d]
    <3>1. PICK c \in Call : Step(c) \/ \E a \in Asked : Begin(c, a[1], a[2])
      BY <2>2 DEF Next, vars
    <3>2. d = c
      BY <2>2, <3>1 DEF Step, Lock, Unlock, Omit, RunGit, GitIsKilled, Look, Store, Fail, Begin, Advance, IInv, TypeOK
    <3>3. CASE \E a \in Asked : Begin(d, a[1], a[2])
      <4>1. PICK a \in Asked : call'[d] = Fresh(a[1], a[2], 1, "running")
        BY <3>3 DEF Begin, IInv, TypeOK
      <4>2. PICK k : k = Fresh(a[1], a[2], 1, "running")
        OBVIOUS
      <4>3. k.op = a[1] /\ k.on = a[2] /\ k.pc = 1
        BY <4>2 DEF Fresh
      <4>4. call'[d] = k
        BY <4>1, <4>2
      <4>5. QED
        BY <1>3, <4>3, <4>4, OperationsAssumption
    <3>4. CASE Step(d)
      <4>1. ~Fail(d)
        <5>1. SUFFICES ASSUME Fail(d) PROVE FALSE
          OBVIOUS
        <5>2. call[d] \in CallState /\ call'[d] = Ended(call[d], "error")
          BY <5>1 DEF Fail, IInv, TypeOK
        <5>3. QED
          BY <1>3, <5>2, EndedIs DEF Running
      <4>2. Running(d) /\ Moved(d)
        BY <3>4, <4>1, StepMoves
      <4>3. call[d].op = "createFork" /\ call'[d].on = call[d].on /\ call'[d].pc = call[d].pc + 1
        BY <1>3, <4>2 DEF Moved, Running
      <4>4. PICK i \in Nat : i = call[d].pc
        <5>1. call[d] \in CallState
          BY DEF IInv, TypeOK
        <5>2. call[d].pc \in 0..21
          BY <5>1 DEF CallState
        <5>3. QED
          BY <5>2
      <4>5. call[d].on = "fork" /\ (killed = {} => /\ i > 4 => repo["fork"].made /\ repo["fork"].hosted
                                                   /\ i > 5 => repo["fork"].upstream)
        BY <4>2, <4>3, <4>4 DEF ForkInv
      <4>6. (i = 4 => StepOf(d) = "config") /\ (i = 5 => StepOf(d) = "upstream")
        BY <4>3, <4>4, CreateForkSteps DEF StepOf
      <4>7. ASSUME killed' = {}, i + 1 > 4 PROVE repo'["fork"].made /\ repo'["fork"].hosted
        <5>1. CASE i > 4
          BY <1>1, <1>2, <4>5, <4>7, <5>1 DEF Stays
        <5>2. CASE i = 4
          BY <3>4, <4>1, <4>5, <4>6, <4>7, <5>2, ForkStepsDone
        <5>3. QED
          BY <4>7, <5>1, <5>2
      <4>8. ASSUME killed' = {}, i + 1 > 5 PROVE repo'["fork"].upstream
        <5>1. CASE i > 5
          BY <1>1, <1>2, <4>5, <4>8, <5>1 DEF Stays
        <5>2. CASE i = 5
          BY <3>4, <4>1, <4>5, <4>6, <4>8, <5>2, ForkStepsDone
        <5>3. QED
          BY <4>8, <5>1, <5>2
      <4>9. QED
        BY <4>3, <4>4, <4>5, <4>7, <4>8
    <3>5. QED
      BY <3>1, <3>2, <3>3, <3>4
  <2>3. QED
    BY <2>1, <2>2
<1>4. ASSUME forkRow' PROVE Ready(repo["fork"])' \/ killed' # {}
  <2>1. CASE forkRow
    BY <1>1, <1>2, <2>1 DEF ForkInv, Stays, Ready
  <2>2. CASE ~forkRow
    <3>1. PICK c \in Call : Store(c) /\ At(c, "forkRow")
      BY <1>4, <2>2 DEF Next, Step, Lock, Unlock, Omit, RunGit, GitIsKilled, Look, Store, Fail, Begin, vars, rows,
         Written, RecordActivity, StarRow, ForkRow, ReleaseRow, DeleteRow, SetAssets
    <3>2. PICK i \in 1..Len(Program[call[c].op]) :
            i = call[c].pc /\ Program[call[c].op][i] = "forkRow" /\ call[c].op \in DOMAIN Program
      BY <3>1 DEF At, StepOf, IInv, LockInv
    <3>3. call[c].op = "createFork"
      BY <3>2, MethodsAssumption
    <3>4. i \notin 1..5 /\ i \in Nat /\ i >= 1
      BY <3>2, <3>3, CreateForkSteps
    <3>5. i > 5 /\ i > 4
      BY <3>4
    <3>6. Ready(repo["fork"]) \/ killed # {}
      BY <3>1, <3>2, <3>3, <3>5 DEF ForkInv, At, Ready
    <3>7. QED
      BY <1>1, <1>2, <3>6 DEF Stays, Ready
  <2>3. QED
    BY <2>1, <2>2
<1>5. QED
  BY <1>3, <1>4 DEF ForkInv

\* For any number of callers, whatever else they do and whatever fails: a row of a
\* fork names one that is made, configured and has its upstream
\* (forge/fork_methods.ts:42-56), unless a command was killed.
THEOREM ForkRowMeansReadyHolds == Spec => []ForkRowMeansReady
<1>1. Init => ForkInv
  <2> SUFFICES ASSUME Init PROVE ForkInv
    OBVIOUS
  <2>1. \A c \in Call : ~Running(c)
    BY IdleType DEF Init, Running
  <2>2. forkRow => Ready(repo["fork"])
    BY OperationsAssumption DEF Init, Ready
  <2>3. QED
    BY <2>1, <2>2 DEF ForkInv
<1>2. Init => IInv /\ ForkInv
  BY <1>1, InitIInv
<1>3. IInv /\ ForkInv /\ [Next]_vars => (IInv /\ ForkInv)'
  BY NextKeepsIInv, ForkInvStep
<1>4. IInv /\ ForkInv => ForkRowMeansReady
  BY DEF ForkInv, Ready, ForkRowMeansReady
<1>5. QED
  BY <1>2, <1>3, <1>4, PTL DEF Spec

-----------------------------------------------------------------------------
(* The assets of a release.                                                *)

\* A row made by a call keeps the assets it was made with: what is published goes
\* to the release that was there at first.
RowInv == \A c \in Call : release[c].assets \subseteq {"given"}

\* What a call of the storage makes of the releases, and which method it is of.
LEMMA ReleaseWritten ==
  ASSUME IInv, NEW c \in Call, Store(c), release' # release
  PROVE  \/ ReleaseRow(c)
         \/ DeleteRow
         \/ SetAssets({}) /\ Normalizes /\ call[c].op = "updateRelease"
         \/ (\E given \in SUBSET {"given"} : SetAssets(given)) /\ call[c].op = "updateReleaseAssets"
         \/ SetAssets(Appended(c)) /\ call[c].op \in PublishMethod
<1>1. /\ call[c].op \in DOMAIN Program /\ call[c].pc \in 1..Len(Program[call[c].op])
      /\ StepOf(c) = Program[call[c].op][call[c].pc]
  BY DEF Store, StepOf, IInv, LockInv
<1>2. StepOf(c) = "updateRow" => call[c].op = "updateRelease"
  BY <1>1, MethodsAssumption
<1>3. /\ StepOf(c) = "updateAssets" => call[c].op = "updateReleaseAssets"
      /\ StepOf(c) = "appendAsset" => call[c].op \in PublishMethod
  BY <1>1, MethodsAssumption
<1>4. \/ ReleaseRow(c) \/ DeleteRow
      \/ SetAssets({}) /\ Normalizes /\ StepOf(c) = "updateRow"
      \/ (\E given \in SUBSET {"given"} : SetAssets(given)) /\ StepOf(c) = "updateAssets"
      \/ SetAssets(Appended(c)) /\ StepOf(c) = "appendAsset"
  BY DEF Store, Written, At, RecordActivity, StarRow, ForkRow, rows
<1>5. QED
  BY <1>2, <1>3, <1>4

LEMMA OnlyStoreWrites ==
  ASSUME [Next]_vars, release' # release
  PROVE  \E c \in Call : Store(c)
BY DEF Next, Step, Lock, Unlock, Omit, RunGit, GitIsKilled, Look, Fail, Begin, vars, rows

LEMMA RowInvStep == IInv /\ RowInv /\ [Next]_vars => RowInv'
<1> SUFFICES ASSUME IInv, RowInv, [Next]_vars, release' # release PROVE RowInv'
  BY DEF RowInv
<1>1. PICK c \in Call : Store(c)
  BY OnlyStoreWrites
<1>2. NewRelease.assets = {"given"}
  BY DEF NewRelease
<1>3. ASSUME NEW d \in Call PROVE d # "seed" /\ d \in ReleaseId /\ release \in [ReleaseId -> [there : BOOLEAN, assets : SUBSET Asset]]
  BY OperationsAssumption DEF ReleaseId, IInv, TypeOK
<1>4. ASSUME NEW d \in Call PROVE release'[d] = release[d] \/ release'[d] = NewRelease
  BY <1>1, <1>3, ReleaseWritten DEF ReleaseRow, DeleteRow, SetAssets
<1>5. QED
  BY <1>2, <1>4 DEF RowInv

\* A method that writes to the storage goes on: its call is another afterwards.
LEMMA StoreChanges ==
  ASSUME IInv, NEW c \in Call, Store(c)
  PROVE  call'[c] # call[c]
<1>1. Running(c) /\ Moved(c)
  BY AdvanceMoves DEF Store
<1>2. call[c].pc \in 0..21 /\ call[c].result = "running"
  BY <1>1 DEF IInv, TypeOK, CallState, Running
<1>3. call[c].pc + 1 # call[c].pc
  BY <1>2
<1>4. QED
  BY <1>1, <1>2, <1>3 DEF Moved

\* For any number of callers: an asset leaves the row of its release with the row;
\* with an updateRelease that is given the assets, or of a host that normalizes them
\* (forge/release_methods.ts:190); or by a publish, which takes out what has its
\* file name and what was not yet in the list it has read (actions/release_assets.ts:150).
THEOREM AssetsStayHolds == Spec => AssetsStay
<1> DEFINE Drops(c, a) ==
             /\ call'[c] # call[c]
             /\ \/ /\ call[c].op \in PublishMethod
                   /\ a \notin call[c].seen \/ FileName(a) = FileName(c)
                \/ call[c].op = "updateRelease" /\ Normalizes
                \/ call[c].op = "updateReleaseAssets"
           Kept == \A i \in ReleaseId : \A a \in release[i].assets :
             (release'[i].there /\ a \notin release'[i].assets) => \E c \in Call : Drops(c, a)
<1>1. Init => IInv /\ RowInv
  <2> SUFFICES ASSUME Init PROVE RowInv
    BY InitIInv
  <2>1. \A c \in Call : release[c] = NoRelease
    BY OperationsAssumption DEF Init, ReleaseId
  <2>2. QED
    BY <2>1 DEF RowInv, NoRelease
<1>2. IInv /\ RowInv /\ [Next]_vars => (IInv /\ RowInv)'
  BY NextKeepsIInv, RowInvStep
<1>3. IInv /\ RowInv /\ [Next]_vars => [Kept]_vars
  <2> SUFFICES ASSUME IInv, RowInv, [Next]_vars, NEW i \in ReleaseId, NEW a \in release[i].assets,
                      release'[i].there, a \notin release'[i].assets
               PROVE  \E c \in Call : Drops(c, a)
    OBVIOUS
  <2>1. PICK c \in Call : Store(c)
    BY OnlyStoreWrites
  <2>2. release \in [ReleaseId -> [there : BOOLEAN, assets : SUBSET Asset]] /\ c \in ReleaseId /\ c # "seed"
    BY OperationsAssumption DEF ReleaseId, IInv, TypeOK
  <2>3. ~ReleaseRow(c)
    <3>1. SUFFICES ASSUME ReleaseRow(c) PROVE FALSE
      OBVIOUS
    <3>2. i = c /\ release'[c] = NewRelease
      BY <2>2, <3>1 DEF ReleaseRow
    <3>3. QED
      BY <3>2 DEF RowInv, NewRelease
  <2>4. ~DeleteRow
    <3>1. SUFFICES ASSUME DeleteRow PROVE FALSE
      OBVIOUS
    <3>2. i = "seed" /\ release'[i] = NoRelease
      BY <2>2, <3>1 DEF DeleteRow
    <3>3. QED
      BY <3>2 DEF NoRelease
  <2>5. CASE SetAssets(Appended(c)) /\ call[c].op \in PublishMethod
    <3>1. a \notin Appended(c)
      BY <2>2, <2>5 DEF SetAssets
    <3>2. QED
      BY <2>1, <2>5, <3>1, StoreChanges DEF Appended
  <2>6. CASE SetAssets({}) /\ Normalizes /\ call[c].op = "updateRelease"
    BY <2>1, <2>6, StoreChanges
  <2>7. CASE call[c].op = "updateReleaseAssets"
    BY <2>1, <2>7, StoreChanges
  <2>8. release' # release
    OBVIOUS
  <2>9. QED
    BY <2>1, <2>3, <2>4, <2>5, <2>6, <2>7, <2>8, ReleaseWritten
<1>4. [][Kept]_vars => AssetsStay
  BY DEF AssetsStay
<1>5. QED
  BY <1>1, <1>2, <1>3, <1>4, PTL DEF Spec

-----------------------------------------------------------------------------
(* What a method promises: where a call is.                                *)

\* Where a running call is in its method, and that it holds the lock there.
LEMMA PlaceOf ==
  ASSUME IInv, NEW c \in Call, Running(c)
  PROVE  /\ call[c].op \in DOMAIN Program /\ call[c].pc \in 1..Len(Program[call[c].op])
         /\ Len(Program[call[c].op]) \in Nat /\ call[c].pc \in Nat /\ call[c].on \in Path
         /\ StepOf(c) = Program[call[c].op][call[c].pc]
         /\ holder[call[c].on] = c <=> Held(call[c].op, call[c].pc)
<1>1. call[c].op \in DOMAIN Program /\ call[c].pc \in 1..Len(Program[call[c].op])
  BY DEF IInv, LockInv
<1>2. Len(Program[call[c].op]) \in 1..21
  BY <1>1, LenProgram
<1>3. call[c].on \in Path
  BY DEF IInv, TypeOK, CallState
<1>4. holder[call[c].on] = c <=> Held(call[c].op, call[c].pc)
  BY <1>3 DEF IInv, LockInv
<1>5. QED
  BY <1>1, <1>2, <1>3, <1>4 DEF StepOf

\* A git step works on the repository of its call.
LEMMA GitOnItsPath ==
  ASSUME IInv, NEW c \in Call, StepOf(c) \in GitStep
  PROVE  PathOf(c) = call[c].on
BY DEF PathOf, GitStep, Setup, Ref, Tree, Operation, Remote

\* What a call has found it keeps, but for the steps that look for it.
LEMMA FoundStays ==
  ASSUME IInv, NEW c \in Call, Step(c), ~Fail(c)
  PROVE  /\ StepOf(c) # "probe" => call'[c].exists = call[c].exists
         /\ call[c].pc # Len(Program[call[c].op]) /\ StepOf(c) # "hasHead" => call'[c].head = call[c].head
<1>1. CASE Look(c)
  BY <1>1, LookMoves
<1>2. CASE Running(c) /\ Advance(c)
  <2>1. /\ call[c] \in CallState /\ call[c].op \in DOMAIN Program
        /\ call[c].pc \in 1..Len(Program[call[c].op]) /\ call[c].result = "running"
    BY <1>2 DEF IInv, TypeOK, LockInv, Running
  <2>2. call'[c] = Advanced(call[c])
    BY <1>2 DEF IInv, TypeOK, Advance
  <2> QED BY <2>1, <2>2, AdvancedMoves
<1>3. Look(c) \/ (Running(c) /\ Advance(c))
  BY DEF Step, Lock, Unlock, Omit, RunGit, GitIsKilled, Store, At
<1> QED BY <1>1, <1>2, <1>3

-----------------------------------------------------------------------------
(* What a method promises: what the steps behind a call have brought about. *)

\* What a step under the lock leaves in the repository.
LockedStep ==
  {"branch", "checkout", "checkoutMain", "detach", "deleteBranch", "tag", "deleteTag", "add", "clean",
   "unstage", "commit", "restore", "continue", "abort", "mergeNoCommit", "pickNoCommit",
   "initialCommit", "setUrl"} \cup Operation

\* For a call that has found a repository (exists), or has made it.
Left(s, r, exists) ==
  /\ s = "branch" => "dev" \in r.branches
  /\ s = "checkout" => r.head = "dev"
  /\ s = "checkoutMain" => r.head = "main"
  /\ s = "detach" => r.head = "detached"
  /\ s = "deleteBranch" => "dev" \notin r.branches
  /\ s = "tag" => r.tagged
  /\ s = "deleteTag" => ~r.tagged
  /\ s \in {"add", "clean"} => ~r.work
  /\ s \in {"unstage", "commit"} => ~r.staged
  /\ s = "restore" => (r.born => ~r.staged)
  /\ s \in {"continue", "abort", "pickNoCommit"} \cup Operation => r.op = ""
  /\ s = "mergeNoCommit" => r.op \in {"", "merge"}
  /\ s = "initialCommit" => exists \/ (r.work => r.born)
  /\ s = "setUrl" => exists \/ r.origin # "clone"

\* What a step of c that its method promises something by has brought about.
Wrought(c, s) ==
  /\ s = "config" => repo[call[c].on].made /\ repo[call[c].on].hosted
  /\ s = "fetchUpstream" => repo[call[c].on].fetched
  /\ s = "forkRow" => forkRow
  /\ s = "activity" => c \in activity
  /\ s = "releaseRow" => release[c].there
  /\ s = "deleteRow" => ~release["seed"].there
  /\ s = "setStar" => starred
  /\ s = "appendAsset" => (release["seed"].there => c \in release["seed"].assets)
  /\ s \in LockedStep => Left(s, repo[call[c].on], call[c].exists)

\* What SuccessKeepsPromise excepts.
Spoilt(c) == c \in killed \/ c \in disturbed \/ c \in misread

\* What the steps behind a call have brought about is still so: always if it lasts,
\* or else while the call holds the lock.
WroughtInv ==
  \A c \in Call : Running(c) /\ ~Spoilt(c) =>
    \A i \in 1..(call[c].pc - 1) :
      LET s == Program[call[c].op][i] IN
      /\ s \in Brings(call[c].op)
      /\ s \in Lasting \/ (s \in GitStep /\ holder[call[c].on] = c)
      => Wrought(c, s)

\* A call that was told HEAD has no commit, and not for want of a working git, is
\* right about it while it holds the lock.
HeadInv ==
  \A c \in Call : Running(c) /\ ~Spoilt(c) =>
    \A i \in 1..(call[c].pc - 1) :
      Program[call[c].op][i] = "hasHead" /\ holder[call[c].on] = c
        => call[c].head \/ ~repo[call[c].on].born

\* The steps that methods promise something by.
LEMMA BringsSteps ==
  ASSUME NEW n, NEW s \in Brings(n)
  PROVE  s \in Lasting \cup {"appendAsset"} \cup LockedStep
BY DEF Brings, Lasting, LockedStep, Operation

LEMMA LockedSteps ==
  /\ LockedStep \subseteq GitStep /\ "appendAsset" \notin GitStep \cup LockedStep
  /\ Lasting \cap LockedStep = {}
BY DEF LockedStep, Lasting, GitStep, Setup, Ref, Tree, Remote, Operation

\* What git does in a step that it takes, for a call that knows whether HEAD has a
\* commit, and what another step leaves of it.
LEMMA EffectLeft ==
  ASSUME NEW r \in Repository, NEW k, NEW s \in LockedStep, NEW x \in Effect(s, r, k),
         s = "unstage" => k.head \/ ~r.born
  PROVE  Left(s, x, k.exists)
<1>1. CASE s \in Ref
  <2>1. x \in RefEffect(s, r)
    BY <1>1 DEF Effect, Ref, Setup
  <2>2. CASE s \in {"branch", "deleteBranch"}
    <3>1. x = [r EXCEPT !.branches = IF s = "branch" THEN r.branches \cup {"dev"} ELSE r.branches \ {"dev"}]
      BY <2>1, <2>2 DEF RefEffect
    <3>2. x.branches = IF s = "branch" THEN r.branches \cup {"dev"} ELSE r.branches \ {"dev"}
      BY <3>1 DEF Repository
    <3>3. QED
      BY <2>2, <3>2 DEF Left, Operation
  <2>3. CASE s \in {"checkout", "checkoutMain", "detach"}
    BY <2>1, <2>3 DEF RefEffect, Left, Repository, Operation
  <2>4. CASE s \in {"tag", "deleteTag"}
    BY <2>1, <2>4 DEF RefEffect, Left, Repository, Operation
  <2>5. QED
    BY <1>1, <2>2, <2>3, <2>4 DEF Ref
<1>2. CASE s \in {"initialCommit", "setUrl"}
  <2>1. x \in SetupEffect(s, r)
    BY <1>2 DEF Effect, Setup
  <2>2. CASE s = "initialCommit"
    <3>1. x = [Committed(r) EXCEPT !.work = FALSE] \/ (x = r /\ ~r.work)
      BY <2>1, <2>2 DEF SetupEffect
    <3>2. ~x.work
      BY <3>1, CommittedType DEF Repository
    <3>3. QED
      BY <2>2, <3>2 DEF Left, Operation
  <2>3. CASE s = "setUrl"
    BY <2>1, <2>3 DEF SetupEffect, Left, Repository, Operation
  <2>4. QED
    BY <1>2, <2>2, <2>3
<1>3. CASE s \notin Ref /\ s \notin {"initialCommit", "setUrl"}
  <2>1. s \in {"add", "clean", "unstage", "commit", "restore", "continue", "abort",
               "mergeNoCommit", "pickNoCommit"} \cup Operation
    BY <1>3 DEF LockedStep, Ref
  <2>2. x \in TreeEffect(s, r, k)
    BY <1>3, <2>1 DEF Effect, Setup, Tree, Operation
  <2>3. CASE s \in {"add", "clean"}
    BY <2>2, <2>3 DEF TreeEffect, Left, Repository, Operation
  <2>4. CASE s \in {"unstage", "restore"}
    BY <2>2, <2>4 DEF TreeEffect, Left, Repository, Operation
  <2>5. CASE s = "commit"
    <3>1. x = Committed(r)
      BY <2>2, <2>5 DEF TreeEffect, Operation
    <3>2. ~x.staged
      BY <3>1 DEF Committed, Repository
    <3>3. QED
      BY <2>5, <3>2 DEF Left, Operation
  <2>6. CASE s \in {"continue", "abort"} \cup Operation
    BY <2>2, <2>6 DEF TreeEffect, Left, Repository, Operation, Settled
  <2>7. CASE s \in {"mergeNoCommit", "pickNoCommit"}
    BY <2>2, <2>7 DEF TreeEffect, Left, Repository, Operation
  <2>8. QED
    BY <2>1, <2>3, <2>4, <2>5, <2>6, <2>7
<1>4. QED
  BY <1>1, <1>2, <1>3

\* The git commands that follow one a method promises something by.
Follows(s, t) ==
  \/ s = "restore" /\ t \in {"clean", "cleanUnborn"}
  \/ s \in {"initialCommit", "setUrl"} /\ t = "config"

LEMMA NextLeaves ==
  ASSUME NEW r \in Repository, NEW k, NEW s, NEW t, Follows(s, t), NEW x \in Effect(t, r, k),
         Left(s, r, k.exists)
  PROVE  Left(s, x, k.exists)
<1>1. CASE s = "restore" /\ t \in {"clean", "cleanUnborn"}
  <2>1. x = [r EXCEPT !.work = FALSE]
    BY <1>1 DEF Effect, TreeEffect, Setup, Ref, Tree, Operation
  <2>2. QED
    BY <1>1, <2>1 DEF Left, Repository, Operation
<1>2. CASE s \in {"initialCommit", "setUrl"} /\ t = "config"
  <2>1. x = [r EXCEPT !.hosted = TRUE]
    BY <1>2 DEF Effect, SetupEffect, Setup
  <2>2. QED
    BY <1>2, <2>1 DEF Left, Repository, Operation
<1>3. QED
  BY <1>1, <1>2 DEF Follows

\* What a method does after the look for a commit makes none.
LEMMA NoBirth ==
  ASSUME NEW r \in Repository, NEW k, NEW t \in {"unstage", "restore", "clean", "cleanUnborn"},
         NEW x \in Effect(t, r, k)
  PROVE  x.born = r.born
<1>1. x \in TreeEffect(t, r, k)
  BY DEF Effect, Setup, Ref, Tree
<1>2. QED
  BY <1>1 DEF TreeEffect, Repository, Operation

LEMMA LaterSteps ==
  ASSUME NEW n \in DOMAIN Program, NEW i \in 1..Len(Program[n]), NEW j \in (i + 1)..Len(Program[n]),
         Program[n][i] \in Brings(n) \ Lasting
  PROVE  /\ Program[n][j] # "lock" /\ Program[n][j] # "probe"
         /\ Program[n][j] \in GitStep => Follows(Program[n][i], Program[n][j])
<1>1. \/ Program[n][j] \notin GitStep \cup {"lock", "probe"}
      \/ Follows(Program[n][i], Program[n][j])
  BY PromisesAssumption DEF Follows
<1>2. QED
  BY <1>1 DEF Follows

\* The rows, of which only the assets of a release are taken back.
LEMMA RowsLast ==
  ASSUME IInv, [Next]_vars
  PROVE  /\ (forkRow => forkRow') /\ (starred => starred') /\ activity \subseteq activity'
         /\ \A c \in Call : release[c].there => release'[c].there
         /\ ~release["seed"].there => ~release'["seed"].there
<1>1. CASE UNCHANGED rows
  BY <1>1 DEF rows
<1>2. ASSUME NEW c \in Call, Store(c)
      PROVE  /\ (forkRow => forkRow') /\ (starred => starred') /\ activity \subseteq activity'
             /\ \A d \in Call : release[d].there => release'[d].there
             /\ ~release["seed"].there => ~release'["seed"].there
  <2>1. (forkRow => forkRow') /\ (starred => starred') /\ activity \subseteq activity'
    BY <1>2 DEF Store, Written, RecordActivity, StarRow, ForkRow, ReleaseRow, DeleteRow, SetAssets, rows
  <2>2. CASE release' = release
    BY <2>1, <2>2
  <2>3. CASE release' # release
    <3>1. release \in [ReleaseId -> [there : BOOLEAN, assets : SUBSET Asset]] /\ Call \subseteq ReleaseId
          /\ "seed" \in ReleaseId /\ "seed" \notin Call
      BY OperationsAssumption DEF ReleaseId, IInv, TypeOK
    <3>2. NewRelease.there /\ ~NoRelease.there
      BY DEF NewRelease, NoRelease
    <3>3. \/ release' = [release EXCEPT ![c] = NewRelease]
          \/ release' = [release EXCEPT !["seed"] = NoRelease]
          \/ \E b : release' = [release EXCEPT !["seed"].assets = b]
      BY <1>2, <2>3, ReleaseWritten DEF ReleaseRow, DeleteRow, SetAssets
    <3>4. QED
      BY <2>1, <3>1, <3>2, <3>3
  <2>4. QED
    BY <2>2, <2>3
<1>3. QED
  BY <1>1, <1>2 DEF Next, Step, Lock, Unlock, Omit, RunGit, GitIsKilled, Look, Fail, Begin, vars

LEMMA LastingLasts ==
  ASSUME IInv, [Next]_vars, NEW c \in Call, NEW s \in Lasting, Wrought(c, s), call'[c].on = call[c].on
  PROVE  Wrought(c, s)'
<1>1. call[c].on \in Path
  BY DEF IInv, TypeOK, CallState
<1>2. Stays(repo[call[c].on], repo'[call[c].on])
  BY <1>1, RepoStaysStep DEF RepoStays
<1>3. s \notin LockedStep
  BY LockedSteps
<1>4. CASE s \in {"config", "fetchUpstream"}
  BY <1>2, <1>3, <1>4 DEF Wrought, Stays
<1>5. CASE s \in {"forkRow", "activity", "setStar"}
  BY <1>3, <1>5, RowsLast DEF Wrought
<1>6. CASE s \in {"releaseRow", "deleteRow"}
  BY <1>3, <1>6, RowsLast DEF Wrought
<1>7. QED
  BY <1>4, <1>5, <1>6 DEF Lasting

\* What a method that changes the index is told of HEAD.
LEMMA KnowsHead ==
  ASSUME IInv, HeadInv, NEW c \in Call, Running(c), ~Spoilt(c),
         StepOf(c) \in {"unstage", "restore"}, StepOf(c) \in Brings(call[c].op)
  PROVE  call[c].head \/ ~repo[call[c].on].born
<1>1. call[c].op \in {"unstagePaths", "discardPaths", "discardUntracked"}
  BY DEF Brings, Operation
<1>2. call[c].op \notin ForkMethod
  BY <1>1 DEF ForkMethod, ForkMethods
<1>3. StepOf(c) \in GitStep
  BY DEF GitStep, Tree
<1>4. /\ call[c].op \in DOMAIN Program /\ call[c].pc \in 1..Len(Program[call[c].op])
      /\ StepOf(c) = Program[call[c].op][call[c].pc]
      /\ holder[call[c].on] = c <=> Held(call[c].op, call[c].pc)
  BY PlaceOf
<1>5. holder[call[c].on] = c
  BY <1>2, <1>3, <1>4, MethodsAssumption
<1>6. PICK j \in 1..(call[c].pc - 1) : Program[call[c].op][j] = "hasHead"
  BY <1>4, PromisesAssumption
<1>7. QED
  BY <1>5, <1>6 DEF HeadInv

\* A step that a method promises something by brings it about.
LEMMA StepBrings ==
  ASSUME IInv, HeadInv, NEW c \in Call, Step(c), ~Fail(c), ~Spoilt(c), c \notin killed',
         NEW s \in Brings(call[c].op), s = StepOf(c)
  PROVE  Wrought(c, s)'
<1> DEFINE p == call[c].on
<1>1. Running(c) /\ Moved(c) /\ call'[c].on = p
  BY StepMoves DEF Moved
<1>2. s \in Lasting \cup {"appendAsset"} \cup LockedStep
  BY BringsSteps
<1>6. call'[c].exists = call[c].exists
  BY <1>2, FoundStays DEF Lasting, LockedStep, Operation
<1>3. CASE s \in {"forkRow", "activity", "setStar", "releaseRow", "deleteRow", "appendAsset"}
  <2>1. Store(c) /\ Written(c)
    BY <1>3 DEF Step, Lock, Unlock, Omit, Omitted, RunGit, GitIsKilled, Look, Looks, LookStep, WayStep, Store,
                At, GitStep, Setup, Ref, Tree, Remote, Operation
  <2>0. s \notin LockedStep
    BY <1>3, LockedSteps DEF Lasting
  <2>2. CASE s \in {"forkRow", "activity", "setStar"}
    BY <1>1, <2>0, <2>1, <2>2 DEF Written, At, RecordActivity, StarRow, ForkRow, Wrought
  <2>3. release \in [ReleaseId -> [there : BOOLEAN, assets : SUBSET Asset]] /\ c \in ReleaseId
        /\ "seed" \in ReleaseId
    BY DEF ReleaseId, IInv, TypeOK
  <2>4. NewRelease.there /\ ~NoRelease.there
    BY DEF NewRelease, NoRelease
  <2>5. CASE s = "releaseRow"
    BY <2>0, <2>1, <2>3, <2>4, <2>5 DEF Written, At, ReleaseRow, Wrought
  <2>6. CASE s = "deleteRow"
    BY <2>0, <2>1, <2>3, <2>4, <2>6 DEF Written, At, DeleteRow, Wrought
  <2>7. CASE s = "appendAsset"
    <3>1. SetAssets(Appended(c)) /\ c \in Appended(c)
      BY <2>1, <2>7 DEF Written, At, Appended
    <3>2. release'["seed"].there => c \in release'["seed"].assets
      BY <2>3, <3>1 DEF SetAssets
    <3>3. QED
      BY <2>0, <2>7, <3>2 DEF Wrought
  <2>8. QED
    BY <1>3, <2>2, <2>5, <2>6, <2>7
<1>4. CASE s \in {"config", "fetchUpstream"} \cup LockedStep
  <2>1. s \in GitStep /\ s \notin {"lock", "unlock"}
    BY <1>4, LockedSteps, GitStepIsNoLock DEF GitStep, Setup, Remote
  <2>2. PathOf(c) = p /\ p \in Path /\ Here(c) = repo[p] /\ repo[p] \in Repository
    BY <1>1, <2>1, GitOnItsPath, PathType DEF Here, IInv, TypeOK, CallState
  <2>3. Omit(c) \/ RunGit(c)
    <3>1. s \notin Looks /\ ~Written(c)
      BY <2>1 DEF Looks, LookStep, WayStep, Written, At, GitStep, Setup, Ref, Tree, Remote, Operation
    <3>2. QED
      BY <2>1, <3>1 DEF Step, Lock, Unlock, At, Look, Store, GitIsKilled
  <2>4. CASE Omit(c)
    <3>1. repo' = repo /\ Omitted(c, s)
      BY <2>4 DEF Omit
    <3>2. CASE s = "restore"
      <4>1. ~call[c].head
        BY <3>1, <3>2 DEF Omitted
      <4>2. ~repo[p].born
        BY <1>1, <3>2, <4>1, KnowsHead
      <4>3. QED
        BY <1>1, <3>1, <3>2, <4>2 DEF Wrought, Left, LockedStep, Operation
    <3>3. CASE s \in {"initialCommit", "setUrl"}
      <4>1. call[c].exists \/ (s = "initialCommit" /\ ~repo[p].work)
        BY <2>2, <3>1, <3>3 DEF Omitted
      <4>2. QED
        BY <1>1, <1>6, <3>1, <3>3, <4>1 DEF Wrought, Left, LockedStep, Operation
    <3>4. QED
      BY <1>4, <3>1, <3>2, <3>3 DEF Omitted, LockedStep, Operation
  <2>5. CASE RunGit(c)
    <3>1. PICK x \in Effect(s, repo[p], call[c]) : repo' = [repo EXCEPT ![p] = x]
      BY <2>2, <2>5 DEF RunGit
    <3>2. repo'[p] = x
      BY <2>2, <3>1 DEF IInv, TypeOK
    <3>3. CASE s = "config"
      <4>1. repo[p].made /\ x = [repo[p] EXCEPT !.hosted = TRUE]
        BY <3>1, <3>3 DEF Effect, Setup, SetupEffect
      <4>2. x.made /\ x.hosted
        BY <2>2, <4>1 DEF Repository
      <4>3. s \notin LockedStep
        BY <3>3, LockedSteps DEF Lasting
      <4>4. QED
        BY <1>1, <3>2, <3>3, <4>2, <4>3 DEF Wrought
    <3>4. CASE s = "fetchUpstream"
      <4>1. x = [repo[p] EXCEPT !.fetched = TRUE]
        BY <3>1, <3>4 DEF Effect, Setup, Ref, Tree, Operation, RemoteEffect
      <4>2. x.fetched
        BY <2>2, <4>1 DEF Repository
      <4>3. s \notin LockedStep
        BY <3>4, LockedSteps DEF Lasting
      <4>4. QED
        BY <1>1, <3>2, <3>4, <4>2, <4>3 DEF Wrought
    <3>5. CASE s \in LockedStep
      <4>0. s = "unstage" => call[c].head \/ ~repo[p].born
        BY <1>1, KnowsHead
      <4>1. Left(s, repo'[p], call'[c].exists)
        BY <1>6, <2>2, <3>1, <3>2, <3>5, <4>0, EffectLeft
      <4>2. s \notin Lasting \cup {"appendAsset"}
        BY <3>5, LockedSteps
      <4>3. QED
        BY <1>1, <3>5, <4>1, <4>2 DEF Wrought, Lasting
    <3>6. QED
      BY <1>4, <3>3, <3>4, <3>5
  <2>6. QED
    BY <2>3, <2>4, <2>5
<1>5. QED
  BY <1>2, <1>3, <1>4 DEF Lasting

\* What a git command left is left by the later steps of its method.
LEMMA StepLeaves ==
  ASSUME IInv, NEW c \in Call, Step(c), ~Fail(c), NEW i \in 1..(call[c].pc - 1),
         NEW s \in Brings(call[c].op) \cap LockedStep, s = Program[call[c].op][i], Wrought(c, s)
  PROVE  Wrought(c, s)'
<1> DEFINE t == StepOf(c)
           p == call[c].on
<1>1. Running(c) /\ call'[c].on = p /\ p \in Path /\ repo[p] \in Repository
  BY StepMoves, PlaceOf DEF Moved, IInv, TypeOK
<1>2. /\ call[c].op \in DOMAIN Program /\ i \in 1..Len(Program[call[c].op])
      /\ call[c].pc \in (i + 1)..Len(Program[call[c].op])
  BY <1>1, PlaceOf
<1>3. s \notin Lasting /\ s # "appendAsset"
  BY LockedSteps
<1>4. t # "probe" /\ (t \notin GitStep \/ Follows(s, t))
  BY <1>2, <1>3, LaterSteps DEF StepOf
<1>5. Left(s, repo[p], call[c].exists) /\ call'[c].exists = call[c].exists
  BY <1>3, <1>4, FoundStays DEF Wrought, Lasting
<1>6. Left(s, repo'[p], call'[c].exists)
  <2>1. CASE RunGit(c)
    <3>1. Follows(s, t) /\ PathOf(c) = p
      BY <1>4, <2>1, GitOnItsPath DEF RunGit
    <3>2. PICK x \in Effect(t, repo[p], call[c]) : repo' = [repo EXCEPT ![p] = x]
      BY <2>1, <3>1 DEF RunGit, Here
    <3>3. repo'[p] = x
      BY <1>1, <3>2 DEF IInv, TypeOK
    <3>4. QED
      BY <1>1, <1>5, <3>1, <3>2, <3>3, NextLeaves
  <2>2. CASE ~RunGit(c)
    BY <1>5, <2>2 DEF Step, Lock, Unlock, Omit, GitIsKilled, Look, Store
  <2>3. QED
    BY <2>1, <2>2
<1>7. QED
  BY <1>1, <1>3, <1>6 DEF Wrought, Lasting

\* After its step, a call has brought about what the steps up to this one promise.
LEMMA BehindAfterStep ==
  ASSUME IInv, HeadInv, WroughtInv, [Next]_vars, NEW c \in Call, Step(c), ~Fail(c), ~Spoilt(c), c \notin killed',
         NEW i \in 1..call[c].pc, NEW s \in Brings(call[c].op), s = Program[call[c].op][i],
         s \in Lasting \/ i = call[c].pc \/ (s \in GitStep /\ holder[call[c].on] = c)
  PROVE  Wrought(c, s)'
<1>1. Running(c) /\ call'[c].on = call[c].on /\ call[c].pc \in Nat
  BY StepMoves, PlaceOf DEF Moved
<1>2. CASE i = call[c].pc
  BY <1>2, StepBrings DEF StepOf
<1>3. CASE i # call[c].pc
  <2>1. i \in 1..(call[c].pc - 1)
    BY <1>1, <1>3
  <2>2. Wrought(c, s)
    BY <1>1, <1>3, <2>1 DEF WroughtInv
  <2>3. CASE s \in Lasting
    BY <1>1, <2>2, <2>3, LastingLasts
  <2>4. CASE s \notin Lasting
    <3>1. s \in LockedStep
      BY <1>3, <2>4, BringsSteps, LockedSteps
    <3>2. QED
      BY <2>1, <2>2, <3>1, StepLeaves
  <2>5. QED
    BY <2>3, <2>4
<1>4. QED
  BY <1>2, <1>3

\* The calls that another call's step leaves alone: their repository, while they
\* hold its lock.
LEMMA HeldRepoStays ==
  ASSUME IInv, [Next]_vars, NEW c \in Call, call'[c] = call[c], NEW p \in Path, holder[p] = c, c \notin disturbed'
  PROVE  repo'[p] = repo[p]
<1> SUFFICES ASSUME repo'[p] # repo[p] PROVE FALSE
  OBVIOUS
<1>1. PICK d \in Call : RunGit(d) \/ Fail(d)
  BY DEF Next, Step, Lock, Unlock, Omit, GitIsKilled, Look, Store, Begin, vars
<1>2. PICK x : /\ repo' = [repo EXCEPT ![PathOf(d)] = x]
               /\ disturbed' = IF x = Here(d) THEN disturbed ELSE Disturb(d, PathOf(d))
  BY <1>1 DEF RunGit, Fail
<1>3. p = PathOf(d) /\ x # Here(d)
  BY <1>2 DEF IInv, TypeOK, Here
<1>4. c # d
  <2>1. SUFFICES ASSUME c = d PROVE FALSE
    OBVIOUS
  <2>2. Running(c) /\ (Moved(c) \/ call'[c].result = "error")
    <3>1. CASE RunGit(d)
      BY <2>1, <3>1, AdvanceMoves DEF RunGit
    <3>2. CASE Fail(d)
      BY <2>1, <3>2, EndedIs DEF Fail, IInv, TypeOK
    <3>3. QED
      BY <1>1, <3>1, <3>2
  <2>3. call[c].pc \in Nat /\ call[c].result = "running"
    BY <2>2, PlaceOf DEF Running
  <2>4. QED
    BY <2>2, <2>3 DEF Moved
<1>5. QED
  BY <1>2, <1>3, <1>4, OperationsAssumption DEF Disturb

LEMMA SpoiltStays ==
  ASSUME [Next]_vars
  PROVE  killed \subseteq killed' /\ disturbed \subseteq disturbed' /\ misread \subseteq misread'
BY DEF Next, Step, Lock, Unlock, Omit, RunGit, GitIsKilled, Look, Store, Fail, Begin, Disturb, history, vars

LEMMA HeadInvStep == IInv /\ HeadInv /\ [Next]_vars => HeadInv'
<1> SUFFICES ASSUME IInv, HeadInv, [Next]_vars, NEW c \in Call, Running(c)', ~Spoilt(c)',
                    NEW i \in 1..(call'[c].pc - 1),
                    Program[call'[c].op][i] = "hasHead", holder'[call'[c].on] = c
             PROVE  call'[c].head \/ ~repo'[call'[c].on].born
  BY DEF HeadInv
<1>1. IInv'
  BY NextKeepsIInv
<1>2. CASE call'[c] = call[c]
  <2>1. Running(c) /\ ~Spoilt(c) /\ call[c].on \in Path
    BY <1>2, SpoiltStays DEF Running, Spoilt, IInv, TypeOK, CallState
  <2>2. holder[call[c].on] = c
    BY <1>1, <1>2, <2>1 DEF IInv, LockInv, Running
  <2>3. repo'[call[c].on] = repo[call[c].on]
    BY <1>2, <2>1, <2>2, HeldRepoStays DEF Spoilt
  <2>4. QED
    BY <1>2, <2>1, <2>2, <2>3 DEF HeadInv
<1>3. CASE call'[c] # call[c]
  <2>1. PICK d \in Call : Step(d) \/ \E a \in Asked : Begin(d, a[1], a[2])
    BY <1>3 DEF Next, vars
  <2>2. d = c
    BY <1>3, <2>1 DEF Step, Lock, Unlock, Omit, RunGit, GitIsKilled, Look, Store, Fail, Begin, Advance, IInv, TypeOK
  <2>3. CASE \E a \in Asked : Begin(c, a[1], a[2])
    <3>1. PICK a \in Asked : call'[c] = Fresh(a[1], a[2], 1, "running")
      BY <2>3 DEF Begin, IInv, TypeOK
    <3>2. PICK k : k = Fresh(a[1], a[2], 1, "running")
      OBVIOUS
    <3>3. k.pc = 1
      BY <3>2 DEF Fresh
    <3>4. call'[c] = k
      BY <3>1, <3>2
    <3>5. QED
      BY <3>3, <3>4
  <2>4. CASE Step(c)
    <3>1. ~Fail(c)
      BY EndedIs DEF Fail, IInv, TypeOK, Running
    <3>2. Running(c) /\ Moved(c)
      BY <2>4, <3>1, StepMoves
    <3>3. /\ call'[c].op = call[c].op /\ call'[c].on = call[c].on /\ call'[c].pc = call[c].pc + 1
          /\ call[c].pc # Len(Program[call[c].op])
      BY <3>2 DEF Moved, Running
    <3>4. /\ call[c].op \in DOMAIN Program /\ call[c].pc \in 1..Len(Program[call[c].op])
          /\ call[c].pc \in Nat /\ call[c].on \in Path /\ Len(Program[call[c].op]) \in Nat
          /\ StepOf(c) = Program[call[c].op][call[c].pc]
          /\ holder[call[c].on] = c <=> Held(call[c].op, call[c].pc)
      BY <3>2, PlaceOf
    <3>5. ~Spoilt(c) /\ c \notin misread'
      BY SpoiltStays DEF Spoilt
    <3>6. CASE i = call[c].pc
      <4>1. StepOf(c) = "hasHead"
        BY <3>3, <3>4, <3>6
      <4>2. Look(c)
        BY <2>4, <3>1, <4>1 DEF Step, Lock, Unlock, Omit, Omitted, RunGit, GitIsKilled, Store, Written, At,
                                GitStep, Setup, Ref, Tree, Remote, Operation
      <4>3. PathOf(c) = call[c].on /\ repo' = repo
        BY <4>1, <4>2 DEF PathOf, Look
      <4>4. QED
        BY <3>3, <3>5, <4>1, <4>2, <4>3, LookMoves DEF Here
    <3>7. CASE i # call[c].pc
      <4>1. i \in 1..(call[c].pc - 1) /\ i \in 1..Len(Program[call[c].op])
            /\ call[c].pc \in (i + 1)..Len(Program[call[c].op])
        BY <3>3, <3>4, <3>7
      <4>2. StepOf(c) \in {"unstage", "restore", "clean", "cleanUnborn", "summary", "unlock"}
        BY <3>3, <3>4, <4>1, PromisesAssumption
      <4>3. Held(call[c].op, call[c].pc + 1)
        BY <1>1, <3>3, <3>4 DEF IInv, LockInv
      <4>4. holder[call[c].on] = c
        <5>1. StepOf(c) \notin {"lock", "unlock"}
          BY <3>4, <4>2, <4>3, HeldNext
        <5>2. QED
          BY <3>4, <4>3, <5>1, HeldNext
      <4>5. call[c].head \/ ~repo[call[c].on].born
        BY <3>2, <3>3, <3>5, <4>1, <4>4 DEF HeadInv
      <4>6. call'[c].head = call[c].head
        BY <2>4, <3>1, <3>3, <4>2, FoundStays
      <4>7. repo'[call[c].on].born = repo[call[c].on].born
        <5>1. CASE RunGit(c)
          <6>1. StepOf(c) \in GitStep /\ StepOf(c) \in {"unstage", "restore", "clean", "cleanUnborn"}
            BY <4>2, <5>1 DEF RunGit, GitStep, Setup, Ref, Tree, Remote, Operation
          <6>2. PathOf(c) = call[c].on
            BY <6>1, GitOnItsPath
          <6>3. PICK x \in Effect(StepOf(c), repo[call[c].on], call[c]) : repo' = [repo EXCEPT ![call[c].on] = x]
            BY <5>1, <6>2 DEF RunGit, Here
          <6>4. repo'[call[c].on] = x /\ repo[call[c].on] \in Repository
            BY <3>4, <6>3 DEF IInv, TypeOK
          <6>5. QED
            BY <6>1, <6>3, <6>4, NoBirth
        <5>2. CASE ~RunGit(c)
          BY <2>4, <3>1, <5>2 DEF Step, Lock, Unlock, Omit, GitIsKilled, Look, Store
        <5>3. QED
          BY <5>1, <5>2
      <4>8. QED
        BY <3>3, <4>5, <4>6, <4>7
    <3>8. QED
      BY <3>6, <3>7
  <2>5. QED
    BY <2>1, <2>2, <2>3, <2>4
<1>4. QED
  BY <1>2, <1>3

LEMMA WroughtInvStep == IInv /\ HeadInv /\ WroughtInv /\ [Next]_vars => WroughtInv'
<1> SUFFICES ASSUME IInv, HeadInv, WroughtInv, [Next]_vars, NEW c \in Call, Running(c)', ~Spoilt(c)',
                    NEW i \in 1..(call'[c].pc - 1),
                    NEW s \in Brings(call'[c].op), s = Program[call'[c].op][i],
                    s \in Lasting \/ (s \in GitStep /\ holder'[call'[c].on] = c)
             PROVE  Wrought(c, s)'
  BY DEF WroughtInv
<1>1. IInv'
  BY NextKeepsIInv
<1>2. CASE call'[c] = call[c]
  <2>1. Running(c) /\ ~Spoilt(c) /\ call[c].on \in Path
    BY <1>2, SpoiltStays DEF Running, Spoilt, IInv, TypeOK, CallState
  <2>2. holder'[call[c].on] = c <=> holder[call[c].on] = c
    BY <1>1, <1>2, <2>1 DEF IInv, LockInv, Running
  <2>3. Wrought(c, s)
    BY <1>2, <2>1, <2>2 DEF WroughtInv
  <2>4. CASE s \in Lasting
    BY <1>2, <2>3, <2>4, LastingLasts
  <2>5. CASE s \notin Lasting
    <3>1. s \in LockedStep
      BY <2>5, BringsSteps, LockedSteps
    <3>2. repo'[call[c].on] = repo[call[c].on]
      BY <1>2, <2>1, <2>2, <2>5, HeldRepoStays DEF Spoilt
    <3>3. s # "appendAsset"
      BY <3>1, LockedSteps
    <3>4. QED
      BY <1>2, <2>3, <2>5, <3>2, <3>3 DEF Wrought, Lasting
  <2>6. QED
    BY <2>4, <2>5
<1>3. CASE call'[c] # call[c]
  <2>1. PICK d \in Call : Step(d) \/ \E a \in Asked : Begin(d, a[1], a[2])
    BY <1>3 DEF Next, vars
  <2>2. d = c
    BY <1>3, <2>1 DEF Step, Lock, Unlock, Omit, RunGit, GitIsKilled, Look, Store, Fail, Begin, Advance, IInv, TypeOK
  <2>3. CASE \E a \in Asked : Begin(c, a[1], a[2])
    <3>1. PICK a \in Asked : call'[c] = Fresh(a[1], a[2], 1, "running")
      BY <2>3 DEF Begin, IInv, TypeOK
    <3>2. PICK k : k = Fresh(a[1], a[2], 1, "running")
      OBVIOUS
    <3>3. k.pc = 1
      BY <3>2 DEF Fresh
    <3>4. call'[c] = k
      BY <3>1, <3>2
    <3>5. QED
      BY <3>3, <3>4
  <2>4. CASE Step(c)
    <3>1. ~Fail(c)
      BY EndedIs DEF Fail, IInv, TypeOK, Running
    <3>2. Running(c) /\ Moved(c)
      BY <2>4, <3>1, StepMoves
    <3>3. call'[c].op = call[c].op /\ call'[c].on = call[c].on /\ call'[c].pc = call[c].pc + 1
      BY <3>2 DEF Moved, Running
    <3>4. ~Spoilt(c) /\ c \notin killed'
      BY <3>3, SpoiltStays DEF Spoilt
    <3>5. /\ call[c].op \in DOMAIN Program /\ call[c].pc \in 1..Len(Program[call[c].op])
          /\ call[c].pc \in Nat /\ call[c].on \in Path /\ Len(Program[call[c].op]) \in Nat
          /\ StepOf(c) = Program[call[c].op][call[c].pc]
          /\ holder[call[c].on] = c <=> Held(call[c].op, call[c].pc)
      BY <3>2, PlaceOf
    <3>6. i \in 1..call[c].pc
      BY <3>3, <3>5
    <3>7. ASSUME s \notin Lasting, i # call[c].pc PROVE holder[call[c].on] = c
      <4>1. holder'[call[c].on] = c /\ Held(call[c].op, call[c].pc + 1)
        BY <1>1, <3>3, <3>5, <3>7 DEF IInv, LockInv
      <4>2. i \in 1..Len(Program[call[c].op]) /\ call[c].pc \in (i + 1)..Len(Program[call[c].op])
        BY <3>5, <3>6, <3>7
      <4>3. StepOf(c) # "lock"
        BY <3>3, <3>5, <3>7, <4>2, LaterSteps
      <4>4. StepOf(c) # "unlock"
        BY <3>5, <4>1, HeldNext
      <4>5. QED
        BY <3>5, <4>1, <4>3, <4>4, HeldNext
    <3>8. QED
      BY <2>4, <3>1, <3>3, <3>4, <3>6, <3>7, BehindAfterStep
  <2>5. QED
    BY <2>1, <2>2, <2>3, <2>4
<1>4. QED
  BY <1>2, <1>3

\* The step by which a call returns runs no git.
LEMMA ReturnStep ==
  ASSUME IInv, [Next]_vars, NEW c \in Call, call[c].result = "running", call'[c].result = "ok"
  PROVE  /\ Step(c) /\ ~Fail(c) /\ Running(c) /\ call[c].pc = Len(Program[call[c].op])
         /\ StepOf(c) \notin GitStep /\ repo' = repo /\ killed' = killed
         /\ call'[c].op = call[c].op /\ call'[c].on = call[c].on /\ call'[c].exists = call[c].exists
<1>1. PICK d \in Call : Step(d) \/ \E a \in Asked : Begin(d, a[1], a[2])
  BY DEF Next, vars
<1>2. d = c /\ Step(c)
  <2>1. call'[c] # call[c]
    OBVIOUS
  <2>2. d = c
    BY <1>1, <2>1 DEF Step, Lock, Unlock, Omit, RunGit, GitIsKilled, Look, Store, Fail, Begin, Advance, IInv, TypeOK
  <2>3. QED
    BY <1>1, <2>2 DEF Begin
<1>3. ~Fail(c)
  BY EndedIs DEF Fail, IInv, TypeOK
<1>4. Running(c) /\ Moved(c)
  BY <1>2, <1>3, StepMoves
<1>5. call[c].pc = Len(Program[call[c].op])
  BY <1>4 DEF Moved
<1>6. StepOf(c) \notin GitStep /\ StepOf(c) # "probe"
  BY <1>4, <1>5, PlaceOf, PromisesAssumption
<1>7. repo' = repo /\ killed' = killed
  BY <1>2, <1>3, <1>6 DEF Step, Lock, Unlock, Omit, RunGit, GitIsKilled, Look, Store, history
<1>8. call'[c].exists = call[c].exists
  BY <1>2, <1>3, <1>6, FoundStays
<1>9. QED
  BY <1>2, <1>3, <1>4, <1>5, <1>6, <1>7, <1>8 DEF Moved

LEMMA AllWrought ==
  ASSUME IInv, HeadInv, WroughtInv, [Next]_vars, NEW c \in Call, ~Spoilt(c),
         call[c].result = "running", call'[c].result = "ok", NEW s \in Brings(call[c].op)
  PROVE  Wrought(c, s)'
<1>1. /\ Step(c) /\ ~Fail(c) /\ Running(c) /\ call[c].pc = Len(Program[call[c].op]) /\ killed' = killed
  BY ReturnStep
<1>2. /\ call[c].op \in DOMAIN Program
      /\ holder[call[c].on] = c <=> Held(call[c].op, call[c].pc)
  BY <1>1, PlaceOf
<1>3. PICK i \in 1..Len(Program[call[c].op]) : Program[call[c].op][i] = s
  BY <1>2, PromisesAssumption
<1>4. s \in Lasting \/ i = call[c].pc \/ (s \in GitStep /\ holder[call[c].on] = c)
  BY <1>1, <1>2, <1>3, PromisesAssumption
<1>5. QED
  BY <1>1, <1>3, <1>4, BehindAfterStep DEF Spoilt

LEMMA PromiseIsKept ==
  ASSUME IInv, HeadInv, WroughtInv, [Next]_vars, NEW c \in Call, ~Spoilt(c),
         call[c].result = "running", call'[c].result = "ok"
  PROVE  Promised(c)'
<1> DEFINE n == call[c].op
           r == repo'[call[c].on]
<1>1. call'[c].op = n /\ call'[c].on = call[c].on
  BY ReturnStep
<1>2. \A s \in Brings(n) : Wrought(c, s)'
  BY AllWrought
<1>3. \A s \in Brings(n) \cap LockedStep : Left(s, r, call'[c].exists)
  BY <1>1, <1>2 DEF Wrought
<1>4. CASE n \in {"ensureRepository", "ensureClone"}
  <2>1. Wrought(c, "config")'
    BY <1>2, <1>4 DEF PublishMethod, Brings
  <2>2. r.made /\ r.hosted
    BY <1>1, <2>1 DEF Wrought
  <2>3. /\ n = "ensureRepository" => call'[c].exists \/ (r.work => r.born)
        /\ n = "ensureClone" => call'[c].exists \/ r.origin # "clone"
    BY <1>3, <1>4 DEF PublishMethod, Brings, Left, LockedStep
  <2>4. QED
    BY <1>1, <1>4, <2>2, <2>3 DEF PublishMethod, Promised
<1>5. CASE n \in {"createBranch", "createBranchCheckout", "checkoutBranch", "checkoutMain", "checkoutRef"}
  BY <1>1, <1>3, <1>5 DEF PublishMethod, Promised, Brings, Left, LockedStep
<1>6. CASE n \in {"deleteBranch", "createTag", "deleteTag"}
  BY <1>1, <1>3, <1>6 DEF PublishMethod, Promised, Brings, Left, LockedStep
<1>7. CASE n \in {"stagePaths", "unstagePaths", "commit", "discardPaths", "discardUntracked"}
  BY <1>1, <1>3, <1>7 DEF PublishMethod, Promised, Brings, Left, LockedStep
<1>8. CASE n \in {"merge", "mergeNoCommit", "rebase", "cherryPick", "pickNoCommit", "continueOperation", "abortOperation"}
  BY ZenonT(30), <1>1, <1>3, <1>8 DEF PublishMethod, Promised, Brings, Left, LockedStep, Operation
<1>9. CASE n \in {"fetch", "pull", "push"}
  <2>1. Wrought(c, "config")' /\ Wrought(c, "activity")'
    BY <1>2, <1>9 DEF PublishMethod, Brings
  <2>2. QED
    BY <1>1, <1>9, <2>1 DEF PublishMethod, Wrought, Promised
<1>10. CASE n = "createFork"
  <2>1. Wrought(c, "config")' /\ Wrought(c, "fetchUpstream")' /\ Wrought(c, "forkRow")'
    BY <1>2, <1>10 DEF PublishMethod, Brings
  <2>2. QED
    BY <1>1, <1>10, <2>1 DEF PublishMethod, Wrought, Promised
<1>11. CASE n \in {"createRelease", "createReleaseOfTag"}
  <2>1. Wrought(c, "releaseRow")' /\ Wrought(c, "activity")'
    BY <1>2, <1>11 DEF PublishMethod, Brings
  <2>2. QED
    BY <1>1, <1>11, <2>1 DEF PublishMethod, Wrought, Promised
<1>12. CASE n \in {"deleteRelease", "deleteReleaseAndTag"}
  <2>1. Wrought(c, "deleteRow")'
    BY <1>2, <1>12 DEF PublishMethod, Brings
  <2>2. QED
    BY <1>1, <1>12, <2>1 DEF PublishMethod, Wrought, Promised
<1>13. CASE n \in PublishMethod
  <2>1. Wrought(c, "appendAsset")'
    BY <1>2, <1>13 DEF PublishMethod, Brings
  <2>2. QED
    BY <1>1, <1>13, <2>1 DEF PublishMethod, Wrought, Promised
<1>14. CASE n = "starRepository"
  <2>1. Wrought(c, "setStar")' /\ Wrought(c, "activity")'
    BY <1>2, <1>14 DEF PublishMethod, Brings
  <2>2. QED
    BY <1>1, <1>14, <2>1 DEF PublishMethod, Wrought, Promised
<1>15. QED
  BY <1>1, <1>4, <1>5, <1>6, <1>7, <1>8, <1>9, <1>10, <1>11, <1>12, <1>13, <1>14 DEF PublishMethod, Promised

\* For any number of callers, whatever ran before, runs beside and fails: a method
\* that returns without error has done what it says, unless a command of it was
\* killed (process.ts:67), its repository was changed under its lock
\* (fork_methods.ts:80), or it was told that HEAD has no commit because rev-parse
\* failed (working_tree/shared.ts:57).
THEOREM SuccessKeepsPromiseHolds == Spec => SuccessKeepsPromise
<1> DEFINE Kept == \A c \in Call :
             (call[c].result = "running" /\ call'[c].result = "ok")
               => \/ Promised(c)'
                  \/ c \in killed \/ c \in disturbed \/ c \in misread
           Inv == IInv /\ HeadInv /\ WroughtInv
<1>1. Init => Inv
  <2> SUFFICES ASSUME Init PROVE HeadInv /\ WroughtInv
    BY InitIInv
  <2>1. \A c \in Call : ~Running(c)
    BY IdleType DEF Init, Running
  <2>2. QED
    BY <2>1 DEF HeadInv, WroughtInv
<1>2. Inv /\ [Next]_vars => Inv'
  BY NextKeepsIInv, HeadInvStep, WroughtInvStep
<1>3. Inv /\ [Next]_vars => [Kept]_vars
  <2> SUFFICES ASSUME Inv, [Next]_vars, NEW c \in Call, call[c].result = "running", call'[c].result = "ok",
                      ~Spoilt(c)
               PROVE  Promised(c)'
    BY DEF Spoilt
  <2>1. QED
    BY PromiseIsKept
<1>4. [][Kept]_vars => SuccessKeepsPromise
  BY DEF SuccessKeepsPromise
<1>5. QED
  BY <1>1, <1>2, <1>3, <1>4, PTL DEF Spec
===============================================================================
