------------------------- MODULE RepositoryLockProofs -------------------------
(***************************************************************************)
(* Proofs about RepositoryLock, for any sets of calls, ids and keys: type  *)
(* correctness, mutual exclusion, the life of the map entries, and that    *)
(* the promise chain implements first-come first-served access.            *)
(*                                                                         *)
(* The chain itself is only local knowledge: a call sees one predecessor.  *)
(* Chain ties it to the global order: what is ahead of a call is its       *)
(* predecessor and what is ahead of that, until the predecessor is over.   *)
(***************************************************************************)
EXTENDS RepositoryLock, FiniteSetTheorems, TLAPS

\* Who is ahead is always an unfinished call for the same key, and the order
\* is total and asymmetric among the unfinished calls for a key.
Order ==
  /\ \A c, d \in Call : d \in ahead[c] =>
        /\ pc[c] = "waiting" /\ Pending(d)
        /\ key[d] = key[c] /\ key[c] # NoKey
        /\ c \notin ahead[d]
  /\ \A c, d \in Call : Pending(c) /\ Pending(d) /\ key[c] = key[d] /\ key[c] # NoKey
        => c = d \/ c \in ahead[d] \/ d \in ahead[c]

\* The map entry is the last unfinished call for its key.
Tails ==
  \A k \in Key :
    /\ tails[k] = NoCall => \A d \in Call : ~(Pending(d) /\ key[d] = k)
    /\ tails[k] # NoCall =>
         /\ Pending(tails[k]) /\ key[tails[k]] = k
         /\ \A d \in Call : Pending(d) /\ key[d] = k => d = tails[k] \/ d \in ahead[tails[k]]

\* One predecessor stands for everything ahead.
Chain ==
  \A c \in Call : pc[c] = "waiting" =>
    \/ /\ previous[c] = NoCall \/ Over(previous[c])
       /\ ahead[c] = {}
    \/ /\ previous[c] \in Call
       /\ Pending(previous[c])
       /\ ahead[c] = ahead[previous[c]] \cup {previous[c]}

\* Gates open and tails settle only behind finished calls; a call that has not
\* been made asked for nothing, a waiting one asked for a key.
Gates ==
  /\ \A c \in Call : c \in open => Over(c)
  /\ settled \subseteq open
  /\ \A c \in Call : pc[c] = "idle" => key[c] = NoKey
  /\ \A c \in Call : pc[c] = "waiting" => key[c] # NoKey

IInv == TypeOK /\ Order /\ Tails /\ Chain /\ Gates

-----------------------------------------------------------------------------
LEMMA InitIInv == Init => IInv
  BY LockAssumption
  DEF Init, IInv, TypeOK, Order, Tails, Chain, Gates, Stage, Pending, Over

LEMMA TypeStep == TypeOK /\ [Next]_vars => TypeOK'
<1> SUFFICES ASSUME TypeOK, [Next]_vars PROVE TypeOK'
  OBVIOUS
<1> USE LockAssumption DEF TypeOK, Stage
<1>1. ASSUME NEW c \in Call, NEW id \in RepositoryId, NEW p \in Call \cup {NoCall},
             Acquire(c, id, p)
      PROVE  TypeOK'
  BY <1>1 DEF Acquire, CalledBy
<1>2. ASSUME NEW c \in Call, NEW id \in RepositoryId, AcquireBlank(c, id)
      PROVE  TypeOK'
  BY <1>2 DEF AcquireBlank
<1>3. ASSUME NEW c \in Call, SettleTail(c) PROVE TypeOK'
  BY <1>3 DEF SettleTail
<1>4. ASSUME NEW c \in Call, Admit(c) PROVE TypeOK'
  BY <1>4 DEF Admit
<1>5. ASSUME NEW c \in Call, Resume(c) PROVE TypeOK'
  BY <1>5 DEF Resume
<1>6. ASSUME NEW c \in Call, NEW result \in {"resolved", "rejected"}, Finish(c, result)
      PROVE  TypeOK'
  BY <1>6 DEF Finish
<1>7. CASE UNCHANGED vars
  BY <1>7 DEF vars
<1>8. QED
  BY <1>1, <1>2, <1>3, <1>4, <1>5, <1>6, <1>7 DEF Next

LEMMA AcquireStep ==
  ASSUME IInv, TypeOK', NEW c \in Call, NEW id \in RepositoryId,
         NEW p \in Call \cup {NoCall}, Acquire(c, id, p)
  PROVE  IInv'
<1> DEFINE k == KeyOf[id]
<1> USE LockAssumption DEF TypeOK
<1>1. k \in Key /\ k # NoKey /\ pc[c] = "idle" /\ p # c
  BY DEF Acquire
<1>2. /\ key' = [key EXCEPT ![c] = k]
      /\ previous' = [previous EXCEPT ![c] = tails[k]]
      /\ tails' = [tails EXCEPT ![k] = c]
      /\ ahead' = [ahead EXCEPT ![c] = {d \in Call : Pending(d) /\ key[d] = k}]
      /\ open' = open /\ settled' = settled
  BY DEF Acquire, IInv
<1>3. /\ pc'[c] = "waiting"
      /\ \A d \in Call : d # c => (pc'[d] = pc[d] \/ (pc[d] = "running" /\ pc'[d] = "nested"))
  BY <1>1 DEF Acquire, CalledBy, IInv
<1>4. /\ Pending(c)' /\ ~Pending(c)
      /\ \A d \in Call \ {c} : /\ Pending(d)' = Pending(d)
                              /\ Over(d)' = Over(d)
                              /\ (pc'[d] = "waiting") = (pc[d] = "waiting")
                              /\ (pc'[d] = "idle") = (pc[d] = "idle")
  BY <1>1, <1>3 DEF Pending, Over
<1>5. \A d \in Call : d # c => key'[d] = key[d] /\ ahead'[d] = ahead[d] /\ previous'[d] = previous[d]
  BY <1>2 DEF IInv
<1>6. /\ key'[c] = k /\ previous'[c] = tails[k]
      /\ ahead'[c] = {d \in Call : Pending(d) /\ key[d] = k}
      /\ tails'[k] = c
  BY <1>1, <1>2 DEF IInv
<1>7. \A d \in Call : c \notin ahead[d]
  BY <1>4 DEF IInv, Order
<1>8. Order'
  <2>1. ASSUME NEW d \in Call, NEW e \in Call, e \in ahead'[d]
        PROVE  /\ pc'[d] = "waiting" /\ Pending(e)'
               /\ key'[e] = key'[d] /\ key'[d] # NoKey
               /\ d \notin ahead'[e]
    <3>1. CASE d = c
      BY <1>1, <1>3, <1>4, <1>5, <1>6, <1>7, <2>1, <3>1
    <3>2. CASE d # c
      <4>1. e \in ahead[d] /\ e # c
        BY <1>5, <1>7, <2>1, <3>2
      <4>2. QED
        BY <1>4, <1>5, <3>2, <4>1 DEF IInv, Order
    <3>3. QED
      BY <3>1, <3>2
  <2>2. ASSUME NEW d \in Call, NEW e \in Call, Pending(d)', Pending(e)',
               key'[d] = key'[e], key'[d] # NoKey, d # e
        PROVE  d \in ahead'[e] \/ e \in ahead'[d]
    <3>1. CASE d = c
      BY <1>4, <1>5, <1>6, <2>2, <3>1
    <3>2. CASE e = c
      BY <1>4, <1>5, <1>6, <2>2, <3>2
    <3>3. CASE d # c /\ e # c
      BY <1>4, <1>5, <2>2, <3>3 DEF IInv, Order
    <3>4. QED
      BY <3>1, <3>2, <3>3
  <2>3. QED
    BY <2>1, <2>2 DEF Order
<1>9. Tails'
  BY <1>1, <1>2, <1>4, <1>5, <1>6 DEF IInv, Tails
<1>10. Chain'
  <2> SUFFICES ASSUME NEW d \in Call, pc'[d] = "waiting"
               PROVE  \/ /\ previous'[d] = NoCall \/ Over(previous[d])'
                         /\ ahead'[d] = {}
                      \/ /\ previous'[d] \in Call
                         /\ Pending(previous[d])'
                         /\ ahead'[d] = ahead'[previous'[d]] \cup {previous'[d]}
    BY DEF Chain
  <2>1. CASE d = c /\ tails[k] = NoCall
    BY <1>1, <1>6, <2>1 DEF IInv, Tails
  <2>2. CASE d = c /\ tails[k] # NoCall
    <3>1. tails[k] \in Call /\ Pending(tails[k]) /\ key[tails[k]] = k /\ tails[k] # c
      BY <1>1, <1>4, <2>2 DEF IInv, Tails
    <3>2. {e \in Call : Pending(e) /\ key[e] = k} = ahead[tails[k]] \cup {tails[k]}
      BY <1>1, <2>2, <3>1 DEF IInv, Tails, Order
    <3>3. QED
      BY <1>4, <1>5, <1>6, <2>2, <3>1, <3>2
  <2>3. CASE d # c
    <3>1. pc[d] = "waiting" /\ previous'[d] = previous[d] /\ ahead'[d] = ahead[d]
      BY <1>4, <1>5, <2>3
    <3>2. CASE previous[d] = NoCall \/ (previous[d] \in Call /\ Over(previous[d]))
      <4>1. ahead[d] = {}
        BY <3>1, <3>2 DEF IInv, Chain, Pending, Over
      <4>2. previous[d] # c
        BY <1>1, <3>2 DEF Over
      <4>3. QED
        BY <1>4, <3>1, <3>2, <4>1, <4>2
    <3>3. CASE previous[d] \in Call /\ ~Over(previous[d])
      <4>1. Pending(previous[d]) /\ ahead[d] = ahead[previous[d]] \cup {previous[d]}
        BY <3>1, <3>3 DEF IInv, Chain
      <4>2. previous[d] # c
        BY <1>4, <4>1
      <4>3. QED
        BY <1>4, <1>5, <3>1, <3>3, <4>1, <4>2
    <3>4. QED
      BY <3>2, <3>3 DEF IInv
  <2>4. QED
    BY <2>1, <2>2, <2>3
<1>11. Gates'
  <2>1. c \notin open
    BY <1>1 DEF IInv, Gates, Over
  <2>2. QED
    BY <1>1, <1>2, <1>3, <1>4, <1>5, <1>6, <2>1 DEF IInv, Gates
<1>12. QED
  BY <1>8, <1>9, <1>10, <1>11 DEF IInv

\* AcquireBlank, Admit and Resume change no line and no order: a call starts or
\* goes on with its operation, and nothing about keys, tails or gates changes.
LEMMA StartStep ==
  ASSUME IInv, TypeOK', NEW c \in Call,
         UNCHANGED <<tails, key, previous, open, settled, ahead>>,
         \/ pc[c] = "idle" /\ key[c] = NoKey
         \/ pc[c] = "waiting" /\ ahead[c] = {}
         \/ pc[c] = "nested",
         pc' = [pc EXCEPT ![c] = "running"]
  PROVE  IInv'
<1> USE LockAssumption DEF TypeOK
<1>1. pc'[c] = "running" /\ \A d \in Call \ {c} : pc'[d] = pc[d]
  BY DEF IInv
<1>2. \A d \in Call : key[d] # NoKey => Pending(d)' = Pending(d)
  BY <1>1 DEF IInv, Gates, Pending
<1>3. \A d \in Call : Over(d)' = Over(d)
  BY <1>1 DEF Over
<1>4. \A d \in Call : Pending(d) => Pending(d)'
  BY <1>1 DEF Pending
<1>5. Order'
  <2>1. \A d \in Call : ahead[d] # {} => d # c
    BY <1>1 DEF IInv, Order
  <2>2. QED
    BY <1>1, <1>2, <1>4, <2>1 DEF IInv, Order
<1>6. Tails'
  BY <1>2 DEF IInv, Tails
<1>7. Chain'
  BY <1>1, <1>3, <1>4 DEF IInv, Chain, Over
<1>8. Gates'
  BY <1>1, <1>3 DEF IInv, Gates
<1>9. QED
  BY <1>5, <1>6, <1>7, <1>8 DEF IInv

LEMMA AdmitFindsNobodyAhead ==
  ASSUME IInv, NEW c \in Call, Admit(c)
  PROVE  ahead[c] = {}
<1>1. CASE previous[c] = NoCall
  BY <1>1, LockAssumption DEF Admit, IInv, TypeOK, Chain
<1>2. CASE previous[c] \in settled
  <2>1. Over(previous[c]) /\ ~Pending(previous[c])
    BY <1>2 DEF IInv, TypeOK, Gates, Over, Pending
  <2>2. QED
    BY <2>1 DEF Admit, IInv, Chain
<1>3. QED
  BY <1>1, <1>2 DEF Admit

LEMMA SettleStep ==
  ASSUME IInv, TypeOK', NEW c \in Call, SettleTail(c)
  PROVE  IInv'
<1>1. UNCHANGED <<tails, key, previous, open, pc, child, ahead>>
  BY DEF SettleTail
<1>2. Order' /\ Tails' /\ Chain'
  BY <1>1 DEF IInv, Order, Tails, Chain, Pending, Over
<1>3. Gates'
  BY <1>1 DEF SettleTail, IInv, Gates, Over
<1>4. QED
  BY <1>2, <1>3 DEF IInv

LEMMA FinishStep ==
  ASSUME IInv, TypeOK', NEW c \in Call, NEW result \in {"resolved", "rejected"},
         Finish(c, result)
  PROVE  IInv'
<1> USE LockAssumption DEF TypeOK
<1>1. /\ pc[c] = "running" /\ pc'[c] = result
      /\ \A d \in Call \ {c} : pc'[d] = pc[d]
      /\ \A d \in Call : ahead'[d] = ahead[d] \ {c}
      /\ key' = key /\ previous' = previous /\ settled' = settled
  BY DEF Finish, IInv
<1>2. /\ Pending(c) /\ ~Pending(c)' /\ Over(c)'
      /\ \A d \in Call \ {c} : Pending(d)' = Pending(d) /\ Over(d)' = Over(d)
      /\ \A d \in Call : (pc'[d] = "waiting") = (pc[d] = "waiting")
  BY <1>1 DEF Pending, Over
<1>3. ahead[c] = {}
  BY <1>1 DEF IInv, Order
<1>4. Order'
  BY <1>1, <1>2 DEF IInv, Order
<1>5. Tails'
  <2>1. \A k \in Key : tails'[k] = IF k = key[c] /\ tails[k] = c THEN NoCall ELSE tails[k]
    BY DEF Finish, IInv
  <2>2. ASSUME NEW k \in Key
        PROVE  /\ tails'[k] = NoCall => \A d \in Call : ~(Pending(d)' /\ key'[d] = k)
               /\ tails'[k] # NoCall =>
                    /\ Pending(tails[k])' /\ key'[tails'[k]] = k
                    /\ \A d \in Call : Pending(d)' /\ key'[d] = k
                         => d = tails'[k] \/ d \in ahead'[tails'[k]]
    <3>1. CASE tails[k] = c
      BY <1>1, <1>2, <1>3, <2>1, <3>1 DEF IInv, Tails
    <3>2. CASE tails[k] = NoCall
      BY <1>1, <1>2, <2>1, <3>2 DEF IInv, Tails
    <3>3. CASE tails[k] # c /\ tails[k] # NoCall
      <4>1. tails[k] \in Call \ {c} /\ tails'[k] = tails[k]
        BY <2>1, <3>3 DEF IInv
      <4>2. QED
        BY <1>1, <1>2, <3>3, <4>1 DEF IInv, Tails
    <3>4. QED
      BY <3>1, <3>2, <3>3
  <2>3. QED
    BY <2>2 DEF Tails
<1>6. Chain'
  <2> SUFFICES ASSUME NEW d \in Call, pc'[d] = "waiting"
               PROVE  \/ /\ previous'[d] = NoCall \/ Over(previous[d])'
                         /\ ahead'[d] = {}
                      \/ /\ previous'[d] \in Call
                         /\ Pending(previous[d])'
                         /\ ahead'[d] = ahead'[previous'[d]] \cup {previous'[d]}
    BY DEF Chain
  <2>1. pc[d] = "waiting"
    BY <1>2
  <2>2. CASE previous[d] = c
    BY <1>1, <1>2, <1>3, <2>1, <2>2 DEF IInv, Chain
  <2>3. CASE previous[d] = NoCall
    BY <1>1, <2>1, <2>3 DEF IInv, Chain
  <2>4. CASE previous[d] \in Call \ {c}
    BY <1>1, <1>2, <2>1, <2>4 DEF IInv, Chain
  <2>5. QED
    BY <2>2, <2>3, <2>4 DEF IInv
<1>7. Gates'
  <2>1. open' \subseteq open \cup {c} /\ open \subseteq open'
    BY DEF Finish
  <2>2. QED
    BY <1>1, <1>2, <2>1 DEF IInv, Gates
<1>8. QED
  BY <1>4, <1>5, <1>6, <1>7 DEF IInv

LEMMA Invariance == Spec => []IInv
<1>1. IInv /\ [Next]_vars => IInv'
  <2> SUFFICES ASSUME IInv, [Next]_vars PROVE IInv'
    OBVIOUS
  <2>1. TypeOK'
    BY TypeStep DEF IInv
  <2>2. ASSUME NEW c \in Call, NEW id \in RepositoryId, NEW p \in Call \cup {NoCall},
               Acquire(c, id, p)
        PROVE  IInv'
    BY <2>1, <2>2, AcquireStep
  <2>3. ASSUME NEW c \in Call, NEW id \in RepositoryId, AcquireBlank(c, id)
        PROVE  IInv'
    BY <2>1, <2>3, StartStep DEF AcquireBlank, IInv, Gates
  <2>4. ASSUME NEW c \in Call, SettleTail(c) PROVE IInv'
    BY <2>1, <2>4, SettleStep
  <2>5. ASSUME NEW c \in Call, Admit(c) PROVE IInv'
    BY <2>1, <2>5, AdmitFindsNobodyAhead, StartStep DEF Admit
  <2>6. ASSUME NEW c \in Call, Resume(c) PROVE IInv'
    BY <2>1, <2>6, StartStep DEF Resume
  <2>7. ASSUME NEW c \in Call, NEW result \in {"resolved", "rejected"}, Finish(c, result)
        PROVE  IInv'
    BY <2>1, <2>7, FinishStep
  <2>8. CASE UNCHANGED vars
    BY <2>8 DEF vars, IInv, TypeOK, Order, Tails, Chain, Gates, Pending, Over
  <2>9. QED
    BY <2>2, <2>3, <2>4, <2>5, <2>6, <2>7, <2>8 DEF Next
<1>2. QED
  BY <1>1, InitIInv, PTL DEF Spec

-----------------------------------------------------------------------------
\* Every variable of the lock keeps its type.
THEOREM TypeCorrect == Spec => []TypeOK
  BY Invariance, PTL DEF IInv

\* No two operations for one key overlap, whatever the calls, ids and keys and
\* however operations nest, fail or are interleaved (withLock, locks.ts:6-27).
THEOREM MutualExclusionHolds == Spec => []MutualExclusion
<1>1. IInv => MutualExclusion
  <2> SUFFICES ASSUME IInv, NEW c \in Call, NEW d \in Call, Inside(c), Inside(d),
                      key[c] = key[d], key[c] # NoKey
               PROVE  c = d
    BY DEF MutualExclusion
  <2>1. Pending(c) /\ Pending(d) /\ pc[c] # "waiting" /\ pc[d] # "waiting"
    BY DEF Inside, Pending
  <2>2. QED
    BY <2>1 DEF IInv, Order
<1>2. QED
  BY <1>1, Invariance, PTL

\* The map holds, for every key, the last unfinished call, and nothing when all
\* calls for the key are over: the identity test before the delete
\* (locks.ts:23-25) neither leaks an entry nor drops a live one.
THEOREM TailIsLastPendingHolds == Spec => []TailIsLastPending
<1>1. IInv => TailIsLastPending
  <2> SUFFICES ASSUME IInv, NEW k \in Key
               PROVE  LET line == {c \in Call : Pending(c) /\ key[c] = k} IN
                      IF tails[k] = NoCall THEN line = {}
                      ELSE tails[k] \in line /\ \A d \in line : tails[k] \notin ahead[d]
    BY DEF TailIsLastPending
  <2>1. CASE tails[k] = NoCall
    BY <2>1 DEF IInv, Tails
  <2>2. CASE tails[k] # NoCall
    <3>1. tails[k] \in Call /\ Pending(tails[k]) /\ key[tails[k]] = k
      BY <2>2 DEF IInv, TypeOK, Tails
    <3>2. ASSUME NEW d \in Call, Pending(d), key[d] = k PROVE tails[k] \notin ahead[d]
      <4>1. d = tails[k] \/ d \in ahead[tails[k]]
        BY <2>2, <3>2 DEF IInv, Tails
      <4>2. QED
        BY <3>1, <4>1 DEF IInv, Order
    <3>3. QED
      BY <2>2, <3>1, <3>2
  <2>3. QED
    BY <2>1, <2>2
<1>2. QED
  BY <1>1, Invariance, PTL

-----------------------------------------------------------------------------
\* The stages seen by the abstract lock.
LEMMA StagesOf ==
  ASSUME NEW c \in Call
  PROVE  /\ (StageOf(c) = "outside") = (pc[c] = "idle")
         /\ (StageOf(c) = "queued") = (pc[c] = "waiting")
         /\ (StageOf(c) = "inside") = Inside(c)
  BY DEF StageOf, Inside

\* Every step of the promise chain is a step of the abstract first-come
\* first-served lock or leaves its state alone.
THEOREM ServesInOrderHolds == Spec => ServesInOrder
<1> DEFINE stage == [c \in Call |-> StageOf(c)]
<1>1. Init => Access!AbsInit
  BY DEF Init, Access!AbsInit, StageOf
<1>2. IInv /\ IInv' /\ [Next]_vars => [Access!AbsNext]_(Access!absVars)
  <2> SUFFICES ASSUME IInv, IInv', [Next]_vars
               PROVE  Access!AbsNext \/ UNCHANGED <<stage, key, ahead>>
    BY DEF Access!absVars
  <2>1. ASSUME NEW c \in Call, NEW id \in RepositoryId, NEW p \in Call \cup {NoCall},
               Acquire(c, id, p)
        PROVE  Access!Ask(c, KeyOf[id])
    <3>1. pc[c] = "idle" /\ pc'[c] = "waiting"
          /\ \A d \in Call \ {c} : pc'[d] = pc[d] \/ (pc[d] = "running" /\ pc'[d] = "nested")
      BY <2>1 DEF Acquire, CalledBy, IInv, TypeOK
    <3>2. stage' = [stage EXCEPT ![c] = "queued"]
      <4>1. \A d \in Call \ {c} : StageOf(d)' = StageOf(d)
        BY <3>1 DEF StageOf, Inside
      <4>2. StageOf(c)' = "queued"
        BY <3>1 DEF StageOf
      <4>3. QED
        BY <4>1, <4>2
    <3>3. {d \in Call : Pending(d) /\ key[d] = KeyOf[id]} = Access!InLine(KeyOf[id])
      BY StagesOf DEF Access!InLine, Pending, Inside
    <3>4. stage[c] = "outside"
      BY <3>1, StagesOf
    <3>5. QED
      BY <2>1, <3>2, <3>3, <3>4 DEF Acquire, Access!Ask
  <2>2. ASSUME NEW c \in Call, NEW id \in RepositoryId, AcquireBlank(c, id)
        PROVE  Access!PassBy(c)
    <3>1. stage' = [stage EXCEPT ![c] = "inside"]
      BY <2>2 DEF AcquireBlank, StageOf, Inside, IInv, TypeOK
    <3>2. QED
      BY <2>2, <3>1, StagesOf DEF AcquireBlank, Access!PassBy
  <2>3. ASSUME NEW c \in Call, SettleTail(c) PROVE UNCHANGED <<stage, key, ahead>>
    BY <2>3 DEF SettleTail, StageOf, Inside
  <2>4. ASSUME NEW c \in Call, Admit(c) PROVE Access!Enter(c)
    <3>1. stage' = [stage EXCEPT ![c] = "inside"]
      BY <2>4 DEF Admit, StageOf, Inside, IInv, TypeOK
    <3>2. QED
      BY <2>4, <3>1, StagesOf, AdmitFindsNobodyAhead DEF Admit, Access!Enter
  <2>5. ASSUME NEW c \in Call, Resume(c) PROVE UNCHANGED <<stage, key, ahead>>
    BY <2>5 DEF Resume, StageOf, Inside, IInv, TypeOK
  <2>6. ASSUME NEW c \in Call, NEW result \in {"resolved", "rejected"}, Finish(c, result)
        PROVE  Access!Leave(c)
    <3>1. stage' = [stage EXCEPT ![c] = "left"]
      BY <2>6 DEF Finish, StageOf, Inside, IInv, TypeOK
    <3>2. QED
      BY <2>6, <3>1, StagesOf DEF Finish, Inside, Access!Leave
  <2>7. CASE UNCHANGED vars
    BY <2>7 DEF vars, StageOf, Inside
  <2>8. ASSUME NEW c \in Call, NEW id \in RepositoryId, NEW p \in Call \cup {NoCall},
               Acquire(c, id, p)
        PROVE  KeyOf[id] \in Key
    BY <2>8, LockAssumption DEF Acquire
  <2>9. QED
    BY <2>1, <2>2, <2>3, <2>4, <2>5, <2>6, <2>7, <2>8 DEF Next, Access!AbsNext
<1>3. QED
  BY <1>1, <1>2, Invariance, PTL DEF Spec, ServesInOrder, Access!AbsSpec

-----------------------------------------------------------------------------
\* At any time finitely many calls have been made, and the inner call an
\* operation awaits was made for a key.
Asked == {c \in Call : pc[c] # "idle"}
Made ==
  /\ IsFiniteSet(Asked)
  /\ \A c \in Call : pc[c] = "nested" => child[c] \in Call /\ key[child[c]] # NoKey

LEMMA MadeStep == TypeOK /\ Made /\ [Next]_vars => Made'
<1> SUFFICES ASSUME TypeOK, Made, [Next]_vars PROVE Made'
  OBVIOUS
<1> USE LockAssumption DEF TypeOK
<1>1. ASSUME NEW c \in Call, Asked' \subseteq Asked \cup {c} PROVE IsFiniteSet(Asked')
  BY <1>1, FS_AddElement, FS_Subset DEF Made
<1>2. ASSUME NEW c \in Call, NEW id \in RepositoryId, NEW p \in Call \cup {NoCall},
             Acquire(c, id, p)
      PROVE  Made'
  <2>1. \A d \in Call \ {c} : pc'[d] = pc[d] \/ (d = p /\ pc[d] = "running")
    BY <1>2 DEF Acquire, CalledBy
  <2>2. Asked' \subseteq Asked \cup {c}
    BY <2>1 DEF Asked
  <2>3. key'[c] # NoKey /\ \A d \in Call \ {c} : key'[d] = key[d]
    BY <1>2 DEF Acquire
  <2>4. ASSUME NEW d \in Call, pc'[d] = "nested"
        PROVE  child'[d] \in Call /\ key'[child'[d]] # NoKey
    <3>1. d # c
      BY <1>2, <2>4 DEF Acquire, CalledBy
    <3>2. CASE d = p
      BY <1>2, <2>3, <3>2 DEF Acquire, CalledBy
    <3>3. CASE d # p
      <4>1. pc[d] = "nested" /\ child'[d] = child[d]
        BY <1>2, <2>1, <2>4, <3>1, <3>3 DEF Acquire, CalledBy
      <4>2. QED
        BY <2>3, <4>1 DEF Made
    <3>4. QED
      BY <3>2, <3>3
  <2>5. QED
    BY <1>1, <2>2, <2>4 DEF Made
<1>3. ASSUME NEW c \in Call, pc' = [pc EXCEPT ![c] = "running"], key' = key,
             \A d \in Call \ {c} : child'[d] = child[d]
      PROVE  Made'
  <2>1. Asked' \subseteq Asked \cup {c}
    BY <1>3 DEF Asked
  <2>2. QED
    BY <1>1, <1>3, <2>1 DEF Made
<1>4. ASSUME NEW c \in Call, NEW id \in RepositoryId, AcquireBlank(c, id) PROVE Made'
  BY <1>3, <1>4 DEF AcquireBlank
<1>5. ASSUME NEW c \in Call, SettleTail(c) PROVE Made'
  BY <1>5 DEF SettleTail, Made, Asked
<1>6. ASSUME NEW c \in Call, Admit(c) PROVE Made'
  BY <1>3, <1>6 DEF Admit
<1>7. ASSUME NEW c \in Call, Resume(c) PROVE Made'
  BY <1>3, <1>7 DEF Resume
<1>8. ASSUME NEW c \in Call, NEW result \in {"resolved", "rejected"}, Finish(c, result)
      PROVE  Made'
  <2>1. /\ pc' = [pc EXCEPT ![c] = result] /\ key' = key /\ child' = child
        /\ pc'[c] # "nested"
    BY <1>8 DEF Finish
  <2>2. Asked' \subseteq Asked \cup {c}
    BY <2>1 DEF Asked
  <2>3. QED
    BY <1>1, <2>1, <2>2 DEF Made
<1>9. CASE UNCHANGED vars
  BY <1>9 DEF vars, Made, Asked
<1>10. QED
  BY <1>2, <1>4, <1>5, <1>6, <1>7, <1>8, <1>9 DEF Next

\* Of waiting calls, each behind another of them, one would have to be the
\* first in its line.
LEMMA SomeoneIsFirst ==
  ASSUME IInv, Made, NEW S \in SUBSET Call,
         \A c \in S : pc[c] = "waiting" /\ previous[c] \in S
  PROVE  S = {}
<1> SUFFICES ASSUME S # {} PROVE FALSE
  OBVIOUS
<1> DEFINE lines == {ahead[c] : c \in S}
<1>1. \A c \in S : ahead[c] \subseteq Asked
  BY DEF IInv, TypeOK, Order, Asked, Pending
<1>2. lines \subseteq SUBSET Asked /\ lines # {}
  BY <1>1
<1>3. IsWellFoundedOn(StrictSubsetOrdering(Asked), SUBSET Asked)
  BY FS_StrictSubsetOrderingWellFounded, FS_FiniteSubsetsOfFinite DEF Made
<1> HIDE DEF lines
<1>4. PICK A \in lines : \A B \in lines : ~ (<<B, A>> \in StrictSubsetOrdering(Asked))
  BY <1>2, <1>3, WFMin
<1>5. PICK c \in S : A = ahead[c]
  BY DEF lines
<1>6. previous[c] \in S /\ pc[previous[c]] = "waiting"
  OBVIOUS
<1>7. ahead[c] = ahead[previous[c]] \cup {previous[c]}
  BY <1>6, LockAssumption DEF IInv, Chain, Over
<1>8. previous[c] \notin ahead[previous[c]]
  BY <1>6 DEF IInv, Order
<1>9. <<ahead[previous[c]], A>> \in StrictSubsetOrdering(Asked)
  BY <1>1, <1>5, <1>6, <1>7, <1>8 DEF StrictSubsetOrdering
<1>10. ahead[previous[c]] \in lines
  BY <1>6 DEF lines
<1>11. QED
  BY <1>4, <1>9, <1>10

\* Calls wait for one another for ever only where an operation that holds a key
\* awaits an inner call (the lock is not re-entrant, locks.ts:6-27): neither
\* arrivals, rejections nor dropped map entries close a circle.
THEOREM StuckNeedsNestingHolds == Spec => []StuckNeedsNesting
<1>1. Init => Made
  BY FS_EmptySet DEF Init, Made, Asked
<1>2. IInv /\ Made => StuckNeedsNesting
  <2> SUFFICES ASSUME IInv, Made, NEW S \in SUBSET Call, WaitCycle(S),
                      \A d \in Call : pc[d] = "nested" => key[d] = NoKey
               PROVE  FALSE
    BY DEF StuckNeedsNesting, Stuck
  <2> DEFINE T == {c \in S : pc[c] = "waiting"}
  <2>1. ASSUME NEW c \in S, pc[c] = "waiting" PROVE previous[c] \in T
    <3>1. previous[c] \in S
      BY <2>1 DEF WaitCycle
    <3>2. previous[c] \in Call /\ ~Over(previous[c])
      BY <3>1 DEF WaitCycle, Over
    <3>3. previous[c] \in ahead[c]
      BY <2>1, <3>2, LockAssumption DEF IInv, Chain
    <3>4. key[previous[c]] # NoKey
      BY <3>2, <3>3 DEF IInv, Order
    <3>5. QED
      BY <3>1, <3>4 DEF WaitCycle
  <2>2. T = {}
    BY <2>1, SomeoneIsFirst
  <2>3. PICK c \in S : pc[c] = "nested" /\ child[c] \in S
    BY <2>2 DEF WaitCycle
  <2>4. key[child[c]] # NoKey
    BY <2>3 DEF Made
  <2>5. QED
    BY <2>2, <2>3, <2>4 DEF WaitCycle
<1>3. IInv /\ Made /\ [Next]_vars => Made'
  BY MadeStep DEF IInv
<1>4. QED
  BY <1>1, <1>2, <1>3, Invariance, PTL DEF Spec
===============================================================================
