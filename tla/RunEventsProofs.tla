----------------------------- MODULE RunEventsProofs -----------------------------
(***************************************************************************)
(* Proofs about RunEvents, for any number of emissions and sockets: type   *)
(* correctness (no number exceeds the emissions), that the numbers handed  *)
(* out are consecutive unless their handing out was raced or interrupted,  *)
(* and that a live socket stays in the set the next event is sent to, and  *)
(* is sent away as done only when the run has ended.                       *)
(***************************************************************************)
EXTENDS RunEvents, FiniteSetTheorems, TLAPS

\* The emissions that have no number yet but may still get one, those that have one.
Fresh == {e \in Emission : pc[e] \in {"new", "counted"}}
Assigned == {e \in Emission : seq[e] > 0}

\* Every number is matched by an emission that has left Fresh.
Counting ==
  /\ stored = {e \in Emission : pc[e] \in {"stored", "over"}}
  /\ cached + Cardinality(Fresh) <= Cardinality(Emission)
  /\ \A e \in Emission : /\ seq[e] <= Cardinality(Emission)
                         /\ pc[e] = "counted" => seen[e] + Cardinality(Fresh) <= Cardinality(Emission)

\* While numbering is not in doubt the cache is the number of the last emission, or
\* absent, and then at most one emission is on its way to set it anew.
OneCounts(e) ==
  pc[e] = "counted" => /\ seen[e] = Cardinality(stored)
                       /\ \A f \in Emission : pc[f] = "counted" => f = e
Consecutive == {seq[e] : e \in Assigned} = 1..Cardinality(Assigned)
Numbering ==
  ~doubt =>
    /\ Assigned = {e \in Emission : pc[e] \in {"numbered", "stored", "over"}}
    /\ cached > 0 => cached = Cardinality(Assigned) /\ \A e \in Emission : pc[e] # "counted"
    /\ cached = 0 => \A e \in Emission : pc[e] # "numbered" /\ OneCounts(e)
    /\ Consecutive

Reach ==
  \A c \in Socket :
    /\ at[c] = "live" => setOf[c] # 0 /\ setOf[c] = entry /\ c \in members[entry]
    /\ at[c] \in {"off", "replay", "status", "subscribe"} => setOf[c] = 0

Ends == (pc[Final] # "new" \/ done # {}) => ended

IInv == TypeOK /\ Counting /\ Numbering /\ Reach /\ Ends
-----------------------------------------------------------------------------
(* Sets of emissions and of numbers.                                       *)

LEMMA Finite ==
  /\ Cardinality(Emission) \in Nat /\ Cardinality(Socket) \in Nat
  /\ \A S \in SUBSET Emission : Cardinality(S) \in Nat /\ Cardinality(S) <= Cardinality(Emission)
BY EventsAssumption, FS_CardinalityType, FS_Subset

\* A finite nonempty set of numbers has a greatest one.  Of the sets of those that
\* exceed one of its members some is minimal; if it held y, the set for y would be smaller.
LEMMA MaxIsMember ==
  ASSUME NEW S \in SUBSET Nat, IsFiniteSet(S), S # {}
  PROVE  Max(S) \in S
<1> DEFINE Above(x) == {y \in S : y > x}
           T == {Above(x) : x \in S}
<1>1. IsWellFoundedOn(StrictSubsetOrdering(S), SUBSET S)
  BY FS_StrictSubsetOrderingWellFounded, FS_FiniteSubsetsOfFinite
<1>2. T \subseteq SUBSET S /\ T # {}
  OBVIOUS
<1> HIDE DEF T
<1>3. PICK A \in T : \A B \in T : ~ (<<B, A>> \in StrictSubsetOrdering(S))
  BY <1>1, <1>2, WFMin
<1> USE DEF T
<1>4. PICK x \in S : A = Above(x)
  OBVIOUS
<1>5. ASSUME NEW y \in S, y > x PROVE FALSE
  <2>1. Above(y) \in T /\ Above(y) \subseteq Above(x)
    <3>1. \A z \in S : z > y => z > x
      BY <1>5
    <3>2. QED
      BY <3>1
  <2>2. y \in Above(x) /\ y \notin Above(y)
    BY <1>5
  <2>3. <<Above(y), A>> \in StrictSubsetOrdering(S)
    BY <1>4, <2>1, <2>2 DEF StrictSubsetOrdering
  <2>4. QED
    BY <1>3, <2>1, <2>3
<1>6. \A y \in S : x >= y
  BY <1>5
<1>7. QED
  BY <1>6 DEF Max

\* An emission that leaves Fresh lowers what is left in it by one.
LEMMA FreshLeaves ==
  ASSUME TypeOK, NEW e \in Fresh, NEW p \in {"numbered", "lost"}, pc' = [pc EXCEPT ![e] = p]
  PROVE  Cardinality(Fresh') = Cardinality(Fresh) - 1
<1>1. Fresh' = Fresh \ {e}
  BY DEF Fresh, TypeOK
<1>2. IsFiniteSet(Fresh)
  BY EventsAssumption, FS_Subset DEF Fresh
<1>3. QED
  BY <1>1, <1>2, FS_RemoveElement

\* What has not left it is in it.
LEMMA FreshShrinks ==
  ASSUME Fresh' \subseteq Fresh
  PROVE  Cardinality(Fresh') <= Cardinality(Fresh)
<1>1. IsFiniteSet(Fresh)
  BY EventsAssumption, FS_Subset DEF Fresh
<1>2. QED
  BY <1>1, FS_Subset

\* Events are stored by emissions that have left it.
LEMMA StoredAndFresh ==
  ASSUME TypeOK, Counting
  PROVE  Cardinality(stored) + Cardinality(Fresh) <= Cardinality(Emission)
<1>1. stored \cap Fresh = {} /\ stored \cup Fresh \subseteq Emission
  BY DEF Counting, Fresh
<1>2. IsFiniteSet(stored) /\ IsFiniteSet(Fresh)
  BY <1>1, EventsAssumption, FS_Subset
<1>3. Cardinality(stored \cup Fresh) = Cardinality(stored) + Cardinality(Fresh)
  <2>1. Cardinality(stored) \in Nat /\ Cardinality(Fresh) \in Nat /\ Cardinality(stored \cap Fresh) = 0
    BY <1>1, Finite, FS_EmptySet
  <2>2. Cardinality(stored \cup Fresh)
          = Cardinality(stored) + Cardinality(Fresh) - Cardinality(stored \cap Fresh)
    BY <1>2, FS_Union
  <2>3. QED
    BY <2>1, <2>2
<1>4. QED
  BY <1>1, <1>3, Finite
\* There is a number left for an emission that has none.
LEMMA RoomLeft ==
  ASSUME TypeOK, Counting, NEW e \in Fresh
  PROVE  /\ cached + 1 \in 1..Cardinality(Emission)
         /\ pc[e] = "counted" => seen[e] + 1 \in 1..Cardinality(Emission)
<1>1. IsFiniteSet(Fresh) /\ Cardinality(Fresh) \in Nat /\ Cardinality(Fresh) # 0
  BY EventsAssumption, FS_Subset, FS_CardinalityType, FS_EmptySet DEF Fresh
<1>2. cached \in Nat /\ e \in Emission /\ seen[e] \in Nat
  BY Finite DEF TypeOK, Number, Fresh
<1>3. QED
  BY <1>1, <1>2, Finite DEF Counting

LEMMA Numbers ==
  /\ 0..Cardinality(Emission) \subseteq Number /\ Number \subseteq Nat /\ 0 \in Number
  /\ \A n : n \in 1..Cardinality(Emission) => n \in Number
  /\ \A S \in SUBSET Emission : Cardinality(S) \in Number
BY Finite DEF Number

LEMMA InitIInv == Init => IInv
<1> SUFFICES ASSUME Init PROVE IInv
  OBVIOUS
<1>1. TypeOK
  <2>1. 0 \in Number /\ 0 \in SetId
    BY Numbers, Finite DEF SetId
  <2>2. /\ seq \in [Emission -> Number] /\ seen \in [Emission -> Number] /\ cached \in Number
        /\ cursor \in [Socket -> Number] /\ setOf \in [Socket -> SetId] /\ entry \in SetId
    BY <2>1 DEF Init
  <2>3. /\ pc \in [Emission -> {"new", "counted", "numbered", "stored", "over", "lost"}]
        /\ at \in [Socket -> {"off", "replay", "status", "subscribe", "live", "closed"}]
    BY DEF Init
  <2>4. got \in [Socket -> SUBSET Emission] /\ members \in [SetId -> SUBSET Socket]
    BY DEF Init
  <2>5. QED
    BY <2>2, <2>3, <2>4 DEF Init, TypeOK
<1>2. Counting
  <2>1. Fresh = Emission
    BY DEF Init, Fresh
  <2>2. QED
    BY <2>1, Finite DEF Init, Counting
<1>3. Numbering
  <2>1. Assigned = {} /\ Cardinality(Assigned) = 0
    BY FS_EmptySet DEF Init, Assigned
  <2>2. 1..Cardinality(Assigned) = {}
    BY <2>1
  <2>3. QED
    BY <2>1, <2>2 DEF Init, Numbering, Consecutive, OneCounts
<1>4. Reach /\ Ends
  BY EventsAssumption DEF Init, Reach, Ends
<1>5. QED
  BY <1>1, <1>2, <1>3, <1>4 DEF IInv

LEMMA CountingStep == TypeOK /\ Counting /\ [Next]_vars => Counting'
<1> SUFFICES ASSUME TypeOK, Counting, [Next]_vars PROVE Counting'
  OBVIOUS
<1>0. /\ Cardinality(Fresh) \in Nat /\ Cardinality(Fresh') \in Nat /\ Cardinality(Emission) \in Nat
      /\ cached \in Nat /\ \A e \in Emission : seen[e] \in Nat /\ seq[e] \in Nat
  BY Finite, Numbers DEF TypeOK, Fresh
<1>1. CASE UNCHANGED numbering
  BY <1>1 DEF numbering, Counting, Fresh
<1>2. ASSUME NEW e \in Emission, CountEvents(e) PROVE Counting'
  <2>1. Fresh' = Fresh
    BY <1>2 DEF CountEvents, MayEmit, Fresh, TypeOK
  <2>2. Cardinality(stored) + Cardinality(Fresh) <= Cardinality(Emission)
    BY StoredAndFresh
  <2>3. \A f \in Emission : /\ seen'[f] = IF f = e THEN Cardinality(stored) ELSE seen[f]
                            /\ pc'[f] = IF f = e THEN "counted" ELSE pc[f]
    BY <1>2 DEF CountEvents, TypeOK
  <2>4. stored' = {f \in Emission : pc'[f] \in {"stored", "over"}}
    BY <1>2, <2>3 DEF CountEvents, MayEmit, Counting
  <2>5. QED
    BY <1>2, <2>1, <2>2, <2>3, <2>4 DEF CountEvents, Counting
<1>3. ASSUME NEW e \in Emission, SetSequence(e) \/ TakeSequence(e) PROVE Counting'
  <2>1. e \in Fresh /\ pc' = [pc EXCEPT ![e] = "numbered"]
    BY <1>3 DEF SetSequence, TakeSequence, MayEmit, Fresh
  <2>2. Cardinality(Fresh') = Cardinality(Fresh) - 1
    BY <2>1, FreshLeaves
  <2>3. PICK n \in 1..Cardinality(Emission) : /\ n - 1 + Cardinality(Fresh) <= Cardinality(Emission)
                                              /\ seq' = [seq EXCEPT ![e] = n] /\ cached' = n
    <3>1. CASE SetSequence(e)
      <4>1. seen[e] + 1 \in 1..Cardinality(Emission) /\ seen[e] + Cardinality(Fresh) <= Cardinality(Emission)
        BY <2>1, <3>1, RoomLeft DEF SetSequence, Counting
      <4>2. (seen[e] + 1) - 1 + Cardinality(Fresh) <= Cardinality(Emission)
        BY <1>0, <4>1
      <4>3. QED
        BY <3>1, <4>1, <4>2 DEF SetSequence
    <3>2. CASE TakeSequence(e)
      <4>1. cached + 1 \in 1..Cardinality(Emission) /\ cached + Cardinality(Fresh) <= Cardinality(Emission)
        BY <2>1, <3>2, RoomLeft DEF Counting
      <4>2. (cached + 1) - 1 + Cardinality(Fresh) <= Cardinality(Emission)
        BY <1>0, <4>1
      <4>3. QED
        BY <3>2, <4>1, <4>2 DEF TakeSequence
    <3>3. QED
      BY <1>3, <3>1, <3>2
  <2>4. \A f \in Emission : /\ seq'[f] = IF f = e THEN n ELSE seq[f]
                            /\ pc'[f] = IF f = e THEN "numbered" ELSE pc[f]
    BY <2>1, <2>3 DEF TypeOK
  <2>5. seen' = seen /\ stored' = stored /\ pc[e] \notin {"stored", "over"}
    BY <1>3 DEF SetSequence, TakeSequence, MayEmit
  <2>6. stored' = {f \in Emission : pc'[f] \in {"stored", "over"}}
    BY <2>4, <2>5 DEF Counting
  <2>7. cached' + Cardinality(Fresh') <= Cardinality(Emission)
    BY <1>0, <2>2, <2>3
  <2>8. \A f \in Emission : /\ seq'[f] <= Cardinality(Emission)
                            /\ pc'[f] = "counted" => seen'[f] + Cardinality(Fresh') <= Cardinality(Emission)
    BY <1>0, <2>2, <2>4, <2>5 DEF Counting
  <2>9. QED
    BY <2>6, <2>7, <2>8 DEF Counting
<1>4. ASSUME NEW e \in Emission, Append(e) \/ Notify(e) PROVE Counting'
  <2>1. PICK p \in {"stored", "over"} : pc' = [pc EXCEPT ![e] = p]
    BY <1>4 DEF Append, Notify
  <2>2. pc[e] \in {"numbered", "stored"} /\ (pc[e] = "stored" \/ stored' = stored \cup {e})
        /\ (pc[e] = "stored" => stored' = stored) /\ UNCHANGED <<seq, cached, seen>>
    BY <1>4 DEF Append, Notify
  <2>3. \A f \in Emission : pc'[f] = IF f = e THEN p ELSE pc[f]
    BY <2>1 DEF TypeOK
  <2>4. Fresh' = Fresh
    BY <2>2, <2>3 DEF Fresh
  <2>5. stored' = {f \in Emission : pc'[f] \in {"stored", "over"}}
    BY <2>2, <2>3 DEF Counting
  <2>6. \A f \in Emission : pc'[f] = "counted" => pc[f] = "counted"
    BY <2>3
  <2>7. QED
    BY <2>2, <2>4, <2>5, <2>6 DEF Counting
<1>5. CASE Restart
  <2>1. \A e \in Emission : pc'[e] = IF pc[e] \in {"counted", "numbered"} THEN "lost"
                                      ELSE IF pc[e] = "stored" THEN "over" ELSE pc[e]
    BY <1>5 DEF Restart
  <2>2. Cardinality(Fresh') <= Cardinality(Fresh)
    BY <2>1, FreshShrinks DEF Fresh
  <2>3. stored' = {f \in Emission : pc'[f] \in {"stored", "over"}}
    BY <1>5, <2>1 DEF Restart, Counting
  <2>4. cached' = 0 /\ UNCHANGED <<seq, seen>>
    BY <1>5 DEF Restart
  <2>5. cached' + Cardinality(Fresh') <= Cardinality(Emission)
    BY <1>0, <2>2, <2>4 DEF Counting
  <2>6. \A f \in Emission : pc'[f] # "counted"
    BY <2>1
  <2>7. QED
    BY <2>3, <2>4, <2>5, <2>6 DEF Counting
<1>6. QED
  BY <1>1, <1>2, <1>3, <1>4, <1>5
  DEF Next, Emit, Handle, EndRun, Replay, ReadStatus, Subscribe, Disconnect, Connect, vars
-----------------------------------------------------------------------------
(* Numbering.                                                              *)

\* An emission that gets the number after the last keeps them consecutive.
LEMMA GetsNumber ==
  ASSUME TypeOK, Consecutive, NEW e \in Emission, seq[e] = 0,
         seq' = [seq EXCEPT ![e] = Cardinality(Assigned) + 1]
  PROVE  /\ Assigned' = Assigned \cup {e}
         /\ Cardinality(Assigned') = Cardinality(Assigned) + 1
         /\ Consecutive'
<1> DEFINE k == Cardinality(Assigned)
<1>1. Assigned \subseteq Emission /\ e \notin Assigned /\ k \in Nat /\ IsFiniteSet(Assigned)
  BY Finite, EventsAssumption, FS_Subset DEF Assigned
<1>2. \A f \in Emission : seq'[f] = IF f = e THEN k + 1 ELSE seq[f]
  BY DEF TypeOK
<1>3. Assigned' = Assigned \cup {e}
  BY <1>1, <1>2 DEF Assigned
<1>4. Cardinality(Assigned') = k + 1
  BY <1>1, <1>3, FS_AddElement
<1>5. {seq'[f] : f \in Assigned'} = {seq[f] : f \in Assigned} \cup {k + 1}
  <2>1. \A f \in Assigned : seq'[f] = seq[f]
    BY <1>1, <1>2
  <2>2. seq'[e] = k + 1
    BY <1>2
  <2>3. QED
    BY <1>3, <2>1, <2>2
<1>6. 1..k + 1 = (1..k) \cup {k + 1}
  BY <1>1
<1>7. {seq'[f] : f \in Assigned'} = 1..k + 1
  BY <1>5, <1>6 DEF Consecutive
<1>8. Consecutive'
  BY <1>4, <1>7 DEF Consecutive
<1>9. QED
  BY <1>3, <1>4, <1>8

LEMMA NumberingStep == TypeOK /\ Counting /\ Numbering /\ [Next]_vars => Numbering'
<1> SUFFICES ASSUME TypeOK, Counting, Numbering, [Next]_vars, ~doubt' PROVE Numbering'
  BY DEF Numbering
<1>0. Cardinality(Assigned) \in Nat /\ cached \in Nat
  BY Finite, Numbers DEF TypeOK, Assigned
<1>1. CASE UNCHANGED numbering
  BY <1>1 DEF numbering, Numbering, Assigned, Consecutive, OneCounts
<1>2. ASSUME NEW e \in Emission, CountEvents(e) PROVE Numbering'
  <2>1. ~doubt /\ \A f \in Emission : pc[f] # "counted"
    BY <1>2 DEF CountEvents
  <2>2. \A f \in Emission : /\ seen'[f] = IF f = e THEN Cardinality(stored) ELSE seen[f]
                            /\ pc'[f] = IF f = e THEN "counted" ELSE pc[f]
    BY <1>2 DEF CountEvents, TypeOK
  <2>3. pc[e] = "new" /\ UNCHANGED <<seq, cached, stored>> /\ cached = 0
    BY <1>2 DEF CountEvents, MayEmit
  <2>4. Assigned' = {f \in Emission : pc'[f] \in {"numbered", "stored", "over"}} /\ Consecutive'
    BY <2>1, <2>2, <2>3 DEF Numbering, Assigned, Consecutive
  <2>5. \A f \in Emission : pc'[f] # "numbered" /\ OneCounts(f)'
    BY <2>1, <2>2, <2>3 DEF Numbering, OneCounts
  <2>6. QED
    BY <2>3, <2>4, <2>5 DEF Numbering
<1>3. ASSUME NEW e \in Emission, SetSequence(e) \/ TakeSequence(e) PROVE Numbering'
  <2>1. ~doubt /\ pc[e] \in {"new", "counted"} /\ pc' = [pc EXCEPT ![e] = "numbered"] /\ stored' = stored
    BY <1>3 DEF SetSequence, TakeSequence, MayEmit
  <2>2. seq[e] = 0
    <3>1. e \notin Assigned
      BY <2>1 DEF Numbering
    <3>2. seq[e] \in Nat
      BY Numbers DEF TypeOK
    <3>3. QED
      BY <3>1, <3>2 DEF Assigned
  <2>3. /\ seq' = [seq EXCEPT ![e] = Cardinality(Assigned) + 1]
        /\ cached' = Cardinality(Assigned) + 1
        /\ \A f \in Emission : pc[f] = "counted" => f = e
    <3>1. CASE SetSequence(e)
      <4>1. pc[e] = "counted" /\ cached = 0
        BY <1>0, <2>1, <3>1 DEF SetSequence, Numbering
      <4>2. Assigned = stored
        BY <2>1, <4>1 DEF Numbering, Counting
      <4>3. OneCounts(e)
        BY <2>1, <4>1 DEF Numbering
      <4>4. QED
        BY <3>1, <4>1, <4>2, <4>3 DEF SetSequence, OneCounts
    <3>2. CASE TakeSequence(e)
      BY <2>1, <3>2 DEF TakeSequence, Numbering
    <3>3. QED
      BY <1>3, <3>1, <3>2
  <2>4. /\ Assigned' = Assigned \cup {e} /\ Consecutive'
        /\ Cardinality(Assigned') = Cardinality(Assigned) + 1
    BY <2>1, <2>2, <2>3, GetsNumber DEF Numbering
  <2>5. \A f \in Emission : pc'[f] = IF f = e THEN "numbered" ELSE pc[f]
    BY <2>1 DEF TypeOK
  <2>6. Assigned' = {f \in Emission : pc'[f] \in {"numbered", "stored", "over"}}
    BY <2>1, <2>4, <2>5 DEF Numbering
  <2>7. cached' > 0 /\ cached' # 0 /\ \A f \in Emission : pc'[f] # "counted"
    BY <1>0, <2>3, <2>5
  <2>8. QED
    BY <2>3, <2>4, <2>6, <2>7 DEF Numbering
<1>4. ASSUME NEW e \in Emission, Append(e) \/ Notify(e) PROVE Numbering'
  <2>1. PICK p \in {"stored", "over"} : pc' = [pc EXCEPT ![e] = p]
    BY <1>4 DEF Append, Notify
  <2>2. /\ ~doubt /\ pc[e] \in {"numbered", "stored"} /\ UNCHANGED <<seq, cached, seen>>
        /\ pc[e] = "stored" => stored' = stored
    BY <1>4 DEF Append, Notify
  <2>3. \A f \in Emission : pc'[f] = IF f = e THEN p ELSE pc[f]
    BY <2>1 DEF TypeOK
  <2>4. Assigned' = {f \in Emission : pc'[f] \in {"numbered", "stored", "over"}} /\ Consecutive'
    BY <2>2, <2>3 DEF Numbering, Assigned, Consecutive
  <2>5. Assigned' = Assigned
    BY <2>2 DEF Assigned
  <2>6. ASSUME cached = 0 PROVE \A f \in Emission : pc'[f] # "numbered" /\ OneCounts(f)'
    BY <2>2, <2>3, <2>6 DEF Numbering, OneCounts
  <2>7. cached > 0 => cached = Cardinality(Assigned) /\ \A f \in Emission : pc'[f] # "counted"
    BY <2>2, <2>3 DEF Numbering
  <2>8. QED
    BY <2>2, <2>4, <2>5, <2>6, <2>7 DEF Numbering
<1>5. CASE Restart
  <2>1. ~doubt /\ \A e \in Emission : pc[e] # "numbered"
    BY <1>5 DEF Restart
  <2>2. \A e \in Emission : pc'[e] = IF pc[e] \in {"counted", "numbered"} THEN "lost"
                                      ELSE IF pc[e] = "stored" THEN "over" ELSE pc[e]
    BY <1>5 DEF Restart
  <2>3. cached' = 0 /\ UNCHANGED <<seq, seen>>
    BY <1>5 DEF Restart
  <2>4. Assigned' = {f \in Emission : pc'[f] \in {"numbered", "stored", "over"}} /\ Consecutive'
    BY <2>1, <2>2, <2>3 DEF Numbering, Assigned, Consecutive
  <2>5. \A f \in Emission : pc'[f] # "numbered" /\ OneCounts(f)'
    BY <2>1, <2>2 DEF OneCounts
  <2>6. QED
    BY <2>3, <2>4, <2>5 DEF Numbering
<1>6. QED
  BY <1>1, <1>2, <1>3, <1>4, <1>5
  DEF Next, Emit, Handle, EndRun, Replay, ReadStatus, Subscribe, Disconnect, Connect, vars
-----------------------------------------------------------------------------
(* Types.                                                                  *)

LEMMA ConnectType ==
  ASSUME TypeOK, NEW c \in Socket, NEW d \in Socket, Connect(c, d)
  PROVE  TypeOK'
<1>1. ASSUME got[d] # {} PROVE Max({seq[e] : e \in got[d]}) \in Number
  <2> DEFINE S == {seq[e] : e \in got[d]}
  <2>1. S # {} /\ S \subseteq Number
    BY <1>1 DEF TypeOK
  <2>2. IsFiniteSet(Number)
    BY Finite, FS_Interval DEF Number
  <2>3. IsFiniteSet(S) /\ S \in SUBSET Nat
    BY <2>1, <2>2, FS_Subset, Numbers
  <2>4. Max(S) \in S
    BY <2>1, <2>3, MaxIsMember
  <2>5. QED
    BY <2>1, <2>4
<1>2. cursor' \in [Socket -> Number] /\ got' \in [Socket -> SUBSET Emission]
  BY <1>1 DEF Connect, TypeOK
<1>3. QED
  BY <1>2 DEF Connect, TypeOK, numbering, listening

\* There is a set id left for a socket whose listener was not added yet.
LEMMA SubscribeType ==
  ASSUME TypeOK, Reach, NEW c \in Socket, Subscribe(c)
  PROVE  TypeOK' /\ entry' # 0
<1> DEFINE S == {d \in Socket : setOf[d] # 0}
           g == IF entry # 0 THEN entry ELSE 1 + Cardinality(S)
<1>1. c \notin S
  BY DEF Subscribe, Reach
<1>2. IsFiniteSet(Socket \ {c}) /\ Cardinality(Socket \ {c}) = Cardinality(Socket) - 1
  BY EventsAssumption, FS_RemoveElement
<1>3. S \in SUBSET (Socket \ {c})
  BY <1>1
<1>4. IsFiniteSet(S) /\ Cardinality(S) <= Cardinality(Socket) - 1
  BY <1>2, <1>3, FS_Subset
<1>5. Cardinality(S) \in Nat
  BY <1>4, FS_CardinalityType
<1>6. 1 + Cardinality(S) \in SetId /\ 1 + Cardinality(S) # 0
  BY <1>4, <1>5, Finite DEF SetId
<1>7. g \in SetId /\ g # 0
  BY <1>6 DEF TypeOK
<1>8. entry' = g /\ members' = [members EXCEPT ![g] = @ \cup {c}] /\ setOf' = [setOf EXCEPT ![c] = g]
  BY DEF Subscribe
<1> HIDE DEF g
<1>9. /\ entry' \in SetId /\ members' \in [SetId -> SUBSET Socket] /\ setOf' \in [Socket -> SetId]
      /\ entry' # 0
  BY <1>7, <1>8 DEF TypeOK
<1>10. QED
  BY <1>9 DEF Subscribe, TypeOK, numbering

LEMMA TypeStep == TypeOK /\ Counting /\ Reach /\ [Next]_vars => TypeOK'
<1> SUFFICES ASSUME TypeOK, Counting, Reach, [Next]_vars PROVE TypeOK'
  OBVIOUS
<1> USE DEF TypeOK, numbering, viewers, listening
<1>0. 0 \in SetId
  BY Finite DEF SetId
<1>1. CASE EndRun \/ UNCHANGED vars
  BY <1>1 DEF EndRun, vars
<1>2. ASSUME NEW e \in Emission, CountEvents(e) PROVE TypeOK'
  <2>1. Cardinality(stored) \in Number
    BY Numbers
  <2>2. QED
    BY <1>2, <2>1 DEF CountEvents
<1>3. ASSUME NEW e \in Emission, SetSequence(e) \/ TakeSequence(e) PROVE TypeOK'
  <2>1. e \in Fresh
    BY <1>3 DEF SetSequence, TakeSequence, MayEmit, Fresh
  <2>2. PICK n \in Number : seq' = [seq EXCEPT ![e] = n] /\ cached' = n
    BY <1>3, <2>1, RoomLeft, Numbers DEF SetSequence, TakeSequence
  <2>3. QED
    BY <1>3, <2>2 DEF SetSequence, TakeSequence
<1>4. ASSUME NEW e \in Emission, Append(e) PROVE TypeOK'
  BY <1>4 DEF Append
<1>5. ASSUME NEW e \in Emission, Notify(e) PROVE TypeOK'
  <2>1. /\ pc' \in [Emission -> {"new", "counted", "numbered", "stored", "over", "lost"}]
        /\ got' \in [Socket -> SUBSET Emission]
    BY <1>5 DEF Notify
  <2>2. /\ at' \in [Socket -> {"off", "replay", "status", "subscribe", "live", "closed"}]
        /\ done' \subseteq Socket /\ connected' \subseteq Socket
    BY <1>5 DEF Notify
  <2>3. entry' \in SetId /\ members' \in [SetId -> SUBSET Socket]
    BY <1>5, <1>0 DEF Notify
  <2>4. QED
    BY <1>5, <2>1, <2>2, <2>3 DEF Notify
<1>6. ASSUME NEW c \in Socket, Replay(c) \/ ReadStatus(c) PROVE TypeOK'
  <2>1. got' \in [Socket -> SUBSET Emission]
    BY <1>6 DEF Replay, ReadStatus
  <2>2. QED
    BY <1>6, <2>1 DEF Replay, ReadStatus
<1>7. ASSUME NEW c \in Socket, Subscribe(c) PROVE TypeOK'
  BY <1>7, SubscribeType
<1>8. ASSUME NEW c \in Socket, Disconnect(c) PROVE TypeOK'
  <2>1. at' \in [Socket -> {"off", "replay", "status", "subscribe", "live", "closed"}]
    BY <1>8 DEF Disconnect
  <2>2. entry' \in SetId /\ members' \in [SetId -> SUBSET Socket]
    BY <1>8, <1>0 DEF Disconnect
  <2>3. QED
    BY <1>8, <2>1, <2>2 DEF Disconnect
<1>9. ASSUME NEW c \in Socket, NEW d \in Socket, Connect(c, d) PROVE TypeOK'
  BY <1>9, ConnectType
<1>10. CASE Restart
  BY <1>10, Numbers, Finite DEF Restart, SetId
<1>11. QED
  BY <1>1, <1>2, <1>3, <1>4, <1>5, <1>6, <1>7, <1>8, <1>9, <1>10 DEF Next, Emit, Handle
-----------------------------------------------------------------------------
(* Sockets.                                                                *)

LEMMA ReachStep == TypeOK /\ Reach /\ [Next]_vars => Reach'
<1> SUFFICES ASSUME TypeOK, Reach, [Next]_vars PROVE Reach'
  OBVIOUS
<1>1. CASE UNCHANGED <<at, listening>>
  BY <1>1 DEF listening, Reach
<1>2. ASSUME NEW e \in Emission, Notify(e) PROVE Reach'
  <2>1. CASE e # Final
    BY <1>2, <2>1 DEF Notify, Reach
  <2>2. CASE e = Final
    <3>1. \A c \in Socket : at'[c] = IF c \in members[entry] THEN "closed" ELSE at[c]
      BY <1>2, <2>2 DEF Notify
    <3>2. \A c \in Socket : at'[c] # "live"
      BY <3>1 DEF Reach
    <3>3. setOf' = setOf
      BY <1>2 DEF Notify
    <3>4. QED
      BY <3>1, <3>2, <3>3 DEF Reach
  <2>3. QED
    BY <2>1, <2>2
<1>3. ASSUME NEW c \in Socket, NEW p, p # "live", at' = [at EXCEPT ![c] = p], UNCHANGED listening,
             at[c] \in {"off", "replay", "status", "subscribe"}
      PROVE  Reach'
  BY <1>3 DEF listening, Reach, TypeOK
<1>4. ASSUME NEW c \in Socket, Replay(c) \/ ReadStatus(c) \/ \E d \in Socket : Connect(c, d) PROVE Reach'
  <2>1. /\ \E p : p # "live" /\ at' = [at EXCEPT ![c] = p]
        /\ UNCHANGED listening /\ at[c] \in {"off", "replay", "status", "subscribe"}
    BY <1>4 DEF Replay, ReadStatus, Connect
  <2>2. QED
    BY <1>3, <2>1
<1>5. ASSUME NEW c \in Socket, Subscribe(c) PROVE Reach'
  <2>1. entry' \in SetId /\ entry' # 0
    BY <1>5, SubscribeType DEF TypeOK
  <2>2. /\ at' = [at EXCEPT ![c] = "live"] /\ setOf' = [setOf EXCEPT ![c] = entry']
        /\ members' = [members EXCEPT ![entry'] = @ \cup {c}]
        /\ entry # 0 => entry' = entry
    BY <1>5 DEF Subscribe
  <2>3. members' \in [SetId -> SUBSET Socket] /\ c \in members'[entry']
    BY <2>1, <2>2 DEF TypeOK
  <2>4. ASSUME NEW d \in Socket, d # c
        PROVE  /\ at'[d] = "live" => setOf'[d] # 0 /\ setOf'[d] = entry' /\ d \in members'[entry']
               /\ at'[d] \in {"off", "replay", "status", "subscribe"} => setOf'[d] = 0
    BY <2>1, <2>2, <2>4 DEF Reach, TypeOK
  <2>5. at'[c] = "live" /\ setOf'[c] = entry'
    BY <2>2 DEF TypeOK
  <2>6. QED
    BY <2>1, <2>3, <2>4, <2>5 DEF Reach
<1>6. ASSUME NEW c \in Socket, Disconnect(c) PROVE Reach'
  <2>1. CASE at[c] # "live"
    BY <1>1, <1>6, <2>1 DEF Disconnect, listening
  <2>2. CASE at[c] = "live"
    <3>1. /\ at' = [at EXCEPT ![c] = "closed"] /\ setOf' = setOf
          /\ members' = [members EXCEPT ![setOf[c]] = @ \ {c}]
          /\ entry' = IF members[setOf[c]] \subseteq {c} THEN 0 ELSE entry
      BY <1>6, <2>2 DEF Disconnect
    <3>2. setOf[c] = entry
      BY <2>2 DEF Reach
    <3>3. ASSUME NEW d \in Socket, d # c, at[d] = "live"
          PROVE  entry' = entry /\ d \in members'[entry']
      <4>1. d \in members[entry]
        BY <3>3 DEF Reach
      <4>2. entry' = entry
        BY <3>1, <3>2, <3>3, <4>1
      <4>3. QED
        BY <3>1, <3>2, <3>3, <4>1, <4>2 DEF TypeOK
    <3>4. QED
      BY <3>1, <3>3 DEF Reach, TypeOK
  <2>3. QED
    BY <2>1, <2>2
<1>7. CASE Restart
  BY <1>7 DEF Restart, Reach
<1>8. QED
  BY <1>1, <1>2, <1>4, <1>5, <1>6, <1>7
  DEF Next, Emit, Handle, EndRun, CountEvents, SetSequence, TakeSequence, Append, viewers, vars

LEMMA EndsStep == TypeOK /\ Ends /\ [Next]_vars => Ends'
<1> SUFFICES ASSUME TypeOK, Ends, [Next]_vars PROVE Ends'
  OBVIOUS
<1>0. Final \in Emission
  BY EventsAssumption
<1>1. CASE EndRun
  BY <1>1 DEF EndRun, Ends
<1>2. CASE ended' = ended /\ pc'[Final] = pc[Final] /\ done' = done
  BY <1>2 DEF Ends
<1>3. ASSUME NEW e \in Emission, Emit(e) PROVE Ends'
  <2>1. ended' = ended
    BY <1>3 DEF Emit, CountEvents, SetSequence, TakeSequence, Append, Notify
  <2>2. pc[Final] # "new" => ended
    BY DEF Ends
  <2>3. pc' = [pc EXCEPT ![e] = pc'[e]]
    BY <1>3 DEF Emit, CountEvents, SetSequence, TakeSequence, Append, Notify, TypeOK
  <2>4. CASE e = Final
    BY <1>3, <2>1, <2>2, <2>4
    DEF Emit, CountEvents, SetSequence, TakeSequence, Append, Notify, MayEmit, Ends
  <2>5. CASE e # Final
    <3>1. pc'[Final] = pc[Final]
      BY <1>0, <2>3, <2>5 DEF TypeOK
    <3>2. done' = done
      BY <1>3, <2>5 DEF Emit, CountEvents, SetSequence, TakeSequence, Append, Notify, viewers
    <3>3. QED
      BY <1>2, <2>1, <3>1, <3>2
  <2>6. QED
    BY <2>4, <2>5
<1>4. ASSUME NEW c \in Socket, Handle(c) \/ Disconnect(c) \/ \E d \in Socket : Connect(c, d) PROVE Ends'
  BY <1>4 DEF Handle, Replay, ReadStatus, Subscribe, Disconnect, Connect, numbering, Ends
<1>5. CASE Restart
  <2>1. ended' = ended /\ done' = done
    BY <1>5 DEF Restart
  <2>2. pc[Final] = "new" => pc'[Final] = "new"
    BY <1>0, <1>5 DEF Restart
  <2>3. QED
    BY <2>1, <2>2 DEF Ends
<1>6. CASE UNCHANGED vars
  BY <1>2, <1>6 DEF vars, numbering, viewers
<1>7. QED
  BY <1>1, <1>3, <1>4, <1>5, <1>6 DEF Next

LEMMA NextKeeps == IInv /\ [Next]_vars => IInv'
BY TypeStep, CountingStep, NumberingStep, ReachStep, EndsStep DEF IInv

LEMMA Invariance == Spec => []IInv
BY InitIInv, NextKeeps, PTL DEF Spec

-----------------------------------------------------------------------------
\* In every reachable state the numbers, the sets of listeners and the places of
\* emissions and sockets have their types: no number outgrows the emissions, and
\* there is a set for every socket that subscribes.
THEOREM TypeCorrect == Spec => []TypeOK
<1>1. IInv => TypeOK
  BY DEF IInv
<1>2. QED
  BY <1>1, Invariance, PTL

\* The numbers handed out are 1, 2, 3, ... unless two emissions counted at once or a
\* restart lost a number that was taken (runtime_support.ts:38-51): however many
\* emissions there are and in whatever order storage answers them.
THEOREM UniqueSequencesHolds == Spec => []UniqueSequences
<1>1. IInv => UniqueSequences
  BY DEF IInv, Numbering, Consecutive, Assigned, UniqueSequences
<1>2. QED
  BY <1>1, Invariance, PTL

\* A live socket is in the set of listeners that the next event is sent to
\* (api.ts:219-235), whoever else comes and goes and in whatever order; and none is
\* sent away as done before the run has ended (socket_subscription.ts:208-215, 279-284).
THEOREM StaysReachableHolds == Spec => []StaysReachable
<1>1. IInv => StaysReachable
  BY DEF IInv, Reach, Ends, StaysReachable
<1>2. QED
  BY <1>1, Invariance, PTL
===============================================================================
