----------------------------- MODULE ArchivesProofs -----------------------------
(***************************************************************************)
(* Proofs about Inspection and Archives, for any number of readers,        *)
(* archive requests, commits and root directories: type correctness, that  *)
(* an answer is of the commit it names or its ref has moved, that a        *)
(* repository with a commit is called unborn only when git failed to tell  *)
(* of it, that every archive that is kept, or answered with success, was   *)
(* generated for its commit, and that its announced length fits.           *)
(***************************************************************************)
EXTENDS Archives, FiniteSetTheorems, SequenceTheorems, TLAPS

-----------------------------------------------------------------------------
(* Reads.                                                                  *)

Ref == Branch \cup {"HEAD"}
Look == [op : DOMAIN Program \cup {"none"}, ref : Branch \cup {"auto"},
         at : {"start", "hasHead", "branch", "head"}, pc : 0..5, resolved : Ref,
         commit : 0..MaxCommit, got : SUBSET (1..MaxCommit),
         result : {"idle", "running", "ok", "error", "missing", "unborn"},
         moved : BOOLEAN, born : BOOLEAN, misread : BOOLEAN]

RefsOK == tip \in [Branch -> 0..MaxCommit] /\ head \in Branch /\ last \in 0..MaxCommit
LookOK == look \in [Reader -> Look]

\* A read under way is at a step of its program, and has read nothing before the first.
UnderWay(l) ==
  l.result = "running" =>
    /\ l.op \in DOMAIN Program /\ l.pc \in 1..Len(Program[l.op])
    /\ l.pc = 1 => l.commit = 0 /\ l.got = {}

\* What it has read is of the commit its ref is at, if that has not moved since; the
\* commands of readRepositoryCommit take the hash.
OfItsRef(l) ==
  l.result = "running" /\ ~l.moved =>
    l.commit \in {0, CommitAt(l.resolved)} /\ l.got \subseteq {CommitAt(l.resolved)}
OfItsHash(l) == l.op = "readCommit" => l.got \subseteq {l.commit}

\* A summary is of HEAD.
OfHead(l) == l.op \in {"readSummary", "readSummaryLogFirst"} => l.resolved = "HEAD"
\* HEAD keeps the commit it had when the read began.
BornStays(l) == l.result = "running" /\ l.born => CommitAt("HEAD") # 0

\* UnbornWasUnborn and AnswerIsOfItsCommit for a single read.
UnbornOK(l) == l.result = "unborn" => ~l.born \/ l.misread
AnswerOK(l) ==
  l.result = "ok" =>
    \/ \E c \in 1..MaxCommit : l.got \subseteq {c} /\ l.commit \in {0, c}
    \/ l.moved /\ l.op # "readCommit"

ReadInv(l) ==
  UnderWay(l) /\ OfItsRef(l) /\ OfItsHash(l) /\ OfHead(l) /\ BornStays(l) /\ UnbornOK(l) /\ AnswerOK(l)
ReadsInv == \A r \in Reader : ReadInv(look[r])

-----------------------------------------------------------------------------
(* Archive requests.                                                       *)

FilesOK ==
  /\ data \in [Key -> Archive \cup {NoFile}] /\ entry \in [Key -> Entry \cup {NoFile}]
  /\ made \in [Key -> SUBSET Archive]

Places == {"idle", "resolve", "lookup", "open", "clean", "stream", "generate", "exit", "abort",
           "moveData", "moveEntry"}
Req == [op : {"none", "open", "read", "resolve", "prefix", "cleanup"}, at : Places,
        sub : {"", "check", "remove"}, rm : SUBSET {"data", "entry"}, ref : {"HEAD", "dev"},
        key : Key, root : Root \cup {""}, known : Entry \cup {NoFile},
        hit : Entry \cup {NoFile}, body : Archive \cup {NoFile},
        result : {"idle", "running", "ok", "error"}]
ReqOK == req \in [Request -> Req]

\* A request that has not resolved its ref has found nothing; which kinds of request
\* come to which places; who is in the middle of a lookup.
Begun(r) ==
  r.result = "running" =>
    /\ r.at # "idle"
    /\ r.at = "resolve" => r.known = NoFile /\ r.hit = NoFile
    /\ r.at \in {"resolve", "lookup", "open", "clean", "stream", "generate"} => r.body = NoFile
    /\ r.at = "exit" => r.body \in Archive /\ r.body.of = r.key
    /\ r.op # "cleanup" => r.root \in Root
Kinds(r) ==
  r.result = "running" =>
    /\ r.at = "resolve" => r.op \in {"open", "read", "resolve", "prefix"}
    /\ r.at = "lookup" => r.op \in {"open", "read", "resolve"}
    /\ r.at = "clean" => r.op = "cleanup"
    /\ r.at \in {"open", "stream", "moveData", "moveEntry", "abort"} => Opens(r)
    /\ r.at \in {"generate", "exit"} => r.op \in {"open", "read", "prefix"}
Looking(r) == r.sub # "" => r.result = "running" /\ r.at \in {"lookup", "open", "clean"}

\* What a request knows was made for its key, what it has got is of its key, and was made
\* for it once git has succeeded; only an open request that fails has got something.
Holds(r, a) == a \in made[r.key]
Honest(r) ==
  /\ r.known # NoFile => Holds(r, r.known.size)
  /\ r.hit # NoFile => Holds(r, r.hit.size)
  /\ r.body # NoFile => r.body.of = r.key
  /\ r.result = "running" /\ r.at \in {"moveData", "moveEntry"} => Holds(r, r.body)
  /\ r.result = "ok" => (Opens(r) => Holds(r, r.body)) /\ (r.body # NoFile => Holds(r, r.body))
  /\ r.result = "error" /\ r.body # NoFile => r.op = "open"

RequestInv(r) == Begun(r) /\ Kinds(r) /\ Looking(r) /\ Honest(r)
RequestsInv == \A q \in Request : RequestInv(req[q])

\* Whatever the cache holds was made for its key, whole unless a kill goes unnoticed.
CacheInv ==
  \A k \in Key :
    /\ data[k] # NoFile => data[k] \in made[k]
    /\ entry[k] # NoFile => entry[k].size \in made[k]
    /\ IsFiniteSet(made[k]) /\ \A a \in made[k] : a.of = k /\ (a.whole \/ "kill" \in Faults)

IInv ==
  /\ RefsOK /\ LookOK /\ ReadsInv
  /\ FilesOK /\ ReqOK /\ RequestsInv /\ CacheInv
-----------------------------------------------------------------------------
(* The programs.                                                           *)

Ops == {"readTree", "readTreeLinguist", "readDirectory", "readFile", "readLinguist", "readBlob",
        "readCompare", "search", "readSummary", "readSummaryLogFirst", "readCommit", "readBlame",
        "listCommits", "listTree"}

StepKind == {"target", "named", "read"}

\* The steps of a program that has no summary and no pinned reads.
Plain(p) ==
  /\ Len(p) \in 1..5
  /\ \A i \in 1..Len(p) : p[i] \notin {"pinned", "head"} /\ (p[i] = "target" => i = 1)

LEMMA PlainSteps ==
  /\ Plain(<<"target", "read">>) /\ Plain(<<"target", "read", "read">>)
  /\ Plain(<<"named", "read", "read">>) /\ Plain(<<"named", "read">>)
  /\ Plain(<<"read", "read">>) /\ Plain(<<"read">>) /\ Plain(<<"log">>)
<1>1. Plain(<<"target", "read">>) /\ Plain(<<"named", "read">>) /\ Plain(<<"read", "read">>)
  BY DEF Plain
<1>2. Plain(<<"target", "read", "read">>)
  BY DEF Plain
<1>3. Plain(<<"named", "read", "read">>)
  BY DEF Plain
<1>4. Plain(<<"read">>) /\ Plain(<<"log">>)
  BY DEF Plain
<1>5. QED
  BY <1>1, <1>2, <1>3, <1>4

\* Steps that follow steps: a target only comes first.
LEMMA PlainFollows ==
  ASSUME NEW p \in Seq(StepKind), Plain(p), Len(p) <= 2
  PROVE  Plain(p \o <<"named", "read", "read">>)
<1> DEFINE t == <<"named", "read", "read">>
<1>1. t \in Seq(StepKind) /\ Len(t) = 3 /\ \A i \in 1..3 : t[i] \in {"named", "read"}
  BY DEF StepKind
<1> HIDE DEF t
<1>2. /\ Len(p \o t) = Len(p) + 3
      /\ \A i \in 1..Len(p) + 3 : (p \o t)[i] = IF i <= Len(p) THEN p[i] ELSE t[i - Len(p)]
  <2>1. /\ Len(p \o t) = Len(p) + Len(t)
        /\ \A i \in 1..Len(p) + Len(t) : (p \o t)[i] = IF i <= Len(p) THEN p[i] ELSE t[i - Len(p)]
    BY <1>1, ConcatProperties, Zenon
  <2>2. QED
    BY <1>1, <2>1
<1>3. \A i \in 1..Len(p) : (p \o t)[i] = p[i]
  BY <1>2
<1>4. \A i \in Len(p) + 1..Len(p) + 3 : (p \o t)[i] = t[i - Len(p)] /\ i - Len(p) \in 1..3
  BY <1>2
<1>5. ASSUME NEW i \in 1..Len(p \o t)
      PROVE  (p \o t)[i] \notin {"pinned", "head"} /\ ((p \o t)[i] = "target" => i = 1)
  <2>1. CASE i \in 1..Len(p)
    BY <1>3, <2>1 DEF Plain
  <2>2. CASE i \in Len(p) + 1..Len(p) + 3
    <3>1. (p \o t)[i] \in {"named", "read"}
      BY <1>1, <1>4, <2>2
    <3>2. QED
      BY <3>1
  <2>3. QED
    BY <1>2, <2>1, <2>2
<1>6. Len(p \o t) \in 1..5
  BY <1>2 DEF Plain
<1>7. QED
  BY <1>5, <1>6 DEF Plain, t

LEMMA ProgramSteps ==
  ASSUME NEW op \in DOMAIN Program
  PROVE  \/ op \notin {"readSummary", "readSummaryLogFirst", "readCommit"} /\ Plain(Program[op])
         \/ op \in {"readSummary", "readSummaryLogFirst"}
            /\ Program[op] \in {<<"head", "log">>, <<"log", "head">>}
         \/ op = "readCommit" /\ Program[op] = <<"named", "pinned">>
<1>1. DOMAIN Program = Ops
  BY DEF Program, Ops
<1>2. CASE op \in {"readTree", "readDirectory", "readFile"}
  <2>1. Program[op] \in {<<"target", "read">>, <<"target", "read", "read">>}
    BY <1>2 DEF Program, InspectRepositoryTree, InspectDirectory, InspectFile
  <2>2. QED
    BY <1>2, <2>1, PlainSteps
<1>3. CASE op \in {"readLinguist", "readBlob", "readCompare", "search"}
  <2>1. Program[op] \in {<<"named", "read", "read">>, <<"read", "read">>, <<"named", "read">>}
    BY <1>3 DEF Program, ReadRepositoryLinguist, ReadRepositoryBlob, ReadRepositoryCompare, SearchRepository
  <2>2. QED
    BY <1>3, <2>1, PlainSteps
<1>4. CASE op \in {"readTreeLinguist", "listTree"}
  <2>1. /\ <<"target", "read">> \in Seq(StepKind) /\ Len(<<"target", "read">>) <= 2
        /\ <<"read">> \in Seq(StepKind) /\ Len(<<"read">>) <= 2
    BY DEF StepKind
  <2>2. /\ Plain(<<"target", "read">> \o <<"named", "read", "read">>)
        /\ Plain(<<"read">> \o <<"named", "read", "read">>)
    BY <2>1, PlainSteps, PlainFollows
  <2>3. \/ Program[op] = <<"target", "read">> \o <<"named", "read", "read">>
        \/ Program[op] = <<"read">> \o <<"named", "read", "read">>
    BY <1>4 DEF Program, InspectRepositoryTree, AttachLinguist, ListRepositoryTree, ReadRepositoryLinguist
  <2>4. QED
    BY <1>4, <2>2, <2>3
<1>5. CASE op \in {"readSummary", "readSummaryLogFirst"}
  BY <1>5 DEF Program, BuildRepositorySummary
<1>6. CASE op = "readCommit"
  BY <1>6 DEF Program, ReadRepositoryCommit
<1>7. CASE op \in {"readBlame", "listCommits"}
  <2>1. Program[op] \in {<<"read">>, <<"log">>}
    BY <1>7 DEF Program, ReadRepositoryBlame, ReadRepositoryCommits
  <2>2. QED
    BY <1>7, <2>1, PlainSteps
<1>8. QED
  BY <1>1, <1>2, <1>3, <1>4, <1>5, <1>6, <1>7 DEF Ops
LEMMA ProgramLength == \A op \in DOMAIN Program : Len(Program[op]) \in 1..5
<1> TAKE op \in DOMAIN Program
<1>1. Len(<<"head", "log">>) = 2 /\ Len(<<"log", "head">>) = 2 /\ Len(<<"named", "pinned">>) = 2
  OBVIOUS
<1>2. QED
  BY <1>1, ProgramSteps DEF Plain

-----------------------------------------------------------------------------
(* The step of a read.                                                     *)

LEMMA CommitType == RefsOK => \A ref \in Ref : CommitAt(ref) \in 0..MaxCommit
BY DEF RefsOK, Ref, CommitAt, Branch

\* A command tells of the commit that it is about, or of none.
LEMMA AnswersType == \A c \in 0..MaxCommit : \A t \in Answers(c) : t.commit \in {0, c} /\ t.commit \in 0..MaxCommit
BY InspectionAssumption DEF Answers, Failed, Silent

\* A read that has done its step, before it goes on to the next.
Stepped(l) ==
  /\ l.result = "running" /\ l.op \in DOMAIN Program /\ l.pc \in 1..Len(Program[l.op])
  /\ OfItsRef(l) /\ OfHead(l) /\ BornStays(l)
  /\ OfItsHash(l)

LEMMA PastKeeps ==
  ASSUME RefsOK, NEW l \in Look, Stepped(l)
  PROVE  Past(l) \in Look /\ ReadInv(Past(l))
<1> DEFINE C == CommitAt(l.resolved)
<1>1. C \in 0..MaxCommit
  BY CommitType DEF Look
<1>2. CASE l.pc = Len(Program[l.op])
  <2>1. Past(l) = [l EXCEPT !.result = "ok"]
    BY <1>2 DEF Past
  <2> DEFINE k == [l EXCEPT !.result = "ok"]
  <2>2. /\ k \in Look /\ k.result = "ok" /\ k.op = l.op /\ k.pc = l.pc /\ k.got = l.got /\ k.commit = l.commit
        /\ k.moved = l.moved /\ k.resolved = l.resolved /\ k.born = l.born
    BY DEF Look
  <2>3. AnswerOK(k)
    <3>1. CASE l.moved /\ l.op # "readCommit"
      BY <2>2, <3>1 DEF AnswerOK
    <3>2. CASE l.op = "readCommit"
      <4>1. l.commit \in 0..MaxCommit /\ l.got \subseteq {l.commit} /\ l.got \subseteq 1..MaxCommit
        BY <3>2 DEF Stepped, OfItsHash, Look
      <4>2. PICK c \in 1..MaxCommit : c = IF l.commit = 0 THEN 1 ELSE l.commit
        BY <4>1, InspectionAssumption
      <4>3. l.got \subseteq {c} /\ l.commit \in {0, c}
        BY <4>1, <4>2
      <4>4. QED
        BY <2>2, <4>2, <4>3 DEF AnswerOK
    <3>3. CASE ~l.moved
      <4>1. l.commit \in {0, C} /\ l.got \subseteq {C} /\ l.got \subseteq 1..MaxCommit
        BY <3>3 DEF Stepped, OfItsRef, Look
      <4>2. CASE C = 0
        <5>1. l.got = {} /\ l.commit = 0 /\ 1 \in 1..MaxCommit
          BY <4>1, <4>2, InspectionAssumption
        <5>2. QED
          BY <2>2, <5>1 DEF AnswerOK
      <4>3. CASE C # 0
        <5>1. C \in 1..MaxCommit
          BY <1>1, <4>3
        <5>2. QED
          BY <2>2, <4>1, <5>1 DEF AnswerOK
      <4>4. QED
        BY <4>2, <4>3
    <3>4. QED
      BY <3>1, <3>2, <3>3
  <2>4. UnderWay(k) /\ OfItsRef(k) /\ OfItsHash(k) /\ OfHead(k) /\ BornStays(k) /\ UnbornOK(k)
    BY <2>2 DEF Stepped, UnderWay, OfItsRef, OfItsHash, OfHead, BornStays, UnbornOK
  <2>5. QED
    BY <2>1, <2>2, <2>3, <2>4 DEF ReadInv
<1>3. CASE l.pc # Len(Program[l.op])
  <2>1. Past(l) = [l EXCEPT !.pc = l.pc + 1]
    BY <1>3 DEF Past
  <2>2. /\ l.pc + 1 \in 0..5 /\ l.pc + 1 \in 1..Len(Program[l.op]) /\ l.pc + 1 # 1
    <3> DEFINE n == Len(Program[l.op])
    <3>1. n \in 1..5 /\ l.pc \in 1..n /\ l.pc # n
      BY <1>3, ProgramLength DEF Stepped
    <3> HIDE DEF n
    <3>2. l.pc + 1 \in 0..5 /\ l.pc + 1 \in 1..n /\ l.pc + 1 # 1
      BY <3>1
    <3>3. QED
      BY <3>2 DEF n
  <2> DEFINE k == [l EXCEPT !.pc = l.pc + 1]
  <2>3. /\ k \in Look /\ k.result = l.result /\ k.op = l.op /\ k.pc = l.pc + 1 /\ k.got = l.got
        /\ k.commit = l.commit /\ k.moved = l.moved /\ k.resolved = l.resolved /\ k.born = l.born
    BY <2>2 DEF Look
  <2>4. UnderWay(k) /\ OfItsRef(k) /\ OfItsHash(k) /\ OfHead(k) /\ BornStays(k)
    BY <2>2, <2>3 DEF Stepped, UnderWay, OfItsRef, OfItsHash, OfHead, BornStays
  <2>5. UnbornOK(k) /\ AnswerOK(k)
    BY <2>3 DEF Stepped, UnbornOK, AnswerOK
  <2>6. QED
    BY <2>1, <2>3, <2>4, <2>5 DEF ReadInv
<1>4. QED
  BY <1>2, <1>3

\* A read that ends without an answer.
LEMMA EndsKeeps ==
  ASSUME NEW l \in Look, ReadInv(l), NEW result \in {"error", "missing", "unborn"}, NEW misread \in BOOLEAN,
         result = "unborn" => ~l.born \/ misread
  PROVE  /\ [l EXCEPT !.result = result, !.misread = misread] \in Look
         /\ ReadInv([l EXCEPT !.result = result, !.misread = misread])
<1> DEFINE k == [l EXCEPT !.result = result, !.misread = misread]
<1>1. /\ k \in Look /\ k.result = result /\ k.op = l.op /\ k.pc = l.pc /\ k.got = l.got
      /\ k.commit = l.commit /\ k.resolved = l.resolved /\ k.born = l.born /\ k.misread = misread
  BY DEF Look
<1>2. QED
  BY <1>1 DEF ReadInv, UnderWay, OfItsRef, OfItsHash, OfHead, BornStays, UnbornOK, AnswerOK

\* Where a read under way stands in its program.
LEMMA Standing ==
  ASSUME LookOK, ReadsInv, NEW r \in Reader, NEW s, At(r, s)
  PROVE  LET l == look[r] IN
         /\ l \in Look /\ ReadInv(l)
         /\ l.result = "running" /\ l.op \in DOMAIN Program /\ l.pc \in 1..Len(Program[l.op])
         /\ s = "target" => /\ l.op \notin {"readSummary", "readSummaryLogFirst", "readCommit"}
                            /\ l.commit = 0 /\ l.got = {}
         /\ s = "head" => l.op \in {"readSummary", "readSummaryLogFirst"}
         /\ s \in {"read", "log"} => l.op # "readCommit"
         /\ s = "named" /\ l.op = "readCommit" => l.commit = 0 /\ l.got = {}
         /\ s = "pinned" => l.op = "readCommit" /\ l.pc = 2
<1> DEFINE l == look[r]
<1>1. l \in Look /\ ReadInv(l)
  BY DEF LookOK, ReadsInv
<1>2. l.result = "running" /\ l.op \in DOMAIN Program /\ l.pc \in 1..Len(Program[l.op])
  BY <1>1 DEF At, Running, ReadInv, UnderWay
<1>3. Program[l.op][l.pc] = s /\ (l.pc = 1 => l.commit = 0 /\ l.got = {})
  BY <1>1, <1>2 DEF At, ReadInv, UnderWay
<1>4. CASE l.op \notin {"readSummary", "readSummaryLogFirst", "readCommit"} /\ Plain(Program[l.op])
  BY <1>1, <1>2, <1>3, <1>4 DEF Plain
<1>5. CASE /\ l.op \in {"readSummary", "readSummaryLogFirst"}
           /\ Program[l.op] \in {<<"head", "log">>, <<"log", "head">>}
  <2>1. s \in {"head", "log"}
    BY <1>2, <1>3, <1>5
  <2>2. QED
    BY <1>1, <1>2, <1>3, <1>5, <2>1
<1>6. CASE l.op = "readCommit" /\ Program[l.op] = <<"named", "pinned">>
  <2>1. (s = "named" /\ l.pc = 1) \/ (s = "pinned" /\ l.pc = 2)
    <3>1. l.pc \in 1..2
      BY <1>2, <1>6
    <3>2. <<"named", "pinned">>[l.pc] = s
      BY <1>3, <1>6
    <3>3. CASE l.pc = 1
      BY <3>2, <3>3
    <3>4. CASE l.pc = 2
      BY <3>2, <3>4
    <3>5. QED
      BY <3>1, <3>3, <3>4
  <2>2. QED
    BY <1>1, <1>2, <1>3, <1>6, <2>1
<1>7. QED
  BY <1>2, <1>4, <1>5, <1>6, ProgramSteps
LEMMA SetKeeps ==
  ASSUME RefsOK, LookOK, ReadsInv, NEW r \in Reader, NEW l \in Look, ReadInv(l), Set(r, l)
  PROVE  RefsOK' /\ LookOK' /\ ReadsInv'
<1>1. UNCHANGED <<tip, head, last>> /\ look' = [look EXCEPT ![r] = l]
  BY DEF Set
<1>2. RefsOK' /\ LookOK'
  BY <1>1 DEF RefsOK, LookOK
<1>3. \A k : ReadInv(k)' <=> ReadInv(k)
  BY <1>1 DEF ReadInv, UnderWay, OfItsRef, OfItsHash, OfHead, BornStays, UnbornOK, AnswerOK, CommitAt
<1>4. \A q \in Reader : look'[q] = IF q = r THEN l ELSE look[q]
  BY <1>1 DEF LookOK
<1>5. \A q \in Reader : ReadInv(look'[q])
  BY <1>4 DEF ReadsInv
<1>6. ReadsInv'
  <2> SUFFICES ASSUME NEW q \in Reader PROVE ReadInv(look[q])'
    BY DEF ReadsInv
  <2>1. PICK k : k = look'[q]
    OBVIOUS
  <2>2. ReadInv(k)'
    BY <1>3, <1>5, <2>1
  <2>3. QED
    BY <2>1, <2>2
<1>7. QED
  BY <1>2, <1>6

LEMMA AskKeeps ==
  ASSUME RefsOK, LookOK, ReadsInv, NEW r \in Reader, NEW op \in DOMAIN Program,
         NEW ref \in Branch \cup {"auto"}, Ask(r, op, ref)
  PROVE  RefsOK' /\ LookOK' /\ ReadsInv'
<1> DEFINE l == [Resting EXCEPT !.op = op, !.ref = ref, !.pc = 1, !.result = "running",
                                !.resolved = IF ref = "auto" THEN "HEAD" ELSE ref,
                                !.born = CommitAt("HEAD") # 0]
<1>1. /\ l.op = op /\ l.pc = 1 /\ l.result = "running" /\ l.commit = 0 /\ l.got = {}
      /\ l.resolved = (IF ref = "auto" THEN "HEAD" ELSE ref) /\ l.born = (CommitAt("HEAD") # 0)
  BY DEF Resting
<1>2. l \in Look
  <2>1. Resting \in Look
    BY InspectionAssumption DEF Resting, Look, Ref
  <2>2. ASSUME NEW k \in Look, NEW named \in Ref, NEW born \in BOOLEAN, NEW pc \in 0..5
        PROVE  [k EXCEPT !.op = op, !.ref = ref, !.pc = pc, !.result = "running", !.resolved = named,
                         !.born = born] \in Look
    BY DEF Look
  <2>3. 1 \in 0..5 /\ (IF ref = "auto" THEN "HEAD" ELSE ref) \in Ref /\ (CommitAt("HEAD") # 0) \in BOOLEAN
    BY DEF Ref
  <2>4. QED
    BY <2>1, <2>2, <2>3
<1>3. 1 \in 1..Len(Program[op])
  BY ProgramLength
<1>4. op = "readCommit" => l.got \subseteq {l.commit}
  BY <1>1
<1>5. op \in {"readSummary", "readSummaryLogFirst"} => l.resolved = "HEAD"
  BY <1>1 DEF Ask
<1> HIDE DEF l
<1>6. ReadInv(l)
  BY <1>1, <1>3, <1>4, <1>5
  DEF ReadInv, UnderWay, OfItsRef, OfItsHash, OfHead, BornStays, UnbornOK, AnswerOK
<1>7. Set(r, l)
  BY DEF Ask, l
<1>8. QED
  BY <1>2, <1>6, <1>7, SetKeeps

\* A target that resolves.
LEMMA ResolvedKeeps ==
  ASSUME RefsOK, LookOK, ReadsInv, NEW r \in Reader, At(r, "target"), NEW ref \in Ref,
         NEW c \in {0, CommitAt(ref)}, Resolved(r, ref, c)
  PROVE  RefsOK' /\ LookOK' /\ ReadsInv'
<1> DEFINE l == look[r]
           k == [l EXCEPT !.commit = c, !.resolved = ref, !.at = "start"]
<1>1. /\ l \in Look /\ ReadInv(l) /\ l.result = "running" /\ l.op \in DOMAIN Program
      /\ l.pc \in 1..Len(Program[l.op]) /\ l.got = {}
      /\ l.op \notin {"readSummary", "readSummaryLogFirst", "readCommit"}
  BY Standing
<1>2. c \in 0..MaxCommit
  BY CommitType, InspectionAssumption
<1>3. /\ k \in Look /\ k.result = "running" /\ k.op = l.op /\ k.pc = l.pc /\ k.got = {}
      /\ k.commit = c /\ k.resolved = ref /\ k.born = l.born
  BY <1>1, <1>2 DEF Look
<1>4. Set(r, Past(k))
  BY DEF Resolved
<1> HIDE DEF l, k
<1>5. Stepped(k)
  BY <1>1, <1>3 DEF Stepped, OfItsRef, OfItsHash, OfHead, BornStays, ReadInv
<1>6. QED
  BY <1>3, <1>4, <1>5, PastKeeps, SetKeeps

\* A target that is looked for elsewhere.
LEMMA LookElsewhere ==
  ASSUME RefsOK, LookOK, ReadsInv, NEW r \in Reader, At(r, "target"), NEW ref \in Ref,
         NEW at \in {"hasHead", "branch", "head"}, Set(r, [look[r] EXCEPT !.at = at, !.resolved = ref])
  PROVE  RefsOK' /\ LookOK' /\ ReadsInv'
<1> DEFINE l == look[r]
           k == [l EXCEPT !.at = at, !.resolved = ref]
<1>1. /\ l \in Look /\ ReadInv(l) /\ l.result = "running" /\ l.commit = 0 /\ l.got = {}
      /\ l.op \notin {"readSummary", "readSummaryLogFirst", "readCommit"}
  BY Standing
<1>2. /\ k \in Look /\ k.result = "running" /\ k.op = l.op /\ k.pc = l.pc /\ k.got = {}
      /\ k.commit = 0 /\ k.born = l.born
  BY <1>1 DEF Look
<1> HIDE DEF l
<1>3. ReadInv(k)
  <2> HIDE DEF k
  <2>1. QED
    BY <1>1, <1>2 DEF ReadInv, UnderWay, OfItsRef, OfItsHash, OfHead, BornStays, UnbornOK, AnswerOK
<1>4. QED
  BY <1>2, <1>3, SetKeeps DEF l

\* A read that ends; HEAD has no commit for it, or its look at HEAD failed.
LEMMA EndsHere ==
  ASSUME RefsOK, LookOK, ReadsInv, NEW r \in Reader, NEW s, At(r, s),
         Ends(r, "error") \/ Ends(r, "missing") \/ Unborn(r)
  PROVE  RefsOK' /\ LookOK' /\ ReadsInv'
<1>1. look[r] \in Look /\ ReadInv(look[r]) /\ look[r].result = "running"
  BY Standing
<1>2. PICK l \in Look : l = look[r]
  BY <1>1
<1>3. ASSUME NEW result \in {"error", "missing"}, Ends(r, result)
      PROVE  RefsOK' /\ LookOK' /\ ReadsInv'
  <2>1. l.misread \in BOOLEAN /\ [l EXCEPT !.result = result] = [l EXCEPT !.result = result, !.misread = l.misread]
    BY DEF Look
  <2>2. /\ [l EXCEPT !.result = result, !.misread = l.misread] \in Look
        /\ ReadInv([l EXCEPT !.result = result, !.misread = l.misread])
    BY <1>1, <1>2, <2>1, EndsKeeps
  <2>3. Set(r, [l EXCEPT !.result = result, !.misread = l.misread])
    BY <1>2, <1>3, <2>1 DEF Ends
  <2>4. QED
    BY <2>2, <2>3, SetKeeps
<1>4. CASE Unborn(r)
  <2>1. PICK n \in BOOLEAN : n = (CommitAt("HEAD") # 0)
    OBVIOUS
  <2>2. ~l.born \/ n
    BY <1>1, <1>2, <2>1 DEF ReadInv, BornStays
  <2>3. /\ [l EXCEPT !.result = "unborn", !.misread = n] \in Look
        /\ ReadInv([l EXCEPT !.result = "unborn", !.misread = n])
    BY <1>1, <1>2, <2>2, EndsKeeps
  <2>4. Set(r, [l EXCEPT !.result = "unborn", !.misread = n])
    BY <1>2, <1>4, <2>1 DEF Unborn
  <2>5. QED
    BY <2>3, <2>4, SetKeeps
<1>5. QED
  BY <1>3, <1>4
\* A command that changes what the read has named or got.
LEMMA SteppedKeeps ==
  ASSUME RefsOK, LookOK, ReadsInv, NEW r \in Reader, NEW s, At(r, s), NEW l \in Look,
         NEW commit \in 0..MaxCommit, NEW got \in SUBSET (1..MaxCommit),
         l = look[r], Set(r, Past([l EXCEPT !.commit = commit, !.got = got])),
         l.op = "readCommit" => got \subseteq {commit},
         ~l.moved => /\ commit \in {0, CommitAt(l.resolved)} /\ got \subseteq {CommitAt(l.resolved)}
  PROVE  RefsOK' /\ LookOK' /\ ReadsInv'
<1> DEFINE k == [l EXCEPT !.commit = commit, !.got = got]
<1>1. /\ ReadInv(l) /\ l.result = "running" /\ l.op \in DOMAIN Program /\ l.pc \in 1..Len(Program[l.op])
  BY Standing
<1>2. /\ k \in Look /\ k.result = "running" /\ k.op = l.op /\ k.pc = l.pc /\ k.got = got
      /\ k.commit = commit /\ k.resolved = l.resolved /\ k.born = l.born /\ k.moved = l.moved
  BY <1>1 DEF Look
<1> HIDE DEF k
<1>3. Stepped(k)
  BY <1>1, <1>2 DEF Stepped, OfItsRef, OfItsHash, OfHead, BornStays, ReadInv
<1>4. Set(r, Past(k))
  BY DEF k
<1>5. QED
  BY <1>2, <1>3, <1>4, PastKeeps, SetKeeps

\* A command that shows its commit, or nothing, or fails.
LEMMA ShowsKeeps ==
  ASSUME RefsOK, LookOK, ReadsInv, NEW r \in Reader, NEW s, At(r, s), NEW l \in Look, l = look[r],
         NEW c \in 0..MaxCommit, NEW t \in Answers(c), Shows(r, t),
         l.op = "readCommit" => c = l.commit,
         ~l.moved => c \in {0, CommitAt(l.resolved)}
  PROVE  RefsOK' /\ LookOK' /\ ReadsInv'
<1>1. t.commit \in {0, c} /\ t.commit \in 0..MaxCommit
  BY AnswersType
<1>2. CASE ~t.ok
  BY <1>2, EndsHere DEF Shows
<1>3. CASE t.ok
  <2>1. /\ l.commit \in 0..MaxCommit /\ l.got \in SUBSET (1..MaxCommit) /\ l.result = "running"
        /\ OfItsRef(l) /\ OfItsHash(l)
    BY Standing DEF Look, ReadInv
  <2>2. PICK g \in SUBSET (1..MaxCommit) : g = l.got \cup ({t.commit} \ {0})
    <3>1. {t.commit} \ {0} \subseteq 1..MaxCommit
      BY <1>1
    <3>2. l.got \cup ({t.commit} \ {0}) \in SUBSET (1..MaxCommit)
      BY <2>1, <3>1
    <3>3. QED
      BY <3>2
  <2>3. [l EXCEPT !.commit = l.commit, !.got = g] = [l EXCEPT !.got = @ \cup ({t.commit} \ {0})]
    BY <2>2 DEF Look
  <2>4. Set(r, Past([l EXCEPT !.commit = l.commit, !.got = g]))
    BY <1>3, <2>3 DEF Shows
  <2>5. l.op = "readCommit" => g \subseteq {l.commit}
    BY <1>1, <2>1, <2>2 DEF OfItsHash
  <2>6. ~l.moved => l.commit \in {0, CommitAt(l.resolved)} /\ g \subseteq {CommitAt(l.resolved)}
    BY <1>1, <2>1, <2>2 DEF OfItsRef
  <2>7. QED
    BY <2>1, <2>4, <2>5, <2>6, SteppedKeeps
<1>4. QED
  BY <1>2, <1>3

LEMMA CommandKeeps ==
  ASSUME RefsOK, LookOK, ReadsInv, NEW r \in Reader,
         Name(r) \/ ReadAtRef(r) \/ ReadAtCommit(r) \/ ReadLog(r) \/ ReadHead(r)
  PROVE  RefsOK' /\ LookOK' /\ ReadsInv'
<1> DEFINE C == CommitAt(look[r].resolved)
<1>0. PICK l \in Look : l = look[r]
  BY DEF LookOK
<1>1. C \in 0..MaxCommit /\ l.commit \in 0..MaxCommit /\ l.got \in SUBSET (1..MaxCommit)
  BY <1>0, CommitType DEF Look
<1>2. OfItsRef(l) /\ OfItsHash(l) /\ OfHead(l)
  BY <1>0 DEF ReadsInv, ReadInv
<1> HIDE DEF C
<1>3. CASE Name(r)
  <2>1. At(r, "named") /\ (l.op = "readCommit" => l.commit = 0 /\ l.got = {}) /\ l.result = "running"
    BY <1>0, <1>3, Standing DEF Name
  <2>2. PICK t \in Answers(C) :
          IF ~t.ok THEN Ends(r, "error")
          ELSE Set(r, Past([look[r] EXCEPT !.commit = IF @ = 0 THEN t.commit ELSE @]))
    BY <1>3 DEF Name, Told, C
  <2>3. t.commit \in {0, C} /\ t.commit \in 0..MaxCommit
    BY <1>1, AnswersType
  <2>4. CASE ~t.ok
    BY <2>1, <2>2, <2>4, EndsHere
  <2>5. CASE t.ok
    <3>1. PICK c \in 0..MaxCommit : c = IF l.commit = 0 THEN t.commit ELSE l.commit
      BY <1>1, <2>3
    <3>2. [l EXCEPT !.commit = c, !.got = l.got] = [l EXCEPT !.commit = IF @ = 0 THEN t.commit ELSE @]
      BY <3>1 DEF Look
    <3>3. Set(r, Past([l EXCEPT !.commit = c, !.got = l.got]))
      BY <1>0, <2>2, <2>5, <3>2
    <3>4. l.op = "readCommit" => l.got \subseteq {c}
      BY <2>1
    <3>5. ~l.moved => c \in {0, CommitAt(l.resolved)} /\ l.got \subseteq {CommitAt(l.resolved)}
      BY <1>0, <1>2, <2>1, <2>3, <3>1 DEF OfItsRef, C
    <3>6. QED
      BY <1>0, <1>1, <2>1, <3>3, <3>4, <3>5, SteppedKeeps
  <2>6. QED
    BY <2>4, <2>5
<1>4. CASE ReadAtRef(r)
  <2>1. At(r, "read") /\ l.op # "readCommit"
    BY <1>0, <1>4, Standing DEF ReadAtRef
  <2>2. PICK t \in Answers(C) : Shows(r, t)
    BY <1>4 DEF ReadAtRef, Told, C
  <2>3. C \in {0, CommitAt(l.resolved)}
    BY <1>0 DEF C
  <2>4. QED
    BY <1>0, <1>1, <2>1, <2>2, <2>3, ShowsKeeps
<1>5. CASE ReadAtCommit(r)
  <2>1. At(r, "pinned") /\ l.op = "readCommit" /\ l.result = "running"
    BY <1>0, <1>5, Standing DEF ReadAtCommit
  <2>2. PICK t \in Answers(l.commit) : Shows(r, t)
    BY <1>0, <1>5 DEF ReadAtCommit
  <2>3. ~l.moved => l.commit \in {0, CommitAt(l.resolved)}
    BY <1>2, <2>1 DEF OfItsRef
  <2>4. QED
    BY <1>0, <1>1, <2>1, <2>2, <2>3, ShowsKeeps
<1>6. CASE ReadLog(r)
  <2>1. At(r, "log") /\ l.op # "readCommit" /\ l.result = "running"
    BY <1>0, <1>6, Standing DEF ReadLog
  <2>2. PICK t \in Answers(C) :
          \/ Set(r, Past([look[r] EXCEPT !.got = {t.commit} \ {0}]))
          \/ Ends(r, "error")
    BY <1>6 DEF ReadLog, Told, C
  <2>3. t.commit \in {0, C} /\ t.commit \in 0..MaxCommit
    BY <1>1, AnswersType
  <2>4. CASE Set(r, Past([look[r] EXCEPT !.got = {t.commit} \ {0}]))
    <3>1. PICK g \in SUBSET (1..MaxCommit) : g = {t.commit} \ {0}
      <4>1. {t.commit} \ {0} \in SUBSET (1..MaxCommit)
        BY <2>3
      <4>2. QED
        BY <4>1
    <3>2. [l EXCEPT !.commit = l.commit, !.got = g] = [l EXCEPT !.got = {t.commit} \ {0}]
      BY <3>1 DEF Look
    <3>3. Set(r, Past([l EXCEPT !.commit = l.commit, !.got = g]))
      BY <1>0, <2>4, <3>2
    <3>4. ~l.moved => l.commit \in {0, CommitAt(l.resolved)} /\ g \subseteq {CommitAt(l.resolved)}
      BY <1>0, <1>2, <2>1, <2>3, <3>1 DEF OfItsRef, C
    <3>5. QED
      BY <1>0, <1>1, <2>1, <3>3, <3>4, SteppedKeeps
  <2>5. QED
    BY <2>1, <2>2, <2>4, EndsHere
<1>7. CASE ReadHead(r)
  <2>1. At(r, "head") /\ l.op \in {"readSummary", "readSummaryLogFirst"} /\ l.result = "running"
    BY <1>0, <1>7, Standing DEF ReadHead
  <2>2. l.resolved = "HEAD" /\ CommitAt("HEAD") = C
    BY <1>0, <1>2, <2>1 DEF OfHead, C
  <2>3. PICK t \in Answers(C) : Set(r, Past([l EXCEPT !.commit = t.commit]))
    BY <1>0, <1>7, <2>2 DEF ReadHead, Told
  <2>4. t.commit \in {0, C} /\ t.commit \in 0..MaxCommit
    BY <1>1, AnswersType
  <2>5. [l EXCEPT !.commit = t.commit, !.got = l.got] = [l EXCEPT !.commit = t.commit]
    BY DEF Look
  <2>6. Set(r, Past([l EXCEPT !.commit = t.commit, !.got = l.got]))
    BY <2>3, <2>5
  <2>7. ~l.moved => t.commit \in {0, CommitAt(l.resolved)} /\ l.got \subseteq {CommitAt(l.resolved)}
    BY <1>0, <1>2, <2>1, <2>4 DEF OfItsRef, C
  <2>8. QED
    BY <1>0, <1>1, <2>1, <2>4, <2>6, <2>7, SteppedKeeps
<1>8. QED
  BY <1>3, <1>4, <1>5, <1>6, <1>7
LEMMA ReadKeeps ==
  ASSUME RefsOK, LookOK, ReadsInv, NEW r \in Reader, Read(r)
  PROVE  RefsOK' /\ LookOK' /\ ReadsInv'
<1>0. PICK l \in Look : l = look[r]
  BY DEF LookOK
<1>1. l.resolved \in Ref /\ (l.ref # "auto" => l.ref \in Ref) /\ head \in Ref /\ "HEAD" \in Ref
  BY DEF Look, Ref, RefsOK
<1>2. ASSUME NEW at \in {"hasHead", "head"}
      PROVE  [l EXCEPT !.at = at] = [l EXCEPT !.at = at, !.resolved = l.resolved]
  BY DEF Look
<1>3. CASE \E op \in DOMAIN Program, ref \in Branch \cup {"auto"} : Ask(r, op, ref)
  BY <1>3, AskKeeps
<1>4. CASE TryRef(r)
  <2>1. At(r, "target") /\ l.ref \in Ref
    BY <1>0, <1>1, <1>4 DEF TryRef
  <2>2. PICK t \in Answers(CommitAt(l.ref)) :
          Resolved(r, l.ref, t.commit) \/ Set(r, [look[r] EXCEPT !.at = "hasHead"])
    BY <1>0, <1>4 DEF TryRef, Told
  <2>3. t.commit \in {0, CommitAt(l.ref)}
    BY <2>1, CommitType, AnswersType
  <2>4. CASE Resolved(r, l.ref, t.commit)
    BY <2>1, <2>3, <2>4, ResolvedKeeps
  <2>5. CASE Set(r, [look[r] EXCEPT !.at = "hasHead"])
    BY <1>0, <1>1, <1>2, <2>1, <2>5, LookElsewhere
  <2>6. QED
    BY <2>2, <2>4, <2>5
<1>5. CASE HasHead(r)
  BY <1>5, EndsHere DEF HasHead
<1>6. CASE ReadCurrentBranch(r)
  <2>1. At(r, "target")
    BY <1>6 DEF ReadCurrentBranch
  <2>2. CASE Set(r, [look[r] EXCEPT !.at = "branch", !.resolved = head])
    BY <1>1, <2>1, <2>2, LookElsewhere
  <2>3. CASE Set(r, [look[r] EXCEPT !.at = "head"])
    BY <1>0, <1>1, <1>2, <2>1, <2>3, LookElsewhere
  <2>4. QED
    BY <1>6, <2>2, <2>3 DEF ReadCurrentBranch
<1>7. CASE TryBranch(r)
  <2>1. At(r, "target")
    BY <1>7 DEF TryBranch
  <2>2. PICK t \in Answers(CommitAt(l.resolved)) :
          Resolved(r, l.resolved, t.commit) \/ Set(r, [look[r] EXCEPT !.at = "head"])
    BY <1>0, <1>7 DEF TryBranch, Told
  <2>3. t.commit \in {0, CommitAt(l.resolved)}
    BY <1>1, CommitType, AnswersType
  <2>4. CASE Resolved(r, l.resolved, t.commit)
    BY <1>1, <2>1, <2>3, <2>4, ResolvedKeeps
  <2>5. CASE Set(r, [look[r] EXCEPT !.at = "head"])
    BY <1>0, <1>1, <1>2, <2>1, <2>5, LookElsewhere
  <2>6. QED
    BY <2>2, <2>4, <2>5
<1>8. CASE TryHead(r)
  <2>1. At(r, "target")
    BY <1>8 DEF TryHead
  <2>2. PICK t \in Answers(CommitAt("HEAD")) : Resolved(r, "HEAD", t.commit) \/ Unborn(r)
    BY <1>8 DEF TryHead, Told
  <2>3. t.commit \in {0, CommitAt("HEAD")}
    BY <1>1, CommitType, AnswersType
  <2>4. CASE Resolved(r, "HEAD", t.commit)
    BY <1>1, <2>1, <2>3, <2>4, ResolvedKeeps
  <2>5. QED
    BY <2>1, <2>2, <2>4, EndsHere
<1>9. CASE Name(r) \/ ReadAtRef(r) \/ ReadAtCommit(r) \/ ReadLog(r) \/ ReadHead(r)
  BY <1>9, CommandKeeps
<1>10. QED
  BY <1>3, <1>4, <1>5, <1>6, <1>7, <1>8, <1>9 DEF Read

-----------------------------------------------------------------------------
(* The refs move.                                                          *)

\* A read notes the move of its ref, and is as good as before otherwise.
LEMMA MovesKeep ==
  ASSUME LookOK, ReadsInv, NEW b, Moves(b),
         \A ref \in Ref \ b : CommitAt(ref)' = CommitAt(ref),
         CommitAt("HEAD") # 0 => CommitAt("HEAD")' # 0
  PROVE  LookOK' /\ ReadsInv'
<1> DEFINE m(r) == Running(r) /\ (look[r].commit # 0 \/ look[r].got # {}) /\ look[r].resolved \in b
           k(r) == [look[r] EXCEPT !.moved = @ \/ m(r)]
<1>1. look' = [r \in Reader |-> k(r)]
  BY DEF Moves
<1>2. ASSUME NEW r \in Reader
      PROVE  look'[r] \in Look /\ ReadInv(look[r])'
  <2>1. PICK l \in Look : l = look[r]
    BY DEF LookOK
  <2>2. PICK n \in BOOLEAN : n <=> m(r)
    OBVIOUS
  <2>3. PICK x : x = [l EXCEPT !.moved = @ \/ n]
    OBVIOUS
  <2>4. x = look'[r]
    BY <1>1, <2>1, <2>2, <2>3
  <2>5. /\ x \in Look /\ x.result = l.result /\ x.op = l.op /\ x.pc = l.pc /\ x.got = l.got
        /\ x.commit = l.commit /\ x.resolved = l.resolved /\ x.born = l.born /\ x.misread = l.misread
        /\ x.moved <=> l.moved \/ n
    BY <2>3 DEF Look
  <2>6. ReadInv(l)
    BY <2>1 DEF ReadsInv
  <2>7. UnderWay(x)' /\ OfItsHash(x)' /\ OfHead(x)' /\ UnbornOK(x)' /\ AnswerOK(x)'
    BY <2>5, <2>6 DEF ReadInv, UnderWay, OfItsHash, OfHead, UnbornOK, AnswerOK
  <2>8. BornStays(x)'
    BY <2>5, <2>6 DEF ReadInv, BornStays
  <2>9. OfItsRef(x)'
    <3> SUFFICES ASSUME l.result = "running", ~l.moved, ~n
                 PROVE  l.commit \in {0, CommitAt(l.resolved)'} /\ l.got \subseteq {CommitAt(l.resolved)'}
      BY <2>5 DEF OfItsRef
    <3>1. l.commit \in {0, CommitAt(l.resolved)} /\ l.got \subseteq {CommitAt(l.resolved)}
      BY <2>6 DEF ReadInv, OfItsRef
    <3>2. CASE l.commit = 0 /\ l.got = {}
      BY <3>2
    <3>3. CASE l.commit # 0 \/ l.got # {}
      <4>1. l.resolved \in Ref \ b
        BY <2>1, <2>2, <3>3 DEF Running, Look
      <4>2. CommitAt(l.resolved)' = CommitAt(l.resolved)
        BY <4>1
      <4>3. QED
        BY <3>1, <4>2
    <3>4. QED
      BY <3>2, <3>3
  <2>10. ReadInv(x)'
    BY <2>7, <2>8, <2>9 DEF ReadInv
  <2>11. QED
    BY <2>4, <2>5, <2>10
<1>3. QED
  BY <1>1, <1>2 DEF LookOK, ReadsInv
LEMMA ReadsStep ==
  ASSUME RefsOK, LookOK, ReadsInv, ReadsNext \/ UNCHANGED reads
  PROVE  RefsOK' /\ LookOK' /\ ReadsInv'
<1>1. CASE \E r \in Reader : Read(r)
  BY <1>1, ReadKeeps
<1>2. ASSUME NEW b \in Branch, CommitOrPush(b) PROVE RefsOK' /\ LookOK' /\ ReadsInv'
  <2>1. /\ last \in 0..MaxCommit /\ last < MaxCommit /\ last' = last + 1
        /\ tip' = [tip EXCEPT ![b] = last + 1] /\ head' = head
    BY <1>2 DEF CommitOrPush, RefsOK
  <2>2. last + 1 \in 0..MaxCommit /\ last + 1 # 0
    BY <2>1, InspectionAssumption
  <2>3. RefsOK'
    BY <2>1, <2>2 DEF RefsOK
  <2>4. \A ref \in Ref \ ({b} \cup (IF b = head THEN {"HEAD"} ELSE {})) : CommitAt(ref)' = CommitAt(ref)
    BY <2>1 DEF CommitAt, RefsOK, Ref, Branch
  <2>5. CommitAt("HEAD") # 0 => CommitAt("HEAD")' # 0
    BY <2>1, <2>2 DEF CommitAt, RefsOK
  <2>6. QED
    BY <1>2, <2>3, <2>4, <2>5, MovesKeep DEF CommitOrPush
<1>3. ASSUME NEW b \in Branch, Checkout(b) PROVE RefsOK' /\ LookOK' /\ ReadsInv'
  <2>1. head' = b /\ tip[b] # 0 /\ UNCHANGED <<tip, last>>
    BY <1>3 DEF Checkout
  <2>2. \A ref \in Ref \ {"HEAD"} : CommitAt(ref)' = CommitAt(ref)
    BY <2>1 DEF CommitAt
  <2>3. CommitAt("HEAD")' # 0
    BY <2>1 DEF CommitAt
  <2>4. QED
    BY <1>3, <2>1, <2>2, <2>3, MovesKeep DEF Checkout, RefsOK
<1>4. ASSUME NEW b \in Branch, DeleteBranch(b) PROVE RefsOK' /\ LookOK' /\ ReadsInv'
  <2>1. b # head /\ tip' = [tip EXCEPT ![b] = 0] /\ UNCHANGED <<head, last>>
    BY <1>4 DEF DeleteBranch
  <2>2. \A ref \in Ref \ {b} : CommitAt(ref)' = CommitAt(ref)
    BY <2>1 DEF CommitAt, RefsOK, Ref, Branch
  <2>3. CommitAt("HEAD")' = CommitAt("HEAD")
    BY <2>1 DEF CommitAt, RefsOK
  <2>4. RefsOK'
    BY <2>1, InspectionAssumption DEF RefsOK
  <2>5. QED
    BY <1>4, <2>2, <2>3, <2>4, MovesKeep DEF DeleteBranch
<1>5. CASE UNCHANGED reads
  BY <1>5 DEF reads, RefsOK, LookOK, ReadsInv, ReadInv, UnderWay, OfItsRef, OfItsHash, OfHead,
     BornStays, UnbornOK, AnswerOK, CommitAt
<1>6. QED
  BY <1>1, <1>2, <1>3, <1>4, <1>5 DEF ReadsNext

-----------------------------------------------------------------------------
(* Archives.                                                               *)

LEMMA NoRequestType == NoRequest \in Req
<1>1. 0 \in Key
  BY InspectionAssumption DEF Key
<1>2. QED
  BY <1>1 DEF NoRequest, Req, Places

\* A request is given the record r, while what was made stays made.
LEMMA RequestsKeep ==
  ASSUME ReqOK, RequestsInv, NEW q \in Request, NEW r \in Req, RequestInv(r)', To(q, r),
         \A k \in Key : made[k] \subseteq made'[k]
  PROVE  ReqOK' /\ RequestsInv'
<1>1. req' = [req EXCEPT ![q] = r]
  BY DEF To
<1>2. \A p \in Request : req'[p] = IF p = q THEN r ELSE req[p]
  BY <1>1 DEF ReqOK
<1>3. ASSUME NEW x \in Req, RequestInv(x) PROVE RequestInv(x)'
  <2>1. \A a : Holds(x, a) => Holds(x, a)'
    BY DEF Holds, Req
  <2>2. Honest(x)'
    BY <1>3, <2>1 DEF RequestInv, Honest
  <2>3. QED
    BY <1>3, <2>2 DEF RequestInv, Begun, Kinds, Looking
<1>4. ASSUME NEW p \in Request PROVE RequestInv(req[p])'
  <2>1. PICK x : x = req'[p]
    OBVIOUS
  <2>2. RequestInv(x)'
    BY <1>2, <1>3, <2>1 DEF RequestsInv, ReqOK
  <2>3. QED
    BY <2>1, <2>2
<1>5. ReqOK'
  BY <1>1 DEF ReqOK
<1>6. QED
  BY <1>4, <1>5 DEF RequestsInv

\* ... and the files stay.
LEMMA ToKeeps ==
  ASSUME FilesOK, ReqOK, RequestsInv, CacheInv, NEW q \in Request, NEW r \in Req, RequestInv(r), To(q, r), KeepFiles
  PROVE  FilesOK' /\ ReqOK' /\ RequestsInv' /\ CacheInv'
<1>1. UNCHANGED <<data, entry, made>>
  BY DEF KeepFiles
<1>2. RequestInv(r)'
  <2>1. Honest(r)'
    BY <1>1 DEF RequestInv, Honest, Holds
  <2>2. QED
    BY <2>1 DEF RequestInv, Begun, Kinds, Looking
<1>3. FilesOK' /\ CacheInv'
  BY <1>1 DEF FilesOK, CacheInv
<1>4. QED
  BY <1>1, <1>2, <1>3, RequestsKeep

\* An answer: success with what was made, an error with a body for open only.
LEMMA AnswerKeeps ==
  ASSUME FilesOK, ReqOK, RequestsInv, CacheInv, NEW q \in Request, NEW r \in Req, Honest(r), r.sub = "",
         NEW result \in {"ok", "error"},
         result = "ok" => (Opens(r) => Holds(r, r.body)) /\ (r.body # NoFile => Holds(r, r.body)),
         result = "error" => r.body = NoFile \/ r.op = "open",
         Answer(q, r, result), KeepFiles
  PROVE  FilesOK' /\ ReqOK' /\ RequestsInv' /\ CacheInv'
<1> DEFINE x == [r EXCEPT !.at = "idle", !.result = result]
<1>0. x \in Req
  <2>1. ASSUME NEW at \in Places PROVE [r EXCEPT !.at = at, !.result = result] \in Req
    BY DEF Req
  <2>2. "idle" \in Places
    BY DEF Places
  <2>3. QED
    BY <2>1, <2>2
<1>1. /\ x.result = result /\ x.op = r.op /\ x.sub = "" /\ x.key = r.key
      /\ x.known = r.known /\ x.hit = r.hit /\ x.body = r.body
  BY DEF Req
<1>2. To(q, x)
  BY DEF Answer
<1> HIDE DEF x
<1>3. RequestInv(x)
  BY <1>1 DEF RequestInv, Begun, Kinds, Looking, Honest, Holds, Opens
<1>4. QED
  BY <1>0, <1>2, <1>3, ToKeeps

LEMMA AskArchiveKeeps ==
  ASSUME FilesOK, ReqOK, RequestsInv, CacheInv, NEW q \in Request,
         \/ \E op \in {"open", "read", "resolve", "prefix"}, ref \in {"HEAD", "dev"}, root \in Root : AskArchive(q, op, ref, root)
         \/ \E k \in Key : Cleanup(q, k)
  PROVE  FilesOK' /\ ReqOK' /\ RequestsInv' /\ CacheInv'
<1>0. NoRequest \in Req
  BY NoRequestType
<1>1. ASSUME NEW op \in {"open", "read", "resolve", "prefix"}, NEW ref \in {"HEAD", "dev"}, NEW root \in Root,
             AskArchive(q, op, ref, root)
      PROVE  FilesOK' /\ ReqOK' /\ RequestsInv' /\ CacheInv'
  <2> DEFINE x == [NoRequest EXCEPT !.op = op, !.ref = ref, !.root = root, !.at = "resolve", !.result = "running"]
  <2>1. /\ x.op = op /\ x.root = root /\ x.at = "resolve" /\ x.result = "running" /\ x.sub = ""
        /\ x.known = NoFile /\ x.hit = NoFile /\ x.body = NoFile
    BY DEF NoRequest
  <2>2. x \in Req
    <3>1. ASSUME NEW at \in Places, NEW result \in {"running"}, NEW o \in {"open", "read", "resolve", "prefix"}
          PROVE  [NoRequest EXCEPT !.op = o, !.ref = ref, !.root = root, !.at = at, !.result = result] \in Req
      BY <1>0 DEF Req
    <3>2. "resolve" \in Places
      BY DEF Places
    <3>3. QED
      BY <3>1, <3>2
  <2>3. To(q, x) /\ KeepFiles
    BY <1>1 DEF AskArchive
  <2> HIDE DEF x
  <2>4. RequestInv(x)
    BY <2>1 DEF RequestInv, Begun, Kinds, Looking, Honest
  <2>5. QED
    BY <2>2, <2>3, <2>4, ToKeeps
<1>2. ASSUME NEW k \in Key, Cleanup(q, k) PROVE FilesOK' /\ ReqOK' /\ RequestsInv' /\ CacheInv'
  <2> DEFINE x == [NoRequest EXCEPT !.op = "cleanup", !.key = k, !.at = "clean", !.result = "running"]
  <2>1. /\ x.op = "cleanup" /\ x.key = k /\ x.at = "clean" /\ x.result = "running" /\ x.sub = ""
        /\ x.known = NoFile /\ x.hit = NoFile /\ x.body = NoFile
    BY DEF NoRequest
  <2>2. x \in Req
    <3>1. ASSUME NEW at \in Places, NEW result \in {"running"}, NEW o \in {"cleanup"}, NEW n \in Key
          PROVE  [NoRequest EXCEPT !.op = o, !.key = n, !.at = at, !.result = result] \in Req
      BY <1>0 DEF Req
    <3>2. "clean" \in Places
      BY DEF Places
    <3>3. QED
      BY <3>1, <3>2
  <2>3. To(q, x) /\ KeepFiles
    BY <1>2 DEF Cleanup
  <2> HIDE DEF x
  <2>4. RequestInv(x)
    BY <2>1 DEF RequestInv, Begun, Kinds, Looking, Honest
  <2>5. QED
    BY <2>2, <2>3, <2>4, ToKeeps
<1>3. QED
  BY <1>1, <1>2

LEMMA ResolveKeeps ==
  ASSUME RefsOK, FilesOK, ReqOK, RequestsInv, CacheInv, NEW q \in Request, Resolve(q)
  PROVE  FilesOK' /\ ReqOK' /\ RequestsInv' /\ CacheInv'
<1>1. PICK r \in Req : r = req[q]
  BY DEF ReqOK
<1>2. RequestInv(r) /\ r.result = "running" /\ r.at = "resolve" /\ r.sub = "" /\ KeepFiles
  BY <1>1 DEF RequestsInv, Resolve, Stage
<1>3. CommitAt(r.ref) \in 0..MaxCommit
  BY CommitType DEF Ref, Branch, Req
<1>4. CASE Answer(q, r, "error")
  <2>1. Honest(r) /\ r.body = NoFile
    BY <1>2 DEF RequestInv, Begun
  <2>2. QED
    BY <1>2, <1>4, <2>1, AnswerKeeps
<1>5. ASSUME NEW t \in Answers(CommitAt(r.ref)),
             To(q, [r EXCEPT !.key = t.commit, !.at = IF r.op = "prefix" THEN "generate" ELSE "lookup"])
      PROVE  FilesOK' /\ ReqOK' /\ RequestsInv' /\ CacheInv'
  <2>1. PICK at \in {"generate", "lookup"} : at = IF r.op = "prefix" THEN "generate" ELSE "lookup"
    OBVIOUS
  <2>2. PICK c \in Key : c = t.commit
    BY <1>3, AnswersType DEF Key
  <2> DEFINE x == [r EXCEPT !.key = c, !.at = at]
  <2>3. To(q, x)
    BY <1>5, <2>1, <2>2
  <2>4. /\ x \in Req /\ x.result = "running" /\ x.op = r.op /\ x.sub = "" /\ x.key = c /\ x.at = at
        /\ x.known = r.known /\ x.hit = r.hit /\ x.body = r.body /\ x.root = r.root
    BY <1>2 DEF Req, Places
  <2> HIDE DEF x
  <2>5. RequestInv(x)
    BY <1>2, <2>1, <2>4 DEF RequestInv, Begun, Kinds, Looking, Honest
  <2>6. QED
    BY <1>2, <2>3, <2>4, <2>5, ToKeeps
<1>6. QED
  BY <1>1, <1>4, <1>5 DEF Resolve, Told

\* What was found goes to the caller of the lookup.
LEMMA FoundKeeps ==
  ASSUME FilesOK, ReqOK, RequestsInv, CacheInv, NEW q \in Request, NEW e \in Entry \cup {NoFile},
         req[q].result = "running", req[q].at \in {"lookup", "open", "clean"},
         e # NoFile => Holds(req[q], e.size), Found(q, e), KeepFiles
  PROVE  FilesOK' /\ ReqOK' /\ RequestsInv' /\ CacheInv'
<1>0. PICK r0 \in Req : r0 = req[q]
  BY DEF ReqOK
<1>1. RequestInv(r0) /\ r0.result = "running" /\ r0.at \in {"lookup", "open", "clean"}
  BY <1>0 DEF RequestsInv
<1>2. PICK r : r = [r0 EXCEPT !.sub = ""]
  OBVIOUS
<1>3. /\ r \in Req /\ r.sub = "" /\ r.op = r0.op /\ r.at = r0.at /\ r.result = "running" /\ r.key = r0.key
      /\ r.root = r0.root /\ r.known = r0.known /\ r.hit = r0.hit /\ r.body = r0.body
  BY <1>1, <1>2 DEF Req
<1>4. Honest(r) /\ Begun(r) /\ Kinds(r) /\ (e # NoFile => Holds(r, e.size))
  BY <1>0, <1>1, <1>3 DEF RequestInv, Begun, Kinds, Honest, Holds, Opens
<1>5. \/ r.op = "cleanup" /\ Answer(q, r, "ok")
      \/ r.op = "resolve" /\ Answer(q, [r EXCEPT !.known = e], "ok")
      \/ Opens(r) /\ r.at = "lookup" /\ To(q, [r EXCEPT !.known = e, !.at = "open"])
      \/ Opens(r) /\ r.at = "open"
         /\ To(q, [r EXCEPT !.hit = e, !.at = IF e = NoFile THEN "generate" ELSE "stream"])
  <2>1. r.op = "cleanup" \/ r.op = "resolve" \/ (Opens(r) /\ r.at = "lookup") \/ (Opens(r) /\ r.at = "open")
    BY <1>1, <1>3, <1>4 DEF Kinds, Opens
  <2>2. CASE r.op = "cleanup"
    BY <1>0, <1>2, <2>2 DEF Found
  <2>3. CASE r.op = "resolve"
    BY <1>0, <1>2, <2>3 DEF Found, AnswerResolve
  <2>4. CASE Opens(r) /\ r.at = "lookup"
    BY <1>0, <1>2, <2>4 DEF Found, Opens
  <2>5. CASE Opens(r) /\ r.at = "open"
    BY <1>0, <1>2, <2>5 DEF Found, Opens
  <2>6. QED
    BY <2>1, <2>2, <2>3, <2>4, <2>5
<1>11. r.body = NoFile
  BY <1>1, <1>3, <1>4 DEF Begun
<1>6. CASE r.op = "cleanup" /\ Answer(q, r, "ok")
  BY <1>3, <1>4, <1>6, <1>11, AnswerKeeps DEF Opens
<1>7. CASE r.op = "resolve" /\ Answer(q, [r EXCEPT !.known = e], "ok")
  <2> DEFINE x == [r EXCEPT !.known = e]
  <2>1. /\ x \in Req /\ x.sub = "" /\ x.op = r.op /\ x.at = r.at /\ x.result = r.result /\ x.key = r.key
        /\ x.known = e /\ x.hit = r.hit /\ x.body = r.body
    BY <1>3 DEF Req
  <2> HIDE DEF x
  <2>2. Honest(x)
    BY <1>3, <1>4, <2>1 DEF Honest, Holds
  <2>3. Answer(q, x, "ok")
    BY <1>7 DEF x
  <2>4. QED
    BY <1>3, <1>7, <1>11, <2>1, <2>2, <2>3, AnswerKeeps DEF Opens
<1>8. CASE Opens(r) /\ r.at = "lookup" /\ To(q, [r EXCEPT !.known = e, !.at = "open"])
  <2> DEFINE x == [r EXCEPT !.known = e, !.at = "open"]
  <2>1. /\ x.sub = "" /\ x.op = r.op /\ x.at = "open" /\ x.result = r.result /\ x.key = r.key /\ x.root = r.root
        /\ x.known = e /\ x.hit = r.hit /\ x.body = r.body
    BY <1>3 DEF Req
  <2>2. x \in Req
    <3>1. ASSUME NEW at \in Places PROVE [r EXCEPT !.known = e, !.at = at] \in Req
      BY <1>3 DEF Req
    <3>2. "open" \in Places
      BY DEF Places
    <3>3. QED
      BY <3>1, <3>2
  <2> HIDE DEF x
  <2>3. RequestInv(x)
    BY <1>3, <1>4, <1>8, <1>11, <2>1 DEF RequestInv, Begun, Kinds, Looking, Honest, Holds, Opens
  <2>4. QED
    BY <1>8, <2>2, <2>3, ToKeeps DEF x
<1>9. CASE /\ Opens(r) /\ r.at = "open"
           /\ To(q, [r EXCEPT !.hit = e, !.at = IF e = NoFile THEN "generate" ELSE "stream"])
  <2>1. PICK at \in {"generate", "stream"} : at = IF e = NoFile THEN "generate" ELSE "stream"
    OBVIOUS
  <2> DEFINE x == [r EXCEPT !.hit = e, !.at = at]
  <2>2. /\ x.sub = "" /\ x.op = r.op /\ x.at = at /\ x.result = r.result /\ x.key = r.key /\ x.root = r.root
        /\ x.known = r.known /\ x.hit = e /\ x.body = r.body
    BY <1>3 DEF Req
  <2>3. x \in Req
    <3>1. ASSUME NEW a \in Places PROVE [r EXCEPT !.hit = e, !.at = a] \in Req
      BY <1>3 DEF Req
    <3>2. at \in Places
      BY DEF Places
    <3>3. QED
      BY <3>1, <3>2
  <2>4. To(q, x)
    BY <1>9, <2>1
  <2> HIDE DEF x
  <2>5. RequestInv(x)
    BY <1>3, <1>4, <1>9, <1>11, <2>1, <2>2 DEF RequestInv, Begun, Kinds, Looking, Honest, Holds, Opens
  <2>6. QED
    BY <2>3, <2>4, <2>5, ToKeeps
<1>10. QED
  BY <1>5, <1>6, <1>7, <1>8, <1>9

LEMMA LookupKeeps ==
  ASSUME FilesOK, ReqOK, RequestsInv, CacheInv, NEW q \in Request, ReadEntry(q) \/ CheckData(q) \/ Removed(q)
  PROVE  FilesOK' /\ ReqOK' /\ RequestsInv' /\ CacheInv'
<1>0. PICK r \in Req : r = req[q]
  BY DEF ReqOK
<1>1. RequestInv(r) /\ KeepFiles
  BY <1>0 DEF RequestsInv, ReadEntry, CheckData, Removed
<1>2. r.result = "running" /\ r.at \in {"lookup", "open", "clean"}
  BY <1>0, <1>1 DEF RequestInv, Looking, ReadEntry, CheckData, Removed, Stage
<1>3. r.key \in Key
  BY DEF Req
<1>4. ASSUME NEW sub \in {"check", "remove"}, NEW hit \in Entry \cup {NoFile}, NEW rm \in SUBSET {"data", "entry"},
             hit # NoFile => Holds(r, hit.size), To(q, [r EXCEPT !.hit = hit, !.sub = sub, !.rm = rm])
      PROVE  FilesOK' /\ ReqOK' /\ RequestsInv' /\ CacheInv'
  <2> DEFINE x == [r EXCEPT !.hit = hit, !.sub = sub, !.rm = rm]
  <2>1. /\ x \in Req /\ x.sub = sub /\ x.op = r.op /\ x.at = r.at /\ x.result = r.result /\ x.key = r.key
        /\ x.root = r.root /\ x.known = r.known /\ x.hit = hit /\ x.body = r.body
    BY DEF Req
  <2> HIDE DEF x
  <2>2. RequestInv(x)
    BY <1>1, <1>2, <1>4, <2>1 DEF RequestInv, Begun, Kinds, Looking, Honest, Holds, Opens
  <2>3. To(q, x)
    BY <1>4 DEF x
  <2>4. QED
    BY <1>1, <2>1, <2>2, <2>3, ToKeeps
<1>5. r.hit # NoFile => Holds(r, r.hit.size)
  BY <1>1 DEF RequestInv, Honest
<1>6. CASE ReadEntry(q)
  <2>1. PICK e \in Entry \cup {NoFile} : e = entry[r.key]
    BY <1>3 DEF FilesOK
  <2>2. e # NoFile => Holds(r, e.size)
    BY <1>3, <2>1 DEF CacheInv, Holds
  <2>3. CASE Found(q, NoFile)
    BY <1>0, <1>1, <1>2, <2>3, FoundKeeps
  <2>4. CASE To(q, [r EXCEPT !.hit = e, !.sub = IF e.fresh THEN "check" ELSE "remove", !.rm = {"data", "entry"}])
    <3>1. PICK sub \in {"check", "remove"} : sub = IF e.fresh THEN "check" ELSE "remove"
      OBVIOUS
    <3>2. To(q, [r EXCEPT !.hit = e, !.sub = sub, !.rm = {"data", "entry"}])
      BY <2>4, <3>1
    <3>3. QED
      BY <1>4, <2>2, <3>2
  <2>5. QED
    BY <1>0, <1>6, <2>1, <2>3, <2>4 DEF ReadEntry
<1>7. CASE CheckData(q)
  <2>1. CASE Found(q, r.hit)
    <3>1. r.hit \in Entry \cup {NoFile}
      BY DEF Req
    <3>2. QED
      BY <1>0, <1>1, <1>2, <1>5, <2>1, <3>1, FoundKeeps
  <2>2. CASE To(q, [r EXCEPT !.sub = "remove"])
    <3>1. [r EXCEPT !.sub = "remove"] = [r EXCEPT !.hit = r.hit, !.sub = "remove", !.rm = r.rm]
      BY DEF Req
    <3>2. r.hit \in Entry \cup {NoFile} /\ r.rm \in SUBSET {"data", "entry"}
      BY DEF Req
    <3>3. QED
      BY <1>4, <1>5, <2>2, <3>1, <3>2
  <2>3. QED
    BY <1>0, <1>7, <2>1, <2>2 DEF CheckData
<1>8. CASE Removed(q)
  <2>1. Found(q, NoFile)
    BY <1>8 DEF Removed
  <2>2. QED
    BY <1>0, <1>1, <1>2, <2>1, FoundKeeps
<1>9. QED
  BY <1>6, <1>7, <1>8

LEMMA StreamKeeps ==
  ASSUME FilesOK, ReqOK, RequestsInv, CacheInv, NEW q \in Request, Stream(q)
  PROVE  FilesOK' /\ ReqOK' /\ RequestsInv' /\ CacheInv'
<1>0. PICK r \in Req : r = req[q]
  BY DEF ReqOK
<1>1. RequestInv(r) /\ KeepFiles /\ r.result = "running" /\ r.sub = "" /\ r.at = "stream"
  BY <1>0 DEF RequestsInv, Stream, Stage
<1>2. r.key \in Key /\ Honest(r) /\ r.body = NoFile
  BY <1>1 DEF RequestInv, Begun, Req
<1>3. CASE Answer(q, r, "error")
  BY <1>1, <1>2, <1>3, AnswerKeeps
<1>4. CASE data[r.key] # NoFile /\ Answer(q, [r EXCEPT !.body = data[r.key]], "ok")
  <2>1. PICK d \in Archive : d = data[r.key]
    BY <1>2, <1>4 DEF FilesOK
  <2>2. Holds(r, d) /\ d.of = r.key
    BY <1>2, <1>4, <2>1 DEF CacheInv, Holds
  <2> DEFINE x == [r EXCEPT !.body = d]
  <2>3. /\ x \in Req /\ x.sub = "" /\ x.op = r.op /\ x.result = "running" /\ x.key = r.key
        /\ x.known = r.known /\ x.hit = r.hit /\ x.body = d
    BY <1>1 DEF Req
  <2>4. Answer(q, x, "ok")
    BY <1>4, <2>1
  <2> HIDE DEF x
  <2>5. Honest(x) /\ Holds(x, x.body)
    BY <1>2, <2>2, <2>3 DEF Honest, Holds
  <2>6. QED
    BY <1>1, <2>3, <2>4, <2>5, AnswerKeeps
<1>5. QED
  BY <1>0, <1>3, <1>4 DEF Stream

LEMMA BodyType ==
  ASSUME NEW r \in Req, NEW b \in Archive \cup {NoFile}, NEW at \in Places
  PROVE  [r EXCEPT !.body = b, !.at = at] \in Req
BY DEF Req

\* A request that goes on, with or without a body.
LEMMA GoesOn ==
  ASSUME ReqOK, RequestsInv, NEW q \in Request, NEW r \in Req, r = req[q], r.result = "running", r.sub = "",
         r.at \in {"generate", "exit", "moveData", "moveEntry"},
         NEW at \in {"exit", "abort", "moveData", "moveEntry"}, NEW b \in Archive \cup {NoFile},
         b # NoFile => b.of = r.key, at = "exit" => b \in Archive /\ b.of = r.key /\ r.at = "generate",
         at # "exit" => Opens(r), at \in {"moveData", "moveEntry"} => b \in made'[r.key],
         To(q, [r EXCEPT !.body = b, !.at = at]), \A k \in Key : made[k] \subseteq made'[k]
  PROVE  ReqOK' /\ RequestsInv'
<1>1. RequestInv(r) /\ r.key \in Key
  BY DEF RequestsInv, Req
<1> DEFINE x == [r EXCEPT !.body = b, !.at = at]
<1>2. /\ x.sub = "" /\ x.op = r.op /\ x.at = at /\ x.result = "running" /\ x.key = r.key
      /\ x.root = r.root /\ x.known = r.known /\ x.hit = r.hit /\ x.body = b
  BY DEF Req
<1>3. x \in Req
  <2>1. at \in Places
    BY DEF Places
  <2>2. QED
    BY <2>1, BodyType
<1> HIDE DEF x
<1>4. Begun(x)' /\ Kinds(x)' /\ Looking(x)'
  BY <1>1, <1>2 DEF RequestInv, Begun, Kinds, Looking, Opens
<1>5. Honest(x)'
  <2>1. (x.known # NoFile => Holds(x, x.known.size)') /\ (x.hit # NoFile => Holds(x, x.hit.size)')
    BY <1>1, <1>2 DEF RequestInv, Honest, Holds
  <2>2. QED
    BY <1>2, <2>1 DEF Honest, Holds
<1>6. RequestInv(x)'
  BY <1>4, <1>5 DEF RequestInv
<1>7. QED
  BY <1>3, <1>6, RequestsKeep DEF x

\* The generation ends, fails, or is aborted.
LEMMA GenerateKeeps ==
  ASSUME FilesOK, ReqOK, RequestsInv, CacheInv, NEW q \in Request,
         Generate(q) \/ GenerateFails(q) \/ Abort(q)
  PROVE  FilesOK' /\ ReqOK' /\ RequestsInv' /\ CacheInv'
<1>0. PICK r \in Req : r = req[q]
  BY DEF ReqOK
<1>1. /\ RequestInv(r) /\ r.result = "running" /\ r.sub = "" /\ KeepFiles
      /\ r.at \in {"generate", "exit", "moveData", "abort"}
  BY <1>0 DEF RequestsInv, Generate, GenerateFails, Abort, Stage
<1>2. /\ r.key \in Key /\ r.op \in {"open", "read", "prefix"} /\ r.root \in Root /\ Honest(r)
      /\ r.body \in Archive \cup {NoFile} /\ (r.body # NoFile => r.body.of = r.key)
  BY <1>1 DEF RequestInv, Begun, Kinds, Honest, Req, Opens
<1>3. FilesOK' /\ CacheInv' /\ \A k \in Key : made[k] \subseteq made'[k]
  BY <1>1 DEF KeepFiles, FilesOK, CacheInv
<1>4. \A a \in GitArchive(q) : a \in Archive /\ a.of = r.key
  BY <1>0, <1>2 DEF GitArchive, Archive
<1>6. CASE Generate(q)
  <2>1. PICK a \in GitArchive(q) : To(q, [r EXCEPT !.body = a, !.at = "exit"])
    BY <1>0, <1>6 DEF Generate
  <2>2. r.at = "generate"
    BY <1>0, <1>6 DEF Generate, Stage
  <2>3. QED
    BY <1>0, <1>1, <1>3, <1>4, <2>1, <2>2, GoesOn
<1>7. CASE GenerateFails(q)
  <2>1. r.at \in {"generate", "exit", "moveData"}
    BY <1>0, <1>7 DEF GenerateFails, Stage
  <2>2. CASE Opens(r) /\ To(q, [r EXCEPT !.at = "abort"])
    <3>1. [r EXCEPT !.at = "abort"] = [r EXCEPT !.body = r.body, !.at = "abort"]
      BY DEF Req
    <3>2. QED
      BY <1>0, <1>1, <1>2, <1>3, <2>1, <2>2, <3>1, GoesOn
  <2>3. CASE ~Opens(r) /\ Answer(q, [r EXCEPT !.body = NoFile], "error")
    <3> DEFINE x == [r EXCEPT !.body = NoFile]
    <3>1. /\ x \in Req /\ x.sub = "" /\ x.op = r.op /\ x.result = "running" /\ x.key = r.key /\ x.at = r.at
          /\ x.known = r.known /\ x.hit = r.hit /\ x.body = NoFile
      BY <1>1 DEF Req
    <3>2. Answer(q, x, "error")
      BY <2>3
    <3>3. r.at \in {"generate", "exit"}
      BY <1>1, <2>1, <2>3 DEF RequestInv, Kinds
    <3> HIDE DEF x
    <3>4. Honest(x)
      BY <1>1, <1>2, <3>1, <3>3 DEF Honest, Holds
    <3>5. QED
      BY <1>1, <3>1, <3>2, <3>4, AnswerKeeps
  <2>4. QED
    BY <1>0, <1>7, <2>2, <2>3 DEF GenerateFails, Fails
<1>8. CASE Abort(q)
  <2>1. r.at = "abort" /\ Opens(r)
    BY <1>0, <1>1, <1>8 DEF Abort, Stage, RequestInv, Kinds
  <2>2. PICK b : /\ b = NoFile \/ (r.op # "read" /\ (b \in GitArchive(q) \/ b = r.body))
                 /\ Answer(q, [r EXCEPT !.body = b], "error")
    BY <1>0, <1>8 DEF Abort
  <2>3. b \in Archive \cup {NoFile} /\ (b # NoFile => b.of = r.key /\ r.op = "open")
    BY <1>2, <1>4, <2>1, <2>2 DEF Opens
  <2> DEFINE x == [r EXCEPT !.body = b]
  <2>4. /\ x \in Req /\ x.sub = "" /\ x.op = r.op /\ x.result = "running" /\ x.key = r.key /\ x.at = "abort"
        /\ x.known = r.known /\ x.hit = r.hit /\ x.body = b
    BY <1>1, <2>1, <2>3 DEF Req
  <2>5. Answer(q, x, "error")
    BY <2>2
  <2> HIDE DEF x
  <2>6. Honest(x)
    BY <1>2, <2>3, <2>4 DEF Honest, Holds
  <2>7. QED
    BY <1>1, <2>3, <2>4, <2>5, <2>6, AnswerKeeps
<1>9. QED
  BY <1>6, <1>7, <1>8

-----------------------------------------------------------------------------
(* Steps that change the files.                                            *)

\* One file of a key is replaced, by what was made for the key, or removed.
LEMMA FileKeeps ==
  ASSUME FilesOK, CacheInv, NEW k \in Key, UNCHANGED made,
         \/ /\ \E d \in made[k] \cup {NoFile} : data' = [data EXCEPT ![k] = d]
            /\ UNCHANGED entry
         \/ /\ \E e \in Entry \cup {NoFile} : /\ entry' = [entry EXCEPT ![k] = e]
                                              /\ e # NoFile => e.size \in made[k]
            /\ UNCHANGED data
  PROVE  FilesOK' /\ CacheInv'
<1>1. made[k] \subseteq Archive
  BY DEF FilesOK
<1>2. CASE /\ \E d \in made[k] \cup {NoFile} : data' = [data EXCEPT ![k] = d]
           /\ UNCHANGED entry
  BY <1>1, <1>2 DEF FilesOK, CacheInv
<1>3. CASE /\ \E e \in Entry \cup {NoFile} : /\ entry' = [entry EXCEPT ![k] = e]
                                              /\ e # NoFile => e.size \in made[k]
           /\ UNCHANGED data
  BY <1>1, <1>3 DEF FilesOK, CacheInv
<1>4. QED
  BY <1>2, <1>3

LEMMA FileStepKeeps ==
  ASSUME FilesOK, ReqOK, RequestsInv, CacheInv, NEW q \in Request,
         \/ \E file \in {"data", "entry"} : Remove(q, file)
         \/ MoveData(q) \/ MoveEntry(q) \/ MoveFails(q)
  PROVE  FilesOK' /\ ReqOK' /\ RequestsInv' /\ CacheInv'
<1>0. PICK r \in Req : r = req[q]
  BY DEF ReqOK
<1>1. RequestInv(r) /\ UNCHANGED made
  BY <1>0 DEF RequestsInv, Remove, MoveData, MoveEntry, MoveFails
<1>2. \A k \in Key : made[k] \subseteq made'[k]
  BY <1>1
<1>3. ASSUME NEW x \in Req, RequestInv(x) PROVE RequestInv(x)'
  BY <1>1, <1>3 DEF RequestInv, Begun, Kinds, Looking, Honest, Holds
<1>4. r.key \in Key
  BY DEF Req
<1>5. \A k \in Key : NoFile \in made[k] \cup {NoFile} /\ NoFile \in Entry \cup {NoFile}
  OBVIOUS
<1>6. ASSUME NEW file \in {"data", "entry"}, Remove(q, file) PROVE FilesOK' /\ ReqOK' /\ RequestsInv' /\ CacheInv'
  <2>1. r.key \in Key
    BY <1>4
  <2>2. FilesOK' /\ CacheInv'
    <3>1. CASE data' = [data EXCEPT ![r.key] = NoFile] /\ UNCHANGED entry
      BY <1>1, <2>1, <3>1, FileKeeps
    <3>2. CASE entry' = [entry EXCEPT ![r.key] = NoFile] /\ UNCHANGED data
      BY <1>1, <2>1, <3>2, FileKeeps
    <3>3. QED
      BY <1>0, <1>6, <3>1, <3>2 DEF Remove
  <2> DEFINE x == [r EXCEPT !.rm = @ \ {file}]
  <2>3. /\ x \in Req /\ x.sub = r.sub /\ x.op = r.op /\ x.at = r.at /\ x.result = r.result /\ x.key = r.key
        /\ x.root = r.root /\ x.known = r.known /\ x.hit = r.hit /\ x.body = r.body
    BY DEF Req
  <2>4. To(q, x)
    BY <1>0, <1>6 DEF Remove
  <2> HIDE DEF x
  <2>5. RequestInv(x)
    BY <1>1, <2>3 DEF RequestInv, Begun, Kinds, Looking, Honest, Holds, Opens
  <2>6. QED
    BY <1>2, <1>3, <2>2, <2>3, <2>4, <2>5, RequestsKeep
<1>7. CASE MoveData(q)
  <2>1. /\ r.result = "running" /\ r.at = "moveData" /\ r.sub = "" /\ Opens(r) /\ Holds(r, r.body)
        /\ r.body \in Archive \cup {NoFile} /\ (r.body # NoFile => r.body.of = r.key)
    BY <1>0, <1>1, <1>7 DEF MoveData, Stage, RequestInv, Kinds, Honest, Req
  <2>2. FilesOK' /\ CacheInv'
    <3>1. data' = [data EXCEPT ![r.key] = r.body] /\ UNCHANGED entry /\ r.body \in made[r.key] \cup {NoFile}
      BY <1>0, <1>7, <2>1 DEF MoveData, Holds
    <3>2. QED
      BY <1>1, <1>4, <3>1, FileKeeps
  <2>3. To(q, [r EXCEPT !.at = "moveEntry"]) /\ r.body \in made'[r.key]
    BY <1>0, <1>1, <1>7, <2>1 DEF MoveData, Holds
  <2>4. [r EXCEPT !.at = "moveEntry"] = [r EXCEPT !.body = r.body, !.at = "moveEntry"]
    BY DEF Req
  <2>5. QED
    BY <1>0, <1>2, <2>1, <2>2, <2>3, <2>4, GoesOn
<1>8. CASE MoveEntry(q)
  <2>1. r.result = "running" /\ r.at = "moveEntry" /\ r.sub = "" /\ Holds(r, r.body) /\ Honest(r)
    BY <1>0, <1>1, <1>8 DEF MoveEntry, Stage, RequestInv, Honest
  <2>2. PICK e : e = [size |-> r.body, fresh |-> TRUE]
    OBVIOUS
  <2>3. r.body \in Archive /\ r.body \in made[r.key]
    BY <1>4, <2>1 DEF Holds, FilesOK
  <2>4. e \in Entry /\ e.size = r.body
    BY <2>2, <2>3 DEF Entry
  <2>5. entry' = [entry EXCEPT ![r.key] = e] /\ UNCHANGED data /\ Answer(q, r, "ok")
    BY <1>0, <1>8, <2>2 DEF MoveEntry
  <2>6. FilesOK' /\ CacheInv'
    <3>1. e \in Entry \cup {NoFile} /\ (e # NoFile => e.size \in made[r.key])
      BY <2>3, <2>4
    <3>2. QED
      BY <1>1, <1>4, <2>5, <3>1, FileKeeps
  <2> DEFINE x == [r EXCEPT !.at = "idle", !.result = "ok"]
  <2>7. /\ x.sub = "" /\ x.op = r.op /\ x.result = "ok" /\ x.key = r.key
        /\ x.known = r.known /\ x.hit = r.hit /\ x.body = r.body
    BY <2>1 DEF Req
  <2>8. x \in Req
    <3>1. ASSUME NEW at \in Places PROVE [r EXCEPT !.at = at, !.result = "ok"] \in Req
      BY DEF Req
    <3>2. "idle" \in Places
      BY DEF Places
    <3>3. QED
      BY <3>1, <3>2
  <2>9. To(q, x)
    BY <2>5 DEF Answer
  <2> HIDE DEF x
  <2>10. RequestInv(x)
    BY <2>1, <2>7 DEF RequestInv, Begun, Kinds, Looking, Honest, Holds, Opens
  <2>11. QED
    BY <1>2, <1>3, <2>6, <2>8, <2>9, <2>10, RequestsKeep
<1>9. CASE MoveFails(q)
  <2>1. /\ r.result = "running" /\ r.at \in {"moveData", "moveEntry"} /\ r.sub = "" /\ Opens(r)
        /\ r.body \in Archive \cup {NoFile} /\ (r.body # NoFile => r.body.of = r.key)
        /\ To(q, [r EXCEPT !.at = "abort"])
    BY <1>0, <1>1, <1>9 DEF MoveFails, Stage, RequestInv, Kinds, Honest, Req
  <2>2. FilesOK' /\ CacheInv'
    <3>1. CASE data' = [data EXCEPT ![r.key] = NoFile] /\ UNCHANGED entry
      BY <1>1, <1>4, <3>1, FileKeeps
    <3>2. CASE entry' = [entry EXCEPT ![r.key] = NoFile] /\ UNCHANGED data
      BY <1>1, <1>4, <3>2, FileKeeps
    <3>3. QED
      BY <1>0, <1>9, <3>1, <3>2 DEF MoveFails
  <2>3. [r EXCEPT !.at = "abort"] = [r EXCEPT !.body = r.body, !.at = "abort"]
    BY DEF Req
  <2>4. QED
    BY <1>0, <1>2, <2>1, <2>2, <2>3, GoesOn
<1>10. QED
  BY <1>6, <1>7, <1>8, <1>9

\* git has succeeded: what it made is made.
LEMMA ExitKeeps ==
  ASSUME FilesOK, ReqOK, RequestsInv, CacheInv, NEW q \in Request, Exit(q)
  PROVE  FilesOK' /\ ReqOK' /\ RequestsInv' /\ CacheInv'
<1>0. PICK r \in Req : r = req[q]
  BY DEF ReqOK
<1>1. /\ RequestInv(r) /\ r.result = "running" /\ r.at = "exit" /\ r.sub = "" /\ UNCHANGED <<data, entry>>
  BY <1>0 DEF RequestsInv, Exit, Stage
<1>2. r.key \in Key /\ r.op \in {"open", "read", "prefix"} /\ Honest(r)
  BY <1>1 DEF RequestInv, Kinds, Req
<1>3. PICK a \in Archive : a = r.body /\ a.of = r.key /\ (a.whole \/ "kill" \in Faults)
  BY <1>0, <1>1 DEF RequestInv, Begun, Exit, Completes
<1>4. made' = [made EXCEPT ![r.key] = @ \cup {a}]
  BY <1>0, <1>3 DEF Exit
<1>5. /\ \A k \in Key : made'[k] = IF k = r.key THEN made[k] \cup {a} ELSE made[k]
      /\ made' \in [Key -> SUBSET Archive]
  BY <1>2, <1>4 DEF FilesOK
<1>6. FilesOK' /\ CacheInv'
  <2>1. FilesOK'
    BY <1>1, <1>5 DEF FilesOK
  <2>2. ASSUME NEW k \in Key PROVE IsFiniteSet(made'[k])
    <3>1. IsFiniteSet(made[k])
      BY DEF CacheInv
    <3>2. IsFiniteSet(made[k] \cup {a})
      BY <3>1, FS_AddElement
    <3>3. QED
      BY <1>5, <3>1, <3>2
  <2>3. ASSUME NEW k \in Key PROVE \A b \in made'[k] : b.of = k /\ (b.whole \/ "kill" \in Faults)
    BY <1>3, <1>5 DEF CacheInv
  <2>4. ASSUME NEW k \in Key PROVE /\ data[k] # NoFile => data[k] \in made'[k]
                                   /\ entry[k] # NoFile => entry[k].size \in made'[k]
    BY <1>5 DEF CacheInv
  <2>5. QED
    BY <1>1, <2>1, <2>2, <2>3, <2>4 DEF CacheInv
<1>7. /\ \A k \in Key : made[k] \subseteq made'[k]
      /\ r.body \in made'[r.key] /\ r.body \in Archive /\ r.body.of = r.key
  BY <1>2, <1>3, <1>5
<1>8. CASE r.op = "prefix" /\ Answer(q, r, "ok")
  <2> DEFINE x == [r EXCEPT !.at = "idle", !.result = "ok"]
  <2>1. /\ x.sub = "" /\ x.op = r.op /\ x.result = "ok" /\ x.key = r.key
        /\ x.known = r.known /\ x.hit = r.hit /\ x.body = r.body
    BY <1>1 DEF Req
  <2>2. x \in Req
    <3>1. ASSUME NEW at \in Places PROVE [r EXCEPT !.at = at, !.result = "ok"] \in Req
      BY DEF Req
    <3>2. "idle" \in Places
      BY DEF Places
    <3>3. QED
      BY <3>1, <3>2
  <2>3. To(q, x)
    BY <1>8 DEF Answer
  <2> HIDE DEF x
  <2>4. Begun(x)' /\ Kinds(x)' /\ Looking(x)'
    BY <2>1 DEF Begun, Kinds, Looking
  <2>5. Honest(x)'
    BY <1>2, <1>7, <2>1 DEF Honest, Holds
  <2>6. RequestInv(x)'
    BY <2>4, <2>5 DEF RequestInv
  <2>7. QED
    BY <1>6, <1>7, <2>2, <2>3, <2>6, RequestsKeep
<1>9. CASE Opens(r) /\ To(q, [r EXCEPT !.at = "moveData"])
  <2>1. [r EXCEPT !.at = "moveData"] = [r EXCEPT !.body = r.body, !.at = "moveData"]
    BY DEF Req
  <2>2. QED
    BY <1>0, <1>1, <1>6, <1>7, <1>9, <2>1, GoesOn
<1>10. QED
  BY <1>0, <1>2, <1>8, <1>9 DEF Exit, Opens

LEMMA ExpireKeeps ==
  ASSUME FilesOK, ReqOK, RequestsInv, CacheInv, NEW k \in Key, Expire(k)
  PROVE  FilesOK' /\ ReqOK' /\ RequestsInv' /\ CacheInv'
<1>1. entry[k] # NoFile /\ UNCHANGED <<data, req, made>>
  BY DEF Expire
<1>2. PICK e : e = [entry[k] EXCEPT !.fresh = FALSE]
  OBVIOUS
<1>3. entry[k] \in Entry /\ entry[k].size \in made[k]
  BY <1>1 DEF FilesOK, CacheInv
<1>4. e \in Entry /\ e.size \in made[k]
  BY <1>2, <1>3 DEF Entry
<1>5. entry' = [entry EXCEPT ![k] = e]
  BY <1>2 DEF Expire
<1>6. FilesOK' /\ CacheInv'
  BY <1>1, <1>4, <1>5, FileKeeps
<1>7. ReqOK' /\ RequestsInv'
  BY ZenonT(30), <1>1 DEF ReqOK, RequestsInv, RequestInv, Begun, Kinds, Looking, Honest, Holds
<1>8. QED
  BY <1>6, <1>7

LEMMA CrashKeeps ==
  ASSUME FilesOK, ReqOK, RequestsInv, CacheInv, Crash
  PROVE  FilesOK' /\ ReqOK' /\ RequestsInv' /\ CacheInv'
<1>1. PICK x : x = [NoRequest EXCEPT !.result = "error"]
  OBVIOUS
<1>2. x \in Req
  <2>1. NoRequest \in Req
    BY NoRequestType
  <2>2. QED
    BY <1>1, <2>1 DEF Req
<1>3. x.result = "error" /\ x.sub = "" /\ x.known = NoFile /\ x.hit = NoFile /\ x.body = NoFile
  BY <1>1 DEF NoRequest
<1>4. /\ req' = [q \in Request |-> IF req[q].result = "running" THEN x ELSE req[q]]
      /\ UNCHANGED <<data, entry, made>>
  BY <1>1 DEF Crash, KeepFiles
<1>5. FilesOK' /\ CacheInv'
  BY <1>4 DEF FilesOK, CacheInv
<1>6. ReqOK'
  BY <1>2, <1>4 DEF ReqOK
<1>7. ASSUME NEW q \in Request PROVE RequestInv(req[q])'
  <2>1. PICK y : y = req'[q]
    OBVIOUS
  <2>2. RequestInv(x)' /\ RequestInv(req[q])
    BY <1>3 DEF RequestsInv, RequestInv, Begun, Kinds, Looking, Honest
  <2>3. CASE y = x
    BY <2>1, <2>2, <2>3
  <2>4. PICK z : z = req[q]
    OBVIOUS
  <2>5. CASE y = z
    <3>1. RequestInv(z)'
      BY <1>4, <2>2, <2>4 DEF RequestInv, Begun, Kinds, Looking, Honest, Holds
    <3>2. QED
      BY <2>1, <2>5, <3>1
  <2>6. QED
    BY <1>4, <2>1, <2>3, <2>4, <2>5
<1>8. QED
  BY <1>5, <1>6, <1>7 DEF RequestsInv

LEMMA ArchivesStep ==
  ASSUME RefsOK, FilesOK, ReqOK, RequestsInv, CacheInv, ArchivesNext \/ UNCHANGED archives
  PROVE  FilesOK' /\ ReqOK' /\ RequestsInv' /\ CacheInv'
<1>1. ASSUME NEW q \in Request, ArchiveStep(q) PROVE FilesOK' /\ ReqOK' /\ RequestsInv' /\ CacheInv'
  <2>1. CASE \/ \E op \in {"open", "read", "resolve", "prefix"}, ref \in {"HEAD", "dev"}, root \in Root : AskArchive(q, op, ref, root)
             \/ \E k \in Key : Cleanup(q, k)
    BY <2>1, AskArchiveKeeps
  <2>2. CASE Resolve(q)
    BY <2>2, ResolveKeeps
  <2>3. CASE ReadEntry(q) \/ CheckData(q) \/ Removed(q)
    BY <2>3, LookupKeeps
  <2>4. CASE \/ \E file \in {"data", "entry"} : Remove(q, file)
             \/ MoveData(q) \/ MoveEntry(q) \/ MoveFails(q)
    BY <2>4, FileStepKeeps
  <2>5. CASE Stream(q)
    BY <2>5, StreamKeeps
  <2>6. CASE Generate(q) \/ GenerateFails(q) \/ Abort(q)
    BY <2>6, GenerateKeeps
  <2>7. CASE Exit(q)
    BY <2>7, ExitKeeps
  <2>8. QED
    BY <1>1, <2>1, <2>2, <2>3, <2>4, <2>5, <2>6, <2>7 DEF ArchiveStep
<1>2. CASE UNCHANGED archives
  BY ZenonT(30), <1>2 DEF archives, FilesOK, ReqOK, RequestsInv, RequestInv, Begun, Kinds, Looking, Honest, Holds, CacheInv
<1>3. QED
  BY <1>1, <1>2, ExpireKeeps, CrashKeeps DEF ArchivesNext

-----------------------------------------------------------------------------
(* The invariant, and what follows from it.                                *)

LEMMA InitIInv == Init => IInv
<1> SUFFICES ASSUME Init PROVE IInv
  OBVIOUS
<1>1. RefsOK
  BY InspectionAssumption DEF Init, RefsInit, RefsOK, Branch
<1>2. PICK l : l = Resting
  OBVIOUS
<1>3. l \in Look /\ l.result = "idle" /\ l.op = "none"
  BY <1>2, InspectionAssumption DEF Resting, Look, Ref
<1>4. ReadInv(l)
  BY <1>3 DEF ReadInv, UnderWay, OfItsRef, OfItsHash, OfHead, BornStays, UnbornOK, AnswerOK
<1>5. LookOK /\ ReadsInv
  BY <1>2, <1>3, <1>4 DEF Init, LookOK, ReadsInv
<1>6. PICK x : x = NoRequest
  OBVIOUS
<1>7. x \in Req
  <2>1. NoRequest \in Req
    BY NoRequestType
  <2>2. QED
    BY <1>6, <2>1
<1>8. RequestInv(x)
  BY <1>6 DEF NoRequest, RequestInv, Begun, Kinds, Looking, Honest
<1>9. ReqOK /\ RequestsInv
  BY <1>6, <1>7, <1>8 DEF Init, ReqOK, RequestsInv
<1>10. FilesOK
  BY DEF Init, CacheInit, FilesOK
<1>11. CacheInv
  BY FS_EmptySet DEF Init, CacheInit, CacheInv
<1>12. QED
  BY <1>1, <1>5, <1>9, <1>10, <1>11 DEF IInv

LEMMA NextKeeps == IInv /\ [Next]_vars => IInv'
<1> SUFFICES ASSUME IInv, [Next]_vars PROVE IInv'
  OBVIOUS
<1>1. (ReadsNext \/ UNCHANGED reads) /\ (ArchivesNext \/ UNCHANGED archives)
  BY DEF Next, vars
<1>2. RefsOK' /\ LookOK' /\ ReadsInv'
  BY <1>1, ReadsStep DEF IInv
<1>3. FilesOK' /\ ReqOK' /\ RequestsInv' /\ CacheInv'
  BY <1>1, ArchivesStep DEF IInv
<1>4. QED
  BY <1>2, <1>3 DEF IInv

LEMMA Invariance == Spec => []IInv
BY InitIInv, NextKeeps, PTL DEF Spec

\* Reads, files, entries and requests have their types.
THEOREM TypeCorrect == Spec => []TypeOK
<1>1. IInv => TypeOK
  <2> SUFFICES ASSUME IInv PROVE TypeOK
    OBVIOUS
  <2>1. LookTypeOK
    <3>1. ASSUME NEW r \in Reader
          PROVE  /\ look[r].op \in DOMAIN Program \cup {"none"} /\ look[r].pc \in 0..5
                 /\ look[r].ref \in Branch \cup {"auto"} /\ look[r].resolved \in Branch \cup {"HEAD"}
                 /\ look[r].commit \in 0..MaxCommit /\ look[r].got \subseteq 1..MaxCommit
                 /\ look[r].result \in {"idle", "running", "ok", "error", "missing", "unborn"}
      BY DEF IInv, LookOK, Look, Ref
    <3>2. QED
      BY <3>1 DEF IInv, RefsOK, LookTypeOK
  <2>2. ASSUME NEW q \in Request
        PROVE  /\ req[q].op \in {"none", "open", "read", "resolve", "prefix", "cleanup"} /\ req[q].rm \subseteq {"data", "entry"}
               /\ req[q].sub \in {"", "check", "remove"} /\ req[q].key \in 0..MaxCommit
               /\ req[q].known \in Entry \cup {NoFile} /\ req[q].hit \in Entry \cup {NoFile}
               /\ req[q].body \in Archive \cup {NoFile} /\ req[q].result \in {"idle", "running", "ok", "error"}
    BY DEF IInv, ReqOK, Req, Key
  <2>3. QED
    BY <2>1, <2>2 DEF IInv, FilesOK, TypeOK
<1>2. QED
  BY <1>1, Invariance, PTL

\* For any readers and any number of commits, whatever commands fail: a repository whose
\* HEAD had a commit when the read began is called unborn only when the last command
\* failed to tell of it (inspection/target.ts:35, 132).
THEOREM UnbornWasUnbornHolds == Spec => []UnbornWasUnborn
<1>1. IInv => UnbornWasUnborn
  BY DEF IInv, ReadsInv, ReadInv, UnbornOK, UnbornWasUnborn
<1>2. QED
  BY <1>1, Invariance, PTL

\* For any readers and any number of commits: an answer is of one commit, which it
\* names if it names any, unless its ref moved meanwhile; always when the
\* commands take the hash (inspect/history.ts:49).
THEOREM AnswerIsOfItsCommitHolds == Spec => []AnswerIsOfItsCommit
<1>1. IInv => AnswerIsOfItsCommit
  BY DEF IInv, ReadsInv, ReadInv, AnswerOK, AnswerIsOfItsCommit
<1>2. QED
  BY <1>1, Invariance, PTL

\* For any number of requests and keys: what the cache holds or the service answers with
\* success was generated for its commit, and what an open request gets before it fails is
\* of its commit (archive/open.ts:166, 174).
THEOREM ArchivesAreMadeHolds == Spec => []ArchivesAreMade
<1>1. IInv => ArchivesAreMade
  <2> SUFFICES ASSUME IInv PROVE ArchivesAreMade
    OBVIOUS
  <2>1. ASSUME NEW q \in Request, req[q].body # NoFile
        PROVE  /\ req[q].body.of = req[q].key
               /\ req[q].result = "ok" => req[q].body \in made[req[q].key]
               /\ req[q].result = "error" => req[q].op = "open"
    BY <2>1 DEF IInv, RequestsInv, RequestInv, Honest, Holds
  <2>2. QED
    BY <2>1 DEF IInv, CacheInv, ArchivesAreMade
<1>2. QED
  BY <1>1, Invariance, PTL

\* For any number of requests and keys: the announced length is that of the body, unless
\* archives that differ were made for the key (archive_cache_filesystem.ts:132).
THEOREM LengthFitsHolds == Spec => []LengthFits
<1>1. IInv => LengthFits
  <2> SUFFICES ASSUME IInv, NEW q \in Request, Opens(req[q]), req[q].result = "ok", Length(q) # NoFile,
                      Length(q).size # req[q].body
               PROVE  Cardinality(made[req[q].key]) > 1
    BY DEF LengthFits
  <2>1. PICK r \in Req : r = req[q]
    BY DEF IInv, ReqOK
  <2>2. Honest(r) /\ Opens(r) /\ r.result = "ok" /\ r.key \in Key
    BY <2>1 DEF IInv, RequestsInv, RequestInv, Req
  <2>3. PICK a : a = Length(q).size
    OBVIOUS
  <2>4. Holds(r, a) /\ Holds(r, r.body) /\ a # r.body
    BY <2>1, <2>2, <2>3 DEF Length, Honest
  <2>5. IsFiniteSet(made[r.key]) /\ {a, r.body} \subseteq made[r.key]
    BY <2>2, <2>4 DEF Holds, IInv, CacheInv
  <2>6. IsFiniteSet({a, r.body}) /\ Cardinality({a, r.body}) = 2
    <3>1. IsFiniteSet({a}) /\ Cardinality({a}) = 1
      BY FS_Singleton
    <3>2. {a, r.body} = {a} \cup {r.body} /\ r.body \notin {a}
      BY <2>4
    <3>3. IsFiniteSet({a} \cup {r.body}) /\ Cardinality({a} \cup {r.body}) = Cardinality({a}) + 1
      BY <3>1, <3>2, FS_AddElement
    <3>4. QED
      BY <3>1, <3>2, <3>3
  <2>7. Cardinality({a, r.body}) <= Cardinality(made[r.key])
    BY <2>5, FS_Subset
  <2>8. Cardinality(made[r.key]) \in Nat
    BY <2>5, FS_CardinalityType
  <2>9. QED
    BY <2>1, <2>6, <2>7, <2>8
<1>2. QED
  BY <1>1, Invariance, PTL
===============================================================================
