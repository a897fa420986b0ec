--------------------------- MODULE PushTriggersProofs ---------------------------
(***************************************************************************)
(* Proofs about Transports and PushTriggers, for any number of requests    *)
(* and commits and any contents of the workflow directory: type            *)
(* correctness, that a request is audited once, that the definition a run  *)
(* was queued for and starts with is that of the commit it checks out,     *)
(* that a trigger queues its workflows once and in their order, and that   *)
(* the search for cycles, whose correctness is proved here, lets none be   *)
(* queued.                                                                 *)
(***************************************************************************)
EXTENDS PushTriggers, SequenceTheorems, FiniteSetTheorems, WellFoundedInduction, TLAPS

-----------------------------------------------------------------------------
(* Requests.                                                               *)

Via == {"http", "ssh", "none"}
Services == {"push", "fetch", "advert", "none"}
Places == {"idle", "asking", "serving", "ended", "over"}
Child == {"none", "up", "gone", "unstarted", "never"}
Status == {200, 403, 404, 500, 502}
Outcome == {"none", "completed", "denied", "not_found", "failed", "rejected"}
Req == [via : Via, service : Services, branch : Ref, at : Places, pc : 0..6, child : Child,
        status : Status, headers : BOOLEAN, aborted : BOOLEAN, threw : BOOLEAN, tries : 0..Tries,
        pushed : 0..MaxCommit, audits : Nat, outcome : Outcome]
ReqOK == req \in [Request -> Req]
RefsOK == tip \in [Ref -> 0..MaxCommit] /\ head \in Branch /\ last \in 0..MaxCommit

\* How far a request is: who ends by a response, and where its process is.
Placed(r) ==
  /\ r.at = "idle" => r.via = "none"
  /\ r.at \in {"asking", "serving", "ended"} => r.via # "none"
  /\ r.at = "asking" => r.pc \in 1..Len(Stages[r.via])
  /\ r.at = "ended" => r.via = "http"
  /\ r.at \in {"idle", "asking"} => r.child = "none"
  /\ r.at = "serving" => r.child = "up" \/ (r.child = "unstarted" /\ r.via = "ssh")
  /\ r.child = "up" => r.at = "serving"
  /\ r.child = "unstarted" => r.via # "none" /\ (r.via = "http" => r.at \in {"ended", "over"})
                                             /\ (r.via = "ssh" => r.at = "serving")
  /\ r.threw => r.child = "none" /\ r.at \in {"ended", "over"}
  /\ r.via = "ssh" /\ r.aborted => r.at = "over" /\ r.child = "none"

\* How often a request was audited, apart from what it was turned down for:
\* AuditedOnce, and how many there were before the end.
Own(r) ==
  IF r.via = "none" THEN 0
  ELSE IF r.at = "over" THEN
         IF r.threw \/ (r.via = "ssh" /\ r.aborted) THEN 0
         ELSE IF r.via = "ssh" /\ r.child = "never" THEN 2 ELSE 1
  ELSE IF r.via = "ssh" /\ r.child = "unstarted" THEN 1 ELSE 0
Audits(r) == r.audits = r.tries + Own(r)

\* What most steps leave of a request.
Alike(x, r) ==
  x.via = r.via /\ x.threw = r.threw /\ x.tries = r.tries /\ (r.via = "ssh" => x.aborted = r.aborted)

RequestsInv == \A q \in Request : Placed(req[q]) /\ Audits(req[q])

-----------------------------------------------------------------------------
(* Triggers and runs.                                                      *)

Kind == {"none", "push", "fetch", "release.update", "manual"}
Found == [of : 1..MaxCommit, id : Nat]
Point == {"none", "commit", "record", "tag", "target", "list", "show", "queue", "done", "lost"}
Trig == [kind : Kind, at : Point,
         branch : Ref \cup {""}, commit : 0..MaxCommit, paths : SUBSET Nat, listed : SUBSET Found,
         fault : BOOLEAN, torn : BOOLEAN, moved : BOOLEAN]
Run == [by : Request, kind : Kind, id : Nat, of : 1..MaxCommit, ref : Ref, commit : 1..MaxCommit,
        started : 0..MaxCommit, moved : BOOLEAN]
TrigOK == dir \in Dir /\ trig \in [Request -> Trig]
RunsOK == runs \subseteq Run

\* A trigger whose ref has stayed is of the commit the ref is at, and what it has
\* listed is in that commit; that of a release is of the commit HEAD was at.
Stayed(t) == ~t.moved /\ ~t.torn
OfItsRef(t) == Stayed(t) /\ t.kind # "release.update" => t.commit = tip[t.branch]
ListedHere(t) == \A w \in t.listed : HasFile(w.of, w.id) /\ (Stayed(t) => w.of = tip[t.branch])

TrigInv(t) ==
  /\ t.kind = "release.update" => t.branch = "v1"
  /\ t.at = "commit" => t.branch \in Ref /\ (t.torn \/ t.branch = head)
  /\ t.at \in {"none", "commit"} => t.commit = 0
  /\ t.at \in {"none", "commit", "record", "target", "list"} => t.listed = {}
  /\ t.at \in {"record", "target"} /\ t.commit # 0 => t.branch \in Ref /\ OfItsRef(t)
  /\ t.at \in {"list", "show", "queue"} => t.branch \in Ref /\ t.commit # 0 /\ OfItsRef(t) /\ ListedHere(t)

RunInv(x) ==
  /\ HasFile(x.of, x.id)
  /\ x.kind = "release.update" => x.ref = "v1"
  /\ ~x.moved => /\ x.of = tip[x.ref] /\ x.started \in {0, tip[x.ref]}
                 /\ x.kind # "release.update" => x.commit = tip[x.ref]

TrigsInv == \A q \in Request : TrigInv(trig[q])
RunsInv == \A x \in runs : RunInv(x)

IInv == RefsOK /\ ReqOK /\ RequestsInv /\ TrigOK /\ TrigsInv /\ RunsOK /\ RunsInv

-----------------------------------------------------------------------------
(* The steps of a request.                                                 *)

LEMMA StageCount == Len(Stages["http"]) = 6 /\ Len(Stages["ssh"]) = 4
BY DEF Stages

LEMMA NoCommit == MaxCommit \in Nat /\ 0 \in 0..MaxCommit /\ \A c \in 0..MaxCommit : c # 0 => c \in 1..MaxCommit
<1>1. MaxCommit \in Nat
  BY TriggersAssumption
<1>2. QED
  BY <1>1

LEMMA NoTrigTyped == NoTrig \in Trig
<1>1. "none" \in Kind /\ "none" \in Point
  BY DEF Kind, Point
<1>2. QED
  BY <1>1, NoCommit DEF NoTrig, Trig

LEMMA SetKeeps ==
  ASSUME ReqOK, RequestsInv, NEW q \in Request, NEW r \in Req, Placed(r), Audits(r), Set(q, r)
  PROVE  ReqOK' /\ RequestsInv'
<1>1. req' = [req EXCEPT ![q] = r]
  BY DEF Set
<1>2. \A p \in Request : req'[p] = IF p = q THEN r ELSE req[p]
  BY <1>1 DEF ReqOK
<1>3. ReqOK'
  BY <1>1 DEF ReqOK
<1>4. QED
  BY <1>2, <1>3 DEF RequestsInv

\* A request before its end has no audits of its own, unless git did not start.
LEMMA BeforeEnd ==
  ASSUME NEW r \in Req, Placed(r), Audits(r), r.at \in {"asking", "serving", "ended"}
  PROVE  /\ r.via \in {"http", "ssh"} /\ r.tries \in Nat /\ (r.via = "ssh" => ~r.aborted /\ ~r.threw)
         /\ r.audits = IF r.via = "ssh" /\ r.child = "unstarted" THEN r.tries + 1 ELSE r.tries
<1>1. r.via \in {"http", "ssh"} /\ r.tries \in Nat
  BY TriggersAssumption DEF Placed, Req, Via
<1>2. r.via = "ssh" => ~r.aborted /\ ~r.threw
  BY DEF Placed, Req
<1>3. Own(r) = IF r.via = "ssh" /\ r.child = "unstarted" THEN 1 ELSE 0
  BY <1>1 DEF Own
<1>4. QED
  BY <1>1, <1>2, <1>3 DEF Audits

\* The record of a request that ends, by its fields.
LEMMA RespondsTyped ==
  ASSUME NEW r \in Req, NEW status \in Status
  PROVE  LET x == Responds(r, status) IN
         x \in Req /\ x.at = "ended" /\ Alike(x, r) /\ x.child = r.child /\ x.audits = r.audits
<1>1. ASSUME NEW at \in Places PROVE [r EXCEPT !.status = status, !.at = at] \in Req
  BY DEF Req
<1>2. "ended" \in Places
  BY DEF Places
<1>3. QED
  BY <1>1, <1>2 DEF Responds, Req, Alike

LEMMA AuditedTyped ==
  ASSUME NEW r \in Req, NEW outcome \in Outcome
  PROVE  LET x == Audited(r, outcome) IN
         x \in Req /\ x.at = "over" /\ Alike(x, r) /\ x.child = r.child /\ x.audits = r.audits + 1
<1>1. PICK n \in Nat : n = r.audits + 1
  BY DEF Req
<1>2. ASSUME NEW at \in Places PROVE [r EXCEPT !.audits = n, !.outcome = outcome, !.at = at] \in Req
  BY DEF Req
<1>3. Audited(r, outcome) = [r EXCEPT !.audits = n, !.outcome = outcome, !.at = "over"]
  BY <1>1 DEF Audited
<1>4. "over" \in Places
  BY DEF Places
<1>5. QED
  BY <1>1, <1>2, <1>3, <1>4 DEF Req, Alike

LEMMA AskingKeeps ==
  ASSUME ReqOK, RequestsInv, NEW q \in Request, Pass(q) \/ Refuse(q) \/ TurnDown(q) \/ Throw(q) \/ Leave(q)
  PROVE  ReqOK' /\ RequestsInv'
<1>0. PICK r \in Req : r = req[q]
  BY DEF ReqOK
<1>1. r.at = "asking" /\ Placed(r) /\ Audits(r)
  BY <1>0 DEF RequestsInv, Pass, Refuse, TurnDown, Throw, Leave, Asking
<1>2. /\ r.via \in {"http", "ssh"} /\ r.child = "none" /\ r.audits = r.tries /\ r.tries \in Nat
      /\ ~r.threw /\ (r.via = "ssh" => ~r.aborted)
  <2>1. r.child = "none" /\ ~r.threw
    BY <1>1 DEF Placed
  <2>2. QED
    BY <1>1, <2>1, BeforeEnd
<1>3. ASSUME NEW n \in 0..6, n \in 1..Len(Stages[r.via]), NEW k \in 0..Tries,
             Set(q, [r EXCEPT !.pc = n, !.tries = k, !.audits = k])
      PROVE  ReqOK' /\ RequestsInv'
  <2>1. PICK x : x = [r EXCEPT !.pc = n, !.tries = k, !.audits = k]
    OBVIOUS
  <2>2. k \in Nat
    BY TriggersAssumption
  <2>3. /\ x \in Req /\ x.at = r.at /\ x.via = r.via /\ x.child = r.child /\ x.threw = r.threw
        /\ x.aborted = r.aborted /\ x.tries = k /\ x.audits = k /\ x.pc = n
    BY <2>1, <2>2 DEF Req
  <2>4. Placed(x)
    BY <1>1, <1>2, <1>3, <2>3 DEF Placed
  <2>5. Own(x) = 0
    BY <1>1, <1>2, <2>3 DEF Own
  <2>6. Audits(x)
    BY <2>2, <2>3, <2>5 DEF Audits
  <2>7. QED
    BY <1>3, <2>1, <2>3, <2>4, <2>6, SetKeeps
<1>4. CASE Pass(q)
  <2>1. r.pc \in 1..Len(Stages[r.via]) /\ r.pc < Len(Stages[r.via]) /\ Set(q, [r EXCEPT !.pc = r.pc + 1])
    BY <1>0, <1>1, <1>4 DEF Pass, Placed
  <2>2. PICK n \in 0..6 : n = r.pc + 1 /\ n \in 1..Len(Stages[r.via])
    <3>1. Len(Stages[r.via]) \in 4..6
      BY <1>2, StageCount
    <3>2. ASSUME NEW n \in 4..6, r.pc \in 1..n, r.pc < n PROVE r.pc + 1 \in 0..6 /\ r.pc + 1 \in 1..n
      BY <3>2
    <3>3. QED
      BY <2>1, <3>1, <3>2
  <2>3. r.tries \in 0..Tries /\ [r EXCEPT !.pc = n] = [r EXCEPT !.pc = n, !.tries = r.tries, !.audits = r.tries]
    BY <1>2 DEF Req
  <2>4. QED
    BY <1>3, <2>1, <2>2, <2>3
<1>5. CASE TurnDown(q)
  <2>1. r.tries < Tries /\ Set(q, [r EXCEPT !.tries = r.tries + 1, !.audits = r.audits + 1])
    BY <1>0, <1>5 DEF TurnDown
  <2>2. PICK k \in 0..Tries : k = r.tries + 1
    BY <1>2, <2>1, TriggersAssumption
  <2>3. r.pc \in 0..6 /\ [r EXCEPT !.tries = k, !.audits = k] = [r EXCEPT !.pc = r.pc, !.tries = k, !.audits = k]
    BY DEF Req
  <2>4. r.pc \in 1..Len(Stages[r.via])
    BY <1>1 DEF Placed
  <2>5. QED
    BY <1>2, <1>3, <2>1, <2>2, <2>3, <2>4
<1>6. ASSUME NEW status \in Status, r.via = "http", NEW threw \in BOOLEAN,
             Set(q, [Responds(r, status) EXCEPT !.threw = threw])
      PROVE  ReqOK' /\ RequestsInv'
  <2>1. PICK y \in Req : y = Responds(r, status)
    BY RespondsTyped
  <2>2. y.at = "ended" /\ Alike(y, r) /\ y.child = r.child /\ y.audits = r.audits
    BY <2>1, RespondsTyped
  <2>3. PICK x : x = [y EXCEPT !.threw = threw]
    OBVIOUS
  <2>4. /\ x \in Req /\ x.at = "ended" /\ x.via = "http" /\ x.tries = r.tries /\ x.child = "none"
        /\ x.audits = r.tries
    BY <1>2, <1>6, <2>2, <2>3 DEF Req, Alike
  <2>5. Placed(x)
    BY <2>4 DEF Placed
  <2>6. Own(x) = 0
    BY <2>4 DEF Own
  <2>7. Audits(x)
    BY <1>2, <2>4, <2>6 DEF Audits
  <2>8. QED
    BY <1>6, <2>1, <2>3, <2>4, <2>5, <2>7, SetKeeps
<1>7. CASE Refuse(q)
  <2>1. CASE r.via = "ssh" /\ Set(q, Audited(r, "rejected"))
    <3>1. PICK x \in Req : x = Audited(r, "rejected")
      BY AuditedTyped DEF Outcome
    <3>2. x.at = "over" /\ Alike(x, r) /\ x.child = "none" /\ x.audits = r.tries + 1
      BY <1>2, <3>1, AuditedTyped DEF Outcome
    <3>3. Placed(x)
      BY <1>2, <2>1, <3>2 DEF Placed, Alike
    <3>4. Own(x) = 1
      BY <1>2, <2>1, <3>2 DEF Own, Alike
    <3>5. Audits(x)
      BY <3>2, <3>4 DEF Audits, Alike
    <3>6. QED
      BY <2>1, <3>1, <3>3, <3>5, SetKeeps
  <2>2. CASE r.via = "http" /\ (Set(q, Responds(r, 403)) \/ Set(q, Responds(r, 404)))
    <3>1. ASSUME NEW status \in Status PROVE Responds(r, status) = [Responds(r, status) EXCEPT !.threw = FALSE]
      BY <1>2, RespondsTyped DEF Req, Alike
    <3>2. PICK status \in Status : Set(q, Responds(r, status))
      BY <2>2 DEF Status
    <3>3. Set(q, [Responds(r, status) EXCEPT !.threw = FALSE])
      BY <3>1, <3>2
    <3>4. QED
      BY <1>6, <2>2, <3>3
  <2>3. QED
    BY <1>0, <1>2, <1>7, <2>1, <2>2 DEF Refuse, Ssh
<1>8. ASSUME r.via = "ssh", NEW threw \in BOOLEAN, NEW aborted \in BOOLEAN, threw \/ aborted,
             Set(q, [r EXCEPT !.at = "over", !.threw = threw, !.aborted = aborted])
      PROVE  ReqOK' /\ RequestsInv'
  <2>1. PICK x : x = [r EXCEPT !.at = "over", !.threw = threw, !.aborted = aborted]
    OBVIOUS
  <2>2. /\ x.at = "over" /\ x.via = r.via /\ x.child = r.child /\ x.threw = threw /\ x.aborted = aborted
        /\ x.tries = r.tries /\ x.audits = r.audits
    BY <2>1 DEF Req
  <2>3. x \in Req
    <3>1. ASSUME NEW at \in Places PROVE [r EXCEPT !.at = at, !.threw = threw, !.aborted = aborted] \in Req
      BY DEF Req
    <3>2. "over" \in Places
      BY DEF Places
    <3>3. QED
      BY <2>1, <3>1, <3>2
  <2>4. Placed(x)
    BY <1>2, <1>8, <2>2 DEF Placed
  <2>5. Own(x) = 0
    BY <1>8, <2>2 DEF Own
  <2>6. Audits(x)
    BY <1>2, <2>2, <2>5 DEF Audits
  <2>7. QED
    BY <1>8, <2>1, <2>3, <2>4, <2>6, SetKeeps
<1>9. CASE Throw(q)
  <2>1. CASE r.via = "http" /\ \E threw \in BOOLEAN : Set(q, [Responds(r, 500) EXCEPT !.threw = threw])
    BY <1>6, <2>1 DEF Status
  <2>2. CASE r.via = "ssh" /\ Set(q, [r EXCEPT !.at = "over", !.threw = TRUE])
    <3>1. [r EXCEPT !.at = "over", !.threw = TRUE] = [r EXCEPT !.at = "over", !.threw = TRUE, !.aborted = r.aborted]
      BY DEF Req
    <3>2. r.aborted \in BOOLEAN
      BY DEF Req
    <3>3. QED
      BY <1>8, <2>2, <3>1, <3>2
  <2>3. (StageOf(q) = "state") \in BOOLEAN
    OBVIOUS
  <2>4. QED
    BY <1>0, <1>2, <1>9, <2>1, <2>2, <2>3 DEF Throw, Http
<1>10. CASE Leave(q)
  <2>1. r.via = "ssh" /\ Set(q, [r EXCEPT !.at = "over", !.aborted = TRUE])
    BY <1>0, <1>10 DEF Leave, Ssh
  <2>2. [r EXCEPT !.at = "over", !.aborted = TRUE] = [r EXCEPT !.at = "over", !.threw = FALSE, !.aborted = TRUE]
    BY <1>2 DEF Req
  <2>3. QED
    BY <1>8, <2>1, <2>2
<1>11. QED
  BY <1>4, <1>5, <1>7, <1>9, <1>10

\* A request that comes up, and one that is spent without ever coming up.
LEMMA ArriveKeeps ==
  ASSUME ReqOK, RequestsInv, NEW q \in Request, NEW via \in DOMAIN Stages, NEW service \in {"push", "fetch", "advert"},
         NEW b \in Ref, Arrive(q, via, service, b)
  PROVE  ReqOK' /\ RequestsInv'
<1> DEFINE x == [NoRequest EXCEPT !.via = via, !.service = service, !.branch = b, !.at = "asking", !.pc = 1]
<1>1. via \in {"http", "ssh"}
  BY DEF Stages
<1>2. /\ x.via = via /\ x.at = "asking" /\ x.pc = 1 /\ x.child = "none" /\ x.threw = FALSE
      /\ x.aborted = FALSE /\ x.tries = 0 /\ x.audits = 0
  BY DEF NoRequest
<1>3. x \in Req
  <2>1. NoRequest \in Req
    BY TriggersAssumption DEF NoRequest, Req, Via, Services, Ref, Branch, Places, Child, Status, Outcome
  <2>2. ASSUME NEW r \in Req, NEW v \in Via, NEW s \in Services, NEW at \in Places, NEW pc \in 0..6
        PROVE  [r EXCEPT !.via = v, !.service = s, !.branch = b, !.at = at, !.pc = pc] \in Req
    BY DEF Req
  <2>3. via \in Via /\ service \in Services /\ "asking" \in Places /\ 1 \in 0..6
    BY <1>1 DEF Via, Services, Places
  <2>4. QED
    BY <2>1, <2>2, <2>3
<1>4. Set(q, x)
  BY DEF Arrive
<1> HIDE DEF x
<1>5. 1 \in 1..Len(Stages[via])
  <2>1. Len(Stages[via]) \in 4..6
    BY <1>1, StageCount
  <2>2. ASSUME NEW n \in 4..6 PROVE 1 \in 1..n
    OBVIOUS
  <2>3. QED
    BY <2>1, <2>2
<1>6. Placed(x) /\ Audits(x)
  BY <1>1, <1>2, <1>5 DEF Placed, Audits, Own
<1>7. QED
  BY <1>3, <1>4, <1>6, SetKeeps

LEMMA SpendKeeps ==
  ASSUME ReqOK, RequestsInv, NEW q \in Request, req[q].at = "idle", req' = [req EXCEPT ![q].at = "over"]
  PROVE  ReqOK' /\ RequestsInv'
<1>0. PICK r \in Req : r = req[q]
  BY DEF ReqOK
<1>1. Placed(r) /\ Audits(r) /\ r.via = "none" /\ r.child = "none" /\ ~r.threw
  BY <1>0 DEF RequestsInv, Placed
<1> DEFINE x == [r EXCEPT !.at = "over"]
<1>2. x.via = r.via /\ x.at = "over" /\ x.child = r.child /\ x.threw = r.threw /\ x.tries = r.tries /\ x.audits = r.audits
  BY DEF Req
<1>3. x \in Req
  <2>1. ASSUME NEW at \in Places PROVE [r EXCEPT !.at = at] \in Req
    BY DEF Req
  <2>2. "over" \in Places
    BY DEF Places
  <2>3. QED
    BY <2>1, <2>2
<1>4. Set(q, x)
  BY <1>0 DEF Set
<1> HIDE DEF x
<1>5. Placed(x) /\ Audits(x)
  BY <1>1, <1>2 DEF Placed, Audits, Own
<1>6. QED
  BY <1>3, <1>4, <1>5, SetKeeps

LEMMA SpawnKeeps ==
  ASSUME ReqOK, RequestsInv, NEW q \in Request, NEW starts \in BOOLEAN, Spawn(q, starts)
  PROVE  ReqOK' /\ RequestsInv'
<1>0. PICK r \in Req : r = req[q]
  BY DEF ReqOK
<1>1. r.at = "asking" /\ Placed(r) /\ Audits(r)
  BY <1>0 DEF RequestsInv, Spawn, Asking
<1>2. /\ r.via \in {"http", "ssh"} /\ ~r.threw /\ (r.via = "ssh" => ~r.aborted)
      /\ r.audits = r.tries /\ r.tries \in Nat
  <2>1. r.child = "none" /\ ~r.threw
    BY <1>1 DEF Placed
  <2>2. QED
    BY <1>1, <2>1, BeforeEnd
<1>3. PICK child \in {"up", "unstarted"} : child = IF starts THEN "up" ELSE "unstarted"
  OBVIOUS
<1>4. PICK s : s = [r EXCEPT !.at = "serving", !.child = child]
  OBVIOUS
<1>5. s.at = "serving" /\ Alike(s, r) /\ s.child = child /\ s.audits = r.tries
  BY <1>2, <1>4 DEF Req, Alike
<1>6. s \in Req
  <2>1. ASSUME NEW at \in Places, NEW c \in Child PROVE [r EXCEPT !.at = at, !.child = c] \in Req
    BY DEF Req
  <2>2. "serving" \in Places /\ child \in Child
    BY <1>3 DEF Places, Child
  <2>3. QED
    BY <1>4, <2>1, <2>2
<1>7. \/ child = "up" /\ Set(q, s)
      \/ child = "unstarted" /\ r.via = "http" /\ Set(q, Responds(s, 502))
      \/ child = "unstarted" /\ r.via = "ssh" /\ Set(q, [Audited(s, "failed") EXCEPT !.at = "serving"])
  <2>1. CASE starts
    BY <1>0, <1>3, <1>4, <2>1 DEF Spawn
  <2>2. CASE ~starts
    BY <1>0, <1>2, <1>3, <1>4, <2>2 DEF Spawn, Http
  <2>3. QED
    BY <2>1, <2>2
<1>8. CASE child = "up" /\ Set(q, s)
  <2>1. Placed(s) /\ Audits(s)
    BY <1>1, <1>2, <1>5, <1>8 DEF Placed, Audits, Own, Alike
  <2>2. QED
    BY <1>6, <1>8, <2>1, SetKeeps
<1>9. CASE child = "unstarted" /\ r.via = "http" /\ Set(q, Responds(s, 502))
  <2>1. PICK x \in Req : x = Responds(s, 502)
    BY <1>6, RespondsTyped DEF Status
  <2>2. /\ x.at = "ended" /\ x.via = "http" /\ x.child = "unstarted" /\ ~x.threw
        /\ x.tries = r.tries /\ x.audits = r.tries
    BY <1>2, <1>5, <1>6, <1>9, <2>1, RespondsTyped DEF Status, Alike
  <2>3. Placed(x) /\ Audits(x)
    BY <1>2, <2>2 DEF Placed, Audits, Own
  <2>4. QED
    BY <1>9, <2>1, <2>3, SetKeeps
<1>10. CASE child = "unstarted" /\ r.via = "ssh" /\ Set(q, [Audited(s, "failed") EXCEPT !.at = "serving"])
  <2>1. "failed" \in Outcome
    BY DEF Outcome
  <2>2. PICK a \in Req : a = Audited(s, "failed")
    BY <1>6, <2>1, AuditedTyped
  <2>3. /\ a.via = "ssh" /\ a.child = "unstarted" /\ ~a.threw /\ ~a.aborted
        /\ a.tries = r.tries /\ a.audits = r.tries + 1
    BY <1>2, <1>5, <1>6, <1>10, <2>1, <2>2, AuditedTyped DEF Alike
  <2> DEFINE x == [a EXCEPT !.at = "serving"]
  <2>4. /\ x.at = "serving" /\ x.via = a.via /\ x.child = a.child /\ x.threw = a.threw /\ x.aborted = a.aborted
        /\ x.tries = a.tries /\ x.audits = a.audits
    BY DEF Req
  <2>5. x \in Req
    <3>1. ASSUME NEW at \in Places PROVE [a EXCEPT !.at = at] \in Req
      BY DEF Req
    <3>2. "serving" \in Places
      BY DEF Places
    <3>3. QED
      BY <3>1, <3>2
  <2>6. Set(q, x)
    BY <1>10, <2>2
  <2> HIDE DEF x
  <2>7. Placed(x) /\ Audits(x)
    BY <1>2, <2>3, <2>4 DEF Placed, Audits, Own
  <2>8. QED
    BY <2>5, <2>6, <2>7, SetKeeps
<1>11. QED
  BY <1>7, <1>8, <1>9, <1>10

\* Fields that neither say where a request is nor count its audits.
LEMMA AsideKeeps ==
  ASSUME ReqOK, RequestsInv, NEW q \in Request, NEW x \in Req, Set(q, x),
         Alike(x, req[q]), x.at = req[q].at, x.pc = req[q].pc, x.child = req[q].child,
         x.audits = req[q].audits
  PROVE  ReqOK' /\ RequestsInv'
<1>1. Placed(x) /\ Audits(x)
  BY DEF RequestsInv, Placed, Audits, Own, Alike
<1>2. QED
  BY <1>1, SetKeeps

LEMMA AbortKeeps ==
  ASSUME ReqOK, RequestsInv, NEW q \in Request,
         Abort(q) \/ \E status \in {200, 403} : Headers(q, status)
  PROVE  ReqOK' /\ RequestsInv'
<1>0. PICK r \in Req : r = req[q]
  BY DEF ReqOK
<1>1. CASE Abort(q)
  <2> DEFINE x == [r EXCEPT !.aborted = TRUE]
  <2>1. /\ x \in Req /\ Alike(x, r) /\ x.at = r.at /\ x.pc = r.pc /\ x.child = r.child
        /\ x.audits = r.audits
    BY <1>0, <1>1 DEF Req, Alike, Abort, Http
  <2>2. Set(q, x)
    BY <1>0, <1>1 DEF Abort
  <2> HIDE DEF x
  <2>3. QED
    BY <1>0, <2>1, <2>2, AsideKeeps
<1>2. ASSUME NEW status \in {200, 403}, Headers(q, status) PROVE ReqOK' /\ RequestsInv'
  <2> DEFINE x == [r EXCEPT !.headers = TRUE, !.status = status]
  <2>0. status \in Status
    BY DEF Status
  <2>1. /\ x \in Req /\ Alike(x, r) /\ x.at = r.at /\ x.pc = r.pc /\ x.child = r.child
        /\ x.audits = r.audits
    BY <2>0 DEF Req, Alike
  <2>2. Set(q, x)
    BY <1>0, <1>2 DEF Headers
  <2> HIDE DEF x
  <2>3. QED
    BY <1>0, <2>1, <2>2, AsideKeeps
<1>3. QED
  BY <1>1, <1>2

LEMMA UpdateRefKeeps ==
  ASSUME RefsOK, ReqOK, RequestsInv, NEW q \in Request, UpdateRef(q)
  PROVE  RefsOK' /\ ReqOK' /\ RequestsInv'
<1>0. PICK r \in Req : r = req[q]
  BY DEF ReqOK
<1>1. r.branch \in Ref
  BY DEF Req
<1>2. last + 1 \in 0..MaxCommit
  BY TriggersAssumption DEF UpdateRef, RefsOK
<1>3. RefsOK'
  BY <1>0, <1>1, <1>2 DEF UpdateRef, RefsOK
<1> DEFINE x == [r EXCEPT !.pushed = last + 1]
<1>4. /\ x \in Req /\ Alike(x, r) /\ x.at = r.at /\ x.pc = r.pc /\ x.child = r.child
      /\ x.audits = r.audits
  BY <1>2 DEF Req, Alike
<1>5. Set(q, x)
  BY <1>0 DEF UpdateRef
<1> HIDE DEF x
<1>6. QED
  BY <1>0, <1>3, <1>4, <1>5, AsideKeeps

LEMMA CloseKeeps ==
  ASSUME ReqOK, RequestsInv, NEW q \in Request,
         CloseUnstarted(q) \/ \E code \in {"zero", "error", "signal"} : Close(q, code)
  PROVE  ReqOK' /\ RequestsInv'
<1>0. PICK r \in Req : r = req[q]
  BY DEF ReqOK
<1>1. Placed(r) /\ Audits(r) /\ r.status \in Status
  BY <1>0 DEF RequestsInv, Req
<1>2. r.child \in {"up", "unstarted"} /\ r.via \in {"http", "ssh"}
  <2>1. r.child \in {"up", "unstarted"}
    BY <1>0 DEF Close, CloseUnstarted
  <2>2. QED
    BY <1>1, <2>1 DEF Placed, Req, Via
<1>3. ~r.threw /\ (r.via = "ssh" => ~r.aborted) /\ r.tries \in Nat
  BY <1>1, <1>2, TriggersAssumption DEF Placed, Req
<1>4. PICK child \in {"gone", "never"} : child = IF r.child = "up" THEN "gone" ELSE "never"
  OBVIOUS
<1>5. PICK s : s = [r EXCEPT !.child = child]
  OBVIOUS
<1>6. s.at = r.at /\ Alike(s, r) /\ s.child = child /\ s.audits = r.audits /\ s.pc = r.pc
  BY <1>5 DEF Req, Alike
<1>7. s \in Req
  <2>1. ASSUME NEW c \in Child PROVE [r EXCEPT !.child = c] \in Req
    BY DEF Req
  <2>2. child \in Child
    BY DEF Child
  <2>3. QED
    BY <1>5, <2>1, <2>2
<1>8. \/ r.via = "http" /\ r.child = "unstarted" /\ Set(q, s)
      \/ r.via = "http" /\ r.child = "up" /\ \E status \in Status : Set(q, Responds(s, status))
      \/ r.via = "ssh" /\ \E outcome \in Outcome : Set(q, Audited(s, outcome))
  <2>1. CASE CloseUnstarted(q)
    <3>1. r.child = "unstarted" /\ s = [r EXCEPT !.child = "never"]
      BY <1>0, <1>4, <1>5, <2>1 DEF CloseUnstarted
    <3>2. "failed" \in Outcome
      BY DEF Outcome
    <3>3. QED
      BY <1>0, <1>2, <2>1, <3>1, <3>2 DEF CloseUnstarted, Ssh
  <2>2. ASSUME NEW code \in {"zero", "error", "signal"}, Close(q, code)
        PROVE  \/ r.via = "http" /\ r.child = "up" /\ \E status \in Status : Set(q, Responds(s, status))
               \/ r.via = "ssh" /\ \E outcome \in Outcome : Set(q, Audited(s, outcome))
    <3>1. r.child = "up" /\ s = [r EXCEPT !.child = "gone"]
      BY <1>0, <1>4, <1>5, <2>2 DEF Close
    <3>2. s.status = r.status /\ s.status \in Status /\ 502 \in Status
      BY <1>1, <1>5 DEF Req, Status
    <3>3. (IF code = "error" THEN "failed" ELSE "completed") \in Outcome
      BY DEF Outcome
    <3>4. CASE r.via = "ssh"
      <4>1. Set(q, Audited(s, IF code = "error" THEN "failed" ELSE "completed"))
        BY <1>0, <2>2, <3>1, <3>4 DEF Close, Ssh
      <4>2. QED
        BY <3>3, <3>4, <4>1
    <3>5. CASE r.via = "http"
      <4>1. Set(q, IF s.headers THEN Responds(s, s.status) ELSE Responds(s, 502))
        BY <1>0, <2>2, <3>1, <3>5 DEF Close, Ssh
      <4>2. QED
        BY <3>1, <3>2, <3>5, <4>1
    <3>6. QED
      BY <1>2, <3>4, <3>5
  <2>3. QED
    BY <2>1, <2>2
<1>9. CASE r.via = "http" /\ r.child = "unstarted" /\ Set(q, s)
  <2>1. Placed(s) /\ Audits(s)
    BY <1>1, <1>3, <1>4, <1>6, <1>9 DEF Placed, Audits, Own, Alike
  <2>2. QED
    BY <1>7, <1>9, <2>1, SetKeeps
<1>10. ASSUME r.via = "http", r.child = "up", NEW status \in Status, Set(q, Responds(s, status))
       PROVE  ReqOK' /\ RequestsInv'
  <2>1. PICK x \in Req : x = Responds(s, status)
    BY <1>7, RespondsTyped
  <2>2. /\ x.at = "ended" /\ x.via = "http" /\ x.child = "gone" /\ ~x.threw
        /\ x.tries = r.tries /\ x.audits = r.audits
    BY <1>3, <1>4, <1>6, <1>7, <1>10, <2>1, RespondsTyped DEF Alike
  <2>3. r.at = "serving"
    BY <1>1, <1>10 DEF Placed
  <2>4. Placed(x) /\ Audits(x)
    BY <1>1, <1>10, <2>2, <2>3 DEF Placed, Audits, Own
  <2>5. QED
    BY <1>10, <2>1, <2>4, SetKeeps
<1>11. ASSUME r.via = "ssh", NEW outcome \in Outcome, Set(q, Audited(s, outcome))
       PROVE  ReqOK' /\ RequestsInv'
  <2>1. r.at = "serving"
    BY <1>1, <1>2, <1>11 DEF Placed
  <2>2. r.audits = IF r.child = "unstarted" THEN r.tries + 1 ELSE r.tries
    BY <1>1, <1>11, <2>1, BeforeEnd
  <2>3. PICK x \in Req : x = Audited(s, outcome)
    BY <1>7, AuditedTyped
  <2>4. /\ x.at = "over" /\ x.via = "ssh" /\ x.child = child /\ ~x.threw /\ ~x.aborted
        /\ x.tries = r.tries /\ x.audits = r.audits + 1
    BY <1>3, <1>6, <1>7, <1>11, <2>3, AuditedTyped DEF Alike
  <2>5. Placed(x) /\ Audits(x)
    BY <1>2, <1>3, <1>4, <2>2, <2>4 DEF Placed, Audits, Own
  <2>6. QED
    BY <1>11, <2>3, <2>5, SetKeeps
<1>12. QED
  BY <1>8, <1>9, <1>10, <1>11

LEMMA FinishKeeps ==
  ASSUME ReqOK, RequestsInv, NEW q \in Request, Finish(q)
  PROVE  ReqOK' /\ RequestsInv'
<1>0. PICK r \in Req : r = req[q]
  BY DEF ReqOK
<1>1. Placed(r) /\ Audits(r) /\ r.via = "http" /\ r.at = "ended"
  BY <1>0 DEF RequestsInv, Finish, Http
<1>2. r.audits = r.tries /\ r.tries \in Nat /\ r.child # "up"
  BY <1>1, BeforeEnd DEF Placed
<1>3. OutcomeOf(r.status) \in Outcome /\ r.outcome \in Outcome
  BY DEF OutcomeOf, Outcome, Req
<1>4. ASSUME NEW outcome \in Outcome, NEW n \in Nat, n = r.tries + (IF r.threw THEN 0 ELSE 1),
             Set(q, [r EXCEPT !.at = "over", !.audits = n, !.outcome = outcome])
      PROVE  ReqOK' /\ RequestsInv'
  <2>1. PICK x : x = [r EXCEPT !.at = "over", !.audits = n, !.outcome = outcome]
    OBVIOUS
  <2>2. x.at = "over" /\ Alike(x, r) /\ x.child = r.child /\ x.audits = n
    BY <2>1 DEF Req, Alike
  <2>3. x \in Req
    <3>1. ASSUME NEW at \in Places PROVE [r EXCEPT !.at = at, !.audits = n, !.outcome = outcome] \in Req
      BY DEF Req
    <3>2. "over" \in Places
      BY DEF Places
    <3>3. QED
      BY <2>1, <3>1, <3>2
  <2>4. Placed(x)
    BY <1>1, <1>2, <2>2 DEF Placed, Alike
  <2>5. Own(x) = IF r.threw THEN 0 ELSE 1
    BY <1>1, <2>2 DEF Own, Alike
  <2>6. Audits(x)
    BY <1>4, <2>2, <2>5 DEF Audits, Alike
  <2>7. QED
    BY <1>4, <2>1, <2>3, <2>4, <2>6, SetKeeps
<1>5. CASE r.threw
  <2>1. Set(q, [r EXCEPT !.at = "over"])
    BY <1>0, <1>5 DEF Finish
  <2>2. [r EXCEPT !.at = "over"] = [r EXCEPT !.at = "over", !.audits = r.tries, !.outcome = r.outcome]
    BY <1>2 DEF Req
  <2>3. r.tries = r.tries + (IF r.threw THEN 0 ELSE 1)
    BY <1>2, <1>5
  <2>4. QED
    BY <1>2, <1>3, <1>4, <2>1, <2>2, <2>3
<1>6. CASE ~r.threw
  <2>1. Set(q, [r EXCEPT !.at = "over", !.audits = r.tries + 1, !.outcome = OutcomeOf(r.status)])
    BY <1>0, <1>2, <1>6 DEF Finish
  <2>2. r.tries + 1 \in Nat /\ r.tries + 1 = r.tries + (IF r.threw THEN 0 ELSE 1)
    BY <1>2, <1>6
  <2>3. QED
    BY <1>3, <1>4, <2>1, <2>2
<1>7. QED
  BY <1>5, <1>6

LEMMA RequestStepKeeps ==
  ASSUME RefsOK, ReqOK, RequestsInv, NEW q \in Request, RequestStep(q)
  PROVE  /\ RefsOK' /\ ReqOK' /\ RequestsInv' /\ head' = head
         /\ UpdateRef(q) \/ tip' = tip
<1>1. CASE UpdateRef(q)
  BY <1>1, UpdateRefKeeps DEF UpdateRef
<1>2. CASE ~UpdateRef(q)
  <2>1. UNCHANGED refs
    BY <1>2 DEF RequestStep, Serve, Pass, Refuse, TurnDown, Throw, Leave, CloseUnstarted, Finish, Spawn, Headers,
       Close, Abort, Arrive
  <2>2. RefsOK' /\ tip' = tip /\ head' = head
    BY <2>1 DEF refs, RefsOK
  <2>3. ReqOK' /\ RequestsInv'
    BY <1>2, AskingKeeps, CloseKeeps, FinishKeeps, SpawnKeeps, AbortKeeps, ArriveKeeps DEF RequestStep, Serve
  <2>4. QED
    BY <2>2, <2>3
<1>3. QED
  BY <1>1, <1>2

-----------------------------------------------------------------------------
(* Triggers and runs while refs move.                                      *)

\* A push moves its ref: the triggers and runs of it note that.
LEMMA OvertakesKeep ==
  ASSUME RefsOK, TrigOK, TrigsInv, RunsOK, RunsInv, NEW b \in Ref, \A r \in Ref \ {b} : tip'[r] = tip[r],
         head' = head, dir' = dir, Overtakes(b)
  PROVE  TrigOK' /\ TrigsInv' /\ RunsOK' /\ RunsInv'
<1>1. ASSUME NEW q \in Request PROVE trig'[q] \in Trig /\ TrigInv(trig[q])'
  <2>1. PICK t \in Trig : t = trig[q]
    BY DEF TrigOK
  <2>2. PICK n \in BOOLEAN : n <=> (t.branch = b /\ t.commit # 0)
    OBVIOUS
  <2>3. PICK x : x = [t EXCEPT !.moved = @ \/ n]
    OBVIOUS
  <2>4. x = trig'[q]
    BY <2>1, <2>2, <2>3 DEF Overtakes
  <2>5. /\ x \in Trig /\ x.kind = t.kind /\ x.at = t.at /\ x.branch = t.branch /\ x.commit = t.commit
        /\ x.listed = t.listed /\ x.torn = t.torn /\ (x.moved <=> t.moved \/ n)
    BY <2>3 DEF Trig
  <2>6. TrigInv(t)
    BY <2>1 DEF TrigsInv
  <2>7. ASSUME Stayed(x), t.branch \in Ref, t.commit # 0 PROVE Stayed(t) /\ tip'[t.branch] = tip[t.branch]
    BY <2>2, <2>5, <2>7 DEF Stayed
  <2>8. t.commit # 0 /\ t.branch \in Ref /\ OfItsRef(t) => OfItsRef(x)'
    BY <2>5, <2>7 DEF OfItsRef, Stayed
  <2>9. t.commit # 0 /\ t.branch \in Ref /\ ListedHere(t) => ListedHere(x)'
    BY <2>5, <2>7 DEF ListedHere, HasFile, Stayed
  <2>10. TrigInv(x)'
    BY <2>5, <2>6, <2>8, <2>9 DEF TrigInv
  <2>11. QED
    BY <2>4, <2>5, <2>10
<1>2. ASSUME NEW y \in runs' PROVE y \in Run /\ RunInv(y)'
  <2>1. PICK x \in runs : y = [x EXCEPT !.moved = @ \/ x.ref = b]
    BY DEF Overtakes
  <2>2. x \in Run /\ RunInv(x)
    BY DEF RunsOK, RunsInv
  <2>3. /\ y \in Run /\ y.kind = x.kind /\ y.id = x.id /\ y.of = x.of /\ y.ref = x.ref /\ y.commit = x.commit
        /\ y.started = x.started /\ (y.moved <=> x.moved \/ x.ref = b)
    BY <2>1, <2>2 DEF Run
  <2>4. x.ref \in Ref
    BY <2>2 DEF Run
  <2>5. RunInv(y)'
    BY <2>2, <2>3, <2>4 DEF RunInv, HasFile
  <2>6. QED
    BY <2>3, <2>5
<1>3. TrigOK'
  BY <1>1 DEF TrigOK, Overtakes
<1>4. QED
  BY <1>1, <1>2, <1>3 DEF TrigsInv, RunsOK, RunsInv

LEMMA CheckoutKeeps ==
  ASSUME IInv, NEW b \in Branch, Checkout(b)
  PROVE  IInv'
<1>0. /\ UNCHANGED <<tip, last, req, dir, runs>> /\ head' = b
      /\ trig' = [q \in Request |-> [trig[q] EXCEPT !.torn = @ \/ trig[q].at = "commit"]]
  BY DEF Checkout
<1>1. ASSUME NEW q \in Request PROVE trig'[q] \in Trig /\ TrigInv(trig[q])'
  <2>1. PICK t \in Trig : t = trig[q]
    BY DEF IInv, TrigOK
  <2>2. PICK n \in BOOLEAN : n <=> t.at = "commit"
    OBVIOUS
  <2>3. PICK x : x = [t EXCEPT !.torn = @ \/ n]
    OBVIOUS
  <2>4. x = trig'[q]
    BY <1>0, <2>1, <2>2, <2>3
  <2>5. /\ x \in Trig /\ x.kind = t.kind /\ x.at = t.at /\ x.branch = t.branch /\ x.commit = t.commit
        /\ x.listed = t.listed /\ x.moved = t.moved /\ (x.torn <=> t.torn \/ n)
    BY <2>3 DEF Trig
  <2>6. TrigInv(t)
    BY <2>1 DEF IInv, TrigsInv
  <2>7. (OfItsRef(t) => OfItsRef(x)') /\ (ListedHere(t) => ListedHere(x)')
    BY <1>0, <2>5 DEF OfItsRef, ListedHere, HasFile, Stayed
  <2>8. TrigInv(x)'
    BY <2>2, <2>5, <2>6, <2>7 DEF TrigInv
  <2>9. QED
    BY <2>4, <2>5, <2>8
<1>2. TrigOK' /\ TrigsInv'
  BY <1>0, <1>1 DEF IInv, TrigOK, TrigsInv
<1>3. RunsOK' /\ RunsInv'
  BY <1>0 DEF IInv, RunsOK, RunsInv, RunInv, HasFile
<1>4. RefsOK' /\ ReqOK' /\ RequestsInv'
  BY <1>0 DEF IInv, RefsOK, ReqOK, RequestsInv
<1>5. QED
  BY <1>2, <1>3, <1>4 DEF IInv

LEMMA RequestsKeep ==
  ASSUME IInv, NEW q \in Request, Requests(q)
  PROVE  IInv'
<1>0. PICK r \in Req : r = req[q]
  BY DEF IInv, ReqOK
<1>1. /\ RefsOK' /\ ReqOK' /\ RequestsInv' /\ head' = head /\ dir' = dir
      /\ UpdateRef(q) \/ tip' = tip
  BY RequestStepKeeps DEF IInv, Requests, Around
<1>2. CASE tip' = tip
  <2>1. UNCHANGED <<trig, runs>>
    BY <1>2 DEF Requests, Around
  <2>2. TrigOK' /\ TrigsInv' /\ RunsOK' /\ RunsInv'
    BY <1>1, <1>2, <2>1 DEF IInv, TrigOK, TrigsInv, TrigInv, OfItsRef, ListedHere, HasFile, RunsOK, RunsInv, RunInv
  <2>3. QED
    BY <1>1, <2>2 DEF IInv
<1>3. CASE tip' # tip
  <2>1. r.branch \in Ref /\ Overtakes(r.branch)
    BY <1>0, <1>3 DEF Req, Requests, Around
  <2>2. \A f \in Ref \ {r.branch} : tip'[f] = tip[f]
    BY <1>0, <1>1, <1>3 DEF UpdateRef, IInv, RefsOK
  <2>3. QED
    BY <1>1, <2>1, <2>2, OvertakesKeep DEF IInv
<1>4. QED
  BY <1>2, <1>3

-----------------------------------------------------------------------------
(* The steps of a trigger.                                                 *)

LEMMA TrigKeeps ==
  ASSUME TrigOK, TrigsInv, NEW q \in Request, NEW t \in Trig, TrigInv(t), trig' = [trig EXCEPT ![q] = t],
         UNCHANGED <<refs, dir>>
  PROVE  TrigOK' /\ TrigsInv'
<1>0. UNCHANGED <<tip, head, dir>>
  BY DEF refs
<1>1. \A p \in Request : trig'[p] = IF p = q THEN t ELSE trig[p]
  BY DEF TrigOK
<1>2. ASSUME NEW x, TrigInv(x) PROVE TrigInv(x)'
  BY <1>0, <1>2 DEF TrigInv, OfItsRef, ListedHere, HasFile
<1>3. ASSUME NEW p \in Request PROVE TrigInv(trig[p])'
  <2>1. PICK x : x = trig'[p]
    OBVIOUS
  <2>2. TrigInv(x)'
    BY <1>1, <1>2, <2>1 DEF TrigsInv
  <2>3. QED
    BY <2>1, <2>2
<1>4. TrigOK'
  BY <1>0 DEF TrigOK
<1>5. QED
  BY <1>3, <1>4 DEF TrigsInv

LEMMA RunsStay ==
  ASSUME RunsOK, RunsInv, UNCHANGED <<tip, dir, runs>>
  PROVE  RunsOK' /\ RunsInv'
BY DEF RunsOK, RunsInv, RunInv, HasFile

\* A step of a trigger that neither moves a ref nor queues a run.
LEMMA ToKeeps ==
  ASSUME IInv, NEW q \in Request, NEW t \in Trig, TrigInv(t), To(q, t), UNCHANGED runs
  PROVE  IInv'
<1>1. trig' = [trig EXCEPT ![q] = t] /\ UNCHANGED <<refs, req, dir>> /\ UNCHANGED <<tip, head, last>>
  BY DEF To, refs
<1>2. TrigOK' /\ TrigsInv'
  BY <1>1, TrigKeeps DEF IInv
<1>3. RunsOK' /\ RunsInv'
  BY <1>1, RunsStay DEF IInv
<1>4. RefsOK' /\ ReqOK' /\ RequestsInv'
  BY <1>1 DEF IInv, RefsOK, ReqOK, RequestsInv
<1>5. QED
  BY <1>2, <1>3, <1>4 DEF IInv

LEMMA LostTyped == \A t \in Trig : TrigInv(t) => Lost(t) \in Trig /\ TrigInv(Lost(t))
<1> SUFFICES ASSUME NEW t \in Trig, TrigInv(t) PROVE Lost(t) \in Trig /\ TrigInv(Lost(t))
  OBVIOUS
<1>1. ASSUME NEW at \in Point PROVE [t EXCEPT !.at = at, !.paths = {}, !.listed = {}] \in Trig
  BY DEF Trig
<1>2. "lost" \in Point
  BY DEF Point
<1>3. Lost(t) \in Trig
  BY <1>1, <1>2 DEF Lost
<1>4. Lost(t).at = "lost" /\ Lost(t).listed = {} /\ Lost(t).kind = t.kind /\ Lost(t).branch = t.branch
  BY DEF Lost, Trig
<1>5. QED
  BY <1>3, <1>4 DEF TrigInv

\* A trigger that goes on to the next point, as it is.
LEMMA OnwardTyped ==
  ASSUME NEW t \in Trig, NEW at \in Point
  PROVE  LET x == [t EXCEPT !.at = at] IN
         /\ x \in Trig /\ x.at = at /\ x.kind = t.kind /\ x.branch = t.branch /\ x.commit = t.commit
         /\ x.listed = t.listed /\ x.torn = t.torn /\ x.moved = t.moved
BY DEF Trig

LEMMA CommitAtType == RefsOK => \A r \in Ref : CommitAt(r) \in 0..MaxCommit /\ CommitAt(head) \in 0..MaxCommit
BY DEF RefsOK, CommitAt, Ref

LEMMA FilesThere ==
  ASSUME RefsOK, TrigOK, NEW r \in Ref, NEW id \in IdsAt(r)
  PROVE  id \in Nat /\ CommitAt(r) \in 1..MaxCommit /\ HasFile(CommitAt(r), id)
<1>1. tip[r] \in 0..MaxCommit /\ tip[r] # 0 /\ \E f \in Files(dir, tip[r]) : f.id = id
  BY DEF IdsAt, RefsOK
<1>2. tip[r] \in 1..MaxCommit
  BY <1>1, TriggersAssumption
<1>3. QED
  BY <1>1, <1>2, TriggersAssumption DEF TrigOK, CommitAt, HasFile

LEMMA ActivityKeeps ==
  ASSUME IInv, NEW q \in Request, ReadBranch(q) \/ ReadCommit(q) \/ Record(q)
  PROVE  IInv'
<1>0. PICK t \in Trig : t = trig[q]
  BY DEF IInv, TrigOK
<1>1. TrigInv(t) /\ UNCHANGED runs
  BY <1>0 DEF IInv, TrigsInv, ReadBranch, ReadCommit, Record
<1>2. CASE ReadBranch(q)
  <2>1. PICK r \in Req : r = req[q]
    BY DEF IInv, ReqOK
  <2>2. PICK k \in Kind : k = r.service /\ k # "release.update"
    <3>1. r.service \in Services /\ r.service # "advert"
      BY <1>2, <2>1 DEF ReadBranch, Req
    <3>2. QED
      BY <3>1 DEF Services, Kind
  <2>3. t.at = "none" /\ head \in Ref
    BY <1>0, <1>2 DEF ReadBranch, At, IInv, RefsOK, Ref
  <2> DEFINE x == [t EXCEPT !.kind = k, !.branch = head, !.at = "commit"]
  <2>4. x \in Trig
    <3>1. ASSUME NEW at \in Point PROVE [t EXCEPT !.kind = k, !.branch = head, !.at = at] \in Trig
      BY <2>3 DEF Trig
    <3>2. "commit" \in Point
      BY DEF Point
    <3>3. QED
      BY <3>1, <3>2
  <2>5. x.kind = k /\ x.branch = head /\ x.at = "commit" /\ x.commit = t.commit /\ x.listed = t.listed
    BY DEF Trig
  <2>6. To(q, x)
    BY <1>0, <1>2, <2>1, <2>2 DEF ReadBranch
  <2> HIDE DEF x
  <2>7. TrigInv(x)
    BY <1>1, <2>2, <2>3, <2>5 DEF TrigInv
  <2>8. QED
    BY <1>1, <2>4, <2>6, <2>7, ToKeeps
<1>3. CASE ReadCommit(q)
  <2>1. PICK c \in 0..MaxCommit : c = CommitAt(head)
    BY CommitAtType DEF IInv, RefsOK, Ref
  <2>2. t.at = "commit"
    BY <1>0, <1>3 DEF ReadCommit, At
  <2> DEFINE x == [t EXCEPT !.commit = c, !.at = "record"]
  <2>3. x \in Trig
    <3>1. ASSUME NEW at \in Point PROVE [t EXCEPT !.commit = c, !.at = at] \in Trig
      BY DEF Trig
    <3>2. "record" \in Point
      BY DEF Point
    <3>3. QED
      BY <3>1, <3>2
  <2>4. /\ x.kind = t.kind /\ x.branch = t.branch /\ x.at = "record" /\ x.commit = c /\ x.listed = t.listed
        /\ x.torn = t.torn /\ x.moved = t.moved
    BY DEF Trig
  <2>5. To(q, x)
    BY <1>0, <1>3, <2>1 DEF ReadCommit
  <2> HIDE DEF x
  <2>6. TrigInv(x)
    BY <1>1, <2>1, <2>2, <2>4 DEF TrigInv, OfItsRef, Stayed, CommitAt
  <2>7. QED
    BY <1>1, <2>3, <2>5, <2>6, ToKeeps
<1>4. CASE Record(q)
  <2>1. PICK at \in {"done", "target"} : at = IF t.kind = "fetch" THEN "done" ELSE "target"
    OBVIOUS
  <2>2. at \in Point
    BY DEF Point
  <2>3. t.at = "record"
    BY <1>0, <1>4 DEF Record, At
  <2>4. PICK x \in Trig : x = [t EXCEPT !.at = at]
    BY <2>2, OnwardTyped
  <2>5. /\ x.kind = t.kind /\ x.branch = t.branch /\ x.at = at /\ x.commit = t.commit /\ x.listed = t.listed
        /\ x.torn = t.torn /\ x.moved = t.moved
    BY <2>2, <2>4, OnwardTyped
  <2>6. To(q, x)
    BY <1>0, <1>4, <2>1, <2>4 DEF Record
  <2>7. TrigInv(x)
    BY <1>1, <2>3, <2>5 DEF TrigInv, OfItsRef, Stayed
  <2>8. QED
    BY <1>1, <2>6, <2>7, ToKeeps
<1>5. QED
  BY <1>2, <1>3, <1>4

\* A release and a dispatch by hand set off a trigger in the place of a request.
LEMMA SetOffKeeps ==
  ASSUME IInv, NEW q \in Request, Release(q) \/ \E b \in Branch \cup {""} : Dispatch(q, b)
  PROVE  IInv'
<1>0. PICK t \in Trig : t = NoTrig
  BY NoTrigTyped
<1>1. /\ RefsOK' /\ ReqOK' /\ RequestsInv' /\ RunsOK' /\ RunsInv'
      /\ UNCHANGED <<refs, dir>>
  <2>1. UNCHANGED <<refs, dir, runs>> /\ req[q].at = "idle" /\ req' = [req EXCEPT ![q].at = "over"]
    BY DEF Release, Dispatch
  <2>2. ReqOK' /\ RequestsInv'
    BY <2>1, SpendKeeps DEF IInv
  <2>3. QED
    BY <2>1, <2>2, RunsStay DEF IInv, RefsOK, refs
<1>2. ASSUME NEW kind \in Kind, NEW b \in Ref \cup {""}, NEW c \in 0..MaxCommit,
             trig' = [trig EXCEPT ![q] = [t EXCEPT !.kind = kind, !.branch = b, !.commit = c, !.at = "target"]],
             \/ kind = "release.update" /\ b = "v1"
             \/ kind = "manual" /\ c = 0
      PROVE  IInv'
  <2> DEFINE x == [t EXCEPT !.kind = kind, !.branch = b, !.commit = c, !.at = "target"]
  <2>1. x \in Trig
    <3>1. ASSUME NEW at \in Point PROVE [t EXCEPT !.kind = kind, !.branch = b, !.commit = c, !.at = at] \in Trig
      BY DEF Trig
    <3>2. "target" \in Point
      BY DEF Point
    <3>3. QED
      BY <1>0, <3>1, <3>2
  <2>2. x.kind = kind /\ x.branch = b /\ x.commit = c /\ x.at = "target" /\ x.listed = {}
    BY <1>0 DEF NoTrig, Trig
  <2>3. trig' = [trig EXCEPT ![q] = x]
    BY <1>2
  <2> HIDE DEF x
  <2>4. TrigInv(x)
    BY <1>2, <2>2 DEF TrigInv, OfItsRef, Ref
  <2>5. TrigOK' /\ TrigsInv'
    BY <1>1, <2>1, <2>3, <2>4, TrigKeeps DEF IInv
  <2>6. QED
    BY <1>1, <2>5 DEF IInv
<1>3. CASE Release(q)
  <2>1. PICK c \in 0..MaxCommit : c = CommitAt(head)
    BY CommitAtType DEF IInv, RefsOK, Ref
  <2>2. "release.update" \in Kind /\ "v1" \in Ref \cup {""}
    BY DEF Kind, Ref
  <2>3. trig' = [trig EXCEPT ![q] = [t EXCEPT !.kind = "release.update", !.branch = "v1", !.commit = c, !.at = "target"]]
    BY <1>0, <1>3, <2>1 DEF Release
  <2>4. QED
    BY <1>2, <2>2, <2>3
<1>4. ASSUME NEW b \in Branch \cup {""}, Dispatch(q, b) PROVE IInv'
  <2>1. "manual" \in Kind /\ b \in Ref \cup {""} /\ 0 \in 0..MaxCommit
    BY NoCommit DEF Kind, Ref
  <2>2. [t EXCEPT !.kind = "manual", !.branch = b, !.at = "target"]
          = [t EXCEPT !.kind = "manual", !.branch = b, !.commit = 0, !.at = "target"]
    <3>1. t.commit = 0
      BY <1>0 DEF NoTrig
    <3>2. QED
      BY <3>1 DEF Trig
  <2>3. trig' = [trig EXCEPT ![q] = [t EXCEPT !.kind = "manual", !.branch = b, !.commit = 0, !.at = "target"]]
    BY <1>0, <1>4, <2>2 DEF Dispatch
  <2>4. QED
    BY <1>2, <2>1, <2>3
<1>5. QED
  BY <1>3, <1>4

LEMMA LosesKeeps ==
  ASSUME IInv, NEW q \in Request, UNCHANGED runs,
         To(q, Lost(trig[q])) \/ To(q, [Lost(trig[q]) EXCEPT !.fault = TRUE])
  PROVE  IInv'
<1>1. PICK t \in Trig : t = Lost(trig[q]) /\ TrigInv(t)
  BY LostTyped DEF IInv, TrigOK, TrigsInv
<1> DEFINE x == [t EXCEPT !.fault = TRUE]
<1>2. x \in Trig /\ x.kind = t.kind /\ x.at = t.at /\ x.branch = t.branch /\ x.listed = t.listed
      /\ x.commit = t.commit /\ x.moved = t.moved /\ x.torn = t.torn
  BY DEF Trig
<1>3. To(q, t) \/ To(q, x)
  BY <1>1
<1> HIDE DEF x
<1>4. TrigInv(x)
  BY <1>1, <1>2 DEF TrigInv, OfItsRef, ListedHere, Stayed
<1>5. QED
  BY <1>1, <1>2, <1>3, <1>4, ToKeeps

LEMMA TargetKeeps ==
  ASSUME IInv, NEW q \in Request, Target(q)
  PROVE  IInv'
<1>0. PICK t \in Trig : t = trig[q]
  BY DEF IInv, TrigOK
<1>1. TrigInv(t) /\ UNCHANGED runs /\ t.at = "target"
  BY <1>0 DEF IInv, TrigsInv, Target, At
<1>2. PICK ref \in Ref \cup {""} : ref = IF t.branch = "" THEN head ELSE t.branch
  BY DEF IInv, RefsOK, Ref, Trig
<1>3. ref \in Ref
  BY <1>2 DEF IInv, RefsOK, Ref, Trig, Branch
<1>4. PICK c \in 0..MaxCommit : c = IF t.commit = 0 THEN CommitAt(ref) ELSE t.commit
  BY <1>3, CommitAtType DEF IInv, Trig
<1>5. CASE c = 0 /\ To(q, Lost(t))
  BY <1>0, <1>1, <1>5, LosesKeeps
<1>6. CASE c # 0 /\ To(q, [t EXCEPT !.branch = ref, !.commit = c, !.at = "list"])
  <2> DEFINE x == [t EXCEPT !.branch = ref, !.commit = c, !.at = "list"]
  <2>1. x \in Trig
    <3>1. ASSUME NEW at \in Point PROVE [t EXCEPT !.branch = ref, !.commit = c, !.at = at] \in Trig
      BY <1>3 DEF Trig
    <3>2. "list" \in Point
      BY DEF Point
    <3>3. QED
      BY <3>1, <3>2
  <2>2. /\ x.kind = t.kind /\ x.branch = ref /\ x.at = "list" /\ x.commit = c /\ x.listed = t.listed
        /\ x.torn = t.torn /\ x.moved = t.moved
    BY DEF Trig
  <2>3. To(q, x)
    BY <1>6
  <2> HIDE DEF x
  <2>4. x.kind = "release.update" => x.branch = "v1"
    BY <1>1, <1>2, <2>2 DEF TrigInv
  <2>5. OfItsRef(x)
    <3>1. CASE t.commit = 0
      BY <1>4, <2>2, <3>1 DEF OfItsRef, CommitAt
    <3>2. CASE t.commit # 0
      <4>1. t.branch \in Ref /\ OfItsRef(t)
        BY <1>1, <3>2 DEF TrigInv
      <4>2. ref = t.branch
        BY <1>2, <4>1 DEF Ref, Branch
      <4>3. QED
        BY <1>4, <2>2, <3>2, <4>1, <4>2 DEF OfItsRef, Stayed
    <3>3. QED
      BY <3>1, <3>2
  <2>6. x.listed = {}
    BY <1>1, <2>2 DEF TrigInv
  <2>7. TrigInv(x)
    BY <1>3, <1>6, <2>2, <2>4, <2>5, <2>6 DEF TrigInv, ListedHere
  <2>8. QED
    BY <1>1, <2>1, <2>3, <2>7, ToKeeps
<1>7. c # 0 => To(q, [t EXCEPT !.branch = ref, !.commit = c, !.at = "list"])
  BY <1>0, <1>2, <1>4 DEF Target
<1>8. c = 0 => To(q, Lost(t))
  BY <1>0, <1>2, <1>4 DEF Target
<1>9. QED
  BY <1>5, <1>6, <1>7, <1>8

\* The steps of the listing.
LEMMA ListingKeeps ==
  ASSUME IInv, NEW q \in Request, List(q) \/ Listed(q) \/ \E id \in trig[q].paths : Show(q, id)
  PROVE  IInv'
<1>0. PICK t \in Trig : t = trig[q]
  BY DEF IInv, TrigOK
<1>1. TrigInv(t) /\ UNCHANGED runs /\ t.at \in {"list", "show"}
  BY <1>0 DEF IInv, TrigsInv, List, Listed, Show, At
<1>2. t.branch \in Ref /\ t.commit # 0 /\ OfItsRef(t) /\ ListedHere(t)
  BY <1>1 DEF TrigInv
<1>3. ASSUME NEW at \in {"show", "queue"}, NEW paths \in SUBSET Nat, NEW listed \in SUBSET Found,
             To(q, [t EXCEPT !.paths = paths, !.listed = listed, !.at = at]),
             \A w \in listed : HasFile(w.of, w.id) /\ (Stayed(t) => w.of = tip[t.branch])
      PROVE  IInv'
  <2> DEFINE x == [t EXCEPT !.paths = paths, !.listed = listed, !.at = at]
  <2>1. x \in Trig
    <3>1. ASSUME NEW p \in Point PROVE [t EXCEPT !.paths = paths, !.listed = listed, !.at = p] \in Trig
      BY DEF Trig
    <3>2. at \in Point
      BY DEF Point
    <3>3. QED
      BY <3>1, <3>2
  <2>2. /\ x.kind = t.kind /\ x.branch = t.branch /\ x.at = at /\ x.commit = t.commit /\ x.listed = listed
        /\ x.torn = t.torn /\ x.moved = t.moved
    BY DEF Trig
  <2>3. To(q, x)
    BY <1>3
  <2> HIDE DEF x
  <2>4. ListedHere(x) /\ OfItsRef(x)
    BY <1>2, <1>3, <2>2 DEF ListedHere, OfItsRef, Stayed
  <2>5. TrigInv(x)
    BY <1>1, <1>2, <2>2, <2>4 DEF TrigInv
  <2>6. QED
    BY <1>1, <2>1, <2>3, <2>5, ToKeeps
<1>4. t.paths \in SUBSET Nat /\ t.listed \in SUBSET Found
  BY DEF Trig
<1>5. CASE List(q)
  <2>1. PICK paths \in (IF t.kind = "manual" THEN {{1}, {2}} ELSE {IdsAt(t.branch)}) :
          To(q, IF CommitAt(t.branch) = 0 THEN Lost(t) ELSE [t EXCEPT !.paths = paths, !.at = "show"])
    BY <1>0, <1>5 DEF List
  <2>2. paths \in SUBSET Nat
    <3>1. IdsAt(t.branch) \subseteq Nat
      BY <1>2, FilesThere DEF IInv
    <3>2. QED
      BY <3>1
  <2>3. [t EXCEPT !.paths = paths, !.at = "show"] = [t EXCEPT !.paths = paths, !.listed = t.listed, !.at = "show"]
    BY DEF Trig
  <2>4. CASE To(q, Lost(t))
    BY <1>0, <1>1, <2>4, LosesKeeps
  <2>5. CASE To(q, [t EXCEPT !.paths = paths, !.listed = t.listed, !.at = "show"])
    BY <1>2, <1>3, <1>4, <2>2, <2>5 DEF ListedHere
  <2>6. QED
    BY <2>1, <2>3, <2>4, <2>5
<1>6. ASSUME NEW id \in trig[q].paths, Show(q, id) PROVE IInv'
  <2>1. PICK c : c = CommitAt(t.branch)
    OBVIOUS
  <2>2. PICK w : w = [of |-> c, id |-> id]
    OBVIOUS
  <2>3. CASE To(q, Lost(t))
    BY <1>0, <1>1, <2>3, LosesKeeps
  <2>4. CASE id \in IdsAt(t.branch) /\ To(q, [t EXCEPT !.paths = @ \ {id}, !.listed = @ \cup {w}])
    <3>1. id \in Nat /\ c \in 1..MaxCommit /\ HasFile(c, id)
      BY <1>2, <2>1, <2>4, FilesThere DEF IInv
    <3>2. w \in Found /\ w.of = c /\ w.id = id
      BY <2>2, <3>1 DEF Found
    <3>3. t.at = "show"
      BY <1>0, <1>6 DEF Show, At
    <3>4. PICK paths \in SUBSET Nat : paths = t.paths \ {id}
      BY <1>4
    <3>5. PICK listed \in SUBSET Found : listed = t.listed \cup {w}
      BY <1>4, <3>2
    <3>6. [t EXCEPT !.paths = @ \ {id}, !.listed = @ \cup {w}] = [t EXCEPT !.paths = paths, !.listed = listed, !.at = "show"]
      BY <3>3, <3>4, <3>5 DEF Trig
    <3>7. \A v \in listed : HasFile(v.of, v.id) /\ (Stayed(t) => v.of = tip[t.branch])
      BY <1>2, <2>1, <3>1, <3>2, <3>5 DEF ListedHere, CommitAt
    <3>8. QED
      BY <1>3, <2>4, <3>6, <3>7
  <2>5. QED
    BY <1>0, <1>6, <2>1, <2>2, <2>3, <2>4 DEF Show
<1>7. CASE Listed(q)
  <2>1. PICK listed \in SUBSET Found :
          listed = {w \in t.listed : t.kind = "manual" \/ FileOf(w.of, w.id).enabled}
    BY <1>4
  <2>2. [t EXCEPT !.at = "queue", !.listed = listed] = [t EXCEPT !.paths = t.paths, !.listed = listed, !.at = "queue"]
    BY DEF Trig
  <2>3. To(q, [t EXCEPT !.at = "queue", !.listed = listed])
    BY <1>0, <1>7, <2>1 DEF Listed
  <2>4. \A w \in listed : HasFile(w.of, w.id) /\ (Stayed(t) => w.of = tip[t.branch])
    BY <1>2, <2>1 DEF ListedHere
  <2>5. QED
    BY <1>3, <1>4, <2>2, <2>3, <2>4
<1>8. QED
  BY <1>5, <1>6, <1>7

\* The loop over what was listed, and its end.
LEMMA QueueKeeps ==
  ASSUME IInv, NEW q \in Request, Queue(q) \/ Queued(q)
  PROVE  IInv'
<1>0. PICK t \in Trig : t = trig[q]
  BY DEF IInv, TrigOK
<1>1. TrigInv(t) /\ t.at = "queue"
  BY <1>0 DEF IInv, TrigsInv, Queue, Queued, At
<1>2. t.branch \in Ref /\ t.commit # 0 /\ OfItsRef(t) /\ ListedHere(t)
  BY <1>1 DEF TrigInv
<1>3. CASE Queued(q)
  <2>1. "done" \in Point
    BY DEF Point
  <2>2. PICK x \in Trig : x = [t EXCEPT !.at = "done"]
    BY <2>1, OnwardTyped
  <2>3. x.at = "done" /\ x.kind = t.kind /\ x.branch = t.branch
    BY <2>1, <2>2, OnwardTyped
  <2>4. TrigInv(x)
    BY <1>1, <2>3 DEF TrigInv
  <2>5. To(q, x) /\ UNCHANGED runs
    BY <1>0, <1>3, <2>2 DEF Queued
  <2>6. QED
    BY <2>4, <2>5, ToKeeps
<1>4. CASE Queue(q)
  <2>1. PICK w \in t.listed :
          \/ UNCHANGED runs /\ To(q, Lost(t))
          \/ UNCHANGED runs /\ To(q, [t EXCEPT !.listed = @ \ {w}])
          \/ runs' = runs \cup {NewRun(q, w)} /\ To(q, [t EXCEPT !.listed = @ \ {w}])
    BY <1>0, <1>4 DEF Queue
  <2>2. CASE UNCHANGED runs /\ To(q, Lost(t))
    BY <1>0, <2>2, LosesKeeps
  <2> DEFINE x == [t EXCEPT !.listed = @ \ {w}]
  <2>3. /\ x \in Trig /\ x.kind = t.kind /\ x.branch = t.branch /\ x.at = t.at /\ x.commit = t.commit
        /\ x.listed = t.listed \ {w} /\ x.torn = t.torn /\ x.moved = t.moved
    BY DEF Trig
  <2> HIDE DEF x
  <2>4. TrigInv(x)
    BY <1>1, <1>2, <2>3 DEF TrigInv, OfItsRef, ListedHere, Stayed
  <2>5. CASE UNCHANGED runs /\ To(q, x)
    BY <2>3, <2>4, <2>5, ToKeeps
  <2>6. CASE runs' = runs \cup {NewRun(q, w)} /\ To(q, x)
    <3>1. /\ UNCHANGED <<refs, req, dir>> /\ UNCHANGED <<tip, head, last>>
          /\ trig' = [trig EXCEPT ![q] = x]
      BY <2>6 DEF To, refs
    <3>2. TrigOK' /\ TrigsInv'
      BY <2>3, <2>4, <3>1, TrigKeeps DEF IInv
    <3>3. RefsOK' /\ ReqOK' /\ RequestsInv'
      BY <3>1 DEF IInv, RefsOK, ReqOK, RequestsInv
    <3>4. PICK moved \in BOOLEAN : moved <=> t.moved \/ t.torn
      OBVIOUS
    <3>5. PICK y : y = NewRun(q, w)
      OBVIOUS
    <3>6. /\ y = [by |-> q, kind |-> t.kind, id |-> w.id, of |-> w.of, ref |-> t.branch, commit |-> t.commit,
                  started |-> 0, moved |-> t.moved \/ t.torn]
          /\ t.moved \in BOOLEAN /\ t.torn \in BOOLEAN
      BY <1>0, <3>5 DEF NewRun, Trig
    <3>7. /\ w.id \in Nat /\ w.of \in 1..MaxCommit /\ t.kind \in Kind /\ t.commit \in 1..MaxCommit
          /\ 0 \in 0..MaxCommit
      BY <1>2, NoCommit DEF Trig, Found
    <3>8. y = [by |-> q, kind |-> t.kind, id |-> w.id, of |-> w.of, ref |-> t.branch, commit |-> t.commit,
               started |-> 0, moved |-> moved]
      BY <3>4, <3>6
    <3>9. y \in Run
      BY <1>2, <3>7, <3>8 DEF Run
    <3>10. RunInv(y)
      <4>1. /\ y.kind = t.kind /\ y.id = w.id /\ y.of = w.of /\ y.ref = t.branch /\ y.commit = t.commit
            /\ y.started = 0 /\ (y.moved <=> t.moved \/ t.torn)
        BY <3>4, <3>8
      <4>2. HasFile(w.of, w.id) /\ (Stayed(t) => w.of = tip[t.branch])
        BY <1>2 DEF ListedHere
      <4>3. QED
        BY <1>1, <1>2, <4>1, <4>2 DEF RunInv, OfItsRef, Stayed, TrigInv
    <3>11. RunsOK' /\ RunsInv'
      BY <2>6, <3>1, <3>5, <3>9, <3>10 DEF IInv, RunsOK, RunsInv, RunInv, HasFile
    <3>12. QED
      BY <3>2, <3>3, <3>11 DEF IInv
  <2>7. QED
    BY <2>1, <2>2, <2>5, <2>6 DEF x
<1>5. QED
  BY <1>3, <1>4

LEMMA StartKeeps ==
  ASSUME IInv, NEW r \in runs, Start(r)
  PROVE  IInv'
<1>1. r \in Run /\ RunInv(r) /\ r.ref \in Ref
  BY DEF IInv, RunsOK, RunsInv, Run
<1>2. PICK c \in 1..MaxCommit : c = CommitAt(r.ref)
  BY <1>1, FilesThere DEF IInv, Start
<1>3. PICK x : x = [r EXCEPT !.started = c]
  OBVIOUS
<1>4. /\ x \in Run /\ x.kind = r.kind /\ x.id = r.id /\ x.of = r.of /\ x.ref = r.ref /\ x.commit = r.commit
      /\ x.started = c /\ x.moved = r.moved
  BY <1>1, <1>2, <1>3 DEF Run
<1>5. RunInv(x)
  BY <1>1, <1>2, <1>4 DEF RunInv, CommitAt
<1>6. runs' = (runs \ {r}) \cup {x} /\ UNCHANGED <<refs, req, dir, trig>> /\ UNCHANGED <<tip, head, last>>
  BY <1>2, <1>3 DEF Start, refs
<1>7. RunsOK' /\ RunsInv'
  BY <1>4, <1>5, <1>6 DEF IInv, RunsOK, RunsInv, RunInv, HasFile
<1>8. RefsOK' /\ ReqOK' /\ RequestsInv'
  BY <1>6 DEF IInv, RefsOK, ReqOK, RequestsInv
<1>9. TrigOK' /\ TrigsInv'
  BY <1>6 DEF IInv, TrigOK, TrigsInv, TrigInv, OfItsRef, ListedHere, HasFile
<1>10. QED
  BY <1>7, <1>8, <1>9 DEF IInv

-----------------------------------------------------------------------------
(* The invariant, and what follows from it.                                *)

LEMMA InitIInv == Init => IInv
<1> SUFFICES ASSUME Init PROVE IInv
  OBVIOUS
<1>1. RefsOK
  BY TriggersAssumption DEF Init, RefsInit, RefsOK, Branch
<1>2. PICK r : r = NoRequest
  OBVIOUS
<1>3. r \in Req
  <2>1. /\ "none" \in Via /\ "none" \in Services /\ "main" \in Ref /\ 0 \in 0..Tries /\ "idle" \in Places /\ "none" \in Child
        /\ 500 \in Status /\ "none" \in Outcome
    BY TriggersAssumption DEF Via, Services, Ref, Branch, Places, Child, Status, Outcome
  <2>2. QED
    BY <1>2, <2>1, NoCommit DEF NoRequest, Req
<1>4. Placed(r) /\ Audits(r)
  BY <1>2 DEF NoRequest, Placed, Audits, Own
<1>5. ReqOK /\ RequestsInv
  BY <1>2, <1>3, <1>4 DEF Init, ReqOK, RequestsInv
<1>6. PICK t \in Trig : t = NoTrig
  BY NoTrigTyped
<1>7. t.kind = "none" /\ t.at = "none" /\ t.commit = 0 /\ t.listed = {}
  BY <1>6 DEF NoTrig
<1>8. TrigInv(t)
  BY <1>7 DEF TrigInv
<1>9. TrigOK /\ TrigsInv
  BY <1>6, <1>8 DEF Init, TrigOK, TrigsInv
<1>10. RunsOK /\ RunsInv
  BY DEF Init, RunsOK, RunsInv
<1>11. QED
  BY <1>1, <1>5, <1>9, <1>10 DEF IInv

LEMMA FaultKeeps ==
  ASSUME IInv, NEW q \in Request, Fault(q)
  PROVE  IInv'
BY LosesKeeps DEF Fault

LEMMA NextKeeps == IInv /\ [Next]_vars => IInv'
<1> SUFFICES ASSUME IInv, [Next]_vars PROVE IInv'
  OBVIOUS
<1>1. ASSUME NEW q \in Request, Trace(q) PROVE IInv'
  BY <1>1, ActivityKeeps, TargetKeeps, ListingKeeps, QueueKeeps DEF Trace
<1>2. ASSUME NEW q \in Request,
             \/ Requests(q) \/ Trace(q) \/ Fault(q) \/ Release(q)
             \/ \E b \in Branch \cup {""} : Dispatch(q, b)
      PROVE  IInv'
  BY <1>1, <1>2, RequestsKeep, FaultKeeps, SetOffKeeps
<1>3. CASE UNCHANGED vars
  <2>1. UNCHANGED <<tip, head, last, req, dir, trig, runs>>
    BY <1>3 DEF vars, refs
  <2>2. RefsOK' /\ ReqOK' /\ RequestsInv'
    BY <2>1 DEF IInv, RefsOK, ReqOK, RequestsInv
  <2>3. TrigOK' /\ TrigsInv'
    BY <2>1 DEF IInv, TrigOK, TrigsInv, TrigInv, OfItsRef, ListedHere, HasFile
  <2>4. RunsOK' /\ RunsInv'
    BY <2>1, RunsStay DEF IInv
  <2>5. QED
    BY <2>2, <2>3, <2>4 DEF IInv
<1>4. QED
  BY <1>2, <1>3, CheckoutKeeps, StartKeeps DEF Next

LEMMA Invariance == Spec => []IInv
BY InitIInv, NextKeeps, PTL DEF Spec

\* Requests, triggers and runs have their types, and the workflow a run was queued
\* of is a file of the commit it was found in.
THEOREM TypeCorrect == Spec => []TypeOK
<1>1. IInv => TypeOK
  <2> SUFFICES ASSUME IInv PROVE TypeOK
    OBVIOUS
  <2>1. ASSUME NEW q \in Request
        PROVE  /\ req[q].via \in {"http", "ssh", "none"} /\ req[q].branch \in Ref /\ req[q].pc \in 0..6
               /\ req[q].service \in {"push", "fetch", "advert", "none"}
               /\ req[q].at \in {"idle", "asking", "serving", "ended", "over"}
               /\ req[q].child \in {"none", "up", "gone", "unstarted", "never"}
               /\ req[q].status \in {200, 403, 404, 500, 502}
               /\ req[q].pushed \in 0..MaxCommit /\ req[q].tries \in 0..Tries /\ req[q].audits \in 0..Tries + 2
               /\ req[q].outcome \in {"none", "completed", "denied", "not_found", "failed", "rejected"}
    <3>1. req[q] \in Req
      BY DEF IInv, ReqOK
    <3>2. /\ req[q].via \in Via /\ req[q].branch \in Ref /\ req[q].pc \in 0..6 /\ req[q].service \in Services
          /\ req[q].at \in Places /\ req[q].child \in Child /\ req[q].status \in Status
          /\ req[q].pushed \in 0..MaxCommit /\ req[q].tries \in 0..Tries /\ req[q].outcome \in Outcome
      BY <3>1 DEF Req
    <3>3. req[q].audits \in 0..Tries + 2
      <4>1. Own(req[q]) \in 0..2 /\ req[q].audits = req[q].tries + Own(req[q])
        BY DEF Own, Audits, IInv, RequestsInv
      <4>2. QED
        BY <3>2, <4>1, TriggersAssumption
    <3>4. QED
      BY <3>2, <3>3 DEF Via, Services, Places, Child, Status, Outcome
  <2>2. ASSUME NEW q \in Request
        PROVE  /\ trig[q].kind \in {"none", "push", "fetch", "release.update", "manual"}
               /\ trig[q].at \in {"none", "commit", "record", "tag", "target", "list", "show", "queue", "done", "lost"}
               /\ trig[q].branch \in Ref \cup {""} /\ trig[q].commit \in 0..MaxCommit
               /\ trig[q].listed \subseteq [of : 1..MaxCommit, id : Nat]
    <3>1. trig[q] \in Trig
      BY DEF IInv, TrigOK
    <3>2. /\ trig[q].kind \in Kind /\ trig[q].at \in Point /\ trig[q].branch \in Ref \cup {""}
          /\ trig[q].commit \in 0..MaxCommit /\ trig[q].listed \subseteq Found
      BY <3>1 DEF Trig
    <3>3. QED
      BY <3>2 DEF Kind, Point, Found
  <2>3. \A r \in runs : r.commit \in 1..MaxCommit /\ r.started \in 0..MaxCommit /\ HasFile(r.of, r.id)
    BY DEF IInv, RunsOK, RunsInv, RunInv, Run
  <2>4. QED
    BY <2>1, <2>2, <2>3 DEF TypeOK, RequestsTypeOK, IInv, RefsOK, TrigOK
<1>2. QED
  BY <1>1, Invariance, PTL

\* However many requests there are, how often each is turned down at authentication,
\* and wherever callbacks, git and clients fail: one that is over was audited once,
\* apart from what it was turned down for; but twice when git does not start over SSH
\* (ssh/server.ts:281), and not at all when a callback of SSH throws
\* (ssh/server.ts:315), its client leaves without a command, or the URL of HTTP
\* cannot be read (handler.ts:275).
THEOREM AuditedOnceHolds == Spec => []AuditedOnce
<1>1. IInv => AuditedOnce
  BY DEF IInv, RequestsInv, Audits, Own, AuditedOnce, Http, Ssh
<1>2. QED
  BY <1>1, Invariance, PTL

\* For any number of requests, commits and workflows: the definition a run was queued
\* for and the one it starts with are those of the commit it checks out, unless its
\* ref moved or HEAD switched (run/execute.ts:178, activity.ts:107), or of its tag for
\* a release (runtime/api.ts:75).
THEOREM RunsItsCommitHolds == Spec => []RunsItsCommit
<1>1. IInv => RunsItsCommit
  BY DEF IInv, RunsInv, RunInv, RunsItsCommit
<1>2. QED
  BY <1>1, Invariance, PTL

-----------------------------------------------------------------------------
(* What is queued is in order: a second invariant, on top of the first.    *)

Late == {"queue", "done", "lost"}
Wants(kind, ref, f) == f.enabled /\ Selects(kind, ref, f)
Entry(t, f) == [of |-> tip[t.branch], id |-> f.id]

\* A listing has a workflow once, and not among those it still has to read.
Distinct(t) ==
  /\ \A v, w \in t.listed : v.id = w.id => v = w
  /\ \A w \in t.listed : w.id \notin t.paths

\* Until its ref moves, no workflow that a trigger wants falls by the wayside: it is
\* still to be read, or in the listing, or it has its run.
Awaited(q, t) ==
  Stayed(t) /\ t.kind # "manual" => \A f \in Files(dir, tip[t.branch]) :
    /\ t.at = "show" => f.id \in t.paths \/ Entry(t, f) \in t.listed
    /\ t.at = "queue" /\ Wants(t.kind, t.branch, f) =>
         Entry(t, f) \in t.listed \/ \E s \in runs : s.by = q /\ s.id = f.id

\* A run is of a workflow that its trigger is done with, and so are those in front.
Behind(x) == trig[x.by].at \in Late /\ \A w \in trig[x.by].listed : w.id # x.id
InFront(x) ==
  x.moved \/ x.kind = "manual" \/
    \A f \in Files(dir, x.of) : f.id < x.id /\ Wants(x.kind, x.ref, f) => \E s \in runs : s.by = x.by /\ s.id = f.id

OncePerTrigger == \A x, y \in runs : x.by = y.by /\ x.id = y.id => x = y

OrderInv ==
  /\ \A q \in Request : Distinct(trig[q]) /\ Awaited(q, trig[q])
  /\ \A x \in runs : Behind(x) /\ InFront(x)
  /\ OncePerTrigger

\* A trigger moves on to t: what is known of the others and of the runs stays true.
LEMMA OrderMoves ==
  ASSUME IInv, OrderInv, NEW q \in Request, NEW t, trig' = [trig EXCEPT ![q] = t], UNCHANGED <<tip, dir>>,
         runs \subseteq runs', Distinct(t), Awaited(q, t)',
         trig[q].at \in Late => t.at \in Late /\ t.listed \subseteq trig[q].listed
  PROVE  /\ \A p \in Request : Distinct(trig[p])' /\ Awaited(p, trig[p])'
         /\ \A x \in runs : Behind(x)' /\ InFront(x)'
<1>0. \A p \in Request : trig'[p] = IF p = q THEN t ELSE trig[p]
  BY DEF IInv, TrigOK
<1>1. ASSUME NEW p \in Request, NEW s, Awaited(p, s) PROVE Awaited(p, s)'
  BY <1>1 DEF Awaited, Entry, Wants, Stayed
<1>2. ASSUME NEW p \in Request PROVE Distinct(trig[p])' /\ Awaited(p, trig[p])'
  <2>1. PICK s : s = trig'[p]
    OBVIOUS
  <2>2. Distinct(s) /\ Awaited(p, s)'
    BY <1>0, <1>1, <2>1 DEF OrderInv
  <2>3. QED
    BY <2>1, <2>2 DEF Distinct
<1>3. ASSUME NEW x \in runs PROVE Behind(x)' /\ InFront(x)'
  <2>1. Behind(x) /\ InFront(x) /\ x.by \in Request
    BY DEF OrderInv, IInv, RunsOK, Run
  <2>2. trig'[x.by].at \in Late /\ trig'[x.by].listed \subseteq trig[x.by].listed
    BY <1>0, <2>1 DEF Behind
  <2>3. QED
    BY <2>1, <2>2 DEF Behind, InFront, Wants
<1>4. QED
  BY <1>2, <1>3

\* A step of a trigger that queues no run.
LEMMA OrderTo ==
  ASSUME IInv, OrderInv, NEW q \in Request, NEW t, To(q, t), UNCHANGED runs, Distinct(t), Awaited(q, t),
         trig[q].at \in Late => t.at \in Late /\ t.listed \subseteq trig[q].listed
  PROVE  OrderInv'
<1>1. trig' = [trig EXCEPT ![q] = t] /\ UNCHANGED <<tip, dir>> /\ runs' = runs
  BY DEF To, refs
<1>2. Awaited(q, t)'
  BY <1>1 DEF Awaited, Entry, Wants, Stayed
<1>3. \A p \in Request : Distinct(trig[p])' /\ Awaited(p, trig[p])'
  BY <1>1, <1>2, OrderMoves
<1>4. \A x \in runs : Behind(x)' /\ InFront(x)'
  BY <1>1, <1>2, OrderMoves
<1>5. QED
  BY <1>1, <1>3, <1>4 DEF OrderInv, OncePerTrigger

\* A step that changes neither the place nor the listing of any trigger, nor what
\* there is a run of.
LEMMA OrderStays ==
  ASSUME IInv, OrderInv, dir' = dir,
         \A p \in Request : /\ trig'[p].kind = trig[p].kind /\ trig'[p].at = trig[p].at
                            /\ trig'[p].paths = trig[p].paths /\ trig'[p].listed = trig[p].listed
                            /\ trig'[p].branch = trig[p].branch
                            /\ Stayed(trig'[p]) /\ trig[p].at \in {"show", "queue"} =>
                                 Stayed(trig[p]) /\ tip'[trig[p].branch] = tip[trig[p].branch],
         NEW f, runs' = {f[x] : x \in runs},
         \A x \in runs : /\ f[x].by = x.by /\ f[x].id = x.id /\ f[x].of = x.of /\ f[x].kind = x.kind
                         /\ f[x].ref = x.ref /\ (x.moved => f[x].moved)
  PROVE  OrderInv'
<1>1. ASSUME NEW p \in Request, NEW id, \E s \in runs : s.by = p /\ s.id = id
      PROVE  \E s \in runs' : s.by = p /\ s.id = id
  BY <1>1
<1>2. ASSUME NEW p \in Request PROVE Distinct(trig[p])' /\ Awaited(p, trig[p])'
  <2>1. Distinct(trig[p]) /\ Awaited(p, trig[p])
    BY DEF OrderInv
  <2>2. Distinct(trig[p])'
    BY <2>1 DEF Distinct
  <2>3. ASSUME Stayed(trig'[p]), trig[p].kind # "manual", trig[p].at \in {"show", "queue"},
               NEW g \in Files(dir, tip'[trig[p].branch])
        PROVE  /\ trig[p].at = "show" => g.id \in trig[p].paths \/ Entry(trig[p], g) \in trig[p].listed
               /\ trig[p].at = "queue" /\ Wants(trig[p].kind, trig[p].branch, g) =>
                    Entry(trig[p], g) \in trig[p].listed \/ \E s \in runs' : s.by = p /\ s.id = g.id
    <3>1. Stayed(trig[p]) /\ g \in Files(dir, tip[trig[p].branch])
      BY <2>3
    <3>2. QED
      BY <1>1, <2>1, <2>3, <3>1 DEF Awaited
  <2>4. ASSUME NEW g, Stayed(trig'[p]), trig[p].at \in {"show", "queue"}
        PROVE  Entry(trig[p], g)' = Entry(trig[p], g)
    BY <2>4 DEF Entry
  <2>5. Awaited(p, trig[p])'
    BY <2>3, <2>4 DEF Awaited, Wants, Stayed
  <2>6. QED
    BY <2>2, <2>5
<1>3. ASSUME NEW y \in runs' PROVE Behind(y)' /\ InFront(y)'
  <2>1. PICK x \in runs : y = f[x]
    OBVIOUS
  <2>2. Behind(x) /\ InFront(x) /\ x.by \in Request
    BY DEF OrderInv, IInv, RunsOK, Run
  <2>3. /\ y.by = x.by /\ y.id = x.id /\ y.of = x.of /\ y.kind = x.kind /\ y.ref = x.ref
        /\ (x.moved => y.moved)
    BY <2>1
  <2>4. trig'[x.by].at = trig[x.by].at /\ trig'[x.by].listed = trig[x.by].listed
    BY <2>2
  <2>5. Behind(y)'
    BY <2>2, <2>3, <2>4 DEF Behind
  <2>6. InFront(y)'
    BY <1>1, <2>2, <2>3 DEF InFront, Wants
  <2>7. QED
    BY <2>5, <2>6
<1>4. OncePerTrigger'
  BY DEF OrderInv, OncePerTrigger
<1>5. QED
  BY <1>2, <1>3, <1>4 DEF OrderInv

LEMMA OrderOvertakes ==
  ASSUME IInv, OrderInv, dir' = dir, NEW b \in Ref, \A r \in Ref \ {b} : tip'[r] = tip[r], Overtakes(b)
  PROVE  OrderInv'
<1> DEFINE f == [x \in runs |-> [x EXCEPT !.moved = @ \/ x.ref = b]]
<1>1. runs' = {f[x] : x \in runs}
  BY DEF Overtakes
<1>2. ASSUME NEW x \in runs
      PROVE  /\ f[x].by = x.by /\ f[x].id = x.id /\ f[x].of = x.of /\ f[x].kind = x.kind /\ f[x].ref = x.ref
             /\ (x.moved => f[x].moved)
  <2>1. x \in Run
    BY DEF IInv, RunsOK
  <2>2. QED
    BY <2>1 DEF Run
<1>3. ASSUME NEW p \in Request
      PROVE  /\ trig'[p].kind = trig[p].kind /\ trig'[p].at = trig[p].at
             /\ trig'[p].paths = trig[p].paths /\ trig'[p].listed = trig[p].listed
             /\ trig'[p].branch = trig[p].branch
             /\ Stayed(trig'[p]) /\ trig[p].at \in {"show", "queue"} =>
                  Stayed(trig[p]) /\ tip'[trig[p].branch] = tip[trig[p].branch]
  <2>1. trig[p] \in Trig /\ TrigInv(trig[p])
    BY DEF IInv, TrigOK, TrigsInv
  <2>2. /\ trig'[p].kind = trig[p].kind /\ trig'[p].at = trig[p].at
        /\ trig'[p].paths = trig[p].paths /\ trig'[p].listed = trig[p].listed
        /\ trig'[p].branch = trig[p].branch /\ trig'[p].torn = trig[p].torn
        /\ trig'[p].moved = (trig[p].moved \/ (trig[p].branch = b /\ trig[p].commit # 0))
    BY <2>1 DEF Overtakes, Trig
  <2>3. trig[p].at \in {"show", "queue"} => trig[p].branch \in Ref /\ trig[p].commit # 0
    BY <2>1 DEF TrigInv
  <2>4. QED
    BY <2>2, <2>3 DEF Stayed
<1> HIDE DEF f
<1>4. QED
  BY <1>1, <1>2, <1>3, OrderStays

\* The steps that are none of a trigger.
LEMMA OrderOthers ==
  ASSUME IInv, OrderInv,
         \/ \E q \in Request : Requests(q)
         \/ \E b \in Branch : Checkout(b)
         \/ \E r \in runs : Start(r)
         \/ UNCHANGED vars
  PROVE  OrderInv'
<1> DEFINE f == [x \in runs |-> x]
<1>0. \A x \in runs : f[x] = x
  OBVIOUS
<1> HIDE DEF f
<1>1. CASE dir' = dir /\ trig' = trig /\ runs' = runs /\ tip' = tip
  <2>1. runs' = {f[x] : x \in runs}
    BY <1>0, <1>1
  <2>2. QED
    BY <1>0, <1>1, <2>1, OrderStays
<1>2. ASSUME NEW b \in Branch, Checkout(b) PROVE OrderInv'
  <2>1. runs' = {f[x] : x \in runs} /\ dir' = dir /\ tip' = tip
    BY <1>0, <1>2 DEF Checkout
  <2>2. ASSUME NEW p \in Request
        PROVE  /\ trig'[p].kind = trig[p].kind /\ trig'[p].at = trig[p].at
               /\ trig'[p].paths = trig[p].paths /\ trig'[p].listed = trig[p].listed
               /\ trig'[p].branch = trig[p].branch /\ (Stayed(trig'[p]) => Stayed(trig[p]))
    <3>1. trig[p] \in Trig
      BY DEF IInv, TrigOK
    <3>2. QED
      BY <1>2, <3>1 DEF Checkout, Trig, Stayed
  <2>3. QED
    BY <1>0, <2>1, <2>2, OrderStays
<1>3. ASSUME NEW r \in runs, Start(r) PROVE OrderInv'
  <2> DEFINE s == [r EXCEPT !.started = CommitAt(r.ref)]
             g == [x \in runs |-> IF x = r THEN s ELSE x]
  <2>1. s.by = r.by /\ s.id = r.id /\ s.of = r.of /\ s.kind = r.kind /\ s.ref = r.ref /\ s.moved = r.moved
    <3>1. r \in Run
      BY DEF IInv, RunsOK
    <3>2. QED
      BY <3>1 DEF Run
  <2>2. runs' = (runs \ {r}) \cup {s} /\ dir' = dir /\ trig' = trig /\ tip' = tip
    BY <1>3 DEF Start, refs
  <2> HIDE DEF s
  <2>3. \A x \in runs : g[x] = IF x = r THEN s ELSE x
    OBVIOUS
  <2> HIDE DEF g
  <2>4. runs' = {g[x] : x \in runs}
    BY <2>2, <2>3
  <2>5. \A x \in runs : /\ g[x].by = x.by /\ g[x].id = x.id /\ g[x].of = x.of /\ g[x].kind = x.kind
                        /\ g[x].ref = x.ref /\ (x.moved => g[x].moved)
    BY <2>1, <2>3
  <2>6. QED
    BY <2>2, <2>4, <2>5, OrderStays
<1>4. ASSUME NEW q \in Request, Requests(q) PROVE OrderInv'
  <2>1. UpdateRef(q) \/ tip' = tip
    BY <1>4, RequestStepKeeps DEF IInv, Requests
  <2>2. CASE tip' = tip
    BY <1>1, <1>4, <2>2 DEF Requests, Around
  <2>3. CASE tip' # tip
    <3>1. req[q].branch \in Ref
      BY DEF IInv, ReqOK, Req
    <3>2. \A r \in Ref \ {req[q].branch} : tip'[r] = tip[r]
      BY <2>1, <2>3 DEF UpdateRef, IInv, RefsOK
    <3>3. QED
      BY <1>4, <2>3, <3>1, <3>2, OrderOvertakes DEF Requests, Around
  <2>4. QED
    BY <2>2, <2>3
<1>5. QED
  BY <1>1, <1>2, <1>3, <1>4 DEF vars, refs

\* A trigger that neither reads nor queues has nothing to lose.
LEMMA AwaitsNothing == \A q, t : t.at \notin {"show", "queue"} => Awaited(q, t)
BY DEF Awaited

\* A trigger is set off, and the steps before the listing.
LEMMA OrderActivity ==
  ASSUME IInv, OrderInv, NEW q \in Request, ReadBranch(q) \/ ReadCommit(q) \/ Record(q)
  PROVE  OrderInv'
<1>1. PICK t \in Trig : t = trig[q]
  BY DEF IInv, TrigOK
<1>2. PICK x : To(q, x) /\ \/ x = [t EXCEPT !.kind = req[q].service, !.branch = head, !.at = "commit"]
                           \/ x = [t EXCEPT !.commit = CommitAt(head), !.at = "record"]
                           \/ x = [t EXCEPT !.at = IF t.kind = "fetch" THEN "done" ELSE "target"]
  BY <1>1 DEF ReadBranch, ReadCommit, Record
<1>3. x.at \in {"commit", "record", "done", "target"} /\ x.paths = t.paths /\ x.listed = t.listed
  BY <1>2 DEF Trig
<1>4. t.at \notin Late /\ UNCHANGED runs
  BY <1>1 DEF ReadBranch, ReadCommit, Record, At, Late
<1>5. Distinct(x)
  BY <1>1, <1>3 DEF OrderInv, Distinct
<1>6. Awaited(q, x)
  BY <1>3, AwaitsNothing
<1>7. QED
  BY <1>1, <1>2, <1>4, <1>5, <1>6, OrderTo

LEMMA OrderSetOff ==
  ASSUME IInv, OrderInv, NEW q \in Request, Release(q) \/ \E b \in Branch \cup {""} : Dispatch(q, b)
  PROVE  OrderInv'
<1>1. UNCHANGED <<tip, dir>> /\ runs' = runs /\ trig[q].at \notin Late
  BY DEF Release, Dispatch, refs, At, Late
<1>2. PICK t : trig' = [trig EXCEPT ![q] = t] /\ t.at = "target" /\ t.listed = {}
  <2>1. CASE Release(q)
    <3>1. PICK t : t = [NoTrig EXCEPT !.kind = "release.update", !.branch = "v1", !.commit = CommitAt(head), !.at = "target"]
      OBVIOUS
    <3>2. t.at = "target" /\ t.listed = {}
      BY <3>1 DEF NoTrig
    <3>3. QED
      BY <2>1, <3>1, <3>2 DEF Release
  <2>2. ASSUME NEW b \in Branch \cup {""}, Dispatch(q, b)
        PROVE  \E t : trig' = [trig EXCEPT ![q] = t] /\ t.at = "target" /\ t.listed = {}
    <3>1. PICK t : t = [NoTrig EXCEPT !.kind = "manual", !.branch = b, !.at = "target"]
      OBVIOUS
    <3>2. t.at = "target" /\ t.listed = {}
      BY <3>1 DEF NoTrig
    <3>3. QED
      BY <2>2, <3>1, <3>2 DEF Dispatch
  <2>3. QED
    BY <2>1, <2>2
<1>4. t.at = "target" /\ t.listed = {}
  BY <1>2
<1>5. Distinct(t)
  BY <1>4 DEF Distinct
<1>6. Awaited(q, t)'
  BY <1>4 DEF Awaited
<1>7. (\A p \in Request : Distinct(trig[p])' /\ Awaited(p, trig[p])') /\ (\A x \in runs : Behind(x)' /\ InFront(x)')
  BY <1>1, <1>2, <1>5, <1>6, OrderMoves
<1>8. QED
  BY <1>1, <1>7 DEF OrderInv, OncePerTrigger

\* A trigger that is lost lists nothing any more.
LEMMA OrderLoses ==
  ASSUME IInv, OrderInv, NEW q \in Request, UNCHANGED runs,
         To(q, Lost(trig[q])) \/ To(q, [Lost(trig[q]) EXCEPT !.fault = TRUE])
  PROVE  OrderInv'
<1>1. PICK x : To(q, x) /\ (x = Lost(trig[q]) \/ x = [Lost(trig[q]) EXCEPT !.fault = TRUE])
  OBVIOUS
<1>2. trig[q] \in Trig
  BY DEF IInv, TrigOK
<1>3. x.at = "lost" /\ x.listed = {}
  BY <1>1, <1>2 DEF Lost, Trig
<1>4. x.at \in Late
  BY <1>3 DEF Late
<1>5. Distinct(x) /\ Awaited(q, x)
  BY <1>3, AwaitsNothing DEF Distinct
<1>6. QED
  BY <1>1, <1>3, <1>4, <1>5, OrderTo

\* A file of a commit is the one that FileOf finds by its number.
LEMMA FileIs ==
  ASSUME IInv, NEW c \in 1..MaxCommit, NEW f \in Files(dir, c)
  PROVE  f.id \in Nat /\ FileOf(c, f.id) = f
<1>1. dir \in Dir
  BY DEF IInv, TrigOK
<1>2. QED
  BY <1>1, TriggersAssumption DEF FileOf

\* The steps up to the loop: all that the directory has is read or still to be read.
LEMMA OrderListing ==
  ASSUME IInv, OrderInv, NEW q \in Request,
         Target(q) \/ List(q) \/ Listed(q) \/ \E id \in trig[q].paths : Show(q, id)
  PROVE  OrderInv'
<1>0. PICK t \in Trig : t = trig[q]
  BY DEF IInv, TrigOK
<1>1. Distinct(t) /\ Awaited(q, t) /\ TrigInv(t) /\ UNCHANGED runs
  BY <1>0 DEF OrderInv, IInv, TrigsInv, Target, List, Listed, Show
<1>2. t.at \notin Late
  BY <1>0 DEF Target, List, Listed, Show, At, Late
<1>3. ASSUME NEW x, To(q, x), Distinct(x), Awaited(q, x) PROVE OrderInv'
  BY <1>0, <1>1, <1>2, <1>3, OrderTo
<1>4. CASE To(q, Lost(t))
  BY <1>0, <1>1, <1>4, OrderLoses
<1>5. CASE Target(q)
  <2>1. PICK ref, c : To(q, Lost(t)) \/ To(q, [t EXCEPT !.branch = ref, !.commit = c, !.at = "list"])
    BY <1>0, <1>5 DEF Target
  <2>2. PICK x : x = [t EXCEPT !.branch = ref, !.commit = c, !.at = "list"]
    OBVIOUS
  <2>3. x.at = "list" /\ x.paths = t.paths /\ x.listed = t.listed
    BY <2>2 DEF Trig
  <2>4. Distinct(x) /\ Awaited(q, x)
    BY <1>1, <2>3, AwaitsNothing DEF Distinct
  <2>5. QED
    BY <1>3, <1>4, <2>1, <2>2, <2>4
<1>6. CASE List(q)
  <2>1. PICK paths : /\ To(q, Lost(t)) \/ To(q, [t EXCEPT !.paths = paths, !.at = "show"])
                     /\ t.kind # "manual" => paths = IdsAt(t.branch)
    BY <1>0, <1>6 DEF List
  <2>2. PICK x : x = [t EXCEPT !.paths = paths, !.at = "show"]
    OBVIOUS
  <2>3. /\ x.kind = t.kind /\ x.branch = t.branch /\ x.listed = t.listed /\ x.paths = paths /\ x.at = "show"
        /\ (Stayed(x) <=> Stayed(t))
    BY <2>2 DEF Trig, Stayed
  <2>4. t.listed = {} /\ t.branch \in Ref
    BY <1>0, <1>1, <1>6 DEF TrigInv, List, At
  <2>5. Distinct(x)
    BY <2>3, <2>4 DEF Distinct
  <2>6. CASE tip[t.branch] = 0
    BY <1>0, <1>4, <1>6, <2>6 DEF List, CommitAt
  <2>7. CASE tip[t.branch] # 0
    <3>1. t.kind # "manual" => \A f \in Files(dir, tip[t.branch]) : f.id \in paths
      BY <2>1, <2>7 DEF IdsAt
    <3>2. Awaited(q, x)
      BY <2>3, <3>1 DEF Awaited
    <3>3. QED
      BY <1>3, <1>4, <2>1, <2>2, <2>5, <3>2
  <2>8. QED
    BY <2>6, <2>7
<1>7. ASSUME NEW id \in t.paths, Show(q, id) PROVE OrderInv'
  <2>1. PICK c : c = CommitAt(t.branch)
    OBVIOUS
  <2>2. PICK w : w = [of |-> c, id |-> id]
    OBVIOUS
  <2>3. PICK x : x = [t EXCEPT !.paths = @ \ {id}, !.listed = @ \cup {w}]
    OBVIOUS
  <2>4. /\ x.kind = t.kind /\ x.branch = t.branch /\ x.at = t.at /\ (Stayed(x) <=> Stayed(t))
        /\ x.paths = t.paths \ {id} /\ x.listed = t.listed \cup {w}
    BY <2>3 DEF Trig, Stayed
  <2>5. To(q, Lost(t)) \/ To(q, x)
    BY <1>0, <1>7, <2>1, <2>2, <2>3 DEF Show
  <2>6. w.id = id
    BY <2>2
  <2>7. Distinct(x)
    BY <1>1, <1>7, <2>4, <2>6 DEF Distinct
  <2>8. t.at = "show"
    BY <1>0, <1>7 DEF Show, At
  <2>9. ASSUME Stayed(t), t.kind # "manual", NEW f \in Files(dir, tip[t.branch])
        PROVE  f.id \in x.paths \/ Entry(x, f) \in x.listed
    <3>1. Entry(x, f) = Entry(t, f)
      BY <2>4 DEF Entry
    <3>2. f.id = id => Entry(t, f) = w
      BY <2>1, <2>2 DEF Entry, CommitAt
    <3>3. f.id \in t.paths \/ Entry(t, f) \in t.listed
      BY <1>1, <2>8, <2>9 DEF Awaited
    <3>4. QED
      BY <2>4, <3>1, <3>2, <3>3
  <2>10. Awaited(q, x)
    BY <2>4, <2>8, <2>9 DEF Awaited
  <2>11. QED
    BY <1>3, <1>4, <2>5, <2>7, <2>10
<1>8. CASE Listed(q)
  <2>1. PICK listed \in SUBSET t.listed :
          /\ listed = {w \in t.listed : t.kind = "manual" \/ FileOf(w.of, w.id).enabled}
          /\ To(q, [t EXCEPT !.at = "queue", !.listed = listed])
    BY <1>0, <1>8 DEF Listed
  <2>2. PICK x : x = [t EXCEPT !.at = "queue", !.listed = listed]
    OBVIOUS
  <2>3. /\ x.kind = t.kind /\ x.branch = t.branch /\ x.paths = t.paths /\ x.listed = listed /\ x.at = "queue"
        /\ (Stayed(x) <=> Stayed(t))
    BY <2>2 DEF Trig, Stayed
  <2>4. Distinct(x)
    BY <1>1, <2>3 DEF Distinct
  <2>5. t.at = "show" /\ t.paths = {} /\ t.branch \in Ref
    BY <1>0, <1>1, <1>8 DEF Listed, At, TrigInv
  <2>6. ASSUME Stayed(t), t.kind # "manual", NEW f \in Files(dir, tip[t.branch]), f.enabled
        PROVE  Entry(x, f) \in x.listed
    <3>1. PICK w \in t.listed : w = Entry(t, f)
      BY <1>1, <2>5, <2>6 DEF Awaited
    <3>2. w.of = tip[t.branch] /\ w.id = f.id /\ w.of \in 1..MaxCommit
      BY <3>1 DEF Entry, Trig, Found
    <3>3. FileOf(w.of, w.id) = f
      BY <3>2, FileIs
    <3>4. Entry(x, f) = w
      BY <2>3, <3>1 DEF Entry
    <3>5. QED
      BY <2>1, <2>3, <2>6, <3>3, <3>4
  <2>7. Awaited(q, x)
    BY <2>3, <2>6 DEF Awaited, Wants
  <2>8. QED
    BY <1>3, <2>1, <2>2, <2>4, <2>7
<1>9. QED
  BY <1>0, <1>5, <1>6, <1>7, <1>8

\* The loop: it takes the first of the listing, which gets its run if it is wanted.
LEMMA OrderQueue ==
  ASSUME IInv, OrderInv, NEW q \in Request, Queue(q) \/ Queued(q)
  PROVE  OrderInv'
<1>0. PICK t \in Trig : t = trig[q]
  BY DEF IInv, TrigOK
<1>1. /\ Distinct(t) /\ Awaited(q, t) /\ TrigInv(t) /\ t.at = "queue" /\ t.at \in Late
      /\ t.branch \in Ref /\ ListedHere(t)
  BY <1>0 DEF OrderInv, Queue, Queued, At, Late, IInv, TrigsInv, TrigInv
<1>2. CASE Queued(q)
  <2>1. PICK x : x = [t EXCEPT !.at = "done"]
    OBVIOUS
  <2>2. x.paths = t.paths /\ x.listed = t.listed /\ x.at = "done" /\ x.at \in Late
    BY <2>1 DEF Trig, Late
  <2>3. Distinct(x) /\ Awaited(q, x)
    BY <1>1, <2>2, AwaitsNothing DEF Distinct
  <2>4. To(q, x) /\ UNCHANGED runs
    BY <1>0, <1>2, <2>1 DEF Queued
  <2>5. QED
    BY <1>0, <2>2, <2>3, <2>4, OrderTo
<1>3. CASE Queue(q)
  <2>1. PICK w \in t.listed :
          /\ \A v \in t.listed : w.id <= v.id
          /\ \/ UNCHANGED runs /\ To(q, Lost(t))
             \/ /\ UNCHANGED runs /\ To(q, [t EXCEPT !.listed = @ \ {w}]) /\ ~Selected(q, FileOf(w.of, w.id))
                /\ t.kind # "manual"
             \/ runs' = runs \cup {NewRun(q, w)} /\ To(q, [t EXCEPT !.listed = @ \ {w}])
    BY <1>0, <1>3 DEF Queue
  <2>2. PICK x : x = [t EXCEPT !.listed = @ \ {w}]
    OBVIOUS
  <2>3. /\ x.kind = t.kind /\ x.branch = t.branch /\ x.paths = t.paths /\ x.listed = t.listed \ {w}
        /\ x.at = t.at /\ (Stayed(x) <=> Stayed(t))
    BY <2>2 DEF Trig, Stayed
  <2>4. Distinct(x)
    BY <1>1, <2>3 DEF Distinct
  <2>5. ASSUME NEW f PROVE Entry(x, f) = Entry(t, f) /\ (Entry(t, f) = w => w.of = tip[t.branch] /\ w.id = f.id)
    BY <2>3 DEF Entry
  <2>6. CASE UNCHANGED runs /\ To(q, Lost(t))
    BY <1>0, <2>6, OrderLoses
  <2>7. CASE UNCHANGED runs /\ To(q, x) /\ ~Selected(q, FileOf(w.of, w.id)) /\ t.kind # "manual"
    <3>1. ASSUME Stayed(t), NEW f \in Files(dir, tip[t.branch]), Wants(t.kind, t.branch, f)
          PROVE  Entry(t, f) # w
      <4>1. SUFFICES ASSUME Entry(t, f) = w PROVE FALSE
        OBVIOUS
      <4>2. w.of = tip[t.branch] /\ w.id = f.id /\ w.of \in 1..MaxCommit
        BY <2>5, <4>1 DEF Trig, Found
      <4>3. FileOf(w.of, w.id) = f
        BY <4>2, FileIs
      <4>4. QED
        BY <1>0, <2>7, <3>1, <4>3 DEF Selected, Wants
    <3>2. Awaited(q, x)
      BY <1>1, <2>3, <2>5, <3>1 DEF Awaited
    <3>3. QED
      BY <1>0, <1>1, <2>3, <2>4, <2>7, <3>2, OrderTo
  <2>8. CASE runs' = runs \cup {NewRun(q, w)} /\ To(q, x)
    <3>1. trig' = [trig EXCEPT ![q] = x] /\ UNCHANGED <<tip, dir>>
      BY <2>8 DEF To, refs
    <3>2. PICK y : y = NewRun(q, w)
      OBVIOUS
    <3>3. /\ y.by = q /\ y.id = w.id /\ y.of = w.of /\ y.kind = t.kind /\ y.ref = t.branch
          /\ (y.moved <=> ~Stayed(t))
      BY <1>0, <3>2 DEF NewRun, Stayed
    <3>4. runs' = runs \cup {y}
      BY <2>8, <3>2
    <3>5. ASSUME Stayed(t), t.kind # "manual", NEW f \in Files(dir, tip[t.branch]), Wants(t.kind, t.branch, f)
          PROVE  Entry(t, f) \in t.listed \ {w} \/ \E s \in runs' : s.by = q /\ s.id = f.id
      <4>1. Entry(t, f) \in t.listed \/ \E s \in runs : s.by = q /\ s.id = f.id
        BY <1>1, <3>5 DEF Awaited
      <4>2. CASE Entry(t, f) = w
        BY <2>5, <3>3, <3>4, <4>2
      <4>3. QED
        BY <3>4, <4>1, <4>2
    <3>6. Awaited(q, x)'
      <4>1. \A f : Entry(x, f)' = Entry(t, f)
        BY <2>3, <3>1 DEF Entry
      <4>2. QED
        BY <1>1, <2>3, <3>1, <3>5, <4>1 DEF Awaited, Wants, Stayed
    <3>7. (\A p \in Request : Distinct(trig[p])' /\ Awaited(p, trig[p])') /\ (\A z \in runs : Behind(z)' /\ InFront(z)')
      BY <1>0, <1>1, <2>3, <2>4, <3>1, <3>4, <3>6, OrderMoves
    <3>8. Behind(y)'
      <4>1. trig'[q] = x
        BY <3>1 DEF IInv, TrigOK
      <4>2. \A v \in x.listed : v.id # w.id
        BY <1>1, <2>3 DEF Distinct
      <4>3. QED
        BY <1>1, <2>3, <3>3, <4>1, <4>2 DEF Behind
    <3>9. InFront(y)'
      <4>1. ASSUME Stayed(t), t.kind # "manual", NEW f \in Files(dir, w.of), f.id < w.id, Wants(t.kind, t.branch, f)
            PROVE  \E s \in runs' : s.by = q /\ s.id = f.id
        <5>1. w.of = tip[t.branch] /\ w.of \in 1..MaxCommit /\ w.id \in Nat
          BY <1>1, <4>1 DEF ListedHere, Trig, Found
        <5>2. f.id \in Nat
          BY <4>1, <5>1, FileIs
        <5>3. ASSUME Entry(t, f) \in t.listed PROVE FALSE
          <6>1. w.id <= f.id
            BY <2>1, <5>3 DEF Entry
          <6>2. QED
            BY <4>1, <5>1, <5>2, <6>1
        <5>4. QED
          BY <3>5, <4>1, <5>1, <5>3
      <4>2. QED
        BY <3>1, <3>3, <4>1 DEF InFront, Wants
    <3>10. ASSUME NEW z \in runs, z.by = q, z.id = w.id PROVE FALSE
      BY <1>0, <3>10 DEF OrderInv, Behind
    <3>11. OncePerTrigger'
      BY <3>3, <3>4, <3>10 DEF OrderInv, OncePerTrigger
    <3>12. QED
      BY <3>4, <3>7, <3>8, <3>9, <3>11 DEF OrderInv
  <2>9. QED
    BY <2>1, <2>2, <2>6, <2>7, <2>8
<1>4. QED
  BY <1>2, <1>3

LEMMA OrderInit == Init => OrderInv
<1> SUFFICES ASSUME Init PROVE OrderInv
  OBVIOUS
<1>1. ASSUME NEW q \in Request PROVE Distinct(trig[q]) /\ Awaited(q, trig[q])
  BY DEF Init, NoTrig, Distinct, Awaited
<1>2. QED
  BY <1>1 DEF Init, OrderInv, OncePerTrigger

LEMMA OrderStep == IInv /\ OrderInv /\ [Next]_vars => OrderInv'
<1> SUFFICES ASSUME IInv, OrderInv, [Next]_vars PROVE OrderInv'
  OBVIOUS
<1>1. ASSUME NEW q \in Request, Trace(q) PROVE OrderInv'
  BY <1>1, OrderActivity, OrderListing, OrderQueue DEF Trace
<1>2. ASSUME NEW q \in Request, Fault(q) PROVE OrderInv'
  BY <1>2, OrderLoses DEF Fault
<1>3. ASSUME NEW q \in Request, Release(q) \/ \E b \in Branch \cup {""} : Dispatch(q, b) PROVE OrderInv'
  BY <1>3, OrderSetOff
<1>4. CASE \/ \E q \in Request : Requests(q)
           \/ \E b \in Branch : Checkout(b)
           \/ \E r \in runs : Start(r)
           \/ UNCHANGED vars
  BY <1>4, OrderOthers
<1>5. QED
  BY <1>1, <1>2, <1>3, <1>4 DEF Next

\* However requests and triggers overlap, whatever the directory holds and wherever
\* the loop over the workflows ends (workflows.ts:187, 200): a trigger has queued one
\* run of each of the first workflows it selects, until its ref moves.
THEOREM QueuedInOrderHolds == Spec => []QueuedInOrder
<1>1. Init => IInv /\ OrderInv
  BY InitIInv, OrderInit
<1>2. IInv /\ OrderInv /\ [Next]_vars => (IInv /\ OrderInv)'
  BY NextKeeps, OrderStep
<1>3. IInv /\ OrderInv => QueuedInOrder
  BY DEF OrderInv, OncePerTrigger, InFront, Wants, QueuedInOrder
<1>4. QED
  BY <1>1, <1>2, <1>3, PTL DEF Spec

-----------------------------------------------------------------------------
(* The search of assertAcyclicWorkflow.  It is a function of the number of  *)
(* its steps; that there is one and what it does at each is shown by the    *)
(* least number at which it would fail.                                     *)

\* A nonempty set of numbers has a least one.
LEMMA LeastNatural ==
  ASSUME NEW T \in SUBSET Nat, T # {}
  PROVE  \E n \in T : \A m \in T : n <= m
<1> DEFINE less == {p \in Nat \X Nat : p[1] < p[2]}
<1>1. less = OpToRel(<, Nat)
  BY SMT DEF OpToRel
<1>2. IsWellFoundedOn(less, Nat)
  BY <1>1, NatLessThanWellFounded
<1> HIDE DEF less
<1>3. PICK n \in T : \A m \in T : <<m, n>> \notin less
  BY <1>2, WFMin
<1>4. \A i, j \in Nat : i < j => <<i, j>> \in less
  BY DEF less
<1>5. ASSUME NEW m \in T PROVE n <= m
  <2>1. m \in Nat /\ n \in Nat /\ ~ (m < n)
    BY <1>3, <1>4
  <2>2. QED
    BY <2>1
<1>6. QED
  BY <1>5

\* What a step makes of a state, and where the search is after each of m steps.
Step(needs) == [s \in States(needs) |-> SearchStep(needs, s)]
After(needs, f, m) == f = [n \in 0..m |-> IF n = 0 THEN Unsearched ELSE Step(needs)[f[n - 1]]]

LEMMA SearchExists ==
  ASSUME NEW needs, NEW m \in Nat
  PROVE  \E f : After(needs, f, m)
<1> DEFINE T == {k \in Nat : ~\E f : After(needs, f, k)}
<1> SUFFICES ASSUME T # {} PROVE FALSE
  OBVIOUS
<1>1. PICK k \in T : \A j \in T : k <= j
  <2> T \in SUBSET Nat
    OBVIOUS
  <2> HIDE DEF T
  <2> QED
    BY LeastNatural
<1>2. k # 0
  <2>1. After(needs, [n \in 0..0 |-> Unsearched], 0)
    BY DEF After
  <2>2. QED
    BY <2>1
<1>3. k - 1 \in Nat /\ k - 1 \notin T
  BY <1>1, <1>2
<1>4. PICK f : After(needs, f, k - 1)
  BY <1>3
<1>5. After(needs, [n \in 0..k |-> IF n = k THEN Step(needs)[f[k - 1]] ELSE f[n]], k)
  BY <1>2, <1>3, <1>4 DEF After
<1>6. QED
  BY <1>1, <1>5

\* The recursive definition of Search is one of a function.
LEMMA SearchSteps ==
  ASSUME NEW needs, Longest(needs) \in Nat
  PROVE  /\ Search(needs)[0] = Unsearched
         /\ \A n \in 1..Longest(needs) : Search(needs)[n - 1] \in States(needs) =>
              Search(needs)[n] = SearchStep(needs, Search(needs)[n - 1])
<1>1. After(needs, Search(needs), Longest(needs))
  BY SearchExists DEF Search, After, Step
<1>2. \A n \in 1..Longest(needs) : Search(needs)[n] = Step(needs)[Search(needs)[n - 1]]
  BY <1>1 DEF After
<1>3. QED
  BY <1>1, <1>2 DEF After, Step

-----------------------------------------------------------------------------
\* The k lowest calls on the stack stay as they are.
Keeps(s, t, k) == \A i \in 1..k : t.stack[i] = s.stack[i]
OnStack(s, n) == \E i \in 1..Len(s.stack) : s.stack[i].job = n

\* What a step may be: a visit is started, the latest call returns, it looks at a need
\* that is visited, or visits one, or throws.
Starts(needs, s, t) ==
  /\ s.stack = << >> /\ t.ok = s.ok /\ t.seen = s.seen /\ Len(t.stack) = 1
  /\ \E j \in DOMAIN needs \ s.seen : t.stack[1] = Call(needs, j)

Returns(s, t) ==
  LET d == Len(s.stack) IN
  /\ d \in Nat \ {0} /\ s.stack[d].left = {}
  /\ t.ok = s.ok /\ t.seen = s.seen \cup {s.stack[d].job}
  /\ Len(t.stack) = d - 1 /\ Keeps(s, t, d - 1)

Looks(s, t) ==
  LET d == Len(s.stack) IN
  \E n \in s.stack[d].left \cap s.seen :
    /\ d \in Nat \ {0} /\ t.ok = s.ok /\ t.seen = s.seen
    /\ Len(t.stack) = d /\ Keeps(s, t, d - 1)
    /\ t.stack[d].job = s.stack[d].job /\ t.stack[d].left = s.stack[d].left \ {n}

Throws(needs, s, t) ==
  LET d == Len(s.stack) IN
  \E n \in s.stack[d].left \ s.seen :
    /\ d \in Nat \ {0} /\ t.ok = FALSE /\ t.seen = s.seen /\ t.stack = s.stack
    /\ n \notin DOMAIN needs \/ OnStack(s, n)

Visits(needs, s, t) ==
  LET d == Len(s.stack) IN
  \E n \in (s.stack[d].left \cap DOMAIN needs) \ s.seen :
    /\ d \in Nat \ {0} /\ t.ok = s.ok /\ t.seen = s.seen /\ ~OnStack(s, n)
    /\ Len(t.stack) = d + 1 /\ Keeps(s, t, d - 1)
    /\ t.stack[d].job = s.stack[d].job /\ t.stack[d].left = s.stack[d].left \ {n}
    /\ t.stack[d + 1] = Call(needs, n)

Ended(needs, s) == s.stack = << >> /\ DOMAIN needs \subseteq s.seen

LEMMA CallTyped == ASSUME NEW needs, NEW j \in DOMAIN needs PROVE Call(needs, j) \in Calls(needs)
BY DEF Call, Calls

LEMMA StartCases ==
  ASSUME NEW needs, NEW s \in States(needs), s.ok, s.stack = << >>
  PROVE  LET t == SearchStep(needs, s) IN
         t \in States(needs) /\ (Starts(needs, s, t) \/ (Ended(needs, s) /\ t = s))
<1>1. CASE DOMAIN needs \subseteq s.seen
  BY <1>1 DEF SearchStep, StartVisit, Ended
<1>2. CASE ~(DOMAIN needs \subseteq s.seen)
  <2>1. PICK j \in DOMAIN needs \ s.seen : SearchStep(needs, s) = [s EXCEPT !.stack = <<Call(needs, j)>>]
    BY <1>2 DEF SearchStep, StartVisit
  <2>2. <<Call(needs, j)>> \in Seq(Calls(needs)) /\ Len(<<Call(needs, j)>>) = 1
    BY CallTyped
  <2>3. PICK stack \in Seq(Calls(needs)) : stack = <<Call(needs, j)>>
    BY <2>2
  <2>4. PICK t : t = SearchStep(needs, s)
    OBVIOUS
  <2>5. t \in States(needs) /\ t.ok = s.ok /\ t.seen = s.seen /\ t.stack = stack
    BY <2>1, <2>3, <2>4 DEF States
  <2>6. Len(stack) = 1 /\ stack[1] = Call(needs, j)
    BY <2>2, <2>3
  <2>7. QED
    BY <2>4, <2>5, <2>6 DEF Starts
<1>3. QED
  BY <1>1, <1>2

LEMMA GoOnCases ==
  ASSUME NEW needs, NEW s \in States(needs), s.ok, s.stack # << >>
  PROVE  LET t == SearchStep(needs, s) IN
         t \in States(needs) /\ (Returns(s, t) \/ Looks(s, t) \/ Throws(needs, s, t) \/ Visits(needs, s, t))
<1>0. PICK t : t = SearchStep(needs, s)
  OBVIOUS
<1>1. PICK d \in Nat \ {0} : d = Len(s.stack)
  BY DEF States
<1>2. s.stack \in Seq(Calls(needs)) /\ s.seen \in SUBSET DOMAIN needs
  BY DEF States
<1>3. PICK call \in Calls(needs) : call = s.stack[d]
  BY <1>1, <1>2
<1>4. t = GoOn(needs, s)
  BY <1>0 DEF SearchStep
<1>5. CASE call.left = {}
  <2>1. PICK stack : stack = SubSeq(s.stack, 1, d - 1)
    OBVIOUS
  <2>2. stack \in Seq(Calls(needs)) /\ Len(stack) = d - 1 /\ \A i \in 1..(d - 1) : stack[i] = s.stack[i]
    <3>1. \A i \in 1..(d - 1) : s.stack[i] \in Calls(needs)
      BY <1>1, <1>2
    <3>2. QED
      BY <1>1, <2>1, <3>1, SubSeqProperties
  <2>3. t = [s EXCEPT !.stack = stack, !.seen = s.seen \cup {call.job}]
    BY <1>1, <1>3, <1>4, <1>5, <2>1 DEF GoOn
  <2>4. call.job \in DOMAIN needs
    BY DEF Calls
  <2>5. t \in States(needs) /\ t.ok = s.ok /\ t.seen = s.seen \cup {call.job} /\ t.stack = stack
    BY <1>2, <2>2, <2>3, <2>4 DEF States
  <2>6. QED
    BY <1>0, <1>1, <1>3, <1>5, <2>2, <2>5 DEF Returns, Keeps
<1>6. CASE call.left # {}
  <2>1. PICK n \in call.left : n = CHOOSE m \in call.left : TRUE
    BY <1>6
  <2>2. PICK under : under = [call EXCEPT !.left = @ \ {n}]
    OBVIOUS
  <2>3. under \in Calls(needs) /\ under.job = call.job /\ under.left = call.left \ {n}
    BY <2>2 DEF Calls
  <2>4. PICK stack : stack = [s.stack EXCEPT ![d] = under]
    OBVIOUS
  <2>5. stack \in Seq(Calls(needs)) /\ Len(stack) = d /\ stack[d] = under
        /\ \A i \in 1..(d - 1) : stack[i] = s.stack[i]
    BY <1>1, <1>2, <2>3, <2>4
  <2>6. (\E i \in 1..d : stack[i].job = n) <=> OnStack(s, n)
    <3>1. \A i \in 1..d : stack[i].job = s.stack[i].job
      BY <1>1, <1>3, <2>3, <2>5
    <3>2. QED
      BY <1>1, <3>1 DEF OnStack
  <2>7. t = IF n \in s.seen THEN [s EXCEPT !.stack = stack]
            ELSE IF n \notin DOMAIN needs \/ \E i \in 1..d : stack[i].job = n THEN [s EXCEPT !.ok = FALSE]
            ELSE [s EXCEPT !.stack = Append(stack, Call(needs, n))]
    BY <1>1, <1>3, <1>4, <1>6, <2>1, <2>2, <2>4 DEF GoOn
  <2>8. CASE n \in s.seen
    <3>1. t = [s EXCEPT !.stack = stack]
      BY <2>7, <2>8
    <3>2. t \in States(needs) /\ t.ok = s.ok /\ t.seen = s.seen /\ t.stack = stack
      BY <2>5, <3>1 DEF States
    <3>3. Looks(s, t)
      BY <1>1, <1>3, <2>3, <2>5, <2>8, <3>2 DEF Looks, Keeps
    <3>4. QED
      BY <1>0, <3>2, <3>3
  <2>9. CASE n \notin s.seen /\ (n \notin DOMAIN needs \/ OnStack(s, n))
    <3>1. t = [s EXCEPT !.ok = FALSE]
      BY <2>6, <2>7, <2>9
    <3>2. t \in States(needs) /\ t.ok = FALSE /\ t.seen = s.seen /\ t.stack = s.stack
      BY <3>1 DEF States
    <3>3. Throws(needs, s, t)
      BY <1>1, <1>3, <2>9, <3>2 DEF Throws
    <3>4. QED
      BY <1>0, <3>2, <3>3
  <2>10. CASE n \notin s.seen /\ n \in DOMAIN needs /\ ~OnStack(s, n)
    <3>1. t = [s EXCEPT !.stack = Append(stack, Call(needs, n))]
      BY <2>6, <2>7, <2>10
    <3>2. PICK more : more = Append(stack, Call(needs, n))
      OBVIOUS
    <3>3. /\ more \in Seq(Calls(needs)) /\ Len(more) = d + 1 /\ more[d + 1] = Call(needs, n) /\ more[d] = under
          /\ \A i \in 1..(d - 1) : more[i] = s.stack[i]
      BY <2>5, <2>10, <3>2, CallTyped
    <3>4. t \in States(needs) /\ t.ok = s.ok /\ t.seen = s.seen /\ t.stack = more
      BY <3>1, <3>2, <3>3 DEF States
    <3>5. Visits(needs, s, t)
      BY <1>1, <1>3, <2>3, <2>10, <3>3, <3>4 DEF Visits, Keeps
    <3>6. QED
      BY <1>0, <3>4, <3>5
  <2>11. QED
    BY <2>8, <2>9, <2>10
<1>7. QED
  BY <1>5, <1>6
-----------------------------------------------------------------------------
\* Each call is of another job that is not visited yet, for a need of the call below;
\* what its loop has left behind is visited, or being visited by the call above.
Path(needs, s) ==
  /\ \A i, k \in 1..Len(s.stack) : s.stack[i].job = s.stack[k].job => i = k
  /\ \A i \in 1..Len(s.stack) : s.stack[i].job \notin s.seen /\ s.stack[i].left \subseteq needs[s.stack[i].job]
  /\ \A i \in 1..(Len(s.stack) - 1) : s.stack[i + 1].job \in needs[s.stack[i].job]
  /\ \A i \in 1..Len(s.stack) : \A n \in needs[s.stack[i].job] \ s.stack[i].left :
       n \in s.seen \/ (i < Len(s.stack) /\ n = s.stack[i + 1].job)

\* What is visited needs nothing else, and is ordered.
Settled(needs, s) ==
  /\ \A j \in s.seen : needs[j] \subseteq s.seen
  /\ \A S \in SUBSET s.seen : S # {} => \E j \in S : needs[j] \cap S = {}

LEMMA StackTyped ==
  ASSUME NEW needs, NEW s \in States(needs)
  PROVE  /\ Len(s.stack) \in Nat /\ s.seen \in SUBSET DOMAIN needs /\ s.ok \in BOOLEAN
         /\ \A i \in 1..Len(s.stack) : s.stack[i].job \in DOMAIN needs
         /\ s.stack = << >> <=> Len(s.stack) = 0
<1>1. s.stack \in Seq(Calls(needs)) /\ s.seen \in SUBSET DOMAIN needs /\ s.ok \in BOOLEAN
  BY DEF States
<1>2. \A i \in 1..Len(s.stack) : s.stack[i] \in Calls(needs)
  BY <1>1
<1>3. QED
  BY <1>1, <1>2 DEF Calls

\* Every step of the search keeps the stack a path.
LEMMA PathKept ==
  ASSUME NEW needs, NEW s \in States(needs), NEW t \in States(needs), Path(needs, s),
         Starts(needs, s, t) \/ Returns(s, t) \/ Looks(s, t) \/ Throws(needs, s, t) \/ Visits(needs, s, t)
  PROVE  Path(needs, t)
<1>0. PICK d \in Nat : d = Len(s.stack)
  BY StackTyped
<1>1. CASE Starts(needs, s, t)
  BY <1>1 DEF Starts, Path, Call
<1>2. CASE Returns(s, t)
  <2>1. Len(t.stack) = d - 1 /\ d \in Nat \ {0}
    BY <1>0, <1>2 DEF Returns
  <2>2. \A i \in 1..(d - 1) : t.stack[i] = s.stack[i]
    BY <1>0, <1>2 DEF Returns, Keeps
  <2>3. t.seen = s.seen \cup {s.stack[d].job}
    BY <1>0, <1>2 DEF Returns
  <2>4. \A i, k \in 1..d : s.stack[i].job = s.stack[k].job => i = k
    BY <1>0 DEF Path
  <2>5. \A i \in 1..(d - 1) : i \in 1..d /\ t.stack[i].job \notin t.seen
                              /\ t.stack[i].left \subseteq needs[t.stack[i].job]
    BY <1>0, <2>1, <2>2, <2>3, <2>4 DEF Path
  <2>6. ASSUME NEW i \in 1..(d - 1), NEW m \in needs[t.stack[i].job] \ t.stack[i].left
        PROVE  m \in t.seen \/ (i < d - 1 /\ m = t.stack[i + 1].job)
    <3>1. m \in s.seen \/ m = s.stack[i + 1].job
      BY <1>0, <2>1, <2>2, <2>5, <2>6 DEF Path
    <3>2. i = d - 1 \/ i + 1 \in 1..(d - 1)
      BY <2>1
    <3>3. QED
      BY <2>1, <2>2, <2>3, <3>1, <3>2
  <2>7. \A i \in 1..(d - 1 - 1) : t.stack[i + 1].job \in needs[t.stack[i].job]
    <3>1. \A i \in 1..(d - 1 - 1) : i \in 1..(d - 1) /\ i + 1 \in 1..(d - 1)
      BY <2>1
    <3>2. QED
      BY <1>0, <2>2, <3>1 DEF Path
  <2>8. \A i, k \in 1..(d - 1) : t.stack[i].job = t.stack[k].job => i = k
    BY <2>2, <2>4, <2>5
  <2>9. QED
    BY <2>1, <2>5, <2>6, <2>7, <2>8 DEF Path
<1>3. CASE Looks(s, t)
  <2>1. PICK n \in s.seen :
          /\ d \in Nat \ {0} /\ t.seen = s.seen /\ Len(t.stack) = d
          /\ t.stack[d].job = s.stack[d].job /\ t.stack[d].left = s.stack[d].left \ {n}
    BY <1>0, <1>3 DEF Looks
  <2>2. \A i \in 1..(d - 1) : t.stack[i] = s.stack[i]
    BY <1>0, <1>3 DEF Looks, Keeps
  <2>3. \A i \in 1..d : i \in 1..(d - 1) \/ i = d
    BY <2>1
  <2>4. \A i \in 1..d : t.stack[i].job = s.stack[i].job /\ s.stack[i].left \ {n} \subseteq t.stack[i].left
                        /\ t.stack[i].left \subseteq s.stack[i].left
    BY <2>1, <2>2, <2>3
  <2>5. \A i \in 1..(d - 1) : i \in 1..d /\ i + 1 \in 1..d
    BY <2>1
  <2>6. \A i \in 1..d : \A m \in needs[t.stack[i].job] \ t.stack[i].left :
          m \in t.seen \/ (i < d /\ m = t.stack[i + 1].job)
    <3>1. ASSUME NEW i \in 1..d, NEW m \in needs[t.stack[i].job] \ t.stack[i].left, m # n
          PROVE  m \in t.seen \/ (i < d /\ m = t.stack[i + 1].job)
      <4>1. m \in needs[s.stack[i].job] \ s.stack[i].left
        BY <2>4, <3>1
      <4>2. m \in s.seen \/ (i < d /\ m = s.stack[i + 1].job)
        BY <1>0, <4>1 DEF Path
      <4>3. QED
        BY <2>1, <2>3, <2>4, <2>5, <4>2
    <3>2. QED
      BY <2>1, <3>1
  <2>7. \A i, k \in 1..d : t.stack[i].job = t.stack[k].job => i = k
    BY <1>0, <2>4 DEF Path
  <2>8. \A i \in 1..d : t.stack[i].job \notin t.seen /\ t.stack[i].left \subseteq needs[t.stack[i].job]
    BY <1>0, <2>1, <2>4 DEF Path
  <2>9. \A i \in 1..(d - 1) : t.stack[i + 1].job \in needs[t.stack[i].job]
    BY <1>0, <2>4, <2>5 DEF Path
  <2>10. QED
    BY <2>1, <2>6, <2>7, <2>8, <2>9 DEF Path
<1>4. CASE Throws(needs, s, t)
  BY <1>4 DEF Throws, Path
<1>5. CASE Visits(needs, s, t)
  <2>1. PICK n \in s.stack[d].left \cap DOMAIN needs :
          /\ n \notin s.seen /\ d \in Nat \ {0} /\ t.seen = s.seen /\ ~OnStack(s, n)
          /\ Len(t.stack) = d + 1
          /\ t.stack[d].job = s.stack[d].job /\ t.stack[d].left = s.stack[d].left \ {n}
          /\ t.stack[d + 1] = Call(needs, n)
    BY <1>0, <1>5 DEF Visits
  <2>2. \A i \in 1..(d - 1) : t.stack[i] = s.stack[i]
    BY <1>0, <1>5 DEF Visits, Keeps
  <2>3. t.stack[d + 1].job = n /\ t.stack[d + 1].left = needs[n]
    BY <2>1 DEF Call
  <2>0. /\ \A i \in 1..(d + 1) : i \in 1..d \/ i = d + 1
        /\ \A i \in 1..d : i \in 1..(d - 1) \/ i = d
        /\ \A i \in 1..(d - 1) : i \in 1..d /\ i + 1 \in 1..d
    BY <2>1
  <2>4. \A i \in 1..d : t.stack[i].job = s.stack[i].job /\ t.stack[i].job # n
                        /\ t.stack[i].left \subseteq s.stack[i].left
    BY <1>0, <2>0, <2>1, <2>2 DEF OnStack
  <2>5. n \in needs[s.stack[d].job]
    BY <1>0, <2>1 DEF Path
  <2>6. \A i, k \in 1..(d + 1) : t.stack[i].job = t.stack[k].job => i = k
    <3>1. \A i, k \in 1..d : t.stack[i].job = t.stack[k].job => i = k
      BY <1>0, <2>4 DEF Path
    <3>2. QED
      BY <2>0, <2>3, <2>4, <3>1
  <2>7. \A i \in 1..(d + 1) : t.stack[i].job \notin t.seen /\ t.stack[i].left \subseteq needs[t.stack[i].job]
    <3>1. \A i \in 1..d : t.stack[i].job \notin t.seen /\ t.stack[i].left \subseteq needs[t.stack[i].job]
      BY <1>0, <2>1, <2>4 DEF Path
    <3>2. QED
      BY <2>0, <2>1, <2>3, <3>1
  <2>8. \A i \in 1..d : t.stack[i + 1].job \in needs[t.stack[i].job]
    <3>1. \A i \in 1..(d - 1) : t.stack[i + 1].job \in needs[t.stack[i].job]
      BY <1>0, <2>0, <2>4 DEF Path
    <3>2. QED
      BY <2>0, <2>1, <2>3, <2>5, <3>1
  <2>9. \A i \in 1..(d + 1) : \A m \in needs[t.stack[i].job] \ t.stack[i].left :
          m \in t.seen \/ (i < d + 1 /\ m = t.stack[i + 1].job)
    <3>1. ASSUME NEW i \in 1..(d - 1), NEW m \in needs[t.stack[i].job] \ t.stack[i].left
          PROVE  m \in t.seen \/ (i < d + 1 /\ m = t.stack[i + 1].job)
      <4>1. i + 1 \in 1..d /\ i \in 1..d
        BY <3>1
      <4>2. m \in s.seen \/ m = s.stack[i + 1].job
        BY <1>0, <2>2, <3>1, <4>1 DEF Path
      <4>3. t.stack[i + 1].job = s.stack[i + 1].job /\ i < d + 1
        BY <2>1, <2>4, <4>1
      <4>4. QED
        BY <2>1, <4>2, <4>3
    <3>2. ASSUME NEW m \in needs[t.stack[d].job] \ t.stack[d].left
          PROVE  m \in t.seen \/ m = t.stack[d + 1].job
      BY <1>0, <2>1, <2>3, <3>2 DEF Path
    <3>3. \A i \in 1..(d + 1) : i \in 1..(d - 1) \/ i = d \/ i = d + 1
      BY <2>1
    <3>4. ASSUME NEW i \in 1..(d + 1), NEW m \in needs[t.stack[i].job] \ t.stack[i].left
          PROVE  m \in t.seen \/ (i < d + 1 /\ m = t.stack[i + 1].job)
      <4>1. CASE i \in 1..(d - 1)
        BY <3>1, <3>4, <4>1
      <4>2. CASE i = d
        BY <2>1, <3>2, <3>4, <4>2
      <4>3. CASE i = d + 1
        BY <2>1, <2>3, <3>4, <4>3
      <4>4. QED
        BY <3>3, <4>1, <4>2, <4>3
    <3>5. QED
      BY <3>4
  <2>10. QED
    BY <2>1, <2>6, <2>7, <2>8, <2>9 DEF Path
<1>6. QED
  BY <1>1, <1>2, <1>3, <1>4, <1>5

\* A job is visited when all it needs is.
LEMMA SettledKept ==
  ASSUME NEW needs, NEW s \in States(needs), NEW t \in States(needs), Path(needs, s), Settled(needs, s),
         Starts(needs, s, t) \/ Returns(s, t) \/ Looks(s, t) \/ Throws(needs, s, t) \/ Visits(needs, s, t)
  PROVE  Settled(needs, t)
<1>1. CASE t.seen = s.seen
  BY <1>1 DEF Settled
<1>2. CASE Returns(s, t)
  <2>1. PICK d \in Nat \ {0} : d = Len(s.stack)
    BY <1>2 DEF Returns
  <2>2. PICK j : j = s.stack[d].job
    OBVIOUS
  <2>3. t.seen = s.seen \cup {j} /\ s.stack[d].left = {}
    BY <1>2, <2>1, <2>2 DEF Returns
  <2>4. j \notin s.seen /\ needs[j] \subseteq s.seen
    BY <2>1, <2>2, <2>3 DEF Path
  <2>5. ASSUME NEW S \in SUBSET t.seen, S # {} PROVE \E i \in S : needs[i] \cap S = {}
    <3>1. CASE S \cap s.seen = {}
      BY <2>3, <2>4, <2>5, <3>1
    <3>2. CASE S \cap s.seen # {}
      <4>1. PICK i \in S \cap s.seen : needs[i] \cap (S \cap s.seen) = {}
        BY <3>2 DEF Settled
      <4>2. needs[i] \subseteq s.seen
        BY <4>1 DEF Settled
      <4>3. QED
        BY <4>1, <4>2
    <3>3. QED
      BY <3>1, <3>2
  <2>6. QED
    BY <2>3, <2>4, <2>5 DEF Settled
<1>3. QED
  BY <1>1, <1>2 DEF Starts, Looks, Throws, Visits
-----------------------------------------------------------------------------
\* validateJobs lets no other graph pass.
Known(needs) == \A j \in DOMAIN needs : needs[j] \subseteq DOMAIN needs

\* It throws at a job that is unknown, or that needs itself by way of those on the
\* stack above it.
LEMMA ThrowsRightly ==
  ASSUME NEW needs, NEW s \in States(needs), NEW t, Path(needs, s), Throws(needs, s, t)
  PROVE  ~(Known(needs) /\ Ordered(needs))
<1>1. PICK d \in Nat \ {0} : d = Len(s.stack)
  BY DEF Throws
<1>2. PICK n \in s.stack[d].left : n \notin DOMAIN needs \/ OnStack(s, n)
  BY <1>1 DEF Throws
<1>3. s.stack[d].job \in DOMAIN needs /\ n \in needs[s.stack[d].job]
  BY <1>1, <1>2, StackTyped DEF Path
<1>4. CASE n \notin DOMAIN needs
  BY <1>3, <1>4 DEF Known
<1>5. CASE OnStack(s, n)
  <2>1. PICK k \in 1..d : s.stack[k].job = n
    BY <1>1, <1>5 DEF OnStack
  <2>2. PICK S : S = {s.stack[i].job : i \in k..d}
    OBVIOUS
  <2>3. k \in k..d /\ \A i \in k..d : i \in 1..d
    BY <2>1
  <2>4. S \in SUBSET DOMAIN needs /\ n \in S
    <3>1. \A i \in k..d : s.stack[i].job \in DOMAIN needs
      BY <1>1, <2>3, StackTyped
    <3>2. QED
      BY <2>1, <2>2, <2>3, <3>1
  <2>5. ASSUME NEW j \in S PROVE needs[j] \cap S # {}
    <3>1. PICK i \in k..d : j = s.stack[i].job
      BY <2>2
    <3>2. CASE i = d
      BY <1>3, <2>1, <2>2, <3>1, <3>2
    <3>3. CASE i # d
      <4>1. i \in 1..(d - 1) /\ i + 1 \in k..d
        BY <2>1, <3>1, <3>3
      <4>2. s.stack[i + 1].job \in needs[j]
        BY <1>1, <3>1, <4>1 DEF Path
      <4>3. QED
        BY <2>2, <4>1, <4>2
    <3>4. QED
      BY <3>2, <3>3
  <2>6. QED
    BY <2>4, <2>5 DEF Ordered
<1>6. QED
  BY <1>2, <1>4, <1>5

-----------------------------------------------------------------------------
\* How far the search is: the needs it has looked at, the jobs it has entered and those
\* it is done with.  Each step adds to one of them, so that it ends in time.
Looked(needs, s) ==
  {p \in (DOMAIN needs) \X (DOMAIN needs) : p[2] \in needs[p[1]] /\
     (p[1] \in s.seen \/ \E i \in 1..Len(s.stack) : s.stack[i].job = p[1] /\ p[2] \notin s.stack[i].left)}
Entered(s) == s.seen \cup {s.stack[i].job : i \in 1..Len(s.stack)}
Effort(needs, s) == Cardinality(Looked(needs, s)) + Cardinality(Entered(s)) + Cardinality(s.seen)

\* Of two subsets of a finite set, one in the other.
LEMMA Counts ==
  ASSUME NEW T, IsFiniteSet(T), NEW A \in SUBSET T, NEW B \in SUBSET T, A \subseteq B
  PROVE  /\ Cardinality(A) \in Nat /\ Cardinality(B) \in Nat
         /\ Cardinality(A) <= Cardinality(B) /\ Cardinality(B) <= Cardinality(T)
         /\ A # B => Cardinality(A) < Cardinality(B)
<1>1. IsFiniteSet(B) /\ Cardinality(B) <= Cardinality(T)
  BY FS_Subset
<1>2. IsFiniteSet(A) /\ Cardinality(A) <= Cardinality(B) /\ (Cardinality(B) = Cardinality(A) => B = A)
  BY <1>1, FS_Subset
<1>3. QED
  BY <1>1, <1>2, FS_CardinalityType

LEMMA EffortGrows ==
  ASSUME NEW needs, IsFiniteSet(DOMAIN needs), NEW s \in States(needs), NEW t \in States(needs), Path(needs, s),
         Starts(needs, s, t) \/ Returns(s, t) \/ Looks(s, t) \/ Visits(needs, s, t)
  PROVE  Effort(needs, s) \in Int /\ Effort(needs, t) \in Int /\ Effort(needs, s) < Effort(needs, t)
<1>1. IsFiniteSet((DOMAIN needs) \X (DOMAIN needs))
  BY FS_Product
<1>2. \A x \in {s, t} : Looked(needs, x) \in SUBSET ((DOMAIN needs) \X (DOMAIN needs))
                        /\ Entered(x) \in SUBSET DOMAIN needs /\ x.seen \in SUBSET DOMAIN needs
  BY StackTyped DEF Looked, Entered
<1>3. SUFFICES /\ Looked(needs, s) \subseteq Looked(needs, t) /\ Entered(s) \subseteq Entered(t) /\ s.seen \subseteq t.seen
               /\ Looked(needs, s) # Looked(needs, t) \/ Entered(s) # Entered(t) \/ s.seen # t.seen
  <2>1. PICK a, b, c, x, y, z : /\ a = Cardinality(Looked(needs, s)) /\ b = Cardinality(Entered(s)) /\ c = Cardinality(s.seen)
                          /\ x = Cardinality(Looked(needs, t)) /\ y = Cardinality(Entered(t)) /\ z = Cardinality(t.seen)
    OBVIOUS
  <2>2. a \in Nat /\ x \in Nat /\ a <= x /\ (Looked(needs, s) # Looked(needs, t) => a < x)
    BY <1>1, <1>2, <1>3, <2>1, Counts
  <2>3. b \in Nat /\ y \in Nat /\ b <= y /\ (Entered(s) # Entered(t) => b < y)
    BY <1>2, <1>3, <2>1, Counts
  <2>4. c \in Nat /\ z \in Nat /\ c <= z /\ (s.seen # t.seen => c < z)
    BY <1>2, <1>3, <2>1, Counts
  <2>5. Effort(needs, s) = a + b + c /\ Effort(needs, t) = x + y + z
    BY <2>1 DEF Effort
  <2>6. QED
    BY <1>3, <2>2, <2>3, <2>4, <2>5
<1>4. PICK d \in Nat : d = Len(s.stack)
  BY StackTyped
<1>5. CASE Starts(needs, s, t)
  <2>1. PICK j \in DOMAIN needs \ s.seen : t.stack[1] = Call(needs, j)
    BY <1>5 DEF Starts
  <2>2. d = 0 /\ Len(t.stack) = 1 /\ t.seen = s.seen
    BY <1>4, <1>5, StackTyped DEF Starts
  <2>3. Looked(needs, s) \subseteq Looked(needs, t)
    BY <1>4, <2>2 DEF Looked
  <2>4. Entered(s) = s.seen /\ j \in Entered(t)
    BY <1>4, <2>1, <2>2 DEF Entered, Call
  <2>5. QED
    BY <2>1, <2>2, <2>3, <2>4 DEF Entered
<1>6. CASE Returns(s, t)
  <2>1. d \in Nat \ {0} /\ Len(t.stack) = d - 1 /\ t.seen = s.seen \cup {s.stack[d].job}
    BY <1>4, <1>6 DEF Returns
  <2>2. \A i \in 1..(d - 1) : t.stack[i] = s.stack[i]
    BY <1>4, <1>6 DEF Returns, Keeps
  <2>3. \A i \in 1..d : i \in 1..(d - 1) \/ s.stack[i].job \in t.seen
    BY <2>1
  <2>4. s.stack[d].job \notin s.seen
    BY <1>4, <2>1 DEF Path
  <2>5. Looked(needs, s) \subseteq Looked(needs, t)
    BY <1>4, <2>1, <2>2, <2>3 DEF Looked
  <2>6. Entered(s) \subseteq Entered(t)
    BY <1>4, <2>1, <2>2, <2>3 DEF Entered
  <2>7. QED
    BY <2>1, <2>4, <2>5, <2>6
<1>7. ASSUME NEW n \in s.stack[d].left, n \in DOMAIN needs, d \in Nat \ {0}, t.seen = s.seen,
             Len(t.stack) \in {d, d + 1}, Keeps(s, t, d - 1),
             t.stack[d].job = s.stack[d].job, t.stack[d].left = s.stack[d].left \ {n}
      PROVE  Looked(needs, s) \subseteq Looked(needs, t) /\ Entered(s) \subseteq Entered(t)
             /\ Looked(needs, s) # Looked(needs, t)
  <2>1. \A i \in 1..d : /\ i \in 1..(d - 1) \/ i = d
                        /\ i \in 1..Len(t.stack)
    BY <1>7
  <2>2. \A i \in 1..d : t.stack[i].job = s.stack[i].job /\ t.stack[i].left \subseteq s.stack[i].left
    BY <1>7, <2>1 DEF Keeps
  <2>3. Looked(needs, s) \subseteq Looked(needs, t)
    BY <1>4, <1>7, <2>1, <2>2 DEF Looked
  <2>4. Entered(s) \subseteq Entered(t)
    BY SMTT(30), <1>4, <1>7, <2>1, <2>2 DEF Entered
  <2>5. PICK j \in DOMAIN needs : j = s.stack[d].job
    BY <1>4, <1>7, StackTyped
  <2>6. j \notin s.seen /\ n \in needs[j] /\ \A i \in 1..d : s.stack[i].job = j => i = d
    BY <1>4, <1>7, <2>5 DEF Path
  <2>7. <<j, n>> \notin Looked(needs, s)
    BY <1>4, <1>7, <2>6 DEF Looked
  <2>8. <<j, n>> \in Looked(needs, t)
    <3>1. d \in 1..Len(t.stack) /\ t.stack[d].job = j /\ n \notin t.stack[d].left
      BY <1>7, <2>1, <2>5
    <3>2. QED
      BY <1>7, <2>6, <3>1 DEF Looked
  <2>9. QED
    BY <2>3, <2>4, <2>7, <2>8
<1>8. CASE Looks(s, t)
  BY <1>4, <1>7, <1>8, StackTyped DEF Looks
<1>9. CASE Visits(needs, s, t)
  BY <1>4, <1>7, <1>9 DEF Visits
<1>10. QED
  BY <1>5, <1>6, <1>8, <1>9

\* Where the search is after n steps.
Progress(needs, s, n) ==
  /\ s \in States(needs) /\ Path(needs, s) /\ Settled(needs, s)
  /\ ~s.ok => ~(Known(needs) /\ Ordered(needs))
  /\ s.ok => Ended(needs, s) \/ n <= Effort(needs, s)

\* As long as a job is not visited there are steps left.
LEMMA EffortTyped ==
  ASSUME NEW needs, IsFiniteSet(DOMAIN needs), NEW s \in States(needs)
  PROVE  /\ Effort(needs, s) \in Nat
         /\ Longest(needs) \in Nat
         /\ s.seen # DOMAIN needs => Effort(needs, s) < Longest(needs)
<1>1. PICK c \in Nat : c = Cardinality(DOMAIN needs)
  BY FS_CardinalityType
<1>2. IsFiniteSet((DOMAIN needs) \X (DOMAIN needs)) /\ Cardinality((DOMAIN needs) \X (DOMAIN needs)) = c * c
  BY <1>1, FS_Product
<1>3. /\ Looked(needs, s) \in SUBSET ((DOMAIN needs) \X (DOMAIN needs))
      /\ Entered(s) \in SUBSET DOMAIN needs /\ s.seen \in SUBSET DOMAIN needs
  BY StackTyped DEF Looked, Entered
<1>4. PICK square \in Nat : square = c * c
  BY <1>1
<1>5. PICK a \in Nat : a = Cardinality(Looked(needs, s)) /\ a <= square
  BY <1>2, <1>3, <1>4, FS_Subset, FS_CardinalityType
<1>6. PICK b \in Nat : b = Cardinality(Entered(s)) /\ b <= c
  BY <1>1, <1>3, FS_Subset, FS_CardinalityType
<1>7. PICK e \in Nat : e = Cardinality(s.seen) /\ e <= c /\ (s.seen # DOMAIN needs => e # c)
  BY <1>1, <1>3, FS_Subset, FS_CardinalityType
<1>8. Effort(needs, s) = a + b + e
  BY <1>5, <1>6, <1>7 DEF Effort
<1>9. Longest(needs) = square + 2 * c
  <2>1. Longest(needs) = c * (c + 2)
    BY <1>1 DEF Longest
  <2>2. c * (c + 2) = c * c + 2 * c
    BY <1>1
  <2>3. QED
    BY <1>4, <2>1, <2>2
<1>10. a + b + e \in Nat /\ square + 2 * c \in Nat /\ (e # c => a + b + e < square + 2 * c)
  <2> HIDE <1>1
  <2>1. b + e <= 2 * c /\ (e # c => b + e < 2 * c)
    BY <1>6, <1>7
  <2>2. QED
    BY <1>5, <2>1
<1>11. QED
  BY <1>7, <1>8, <1>9, <1>10

LEMMA ProgressStarts == ASSUME NEW needs, IsFiniteSet(DOMAIN needs) PROVE Progress(needs, Unsearched, 0)
<1>1. PICK stack \in Seq(Calls(needs)) : stack = << >>
  BY EmptySeq
<1>2. Unsearched = [ok |-> TRUE, stack |-> stack, seen |-> {}]
  BY <1>1 DEF Unsearched
<1>3. Unsearched \in States(needs)
  BY <1>2 DEF States
<1>4. Path(needs, Unsearched) /\ Settled(needs, Unsearched) /\ Unsearched.ok
  BY DEF Unsearched, Path, Settled
<1>5. 0 <= Effort(needs, Unsearched)
  BY <1>3, EffortTyped
<1>6. QED
  BY <1>3, <1>4, <1>5 DEF Progress

LEMMA ProgressStep ==
  ASSUME NEW needs, IsFiniteSet(DOMAIN needs), NEW s, NEW n \in Nat, Progress(needs, s, n)
  PROVE  Progress(needs, SearchStep(needs, s), n + 1)
<1>0. s \in States(needs) /\ Path(needs, s) /\ Settled(needs, s)
  BY DEF Progress
<1>1. PICK t : t = SearchStep(needs, s)
  OBVIOUS
<1>2. CASE ~s.ok
  <2>1. t = s
    BY <1>1, <1>2 DEF SearchStep
  <2>2. QED
    BY <1>1, <1>2, <2>1 DEF Progress
<1>3. CASE s.ok /\ t = s /\ Ended(needs, s)
  BY <1>1, <1>3 DEF Progress
<1>4. CASE s.ok /\ t \in States(needs)
           /\ (Starts(needs, s, t) \/ Returns(s, t) \/ Looks(s, t) \/ Throws(needs, s, t) \/ Visits(needs, s, t))
  <2>1. Path(needs, t) /\ Settled(needs, t)
    BY <1>0, <1>4, PathKept, SettledKept
  <2>2. CASE Throws(needs, s, t)
    <3>1. ~(Known(needs) /\ Ordered(needs)) /\ ~t.ok
      BY <1>0, <2>2, ThrowsRightly DEF Throws
    <3>2. QED
      BY <1>1, <1>4, <2>1, <3>1 DEF Progress
  <2>3. CASE Starts(needs, s, t) \/ Returns(s, t) \/ Looks(s, t) \/ Visits(needs, s, t)
    <3>1. Effort(needs, s) \in Int /\ Effort(needs, t) \in Int /\ Effort(needs, s) < Effort(needs, t)
      BY <1>0, <1>4, <2>3, EffortGrows
    <3>2. ~Ended(needs, s)
      BY <1>0, <2>3, StackTyped DEF Ended, Starts, Returns, Looks, Visits
    <3>3. n <= Effort(needs, s)
      BY <1>4, <3>2 DEF Progress
    <3>4. n + 1 <= Effort(needs, t)
      BY <3>1, <3>3
    <3>5. t.ok
      BY <1>4, <2>3 DEF Starts, Returns, Looks, Visits
    <3>6. QED
      BY <1>1, <1>4, <2>1, <3>4, <3>5 DEF Progress
  <2>4. QED
    BY <1>4, <2>2, <2>3
<1>5. CASE s.ok
  <2>1. CASE s.stack = << >>
    BY <1>0, <1>1, <1>3, <1>4, <1>5, <2>1, StartCases
  <2>2. CASE s.stack # << >>
    BY <1>0, <1>1, <1>4, <1>5, <2>2, GoOnCases
  <2>3. QED
    BY <2>1, <2>2
<1>6. QED
  BY <1>2, <1>5

LEMMA SearchProgresses ==
  ASSUME NEW needs, IsFiniteSet(DOMAIN needs)
  PROVE  Progress(needs, Search(needs)[Longest(needs)], Longest(needs))
<1>0. PICK size \in Nat : size = Longest(needs)
  <2>1. Unsearched \in States(needs)
    BY ProgressStarts DEF Progress
  <2>2. QED
    BY <2>1, EffortTyped
<1> DEFINE T == {n \in 0..size : ~Progress(needs, Search(needs)[n], n)}
<1>1. SUFFICES ASSUME T # {} PROVE FALSE
  BY <1>0
<1>2. PICK n \in T : \A m \in T : n <= m
  <2>1. T \in SUBSET Nat
    OBVIOUS
  <2> HIDE DEF T
  <2>2. QED
    BY <1>1, <2>1, LeastNatural
<1>3. n # 0
  BY <1>0, SearchSteps, ProgressStarts
<1>4. n \in 1..size /\ n - 1 \in 0..size /\ n - 1 \notin T
  BY <1>2, <1>3
<1>5. Progress(needs, Search(needs)[n - 1], n - 1) /\ n - 1 \in Nat /\ (n - 1) + 1 = n
  BY <1>4
<1>6. Search(needs)[n] = SearchStep(needs, Search(needs)[n - 1])
  BY <1>0, <1>4, <1>5, SearchSteps DEF Progress
<1>7. Progress(needs, Search(needs)[n], n)
  BY <1>5, <1>6, ProgressStep
<1>8. QED
  BY <1>2, <1>7

\* assertAcyclicWorkflow, of any number of jobs, ends, and lets a workflow pass exactly
\* if every needed job is there and the jobs can be put in an order (planner.ts:75).
THEOREM AcyclicIsOrdered ==
  ASSUME NEW needs, IsFiniteSet(DOMAIN needs)
  PROVE  AssertAcyclic(needs) <=> Known(needs) /\ Ordered(needs)
<1>1. PICK s : s = Search(needs)[Longest(needs)]
  OBVIOUS
<1>2. Progress(needs, s, Longest(needs))
  BY <1>1, SearchProgresses
<1>3. s \in States(needs)
  BY <1>2 DEF Progress
<1>4. ASSUME s.ok PROVE s.seen = DOMAIN needs
  <2>1. Ended(needs, s) \/ Longest(needs) <= Effort(needs, s)
    BY <1>2, <1>4 DEF Progress
  <2>2. Effort(needs, s) \in Nat /\ Longest(needs) \in Nat /\ (s.seen # DOMAIN needs => Effort(needs, s) < Longest(needs))
    BY <1>3, EffortTyped
  <2>3. s.seen \in SUBSET DOMAIN needs
    BY <1>3, StackTyped
  <2>4. ASSUME Ended(needs, s) PROVE DOMAIN needs \subseteq s.seen
    BY <2>4 DEF Ended
  <2>5. ASSUME Longest(needs) <= Effort(needs, s) PROVE s.seen = DOMAIN needs
    BY <2>2, <2>5
  <2>6. QED
    BY <2>1, <2>3, <2>4, <2>5
<1>5. ASSUME s.ok PROVE Known(needs) /\ Ordered(needs)
  BY <1>2, <1>4, <1>5 DEF Progress, Settled, Known, Ordered
<1>6. ASSUME ~s.ok PROVE ~(Known(needs) /\ Ordered(needs))
  BY <1>2, <1>6 DEF Progress
<1>7. QED
  BY <1>1, <1>5, <1>6 DEF AssertAcyclic

-----------------------------------------------------------------------------
(* What is queued is ordered.                                              *)

LEMMA JobsFinite ==
  ASSUME TrigOK, NEW c \in 1..MaxCommit, NEW id, HasFile(c, id)
  PROVE  IsFiniteSet(DOMAIN Needs(Jobs(FileOf(c, id))))
<1>1. PICK file : file = FileOf(c, id)
  OBVIOUS
<1>2. file \in Files(dir, c)
  BY <1>1 DEF HasFile, FileOf
<1>3. IsFiniteSet(DOMAIN file.jobs)
  BY <1>2, TriggersAssumption DEF TrigOK
<1>4. IsFiniteSet({j \in DOMAIN file.jobs : file.jobs[j].complete})
  BY <1>3, FS_Subset
<1>5. IsFiniteSet({"default"}) /\ IsFiniteSet({})
  BY FS_Singleton, FS_EmptySet
<1>6. DOMAIN Jobs(file) \in {{j \in DOMAIN file.jobs : file.jobs[j].complete}, {"default"}, {}}
  BY DEF Jobs
<1>7. DOMAIN Needs(Jobs(file)) = DOMAIN Jobs(file)
  BY DEF Needs
<1>8. QED
  BY <1>1, <1>4, <1>5, <1>6, <1>7

\* A run there is after a step is of the file of a run before, or of one that is in a
\* listing and has passed the search.
Stems(y) ==
  \/ \E x \in runs : x.of = y.of /\ x.id = y.id
  \/ \E q \in Request : \E w \in trig[q].listed :
       /\ trig[q].at = "queue" /\ w.of = y.of /\ w.id = y.id
       /\ AssertAcyclic(Needs(Jobs(FileOf(w.of, w.id))))

LEMMA RunsStem ==
  ASSUME IInv, [Next]_vars
  PROVE  dir' = dir /\ \A y \in runs' : Stems(y)
<1>1. ASSUME runs' \subseteq runs PROVE \A y \in runs' : Stems(y)
  BY <1>1 DEF Stems
<1>2. ASSUME NEW b, Overtakes(b) PROVE \A y \in runs' : Stems(y)
  <2> SUFFICES ASSUME NEW y \in runs' PROVE Stems(y)
    OBVIOUS
  <2>1. PICK x \in runs : y = [x EXCEPT !.moved = @ \/ x.ref = b]
    BY <1>2 DEF Overtakes
  <2>2. x \in Run
    BY DEF IInv, RunsOK
  <2>3. y.of = x.of /\ y.id = x.id
    BY <2>1, <2>2 DEF Run
  <2>4. QED
    BY <2>3 DEF Stems
<1>3. ASSUME NEW q \in Request, Requests(q) PROVE dir' = dir /\ \A y \in runs' : Stems(y)
  BY <1>1, <1>2, <1>3 DEF Requests, Around
<1>4. ASSUME NEW q \in Request, Queue(q) PROVE dir' = dir /\ \A y \in runs' : Stems(y)
  <2>1. dir' = dir
    BY <1>4 DEF Queue, To
  <2>2. PICK w \in trig[q].listed :
          UNCHANGED runs \/ (runs' = runs \cup {NewRun(q, w)} /\ AssertAcyclic(Needs(Jobs(FileOf(w.of, w.id)))))
    BY <1>4 DEF Queue
  <2>3. NewRun(q, w).of = w.of /\ NewRun(q, w).id = w.id /\ trig[q].at = "queue"
    BY <1>4 DEF NewRun, Queue, At
  <2>4. AssertAcyclic(Needs(Jobs(FileOf(w.of, w.id)))) => Stems(NewRun(q, w))
    BY <2>3 DEF Stems
  <2>5. QED
    BY <1>1, <2>1, <2>2, <2>4 DEF Stems
<1>5. ASSUME NEW q \in Request, Fault(q) \/ Release(q) \/ (\E b \in Branch \cup {""} : Dispatch(q, b))
                                \/ (Trace(q) /\ ~Queue(q))
      PROVE  dir' = dir /\ runs' = runs
  BY <1>5 DEF Fault, Release, Dispatch, Trace, ReadBranch, ReadCommit, Record, Target, List, Listed, Queued, Show, To
<1>6. ASSUME NEW r \in runs, Start(r) PROVE dir' = dir /\ \A y \in runs' : Stems(y)
  <2>1. r \in Run /\ runs' = (runs \ {r}) \cup {[r EXCEPT !.started = CommitAt(r.ref)]} /\ dir' = dir
    BY <1>6 DEF IInv, RunsOK, Start
  <2>2. PICK s : s = [r EXCEPT !.started = CommitAt(r.ref)]
    OBVIOUS
  <2>3. s.of = r.of /\ s.id = r.id
    BY <2>1, <2>2 DEF Run
  <2>4. QED
    BY <2>1, <2>2, <2>3 DEF Stems
<1>7. (\E b \in Branch : Checkout(b)) \/ UNCHANGED vars => dir' = dir /\ runs' = runs
  BY DEF Checkout, vars
<1>8. QED
  BY <1>1, <1>3, <1>4, <1>5, <1>6, <1>7 DEF Next

\* However requests and triggers overlap, whatever the directory holds and however
\* many jobs a workflow has: no run is queued of a workflow whose jobs cannot be put
\* in an order, in which none waits for itself in the end (planner.ts:75).
THEOREM QueuedRunsAreOrderedHolds == Spec => []QueuedRunsAreOrdered
<1>1. Init => QueuedRunsAreOrdered
  BY DEF Init, QueuedRunsAreOrdered
<1>2. IInv /\ QueuedRunsAreOrdered /\ [Next]_vars => QueuedRunsAreOrdered'
  <2> SUFFICES ASSUME IInv, QueuedRunsAreOrdered, [Next]_vars, NEW y \in runs'
               PROVE  Ordered(Needs(Jobs(FileOf(y.of, y.id))))'
    BY DEF QueuedRunsAreOrdered
  <2>1. dir' = dir /\ Stems(y)
    BY RunsStem
  <2>2. PICK file : file = FileOf(y.of, y.id)
    OBVIOUS
  <2>3. FileOf(y.of, y.id)' = file
    BY <2>1, <2>2 DEF FileOf
  <2>4. ASSUME NEW x \in runs, x.of = y.of, x.id = y.id PROVE Ordered(Needs(Jobs(file)))
    BY <2>2, <2>4 DEF QueuedRunsAreOrdered
  <2>5. ASSUME NEW q \in Request, NEW w \in trig[q].listed, trig[q].at = "queue", w.of = y.of, w.id = y.id,
               AssertAcyclic(Needs(Jobs(FileOf(w.of, w.id))))
        PROVE  Ordered(Needs(Jobs(file)))
    <3>1. trig[q] \in Trig /\ TrigInv(trig[q])
      BY DEF IInv, TrigOK, TrigsInv
    <3>2. w.of \in 1..MaxCommit /\ HasFile(w.of, w.id)
      BY <2>5, <3>1 DEF Trig, Found, TrigInv, ListedHere
    <3>3. IsFiniteSet(DOMAIN Needs(Jobs(file)))
      BY <2>2, <2>5, <3>2, JobsFinite DEF IInv
    <3>4. QED
      BY <2>2, <2>5, <3>3, AcyclicIsOrdered
  <2>6. Ordered(Needs(Jobs(file)))
    BY <2>1, <2>4, <2>5 DEF Stems
  <2>7. QED
    BY <2>3, <2>6
<1>3. QED
  BY <1>1, <1>2, Invariance, PTL DEF Spec
===============================================================================
