---------------------------- MODULE MCPushTriggers -----------------------------
(***************************************************************************)
(* Two requests over a few contents of the workflow directory, or a        *)
(* dispatch of one workflow with any graph of needs between three jobs.    *)
(***************************************************************************)
EXTENDS PushTriggers, TLC

Job(needs) == [complete |-> TRUE, supported |-> TRUE, needs |-> needs, matrix |-> {}, include |-> {}]
Matrix == [Job({"a"}) EXCEPT !.matrix = {[key |-> "os", values |-> {1, 2}]}, !.include = {[x \in {"os"} |-> 3]}]
Chain == ("a" :> Job({})) @@ ("b" :> Matrix)

File(id, on) ==
  [id |-> id, parses |-> TRUE, enabled |-> TRUE, on |-> on, trigger |-> "", steps |-> FALSE,
   source |-> Anything, onPush |-> Anything, onDispatch |-> FALSE, jobs |-> Chain]

Build == [File(1, "object") EXCEPT !.onPush = [branches |-> {"main"}, tags |-> {}], !.onDispatch = TRUE]
Every == [File(2, "absent") EXCEPT !.trigger = "push", !.jobs = << >>, !.steps = TRUE,
                                   !.source = [branches |-> {"*"}, tags |-> {}]]
Older == [Every EXCEPT !.source = [branches |-> {"main"}, tags |-> {}]]
Publish == [File(2, "absent") EXCEPT !.trigger = "release.update", !.enabled = TRUE]
Tagged == [File(1, "object") EXCEPT !.onPush = [branches |-> {}, tags |-> {"v1"}]]
Cyclic == [File(1, "both") EXCEPT !.jobs = ("a" :> Job({"b"})) @@ ("b" :> Job({"a"}))]
Broken == [File(1, "push") EXCEPT !.jobs = "a" :> [Job({}) EXCEPT !.supported = FALSE]]

\* A directory is one of these, or a workflow with a graph of needs.
Directories == {"one", "filters", "releases", "tags", "cyclic", "broken"}
Ids == {"a", "b", "c"}
Edgeless == [j \in Ids |-> {}]
Listings == {<<d, Edgeless>> : d \in Directories}
Graphs == {<<"graph", needs>> : needs \in [Ids -> SUBSET Ids]}
MCDir == Listings \cup Graphs

MCFiles(d, c) ==
  CASE d[1] = "one" -> {Every}
    [] d[1] = "filters" -> {Build, Every}
    [] d[1] = "releases" -> {Build, Publish}
    [] d[1] = "tags" -> {Tagged, Older}
    [] d[1] = "cyclic" -> IF c = 2 THEN {Cyclic, Every} ELSE {Build, Publish}
    [] d[1] = "broken" -> IF c = 2 THEN {Broken, Every} ELSE {Every}
    [] d[1] = "graph" -> {[File(1, "dispatch") EXCEPT !.jobs = [j \in Ids |-> Job(d[2][j])]]}

Spent == [NoRequest EXCEPT !.at = "over"]
Dispatched == [NoTrig EXCEPT !.kind = "manual", !.at = "target"]
Released == [NoTrig EXCEPT !.kind = "release.update", !.branch = "v1", !.commit = 1, !.at = "target"]
Served == {[NoRequest EXCEPT !.via = via, !.service = "push", !.branch = b, !.at = "serving",
                             !.pc = Len(Stages[via]), !.child = "up"] : via \in DOMAIN Stages, b \in Ref}

First == CHOOSE q \in Request : TRUE

\* Until git serves them requests share nothing, so that their stages need not be
\* interleaved: one request from the first stage on, or several that are served,
\* one of which may be a dispatch instead, or a release while its tag is pushed.
MCInit ==
  /\ RefsInit /\ runs = {}
  /\ \/ /\ dir \in Listings
        /\ req = [p \in Request |-> IF p = First THEN NoRequest ELSE Spent]
        /\ trig = [p \in Request |-> NoTrig]
     \/ /\ dir = <<"one", Edgeless>>
        /\ req \in [Request -> Served]
        /\ \A p \in Request : IF p = First THEN req[p].branch = "main"
                            ELSE req[p].via = "ssh" /\ req[p].branch \in Branch
        /\ trig = [p \in Request |-> NoTrig]
     \/ /\ dir \in {<<"filters", Edgeless>>, <<"cyclic", Edgeless>>}
        /\ \E r \in Served :
             r.branch \in Branch /\ req = [p \in Request |-> IF p = First THEN Spent ELSE r]
        /\ trig = [p \in Request |-> IF p = First THEN Dispatched ELSE NoTrig]
     \/ /\ dir = <<"releases", Edgeless>>
        /\ \E r \in Served :
             r.branch = "v1" /\ req = [p \in Request |-> IF p = First THEN Spent ELSE r]
        /\ trig = [p \in Request |-> IF p = First THEN Released ELSE NoTrig]
     \/ /\ dir \in Graphs
        /\ req = [p \in Request |-> Spent]
        /\ trig = [p \in Request |-> IF p = First THEN Dispatched ELSE NoTrig]

MCSpec == MCInit /\ [][Next]_vars /\ \A q \in Request : WF_vars(Answers(q)) /\ WF_vars(Trace(q))
===============================================================================
