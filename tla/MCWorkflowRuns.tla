---------------------------- MODULE MCWorkflowRuns ----------------------------
(***************************************************************************)
(* Two runs of one concurrency group, each of which supersedes the other,  *)
(* so that what holds of one run holds of the other with the names         *)
(* exchanged: it is enough that the user may cancel the same one always.   *)
(***************************************************************************)
EXTENDS WorkflowRuns

MCGroup == [r \in Run |-> "deploy"]

First == CHOOSE r \in Run : TRUE

MCNext == Next /\ \A p \in User : cancel'[p].run \in {NoRun, First}

MCFairSpec == Init /\ [][MCNext]_vars /\ Fairness
===============================================================================
