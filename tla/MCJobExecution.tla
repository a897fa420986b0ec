---------------------------- MODULE MCJobExecution ----------------------------
(***************************************************************************)
(* deploy needs the two children of the build matrix but is planned before *)
(* them; report runs on a condition of its own after deploy.  A step with  *)
(* an action stands between two shell steps: a build uploads the artifact, *)
(* report downloads it, and deploy's action needs neither.                 *)
(***************************************************************************)
EXTENDS JobExecution

Planned == <<"deploy", "build", "build", "report">>
MCIdOf == [j \in Job |-> Planned[j]]
MCNeeds == [i \in JobId |-> CASE i = "deploy" -> {"build"}
                               [] i = "report" -> {"deploy"}
                               [] OTHER -> {}]
===============================================================================
