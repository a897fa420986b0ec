--------------------------- MODULE MCRepositoryLock ---------------------------
(***************************************************************************)
(* Four calls; two spellings of one repository id, which trim to one key,  *)
(* another repository, and a blank id.                                     *)
(***************************************************************************)
EXTENDS RepositoryLock

MCKeyOf == [id \in RepositoryId |-> CASE id \in {"app", " app "} -> "app"
                                      [] id = "lib" -> "lib"
                                      [] OTHER -> NoKey]
===============================================================================
