------------------------------ MODULE MCArchives -------------------------------
(***************************************************************************)
(* One reader, or archive requests: they share nothing but the refs, which *)
(* both watch while the commits are made, so that every interleaving of    *)
(* the two would add nothing: either the reader or the requests have ended *)
(* at first.                                                               *)
(***************************************************************************)
EXTENDS Archives, TLC

MCInit ==
  /\ RefsInit /\ CacheInit
  /\ \/ /\ look = [r \in Reader |-> Resting]
        /\ req = [q \in Request |-> [NoRequest EXCEPT !.result = "error"]]
     \/ /\ look = [r \in Reader |-> [Resting EXCEPT !.result = "error"]]
        /\ req = [q \in Request |-> NoRequest]

MCSpec == MCInit /\ [][Next]_vars

Requests == Permutations(Request)
===============================================================================
