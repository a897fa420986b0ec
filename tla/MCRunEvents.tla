----------------------------- MODULE MCRunEvents -----------------------------
(***************************************************************************)
(* The accepted event, a cancellation request and the terminal event,      *)
(* and two sockets, the second of which may carry on for the first.        *)
(***************************************************************************)
EXTENDS RunEvents
===============================================================================
