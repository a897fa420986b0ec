----------------------------- MODULE SerialAccess -----------------------------
(***************************************************************************)
(* What the repository lock promises to its callers, without promises,     *)
(* tails or gates: the calls for one key go through one at a time, in the  *)
(* order in which they asked.  A call remembers the calls of its key that  *)
(* were ahead of it; it may enter when all of them have left.              *)
(***************************************************************************)
CONSTANTS Call,      \* the invocations of the lock, each made once
          Key,       \* the keys that are protected
          NoKey      \* what a call wants when its key is blank: no protection

VARIABLES stage,     \* stage[c]: how far call c has come
          wants,     \* wants[c]: the key call c asked for
          ahead      \* ahead[c]: the calls c still has to wait for

absVars == <<stage, wants, ahead>>

Stage == {"outside", "queued", "inside", "left"}

\* The calls that asked for key k and have not left.
InLine(k) == {d \in Call : stage[d] \in {"queued", "inside"} /\ wants[d] = k}

AbsInit ==
  /\ stage = [c \in Call |-> "outside"]
  /\ wants = [c \in Call |-> NoKey]
  /\ ahead = [c \in Call |-> {}]

Ask(c, k) ==
  /\ stage[c] = "outside"
  /\ stage' = [stage EXCEPT ![c] = "queued"]
  /\ wants' = [wants EXCEPT ![c] = k]
  /\ ahead' = [ahead EXCEPT ![c] = InLine(k)]

Enter(c) ==
  /\ stage[c] = "queued"
  /\ ahead[c] = {}
  /\ stage' = [stage EXCEPT ![c] = "inside"]
  /\ UNCHANGED <<wants, ahead>>

\* A call with a blank key is let through at once and waits for nobody.
PassBy(c) ==
  /\ stage[c] = "outside"
  /\ stage' = [stage EXCEPT ![c] = "inside"]
  /\ UNCHANGED <<wants, ahead>>

Leave(c) ==
  /\ stage[c] = "inside"
  /\ stage' = [stage EXCEPT ![c] = "left"]
  /\ ahead' = [d \in Call |-> ahead[d] \ {c}]
  /\ UNCHANGED wants

AbsNext == \E c \in Call : \/ \E k \in Key : Ask(c, k)
                           \/ Enter(c)
                           \/ PassBy(c)
                           \/ Leave(c)

AbsSpec == AbsInit /\ [][AbsNext]_absVars
===============================================================================
