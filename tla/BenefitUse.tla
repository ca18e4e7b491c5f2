----------------------------- MODULE BenefitUse -----------------------------
(***************************************************************************)
(* What redemption and reversal promise a host (README.md, correlation.go, *)
(* driver.go): an operation takes effect at most once, a reversal only     *)
(* after the host knows that there is something to reverse, and the host   *)
(* is told of success or failure exactly as it is, and for good.           *)
(***************************************************************************)
EXTENDS Naturals

CONSTANT Order

Op == Order \X {"redeem", "reverse"}

VARIABLES
  uses,   \* how often each operation took effect at the provider
  told    \* what the host takes it for

vars == <<uses, told>>

Init ==
  /\ uses = [op \in Op |-> 0]
  /\ told = [op \in Op |-> "nothing"]

TakeEffect(op) ==
  /\ told[op] = "nothing" /\ uses[op] = 0
  /\ op[2] = "reverse" => told[<<op[1], "redeem">>] = "success"
  /\ uses' = [uses EXCEPT ![op] = 1]
  /\ UNCHANGED told

Tell(op) ==
  /\ told[op] = "nothing"
  /\ told' = [told EXCEPT ![op] = IF uses[op] = 1 THEN "success" ELSE "failure"]
  /\ UNCHANGED uses

Next == \E op \in Op : TakeEffect(op) \/ Tell(op)

Spec == Init /\ [][Next]_vars

=============================================================================
