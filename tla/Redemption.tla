----------------------------- MODULE Redemption -----------------------------
(***************************************************************************)
(* The protocol of redemptions and reversals between a host, a driver and  *)
(* its provider.  The host calls, correlates what it is answered           *)
(* (Results), and calls again as long as it does not know, with the same   *)
(* IDs.  A call may end before the provider has seen its request, or       *)
(* without it ever doing so; a request may be accepted and decided later;  *)
(* a driver may answer with a status that does not go with the payload, or *)
(* with the record of another order.  It is assumed of drivers that the    *)
(* parts of an answer are true one by one: a record is of an operation     *)
(* that took effect, and bears an ID the host can tell it by where it is   *)
(* not the one asked for; a failure without a record means a refusal.      *)
(***************************************************************************)
EXTENDS Results

CONSTANTS
  Order,
  RedemptionId, ReversalId,   \* the caller's IDs for each order, or NoId
  ProviderId,                 \* the ID the provider gives each redemption
  Mode,                       \* the modes a reversal may be asked in
  Idempotent,                 \* the operations the provider knows again when repeated
  Outcomes,                   \* the discounts a record may have
  MaxCalls                    \* a bound on the calls of one operation

Op == Order \X {"redeem", "reverse"}
Redeem(o) == <<o, "redeem">>

ASSUME RedemptionConstants ==
  /\ Idempotent \subseteq Op
  /\ MaxCalls \in Nat \ {0}
  /\ \A o, p \in Order : ProviderId[o] = ProviderId[p] => o = p
  /\ \A o \in Order : ProviderId[o] # NoId

VARIABLES
  mode,    \* the mode each order is reversed in
  phase,   \* where the host is with an operation
  calls,   \* how often it has called for it
  held,    \* the record it keeps of it: <<record>>, or <<>>
  wire,    \* the requests for it on their way to the provider
  fate,    \* what the provider has decided
  uses     \* how often it took effect there

hostVars == <<mode, phase, calls, held>>
vars == <<hostVars, wire, fate, uses>>

Init ==
  /\ mode \in [Order -> Mode]
  /\ phase = [op \in Op |-> "none"]
  /\ calls = [op \in Op |-> 0]
  /\ held = [op \in Op |-> <<>>]
  /\ wire = [op \in Op |-> 0]
  /\ fate = [op \in Op |-> "none"]
  /\ uses = [op \in Op |-> 0]

-----------------------------------------------------------------------------
(* The host. *)

(* A reversal is of the redemption the host holds. *)
Request(op) ==
  LET o == op[1] IN
  IF op[2] = "redeem" THEN [reference |-> TRUE, redemptionId |-> RedemptionId[o]]
  ELSE [reference |-> TRUE, redemptionId |-> RedemptionId[o], reversalId |-> ReversalId[o],
        provider |-> held[Redeem(o)][1].provider, mode |-> mode[o]]

Correlate(op, result) ==
  IF op[2] = "redeem" THEN CorrelateRedeem(result, Request(op))
  ELSE CorrelateReverse(result, Request(op))

(* An operation is called for again only where the provider will know it. *)
Call(op) ==
  /\ \/ phase[op] = "none" /\ (op[2] = "reverse" => phase[Redeem(op[1])] = "success")
     \/ phase[op] = "uncertain" /\ op \in Idempotent
  /\ calls[op] < MaxCalls
  /\ phase' = [phase EXCEPT ![op] = "calling"]
  /\ calls' = [calls EXCEPT ![op] = @ + 1]
  /\ wire' = [wire EXCEPT ![op] = @ + 1]
  /\ UNCHANGED <<mode, held, fate, uses>>

(* An error proves nothing, nor do the statuses pending and unknown. *)
TakeError(op) ==
  /\ phase[op] = "calling"
  /\ phase' = [phase EXCEPT ![op] = "uncertain"]
  /\ UNCHANGED <<mode, calls, held, wire, fate, uses>>

TakeResult(op, result) ==
  LET correlated == Correlate(op, result)
      kept == correlated.result[1]
      settled == correlated.err = "none" /\ kept.status \in {"success", "failure"}
  IN /\ phase[op] = "calling"
     /\ phase' = [phase EXCEPT ![op] = IF settled THEN kept.status ELSE "uncertain"]
     /\ held' = [held EXCEPT ![op] = IF settled THEN kept.record ELSE <<>>]
     /\ UNCHANGED <<mode, calls, wire, fate, uses>>

-----------------------------------------------------------------------------
(* The driver. *)

(* The records of an operation, with any of its IDs left out. *)
Records(op) ==
  LET o == op[1] IN
  IF op[2] = "redeem"
    THEN [redemptionId : {NoId, RedemptionId[o]}, provider : {NoId, ProviderId[o]},
          outcome : Outcomes]
    ELSE [redemptionId : {NoId, RedemptionId[o]}, reversalId : {NoId, ReversalId[o]},
          provider : {NoId, ProviderId[o]}, outcome : Outcomes, restored : {<<>>}]

(* Whether the record of another order can be told from the one asked for. *)
Telling(op, r) ==
  LET o == op[1] IN
  \/ r.redemptionId \notin {NoId, RedemptionId[o]}
  \/ op[2] = "reverse" /\
       \/ r.reversalId \notin {NoId, ReversalId[o]}
       \/ r.provider \notin {NoId, ProviderId[o]} /\ held[Redeem(o)][1].provider # NoId

TrueRecords(op) ==
  {r \in Records(op) : uses[op] > 0} \cup
  UNION {{r \in Records(p) : uses[p] > 0 /\ Telling(op, r)} : p \in {q \in Op : q[2] = op[2] /\ q # op}}

Answers(op) ==
  {a \in [status : ResultStatus \cup {"other"}, failure : BOOLEAN,
          record : {<<>>} \cup {<<r>> : r \in TrueRecords(op)}] :
     a.failure /\ a.record = <<>> => fate[op] = "refused"}

Answer(op) == phase[op] = "calling" /\ \E a \in Answers(op) : TakeResult(op, a)

-----------------------------------------------------------------------------
(* The provider. *)

(* What is decided of a request; one of an operation the provider knows      *)
(* already is answered from memory, where it is idempotent.                  *)
Decide(op) ==
  \E f \in {"accepted", "done", "refused"} :
    /\ fate' = [fate EXCEPT ![op] = f]
    /\ uses' = [uses EXCEPT ![op] = IF f = "done" THEN @ + 1 ELSE @]

Process(op) ==
  /\ wire[op] > 0
  /\ wire' = [wire EXCEPT ![op] = @ - 1]
  /\ IF fate[op] # "none" /\ op \in Idempotent THEN UNCHANGED <<fate, uses>> ELSE Decide(op)
  /\ UNCHANGED hostVars

Complete(op) ==
  /\ fate[op] = "accepted"
  /\ Decide(op) /\ fate'[op] # "accepted"
  /\ UNCHANGED <<hostVars, wire>>

Step(op) == Call(op) \/ TakeError(op) \/ Answer(op) \/ Process(op) \/ Complete(op)

Next == \E op \in Op : Step(op)

Spec == Init /\ [][Next]_vars

-----------------------------------------------------------------------------
(* Properties. *)

TypeOK ==
  /\ phase \in [Op -> {"none", "calling", "uncertain", "success", "failure"}]
  /\ calls \in [Op -> Nat] /\ wire \in [Op -> Nat] /\ uses \in [Op -> Nat]
  /\ fate \in [Op -> {"none", "accepted", "done", "refused"}]
  /\ held \in [Op -> {<<>>} \cup {<<r>> : r \in UNION {Records(op) : op \in Op}}]

(* What the host concluded is what happened and stays so, however late its  *)
(* requests arrive (README.md:279-283, correlation.go:10-12): a success has  *)
(* taken effect, a failure has been refused, no operation is known at the    *)
(* provider twice, and none is reversed that the host does not hold.         *)
ConclusionHolds(op) ==
  /\ phase[op] = "none" <=> calls[op] = 0
  /\ phase[op] = "success" => fate[op] = "done"
  /\ phase[op] = "failure" => fate[op] = "refused"
  /\ uses[op] = IF fate[op] = "done" THEN 1 ELSE 0
  /\ calls[op] >= wire[op] + IF fate[op] = "none" THEN 0 ELSE 1
  /\ op \notin Idempotent => calls[op] <= 1
  /\ op[2] = "reverse" /\ calls[op] > 0 => phase[Redeem(op[1])] = "success"

ConclusionsTrue == TypeOK /\ \A op \in Op : ConclusionHolds(op)

(* The record a host keeps of an operation bears the IDs it asked with, and  *)
(* of the provider the operation's own or none: never another order's, never *)
(* one made up (correlation.go:5-8, 35-42).  To correlate it again, as a     *)
(* host does with what it stored, changes nothing.                           *)
HeldIsOwn ==
  \A op \in Op : phase[op] = "success" =>
    LET r == held[op][1]
        again == [status |-> "success", failure |-> FALSE, record |-> held[op]]
    IN /\ held[op] # <<>>
       /\ r.redemptionId = RedemptionId[op[1]]
       /\ op[2] = "reverse" => r.reversalId = ReversalId[op[1]]
       /\ r.provider \in {NoId, ProviderId[op[1]]}
       /\ Correlate(op, again) = Correlated(again)

-----------------------------------------------------------------------------
(* The refinement: the host takes an operation for what it concluded. *)
Told == [op \in Op |-> IF phase[op] \in {"success", "failure"} THEN phase[op] ELSE "nothing"]

Promise == INSTANCE BenefitUse WITH told <- Told

(* Every behaviour of the protocol keeps the promise: an operation takes     *)
(* effect at most once, and never after the host was told it had failed.     *)
ImplementsBenefitUse == Promise!Spec

=============================================================================
