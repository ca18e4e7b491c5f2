----------------------------- MODULE Operations -----------------------------
(***************************************************************************)
(* The availability of optional operations (operation.go,                  *)
(* evaluation/operation.go): what a driver declares, what a benefit's      *)
(* policies take away, and how EvaluateOperation goes through them one     *)
(* after the other to a decision.  A mode is a name and a policy's         *)
(* constraints are a set: their order shows in the report only, which is   *)
(* ConstraintEvaluation's subject.  EvaluateAll is one step here: what     *)
(* holds may change before it, between two policies.                       *)
(***************************************************************************)
EXTENDS Naturals, Sequences

CONSTANTS
  Operation,         \* the operations asked for or declared, "" included
  Mode,              \* the modes, "" included
  Constraint,        \* the constraints a policy may carry
  CapabilityLists,   \* what a driver may declare
  PolicyLists        \* the policies a benefit may come with

Core == {"Inspect", "Evaluate", "Redeem"}
Capability == [operation : Operation, modes : Seq(Mode)]
Policy == [operation : Operation, matchModes : Seq(Mode),
           constraints : SUBSET Constraint, disabled : BOOLEAN]

ASSUME OperationsConstants ==
  /\ CapabilityLists \subseteq Seq(Capability)
  /\ PolicyLists \subseteq Seq(Policy)

Elements(s) == {s[i] : i \in 1 .. Len(s)}

-----------------------------------------------------------------------------
(* Validation. *)

IsOptional(operation) == operation # "" /\ operation \notin Core

ModesAreValid(operation, modes) ==
  /\ "" \notin Elements(modes)
  /\ \A i, j \in 1 .. Len(modes) : modes[i] = modes[j] => i = j
  /\ operation = "Reverse" => Elements(modes) \subseteq {"full", "partial"}

CapabilitiesAreValid(capabilities) ==
  \A i \in 1 .. Len(capabilities) :
    LET c == capabilities[i] IN
    /\ IsOptional(c.operation)
    /\ \A j \in 1 .. i - 1 : capabilities[j].operation # c.operation
    /\ ModesAreValid(c.operation, c.modes)
    /\ c.operation = "Reverse" => "full" \in Elements(c.modes)

(* A policy disables, or it has constraints; never both nor neither. *)
PoliciesAreValid(policies) ==
  \A p \in Elements(policies) :
    /\ IsOptional(p.operation)
    /\ ModesAreValid(p.operation, p.matchModes)
    /\ p.disabled <=> p.constraints = {}

Declares(capabilities, operation) ==
  \E c \in Elements(capabilities) : c.operation = operation

SupportsMode(capabilities, operation, mode) ==
  \E c \in Elements(capabilities) : c.operation = operation /\ mode \in Elements(c.modes)

PoliciesAreSupported(capabilities, policies) ==
  \A p \in Elements(policies) :
    /\ Declares(capabilities, p.operation)
    /\ \A m \in Elements(p.matchModes) : SupportsMode(capabilities, p.operation, m)

-----------------------------------------------------------------------------
VARIABLES
  holding,    \* the constraints an evaluator would find satisfied now
  at,         \* where the EvaluateOperation call is
  asked,      \* its arguments
  rest,       \* the policies it has yet to look at
  gathered,   \* the constraints of those that matched
  decided,    \* its decision, or error
  met         \* what held when the decision was taken (history)

callVars == <<at, asked, rest, gathered, decided, met>>
vars == <<holding, callVars>>

NotDecided == [err |-> "none", status |-> "none"]
Fails(err) == [err |-> err, status |-> "none"]

(* A mutant of Unsupported: it comes with the report of an empty list. *)
UnsupportedEvaluated ==
  [err |-> "none", status |-> "unsupported", report |-> "satisfied", reason |-> TRUE]

Unsupported ==
  [err |-> "none", status |-> "unsupported", report |-> "unevaluated", reason |-> TRUE]

(* The decision that a report of EvaluateAll on constraints leads to. *)
DecidedOn(constraints) ==
  IF constraints \subseteq holding
  THEN [err |-> "none", status |-> "eligible", report |-> "satisfied", reason |-> FALSE]
  ELSE [err |-> "none", status |-> "ineligible", report |-> "unsatisfied", reason |-> TRUE]

(* OperationDecision.Validate *)
DecisionIsValid(operation, d) ==
  /\ operation # ""
  /\ \/ d.status = "unsupported" /\ d.report = "unevaluated"
     \/ d.status = "ineligible" /\ d.report = "unsatisfied"
     \/ d.status = "eligible" /\ d.report = "satisfied" /\ ~d.reason

NoCall == [operation |-> "", mode |-> "", capabilities |-> <<>>, policies |-> <<>>]

Init ==
  /\ holding \in SUBSET Constraint
  /\ at = "idle" /\ asked = NoCall
  /\ rest = <<>> /\ gathered = {}
  /\ decided = NotDecided /\ met = {}

(* Time passes, the benefit is used, evaluators come and go. *)
WhatHoldsChanges ==
  /\ holding' \in SUBSET Constraint
  /\ UNCHANGED callVars

Decide(d) ==
  /\ at' = "decided"
  /\ decided' = d
  /\ met' = holding
  /\ UNCHANGED holding

(* EvaluateOperation's checks, in their order, down to its loop. *)
AskOf(operation, mode, noRegistry, capabilities, policies) ==
  LET refused == operation \in Core
      invalid == \/ ~CapabilitiesAreValid(capabilities)
                 \/ ~PoliciesAreValid(policies)
                 \/ ~PoliciesAreSupported(capabilities, policies)
      unsupported == \/ ~Declares(capabilities, operation)
                     \/ mode # "" /\ ~SupportsMode(capabilities, operation, mode)
  IN /\ asked' = [operation |-> operation, mode |-> mode,
                  capabilities |-> capabilities, policies |-> policies]
     /\ \/ /\ refused
           /\ Decide(Fails("ErrValidation")) /\ UNCHANGED rest
        \/ /\ ~refused /\ noRegistry
           /\ Decide(Fails("ErrNilRegistry")) /\ UNCHANGED rest
        \/ /\ ~refused /\ ~noRegistry /\ invalid
           /\ Decide(Fails("ErrValidation")) /\ UNCHANGED rest
        \/ /\ ~refused /\ ~noRegistry /\ ~invalid /\ unsupported
           /\ Decide(Unsupported) /\ UNCHANGED rest
        \/ /\ ~refused /\ ~noRegistry /\ ~invalid /\ ~unsupported
           /\ at' = "loop" /\ rest' = policies
           /\ UNCHANGED <<holding, decided, met>>

Ask ==
  /\ at = "idle"
  /\ \E operation \in Operation, mode \in Mode, noRegistry \in BOOLEAN,
        capabilities \in CapabilityLists, policies \in PolicyLists :
       AskOf(operation, mode, noRegistry, capabilities, policies)
  /\ UNCHANGED gathered

(* Mutants of policyMatches: without modes a policy is for the operation as a *)
(* whole only; a policy for some modes is also for the operation as a whole.  *)
MatchesSeparately(policy, operation, mode) ==
  /\ policy.operation = operation
  /\ IF mode = "" THEN policy.matchModes = <<>> ELSE mode \in Elements(policy.matchModes)

MatchesLoosely(policy, operation, mode) ==
  /\ policy.operation = operation
  /\ policy.matchModes = <<>> \/ mode = "" \/ mode \in Elements(policy.matchModes)

policyMatches(policy, operation, mode) ==
  /\ policy.operation = operation
  /\ policy.matchModes = <<>> \/ (mode # "" /\ mode \in Elements(policy.matchModes))

(* A mutant of NextPolicy: the constraints of the last match only. *)
NextPolicyForgets ==
  /\ at = "loop"
  /\ rest # <<>>
  /\ \/ /\ ~policyMatches(Head(rest), asked.operation, asked.mode)
        /\ rest' = Tail(rest)
        /\ UNCHANGED <<holding, at, decided, met, gathered>>
     \/ /\ policyMatches(Head(rest), asked.operation, asked.mode)
        /\ Head(rest).disabled
        /\ Decide(Unsupported)
        /\ UNCHANGED <<rest, gathered>>
     \/ /\ policyMatches(Head(rest), asked.operation, asked.mode)
        /\ ~Head(rest).disabled
        /\ rest' = Tail(rest)
        /\ gathered' = Head(rest).constraints
        /\ UNCHANGED <<holding, at, decided, met>>
  /\ UNCHANGED asked

(* One round of the loop over the policies. *)
NextPolicy ==
  /\ at = "loop"
  /\ rest # <<>>
  /\ \/ /\ ~policyMatches(Head(rest), asked.operation, asked.mode)
        /\ rest' = Tail(rest)
        /\ UNCHANGED <<holding, at, decided, met, gathered>>
     \/ /\ policyMatches(Head(rest), asked.operation, asked.mode)
        /\ Head(rest).disabled
        /\ Decide(Unsupported)
        /\ UNCHANGED <<rest, gathered>>
     \/ /\ policyMatches(Head(rest), asked.operation, asked.mode)
        /\ ~Head(rest).disabled
        /\ rest' = Tail(rest)
        /\ gathered' = gathered \cup Head(rest).constraints
        /\ UNCHANGED <<holding, at, decided, met>>
  /\ UNCHANGED asked

EvaluateConstraints ==
  /\ at = "loop"
  /\ rest = <<>>
  /\ Decide(DecidedOn(gathered))
  /\ UNCHANGED <<asked, rest, gathered>>

TakeDecision ==
  /\ at = "decided"
  /\ at' = "idle" /\ asked' = NoCall
  /\ rest' = <<>> /\ gathered' = {}
  /\ decided' = NotDecided /\ met' = {}
  /\ UNCHANGED holding

Next == WhatHoldsChanges \/ Ask \/ NextPolicy \/ EvaluateConstraints \/ TakeDecision

Spec == Init /\ [][Next]_vars

-----------------------------------------------------------------------------
(* Properties. *)

Restricts(p, operation, mode) ==
  p.operation = operation /\ (p.matchModes = <<>> \/ mode \in Elements(p.matchModes))

(* What is available by these policies, without going through them in any   *)
(* order: a policy that disables decides alone, or else all that restrict   *)
(* must have their constraints hold.                                        *)
Availability(capabilities, policies, operation, mode, held) ==
  LET restricting == {p \in Elements(policies) : Restricts(p, operation, mode)} IN
  IF \/ ~Declares(capabilities, operation)
     \/ mode # "" /\ ~SupportsMode(capabilities, operation, mode)
     \/ \E p \in restricting : p.disabled
    THEN "unsupported"
  ELSE IF \A p \in restricting : p.constraints \subseteq held THEN "eligible"
  ELSE "ineligible"

Answered == at = "decided" /\ decided.err = "none"

(* The loop decides what the declarations and policies say as a whole: its   *)
(* early return, and the order of the policies, make no difference           *)
(* (operation.go:66-69, evaluation/operation.go:52-61).                      *)
DecidedAsDeclared ==
  Answered => decided.status = Availability(asked.capabilities, asked.policies,
                                            asked.operation, asked.mode, met)

(* unsupported < ineligible < eligible *)
AtMost(s, t) == s = t \/ s = "unsupported" \/ t = "eligible"

(* A policy only takes away: no later policy gives back what an earlier one  *)
(* took, and none gives what the driver does not declare.                    *)
PoliciesOnlyRestrict ==
  Answered =>
    \A n \in 0 .. Len(asked.policies) :
      AtMost(decided.status,
             Availability(asked.capabilities, SubSeq(asked.policies, 1, n),
                          asked.operation, asked.mode, met))

(* A mode is never available where the operation as a whole is not. *)
ModeOnlyRestricts ==
  Answered =>
    AtMost(decided.status, Availability(asked.capabilities, asked.policies,
                                        asked.operation, "", met))

(* A decision passes OperationDecision.Validate, for an operation that has a *)
(* name.                                                                     *)
DecisionsValidate ==
  Answered /\ asked.operation # "" => DecisionIsValid(asked.operation, decided)

(* An invalid operation argument is an error, as EvaluateOperation's comment *)
(* has it (evaluation/operation.go:16-17): what it decides without one is    *)
(* about an operation its own Validate accepts.                              *)
OperationArgumentChecked == Answered => DecisionIsValid(asked.operation, decided)

=============================================================================
