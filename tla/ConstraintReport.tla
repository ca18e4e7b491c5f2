-------------------------- MODULE ConstraintReport --------------------------
(***************************************************************************)
(* Decisions and the report they add up to (constraint.go:62-176, and the  *)
(* pure part of Evaluate and EvaluateAll, constraint/registry.go:128-203). *)
(***************************************************************************)
EXTENDS Naturals, Sequences, FiniteSets

(* The codes an evaluator may answer with. *)
Code == {"satisfied", "unsatisfied", "invalid", "error"}

(* An evaluator returns an error, or a code (a decision code, the code       *)
(* reserved for missing evaluators, or one that is empty or of its own) with *)
(* or without a reason.                                                      *)
Failure == [code |-> "failure", reason |-> FALSE]
Satisfied == [code |-> "satisfied", reason |-> FALSE]
Refusal(code) == [code |-> code, reason |-> TRUE]

AnyAnswer == {Failure} \cup
             [code : Code \cup {"unrecognized", "", "custom"}, reason : BOOLEAN]

(* A mutant of NewReport: the zero report, whose status says nothing. *)
BlankReport == [status |-> "", violations |-> <<>>, unrecognized |-> 0]

NewReport == [status |-> "satisfied", violations |-> <<>>, unrecognized |-> 0]

(* A mutant of Judge: any negative decision of an evaluator is passed on. *)
JudgeTrusting(t, found, answer) ==
  IF ~found THEN [type |-> t, code |-> "unrecognized", text |-> "registry"]
            ELSE [type |-> t, code |-> answer.code, text |-> "evaluator"]

(* Evaluate, once the evaluator (if one was found) has answered: what the    *)
(* decision is, and whose text it carries.  An evaluator that fails, that    *)
(* answers a code which is not its own to answer, or that refuses without a  *)
(* reason, is an error in the registry's words.                              *)
Judge(t, found, answer) ==
  IF ~found
    THEN [type |-> t, code |-> "unrecognized", text |-> "registry"]
  ELSE IF answer.code = "satisfied"
    THEN [type |-> t, code |-> "satisfied", text |-> "none"]
  ELSE IF answer.code \in Code /\ answer.reason
    THEN [type |-> t, code |-> answer.code, text |-> "evaluator"]
  ELSE [type |-> t, code |-> "error", text |-> "registry"]

(* A mutant of Count: the status is that of the last decision. *)
CountLast(report, decision) ==
  [status       |-> IF decision.code = "satisfied" THEN "satisfied" ELSE "unsatisfied",
   violations   |-> IF decision.code = "satisfied" THEN report.violations
                    ELSE Append(report.violations, decision),
   unrecognized |-> report.unrecognized]

(* A decision's part in the report. *)
Count(report, decision) ==
  [status       |-> IF decision.code = "satisfied" THEN report.status ELSE "unsatisfied",
   violations   |-> IF decision.code = "satisfied" THEN report.violations
                    ELSE Append(report.violations, decision),
   unrecognized |-> IF decision.code = "unrecognized" THEN report.unrecognized + 1
                    ELSE report.unrecognized]

(* The listings of a set of positions, in their order, in n places: one for *)
(* a set of n positions, and none for any other.  In the reports these are  *)
(* the positions of the constraints that the n violations stand for.        *)
Listings(n, positions) ==
  {place \in [1 .. n -> positions] :
     /\ \A i, j \in 1 .. n : i < j => place[i] < place[j]
     /\ \A p \in positions : \E i \in 1 .. n : place[i] = p}

=============================================================================
