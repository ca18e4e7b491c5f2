----------------------------- MODULE Eligibility -----------------------------
(***************************************************************************)
(* The local evaluation of one benefit, in time.  A driver inspects the    *)
(* benefit and normalizes its status with ResolveStatus                    *)
(* (evaluation/status.go), or passes on the provider's; later the host     *)
(* calls EvaluateLocalEligibility (evaluation/eligibility.go) with what    *)
(* was inspected, and the built-in evaluators judge its constraints one    *)
(* after the other.  The clock, the provider's facts and the caller's      *)
(* context move between any two of these steps.  An evaluator asks the     *)
(* context and then reads the clock: what passes between the two might as  *)
(* well pass before or after, so that an evaluation is one step.           *)
(***************************************************************************)
EXTENDS BuiltinEvaluators

CONSTANTS
  MaxTime,      \* the instants are 1 .. MaxTime
  Registered,   \* the constraint types that have an evaluator
  Facts,        \* the facts a provider may hold of the benefit
  Constraint,   \* constraints: a type, and parameters or none
  Benefits,     \* the lists of them a benefit may carry
  Inputs        \* what the extractors may find

Time == 1 .. MaxTime
Terminal == {"voided", "suspended", "exhausted", "expired"}

ASSUME EligibilityConstants ==
  /\ MaxTime \in Nat
  /\ Benefits \subseteq Seq(Constraint)
  /\ \A f \in Facts :
       /\ f.exhausted \in BOOLEAN /\ f.redeemed \in Int
       /\ f.window.starts \in Nat /\ f.window.expires \in Nat

VARIABLES
  now,        \* the clock
  facts,      \* what the provider holds
  info,       \* <<what was inspected>>, or <<>>
  cancelled,  \* whether the caller's context is done
  at,         \* where the EvaluateLocalEligibility call is
  request,    \* its Input.Now and the application's input; when it began
  rest,       \* the constraints it has yet to evaluate
  report,     \* its report so far
  result,     \* <<what it answered>>, or <<>>
  log         \* its evaluations, one a constraint (history)

callVars == <<at, request, rest, report, result, log>>
vars == <<now, facts, info, cancelled, callVars>>

-----------------------------------------------------------------------------
(* Status. *)

Unstarted(t, window) == window.starts # NoTime /\ t < window.starts
Ended(t, window) == window.expires # NoTime /\ t >= window.expires

Status == Terminal \cup {"unknown", "pending", "active"}

FromProvider(f) == IF f.provider \in {"pending", "active"} THEN f.provider ELSE "unknown"

(* A mutant of ResolveStatus: the operands of Before swapped at the start. *)
ResolveSwapped(t, f) ==
  IF f.provider \in Terminal THEN f.provider
  ELSE IF f.exhausted THEN "exhausted"
  ELSE IF f.window.starts # NoTime /\ f.window.starts < t THEN "pending"
  ELSE IF Ended(t, f.window) THEN "expired"
  ELSE FromProvider(f)

(* What the provider says is final comes first, then use, then time. *)
ResolveStatus(t, f) ==
  IF f.provider \in Terminal THEN f.provider
  ELSE IF f.exhausted THEN "exhausted"
  ELSE IF Unstarted(t, f.window) THEN "pending"
  ELSE IF Ended(t, f.window) THEN "expired"
  ELSE FromProvider(f)

NoFailure == "none"

(* A mutant of RedeemFailureCodeForStatus: its default names a code, too. *)
CodeForAnyStatus(status) == IF status = "active" THEN NoFailure ELSE "unknown"

(* "active" names no code, and neither does what is no status at all. *)
RedeemFailureCodeForStatus(status) ==
  CASE status = "unknown"   -> "unknown"
    [] status = "pending"   -> "benefit.pending"
    [] status = "voided"    -> "benefit.voided"
    [] status = "expired"   -> "benefit.expired"
    [] status = "exhausted" -> "benefit.exhausted"
    [] status = "suspended" -> "benefit.suspended"
    [] OTHER                -> NoFailure

-----------------------------------------------------------------------------
(* The result, and what EvaluationResult.Validate accepts (of one that has *)
(* no outcome).                                                            *)

Unevaluated == [NewReport EXCEPT !.status = "unevaluated"]

Inactive == [eligible |-> FALSE, failure |-> "benefit.inactive", report |-> Unevaluated]

Concluded(r) ==
  [eligible |-> r.status = "satisfied",
   failure  |-> IF r.status = "satisfied" THEN NoFailure ELSE "constraint.unsatisfied",
   report   |-> r]

EvaluationIsValid(r) ==
  IF r.eligible THEN r.failure = NoFailure /\ r.report.status # "unsatisfied"
                ELSE r.failure # NoFailure

-----------------------------------------------------------------------------
NoRequest == [pin |-> NoTime, began |-> NoTime]

Init ==
  /\ now \in Time
  /\ facts \in Facts
  /\ info = <<>>
  /\ cancelled = FALSE
  /\ at = "none" /\ request = NoRequest
  /\ rest = <<>> /\ report = NewReport
  /\ result = <<>> /\ log = <<>>

Tick ==
  /\ now < MaxTime
  /\ now' = now + 1
  /\ UNCHANGED <<facts, info, cancelled, callVars>>

(* Elsewhere the benefit is redeemed, suspended, prolonged. *)
FactsChange ==
  /\ facts' \in Facts
  /\ UNCHANGED <<now, info, cancelled, callVars>>

(* The driver resolves the status, or leaves it as the provider has it. *)
Inspect ==
  /\ at = "none"
  /\ \E constraints \in Benefits, resolved \in BOOLEAN :
       info' = <<[status |-> IF resolved THEN ResolveStatus(now, facts) ELSE facts.provider,
                  resolved |-> resolved, at |-> now, facts |-> facts,
                  constraints |-> constraints]>>
  /\ UNCHANGED <<now, facts, cancelled, callVars>>

(* EvaluateLocalEligibility, down to its loop.  Input.Now is given, or zero. *)
Call ==
  /\ at = "none"
  /\ info # <<>>
  /\ \E pin \in {NoTime} \cup Time, input \in Inputs :
       request' = [pin |-> pin, input |-> input, began |-> now]
  /\ \/ /\ info[1].status # "active"
        /\ at' = "done"
        /\ result' = <<Inactive>>
        /\ UNCHANGED rest
     \/ /\ info[1].status = "active"
        /\ at' = "loop"
        /\ rest' = info[1].constraints
        /\ UNCHANGED result
  /\ UNCHANGED <<now, facts, info, cancelled, report, log>>

(* A mutant of evaluationTime: the clock, whatever Input.Now says. *)
clockTime(pin) == now

evaluationTime(pin) == IF pin # NoTime THEN pin ELSE now

(* One round of EvaluateAll, with the evaluators of this package. *)
EvaluateNext ==
  /\ at = "loop"
  /\ rest # <<>>
  /\ LET c == Head(rest)
         found == c.type \in Registered
         answer == IF ~found THEN Failure
                   ELSE BuiltinAnswer(c, cancelled, evaluationTime(request.pin),
                                      info[1].facts.redeemed, request.input)
     IN /\ rest' = Tail(rest)
        /\ report' = Count(report, Judge(c.type, found, answer))
        /\ log' = Append(log, [constraint |-> c, cancelled |-> cancelled])
  /\ UNCHANGED <<now, facts, info, cancelled, at, request, result>>

Conclude ==
  /\ at = "loop"
  /\ rest = <<>>
  /\ at' = "done"
  /\ result' = <<Concluded(report)>>
  /\ UNCHANGED <<now, facts, info, cancelled, request, rest, report, log>>

Cancel ==
  /\ at = "loop"
  /\ ~cancelled
  /\ cancelled' = TRUE
  /\ UNCHANGED <<now, facts, info, callVars>>

(* The host takes the result, and may call again with the same inspection. *)
TakeResult ==
  /\ at = "done"
  /\ cancelled' = FALSE
  /\ at' = "none" /\ request' = NoRequest
  /\ rest' = <<>> /\ report' = NewReport
  /\ result' = <<>> /\ log' = <<>>
  /\ UNCHANGED <<now, facts, info>>

Next == \/ Tick \/ FactsChange \/ Inspect
        \/ Call \/ EvaluateNext \/ Conclude \/ Cancel \/ TakeResult

Spec == Init /\ [][Next]_vars

-----------------------------------------------------------------------------
(* Properties. *)

(* c would be satisfied if it were evaluated at t, by a call in good time. *)
Holds(c, t) ==
  /\ c.type \in Registered
  /\ BuiltinAnswer(c, FALSE, t, info[1].facts.redeemed, request.input).code = "satisfied"

(* A benefit found eligible was inspected as active, and none of             *)
(* its constraints was passed over: each was evaluated before the caller     *)
(* gave up, at an instant of this very call or at the one the caller gave,   *)
(* and held then.  (Without Input.Now each has an instant of its own,        *)
(* input.go:22; nothing says that there is one at which all of them held.)   *)
EligibleHolds ==
  result # <<>> /\ result[1].eligible =>
    LET instants == IF request.pin # NoTime THEN {request.pin} ELSE request.began .. now
        constraints == info[1].constraints
    IN /\ info[1].status = "active"
       /\ Len(log) = Len(constraints)
       /\ \A i \in 1 .. Len(constraints) :
            /\ log[i].constraint = constraints[i]
            /\ ~log[i].cancelled
            /\ \E t \in instants : Holds(constraints[i], t)

(* With Input.Now given, the report is that of one instant, however long the *)
(* call takes: the violations are the constraints that do not hold then, in  *)
(* their order.                                                              *)
PinnedIsOneInstant ==
  result # <<>> /\ result[1].report.status # "unevaluated" /\ request.pin # NoTime
  /\ (\A i \in 1 .. Len(log) : ~log[i].cancelled) =>
    LET violations == result[1].report.violations
        constraints == info[1].constraints
        failed == {i \in 1 .. Len(constraints) : ~Holds(constraints[i], request.pin)}
    IN /\ result[1].eligible <=> failed = {}
       /\ \E place \in Listings(Len(violations), failed) :
            \A i \in 1 .. Len(violations) : violations[i].type = constraints[place[i]].type

(* Time alone takes a status forward only: from pending, through active or   *)
(* unknown, to one that is final.  What has started does not become pending, *)
(* what has expired does not come back.                                      *)
Rank(status) == CASE status = "pending" -> 0 [] status \in Terminal -> 2 [] OTHER -> 1

StatusNeverRegresses ==
  [][UNCHANGED facts => Rank(ResolveStatus(now, facts)) <= Rank(ResolveStatus(now', facts'))]_vars

(* The two readings of a half-open window agree, at its edges and when it is *)
(* reversed (status.go:57-62, builtin_time.go:39-45): a resolved status is   *)
(* active exactly when its provider says so, uses are left, and a time range        *)
(* constraint of the same bounds would be satisfied.                         *)
StatusIsWindow ==
  info # <<>> /\ info[1].resolved =>
    LET f == info[1].facts
        unbounded == f.window.starts = NoTime /\ f.window.expires = NoTime
    IN info[1].status = "active" <=>
         /\ f.provider = "active" /\ ~f.exhausted
         /\ unbounded \/ TimeRangeAnswer(<<f.window>>, info[1].at) = Satisfied

(* Every result passes EvaluationResult.Validate, and the two accounts of a  *)
(* benefit that is not active agree: of the seven statuses, the ones that    *)
(* make it inactive (eligibility.go:23) are the ones for which               *)
(* RedeemFailureCodeForStatus has a code.  They part on what is none of the  *)
(* seven: the evaluation finds it inactive, and no code is implied           *)
(* (status.go:9-11, 35-36).                                                  *)
ResultsAgree ==
  result # <<>> =>
    LET status == info[1].status
        inactive == result[1].failure = "benefit.inactive"
        coded == RedeemFailureCodeForStatus(status) # NoFailure
    IN /\ EvaluationIsValid(result[1])
       /\ status \in Status => (inactive <=> coded)
       /\ status \notin Status => inactive /\ ~coded

=============================================================================
