-------------------------- MODULE BuiltinEvaluators --------------------------
(***************************************************************************)
(* The evaluators of the constraint package (builtin_time.go,              *)
(* builtin_usage.go, builtin_amount.go, builtin_scope.go): what each       *)
(* answers, as a function of its parameters and of what it reads.  The     *)
(* parameters of a constraint are <<p>>, or <<>> where they are missing or *)
(* cannot be decoded.  An instant is a positive number, zero is time.Time's*)
(* zero value.                                                             *)
(***************************************************************************)
EXTENDS Money, ConstraintReport

CONSTANTS
  Zone,      \* the timezones time.LoadLocation knows; "" is the instant's own
  DayOf,     \* DayOf[z][t]: the weekday of instant t in zone z
  Trim       \* Trim[v]: a scope value without its leading and trailing blanks

NoTime == 0
NoValue == ""
Decides(holds) == IF holds THEN Satisfied ELSE Refusal("unsatisfied")

IsWindow(w) ==
  /\ w.starts # NoTime \/ w.expires # NoTime
  /\ w.starts # NoTime /\ w.expires # NoTime => w.starts < w.expires

(* A mutant of TimeRangeAnswer: the end belongs to the range. *)
TimeRangeInclusive(params, now) ==
  IF params = <<>> \/ ~IsWindow(params[1]) THEN Refusal("invalid")
  ELSE LET w == params[1] IN
    Decides(/\ w.starts = NoTime \/ w.starts <= now
            /\ w.expires = NoTime \/ now <= w.expires)

TimeRangeAnswer(params, now) ==
  IF params = <<>> \/ ~IsWindow(params[1]) THEN Refusal("invalid")
  ELSE LET w == params[1] IN
    Decides(/\ w.starts = NoTime \/ w.starts <= now
            /\ w.expires = NoTime \/ now < w.expires)

WeekdayAnswer(params, now) ==
  IF params = <<>> THEN Refusal("invalid")
  ELSE LET p == params[1] IN
    IF \/ p.days = {} \/ ~(p.days \subseteq 0 .. 6)
       \/ p.zone \notin Zone
      THEN Refusal("invalid")
    ELSE Decides(DayOf[p.zone][now] \in p.days)

RedemptionLimitAnswer(params, redeemed) ==
  IF params = <<>> \/ params[1] <= 0 \/ redeemed < 0 THEN Refusal("invalid")
  ELSE Decides(redeemed < params[1])

(* The minimum and maximum amount evaluators.  The application's extractor  *)
(* may be nil, fail, find nothing, or find some money, valid or not.        *)
AmountAnswer(minimum, params, extract) ==
  IF extract.got = "nil" THEN Failure
  ELSE IF \/ params = <<>>
          \/ params[1].amount < 0 \/ params[1].currency \notin WellFormed
    THEN Refusal("invalid")
  ELSE IF extract.got = "error" THEN Failure
  ELSE IF extract.got = "missing" THEN Refusal("unsatisfied")
  ELSE LET p == params[1] m == extract.money IN
    IF m.currency \notin WellFormed \/ m.amount < 0 THEN Failure
    ELSE Decides(/\ p.currency = NoCurrency \/ SameCurrency(m.currency, p.currency)
                 /\ IF minimum THEN m.amount >= p.amount ELSE m.amount <= p.amount)

(* The scope evaluator: blanks around an allowed value are dropped, around  *)
(* an extracted one they are not.                                           *)
ScopeAnswer(params, extract) ==
  IF extract.got = "nil" THEN Failure
  ELSE IF params = <<>> THEN Refusal("invalid")
  ELSE LET p == params[1]
           allowed == {Trim[v] : v \in p.values} \ {NoValue}
       IN
    IF p.match \notin {"", "any", "all"} \/ allowed = {} THEN Refusal("invalid")
    ELSE IF extract.got = "error" THEN Failure
    ELSE Decides(/\ extract.values # {}
                 /\ IF p.match = "all" THEN extract.values \subseteq allowed
                    ELSE extract.values \cap allowed # {})

-----------------------------------------------------------------------------
(* A constraint, and what the evaluators read beside it: the instant, the   *)
(* redemption count of the inspected benefit, and what the application's    *)
(* extractors find in its input.                                            *)
TypeAnswer(c, now, redeemed, input) ==
  CASE c.type = "time_range" -> TimeRangeAnswer(c.params, now)
    [] c.type = "weekday" -> WeekdayAnswer(c.params, now)
    [] c.type = "redemption_limit" -> RedemptionLimitAnswer(c.params, redeemed)
    [] c.type = "minimum_amount" -> AmountAnswer(TRUE, c.params, input.amount)
    [] c.type = "maximum_amount" -> AmountAnswer(FALSE, c.params, input.amount)
    [] c.type = "scope" -> ScopeAnswer(c.params, input.scope)

(* A mutant of BuiltinAnswer: the context is not asked. *)
BuiltinAnswerRegardless(c, cancelled, now, redeemed, input) ==
  TypeAnswer(c, now, redeemed, input)

(* Every one of them asks the context first. *)
BuiltinAnswer(c, cancelled, now, redeemed, input) ==
  IF cancelled THEN Failure ELSE TypeAnswer(c, now, redeemed, input)

=============================================================================
