----------------------------- MODULE DriverTest -----------------------------
(***************************************************************************)
(* The test harness for drivers (drivertest/drivertest.go): the three      *)
(* subtests of Run, one call of the driver a step, against a driver that   *)
(* may answer anything, write to its input and consume when it should not. *)
(* The fixture is the application's: what it declares, offers and asserts. *)
(* Its input and the state of its provider are values that are as they     *)
(* were made (0) or not (1): for the provider, 1 is consumed.              *)
(***************************************************************************)
EXTENDS Results

CONSTANTS
  Fixtures,                                   \* the fixtures a factory may return
  Infos, Evaluations, Redeemed, Reversed,     \* the results a driver may return
  Ids, Outcomes, Restored                     \* what the records in them consist of

Optional(S) == {<<>>} \cup {<<x>> : x \in S}
Redemptions == [redemptionId : Ids, provider : Ids, outcome : Outcomes]
Reversals == [redemptionId : Ids, reversalId : Ids, provider : Ids,
              outcome : Outcomes, restored : Restored]
ResultsOf(records) == [status : ResultStatus \cup {"other"}, failure : BOOLEAN,
                     record : Optional(records)]

ReverseRequests == [reference : BOOLEAN, redemptionId : Ids, reversalId : Ids, provider : Ids,
                    mode : ReverseMode \cup {"other"}]

ASSUME DriverTestConstants ==
  /\ Redeemed \subseteq ResultsOf(Redemptions) /\ Reversed \subseteq ResultsOf(Reversals)
  /\ \A f \in Fixtures : f.reverse \in ReverseRequests /\ (f.valid => f.type \in Namespaced)

VARIABLES
  subtest,   \* the subtest that runs, or ran last: 1, 2 or 3
  at,        \* the call it is about to make; "over" when it has ended
  fixture,   \* its fixture
  input,     \* the input of the fixture's requests
  provider,  \* the state of the fixture's provider
  log,       \* the calls it has made: request, answer and effects
  verdict    \* the verdict on each subtest that has ended

vars == <<subtest, at, fixture, input, provider, log, verdict>>

NoFixture == [driver |-> FALSE]

Init ==
  /\ subtest = 1 /\ at = "fresh"
  /\ fixture = NoFixture
  /\ input = 0 /\ provider = 0
  /\ log = <<>> /\ verdict = <<>>

-----------------------------------------------------------------------------
(* The checks. *)

(* unchanged: without a snapshot there is nothing to compare. *)
Unchanged(snapshot, before, after) == snapshot => before = after

CheckOutcome(outcome, original) ==
  original # <<>> => Resolve(original[1], outcome).err = "none"

CheckEvaluation(result, original) ==
  EvaluationIsValid(result) /\ (result.eligible => CheckOutcome(result.outcome, original))

(* A mutant of CheckRedeem: a missing ID is passed over, as Correlate does. *)
CheckRedeemLoosely(req, result, original) ==
  /\ RequestIsValid(req) /\ RedeemResultIsValid(result)
  /\ result.record # <<>> =>
       /\ CallerIdFits(req.redemptionId, result.record[1].redemptionId)
       /\ CheckOutcome(result.record[1].outcome, original)

CheckRedeem(req, result, original) ==
  /\ RequestIsValid(req) /\ RedeemResultIsValid(result)
  /\ result.record # <<>> =>
       /\ result.record[1].redemptionId = req.redemptionId
       /\ CheckOutcome(result.record[1].outcome, original)

CheckReverse(req, result) ==
  /\ ReverseRequestIsValid(req) /\ ReverseResultIsValid(result)
  /\ result.record # <<>> =>
       LET r == result.record[1] IN
       /\ r.redemptionId = req.redemptionId /\ r.reversalId = req.reversalId
       /\ ProviderIdFits(req.provider, r.provider)

(* A mutant of Fresh's check: what a declared reversal needs is not asked. *)
FixtureIsDescribed(f) == f.driver /\ f.valid

FixtureIsUsable(f) ==
  /\ f.driver /\ f.valid
  /\ f.declares => f.reverser /\ f.assertRedeemed /\ f.assertReversed

-----------------------------------------------------------------------------
(* The subtests. *)

End(how) == at' = "over" /\ verdict' = Append(verdict, how)

Proceed(next) == at' = next /\ UNCHANGED verdict

(* A fresh fixture with a provider of its own; whether Reverse is declared  *)
(* is asked once here and, for the third subtest, again.                    *)
Fresh ==
  /\ at = "fresh"
  /\ \E f \in Fixtures :
       /\ fixture' = f
       /\ IF ~FixtureIsUsable(f) THEN End("failed")
          ELSE IF subtest = 1 THEN Proceed("inspect")
          ELSE IF subtest = 3 /\ ~f.stillDeclares THEN End("skipped")
          ELSE Proceed("redeem")
  /\ input' = 0 /\ provider' = 0 /\ log' = <<>>
  /\ UNCHANGED subtest

(* A call of the driver, and what it may do besides answering. *)
Ask(op, req, err, result) ==
  /\ at = op
  /\ input' \in {0, 1} /\ provider' \in {0, 1}
  /\ log' = Append(log, [op |-> op, req |-> req, err |-> err, result |-> result,
                         input |-> <<input, input'>>, provider |-> <<provider, provider'>>])
  /\ UNCHANGED <<subtest, fixture>>

InputKept(before) == Unchanged(fixture.inputSnapshot, before, input')
NotConsumed == Unchanged(fixture.consumptionSnapshot, 0, provider')

Inspect ==
  \E err \in BOOLEAN, info \in Infos :
    /\ Ask("inspect", <<>>, err, info)
    /\ IF InputKept(0) /\ NotConsumed /\ ~err /\ InfoIsValid(info) /\ info.type = fixture.type
         THEN Proceed("evaluate") ELSE End("failed")

(* Twice, and compared with what was before Inspect. *)
Evaluate ==
  \E err \in BOOLEAN, result \in Evaluations :
    /\ Ask("evaluate", <<>>, err, result)
    /\ IF /\ ~err /\ CheckEvaluation(result, fixture.original) /\ result.eligible
          /\ InputKept(0) /\ NotConsumed
         THEN Proceed(IF Len(log) = 1 THEN "evaluate" ELSE "redeem") ELSE End("failed")

Redeem ==
  \E err \in BOOLEAN, result \in Redeemed :
    /\ Ask("redeem", fixture.redeem, err, result)
    /\ IF /\ InputKept(input) /\ ~err /\ CheckRedeem(fixture.redeem, result, fixture.original)
          /\ result.status = "success"
          /\ fixture.assertRedeemed => provider' = 1
         THEN IF subtest = 3 THEN Proceed("reverse") ELSE End("passed")
         ELSE End("failed")

(* A mutant of Reversing: the IDs are those the fixture came with. *)
ReversingAsGiven == [fixture.reverse EXCEPT !.mode = "full"]

(* The request to reverse what was just redeemed, in full. *)
Reversing ==
  LET r == log[Len(log)].result.record[1] IN
  [fixture.reverse EXCEPT !.redemptionId = r.redemptionId, !.provider = r.provider, !.mode = "full"]

(* A redemption that is missing, a driver without the method or a fixture   *)
(* without the assertion is a nil dereference or a failed conversion.       *)
CannotAsk == log[Len(log)].result.record = <<>> \/ ~fixture.reverser

Reverse ==
  \/ /\ at = "reverse" /\ CannotAsk
     /\ End("panicked")
     /\ UNCHANGED <<subtest, fixture, input, provider, log>>
  \/ /\ at = "reverse" /\ ~CannotAsk
     /\ \E err \in BOOLEAN, result \in Reversed :
          /\ Ask("reverse", Reversing, err, result)
          /\ IF /\ InputKept(input) /\ ~err /\ CheckReverse(Reversing, result)
                /\ result.status = "success"
               THEN End(IF ~fixture.assertReversed THEN "panicked"
                        ELSE IF provider' = 0 THEN "passed" ELSE "failed")
               ELSE End("failed")

(* A failure ends its subtest alone; a panic ends the test. *)
NextSubtest ==
  /\ at = "over" /\ subtest < 3
  /\ subtest' = subtest + 1
  /\ Proceed("fresh")
  /\ UNCHANGED <<fixture, input, provider, log>>

Next == Fresh \/ Inspect \/ Evaluate \/ Redeem \/ Reverse \/ NextSubtest

Spec == Init /\ [][Next]_vars

-----------------------------------------------------------------------------
(* Properties. *)

Script == <<<<"inspect", "evaluate", "evaluate", "redeem">>, <<"redeem">>, <<"redeem", "reverse">>>>

(* What a contract-abiding driver never does in a call, as far as the fixture *)
(* shows it: a host could take each of its answers as it is.                  *)
AnswersWell(e) ==
  /\ e.op = "inspect" => InfoIsValid(e.result) /\ e.result.type = fixture.type
  /\ e.op = "evaluate" => /\ EvaluationIsValid(e.result) /\ e.result.eligible
                          /\ CheckOutcome(e.result.outcome, fixture.original)
  /\ e.op = "redeem" => /\ e.result.status = "success"
                        /\ CorrelateRedeem(e.result, e.req) = Correlated(e.result)
                        /\ CheckOutcome(e.result.record[1].outcome, fixture.original)
  /\ e.op = "reverse" => /\ e.result.status = "success"
                         /\ CorrelateReverse(e.result, e.req) = Correlated(e.result)

ActsWell(e) ==
  /\ fixture.inputSnapshot => e.input[1] = e.input[2]
  /\ e.op \in {"inspect", "evaluate"} /\ fixture.consumptionSnapshot =>
       e.provider[1] = e.provider[2]
  /\ e.op = "redeem" /\ fixture.assertRedeemed => e.provider[2] = 1
  /\ e.op = "reverse" /\ fixture.assertReversed => e.provider[2] = 0

Faultless(e) == ~e.err /\ AnswersWell(e) /\ ActsWell(e)

AllFaultless == \A i \in 1 .. Len(log) : Faultless(log[i])

AllAsked ==
  /\ Len(log) = Len(Script[subtest])
  /\ \A i \in 1 .. Len(log) : log[i].op = Script[subtest][i]

(* A subtest fails exactly when the fixture or a call has a fault that shows, *)
(* and a passing one has made all its calls (drivertest.go:125-239): no fault *)
(* slips past the order and the moments of the checks, and no driver that     *)
(* keeps its contract is failed.  What passes, a host correlates unchanged.   *)
RunIsExact ==
  at = "over" =>
    /\ verdict[subtest] = "failed" <=> ~FixtureIsUsable(fixture) \/ ~AllFaultless
    /\ verdict[subtest] = "passed" => AllAsked

(* The harness itself panics for one fixture only: one whose driver declares  *)
(* Reverse when asked again after it had not (drivertest.go:133, 209).        *)
PanicsOnlyOnChange ==
  at = "over" /\ verdict[subtest] = "panicked" => fixture.stillDeclares /\ ~fixture.declares

(* A reversal that passed was asked for under the caller's ID of this         *)
(* fixture's redemption, and is not of another of the provider's              *)
(* (drivertest.go:217-218).                                                   *)
PassedReversalIsOwn ==
  at = "over" /\ subtest = 3 /\ verdict[3] = "passed" =>
    LET redemption == log[1].result.record[1]
        reversal == log[2].result.record[1]
    IN /\ reversal.redemptionId = fixture.redeem.redemptionId
       /\ reversal.provider = redemption.provider \/ NoId \in {reversal.provider, redemption.provider}

=============================================================================
