-------------------------- MODULE DriverTestProofs --------------------------
(***************************************************************************)
(* Proofs about DriverTest, for any fixtures and any results a driver may  *)
(* return.  The checks of the package and the correlation of a host come   *)
(* to the same for a success (RedeemCheckIsCorrelation and its like);      *)
(* Inv says of every point of a subtest which calls have been made, all    *)
(* without a fault.                                                        *)
(***************************************************************************)
EXTENDS DriverTest, SequenceTheorems, TLAPS

-----------------------------------------------------------------------------
(* Checks and correlation. *)

LEMMA SuccessHasRecord ==
  ASSUME NEW records, NEW a \in ResultsOf(records), a.status = "success", PayloadFits(a)
  PROVE  \E r \in records : a.record = <<r>> /\ a = [status |-> "success", failure |-> FALSE, record |-> <<r>>]
  BY DEF ResultsOf, Optional, PayloadFits

LEMMA RecordAsIs ==
  ASSUME NEW r, NEW q, NEW a, a = [status |-> "success", failure |-> FALSE, record |-> <<r>>]
  PROVE  [a EXCEPT !.record = <<q>>] = a <=> q = r
<1> DEFINE S == [status : {"success"}, failure : {FALSE}, record : {<<r>>}]
<1>1. a \in S /\ a.record = <<r>>
  OBVIOUS
<1> HIDE DEF S
<1>2. [a EXCEPT !.record = <<q>>].record = <<q>>
  BY <1>1 DEF S
<1>3. [a EXCEPT !.record = a.record] = a
  BY <1>1 DEF S
<1>4. <<q>> = <<r>> <=> q = r
  OBVIOUS
<1> QED
  BY <1>1, <1>2, <1>3, <1>4

LEMMA CorrelatedIsSame ==
  ASSUME NEW a, NEW b
  PROVE  /\ Correlated(a) = Correlated(b) <=> a = b
         /\ \A err : err # "none" => Uncorrelated(err) # Correlated(b)
<1>1. Correlated(a).result[1] = a /\ Correlated(b).result[1] = b /\ Correlated(b).err = "none"
  BY DEF Correlated
<1>2. \A err : Uncorrelated(err).err = err
  BY DEF Uncorrelated
<1> QED
  BY <1>1, <1>2

(* CheckRedeem (drivertest.go) passes a success exactly when Correlate returns *)
(* it to a host unchanged and its outcome resolves for the fixture's amount.   *)
THEOREM RedeemCheckIsCorrelation ==
  ASSUME NEW a \in ResultsOf(Redemptions), a.status = "success", NEW req, NEW original
  PROVE  CheckRedeem(req, a, original) <=>
           /\ CorrelateRedeem(a, req) = Correlated(a)
           /\ CheckOutcome(a.record[1].outcome, original)
<1>1. CASE ~RequestIsValid(req) \/ ~RedeemResultIsValid(a)
  BY <1>1, CorrelatedIsSame DEF CheckRedeem, CorrelateRedeem
<1>2. CASE RequestIsValid(req) /\ RedeemResultIsValid(a)
  <2>1. PICK r \in Redemptions :
          a.record = <<r>> /\ a = [status |-> "success", failure |-> FALSE, record |-> <<r>>]
    BY <1>2, SuccessHasRecord DEF RedeemResultIsValid
  <2> DEFINE q == [r EXCEPT !.redemptionId = req.redemptionId]
  <2>2. q = r <=> r.redemptionId = req.redemptionId
    BY DEF Redemptions
  <2>3. CorrelateRedeem(a, req) = IF CallerIdFits(req.redemptionId, r.redemptionId)
                                    THEN Correlated([a EXCEPT !.record = <<q>>])
                                    ELSE Uncorrelated("ErrIdMismatch")
    BY <1>2, <2>1 DEF CorrelateRedeem
  <2> HIDE DEF q
  <2>4. CorrelateRedeem(a, req) = Correlated(a) <=> r.redemptionId = req.redemptionId
    <3>1. r.redemptionId = req.redemptionId => CallerIdFits(req.redemptionId, r.redemptionId)
      BY DEF CallerIdFits
    <3>2. [a EXCEPT !.record = <<q>>] = a <=> q = r
      BY <2>1, RecordAsIs
    <3>3. Correlated([a EXCEPT !.record = <<q>>]) = Correlated(a) <=> q = r
      BY <3>2, CorrelatedIsSame
    <3>4. Uncorrelated("ErrIdMismatch") # Correlated(a)
      BY CorrelatedIsSame
    <3> QED
      BY <2>2, <2>3, <3>1, <3>3, <3>4
  <2> QED
    BY <1>2, <2>1, <2>4 DEF CheckRedeem
<1> QED
  BY <1>1, <1>2

(* CheckReverse passes a success exactly when Correlate returns it unchanged. *)
THEOREM ReverseCheckIsCorrelation ==
  ASSUME NEW a \in ResultsOf(Reversals), a.status = "success", NEW req
  PROVE  CheckReverse(req, a) <=> CorrelateReverse(a, req) = Correlated(a)
<1>1. CASE ~ReverseRequestIsValid(req) \/ ~ReverseResultIsValid(a)
  BY <1>1, CorrelatedIsSame DEF CheckReverse, CorrelateReverse
<1>2. CASE ReverseRequestIsValid(req) /\ ReverseResultIsValid(a)
  <2>1. PICK r \in Reversals :
          a.record = <<r>> /\ a = [status |-> "success", failure |-> FALSE, record |-> <<r>>]
    BY <1>2, SuccessHasRecord DEF ReverseResultIsValid
  <2> DEFINE q == [r EXCEPT !.redemptionId = req.redemptionId, !.reversalId = req.reversalId]
             fits == /\ CallerIdFits(req.redemptionId, r.redemptionId)
                     /\ CallerIdFits(req.reversalId, r.reversalId)
                     /\ ProviderIdFits(req.provider, r.provider)
  <2>2. q = r <=> r.redemptionId = req.redemptionId /\ r.reversalId = req.reversalId
    <3>1. r.redemptionId = req.redemptionId /\ r.reversalId = req.reversalId => q = r
      BY DEF Reversals
    <3>2. q.redemptionId = req.redemptionId /\ q.reversalId = req.reversalId
      BY DEF Reversals
    <3> QED
      BY <3>1, <3>2
  <2>3. CorrelateReverse(a, req) = IF fits THEN Correlated([a EXCEPT !.record = <<q>>])
                                   ELSE Uncorrelated("ErrIdMismatch")
    BY <1>2, <2>1 DEF CorrelateReverse
  <2>4. r.redemptionId = req.redemptionId /\ r.reversalId = req.reversalId =>
          (fits <=> ProviderIdFits(req.provider, r.provider))
    BY DEF CallerIdFits
  <2>5. fits => ProviderIdFits(req.provider, r.provider)
    OBVIOUS
  <2> HIDE DEF q, fits
  <2>6. CorrelateReverse(a, req) = Correlated(a) <=>
          /\ r.redemptionId = req.redemptionId /\ r.reversalId = req.reversalId
          /\ ProviderIdFits(req.provider, r.provider)
    <3>2. [a EXCEPT !.record = <<q>>] = a <=> q = r
      BY <2>1, RecordAsIs
    <3>3. Correlated([a EXCEPT !.record = <<q>>]) = Correlated(a) <=> q = r
      BY <3>2, CorrelatedIsSame
    <3>4. Uncorrelated("ErrIdMismatch") # Correlated(a)
      BY CorrelatedIsSame
    <3> QED
      BY <2>2, <2>3, <2>4, <2>5, <3>3, <3>4
  <2> QED
    BY <1>2, <2>1, <2>6 DEF CheckReverse
<1> QED
  BY <1>1, <1>2

-----------------------------------------------------------------------------
(* The invariant. *)

(* A call made, of this operation and without a fault. *)
Made(e, op) == e.op = op /\ Faultless(e)

(* What the checks before a redemption leave of input and provider. *)
AtRest ==
  /\ fixture.inputSnapshot => input = 0
  /\ fixture.consumptionSnapshot => provider = 0

Inspecting == subtest = 1 /\ AtRest /\ log = <<>>

Evaluating ==
  /\ subtest = 1 /\ AtRest
  /\ \/ \E a : log = <<a>> /\ Made(a, "inspect")
     \/ \E a, b : log = <<a, b>> /\ Made(a, "inspect") /\ Made(b, "evaluate")

Redeeming ==
  \/ subtest = 1 /\ \E a, b, c : /\ log = <<a, b, c>>
                                 /\ Made(a, "inspect") /\ Made(b, "evaluate") /\ Made(c, "evaluate")
  \/ subtest = 2 /\ log = <<>>
  \/ subtest = 3 /\ log = <<>> /\ fixture.stillDeclares

Reversing3 ==
  /\ subtest = 3 /\ fixture.stillDeclares
  /\ \E a : /\ log = <<a>> /\ Made(a, "redeem")
            /\ a.req = fixture.redeem /\ a.result \in Redeemed

InUse == fixture \in Fixtures /\ FixtureIsUsable(fixture)

Running ==
  /\ at \notin {"fresh", "over"} => InUse
  /\ at = "inspect" => Inspecting
  /\ at = "evaluate" => Evaluating
  /\ at = "redeem" => Redeeming
  /\ at = "reverse" => Reversing3

Verdicts ==
  /\ subtest \in 1 .. 3
  /\ verdict \in Seq({"failed", "passed", "skipped", "panicked"})
  /\ Len(verdict) = IF at = "over" THEN subtest ELSE subtest - 1

Exact == RunIsExact /\ PanicsOnlyOnChange /\ PassedReversalIsOwn

Inv == Running /\ Verdicts /\ Exact

LEMMA InitInv == Init => Inv
  BY DEF Init, Inv, Running, Verdicts, Exact, RunIsExact, PanicsOnlyOnChange, PassedReversalIsOwn

(* The verdicts of a subtest that goes on and of one that ends. *)
LEMMA ProceedKeeps ==
  ASSUME Inv, NEW next \in {"inspect", "evaluate", "redeem", "reverse"},
         at # "over", Proceed(next), UNCHANGED subtest
  PROVE  Verdicts' /\ Exact'
  BY DEF Inv, Verdicts, Exact, Proceed, RunIsExact, PanicsOnlyOnChange, PassedReversalIsOwn

LEMMA EndKeeps ==
  ASSUME Inv, NEW how \in {"failed", "passed", "skipped", "panicked"},
         at # "over", End(how), UNCHANGED subtest
  PROVE  /\ Running' /\ Verdicts' /\ at' = "over"
         /\ verdict'[subtest'] = how
  BY DEF Inv, Verdicts, End, Running

LEMMA FreshKeeps ==
  ASSUME Inv, Fresh
  PROVE  Inv'
<1>1. PICK f \in Fixtures :
        /\ fixture' = f
        /\ IF ~FixtureIsUsable(f) THEN End("failed")
           ELSE IF subtest = 1 THEN Proceed("inspect")
           ELSE IF subtest = 3 /\ ~f.stillDeclares THEN End("skipped")
           ELSE Proceed("redeem")
  BY DEF Fresh
<1>2. at = "fresh" /\ input' = 0 /\ provider' = 0 /\ log' = <<>> /\ subtest' = subtest
  BY DEF Fresh
<1>3. AllFaultless'
  BY <1>2 DEF AllFaultless
<1>4. CASE ~FixtureIsUsable(f)
  <2>1. End("failed")
    BY <1>1, <1>4
  <2>2. Running' /\ Verdicts' /\ at' = "over" /\ verdict'[subtest'] = "failed"
    BY <1>2, <2>1, EndKeeps
  <2>3. ~FixtureIsUsable(fixture')
    BY <1>1, <1>4
  <2> QED
    BY <2>2, <2>3 DEF Inv, Exact, RunIsExact, PanicsOnlyOnChange, PassedReversalIsOwn, FixtureIsUsable
<1>5. CASE FixtureIsUsable(f) /\ subtest = 3 /\ ~f.stillDeclares
  <2>1. End("skipped")
    BY <1>1, <1>5
  <2>2. Running' /\ Verdicts' /\ at' = "over" /\ verdict'[subtest'] = "skipped"
    BY <1>2, <2>1, EndKeeps
  <2>3. FixtureIsUsable(fixture')
    BY <1>1, <1>5
  <2>4. verdict'[3] = "skipped"
    BY <1>2, <1>5, <2>2
  <2> QED
    BY <1>3, <2>2, <2>3, <2>4 DEF Inv, Exact, RunIsExact, PanicsOnlyOnChange, PassedReversalIsOwn, FixtureIsUsable
<1>6. CASE FixtureIsUsable(f) /\ ~(subtest = 3 /\ ~f.stillDeclares)
  <2>1. Proceed(IF subtest = 1 THEN "inspect" ELSE "redeem")
    BY <1>1, <1>6
  <2>2. Verdicts' /\ Exact'
    BY <1>2, <2>1, ProceedKeeps
  <2>3. Running'
    BY <1>1, <1>2, <1>6, <2>1
       DEF Inv, Verdicts, Running, Proceed, Inspecting, Redeeming, AtRest, InUse, FixtureIsUsable
  <2> QED
    BY <2>2, <2>3 DEF Inv
<1> QED
  BY <1>4, <1>5, <1>6

-----------------------------------------------------------------------------
(* The calls. *)

Asking == {"inspect", "evaluate", "redeem", "reverse"}

(* What is logged of a call. *)
Logs(e, op, err, result) ==
  /\ e.op = op /\ e.err = err /\ e.result = result
  /\ e.input = <<input, input'>> /\ e.provider = <<provider, provider'>>
  /\ log' = Append(log, e)
  /\ UNCHANGED <<subtest, fixture>>

LEMMA AskLogs ==
  ASSUME NEW op, NEW req, NEW err, NEW result, Ask(op, req, err, result)
  PROVE  at = op /\ \E e : e.req = req /\ Logs(e, op, err, result)
<1> DEFINE e == [op |-> op, req |-> req, err |-> err, result |-> result,
                 input |-> <<input, input'>>, provider |-> <<provider, provider'>>]
<1>1. e.req = req /\ Logs(e, op, err, result)
  BY DEF Ask, Logs
<1> QED
  BY <1>1 DEF Ask

(* A log of one more call. *)
LEMMA OneMore ==
  /\ \A a, e : Append(<<a>>, e) = <<a, e>>
  /\ \A a, b, e : Append(<<a, b>>, e) = <<a, b, e>>
  /\ \A a, b, c, e : Append(<<a, b, c>>, e) = <<a, b, c, e>>
<1>1. ASSUME NEW a, NEW e
      PROVE  Append(<<a>>, e) = <<a, e>>
  <2> DEFINE S == {a, e}
  <2>1. Append(<<a>>, e) \in Seq(S) /\ <<a, e>> \in Seq(S)
    OBVIOUS
  <2>2. /\ Len(Append(<<a>>, e)) = 2 /\ Len(<<a, e>>) = 2
        /\ \A i \in 1 .. 2 : Append(<<a>>, e)[i] = <<a, e>>[i]
    OBVIOUS
  <2> HIDE DEF S
  <2> QED
    BY <2>1, <2>2, SeqEqual
<1>2. ASSUME NEW a, NEW b, NEW e
      PROVE  Append(<<a, b>>, e) = <<a, b, e>>
  <2> DEFINE S == {a, b, e}
  <2>1. Append(<<a, b>>, e) \in Seq(S) /\ <<a, b, e>> \in Seq(S)
    OBVIOUS
  <2>2. /\ Len(Append(<<a, b>>, e)) = 3 /\ Len(<<a, b, e>>) = 3
        /\ \A i \in 1 .. 3 : Append(<<a, b>>, e)[i] = <<a, b, e>>[i]
    OBVIOUS
  <2> HIDE DEF S
  <2> QED
    BY <2>1, <2>2, SeqEqual
<1>3. ASSUME NEW a, NEW b, NEW c, NEW e
      PROVE  Append(<<a, b, c>>, e) = <<a, b, c, e>>
  <2> DEFINE S == {a, b, c, e}
  <2>1. Append(<<a, b, c>>, e) \in Seq(S) /\ <<a, b, c, e>> \in Seq(S)
    OBVIOUS
  <2>2. /\ Len(Append(<<a, b, c>>, e)) = 4 /\ Len(<<a, b, c, e>>) = 4
        /\ \A i \in 1 .. 4 : Append(<<a, b, c>>, e)[i] = <<a, b, c, e>>[i]
    OBVIOUS
  <2> HIDE DEF S
  <2> QED
    BY <2>1, <2>2, SeqEqual
<1> QED
  BY <1>1, <1>2, <1>3

(* One more call: what was faultless is so with it if it is itself. *)
LEMMA LogGrows ==
  ASSUME Inv, at \in Asking, NEW e, log' = Append(log, e), UNCHANGED fixture
  PROVE  AllFaultless' <=> Faultless(e)
<1>1. \A x : Faultless(x)' <=> Faultless(x)
  BY DEF Faultless, AnswersWell, ActsWell
<1>2. CASE log = <<>>
  <2>1. log' = <<e>> /\ Len(log') = 1
    BY <1>2
  <2> QED
    BY <1>1, <2>1 DEF AllFaultless
<1>3. ASSUME NEW a, log = <<a>>, Faultless(a)
      PROVE  AllFaultless' <=> Faultless(e)
  <2>1. log' = <<a, e>> /\ Len(log') = 2
    BY <1>3, OneMore
  <2>2. log'[1] = a /\ log'[2] = e
    BY <2>1
  <2>3. AllFaultless' <=> \A i \in 1 .. 2 : Faultless(log'[i])
    BY <1>1, <2>1 DEF AllFaultless
  <2> QED
    BY <1>3, <2>2, <2>3
<1>4. ASSUME NEW a, NEW b, log = <<a, b>>, Faultless(a), Faultless(b)
      PROVE  AllFaultless' <=> Faultless(e)
  <2>1. log' = <<a, b, e>> /\ Len(log') = 3
    BY <1>4, OneMore
  <2>2. log'[1] = a /\ log'[2] = b /\ log'[3] = e
    BY <2>1
  <2>3. AllFaultless' <=> \A i \in 1 .. 3 : Faultless(log'[i])
    BY <1>1, <2>1 DEF AllFaultless
  <2> QED
    BY <1>4, <2>2, <2>3
<1>5. ASSUME NEW a, NEW b, NEW c, log = <<a, b, c>>, Faultless(a), Faultless(b), Faultless(c)
      PROVE  AllFaultless' <=> Faultless(e)
  <2>1. log' = <<a, b, c, e>> /\ Len(log') = 4
    BY <1>5, OneMore
  <2>2. log'[1] = a /\ log'[2] = b /\ log'[3] = c /\ log'[4] = e
    BY <2>1
  <2>3. AllFaultless' <=> \A i \in 1 .. 4 : Faultless(log'[i])
    BY <1>1, <2>1 DEF AllFaultless
  <2> QED
    BY <1>5, <2>2, <2>3
<1> QED
  BY <1>2, <1>3, <1>4, <1>5
     DEF Inv, Running, Asking, Inspecting, Evaluating, Redeeming, Reversing3, Made

LEMMA FailKeeps ==
  ASSUME Inv, at \in Asking, NEW e, log' = Append(log, e), UNCHANGED <<subtest, fixture>>,
         ~Faultless(e), End("failed")
  PROVE  Inv'
<1>1. Running' /\ Verdicts' /\ at' = "over" /\ verdict'[subtest'] = "failed"
  BY EndKeeps DEF Asking
<1>2. ~AllFaultless'
  BY LogGrows
<1>3. Exact'
  BY <1>1, <1>2 DEF Exact, RunIsExact, PanicsOnlyOnChange, PassedReversalIsOwn
<1> QED
  BY <1>1, <1>3 DEF Inv

LEMMA InspectKeeps ==
  ASSUME Inv, Inspect
  PROVE  Inv'
<1>1. PICK err \in BOOLEAN, info \in Infos :
        /\ Ask("inspect", <<>>, err, info)
        /\ IF InputKept(0) /\ NotConsumed /\ ~err /\ InfoIsValid(info) /\ info.type = fixture.type
             THEN Proceed("evaluate") ELSE End("failed")
  BY DEF Inspect
<1>2. PICK e : at = "inspect" /\ Logs(e, "inspect", err, info)
  BY <1>1, AskLogs
<1>3. Inspecting /\ InUse
  BY <1>2 DEF Inv, Running
<1> DEFINE well == InputKept(0) /\ NotConsumed /\ ~err /\ InfoIsValid(info) /\ info.type = fixture.type
<1>4. well <=> Faultless(e)
  BY <1>2, <1>3 DEF Logs, InputKept, NotConsumed, Unchanged, Inspecting, AtRest,
                    Faultless, AnswersWell, ActsWell
<1>5. CASE well
  <2>1. Verdicts' /\ Exact'
    BY <1>1, <1>2, <1>5, ProceedKeeps DEF Logs
  <2>2. log' = <<e>> /\ AtRest' /\ subtest' = 1 /\ Made(e, "inspect")'
    BY <1>2, <1>3, <1>4, <1>5 DEF Logs, Inspecting, AtRest, InputKept, NotConsumed, Unchanged,
                                  Made, Faultless, AnswersWell, ActsWell
  <2>3. at' = "evaluate" /\ Evaluating' /\ InUse'
    BY <1>1, <1>2, <1>3, <1>5, <2>2 DEF Evaluating, Proceed, Logs, InUse, FixtureIsUsable
  <2> QED
    BY <2>1, <2>3 DEF Inv, Running
<1>6. CASE ~well
  BY <1>1, <1>2, <1>4, <1>6, FailKeeps DEF Logs, Asking
<1> QED
  BY <1>5, <1>6

LEMMA EvaluateKeeps ==
  ASSUME Inv, Evaluate
  PROVE  Inv'
<1>1. PICK err \in BOOLEAN, result \in Evaluations :
        /\ Ask("evaluate", <<>>, err, result)
        /\ IF /\ ~err /\ CheckEvaluation(result, fixture.original) /\ result.eligible
              /\ InputKept(0) /\ NotConsumed
             THEN Proceed(IF Len(log) = 1 THEN "evaluate" ELSE "redeem") ELSE End("failed")
  BY DEF Evaluate
<1>2. PICK e : at = "evaluate" /\ Logs(e, "evaluate", err, result)
  BY <1>1, AskLogs
<1>3. Evaluating /\ InUse
  BY <1>2 DEF Inv, Running
<1> DEFINE well == /\ ~err /\ CheckEvaluation(result, fixture.original) /\ result.eligible
                   /\ InputKept(0) /\ NotConsumed
<1>4. well <=> Faultless(e)
  BY <1>2, <1>3 DEF Logs, InputKept, NotConsumed, Unchanged, Evaluating, AtRest,
                    Faultless, AnswersWell, ActsWell, CheckEvaluation
<1>5. CASE well
  <2>1. Verdicts' /\ Exact'
    BY <1>1, <1>2, <1>5, ProceedKeeps DEF Logs
  <2>2. AtRest' /\ subtest' = 1 /\ Made(e, "evaluate")' /\ InUse'
    BY <1>2, <1>3, <1>4, <1>5 DEF Logs, Evaluating, AtRest, InputKept, NotConsumed, Unchanged,
                                  Made, Faultless, AnswersWell, ActsWell, InUse, FixtureIsUsable
  <2>3. \A x, op : Made(x, op)' <=> Made(x, op)
    BY <1>2 DEF Logs, Made, Faultless, AnswersWell, ActsWell
  <2>4. CASE \E a : log = <<a>> /\ Made(a, "inspect")
    <3>1. PICK a : log = <<a>> /\ Made(a, "inspect")
      BY <2>4
    <3>2. log' = <<a, e>>
      BY <1>2, <3>1, OneMore DEF Logs
    <3>3. at' = "evaluate"
      <4>1. Len(log) = 1
        BY <3>1
      <4> QED
        BY <1>1, <1>5, <4>1 DEF Proceed
    <3>4. Evaluating'
      BY <2>2, <2>3, <3>1, <3>2 DEF Evaluating
    <3> QED
      BY <2>1, <2>2, <3>3, <3>4 DEF Inv, Running
  <2>5. CASE \E a, b : log = <<a, b>> /\ Made(a, "inspect") /\ Made(b, "evaluate")
    <3>1. PICK a, b : log = <<a, b>> /\ Made(a, "inspect") /\ Made(b, "evaluate")
      BY <2>5
    <3>2. log' = <<a, b, e>>
      BY <1>2, <3>1, OneMore DEF Logs
    <3>3. at' = "redeem"
      <4>1. Len(log) = 2
        BY <3>1
      <4> QED
        BY <1>1, <1>5, <4>1 DEF Proceed
    <3>4. Redeeming'
      BY <2>2, <2>3, <3>1, <3>2 DEF Redeeming
    <3> QED
      BY <2>1, <2>2, <3>3, <3>4 DEF Inv, Running
  <2> QED
    BY <1>3, <2>4, <2>5 DEF Evaluating
<1>6. CASE ~well
  BY <1>1, <1>2, <1>4, <1>6, FailKeeps DEF Logs, Asking
<1> QED
  BY <1>5, <1>6

LEMMA RedeemKeeps ==
  ASSUME Inv, Redeem
  PROVE  Inv'
<1>1. PICK err \in BOOLEAN, result \in Redeemed :
        /\ Ask("redeem", fixture.redeem, err, result)
        /\ IF /\ InputKept(input) /\ ~err /\ CheckRedeem(fixture.redeem, result, fixture.original)
              /\ result.status = "success"
              /\ fixture.assertRedeemed => provider' = 1
             THEN IF subtest = 3 THEN Proceed("reverse") ELSE End("passed")
             ELSE End("failed")
  BY DEF Redeem
<1>2. PICK e : at = "redeem" /\ e.req = fixture.redeem /\ Logs(e, "redeem", err, result)
  BY <1>1, AskLogs
<1>3. Redeeming /\ InUse
  BY <1>2 DEF Inv, Running
<1> DEFINE well == /\ InputKept(input) /\ ~err /\ CheckRedeem(fixture.redeem, result, fixture.original)
                   /\ result.status = "success"
                   /\ fixture.assertRedeemed => provider' = 1
<1>4. well <=> Faultless(e)
  <2>1. result.status = "success" =>
          (CheckRedeem(fixture.redeem, result, fixture.original) <=>
             /\ CorrelateRedeem(result, fixture.redeem) = Correlated(result)
             /\ CheckOutcome(result.record[1].outcome, fixture.original))
    BY RedeemCheckIsCorrelation, DriverTestConstants
  <2> QED
    BY <1>2, <2>1 DEF Logs, InputKept, Unchanged, Faultless, AnswersWell, ActsWell
<1>5. CASE well /\ subtest = 3
  <2>1. Verdicts' /\ Exact'
    BY <1>1, <1>2, <1>5, ProceedKeeps DEF Logs
  <2>2. log' = <<e>> /\ fixture.stillDeclares
    BY <1>2, <1>3, <1>5 DEF Redeeming, Logs
  <2>3. Made(e, "redeem")' /\ InUse'
    BY <1>2, <1>3, <1>4, <1>5 DEF Logs, Made, Faultless, AnswersWell, ActsWell, InUse, FixtureIsUsable
  <2>4. Reversing3'
    BY <1>2, <1>5, <2>2, <2>3 DEF Reversing3, Logs
  <2>5. at' = "reverse"
    BY <1>1, <1>5 DEF Proceed
  <2> QED
    BY <2>1, <2>3, <2>4, <2>5 DEF Inv, Running
<1>6. CASE well /\ subtest # 3
  <2>1. Running' /\ Verdicts' /\ at' = "over" /\ verdict'[subtest'] = "passed"
    BY <1>1, <1>2, <1>6, EndKeeps DEF Logs
  <2>2. AllFaultless'
    BY <1>2, <1>4, <1>6, LogGrows DEF Logs, Asking
  <2>3. FixtureIsUsable(fixture)' /\ subtest' = subtest
    BY <1>2, <1>3 DEF Logs, InUse, FixtureIsUsable
  <2>4. AllAsked'
    <3>1. CASE subtest = 1
      <4>1. PICK a, b, c : /\ log = <<a, b, c>>
                           /\ Made(a, "inspect") /\ Made(b, "evaluate") /\ Made(c, "evaluate")
        BY <1>3, <3>1 DEF Redeeming
      <4>2. log' = <<a, b, c, e>>
        BY <1>2, <4>1, OneMore DEF Logs
      <4>3. /\ Len(log') = 4 /\ a.op = "inspect" /\ b.op = "evaluate" /\ c.op = "evaluate"
            /\ e.op = "redeem"
        BY <1>2, <4>1, <4>2 DEF Logs, Made
      <4> QED
        BY <2>3, <3>1, <4>2, <4>3 DEF AllAsked, Script
    <3>2. CASE subtest = 2
      <4>1. log' = <<e>> /\ e.op = "redeem"
        BY <1>2, <1>3, <3>2 DEF Redeeming, Logs
      <4> QED
        BY <2>3, <3>2, <4>1 DEF AllAsked, Script
    <3> QED
      BY <1>3, <1>6, <3>1, <3>2 DEF Redeeming
  <2> QED
    BY <1>6, <2>1, <2>2, <2>3, <2>4
       DEF Inv, Exact, RunIsExact, PanicsOnlyOnChange, PassedReversalIsOwn
<1>7. CASE ~well
  BY <1>1, <1>2, <1>4, <1>7, FailKeeps DEF Logs, Asking
<1> QED
  BY <1>5, <1>6, <1>7

(* What a redemption without a fault leaves: a record of its own. *)
LEMMA RedemptionMade ==
  ASSUME NEW a, Made(a, "redeem"), a.result \in Redeemed
  PROVE  /\ a.result.record # <<>>
         /\ a.result.record[1].redemptionId = a.req.redemptionId
<1>1. /\ a.result \in ResultsOf(Redemptions) /\ a.result.status = "success"
      /\ CorrelateRedeem(a.result, a.req) = Correlated(a.result)
      /\ CheckOutcome(a.result.record[1].outcome, fixture.original)
  BY DriverTestConstants DEF Made, Faultless, AnswersWell
<1>2. CheckRedeem(a.req, a.result, fixture.original)
  BY <1>1, RedeemCheckIsCorrelation
<1> QED
  BY <1>1, <1>2 DEF CheckRedeem, RedeemResultIsValid, PayloadFits

LEMMA ReverseKeeps ==
  ASSUME Inv, Reverse
  PROVE  Inv'
<1>1. at = "reverse"
  BY DEF Reverse
<1>2. Reversing3 /\ InUse
  BY <1>1 DEF Inv, Running
<1>3. PICK a : /\ log = <<a>> /\ Made(a, "redeem")
               /\ a.req = fixture.redeem /\ a.result \in Redeemed
  BY <1>2 DEF Reversing3
<1>4. /\ a.result.record # <<>> /\ log[Len(log)] = a
      /\ a.result.record[1].redemptionId = fixture.redeem.redemptionId
  BY <1>3, RedemptionMade
<1>5. CASE CannotAsk /\ End("panicked") /\ UNCHANGED <<subtest, fixture, input, provider, log>>
  <2>1. Running' /\ Verdicts' /\ at' = "over" /\ verdict'[subtest'] = "panicked"
    BY <1>1, <1>5, EndKeeps
  <2>2. ~fixture.reverser /\ ~fixture.declares /\ fixture.stillDeclares
    BY <1>2, <1>4, <1>5 DEF CannotAsk, InUse, FixtureIsUsable, Reversing3
  <2>3. AllFaultless' /\ FixtureIsUsable(fixture)'
    <3>1. Faultless(a)'
      BY <1>3, <1>5 DEF Made, Faultless, AnswersWell, ActsWell
    <3>2. log' = <<a>> /\ Len(log') = 1
      BY <1>3, <1>5
    <3> QED
      BY <1>2, <1>5, <3>1, <3>2 DEF AllFaultless, InUse, FixtureIsUsable
  <2>4. verdict'[3] = "panicked"
    BY <1>2, <1>5, <2>1 DEF Reversing3
  <2> QED
    BY <1>5, <2>1, <2>2, <2>3, <2>4
       DEF Inv, Exact, RunIsExact, PanicsOnlyOnChange, PassedReversalIsOwn
<1>6. ASSUME NEW err \in BOOLEAN, NEW result \in Reversed,
             Ask("reverse", Reversing, err, result),
             IF /\ InputKept(input) /\ ~err /\ CheckReverse(Reversing, result)
                /\ result.status = "success"
               THEN End(IF ~fixture.assertReversed THEN "panicked"
                        ELSE IF provider' = 0 THEN "passed" ELSE "failed")
               ELSE End("failed")
      PROVE  Inv'
  <2>1. PICK e : e.req = Reversing /\ Logs(e, "reverse", err, result)
    BY <1>6, AskLogs
  <2> DEFINE well == /\ InputKept(input) /\ ~err /\ CheckReverse(Reversing, result)
                     /\ result.status = "success"
  <2>2. Faultless(e) <=> well /\ (fixture.assertReversed => provider' = 0)
    <3>1. result.status = "success" =>
            (CheckReverse(Reversing, result) <=> CorrelateReverse(result, Reversing) = Correlated(result))
      BY ReverseCheckIsCorrelation, DriverTestConstants
    <3> QED
      BY <2>1, <3>1 DEF Logs, InputKept, Unchanged, Faultless, AnswersWell, ActsWell
  <2>3. AllFaultless' <=> Faultless(e)
    BY <1>1, <2>1, LogGrows DEF Logs, Asking
  <2>4. subtest' = 3 /\ FixtureIsUsable(fixture)' /\ fixture' = fixture /\ fixture.stillDeclares
    BY <1>2, <2>1 DEF Logs, InUse, FixtureIsUsable, Reversing3
  <2>5. CASE well /\ ~fixture.assertReversed
    <3>1. Running' /\ Verdicts' /\ at' = "over" /\ verdict'[subtest'] = "panicked"
      BY <1>1, <1>6, <2>1, <2>5, EndKeeps DEF Logs
    <3>2. ~fixture.declares
      BY <1>2, <2>5 DEF InUse, FixtureIsUsable
    <3> QED
      BY <2>2, <2>3, <2>4, <2>5, <3>1, <3>2
         DEF Inv, Exact, RunIsExact, PanicsOnlyOnChange, PassedReversalIsOwn
  <2>6. CASE well /\ fixture.assertReversed /\ provider' = 0
    <3>1. Running' /\ Verdicts' /\ at' = "over" /\ verdict'[subtest'] = "passed"
      BY <1>1, <1>6, <2>1, <2>6, EndKeeps DEF Logs
    <3>2. log' = <<a, e>> /\ Len(log') = 2 /\ log'[1] = a /\ log'[2] = e
      <4>1. log' = <<a, e>>
        BY <1>3, <2>1, OneMore DEF Logs
      <4> QED
        BY <4>1
    <3>3. AllAsked'
      BY <1>3, <2>1, <2>4, <3>2 DEF AllAsked, Script, Made, Logs
    <3>4. PassedReversalIsOwn'
      <4>1. /\ Reversing.redemptionId = a.result.record[1].redemptionId
            /\ Reversing.provider = a.result.record[1].provider
        BY <1>2, <1>4, DriverTestConstants DEF Reversing, InUse, ReverseRequests
      <4>2. result.record # <<>>
        BY <2>6 DEF CheckReverse, ReverseResultIsValid, PayloadFits
      <4>3. /\ result.record[1].redemptionId = Reversing.redemptionId
            /\ ProviderIdFits(Reversing.provider, result.record[1].provider)
        BY <2>6, <4>2 DEF CheckReverse
      <4>4. e.result = result
        BY <2>1 DEF Logs
      <4> QED
        BY <1>4, <2>4, <3>2, <4>1, <4>3, <4>4 DEF PassedReversalIsOwn, ProviderIdFits
    <3> QED
      BY <2>2, <2>3, <2>4, <2>6, <3>1, <3>3, <3>4
         DEF Inv, Exact, RunIsExact, PanicsOnlyOnChange
  <2>7. CASE ~well \/ (fixture.assertReversed /\ provider' # 0)
    <3>1. End("failed")
      BY <1>6, <2>7
    <3> QED
      BY <1>1, <2>1, <2>2, <2>7, <3>1, FailKeeps DEF Logs, Asking
  <2> HIDE DEF well
  <2> QED
    BY <2>5, <2>6, <2>7
<1> QED
  BY <1>5, <1>6 DEF Reverse

LEMMA NextSubtestKeeps ==
  ASSUME Inv, NextSubtest
  PROVE  Inv'
<1>1. at' = "fresh" /\ verdict' = verdict /\ subtest' = subtest + 1 /\ at = "over" /\ subtest < 3
  BY DEF NextSubtest, Proceed
<1>2. Running' /\ Exact'
  BY <1>1 DEF Running, Exact, RunIsExact, PanicsOnlyOnChange, PassedReversalIsOwn
<1>3. Verdicts'
  BY <1>1 DEF Inv, Verdicts
<1> QED
  BY <1>2, <1>3 DEF Inv

(* Nothing is lost where nothing happens. *)
LEMMA StutterKeeps ==
  ASSUME Inv, UNCHANGED vars
  PROVE  Inv'
<1>1. \A x, op : Made(x, op)' <=> Made(x, op)
  BY DEF vars, Made, Faultless, AnswersWell, ActsWell
<1>2. \A x : Faultless(x)' <=> Faultless(x)
  BY DEF vars, Faultless, AnswersWell, ActsWell
<1>3. Running'
  BY <1>1 DEF Inv, vars, Running, InUse, FixtureIsUsable, Inspecting, Evaluating, Redeeming,
              Reversing3, AtRest
<1>4. Verdicts'
  BY DEF Inv, vars, Verdicts
<1>5. Exact'
  BY <1>2 DEF Inv, vars, Exact, RunIsExact, PanicsOnlyOnChange, PassedReversalIsOwn,
              AllFaultless, AllAsked, FixtureIsUsable
<1> QED
  BY <1>3, <1>4, <1>5 DEF Inv

LEMMA NextInv == Inv /\ [Next]_vars => Inv'
  BY FreshKeeps, InspectKeeps, EvaluateKeeps, RedeemKeeps, ReverseKeeps, NextSubtestKeeps,
     StutterKeeps DEF Next

LEMMA InvHolds == Spec => []Inv
  BY InitInv, NextInv, PTL DEF Spec

-----------------------------------------------------------------------------
(* The theorems. *)

(* A subtest fails exactly for a fault that shows, and passes only when all  *)
(* its calls were made (drivertest.go:125-239), for any fixtures and results. *)
THEOREM RunsAreExact == Spec => []RunIsExact
<1>1. Inv => RunIsExact
  BY DEF Inv, Exact
<1> QED
  BY <1>1, InvHolds, PTL

(* The harness panics for a driver only that first does not declare Reverse  *)
(* and then does (drivertest.go:133, 209).                                   *)
THEOREM PanicsAreExplained == Spec => []PanicsOnlyOnChange
<1>1. Inv => PanicsOnlyOnChange
  BY DEF Inv, Exact
<1> QED
  BY <1>1, InvHolds, PTL

(* A passed reversal is of the redemption just made (drivertest.go:217-218). *)
THEOREM ReversalsAreOwn == Spec => []PassedReversalIsOwn
<1>1. Inv => PassedReversalIsOwn
  BY DEF Inv, Exact
<1> QED
  BY <1>1, InvHolds, PTL

=============================================================================
