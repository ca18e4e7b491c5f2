------------------------------- MODULE Results -------------------------------
(***************************************************************************)
(* What drivers answer, and what the host checks of it: Validate of the    *)
(* requests, infos and results (validation.go, outcome.go,                 *)
(* result_evaluate.go, result_redeem.go, result_reversal.go) and Correlate *)
(* (correlation.go).  An optional value is <<>> or <<value>>; the payload  *)
(* of a failure is never looked into, and is there or not.                 *)
(***************************************************************************)
EXTENDS Discounting, Sequences

CONSTANT
  Namespaced      \* the driver types DriverType.Validate accepts: "a.b", not ""

NoId == ""        \* an ID that was not given
ReverseMode == {"", "full", "partial"}
ResultStatus == {"success", "failure", "pending", "unknown"}

-----------------------------------------------------------------------------
(* Requests.  Both name a benefit by a reference, which is given or empty. *)

RequestIsValid(req) == req.reference

ReverseRequestIsValid(req) == RequestIsValid(req) /\ req.mode \in ReverseMode

-----------------------------------------------------------------------------
(* Infos and evaluations. *)

NoTime == 0       \* the zero time

Status == {"unknown", "pending", "active", "expired", "voided", "suspended", "exhausted"}

InfoIsValid(info) ==
  /\ info.type \in Namespaced
  /\ info.status \in Status
  /\ info.starts # NoTime /\ info.expires # NoTime => info.starts < info.expires
  /\ info.redeemed >= 0 /\ info.remaining >= 0
  /\ info.policiesValid /\ info.noticesValid

(* An outcome is its discount, <<>> where there is none. *)
OutcomeIsValid(discount) == discount # <<>> => EffectIsValid(discount[1])

EvaluationIsValid(r) ==
  IF r.eligible THEN ~r.failure /\ r.report # "unsatisfied" /\ OutcomeIsValid(r.outcome)
  ELSE r.failure /\ r.outcome = <<>>

-----------------------------------------------------------------------------
(* Results: a status, a failure or none, and a record or none, which may    *)
(* be there in any combination.                                             *)

(* A mutant of PayloadFits: a failure may come with a record. *)
PayloadFitsBoth(r) ==
  \/ r.status = "success" /\ r.record # <<>> /\ ~r.failure
  \/ r.status = "failure" /\ r.failure
  \/ r.status \in {"pending", "unknown"} /\ r.record = <<>> /\ ~r.failure

(* The payload is the one of the status, and no other. *)
PayloadFits(r) ==
  \/ r.status = "success" /\ r.record # <<>> /\ ~r.failure
  \/ r.status = "failure" /\ r.record = <<>> /\ r.failure
  \/ r.status \in {"pending", "unknown"} /\ r.record = <<>> /\ ~r.failure

RedeemResultIsValid(r) ==
  PayloadFits(r) /\ (r.record # <<>> => OutcomeIsValid(r.record[1].outcome))

(* What a reversal restores is an amount of money or nothing. *)
RestorationIsValid(money) ==
  money # <<>> => money[1].currency \in WellFormed /\ money[1].amount >= 0

ReverseResultIsValid(r) ==
  /\ PayloadFits(r)
  /\ r.record # <<>> => /\ OutcomeIsValid(r.record[1].outcome)
                        /\ RestorationIsValid(r.record[1].restored)

-----------------------------------------------------------------------------
(* Correlation. *)

Uncorrelated(err) == [err |-> err, result |-> <<>>]
Correlated(result) == [err |-> "none", result |-> <<result>>]

(* A mutant of CallerIdFits: an ID nobody asked for is let through. *)
CallerIdFitsLoosely(requested, returned) == returned = NoId \/ requested \in {NoId, returned}

CallerIdFits(requested, returned) == returned \in {NoId, requested}

ProviderIdFits(requested, returned) ==
  requested # NoId /\ returned # NoId => returned = requested

(* A mutant of CorrelateRedeem: a missing provider ID is made up as well. *)
CorrelateRedeemFillingAll(result, req) ==
  IF ~RequestIsValid(req) \/ ~RedeemResultIsValid(result) THEN Uncorrelated("ErrValidation")
  ELSE IF result.record = <<>> THEN Correlated(result)
  ELSE LET r == result.record[1] IN
    IF ~CallerIdFits(req.redemptionId, r.redemptionId) THEN Uncorrelated("ErrIdMismatch")
    ELSE Correlated([result EXCEPT !.record = <<[r EXCEPT
           !.redemptionId = req.redemptionId,
           !.provider = IF r.provider = NoId THEN req.redemptionId ELSE r.provider]>>])

CorrelateRedeem(result, req) ==
  IF ~RequestIsValid(req) \/ ~RedeemResultIsValid(result) THEN Uncorrelated("ErrValidation")
  ELSE IF result.record = <<>> THEN Correlated(result)
  ELSE LET r == result.record[1] IN
    IF ~CallerIdFits(req.redemptionId, r.redemptionId) THEN Uncorrelated("ErrIdMismatch")
    ELSE Correlated([result EXCEPT !.record = <<[r EXCEPT !.redemptionId = req.redemptionId]>>])

CorrelateReverse(result, req) ==
  IF ~ReverseRequestIsValid(req) \/ ~ReverseResultIsValid(result) THEN Uncorrelated("ErrValidation")
  ELSE IF result.record = <<>> THEN Correlated(result)
  ELSE LET r == result.record[1] IN
    IF \/ ~CallerIdFits(req.redemptionId, r.redemptionId)
       \/ ~CallerIdFits(req.reversalId, r.reversalId)
       \/ ~ProviderIdFits(req.provider, r.provider)
      THEN Uncorrelated("ErrIdMismatch")
    ELSE Correlated([result EXCEPT !.record = <<[r EXCEPT
           !.redemptionId = req.redemptionId, !.reversalId = req.reversalId]>>])

=============================================================================
