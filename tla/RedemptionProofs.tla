-------------------------- MODULE RedemptionProofs --------------------------
(***************************************************************************)
(* Proofs about Redemption, for any orders, IDs, modes, outcomes and       *)
(* number of calls, whichever operations the provider knows again.  What   *)
(* is said of the state of an operation (ConclusionsTrue) is joined by     *)
(* what is said of the record the host holds of it (HeldInv); the heart is *)
(* the lemma Settles: an answer that passes Correlate is of the operation  *)
(* asked for.                                                              *)
(***************************************************************************)
EXTENDS Redemption, TLAPS

LEMMA OpShape ==
  ASSUME NEW op \in Op
  PROVE  /\ op[1] \in Order /\ op[2] \in {"redeem", "reverse"}
         /\ Redeem(op[1]) \in Op /\ Redeem(op[1])[1] = op[1] /\ Redeem(op[1])[2] = "redeem"
         /\ op[2] = "redeem" <=> op = Redeem(op[1])
  BY DEF Op, Redeem

(* The record held of an operation that succeeded. *)
HeldFits(op) ==
  \E r \in Records(op) :
    /\ held[op] = <<r>>
    /\ r.redemptionId = RedemptionId[op[1]]
    /\ op[2] = "reverse" => r.reversalId = ReversalId[op[1]] /\ mode[op[1]] \in ReverseMode
    /\ OutcomeIsValid(r.outcome)

HeldInv == \A op \in Op : phase[op] = "success" => HeldFits(op)

Inv == ConclusionsTrue /\ HeldInv

-----------------------------------------------------------------------------
(* Answers. *)

LEMMA RedeemRecords ==
  ASSUME NEW op \in Op, op[2] = "redeem", NEW r \in Records(op)
  PROVE  /\ r = [redemptionId |-> r.redemptionId, provider |-> r.provider, outcome |-> r.outcome]
         /\ r.redemptionId \in {NoId, RedemptionId[op[1]]}
         /\ r.provider \in {NoId, ProviderId[op[1]]}
         /\ r.outcome \in Outcomes
         /\ [r EXCEPT !.redemptionId = RedemptionId[op[1]]] \in Records(op)
         /\ [r EXCEPT !.redemptionId = RedemptionId[op[1]]].outcome = r.outcome
         /\ [r EXCEPT !.redemptionId = RedemptionId[op[1]]].redemptionId = RedemptionId[op[1]]
  BY DEF Records

LEMMA ReverseRecords ==
  ASSUME NEW op \in Op, op[2] = "reverse", NEW r \in Records(op)
  PROVE  /\ r.redemptionId \in {NoId, RedemptionId[op[1]]}
         /\ r.reversalId \in {NoId, ReversalId[op[1]]}
         /\ r.provider \in {NoId, ProviderId[op[1]]}
         /\ r.outcome \in Outcomes /\ r.restored = <<>>
         /\ LET f == [r EXCEPT !.redemptionId = RedemptionId[op[1]],
                               !.reversalId = ReversalId[op[1]]]
            IN /\ f \in Records(op)
               /\ f.redemptionId = RedemptionId[op[1]] /\ f.reversalId = ReversalId[op[1]]
               /\ f.outcome = r.outcome
  BY OpShape DEF Records

LEMMA AnswerShape ==
  ASSUME NEW op \in Op, NEW a \in Answers(op)
  PROVE  /\ a = [status |-> a.status, failure |-> a.failure, record |-> a.record]
         /\ a.failure \in BOOLEAN
         /\ a.record # <<>> => \E r \in TrueRecords(op) : a.record = <<r>>
         /\ a.failure /\ a.record = <<>> => fate[op] = "refused"
  BY DEF Answers

LEMMA TrueRecordsShape ==
  ASSUME NEW op \in Op, NEW r \in TrueRecords(op), ~Telling(op, r)
  PROVE  r \in Records(op) /\ uses[op] > 0
  BY DEF TrueRecords

(* A record that could be another order's does not pass. *)
LEMMA RedeemTells ==
  ASSUME NEW op \in Op, op[2] = "redeem", NEW r, Telling(op, r)
  PROVE  ~CallerIdFits(Request(op).redemptionId, r.redemptionId)
  BY DEF Telling, Request, CallerIdFits

LEMMA ReverseTells ==
  ASSUME NEW op \in Op, op[2] = "reverse", NEW r, Telling(op, r),
         HeldFits(Redeem(op[1]))
  PROVE  \/ ~CallerIdFits(Request(op).redemptionId, r.redemptionId)
         \/ ~CallerIdFits(Request(op).reversalId, r.reversalId)
         \/ ~ProviderIdFits(Request(op).provider, r.provider)
<1>1. PICK h \in Records(Redeem(op[1])) : held[Redeem(op[1])] = <<h>>
  BY DEF HeldFits
<1>2. h.provider \in {NoId, ProviderId[op[1]]}
  BY OpShape, RedeemRecords
<1>3. held[Redeem(op[1])][1].provider \in {NoId, ProviderId[op[1]]}
  BY <1>1, <1>2
<1> QED
  BY <1>3 DEF Telling, Request, CallerIdFits, ProviderIdFits

(* What an answer that settles an operation says of it. *)
Settling(op, status, record) ==
  \/ status = "failure" /\ record = <<>> /\ fate[op] = "refused"
  \/ /\ status = "success" /\ uses[op] > 0
     /\ \E r \in Records(op) :
          /\ record = <<r>>
          /\ r.redemptionId = RedemptionId[op[1]]
          /\ op[2] = "reverse" => r.reversalId = ReversalId[op[1]] /\ mode[op[1]] \in ReverseMode
          /\ OutcomeIsValid(r.outcome)

LEMMA Settles ==
  ASSUME NEW op \in Op, NEW a \in Answers(op),
         op[2] = "reverse" => HeldFits(Redeem(op[1])),
         Correlate(op, a).err = "none",
         Correlate(op, a).result[1].status \in {"success", "failure"}
  PROVE  LET kept == Correlate(op, a).result[1] IN Settling(op, kept.status, kept.record)
<1> DEFINE kept == Correlate(op, a).result[1]
<1>1. CASE op[2] = "redeem"
  <2>1. /\ RedeemResultIsValid(a)
        /\ a.record = <<>> => kept = a
        /\ a.record # <<>> =>
             /\ CallerIdFits(Request(op).redemptionId, a.record[1].redemptionId)
             /\ kept = [a EXCEPT !.record = <<[a.record[1] EXCEPT
                          !.redemptionId = RedemptionId[op[1]]]>>]
    BY <1>1 DEF Correlate, CorrelateRedeem, Uncorrelated, Correlated, Request
  <2>2. CASE a.record = <<>>
    BY <2>1, <2>2, AnswerShape DEF Settling, RedeemResultIsValid, PayloadFits
  <2>3. CASE a.record # <<>>
    <3>1. PICK r \in TrueRecords(op) : a.record = <<r>>
      BY <2>3, AnswerShape
    <3>2. r \in Records(op) /\ uses[op] > 0
      BY <1>1, <2>1, <2>3, <3>1, RedeemTells, TrueRecordsShape
    <3>3. a.status = "success" /\ OutcomeIsValid(r.outcome)
      BY <2>1, <2>3, <3>1 DEF RedeemResultIsValid, PayloadFits
    <3>4. /\ kept.status = "success"
          /\ kept.record = <<[r EXCEPT !.redemptionId = RedemptionId[op[1]]]>>
      BY <2>1, <2>3, <3>1, <3>3, AnswerShape
    <3> QED
      BY <1>1, <3>2, <3>3, <3>4, RedeemRecords DEF Settling
  <2> QED
    BY <2>2, <2>3
<1>2. CASE op[2] = "reverse"
  <2>1. /\ ReverseResultIsValid(a) /\ mode[op[1]] \in ReverseMode
        /\ a.record = <<>> => kept = a
        /\ a.record # <<>> =>
             /\ CallerIdFits(Request(op).redemptionId, a.record[1].redemptionId)
             /\ CallerIdFits(Request(op).reversalId, a.record[1].reversalId)
             /\ ProviderIdFits(Request(op).provider, a.record[1].provider)
             /\ kept = [a EXCEPT !.record = <<[a.record[1] EXCEPT
                          !.redemptionId = RedemptionId[op[1]],
                          !.reversalId = ReversalId[op[1]]]>>]
    BY <1>2 DEF Correlate, CorrelateReverse, Uncorrelated, Correlated, Request,
                ReverseRequestIsValid, RequestIsValid
  <2>2. CASE a.record = <<>>
    BY <2>1, <2>2, AnswerShape DEF Settling, ReverseResultIsValid, PayloadFits
  <2>3. CASE a.record # <<>>
    <3>1. PICK r \in TrueRecords(op) : a.record = <<r>>
      BY <2>3, AnswerShape
    <3>2. r \in Records(op) /\ uses[op] > 0
      BY <1>2, <2>1, <2>3, <3>1, ReverseTells, TrueRecordsShape
    <3>3. a.status = "success" /\ OutcomeIsValid(r.outcome)
      BY <2>1, <2>3, <3>1 DEF ReverseResultIsValid, PayloadFits
    <3>4. /\ kept.status = "success"
          /\ kept.record = <<[r EXCEPT !.redemptionId = RedemptionId[op[1]],
                                       !.reversalId = ReversalId[op[1]]]>>
      BY <2>1, <2>3, <3>1, <3>3, AnswerShape
    <3> DEFINE f == [r EXCEPT !.redemptionId = RedemptionId[op[1]], !.reversalId = ReversalId[op[1]]]
    <3>5. /\ f \in Records(op) /\ OutcomeIsValid(f.outcome)
          /\ f.redemptionId = RedemptionId[op[1]] /\ f.reversalId = ReversalId[op[1]]
      BY <1>2, <3>2, <3>3, ReverseRecords
    <3>6. kept.status = "success" /\ kept.record = <<f>>
      BY <3>4
    <3> HIDE DEF f, kept
    <3>7. Settling(op, kept.status, kept.record)
      BY <2>1, <3>2, <3>5, <3>6 DEF Settling
    <3> QED
      BY <3>7 DEF kept
  <2> QED
    BY <2>2, <2>3
<1> QED
  BY <1>1, <1>2, OpShape

-----------------------------------------------------------------------------
(* The invariant. *)

LEMMA InitInv == Init => Inv
  BY DEF Init, Inv, ConclusionsTrue, HeldInv, TypeOK, ConclusionHolds

LEMMA CallKeeps ==
  ASSUME Inv, NEW op \in Op, Call(op)
  PROVE  ConclusionsTrue'
<1>0. TypeOK /\ \A q \in Op : ConclusionHolds(q)
  BY DEF Inv, ConclusionsTrue
<1>1. TypeOK'
  BY <1>0 DEF TypeOK, Call
<1>2. ASSUME NEW q \in Op PROVE ConclusionHolds(q)'
  <2>1. ConclusionHolds(q) /\ ConclusionHolds(Redeem(q[1]))
    BY <1>0, OpShape
  <2>2. calls[q] \in Nat /\ wire[q] \in Nat
    BY <1>0 DEF TypeOK
  <2>3. CASE q = op
    <3>1. /\ phase' = [phase EXCEPT ![op] = "calling"] /\ DOMAIN phase = Op
          /\ calls'[q] = calls[q] + 1 /\ wire'[q] = wire[q] + 1
          /\ UNCHANGED <<fate, uses>>
      BY <1>0, <2>3 DEF Call, TypeOK
    <3>2. phase'[q] = "calling" /\ (q[2] = "reverse" => phase'[Redeem(q[1])] = "success")
      <4>1. q[2] = "reverse" => Redeem(q[1]) # op /\ Redeem(q[1]) \in Op
        BY <2>3, OpShape
      <4> QED
        BY <2>1, <2>2, <2>3, <3>1, <4>1 DEF Call, ConclusionHolds
    <3>3. q \notin Idempotent => calls[q] = 0
      BY <2>1, <2>3 DEF Call, ConclusionHolds
    <3> QED
      BY <2>1, <2>2, <3>1, <3>2, <3>3 DEF ConclusionHolds
  <2>4. CASE q # op
    <3>1. /\ phase' = [phase EXCEPT ![op] = "calling"] /\ DOMAIN phase = Op
          /\ phase'[q] = phase[q] /\ calls'[q] = calls[q] /\ wire'[q] = wire[q]
          /\ UNCHANGED <<fate, uses>>
      BY <1>0, <2>4 DEF Call, TypeOK
    <3>2. phase[Redeem(q[1])] = "success" => phase'[Redeem(q[1])] = "success"
      BY <3>1, OpShape DEF Call
    <3> QED
      BY <2>1, <3>1, <3>2 DEF ConclusionHolds
  <2> QED
    BY <2>3, <2>4
<1> QED
  BY <1>1, <1>2 DEF ConclusionsTrue

LEMMA TakeErrorKeeps ==
  ASSUME Inv, NEW op \in Op, TakeError(op)
  PROVE  ConclusionsTrue'
<1> USE OpShape DEF Inv, ConclusionsTrue, TakeError
<1>1. TypeOK'
  BY DEF TypeOK
<1>2. ASSUME NEW q \in Op PROVE ConclusionHolds(q)'
  BY DEF TypeOK, ConclusionHolds
<1> QED
  BY <1>1, <1>2

(* The provider decides an operation while it is open, for good. *)
LEMMA DecideKeeps ==
  ASSUME Inv, NEW op \in Op, Process(op) \/ Complete(op)
  PROVE  ConclusionsTrue'
<1>0. TypeOK /\ \A q \in Op : ConclusionHolds(q)
  BY DEF Inv, ConclusionsTrue
<1>1. /\ \/ UNCHANGED <<fate, uses>>
         \/ fate[op] \in {"none", "accepted"} /\ Decide(op)
      /\ \/ wire' = wire /\ fate[op] # "none"
         \/ wire[op] > 0 /\ wire' = [wire EXCEPT ![op] = @ - 1]
      /\ UNCHANGED <<mode, phase, calls, held>>
  <2>1. CASE Process(op)
    <3>1. op \notin Idempotent => fate[op] = "none"
      BY <1>0, <2>1 DEF Process, ConclusionHolds, TypeOK
    <3> QED
      BY <2>1, <3>1 DEF Process, hostVars
  <2>2. CASE Complete(op)
    BY <2>2 DEF Complete, hostVars
  <2> QED
    BY <2>1, <2>2
<1>2. /\ \A q \in Op : q # op => fate'[q] = fate[q] /\ uses'[q] = uses[q]
      /\ \/ fate'[op] = fate[op] /\ uses'[op] = uses[op]
         \/ /\ fate[op] \in {"none", "accepted"}
            /\ fate'[op] \in {"accepted", "done", "refused"}
            /\ uses'[op] = IF fate'[op] = "done" THEN 1 ELSE 0
  BY <1>0, <1>1 DEF Decide, TypeOK, ConclusionHolds
<1>3. TypeOK'
  <2>0. /\ uses[op] \in Nat /\ wire[op] \in Nat
        /\ fate \in [Op -> {"none", "accepted", "done", "refused"}]
        /\ uses \in [Op -> Nat] /\ wire \in [Op -> Nat]
    BY <1>0 DEF TypeOK
  <2>1. fate' \in [Op -> {"none", "accepted", "done", "refused"}] /\ uses' \in [Op -> Nat]
    <3>1. CASE UNCHANGED <<fate, uses>>
      BY <2>0, <3>1
    <3>2. CASE Decide(op)
      <4>1. PICK f \in {"accepted", "done", "refused"} :
              /\ fate' = [fate EXCEPT ![op] = f]
              /\ uses' = [uses EXCEPT ![op] = IF f = "done" THEN uses[op] + 1 ELSE uses[op]]
        BY <3>2 DEF Decide
      <4> QED
        BY <2>0, <4>1
    <3> QED
      BY <1>1, <3>1, <3>2
  <2>2. wire' \in [Op -> Nat]
    <3>1. wire[op] > 0 => wire[op] - 1 \in Nat
      BY <2>0
    <3> QED
      BY <1>1, <2>0, <3>1
  <2> QED
    BY <1>0, <1>1, <2>1, <2>2 DEF TypeOK, Records
<1>4. ASSUME NEW q \in Op PROVE ConclusionHolds(q)'
  <2>1. calls[q] \in Nat /\ wire[q] \in Nat /\ ConclusionHolds(q)
    BY <1>0 DEF TypeOK
  <2>2. \/ wire'[q] = wire[q] /\ (q = op => fate[q] # "none")
        \/ q # op /\ wire'[q] = wire[q]
        \/ wire[q] > 0 /\ wire'[q] = wire[q] - 1
    BY <1>0, <1>1 DEF TypeOK
  <2> QED
    BY <1>1, <1>2, <2>1, <2>2 DEF ConclusionHolds
<1> QED
  BY <1>3, <1>4 DEF ConclusionsTrue

(* What is left of an answer: settled as it was, or nothing known. *)
Left(op, status, record) ==
  \/ status = "uncertain" /\ record = <<>>
  \/ Settling(op, status, record)

LEMMA AnswerEffect ==
  ASSUME Inv, NEW op \in Op, Answer(op)
  PROVE  /\ phase[op] = "calling"
         /\ \E status, record :
              /\ phase' = [phase EXCEPT ![op] = status]
              /\ held' = [held EXCEPT ![op] = record]
              /\ Left(op, status, record)
         /\ UNCHANGED <<mode, calls, wire, fate, uses>>
<1>1. PICK a \in Answers(op) : TakeResult(op, a)
  BY DEF Answer
<1>2. op[2] = "reverse" => HeldFits(Redeem(op[1]))
  <2>1. phase[op] = "calling" /\ calls[op] > 0
    BY <1>1 DEF TakeResult, Inv, ConclusionsTrue, TypeOK, ConclusionHolds
  <2>2. op[2] = "reverse" => phase[Redeem(op[1])] = "success"
    BY <2>1 DEF Inv, ConclusionsTrue, ConclusionHolds
  <2> QED
    BY <2>2, OpShape DEF Inv, HeldInv
<1> DEFINE kept == Correlate(op, a).result[1]
           settled == Correlate(op, a).err = "none" /\ kept.status \in {"success", "failure"}
<1>3. phase[op] = "calling" /\ UNCHANGED <<mode, calls, wire, fate, uses>>
  BY <1>1 DEF TakeResult
<1>4. CASE settled
  <2>1. Left(op, kept.status, kept.record)
    BY <1>2, <1>4, Settles DEF Left
  <2>2. /\ phase' = [phase EXCEPT ![op] = kept.status]
        /\ held' = [held EXCEPT ![op] = kept.record]
    BY <1>1, <1>4 DEF TakeResult
  <2> HIDE DEF kept
  <2> QED
    BY <1>3, <2>1, <2>2
<1>5. CASE ~settled
  <2>1. /\ phase' = [phase EXCEPT ![op] = "uncertain"] /\ held' = [held EXCEPT ![op] = <<>>]
    BY <1>1, <1>5 DEF TakeResult
  <2> QED
    BY <1>3, <2>1 DEF Left
<1> QED
  BY <1>4, <1>5

LEMMA AnswerKeeps ==
  ASSUME Inv, NEW op \in Op, Answer(op)
  PROVE  ConclusionsTrue'
<1>0. TypeOK /\ \A q \in Op : ConclusionHolds(q)
  BY DEF Inv, ConclusionsTrue
<1>1. PICK status, record :
        /\ phase[op] = "calling"
        /\ phase' = [phase EXCEPT ![op] = status] /\ held' = [held EXCEPT ![op] = record]
        /\ UNCHANGED <<mode, calls, wire, fate, uses>>
        /\ Left(op, status, record)
  BY AnswerEffect
<1>2. TypeOK'
  BY <1>0, <1>1 DEF TypeOK, Left, Settling
<1>3. ASSUME NEW q \in Op PROVE ConclusionHolds(q)'
  <2>1. ConclusionHolds(q) /\ calls[q] \in Nat
    BY <1>0 DEF TypeOK
  <2>2. /\ q # op => phase'[q] = phase[q]
        /\ q = op => phase'[q] = status /\ phase[q] = "calling"
        /\ phase[Redeem(q[1])] = "success" => phase'[Redeem(q[1])] = "success"
    BY <1>0, <1>1, OpShape DEF TypeOK
  <2> QED
    BY <1>1, <2>1, <2>2 DEF ConclusionHolds, Left, Settling
<1> QED
  BY <1>2, <1>3 DEF ConclusionsTrue

(* The record held is let go only with the success it belongs to. *)
LEMMA HeldKeeps ==
  ASSUME Inv, NEW op \in Op, Step(op)
  PROVE  HeldInv'
<1> SUFFICES ASSUME NEW q \in Op, phase'[q] = "success"
             PROVE  HeldFits(q)'
  BY DEF HeldInv
<1>0. TypeOK /\ HeldInv
  BY DEF Inv, ConclusionsTrue
<1>1. CASE Answer(op)
  <2>1. PICK status, record :
          /\ phase' = [phase EXCEPT ![op] = status] /\ held' = [held EXCEPT ![op] = record]
          /\ Left(op, status, record) /\ mode' = mode
    BY <1>1, AnswerEffect
  <2>2. CASE q = op
    <3>1. status = "success" /\ held'[op] = record
      BY <1>0, <2>1, <2>2 DEF TypeOK
    <3> QED
      BY <2>1, <2>2, <3>1 DEF Left, Settling, HeldFits, Records
  <2>3. CASE q # op
    BY <1>0, <2>1, <2>3 DEF TypeOK, HeldInv, HeldFits, Records
  <2> QED
    BY <2>2, <2>3
<1>2. CASE ~Answer(op)
  <2>1. mode' = mode /\ held' = held /\ phase[q] = "success"
    BY <1>0, <1>2 DEF Step, Call, TakeError, Process, Complete, hostVars, TypeOK
  <2> QED
    BY <1>0, <2>1 DEF HeldInv, HeldFits, Records
<1> QED
  BY <1>1, <1>2

LEMMA NextInv == Inv /\ [Next]_vars => Inv'
<1> SUFFICES ASSUME Inv, [Next]_vars
             PROVE  Inv'
  OBVIOUS
<1>1. ASSUME NEW op \in Op, Step(op)
      PROVE  Inv'
  BY <1>1, CallKeeps, TakeErrorKeeps, DecideKeeps, AnswerKeeps, HeldKeeps DEF Inv, Step
<1>2. CASE UNCHANGED vars
  BY <1>2 DEF Inv, ConclusionsTrue, HeldInv, HeldFits, TypeOK, ConclusionHolds, Records, vars, hostVars
<1> QED
  BY <1>1, <1>2 DEF Next

-----------------------------------------------------------------------------
(* The theorems. *)

LEMMA AlwaysInv == Spec => []Inv
  BY InitInv, NextInv, PTL DEF Spec

(* What the host concluded is what happened, and stays so, whatever arrives *)
(* late and in whatever way a driver's answers are malformed or mixed up.   *)
THEOREM ConclusionsHold == Spec => []ConclusionsTrue
<1>1. Inv => ConclusionsTrue
  BY DEF Inv
<1> QED
  BY <1>1, AlwaysInv, PTL

LEMMA SameRecord ==
  ASSUME NEW s, NEW f, NEW x
  PROVE  LET a == [status |-> s, failure |-> f, record |-> x] IN [a EXCEPT !.record = x] = a
  OBVIOUS

(* The records a host keeps are of its own operations, with its own IDs,    *)
(* and pass Correlate again unchanged.                                      *)
THEOREM RecordsAreOwn == Spec => []HeldIsOwn
<1>1. Inv => HeldIsOwn
  <2> SUFFICES ASSUME Inv, NEW op \in Op, phase[op] = "success"
               PROVE  LET r == held[op][1]
                          again == [status |-> "success", failure |-> FALSE, record |-> held[op]]
                      IN /\ held[op] # <<>>
                         /\ r.redemptionId = RedemptionId[op[1]]
                         /\ op[2] = "reverse" => r.reversalId = ReversalId[op[1]]
                         /\ r.provider \in {NoId, ProviderId[op[1]]}
                         /\ Correlate(op, again) = Correlated(again)
    BY DEF HeldIsOwn
  <2> DEFINE again == [status |-> "success", failure |-> FALSE, record |-> held[op]]
  <2>1. PICK r \in Records(op) :
          /\ held[op] = <<r>>
          /\ r.redemptionId = RedemptionId[op[1]]
          /\ op[2] = "reverse" => r.reversalId = ReversalId[op[1]] /\ mode[op[1]] \in ReverseMode
          /\ OutcomeIsValid(r.outcome)
    BY DEF Inv, HeldInv, HeldFits
  <2>2. r.provider \in {NoId, ProviderId[op[1]]}
    BY OpShape, RedeemRecords, ReverseRecords
  <2>3. again = [status |-> "success", failure |-> FALSE, record |-> <<r>>]
    BY <2>1
  <2> HIDE DEF again
  <2>4. Correlate(op, again) = Correlated(again)
    <3>1. CASE op[2] = "redeem"
      <4>1. RedeemResultIsValid(again) /\ RequestIsValid(Request(op))
        BY <2>1, <2>3, <3>1 DEF RedeemResultIsValid, PayloadFits, RequestIsValid, Request
      <4>2. CallerIdFits(Request(op).redemptionId, r.redemptionId)
            /\ Request(op).redemptionId = r.redemptionId
        BY <2>1, <3>1 DEF CallerIdFits, Request
      <4>3. [r EXCEPT !.redemptionId = r.redemptionId] = r
        BY <3>1 DEF Records
      <4>4. [again EXCEPT !.record = <<r>>] = again
        BY <2>3, SameRecord
      <4>5. again.record # <<>> /\ again.record[1] = r
        BY <2>3
      <4> QED
        BY <3>1, <4>1, <4>2, <4>3, <4>4, <4>5 DEF Correlate, CorrelateRedeem
    <3>2. CASE op[2] = "reverse"
      <4>0. r.restored = <<>>
        BY <3>2, ReverseRecords
      <4>1. ReverseResultIsValid(again) /\ ReverseRequestIsValid(Request(op))
        BY <2>1, <2>3, <3>2, <4>0 DEF ReverseResultIsValid, PayloadFits, RestorationIsValid,
                                ReverseRequestIsValid, RequestIsValid, Request
      <4>2. /\ CallerIdFits(Request(op).redemptionId, r.redemptionId)
            /\ CallerIdFits(Request(op).reversalId, r.reversalId)
            /\ Request(op).redemptionId = r.redemptionId
            /\ Request(op).reversalId = r.reversalId
        BY <2>1, <3>2 DEF CallerIdFits, Request
      <4>3. ProviderIdFits(Request(op).provider, r.provider)
        <5>1. HeldFits(Redeem(op[1]))
          <6>1. calls[op] > 0
            BY DEF Inv, ConclusionsTrue, TypeOK, ConclusionHolds
          <6> QED
            BY <3>2, <6>1, OpShape DEF Inv, ConclusionsTrue, ConclusionHolds, HeldInv
        <5>2. PICK h \in Records(Redeem(op[1])) : held[Redeem(op[1])] = <<h>>
          BY <5>1 DEF HeldFits
        <5>3. h.provider \in {NoId, ProviderId[op[1]]}
          BY OpShape, RedeemRecords
        <5>4. Request(op).provider \in {NoId, ProviderId[op[1]]}
          BY <3>2, <5>2, <5>3 DEF Request
        <5> QED
          BY <2>2, <5>4 DEF ProviderIdFits
      <4>4. [r EXCEPT !.redemptionId = r.redemptionId, !.reversalId = r.reversalId] = r
        BY <3>2 DEF Records
      <4>5. [again EXCEPT !.record = <<r>>] = again
        BY <2>3, SameRecord
      <4>6. again.record # <<>> /\ again.record[1] = r
        BY <2>3
      <4> QED
        BY <3>2, <4>1, <4>2, <4>3, <4>4, <4>5, <4>6 DEF Correlate, CorrelateReverse
    <3> QED
      BY <3>1, <3>2, OpShape
  <2> QED
    BY <2>1, <2>2, <2>4 DEF again
<1> QED
  BY <1>1, AlwaysInv, PTL

-----------------------------------------------------------------------------
(* The refinement. *)

LEMMA SameOp == Promise!Op = Op
  BY DEF Promise!Op, Op

LEMMA InitKeepsPromise == Init => Promise!Init
  BY SameOp DEF Init, Promise!Init, Told

(* A call, an error and what leaves an operation open go unnoticed. *)
LEMMA Unnoticed ==
  ASSUME Inv, NEW op \in Op, phase[op] \notin {"success", "failure"},
         NEW status \in {"calling", "uncertain"},
         phase' = [phase EXCEPT ![op] = status], uses' = uses
  PROVE  UNCHANGED Promise!vars
  BY DEF Inv, ConclusionsTrue, TypeOK, Told, Promise!vars

LEMMA AnswerKeepsPromise ==
  ASSUME Inv, NEW op \in Op, Answer(op)
  PROVE  Promise!Tell(op) \/ UNCHANGED Promise!vars
<1>1. PICK status, record :
        /\ phase' = [phase EXCEPT ![op] = status]
        /\ Left(op, status, record)
  BY AnswerEffect
<1>2. phase[op] = "calling" /\ uses' = uses
  BY AnswerEffect
<1>3. CASE status = "uncertain"
  BY <1>1, <1>2, <1>3, Unnoticed
<1>4. CASE status # "uncertain"
  <2>1. status = IF uses[op] = 1 THEN "success" ELSE "failure"
    BY <1>1, <1>4 DEF Left, Settling, Inv, ConclusionsTrue, ConclusionHolds
  <2>2. Told[op] = "nothing" /\ Told' = [Told EXCEPT ![op] = status]
    BY <1>1, <1>2, <2>1 DEF Told, Inv, ConclusionsTrue, TypeOK
  <2> QED
    BY <1>2, <2>1, <2>2 DEF Promise!Tell
<1> QED
  BY <1>3, <1>4

LEMMA DecideKeepsPromise ==
  ASSUME Inv, NEW op \in Op, Process(op) \/ Complete(op)
  PROVE  Promise!TakeEffect(op) \/ UNCHANGED Promise!vars
<1>0. TypeOK /\ ConclusionHolds(op)
  BY DEF Inv, ConclusionsTrue
<1>1. Told' = Told
  BY DEF Told, Process, Complete, hostVars
<1>2. uses' = uses \/ (uses' = [uses EXCEPT ![op] = 1] /\ uses[op] = 0
                       /\ phase[op] \notin {"success", "failure"} /\ calls[op] > 0)
  <2>1. CASE UNCHANGED <<fate, uses>>
    BY <2>1
  <2>2. CASE Decide(op) /\ fate[op] \in {"none", "accepted"}
    <3>1. /\ calls[op] > 0 /\ uses[op] = 0 /\ phase[op] \notin {"success", "failure"}
      BY <1>0, <2>2 DEF Process, Complete, ConclusionHolds, TypeOK
    <3>2. uses' = [uses EXCEPT ![op] = 1] \/ uses' = uses
      <4>1. PICK f : uses' = [uses EXCEPT ![op] = IF f = "done" THEN uses[op] + 1 ELSE uses[op]]
        BY <2>2 DEF Decide
      <4>2. uses \in [Op -> Nat] /\ 0 + 1 = 1
        BY <1>0 DEF TypeOK
      <4> QED
        BY <3>1, <4>1, <4>2
    <3> QED
      BY <3>1, <3>2
  <2> QED
    BY <1>0, <2>1, <2>2 DEF Process, Complete, ConclusionHolds, TypeOK
<1>3. CASE uses' = uses
  BY <1>1, <1>3 DEF Promise!vars
<1>4. CASE uses' # uses
  <2>1. Told[op] = "nothing"
    BY <1>2, <1>4 DEF Told
  <2>2. op[2] = "reverse" => Told[Redeem(op[1])] = "success"
    BY <1>0, <1>2, <1>4, OpShape DEF Told, ConclusionHolds
  <2> QED
    BY <1>1, <1>2, <1>4, <2>1, <2>2 DEF Promise!TakeEffect, Redeem
<1> QED
  BY <1>3, <1>4

LEMMA NextKeepsPromise == Inv /\ [Next]_vars => [Promise!Next]_Promise!vars
<1> SUFFICES ASSUME Inv, [Next]_vars
             PROVE  Promise!Next \/ UNCHANGED Promise!vars
  OBVIOUS
<1>1. ASSUME NEW op \in Op, Step(op)
      PROVE  Promise!Next \/ UNCHANGED Promise!vars
  <2>1. CASE Call(op) \/ TakeError(op)
    BY <2>1, Unnoticed DEF Call, TakeError
  <2>2. CASE Answer(op)
    BY <2>2, AnswerKeepsPromise, SameOp DEF Promise!Next
  <2>3. CASE Process(op) \/ Complete(op)
    BY <2>3, DecideKeepsPromise, SameOp DEF Promise!Next
  <2> QED
    BY <1>1, <2>1, <2>2, <2>3 DEF Step
<1>2. CASE UNCHANGED vars
  BY <1>2 DEF vars, hostVars, Promise!vars, Told
<1> QED
  BY <1>1, <1>2 DEF Next

(* The protocol implements the promise: every operation takes effect at     *)
(* most once, and the host is told the truth of it, once and for all.       *)
THEOREM KeepsPromise == Spec => ImplementsBenefitUse
<1>1. Spec => Promise!Init /\ [][Promise!Next]_Promise!vars
  BY InitKeepsPromise, NextKeepsPromise, AlwaysInv, PTL DEF Spec
<1> QED
  BY <1>1 DEF ImplementsBenefitUse, Promise!Spec

=============================================================================
