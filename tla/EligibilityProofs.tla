-------------------------- MODULE EligibilityProofs --------------------------
(***************************************************************************)
(* Theorems about Eligibility, for any clock, any facts, any constraints   *)
(* and whatever the extractors find.                                       *)
(***************************************************************************)
EXTENDS Eligibility, TLAPS

(* A status resolved later of the same facts is no earlier one. *)
LEMMA ResolveForward ==
  ASSUME NEW f \in Facts, NEW s \in Nat, NEW t \in Nat, s <= t
  PROVE  Rank(ResolveStatus(s, f)) <= Rank(ResolveStatus(t, f))
  BY EligibilityConstants DEF Rank, ResolveStatus, Terminal, Unstarted, Ended, FromProvider, NoTime

(* What is active is inside the window, at both of its edges. *)
LEMMA ActiveIsWindow ==
  ASSUME NEW f \in Facts, NEW t \in Nat
  PROVE  ResolveStatus(t, f) = "active" <=>
           /\ f.provider = "active" /\ ~f.exhausted
           /\ \/ f.window.starts = NoTime /\ f.window.expires = NoTime
              \/ TimeRangeAnswer(<<f.window>>, t) = Satisfied
<1> DEFINE w == f.window
<1>1. w.starts \in Nat /\ w.expires \in Nat /\ f.exhausted \in BOOLEAN
  BY EligibilityConstants
<1>2. TimeRangeAnswer(<<w>>, t) = Satisfied <=>
        /\ IsWindow(w)
        /\ w.starts = NoTime \/ w.starts <= t
        /\ w.expires = NoTime \/ t < w.expires
  BY DEF TimeRangeAnswer, Decides, Satisfied, Refusal
<1>3. ResolveStatus(t, f) = "active" <=>
        /\ f.provider = "active" /\ ~f.exhausted
        /\ ~Unstarted(t, w) /\ ~Ended(t, w)
  BY <1>1 DEF ResolveStatus, Terminal, FromProvider
<1> QED
  BY <1>1, <1>2, <1>3 DEF Unstarted, Ended, IsWindow, NoTime

-----------------------------------------------------------------------------
(* What is inspected is a benefit as it was at some instant. *)
Info(t, f, constraints, resolved) ==
  [status |-> IF resolved THEN ResolveStatus(t, f) ELSE f.provider,
   resolved |-> resolved, at |-> t, facts |-> f, constraints |-> constraints]

Inspected ==
  /\ now \in Time
  /\ facts \in Facts
  /\ \/ info = <<>>
     \/ \E t \in Time, f \in Facts, constraints \in Benefits, resolved \in BOOLEAN :
          info = <<Info(t, f, constraints, resolved)>>

LEMMA InspectedAlways == Spec => []Inspected
<1>1. Init => Inspected
  BY DEF Init, Inspected
<1>2. Inspected /\ [Next]_vars => Inspected'
  <2> SUFFICES ASSUME Inspected, [Next]_vars PROVE Inspected'
    OBVIOUS
  <2>1. CASE Tick
    BY <2>1, EligibilityConstants DEF Inspected, Tick, Time
  <2>2. CASE FactsChange
    BY <2>2 DEF Inspected, FactsChange
  <2>3. CASE Inspect
    BY <2>3 DEF Inspected, Inspect, Info
  <2>4. CASE Call
    BY <2>4 DEF Inspected, Call
  <2>5. CASE EvaluateNext
    BY <2>5 DEF Inspected, EvaluateNext
  <2>6. CASE Conclude
    BY <2>6 DEF Inspected, Conclude
  <2>7. CASE Cancel
    BY <2>7 DEF Inspected, Cancel
  <2>8. CASE TakeResult
    BY <2>8 DEF Inspected, TakeResult
  <2>9. CASE UNCHANGED vars
    BY <2>9 DEF Inspected, vars
  <2> QED
    BY <2>1, <2>2, <2>3, <2>4, <2>5, <2>6, <2>7, <2>8, <2>9 DEF Next
<1> QED
  BY <1>1, <1>2, PTL DEF Spec

(* The inspected status is the window's, wherever its edges are. *)
THEOREM StatusAgrees == Spec => []StatusIsWindow
<1>1. Inspected => StatusIsWindow
  <2> SUFFICES ASSUME Inspected, info # <<>>, info[1].resolved PROVE StatusIsWindow
    BY DEF StatusIsWindow
  <2>1. PICK t \in Time, f \in Facts, cs \in Benefits, resolved \in BOOLEAN :
          info = <<Info(t, f, cs, resolved)>>
    BY DEF Inspected
  <2>2. resolved
    BY <2>1, Zenon DEF Info
  <2>3. /\ info[1].status = ResolveStatus(t, f) /\ info[1].at = t /\ info[1].facts = f
        /\ t \in Nat
    BY <2>1, <2>2, EligibilityConstants DEF Time, Info
  <2> QED
    BY <2>3, ActiveIsWindow DEF StatusIsWindow
<1> QED
  BY <1>1, InspectedAlways, PTL

(* Time never takes a status back. *)
THEOREM StatusForward == Spec => StatusNeverRegresses
<1>1. Inspected /\ [Next]_vars =>
        [UNCHANGED facts => Rank(ResolveStatus(now, facts)) <= Rank(ResolveStatus(now', facts'))]_vars
  <2> SUFFICES ASSUME Inspected, Next, facts' = facts
               PROVE  Rank(ResolveStatus(now, facts)) <= Rank(ResolveStatus(now', facts))
    BY DEF vars
  <2>1. now' \in {now, now + 1}
    BY DEF Next, Tick, FactsChange, Inspect, Call, EvaluateNext, Conclude, Cancel, TakeResult
  <2>2. now \in Nat /\ now' \in Nat /\ now <= now' /\ facts \in Facts
    BY <2>1, EligibilityConstants DEF Inspected, Time
  <2> QED
    BY <2>2, ResolveForward
<1> QED
  BY <1>1, InspectedAlways, PTL DEF Spec, StatusNeverRegresses

-----------------------------------------------------------------------------
(* The call in progress: the log and what is left make up the inspected list, *)
(* and a report that is still satisfied has reasons for it.                  *)
Instants == IF request.pin # NoTime THEN {request.pin} ELSE request.began .. now

LogEntry == [constraint : Constraint, cancelled : BOOLEAN]

Progress ==
  LET constraints == info[1].constraints IN
  /\ rest \in Seq(Constraint) /\ log \in Seq(LogEntry)
  /\ Len(log) + Len(rest) = Len(constraints)
  /\ \A i \in 1 .. Len(rest) : rest[i] = constraints[Len(log) + i]
  /\ \A i \in 1 .. Len(log) : log[i].constraint = constraints[i]
  /\ report.status = "satisfied" =>
       \A i \in 1 .. Len(log) :
         ~log[i].cancelled /\ \E t \in Instants : Holds(constraints[i], t)

Answered ==
  /\ cancelled \in BOOLEAN
  /\ at = "none" => result = <<>> /\ log = <<>> /\ rest = <<>> /\ report = NewReport
  /\ at # "none" => info # <<>> /\ request.began \in Nat /\ request.began <= now
  /\ at = "loop" => result = <<>> /\ info[1].status = "active" /\ Progress
  /\ at = "done" =>
       \/ info[1].status # "active" /\ result = <<Inactive>>
       \/ /\ info[1].status = "active" /\ rest = <<>> /\ Progress
          /\ result = <<Concluded(report)>>
  /\ at \in {"none", "loop", "done"}

(* The clock moves, and with it the instants of a call. *)
LEMMA InstantsGrow ==
  ASSUME Inspected, Answered, at # "none", now' \in {now, now + 1}, UNCHANGED request
  PROVE  Instants \subseteq Instants'
<1>1. now \in Nat /\ request.began \in Nat
  BY EligibilityConstants DEF Inspected, Answered, Time
<1> QED
  BY <1>1 DEF Instants

(* Nothing but the clock moves, and the provider's facts. *)
LEMMA ProgressLasts ==
  ASSUME Progress, UNCHANGED <<info, callVars>>, Instants \subseteq Instants'
  PROVE  Progress'
<1>1. ASSUME NEW c, NEW t PROVE Holds(c, t)' <=> Holds(c, t)
  BY DEF Holds, callVars
<1> QED
  BY <1>1 DEF Progress, callVars

(* One more constraint: it is satisfied on no other ground than that it      *)
(* holds at an instant of the call, in good time.                            *)
LEMMA ProgressMade ==
  ASSUME Inspected, Answered, EvaluateNext
  PROVE  Progress'
<1> DEFINE cs == info[1].constraints
           c == Head(rest)
           found == c.type \in Registered
           t == evaluationTime(request.pin)
           answer == IF ~found THEN Failure
                     ELSE BuiltinAnswer(c, cancelled, t, info[1].facts.redeemed, request.input)
           d == Judge(c.type, found, answer)
           e == [constraint |-> c, cancelled |-> cancelled]
           n == Len(log)
<1>1. /\ rest' = Tail(rest) /\ log' = Append(log, e) /\ report' = Count(report, d)
      /\ UNCHANGED <<now, info, request>>
      /\ rest # <<>> /\ at = "loop" /\ Progress
  BY DEF EvaluateNext, Answered
<1>2. rest \in Seq(Constraint) /\ log \in Seq(LogEntry) /\ rest # <<>>
  BY <1>1 DEF Progress
<1>3. c \in Constraint /\ c = rest[1] /\ Tail(rest) \in Seq(Constraint)
      /\ Len(Tail(rest)) = Len(rest) - 1 /\ Len(rest) \in Nat /\ Len(rest) > 0
      /\ \A i \in 1 .. Len(rest) - 1 : Tail(rest)[i] = rest[i + 1]
  BY <1>2
<1>4. e \in LogEntry
  BY <1>3 DEF LogEntry, Answered
<1>5. /\ log' \in Seq(LogEntry) /\ Len(log') = n + 1 /\ n \in Nat
      /\ log'[n + 1] = e /\ \A i \in 1 .. n : log'[i] = log[i]
  BY <1>1, <1>2, <1>4
<1>6. c = cs[n + 1]
  BY <1>1, <1>3, <1>5 DEF Progress
<1>7. report'.status = "satisfied" => report.status = "satisfied" /\ d.code = "satisfied"
  BY <1>1 DEF Count
<1>8. d.code = "satisfied" => found /\ answer.code = "satisfied"
  BY DEF Judge, Failure
<1>9. t \in Instants
  <2>1. request.began \in Nat /\ request.began <= now /\ now \in Nat
    BY <1>1, EligibilityConstants DEF Answered, Inspected, Time
  <2> QED
    BY <2>1 DEF evaluationTime, Instants
<1>10. found /\ answer.code = "satisfied" => ~cancelled /\ Holds(c, t)
  <2> SUFFICES ASSUME found, answer.code = "satisfied" PROVE ~cancelled /\ Holds(c, t)
    OBVIOUS
  <2>1. CASE cancelled
    BY <2>1 DEF BuiltinAnswer, Failure
  <2>2. CASE ~cancelled
    BY <2>2 DEF BuiltinAnswer, Holds
  <2> QED
    BY <2>1, <2>2
<1> HIDE DEF c, found, t, answer, d, e
<1>11. ASSUME NEW x, NEW s PROVE Holds(x, s)' <=> Holds(x, s)
  BY <1>1 DEF Holds
<1>12. Instants' = Instants
  BY <1>1 DEF Instants
<1>13. \A i \in 1 .. n + 1 : i = n + 1 \/ i \in 1 .. n
  BY <1>5
<1>14. /\ Len(log') + Len(rest') = Len(cs)
       /\ \A i \in 1 .. Len(rest') : rest'[i] = cs[Len(log') + i]
  <2>1. /\ n + Len(rest) = Len(cs)
        /\ \A i \in 1 .. Len(rest) : rest[i] = cs[n + i]
    BY <1>1 DEF Progress
  <2>2. Len(rest') = Len(rest) - 1 /\ Len(rest) \in Nat
        /\ \A i \in 1 .. Len(rest) - 1 : rest'[i] = rest[i + 1]
    BY <1>1, <1>3
  <2>0. n \in Nat /\ Len(log') = n + 1
    BY <1>5
  <2> HIDE DEF n, cs
  <2>3. ASSUME NEW i \in 1 .. Len(rest) - 1 PROVE rest'[i] = cs[n + 1 + i]
    <3>1. i + 1 \in 1 .. Len(rest) /\ n + (i + 1) = n + 1 + i
      BY <2>0, <2>2
    <3> QED
      BY <2>1, <2>2, <3>1
  <2>4. Len(cs) = n + 1 + Len(rest')
    <3>1. \A l, k \in Int : n \in Int => n + l = n + 1 + (l - 1)
      OBVIOUS
    <3>2. n + Len(rest) = Len(cs) /\ Len(rest') = Len(rest) - 1 /\ Len(rest) \in Int /\ n \in Int
      BY <2>0, <2>1, <2>2
    <3> QED
      BY <3>1, <3>2
  <2> QED
    BY <2>0, <2>2, <2>3, <2>4
<1>15. \A i \in 1 .. Len(log') : log'[i].constraint = cs[i]
  BY <1>1, <1>5, <1>6, <1>13 DEF Progress, e
<1>16. ASSUME report'.status = "satisfied", NEW i \in 1 .. n + 1
       PROVE  ~log'[i].cancelled /\ \E s \in Instants : Holds(cs[i], s)
  <2>1. CASE i \in 1 .. n
    BY <1>1, <1>5, <1>7, <1>16, <2>1 DEF Progress
  <2>2. CASE i = n + 1
    <3>1. ~cancelled /\ Holds(c, t)
      BY <1>7, <1>8, <1>10, <1>16
    <3> QED
      BY <1>5, <1>6, <1>9, <2>2, <3>1 DEF e
  <2> QED
    BY <1>13, <2>1, <2>2
<1> QED
  BY <1>1, <1>3, <1>5, <1>11, <1>12, <1>14, <1>15, <1>16 DEF Progress

LEMMA AnsweredAlways == Spec => []Answered
<1>1. Init => Answered
  BY DEF Init, Answered
<1>2. Inspected /\ Answered /\ [Next]_vars => Answered'
  <2> SUFFICES ASSUME Inspected, Answered, [Next]_vars PROVE Answered'
    OBVIOUS
  <2>0. now \in Nat
    BY EligibilityConstants DEF Inspected, Time
  <2>1. ASSUME UNCHANGED <<info, callVars>>, now' \in {now, now + 1}, cancelled' \in BOOLEAN
        PROVE  Answered'
    <3>1. at # "none" => Instants \subseteq Instants'
      BY <2>1, InstantsGrow DEF callVars
    <3>2. at # "none" /\ Progress => Progress'
      BY <2>1, <3>1, ProgressLasts
    <3> QED
      BY <2>0, <2>1, <3>2 DEF Answered, callVars
  <2>2. CASE Tick \/ FactsChange \/ Cancel \/ UNCHANGED vars
    BY <2>1, <2>2 DEF Tick, FactsChange, Cancel, vars, Answered
  <2>3. CASE Inspect
    BY <2>3 DEF Inspect, Answered, callVars
  <2>4. CASE Call
    <3>1. UNCHANGED <<now, info, cancelled, report, log>> /\ request'.began = now
          /\ report = NewReport /\ log = <<>> /\ rest = <<>> /\ result = <<>> /\ info # <<>>
      BY <2>4 DEF Call, Answered
    <3>2. info[1].constraints \in Seq(Constraint)
      BY <3>1, EligibilityConstants DEF Inspected, Info
    <3>3. CASE info[1].status = "active"
      <4>1. at' = "loop" /\ rest' = info[1].constraints /\ result' = <<>>
        BY <2>4, <3>1, <3>3 DEF Call
      <4>2. Progress'
        BY <3>1, <3>2, <4>1 DEF Progress
      <4> QED
        BY <2>0, <3>1, <3>3, <4>1, <4>2 DEF Answered
    <3>4. CASE info[1].status # "active"
      <4>1. at' = "done" /\ result' = <<Inactive>>
        BY <2>4, <3>4 DEF Call
      <4> QED
        BY <2>0, <3>1, <3>4, <4>1 DEF Answered
    <3> QED
      BY <3>3, <3>4
  <2>5. CASE EvaluateNext
    BY <2>5, ProgressMade DEF EvaluateNext, Answered
  <2>6. CASE Conclude
    <3>1. UNCHANGED <<now, info, cancelled, request, rest, report, log>> /\ at = "loop"
          /\ at' = "done" /\ rest = <<>> /\ result' = <<Concluded(report)>>
      BY <2>6 DEF Conclude
    <3>2. ASSUME NEW c, NEW t PROVE Holds(c, t)' <=> Holds(c, t)
      BY <3>1 DEF Holds
    <3>3. Progress'
      BY <3>1, <3>2 DEF Progress, Instants, Answered
    <3> QED
      BY <3>1, <3>3 DEF Answered, Concluded
  <2>7. CASE TakeResult
    BY <2>7 DEF TakeResult, Answered
  <2> QED
    BY <2>2, <2>3, <2>4, <2>5, <2>6, <2>7 DEF Next
<1> QED
  BY <1>1, <1>2, InspectedAlways, PTL DEF Spec

LEMMA ConcludedFacts ==
  ASSUME NEW r
  PROVE  /\ Concluded(r).eligible <=> r.status = "satisfied"
         /\ Concluded(r).failure = IF r.status = "satisfied" THEN NoFailure
                                   ELSE "constraint.unsatisfied"
         /\ Concluded(r).report = r
<1>1. Concluded(r).eligible <=> r.status = "satisfied"
  BY Zenon DEF Concluded
<1>2. /\ Concluded(r).failure = IF r.status = "satisfied" THEN NoFailure
                                ELSE "constraint.unsatisfied"
      /\ Concluded(r).report = r
  BY DEF Concluded
<1> QED
  BY <1>1, <1>2

(* What is found eligible was active, and every constraint was evaluated in  *)
(* good time and held at an instant of the call, or at the one given.        *)
THEOREM EligibleSound == Spec => []EligibleHolds
<1>1. Answered => EligibleHolds
  <2> SUFFICES ASSUME Answered, result # <<>>, result[1].eligible PROVE EligibleHolds
    BY DEF EligibleHolds
  <2>1. at = "done"
    BY DEF Answered
  <2>2. /\ info[1].status = "active" /\ rest = <<>> /\ Progress
        /\ report.status = "satisfied"
    <3>1. ~Inactive.eligible
      BY DEF Inactive
    <3>2. result # <<Inactive>>
      BY <3>1
    <3>3. /\ info[1].status = "active" /\ rest = <<>> /\ Progress
          /\ result[1] = Concluded(report)
      BY <2>1, <3>2 DEF Answered
    <3> QED
      BY <3>3, ConcludedFacts, Zenon
  <2>3. Len(log) = Len(info[1].constraints)
    BY <2>2 DEF Progress
  <2> QED
    BY <2>2, <2>3 DEF Progress, EligibleHolds, Instants
<1> QED
  BY <1>1, AnsweredAlways, PTL

(* Only what evaluates to inactive names a redeem code. *)
LEMMA CodedStatuses ==
  ASSUME NEW status
  PROVE  RedeemFailureCodeForStatus(status) # NoFailure <=> status \in Status \ {"active"}
  BY DEF RedeemFailureCodeForStatus, NoFailure, Status, Terminal

(* Results validate; a benefit is inactive for the statuses that name a      *)
(* redeem code, and, naming none, for what is no status.                     *)
THEOREM ResultsConsistent == Spec => []ResultsAgree
<1>1. Answered => ResultsAgree
  <2> DEFINE status == info[1].status
             inactive == result[1].failure = "benefit.inactive"
  <2> SUFFICES ASSUME Answered, result # <<>>
               PROVE  EvaluationIsValid(result[1]) /\ (inactive <=> status # "active")
    BY CodedStatuses DEF ResultsAgree, Status
  <2>1. at = "done"
    BY DEF Answered
  <2>2. CASE status # "active"
    BY <2>1, <2>2 DEF Answered, Inactive, EvaluationIsValid, NoFailure
  <2>3. CASE status = "active"
    <3>1. result[1] = Concluded(report)
      BY <2>1, <2>3 DEF Answered
    <3>2. EvaluationIsValid(Concluded(report))
      <4>1. CASE report.status = "satisfied"
        BY <4>1, ConcludedFacts DEF EvaluationIsValid
      <4>2. CASE report.status # "satisfied"
        BY <4>2, ConcludedFacts DEF EvaluationIsValid, NoFailure
      <4> QED
        BY <4>1, <4>2
    <3>3. Concluded(report).failure # "benefit.inactive"
      BY ConcludedFacts DEF NoFailure
    <3> QED
      BY <2>3, <3>1, <3>2, <3>3
  <2> QED
    BY <2>2, <2>3
<1> QED
  BY <1>1, AnsweredAlways, PTL

-----------------------------------------------------------------------------
(* A call with Input.Now given: its report is that of the given instant.    *)

LEMMA ListingGrows ==
  ASSUME NEW k \in Nat, NEW n \in Nat, NEW S \in SUBSET (1 .. n), NEW p \in Listings(k, S)
  PROVE  [i \in 1 .. k + 1 |-> IF i = k + 1 THEN n + 1 ELSE p[i]]
           \in Listings(k + 1, S \cup {n + 1})
<1> DEFINE q == [i \in 1 .. k + 1 |-> IF i = k + 1 THEN n + 1 ELSE p[i]]
<1>1. /\ p \in [1 .. k -> S]
      /\ \A i, j \in 1 .. k : i < j => p[i] < p[j]
      /\ \A s \in S : \E i \in 1 .. k : p[i] = s
  BY DEF Listings
<1>2. ASSUME NEW i \in 1 .. k
      PROVE  i \in 1 .. k + 1 /\ q[i] = p[i] /\ p[i] \in S /\ p[i] \in 1 .. n
  <2>1. p[i] \in S
    BY <1>1
  <2>2. i \in 1 .. k + 1 /\ i # k + 1
    OBVIOUS
  <2> QED
    BY <2>1, <2>2
<1>3. k + 1 \in 1 .. k + 1 /\ q[k + 1] = n + 1
  OBVIOUS
<1>4. \A i \in 1 .. k + 1 : i \in 1 .. k \/ i = k + 1
  OBVIOUS
<1>5. q \in [1 .. k + 1 -> S \cup {n + 1}]
  BY <1>1, <1>4
<1> HIDE DEF q
<1>6. ASSUME NEW i \in 1 .. k + 1, NEW j \in 1 .. k + 1, i < j PROVE q[i] < q[j]
  <2>1. i \in 1 .. k /\ q[i] = p[i] /\ p[i] \in 1 .. n
    BY <1>2, <1>6
  <2>2. CASE j \in 1 .. k
    <3>1. p[i] < p[j]
      BY <1>1, <1>6, <2>1, <2>2
    <3> QED
      BY <1>2, <2>1, <2>2, <3>1
  <2>3. CASE j = k + 1
    BY <1>3, <2>1, <2>3
  <2> QED
    BY <1>4, <2>2, <2>3
<1>7. ASSUME NEW s \in S \cup {n + 1} PROVE \E i \in 1 .. k + 1 : q[i] = s
  BY <1>1, <1>2, <1>3
<1> QED
  BY <1>5, <1>6, <1>7 DEF Listings, q

(* The constraints that do not hold at the given instant, among those judged *)
(* so far, are what a report owes its violations to, and its status.         *)
Judgement == [type : {c.type : c \in Constraint}, code : Code \cup {"unrecognized"},
              text : {"none", "registry", "evaluator"}]

Undisturbed == request.pin # NoTime /\ \A i \in 1 .. Len(log) : ~log[i].cancelled

FailedSoFar == {i \in 1 .. Len(log) : ~Holds(info[1].constraints[i], request.pin)}

Pinned ==
  /\ report.violations \in Seq(Judgement)
  /\ Undisturbed =>
       /\ report.status = "satisfied" <=> FailedSoFar = {}
       /\ \E place \in Listings(Len(report.violations), FailedSoFar) :
            \A i \in 1 .. Len(report.violations) :
              report.violations[i].type = info[1].constraints[place[i]].type

(* Before the first constraint nothing has failed. *)
LEMMA NothingListed == NewReport.violations \in Seq(Judgement) /\ Listings(0, {}) # {}
<1>1. [i \in 1 .. 0 |-> 0] \in Listings(0, {})
  BY DEF Listings
<1> QED
  BY <1>1 DEF NewReport

(* What is judged in good time is what holds, and nothing else counts. *)
LEMMA JudgedPinned ==
  ASSUME NEW c \in Constraint, ~cancelled, request.pin # NoTime
  PROVE  LET found == c.type \in Registered
             answer == IF ~found THEN Failure
                       ELSE BuiltinAnswer(c, cancelled, evaluationTime(request.pin),
                                          info[1].facts.redeemed, request.input)
         IN Judge(c.type, found, answer).code = "satisfied" <=> Holds(c, request.pin)
<1> DEFINE found == c.type \in Registered
           t == evaluationTime(request.pin)
           answer == IF ~found THEN Failure
                     ELSE BuiltinAnswer(c, cancelled, t, info[1].facts.redeemed, request.input)
<1>1. t = request.pin
  BY DEF evaluationTime
<1>2. Judge(c.type, found, answer).code = "satisfied" <=> found /\ answer.code = "satisfied"
  BY DEF Judge, Failure
<1>3. found => (answer.code = "satisfied" <=> Holds(c, t))
  BY DEF BuiltinAnswer, Holds
<1>4. ~found => ~Holds(c, t)
  BY DEF Holds
<1> HIDE DEF found, t, answer
<1>5. Judge(c.type, found, answer).code = "satisfied" <=> Holds(c, request.pin)
  BY <1>1, <1>2, <1>3, <1>4
<1> QED
  BY <1>5 DEF found, t, answer

(* One more constraint: a violation if it does not hold, and nothing if it does. *)
LEMMA PinnedGrows ==
  ASSUME Answered, Answered', Pinned, EvaluateNext
  PROVE  Pinned'
<1> DEFINE cs == info[1].constraints
           c == Head(rest)
           found == c.type \in Registered
           answer == IF ~found THEN Failure
                     ELSE BuiltinAnswer(c, cancelled, evaluationTime(request.pin),
                                        info[1].facts.redeemed, request.input)
           d == Judge(c.type, found, answer)
           e == [constraint |-> c, cancelled |-> cancelled]
           n == Len(log)
           v == report.violations
           k == Len(v)
<1>1. /\ log' = Append(log, e) /\ report' = Count(report, d)
      /\ UNCHANGED <<info, request, cancelled>>
      /\ rest # <<>> /\ at = "loop" /\ Progress
  BY DEF EvaluateNext, Answered
<1>2. c \in Constraint /\ e \in LogEntry /\ log \in Seq(LogEntry) /\ n \in Nat
      /\ c = cs[n + 1]
  <2>1. rest \in Seq(Constraint) /\ log \in Seq(LogEntry) /\ rest # <<>>
        /\ \A i \in 1 .. Len(rest) : rest[i] = cs[n + i]
    BY <1>1 DEF Progress
  <2>2. 1 \in 1 .. Len(rest) /\ c = rest[1] /\ c \in Constraint /\ n \in Nat
    BY <2>1
  <2> QED
    BY <2>1, <2>2 DEF LogEntry, Answered
<1>3. d \in Judgement /\ d.type = c.type
  BY <1>2 DEF Judge, Judgement, Code
<1>4. ~cancelled /\ request.pin # NoTime => (d.code = "satisfied" <=> Holds(c, request.pin))
  BY <1>2, JudgedPinned
<1>5. v \in Seq(Judgement) /\ k \in Nat
  BY DEF Pinned
<1>6. /\ report'.violations = IF d.code = "satisfied" THEN v ELSE Append(v, d)
      /\ report'.status = IF d.code = "satisfied" THEN report.status ELSE "unsatisfied"
  BY <1>1 DEF Count
<1>7. e.cancelled = cancelled
  OBVIOUS
<1> HIDE DEF c, found, answer, d, e
<1>8. Len(log') = n + 1 /\ log'[n + 1] = e /\ \A i \in 1 .. n : log'[i] = log[i]
  BY <1>1, <1>2
<1>9. report'.violations \in Seq(Judgement)
  BY <1>3, <1>5, <1>6
<1>10. SUFFICES ASSUME Undisturbed'
                PROVE  /\ report'.status = "satisfied" <=> FailedSoFar' = {}
                       /\ \E place \in Listings(Len(report'.violations), FailedSoFar') :
                            \A i \in 1 .. Len(report'.violations) :
                              report'.violations[i].type = info'[1].constraints[place[i]].type
  BY <1>9 DEF Pinned
<1>11. Undisturbed /\ ~cancelled /\ request.pin # NoTime
  <2>1. request.pin # NoTime /\ \A i \in 1 .. Len(log') : ~log'[i].cancelled
    BY <1>1, <1>10 DEF Undisturbed
  <2>2. n + 1 \in 1 .. Len(log') /\ \A i \in 1 .. n : i \in 1 .. Len(log') /\ log'[i] = log[i]
    BY <1>2, <1>8
  <2>3. ~e.cancelled /\ \A i \in 1 .. n : ~log[i].cancelled
    BY <1>8, <2>1, <2>2
  <2> QED
    BY <1>7, <2>1, <2>3 DEF Undisturbed
<1>12. FailedSoFar \in SUBSET (1 .. n)
       /\ FailedSoFar' = IF Holds(c, request.pin) THEN FailedSoFar ELSE FailedSoFar \cup {n + 1}
  <2>1. ASSUME NEW x, NEW t PROVE Holds(x, t)' <=> Holds(x, t)
    BY <1>1 DEF Holds
  <2>2. FailedSoFar' = {i \in 1 .. Len(log') : ~Holds(cs[i], request.pin)}
    BY <1>1, <2>1 DEF FailedSoFar
  <2>3. FailedSoFar = {i \in 1 .. n : ~Holds(cs[i], request.pin)}
    BY DEF FailedSoFar
  <2>4. 1 .. Len(log') = 1 .. n \cup {n + 1}
    BY <1>2, <1>8
  <2> HIDE DEF n, cs
  <2> QED
    BY <1>2, <2>2, <2>3, <2>4
<1>13. PICK place \in Listings(k, FailedSoFar) : \A i \in 1 .. k : v[i].type = cs[place[i]].type
  BY <1>11 DEF Pinned
<1>14. report.status = "satisfied" <=> FailedSoFar = {}
  BY <1>11 DEF Pinned
<1>15. info'[1].constraints = cs
  BY <1>1
<1>16. n \in Nat /\ FailedSoFar \in SUBSET (1 .. n)
  BY <1>2, <1>12
<1> HIDE DEF n, cs, v
<1>17. CASE Holds(c, request.pin)
  <2>1. report'.violations = v /\ report'.status = report.status /\ FailedSoFar' = FailedSoFar
    BY <1>4, <1>6, <1>11, <1>12, <1>17
  <2> QED
    BY <1>13, <1>14, <1>15, <2>1
<1>18. CASE ~Holds(c, request.pin)
  <2> DEFINE q == [i \in 1 .. k + 1 |-> IF i = k + 1 THEN n + 1 ELSE place[i]]
             w == report'.violations
  <2>1. w = Append(v, d) /\ report'.status = "unsatisfied" /\ FailedSoFar' = FailedSoFar \cup {n + 1}
    BY <1>4, <1>6, <1>11, <1>12, <1>18
  <2>2. Len(w) = k + 1 /\ w[k + 1] = d /\ \A i \in 1 .. k : w[i] = v[i]
    BY <1>3, <1>5, <2>1
  <2>3. q \in Listings(k + 1, FailedSoFar')
    BY <1>5, <1>13, <1>16, <2>1, ListingGrows
  <2>4. q[k + 1] = n + 1 /\ \A i \in 1 .. k : q[i] = place[i]
    <3>1. k + 1 \in 1 .. k + 1 /\ \A i \in 1 .. k : i \in 1 .. k + 1 /\ i # k + 1
      BY <1>5
    <3> QED
      BY <3>1
  <2>5. \A i \in 1 .. k + 1 : i = k + 1 \/ i \in 1 .. k
    BY <1>5
  <2> HIDE DEF q, w, k
  <2>6. \A i \in 1 .. k + 1 : w[i].type = cs[q[i]].type
    BY <1>2, <1>3, <1>13, <2>2, <2>4, <2>5
  <2>7. report'.status = "satisfied" <=> FailedSoFar' = {}
    BY <2>1
  <2> QED
    BY <1>15, <2>2, <2>3, <2>6, <2>7 DEF w
<1> QED
  BY <1>17, <1>18

LEMMA PinnedAlways == Spec => []Pinned
<1>1. Init => Pinned
  <2> SUFFICES ASSUME Init PROVE Pinned
    OBVIOUS
  <2>1. report = NewReport /\ log = <<>>
    BY DEF Init
  <2>2. report.status = "satisfied" /\ report.violations = <<>> /\ FailedSoFar = {}
    BY <2>1 DEF NewReport, FailedSoFar
  <2> QED
    BY <2>1, <2>2, NothingListed DEF Pinned
<1>2. Answered /\ Answered' /\ Pinned /\ [Next]_vars => Pinned'
  <2> SUFFICES ASSUME Answered, Answered', Pinned, [Next]_vars PROVE Pinned'
    OBVIOUS
  <2>1. ASSUME report' = NewReport, log' = <<>> PROVE Pinned'
    <3>1. report'.status = "satisfied" /\ report'.violations = <<>> /\ FailedSoFar' = {}
      BY <2>1 DEF NewReport, FailedSoFar
    <3> QED
      BY <2>1, <3>1, NothingListed DEF Pinned
  <2>2. ASSUME UNCHANGED <<info, request, report, log>> PROVE Pinned'
    <3>1. ASSUME NEW c, NEW t PROVE Holds(c, t)' <=> Holds(c, t)
      BY <2>2 DEF Holds
    <3>2. FailedSoFar' = FailedSoFar /\ (Undisturbed' <=> Undisturbed)
      BY <2>2, <3>1 DEF FailedSoFar, Undisturbed
    <3> QED
      BY <2>2, <3>2 DEF Pinned
  <2>3. CASE Inspect \/ Call \/ TakeResult
    BY <2>1, <2>3 DEF Inspect, Call, TakeResult, callVars, Answered
  <2>4. CASE EvaluateNext
    BY <2>4, PinnedGrows
  <2>5. CASE Tick \/ FactsChange \/ Conclude \/ Cancel \/ UNCHANGED vars
    BY <2>2, <2>5 DEF Tick, FactsChange, Conclude, Cancel, callVars, vars
  <2> QED
    BY <2>3, <2>4, <2>5 DEF Next
<1> QED
  BY <1>1, <1>2, AnsweredAlways, PTL DEF Spec

(* With Input.Now given, a report whose evaluations all came in good time is *)
(* that of the given instant, whatever the clock does meanwhile.             *)
THEOREM PinnedSound == Spec => []PinnedIsOneInstant
<1>1. Answered /\ Pinned => PinnedIsOneInstant
  <2> SUFFICES ASSUME Answered, Pinned, result # <<>>,
                      result[1].report.status # "unevaluated", Undisturbed
               PROVE  PinnedIsOneInstant
    BY DEF PinnedIsOneInstant, Undisturbed
  <2>1. at = "done" /\ result # <<Inactive>>
    BY DEF Answered, Inactive, Unevaluated, NewReport
  <2>2. rest = <<>> /\ Progress /\ result[1] = Concluded(report)
    BY <2>1 DEF Answered
  <2>3. Len(log) = Len(info[1].constraints)
    BY <2>2 DEF Progress
  <2>4. (result[1].eligible <=> report.status = "satisfied") /\ result[1].report = report
    BY <2>2, ConcludedFacts, Zenon
  <2> QED
    BY <2>3, <2>4 DEF Pinned, FailedSoFar, PinnedIsOneInstant
<1> QED
  BY <1>1, AnsweredAlways, PinnedAlways, PTL

=============================================================================
