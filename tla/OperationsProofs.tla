-------------------------- MODULE OperationsProofs --------------------------
(***************************************************************************)
(* Theorems about Operations, for any declarations, policies, operations   *)
(* and modes.                                                              *)
(***************************************************************************)
EXTENDS Operations, TLAPS

LEMMA HeadAndTail ==
  ASSUME NEW S, NEW s \in Seq(S), s # <<>>
  PROVE  /\ Tail(s) \in Seq(S) /\ Head(s) \in Elements(s)
         /\ Elements(Tail(s)) \subseteq Elements(s)
         /\ \A e \in Elements(s) : e = Head(s) \/ e \in Elements(Tail(s))
<1>1. /\ Tail(s) \in Seq(S) /\ Head(s) = s[1] /\ Len(s) \in Nat /\ Len(s) > 0
      /\ Len(Tail(s)) = Len(s) - 1
      /\ \A i \in 1 .. Len(s) - 1 : Tail(s)[i] = s[i + 1]
  OBVIOUS
<1>2. ASSUME NEW i \in 1 .. Len(s) - 1 PROVE Tail(s)[i] = s[i + 1] /\ i + 1 \in 1 .. Len(s)
  BY <1>1
<1>3. ASSUME NEW i \in 1 .. Len(s), i # 1 PROVE s[i] = Tail(s)[i - 1] /\ i - 1 \in 1 .. Len(s) - 1
  <2>1. i - 1 \in 1 .. Len(s) - 1 /\ (i - 1) + 1 = i
    BY <1>1, <1>3
  <2> QED
    BY <1>1, <2>1
<1>4. ASSUME NEW e \in Elements(Tail(s)) PROVE e \in Elements(s)
  <2>1. PICK i \in 1 .. Len(s) - 1 : e = Tail(s)[i]
    BY <1>1 DEF Elements
  <2>2. e = s[i + 1] /\ i + 1 \in 1 .. Len(s)
    BY <1>2, <2>1
  <2> QED
    BY <2>2 DEF Elements
<1>5. ASSUME NEW e \in Elements(s) PROVE e = Head(s) \/ e \in Elements(Tail(s))
  <2>1. PICK i \in 1 .. Len(s) : e = s[i]
    BY DEF Elements
  <2>2. CASE i = 1
    BY <1>1, <2>1, <2>2
  <2>3. CASE i # 1
    <3>1. s[i] = Tail(s)[i - 1] /\ i - 1 \in 1 .. Len(Tail(s))
      BY <1>1, <1>3, <2>3
    <3> QED
      BY <2>1, <3>1 DEF Elements
  <2> QED
    BY <2>2, <2>3
<1>6. Head(s) \in Elements(s)
  BY <1>1 DEF Elements
<1> QED
  BY <1>1, <1>4, <1>5, <1>6

(* Whoever is restricted by less has no less available. *)
LEMMA FewerRestrictions ==
  ASSUME NEW capabilities, NEW ps, NEW qs, NEW operation, NEW m, NEW n, NEW held,
         n = m \/ n = "",
         \A q \in Elements(qs) : Restricts(q, operation, n) =>
           q \in Elements(ps) /\ Restricts(q, operation, m)
  PROVE  AtMost(Availability(capabilities, ps, operation, m, held),
                 Availability(capabilities, qs, operation, n, held))
<1> DEFINE a == Availability(capabilities, ps, operation, m, held)
           b == Availability(capabilities, qs, operation, n, held)
<1>1. a \in {"unsupported", "ineligible", "eligible"} /\ b \in {"unsupported", "ineligible", "eligible"}
  BY DEF Availability
<1>2. b = "unsupported" => a = "unsupported"
  BY DEF Availability
<1>3. a = "eligible" => b = "eligible"
  BY DEF Availability
<1>4. AtMost(a, b)
  BY <1>1, <1>2, <1>3 DEF AtMost
<1> QED
  BY <1>4

-----------------------------------------------------------------------------
(* The arguments that reach the loop, or a decision. *)
Sound ==
  /\ asked.policies \in Seq(Policy)
  /\ PoliciesAreValid(asked.policies)

(* Half-way through the loop: what has been seen disables nothing and is      *)
(* gathered, and nothing else is.                                            *)
Gathered ==
  LET policies == asked.policies
      restricts(p) == Restricts(p, asked.operation, asked.mode)
  IN
  /\ Declares(asked.capabilities, asked.operation)
  /\ asked.mode = "" \/ SupportsMode(asked.capabilities, asked.operation, asked.mode)
  /\ rest \in Seq(Policy) /\ Elements(rest) \subseteq Elements(policies)
  /\ \A p \in Elements(policies) :
       p \in Elements(rest) \/ (restricts(p) => ~p.disabled /\ p.constraints \subseteq gathered)
  /\ \A c \in gathered : \E p \in Elements(policies) : restricts(p) /\ c \in p.constraints

LoopInv ==
  /\ at \in {"idle", "loop", "decided"}
  /\ at = "idle" => gathered = {}
  /\ at = "loop" => Sound /\ Gathered
  /\ Answered => Sound /\ DecidedAsDeclared

LEMMA MatchesRestricts ==
  ASSUME Sound, NEW p \in Elements(asked.policies)
  PROVE  policyMatches(p, asked.operation, asked.mode) <=>
           Restricts(p, asked.operation, asked.mode)
  BY DEF Sound, PoliciesAreValid, ModesAreValid, policyMatches, Restricts

LEMMA AskKeeps ==
  ASSUME LoopInv, Ask
  PROVE  LoopInv'
<1>0. PICK operation \in Operation, mode \in Mode, noRegistry \in BOOLEAN,
           capabilities \in CapabilityLists, policies \in PolicyLists :
             AskOf(operation, mode, noRegistry, capabilities, policies)
  BY DEF Ask
<1>1. /\ asked' = [operation |-> operation, mode |-> mode,
                   capabilities |-> capabilities, policies |-> policies]
      /\ \/ Decide(Fails("ErrValidation"))
         \/ Decide(Fails("ErrNilRegistry"))
         \/ /\ PoliciesAreValid(policies)
            /\ \/ ~Declares(capabilities, operation)
               \/ mode # "" /\ ~SupportsMode(capabilities, operation, mode)
            /\ Decide(Unsupported)
         \/ /\ PoliciesAreValid(policies)
            /\ Declares(capabilities, operation)
            /\ mode = "" \/ SupportsMode(capabilities, operation, mode)
            /\ at' = "loop" /\ rest' = policies
  BY <1>0 DEF AskOf
<1>2. gathered' = {}
  BY DEF Ask, LoopInv
<1>3. /\ asked'.operation = operation /\ asked'.mode = mode
      /\ asked'.capabilities = capabilities /\ asked'.policies = policies
      /\ policies \in Seq(Policy)
  BY <1>1, OperationsConstants
<1>4. CASE Decide(Fails("ErrValidation")) \/ Decide(Fails("ErrNilRegistry"))
  BY <1>2, <1>4 DEF Decide, Fails, LoopInv, Answered
<1>5. CASE /\ PoliciesAreValid(policies)
           /\ \/ ~Declares(capabilities, operation)
              \/ mode # "" /\ ~SupportsMode(capabilities, operation, mode)
           /\ Decide(Unsupported)
  <2>1. Sound'
    BY <1>3, <1>5 DEF Sound
  <2>2. at' = "decided" /\ decided'.status = "unsupported"
    BY <1>5 DEF Decide, Unsupported
  <2>3. Availability(capabilities, policies, operation, mode, met') = "unsupported"
    BY <1>5 DEF Availability
  <2>4. DecidedAsDeclared'
    BY <1>3, <2>2, <2>3 DEF DecidedAsDeclared
  <2> QED
    BY <2>1, <2>2, <2>4 DEF LoopInv
<1>6. CASE /\ PoliciesAreValid(policies)
           /\ Declares(capabilities, operation)
           /\ mode = "" \/ SupportsMode(capabilities, operation, mode)
           /\ at' = "loop" /\ rest' = policies
  <2>1. Sound'
    BY <1>3, <1>6 DEF Sound
  <2>2. Gathered'
    BY <1>2, <1>3, <1>6 DEF Gathered
  <2> QED
    BY <1>6, <2>1, <2>2 DEF LoopInv, Answered
<1> QED
  BY <1>1, <1>4, <1>5, <1>6

LEMMA NextPolicyKeeps ==
  ASSUME LoopInv, NextPolicy
  PROVE  LoopInv'
<1> DEFINE p == Head(rest)
           policies == asked.policies
           restricts(q) == Restricts(q, asked.operation, asked.mode)
<1>1. Sound /\ Gathered /\ rest # <<>> /\ rest \in Seq(Policy) /\ asked' = asked
  BY DEF LoopInv, NextPolicy, Gathered
<1>2. /\ Tail(rest) \in Seq(Policy) /\ p \in Elements(rest)
      /\ Elements(Tail(rest)) \subseteq Elements(rest)
      /\ \A e \in Elements(rest) : e = p \/ e \in Elements(Tail(rest))
  BY <1>1, HeadAndTail
<1>3. p \in Elements(policies)
  BY <1>1, <1>2 DEF Gathered
<1>4. policyMatches(p, asked.operation, asked.mode) <=> restricts(p)
  BY <1>1, <1>3, MatchesRestricts
<1>5. Sound'
  BY <1>1 DEF Sound
<1> HIDE DEF p
<1>6. CASE ~restricts(p)
  <2>1. at' = "loop" /\ rest' = Tail(rest) /\ gathered' = gathered
    BY <1>4, <1>6 DEF NextPolicy, p
  <2>2. Gathered'
    BY <1>1, <1>2, <1>6, <2>1 DEF Gathered
  <2> QED
    BY <1>5, <2>1, <2>2 DEF LoopInv, Answered
<1>7. CASE restricts(p) /\ p.disabled
  <2>1. Decide(Unsupported) /\ gathered' = gathered
    BY <1>4, <1>7 DEF NextPolicy, p
  <2>2. at' = "decided" /\ decided'.status = "unsupported"
    BY <2>1 DEF Decide, Unsupported
  <2>3. Availability(asked.capabilities, policies, asked.operation, asked.mode, met') = "unsupported"
    BY <1>3, <1>7 DEF Availability
  <2>4. DecidedAsDeclared'
    BY <1>1, <2>2, <2>3 DEF DecidedAsDeclared
  <2> QED
    BY <1>5, <2>2, <2>4 DEF LoopInv
<1>8. CASE restricts(p) /\ ~p.disabled
  <2>1. at' = "loop" /\ rest' = Tail(rest) /\ gathered' = gathered \cup p.constraints
    BY <1>4, <1>8 DEF NextPolicy, p
  <2>2. Gathered'
    <3>1. ASSUME NEW q \in Elements(policies), q \notin Elements(Tail(rest)), restricts(q)
          PROVE  ~q.disabled /\ q.constraints \subseteq gathered \cup p.constraints
      BY <1>1, <1>2, <1>8, <3>1 DEF Gathered
    <3>2. ASSUME NEW c \in gathered \cup p.constraints
          PROVE  \E q \in Elements(policies) : restricts(q) /\ c \in q.constraints
      BY <1>1, <1>3, <1>8, <3>2 DEF Gathered
    <3>3. Elements(Tail(rest)) \subseteq Elements(policies)
      BY <1>1, <1>2 DEF Gathered
    <3> QED
      BY <1>1, <1>2, <2>1, <3>1, <3>2, <3>3 DEF Gathered
  <2> QED
    BY <1>5, <2>1, <2>2 DEF LoopInv, Answered
<1> QED
  BY <1>6, <1>7, <1>8

LEMMA EvaluateConstraintsKeeps ==
  ASSUME LoopInv, EvaluateConstraints
  PROVE  LoopInv'
<1>1. /\ Sound /\ Gathered /\ Elements(rest) = {} /\ asked' = asked
      /\ at' = "decided" /\ met' = holding /\ decided' = DecidedOn(gathered)
  BY DEF LoopInv, EvaluateConstraints, Decide, Elements
<1> DEFINE a == Availability(asked.capabilities, asked.policies, asked.operation, asked.mode, holding)
           restricting == {p \in Elements(asked.policies) : Restricts(p, asked.operation, asked.mode)}
<1>2. /\ \A p \in restricting : ~p.disabled /\ p.constraints \subseteq gathered
      /\ \A c \in gathered : \E p \in restricting : c \in p.constraints
      /\ Declares(asked.capabilities, asked.operation)
      /\ asked.mode = "" \/ SupportsMode(asked.capabilities, asked.operation, asked.mode)
  BY <1>1 DEF Gathered
<1>3. a = IF \A p \in restricting : p.constraints \subseteq holding THEN "eligible" ELSE "ineligible"
  BY <1>2 DEF Availability
<1>4. (\A p \in restricting : p.constraints \subseteq holding) <=> gathered \subseteq holding
  BY <1>2
<1>5. decided'.status = a
  BY <1>1, <1>3, <1>4 DEF DecidedOn
<1>6. Sound' /\ DecidedAsDeclared'
  BY <1>1, <1>5 DEF Sound, DecidedAsDeclared
<1> QED
  BY <1>1, <1>6 DEF LoopInv

LEMMA LoopAlways == Spec => []LoopInv
<1>1. Init => LoopInv
  BY DEF Init, LoopInv, Answered
<1>2. LoopInv /\ [Next]_vars => LoopInv'
  <2> SUFFICES ASSUME LoopInv, [Next]_vars PROVE LoopInv'
    OBVIOUS
  <2>1. CASE WhatHoldsChanges \/ UNCHANGED vars
    BY <2>1 DEF WhatHoldsChanges, vars, callVars, LoopInv, Sound, Gathered, Answered, DecidedAsDeclared
  <2>2. CASE Ask
    BY <2>2, AskKeeps
  <2>3. CASE NextPolicy
    BY <2>3, NextPolicyKeeps
  <2>4. CASE EvaluateConstraints
    BY <2>4, EvaluateConstraintsKeeps
  <2>5. CASE TakeDecision
    BY <2>5 DEF TakeDecision, LoopInv, Answered
  <2> QED
    BY <2>1, <2>2, <2>3, <2>4, <2>5 DEF Next
<1> QED
  BY <1>1, <1>2, PTL DEF Spec

-----------------------------------------------------------------------------
(* The loop decides what declarations and policies say as a whole. *)
THEOREM OrderIsNothing == Spec => []DecidedAsDeclared
<1>1. LoopInv => DecidedAsDeclared
  BY DEF LoopInv, DecidedAsDeclared
<1> QED
  BY <1>1, LoopAlways, PTL

(* No policy gives, whatever comes before or after it. *)
THEOREM PoliciesRestrict == Spec => []PoliciesOnlyRestrict
<1>1. LoopInv => PoliciesOnlyRestrict
  <2> SUFFICES ASSUME LoopInv, Answered, NEW n \in 0 .. Len(asked.policies)
               PROVE  AtMost(decided.status,
                             Availability(asked.capabilities, SubSeq(asked.policies, 1, n),
                                          asked.operation, asked.mode, met))
    BY DEF PoliciesOnlyRestrict
  <2>1. asked.policies \in Seq(Policy)
    BY DEF LoopInv, Sound
  <2>2. Elements(SubSeq(asked.policies, 1, n)) \subseteq Elements(asked.policies)
    BY <2>1 DEF Elements
  <2> QED
    BY <2>2, FewerRestrictions DEF LoopInv, DecidedAsDeclared
<1> QED
  BY <1>1, LoopAlways, PTL

(* A mode is available at most where the operation is. *)
THEOREM ModesRestrict == Spec => []ModeOnlyRestricts
<1>1. LoopInv => ModeOnlyRestricts
  <2> SUFFICES ASSUME LoopInv, Answered PROVE ModeOnlyRestricts
    BY DEF ModeOnlyRestricts
  <2>1. \A q \in Elements(asked.policies) :
          Restricts(q, asked.operation, "") => Restricts(q, asked.operation, asked.mode)
    BY DEF LoopInv, Sound, PoliciesAreValid, ModesAreValid, Restricts
  <2> QED
    BY <2>1, FewerRestrictions DEF LoopInv, DecidedAsDeclared, ModeOnlyRestricts
<1> QED
  BY <1>1, LoopAlways, PTL

(* Whatever is decided is Unsupported or comes from the report, and either *)
(* has the parts that go with its status.                                  *)
DecisionShape ==
  Answered => \/ decided = Unsupported
              \/ decided.status = "ineligible" /\ decided.report = "unsatisfied"
              \/ decided.status = "eligible" /\ decided.report = "satisfied" /\ ~decided.reason

LEMMA ShapeKept == DecisionShape /\ [Next]_vars => DecisionShape'
<1> SUFFICES ASSUME DecisionShape, [Next]_vars PROVE DecisionShape'
  OBVIOUS
<1>1. ASSUME NEW d, Decide(d), d = Unsupported \/ d.err # "none" \/ d = DecidedOn(gathered)
      PROVE  DecisionShape'
  BY <1>1 DEF Decide, DecidedOn, DecisionShape, Answered
<1>2. CASE Ask
  <2>1. PICK operation \in Operation, mode \in Mode, noRegistry \in BOOLEAN,
             capabilities \in CapabilityLists, policies \in PolicyLists :
               AskOf(operation, mode, noRegistry, capabilities, policies)
    BY <1>2 DEF Ask
  <2>2. \/ Decide(Fails("ErrValidation")) \/ Decide(Fails("ErrNilRegistry"))
        \/ Decide(Unsupported) \/ at' = "loop"
    BY <2>1 DEF AskOf
  <2> QED
    BY <1>1, <2>2 DEF Fails, DecisionShape, Answered
<1>3. CASE NextPolicy
  BY <1>1, <1>3 DEF NextPolicy, DecisionShape, Answered
<1>4. CASE EvaluateConstraints
  BY <1>1, <1>4 DEF EvaluateConstraints
<1>5. CASE WhatHoldsChanges \/ TakeDecision \/ UNCHANGED vars
  BY <1>5 DEF WhatHoldsChanges, TakeDecision, NotDecided, vars, callVars, DecisionShape, Answered
<1> QED
  BY <1>2, <1>3, <1>4, <1>5 DEF Next

(* Every decision passes OperationDecision.Validate, but for an operation    *)
(* without a name.                                                           *)
THEOREM DecisionsAreValid == Spec => []DecisionsValidate
<1>1. Init => DecisionShape
  BY DEF Init, DecisionShape, Answered
<1>2. DecisionShape => DecisionsValidate
  <2>1. Unsupported.status = "unsupported" /\ Unsupported.report = "unevaluated"
    BY DEF Unsupported
  <2> SUFFICES ASSUME DecisionShape, Answered, asked.operation # ""
               PROVE  DecisionIsValid(asked.operation, decided)
    BY DEF DecisionsValidate
  <2>2. CASE decided = Unsupported
    BY <2>1, <2>2 DEF DecisionIsValid
  <2>3. CASE decided.status = "ineligible" /\ decided.report = "unsatisfied"
    BY <2>3 DEF DecisionIsValid
  <2>4. CASE decided.status = "eligible" /\ decided.report = "satisfied" /\ ~decided.reason
    BY <2>4, Zenon DEF DecisionIsValid
  <2> QED
    BY <2>2, <2>3, <2>4, Zenon DEF DecisionShape
<1> QED
  BY <1>1, <1>2, ShapeKept, PTL DEF Spec

=============================================================================
