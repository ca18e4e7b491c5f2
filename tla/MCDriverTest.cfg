\* Fixtures that offer all, lack one thing each, or change what they declare.
SPECIFICATION Spec
CONSTANTS
  MaxInt = 7
  Basis = 2
  NoCurrency = ""
  Currency <- Currencies
  WellFormed <- Currencies
  Upper <- UpperCase
  Namespaced = {"p.card", "p.coupon"}
  Fixtures <- FixtureSet
  Infos <- InfoSet
  Evaluations <- EvaluationSet
  Redeemed <- RedeemedSet
  Reversed <- ReversedSet
  Ids <- IdSet
  Outcomes <- OutcomeSet
  Restored <- RestoredSet
INVARIANTS
  RunIsExact
  PanicsOnlyOnChange
  PassedReversalIsOwn
\* The test ends after its third subtest.
CHECK_DEADLOCK FALSE
