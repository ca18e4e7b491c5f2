\* Evaluators that may never return, and registry calls of both goroutines meanwhile.
SPECIFICATION EvalFairSpec
CONSTANTS
  g1 = g1  g2 = g2
  t1 = t1  t2 = t2
  e1 = e1  e2 = e2
  NoEntry = NoEntry
  NoGoroutine = NoGoroutine
  Goroutine = {g1, g2}
  Type <- OneType
  Entry = {e1}
  Registrable <- SomeRegistrable
  ConstraintLists <- ShortLists
  Answer <- TwoAnswers
PROPERTIES
  EveryCallReturns
  EvaluationProceeds
  ImplementsPromise
