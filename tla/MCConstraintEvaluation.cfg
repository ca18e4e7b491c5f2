\* Two goroutines that both evaluate and both change the registry.
SPECIFICATION EvalSpec
CONSTANTS
  g1 = g1  g2 = g2
  t1 = t1  t2 = t2
  e1 = e1  e2 = e2
  NoEntry = NoEntry
  NoGoroutine = NoGoroutine
  Goroutine = {g1, g2}
  Type <- TwoTypes
  Entry = {e1}
  Registrable <- SomeRegistrable
  ConstraintLists <- Lists
  Answer <- SomeAnswers
SYMMETRY GoroutineSymmetry
INVARIANTS
  EvalTypeOK
  FailsClosed
  ReportAccountsForAll
  JudgedByRegistered
  EvaluatorRunsUnlocked
