\* Three goroutines, any calls in any order, for ever.
SPECIFICATION Spec
CONSTANTS
  g1 = g1  g2 = g2  g3 = g3
  t1 = t1  t2 = t2
  e1 = e1  e2 = e2
  NoEntry = NoEntry
  NoGoroutine = NoGoroutine
  Goroutine = {g1, g2, g3}
  Type <- TwoTypes
  Entry = {e1, e2}
  Registrable <- SomeRegistrable
SYMMETRY GoroutineSymmetry
INVARIANTS
  IInv
  MutualExclusion
  CheckStillHolds
  TypesIsSnapshot
PROPERTIES
  NeverReplaced
  ImplementsAtomic
