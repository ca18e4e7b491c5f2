\* Three goroutines that register the built-ins and use the registry, for ever.
SPECIFICATION BuiltinFairSpec
CONSTANTS
  g1 = g1  g2 = g2  g3 = g3
  t1 = t1  t2 = t2
  b1 = b1  b2 = b2  e1 = e1
  NoEntry = NoEntry
  NoGoroutine = NoGoroutine
  Goroutine = {g1, g2, g3}
  Type = {t1, t2}
  Entry = {b1, b2, e1}
  Registrable <- AllRegistrable
  Builtins <- TwoBuiltins
  OtherCalls <- SomeCalls
INVARIANTS
  BuiltinsInOrder
PROPERTIES
  EveryCallEnds
