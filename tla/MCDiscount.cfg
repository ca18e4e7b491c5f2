\* Six-bit amounts, three currencies, calculated and made-up effects.
SPECIFICATION Spec
CONSTANTS
  MaxInt = 31
  Basis = 5
  NoCurrency = ""
  Currency <- Currencies
  WellFormed <- GoodCurrencies
  Upper <- UpperCase
  Amount <- Amounts
  LaterAmount <- LaterAmounts
  BasisPoint <- BasisPoints
INVARIANTS
  ValidateIsExact
  PercentageIsFloor
  CalculatedResolves
  ResolvedIsSettled
