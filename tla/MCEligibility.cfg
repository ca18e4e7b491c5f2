\* Three instants, ten sets of facts, twelve lists of at most two constraints.
SPECIFICATION Spec
CONSTANTS
  MaxInt = 31
  NoCurrency = ""
  Currency <- Currencies
  WellFormed <- GoodCurrencies
  Upper <- UpperCase
  Zone <- Zones
  DayOf <- Days
  Trim <- Trimmed
  MaxTime = 3
  Registered <- Types
  Facts <- AllFacts
  Constraint <- AllConstraints
  Benefits <- Lists
  Inputs <- AllInputs
INVARIANTS
  EligibleHolds
  PinnedIsOneInstant
  StatusIsWindow
  ResultsAgree
PROPERTY
  StatusNeverRegresses
