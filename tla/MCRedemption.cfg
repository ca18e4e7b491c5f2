\* Two orders, one of them under IDs the provider honours and called for again.
SPECIFICATION Spec
CONSTANTS
  MaxInt = 31
  Basis = 5
  NoCurrency = ""
  Currency <- Currencies
  WellFormed <- Currencies
  Upper <- UpperCase
  Namespaced = {"p.card"}
  Order <- Orders
  RedemptionId <- RedemptionIds
  ReversalId <- ReversalIds
  ProviderId <- ProviderIds
  Mode <- Modes
  Idempotent <- WithIds
  Outcomes <- SomeOutcomes
  MaxCalls = 3
INVARIANTS
  ConclusionsTrue
  HeldIsOwn
PROPERTIES
  ImplementsBenefitUse
\* All operations are concluded, or uncertain for good.
CHECK_DEADLOCK FALSE
