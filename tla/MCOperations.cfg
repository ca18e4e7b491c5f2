\* Seven declarations, every list of at most three of ten policies, two constraints.
SPECIFICATION Spec
CONSTANTS
  c1 = c1
  c2 = c2
  Operation <- OperationNames
  Mode <- ModeNames
  Constraint <- Constraints2
  CapabilityLists <- Declarations
  PolicyLists <- PolicyLists3
INVARIANTS
  DecidedAsDeclared
  PoliciesOnlyRestrict
  ModeOnlyRestricts
  DecisionsValidate
