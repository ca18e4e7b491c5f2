\* One policy at most: enough to meet an operation without a name.
SPECIFICATION Spec
CONSTANTS
  c1 = c1
  c2 = c2
  Operation <- OperationNames
  Mode <- ModeNames
  Constraint <- Constraints2
  CapabilityLists <- Declarations
  PolicyLists <- PolicyLists1
INVARIANT
  OperationArgumentChecked
