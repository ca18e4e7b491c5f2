\* One definition, whose driver declares more than the definition does.
SPECIFICATION Spec
CONSTANTS
  NoEntry = NoEntry
  DriverType <- Types
  Config <- Configs
  JsonObject <- Objects
  Operations <- OperationSets
  Definition <- Excessive
  MaxWrites = 0
  MaxRegistering = 1
INVARIANT
  BoundWithinMaximum
