\* Two types, three definitions, three configurations, one write, two registrations
\* at a time.
SPECIFICATION Spec
CONSTANTS
  NoEntry = NoEntry
  DriverType <- Types
  Config <- Configs
  JsonObject <- Objects
  Operations <- OperationSets
  Definition <- Definitions
  MaxWrites = 1
  MaxRegistering = 2
INVARIANTS
  DescriptorsKept
  BoundAsAsked
  ValidationPredictsBind
