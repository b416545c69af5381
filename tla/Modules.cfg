SPECIFICATION ModSpec
CONSTANTS
  Pools <- Modules
  Lang = {}
INVARIANTS TypeOK OperandsDefined PrintedApart MeaningPreserved TypesKept CallsReachDefinitions
