SPECIFICATION ModSpec
CONSTANTS
  Pools <- Forward
  Lang = {"forward"}
INVARIANT CallsReachDefinitions
