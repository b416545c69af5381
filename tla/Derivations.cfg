SPECIFICATION DerivingSpec
CONSTANTS
  Tokens <- MCTokens
  MaxTokens = 60
  Lang = {}
  Sources <- MCSources
INVARIANT ParsesGrammar
