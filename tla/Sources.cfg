SPECIFICATION Spec
CONSTANTS
  Alphabets <- MCAlphabets
  MaxLen = 6
  Word = 256
  TabStop = 4
INVARIANTS TypeOK NothingSwallowed WellFormed TokensPointedAt FaultsReported
PROPERTY Tokenised
