SPECIFICATION Spec
CONSTANTS
  Tokens = {"fn", "id", "(", ")", "{", "}", "=", ";", "huge"}
  MaxTokens = 5
INVARIANTS TypeOK AcceptedBalanced RecoveryReported
PROPERTY Terminates
