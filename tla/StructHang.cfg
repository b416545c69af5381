SPECIFICATION Spec
CONSTANTS
  Tokens = {"struct", "id", "{", "int"}
  MaxTokens = 5
PROPERTY Terminates
