SPECIFICATION LowerSpec
CONSTANTS
  x = x
  Names = {x}
  Lang = {"var", "expr", "return", "exit", "if", "while", "vloop", "match"}
  MaxStmts = 3
  MaxDepth = 2
  MaxArms = 2
INVARIANTS ModuleVerifies LoweredFlow OperandsResolved
