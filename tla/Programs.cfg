SPECIFICATION FlowSpec
CONSTANTS
  Names = {x}
  Lang = {"var", "assign", "expr", "return", "exit", "afterexit", "block", "if", "while", "count", "for", "match", "bare", "break", "continue"}
  MaxStmts = 3
  MaxDepth = 3
  MaxArms = 2
INVARIANTS TypeOK TerminatorDiscipline TargetsOpened LabelsUnique FlowPreserved DefinitionsDominate NamesResolved
