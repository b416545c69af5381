SPECIFICATION Spec
CONSTANTS
  Names = {"x", "y", "f", "g", "h"}
  Builtins = {"g"}
  Types = {"i32", "i64", "str"}
  IntTypes = {"i32", "i64"}
  Pools <- AllPools
  MaxDepth = 5
INVARIANTS TypeOK NamesChecked PassesAgree TypesChecked
