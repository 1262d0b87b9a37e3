SPECIFICATION Spec
CONSTANTS
  Names = {"a", "b"}
  Spellings = {"lower", "mixed"}
  Lower = "lower"
  Exprs = {"x", "y"}
  Depth = 2
  MaxFields = 3
INVARIANTS
  NullIsOmitted
