SPECIFICATION Spec
CONSTANTS
  Names = {"a", "b"}
  Spellings = {"lower", "mixed"}
  Lower = "lower"
  Exprs = {"x", "y"}
  Depth = 2
  MaxFields = 4
INVARIANTS
  TypeOK
  FieldsInPlace
  NoEmptyObject
  NoBlankLeafBeyondLoad
