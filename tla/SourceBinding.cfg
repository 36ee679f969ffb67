SPECIFICATION BindingSpec
CONSTANTS
  Sources = {s1}
  Importers = {w1, w2}
  MaxRevision = 3
  MaxInstant = 4
SYMMETRY ImporterSymmetry
INVARIANTS
  NewestIsMostAdvanced
  ResolutionsAgree
PROPERTIES
  TombstoneFreezesNewest
  BindingsAreARegister
