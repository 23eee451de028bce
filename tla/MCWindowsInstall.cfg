CONSTANTS
  Operators = {op1}
  Recipes = {r1, r2}
  Autostart = TRUE
  None = None
SPECIFICATION Spec
INVARIANTS TypeOK UnmarkedDiskSettled MarkerNamesRecipe FinalizedLeavesNoInstaller
PROPERTY ImplementsLifecycle
