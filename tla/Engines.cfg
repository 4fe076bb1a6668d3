SPECIFICATION Spec
CONSTANTS
  Programs <- MCPrograms
  Lone = {"walked", "compiled", "jitted"}
  Most = 3
INVARIANTS Interchangeable FramesMatchText
PROPERTY BudgetEnds
