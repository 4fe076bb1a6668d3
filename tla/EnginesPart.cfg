SPECIFICATION Spec
CONSTANTS
  Programs <- MCStrays
  Lone = {"walked", "compiled", "jitted"}
  Most = 3
INVARIANTS Interchangeable
