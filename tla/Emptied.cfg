CONSTANT Lexicons <- Patterns
SPECIFICATION MCSpec
INVARIANT FoundAlike
CHECK_DEADLOCK FALSE
