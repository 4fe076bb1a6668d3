CONSTANT Lexicons <- Scripts
SPECIFICATION MCSpec
INVARIANT ContinuationEndsWord
CHECK_DEADLOCK FALSE
