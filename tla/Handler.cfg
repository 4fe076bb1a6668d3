CONSTANT Lexicons <- Lists
SPECIFICATION MCSpec
INVARIANT ArgumentsQuoted
CHECK_DEADLOCK FALSE
