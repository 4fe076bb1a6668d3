CONSTANT Lexicons <- AllLexicons
SPECIFICATION MCSpec
INVARIANTS ReadersAgree ListsReadBack EnginesAgree IndicesAgree SortsStably
CHECK_DEADLOCK FALSE
