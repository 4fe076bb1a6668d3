CONSTANTS
  Vars = {"a", "b"}
  Boxes = {1, 2, 3, 4, 5, 6, 7, 8, 9, 10, 11, 12, 13, 14, 15, 16, 17, 18, 19, 20, 21, 22, 23, 24}
  Bits = 4
  Commands <- MCCommands
  Missing = Missing
SPECIFICATION MCSpec
VIEW MCView
INVARIANT CountsAreExact
CHECK_DEADLOCK FALSE
PROPERTY ValuesArePlain
