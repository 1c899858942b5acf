SPECIFICATION Spec
CONSTANTS
  Texts <- MCTexts
  UndefinedString = 4
  NameRefs = {3}
  LocationNames = {3, 4}
  ClassRefs = {1, 2}
  LocationIds = {7}
  MaxNodes = 4
  MaxRoots = 1
INVARIANTS
  NodesCounted
