\* The same instance for what definitions.h:405 says of a file opened more than
\* once.
SPECIFICATION Spec
CONSTANTS
  Handles <- TwoHandles
  FileOf <- OneFile
  ParadigmOf <- TwoParadigms
  Regions = {solve}
  NumLocs = 2
  Ids = {1, 2}
  Results <- MetaOrBytes
  Offsets = {1}
  Whences <- AllSeeks
  Leftovers = {0, 1}
  MaxEvents = 4
INVARIANTS SizeCoversFile
