\* Two handles of one file, each defined with an OTF2 I/O file or without; four
\* events overlap two operations of a location, or leave one open in the first
\* location and complete one in the second.
SPECIFICATION Spec
CONSTANTS
  Handles <- TwoHandles
  FileOf <- OneFile
  ParadigmOf <- TwoParadigms
  Regions = {solve}
  NumLocs = 2
  Ids = {1, 2}
  Results <- MetaOrBytes
  Offsets = {1}
  Whences <- AllSeeks
  Leftovers = {0, 1}
  MaxEvents = 4
INVARIANTS TypeOK TablesAgree AccessesCounted ParadigmTimes SharedSize
