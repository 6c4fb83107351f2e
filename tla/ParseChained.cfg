SPECIFICATION ParseSpec
CONSTANTS
  Spelling <- MCSpelling
  ExternNames <- MCExternNames
  Hosts <- MCHosts
  MaxDepth = 3
  Scratch = 8
  MaxBlocks = 3
  MaxBody = 2
  Unsigned = Unsigned
INVARIANTS ComparisonsDoNotChain
