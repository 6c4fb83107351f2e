CONSTANTS
  Loads <- MCLoads
  WireValues <- MCWireValues
  WireOps <- MCWireOps
  Texts <- MCTexts
  Signers <- MCSigners
  ExternNames <- MCExternNames
  MaxBlocks = 3
  MaxDepth = 3
SPECIFICATION NestingSpec
INVARIANTS SetsCompareAsSets
