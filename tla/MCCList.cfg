SPECIFICATION FairSpec
CONSTANTS
  Nodes <- FourNodes
  Lists <- TwoLists
  mOrder <- Orders
INVARIANTS
  LinksSpellLists
  IInv
PROPERTIES
  ScanEnds
