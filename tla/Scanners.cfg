SPECIFICATION Spec
CONSTANTS
  Page = 8
  Files <- MCFiles
  Intact <- MCIntact
  Slots <- MCSlots
  Nodes <- MCNodes
  Layouts <- MCLayouts
  Initially <- MCInitially
  MaxOps = 2
  Queries <- MCQueries
  LocalBase = 512
  BufferWords = 17
INVARIANTS PathIsRight  RemoteSymbolRight InfosTruthful WalkWhole
