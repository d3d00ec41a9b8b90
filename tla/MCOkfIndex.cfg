SPECIFICATION Spec
CONSTANTS
  ReservedNames = {"index", "log"}
  NoType = "no type"
  Blank = "blank"
  Embedders <- MCEmbedders
  Directories <- MCDirectories
  Repositories <- MCRepositories
  FetchFactor = 1
  FetchFloor = 2
  MaxRow = 3
  NoDim = 0
  NoEmbedder = NoEmbedder
INVARIANTS
  CurrentIndexed
  HitsMatch
  LinksFollowed
