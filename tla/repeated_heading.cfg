SPECIFICATION Spec
CONSTANTS
  Ingestor = {i1}
  Root = {"acme", "globex"}
  CorpusOf <- MCCorpusOf
  Path = {1, 2}
  Version = {"v1", "v2"}
  Key <- MCKey
  Pieces <- MCRepeatedPieces
  Contents <- MCContents
  Config = {"650/80", "300/40"}
  Job <- MCOneJob
  Absent = Absent
  Unreadable = Unreadable
  None = None
PROPERTIES
  EveryPieceIndexed
