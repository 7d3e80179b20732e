SPECIFICATION Spec
CONSTANTS
  Ingestor = {i1, i2}
  Root = {"acme", "globex"}
  CorpusOf <- MCCorpusOf
  Path = {1, 2}
  Version = {"v1", "v2"}
  Key <- MCKey
  Pieces <- MCPieces
  Contents <- MCContents
  Config = {"650/80", "300/40"}
  Job <- MCJob
  Absent = Absent
  Unreadable = Unreadable
  None = None
SYMMETRY MCSymmetry
INVARIANTS
  TypeOK
  OneConfiguration
PROPERTIES
  RunConverges
  EvidenceKept
  ScopedToCorpus
