SPECIFICATION Spec
CONSTANTS
  ChunkSize = 2
  Unit = 64
  Unsafe = {"bad"}
  Inputs <- MCInputs
  Naming <- MCNaming
  Paths <- MCPaths
  Nested <- MCNested
  Contents <- MCContents
  Dicts = {d1, d2}
  PackedSizes = {10, 200}
  OldArchive <- MCOldArchive
  MaxEdits = 2
SYMMETRY MCSymmetry
INVARIANTS OpenMeansWhole ExtractedIsOneReading QuietCreateComesBack NothingUnverified
INVARIANTS TestedMeansExtractable FailureLeavesPrefix SizeBound EditsSparePacked
CHECK_DEADLOCK FALSE
