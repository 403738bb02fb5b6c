SPECIFICATION Spec
CONSTANTS
  DigestSize = 2
  Compression = 2
  MaxLevels = 4
  MaxWrite = 9
  MaxBytes = 32
INVARIANTS
  NoPanic
  EveryBlockVerifies
  DescriptorAgrees
  RootIsMerkleRoot
CHECK_DEADLOCK FALSE
