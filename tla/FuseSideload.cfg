SPECIFICATION Spec
CONSTANTS
  BlockSize = 2
  FileSize = 5
  Bytes <- const_Bytes
  Zero = 0
  Memory <- const_Memory
  Required = 8
  PointerSize = 1
  Word32 = 64
  Word64 = 256
  NoHash = NoHash
  Nothing = Nothing
INVARIANTS
  RepliesAgree
  CacheFaithful
