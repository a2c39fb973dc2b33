SPECIFICATION Spec
CONSTANTS
  MetadataSize = 2
  Requests <- MCRequests
  Wipes <- MCWipes
  Layouts <- MCLayouts
  Superblocks <- MCSuperblocks
  Passwords <- MCPasswords
  Trees <- MCTrees
  Parities <- MCParities
  CryptTargets <- MCCryptTargets
  VerityTargets <- MCVerityTargets
  IntegrityTargets <- MCIntegrityTargets
  UintBits = 5
  UnsignedBits = 20
  MetadataSizes = {4, 5}
  MaxKeyslotsSize = 12
  KeyfileMax = 8
  FirstBuffer = 3
  BufferStep = 4
  ManyKeys = 2
  Formats <- MCFormats
  KeyFiles <- MCKeyFiles
  LoopKeyFiles <- MCLoopKeyFiles
  Splits <- MCSplits
  Metadata <- MCMetadata
INVARIANTS
  BlockIOExact
  BitlkReadable
  VeritySound
  TableReadBack
  KeysRead
  MetadataSound
