SPECIFICATION Spec
CONSTANTS
  BlockSize = 4
  HeaderSize = 1
  Buffer = 3
  MaxChunks = 3
  MaxBlocks = 3
  ImageSectors = 2
  Reserved = 1
  MaxSlots = 1
  MaxTables = 5
  MaxSectors = 2
  MaxCount = 2
  MaxIndex = 1
  system = system
  vendor = vendor
  NoFile = NoFile
  MaxBlock = 3
  MaxLines = 3
  MaxRanges = 2
  Chunk = 2
  MaxPayload = 2
  MaxEntriesOfApk = 2
  MaxDamage = 1
  app = app
  mf = mf
  project = project
  foreign = foreign
  Refused = Refused
  framework = framework
  phone = phone
  TranClass = TranClass
  int = int
  MaxMembers = 2
  Unused = Unused
  MaxEntries <- MCMaxEntries
  FirstSectors <- MCFirstSectors
  DeviceSizes <- MCDeviceSizes
  Names <- MCNames
  Requests <- MCRequests
  EntryNames <- MCEntryNames
  V1Names <- MCV1Names
  Providers <- MCProviders
  Packages <- MCPackages
  Classes <- MCClasses
CHECK_DEADLOCK FALSE
INVARIANTS
  TypeOK
  AcceptedIsSound
  RangeIsSlice
  PartitionIsMapped
  ImageIsTransferred
  SigningIsStable
  AcceptedIsSigned
  ResolutionIsExact
