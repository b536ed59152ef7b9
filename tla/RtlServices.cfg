CONSTANTS
  WordBits = 4
  ByteBits = 2
  BitmapSizes = {1, 3, 4, 6}
  SplayKeys = 4
  NoItem = Off
  SizeModulus = 128
  AclSizes = {7, 28, 48, 90, 126}
  SubCounts = {1, 16}
  Revisions = {1, 2, 3}
  Files <- ExecutableFiles
  Exports <- ExportTable
  PageCells = 2
  ParamsAt = 4
  AceLists <- AceListsToAdd
  TokenBits = 4
  LengthBits = 3
  ChunkSize = 8
  MaskTokens = 4
  Symbols = {0, 1}
  Stray = 2
  InputSizes = {7, 11}
  Capacity = 16
  IoThreads = {t1, t2}
  Handles = {h1, h2}
  Descriptors = {3}
  MaxBlocks = 2
  NoFile = Off
  NsThreads = {t1, t2}
  Tids = {1, 2, 3}
  Addresses = {h1, h2}
  ExitCodes = {0, 7}
  MaxDepth = 2
  None = Off
  Blocks = {1, 2}
  MaxSize = 3
  PageSize = 2
  LastPage = 2
  MaxRegion = 3
  NotMapped = Off
  DiskSizes = {3, 7, 8}
  Lengths = {0, 1, 2, 3, 4, 5, 6, 7, 8, 12, 13}
  Cylinder = 4
  Track = 2
  Keys = {"nt", "setup"}
  ValueNames = {"root", "boot"}
  RegKeys <- ValueTable
  Header <- ValueHeaders
  BufferLengths = {0, 2, 3, 4, 5, 6, 7}
  QueryTables <- QueryTablesUsed
  TickNs = 4
  UsecTicks = 2
  SecUsecs = 4
  Epoch = 16
  Limit = 512
  Intervals <- WaitIntervals
  BootTicks = 11
  LastSecond = 4
  FirstDays = {0, 36100, 109100, 134700, 145700}
  Span = 500
  UshortModulus = 8
  TextLengths = {2, 3, 7}
  Programs <- ProgramNames
  Arguments <- ArgumentTexts
  DeviceNames <- DeviceTexts
  MaxArgs = 3
  Prefix <- VolumePrefix
  LineLength = 10
  CharBytes = 2
  Off = Off
  t1 = t1
  t2 = t2
  h1 = h1
  h2 = h2
SPECIFICATION Spec
INVARIANTS
  BitmapIsExact SearchesAreRight TablesHoldTheirItems ListsStayInside
   VolumeIsFoundOnce TextIsDecoded TextsAreMeant  DiskAnswersAgree
  ValuesFit  StatusIsItsThreads BlocksAreRight RegionsAreRight
PROPERTIES SectionsAreOwned StepsKeepPromises
SYMMETRY Symmetry
CHECK_DEADLOCK FALSE
