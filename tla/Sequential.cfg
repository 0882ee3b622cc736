SPECIFICATION Spec
CONSTANTS
  Keys = {a, b, c, d, e}
  Values = {p}
  NULL = NULL
  Hashes = {0, 3}
  Caps = {0, 4}
  Ids <- SmallIds
  MaxRows = 2
  InnerFields = {1, 2, 3, 6, 7}
  POOL_PAGE = 8
  HEAP_PAGE = 16
  StringSizes = {0, 2, 6, 7, 8}
  BlockSizes = {1, 8, 16, 20}
  MaxStored = 5
  Files <- SmallFiles
  BuiltIn <- SmallBuiltIn
  NullPtr = NullPtr
  MaxSet = 3
  MaxCalls = 3
  Schema <- SmallSchema
  Known <- SmallKnown
  Inputs <- SmallInputs
  Root = "Root"
  Failed = Failed
  SliceSize = 16
  ArraySize = 64
  WMESSAGE_SIZE = 64
  MaxFields = 2
  MaxSubs = 2
  LuaValues <- SmallValues
  Options <- SmallOptions
  STRBUF_DEFAULT_SIZE = 8
  MaxSets = 2
  Tiles <- SmallTiles
  Deals <- SmallDeals
  Fans = {"qidui", "shisanyao"}
  MaxTurns = 3
  Close = 1
  WinOwn = 2
  WinOther = 3
  MingGang = 2
  AnGangRate = 1
  FanValues = {2}
  Bankers = {2}
  MaxMelds = 2
  MaxWinners = 2
INVARIANT HandReadRight
INVARIANT ScoresBalance
INVARIANT TablesAnswer
INVARIANT StoredApart
PROPERTY SpIsADictionary
INVARIANT OrderDoesNotMatter
 
PROPERTY RoundTrip
PROPERTY TableComesBack
PROPERTY PackComesBack
 
PROPERTY JsonComesBack
PROPERTY JsonBuffers
CHECK_DEADLOCK FALSE
