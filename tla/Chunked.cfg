SPECIFICATION ServersSpec
CONSTANTS
  Parts = {"chunked"}
  Handles = {h1, h2, h3}
  Refs = {root, r1, r2, r3, r4, r5}
  Root = root
  NoRef = NoRef
  Names <- MCNames
  RootName = "root"
  Key <- MCKey
  TextLen <- MCLen
  MaxDirty = 3
  Count = 8
  Margin = 2
  MinRoom = 2
  Readbuf = 4
  Contents <- MCContents
  Watch <- MCWatch
  Calls <- MCCalls
  Responses <- MCResponses
  BodyOf <- MCBodyOf
  ChunksOf <- MCChunksOf
  SizeOf <- MCSizeOf
  MaxChunk = 8
  SizeLine = 9
  Owners = {o}
  Workers = {u, v, w}
  Addresses = {x, y}
  None = None
  Written = {"<a>", "a", "b"}
  Normal <- MCNormal
  MaxRcpts = 2
  MaxBody = 2
  Messages <- MCMessages
  MaxConnections = 2
  Conversations <- MCConversations
  Chain <- MCChain
  MaxPost = 3
  MaxHeaders = 3
  RingRoom = 6
  HttpReadbuf = 3
  Prompt <- MCPrompt
  Characters = {"x", " "}
  BufferSize = 9
  WSize = 6
  HeadMargin = 4
  TailMargin = 3
  ScrollStep = 1
  WordFrom = 1
  WordWithin = 4
  HistoryMax = 2
  Histories <- MCHistories
  MaxKeys = 5
  MaxMessages = 1
  Objects = {p, q}
  Accepters = {p}
  Codecs = {c}
  MaxFd = 2
  MaxOpened = 3
  MaxTwins = 1
  Free = Free
  NoCodec = NoCodec
  Readers = {t}
  Configs <- MCConfigs
  IniTexts <- MCIniTexts
  Watchers <- MCWatchers
  MaxLoads = 2
  MaxClock = 2
INVARIANT ChunkedComplete
CHECK_DEADLOCK FALSE
