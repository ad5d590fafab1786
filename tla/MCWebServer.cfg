CONSTANTS
  p1 = p1
  p2 = p2
  r1 = r1
  r2 = r2
  b1 = b1
  b2 = b2
  Requests = {r1, r2}
  Playlists = {p1, p2}
  BuiltIn = {p1}
  Instance = Instance
  RawTexts <- OneText
  SampleEnv <- Fresh
  MaxRequests = 2
  NoRequest = NoRequest
  NoEdit = NoEdit
  Browsers = {b1, b2}
  Orderly = {b1}
  MaxCalls = 3
  MaxSessions = 3
SPECIFICATION MCSpec
SYMMETRY Symmetry
INVARIANTS
  FoundUnderItsID
  LoginSticks
  TokenStaysGood
  StaleMeansOver
PROPERTIES
  EditsAreWhole
  OthersAsFound
