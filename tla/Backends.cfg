SPECIFICATION BackendsFairSpec
CONSTANTS
  r1 = r1
  r2 = r2
  r3 = r3
  Requests = {r1, r2, r3}
  Asks <- MCAsks
  Local = {"llama"}
  OpenAI = {"gpt"}
  Anthropic = {"claude"}
  TokenCap = 2
  ChunkCap = 1
  None = None
  QueueCap = 1
  ContextSize = 3
  BatchSize = 2
  Pieces <- MCPieces
  StopSeqs <- MCStopSeqs
  LoadMayFail = TRUE
  MayPanic = TRUE
  MaxTexts = 2
INVARIANTS
  AnswerWhole
  BlameIsRight
PROPERTIES
  CallsEnd
  ImplementsAnswerStream
  NothingAfterPanic
CHECK_DEADLOCK FALSE
