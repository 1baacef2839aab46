SPECIFICATION Spec
CONSTANTS
  CodexRecords <- Records
  MaxCodexFile = 3
  CodexIngests = {i1, i2}
  CopilotScripts <- SquadScripts
  CopilotIngests = {i1}
  MaxCarves = 2
  Bubbles = {"b1", "b2", "b3"}
  CursorTool <- ToolOf
  OddBubbles = {"b3"}
  MaxConversation = 3
  HookAnchors = {"h1"}
  Checkpoint <- CheckpointPaths
  LegacyRows = {TRUE, FALSE}
  Exchanges = {1, 2, 3, 4}
  Traffic <- Clients
  Dialect <- DialectOf
  Builtins = {"openai", "anthropic"}
  NoName = NoName
  NoId = NoId
  NoCall = NoCall
  MaxEntries = 2
  DropCount = 1
  MaxRestarts = 1
  MaxPauses = 1
  Answers <- Responses
  MaxChunks = 2
  FkOrigins <- Origins
  FkEdits = {"system", "user", "inject", "other"}
  FkReplies <- CallsAndSays
  FkResults = {"r2"}
  NoResult = NoResult
  NoParent = NoParent
  MaxIterations = 2
  MaxOriginSteps = 3
  Stores <- Legacy
  Openers = {p1, p2, py}
  Python = {py}
  MaxOpens = 3
  WtPaths = {"a", "b"}
  WtFirst <- FirstTree
  WtBytes = {"x", "y", "B"}
  WtBig = {"B"}
  WtWalkers = {w1, w2}
  MaxWtSteps = 2
  MaxWtChanges = 3
  MaxUnseen = 1
  MaxWtWork = 4
  TcReplies <- AgentReplies
  TcActions <- AgentActions
  TcCost <- AgentCost
  NoAction <- NothingDone
  MaxTcSteps = 2
  Testers = {p1}
  RgAdded <- NoSearch
  MaxRgJobs = 2
  MaxPgWork = 4
  MaxPgSyncs = 3
  PgLimit = 2
  Contents = {"key", "key and mail", "clean", "binary"}
  TextContents = {"key", "key and mail", "clean"}
  Redacted <- WithoutSecrets
  RulesHit <- SecretRules
  RenderKeys = {"render"}
  RenderOf <- Render
  Putters = {q1, q2}
  BlPieces = 2
  MaxPuts = 3
  MaxAborts = 1
INVARIANTS
  OneProviderPerRun
CHECK_DEADLOCK FALSE
