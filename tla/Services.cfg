SPECIFICATION Spec
CONSTANTS
  \* ModelStream
  RetryMaxAttempts = 1
  MaxTools = 2
  OrderedKinds = TRUE
  MaxChunks = 3
  \* McpManager
  None = None
  Connections = {a, b}
  Servers = {s}
  Services = {v1, v2, v3}
  IdleTtl = 1
  RequestTimeout = 1
  MaxTicks = 3
  MaxRequests = 2
  \* CommandRules
  Words <- MCWords
  MaxWords = 2
  Layerings <- MCLayerings
  \* CommandRun
  Streams = {"stdout", "stderr"}
  Capacity = 1
  MaxLines = 1
  \* SubagentTask
  MaxTurns = 2
  MaxUses = 2
  \* SessionStore
  MaxSessions = 2
  MaxSaves = 2
  MaxRestores = 1
  \* ComboRuns
  BashCalls = {1, 2}
  Terminals = {}
  MaxOutputs = 1
  NoCall = NoCall
  \* ComboReply
  Replies = {1, 2}
  MaxAsks = 2
  MaxTells = 1
  MaxRetries = 1
  MaxAhead = 2
  \* HunkEdits
  Length = 4
  MaxRadius = 1
  DefaultRadius = 1
  \* MessageText
  MaxText = 3
  Widths = {1, 2}
  \* MessageList
  MaxMessages = 3
  MaxRows = 2
  Viewports = {2}
  \* Conversation
  m1 = m1
  m2 = m2
  ProviderLists <- MCProviderLists
  Models = {NoModel, m2}
  NoModel = NoModel
  combo_reply_retries = 1
  MaxHistory = 6
  Responses <- MCResponses
  MaxUpdates = 2
  \* OutputLimit
  Characters <- MCCharacters
  MaxOutput = 2
  Limits = {0, 1, 3, 4, 6, 9}
  BaseLength = 3
  MarkLength = 1
  SuffixLength = 2
  \* OffloadReply
  OffloadResponses <- MCOffloadResponses
  max_turns = 2
  NudgeLimit = 1
  OffloadRetries = 1
  MaxFeedback = 1
  \* ChatFocus
  NoFocus = NoFocus
  MaxShown = 2
  \* CommandPalette
  SessionTimes = {1, 2, 3}
  SwitchLimit = 1
  Offers <- MCOffers
  Themes = {"t1", "t2"}
  NoChoice = NoChoice
  \* AppLoop
  Pictures = {"blank", "p"}
  Cleared = "blank"
  MaxEvents = 2
  \* Notifications
  Settings <- MCSettings
  Letters <- MCLetters
  MaxLetters = 3
  FieldLength = 2
  MaxAge = 5
  Never = Never
  \* Transcripts
  MessagesSeen <- MCMessages
  MaxSaid = 1
  MaxReported = 2
  MaxScopes = 2
  \* TranscriptLayout
  LayoutMessages <- MCLayoutMessages
  LayoutWidths = {0, 1, 2, 3, 5, 8, 11}
  IndentStep = 2
  \* EventStream
  Bodies <- MCBodies
  ConnectRetries = 2
  \* ToolInputs
  ToolSchemas <- MCToolSchemas
  \* ProviderMessages
  OpenAIAnswers <- MCOpenAIAnswers
  BlockAnswers <- MCBlockAnswers
  UsageReports <- MCUsageReports
  NoTokens = NoTokens
  MaxTalk = 5
  MaxAnswers = 2
  \* Configuration
  GlobalFiles <- MCGlobalFiles
  WorkspaceFiles <- MCWorkspaceFiles
  AgentFiles <- MCAgentFiles
  BuiltInAgent <- MCBuiltInAgent
  BuiltInPresets <- MCBuiltInPresets
  DefaultOptions <- MCDefaultOptions
  Missing = Missing
  Unreadable = Unreadable
INVARIANTS
  AnswerIsWhatWasSent
  ServicesAreKept
  NoPathIsUnchecked
  CommandIsOver
  SubagentIsTruthful
  FilesAreRestorable
  RunsAreServed
  RunStaysTogether
  FileIsWhatWasAccepted
  WidgetHasTheText
  ViewIsTheScrolledRows
  ConversationIsKept
  OutputIsCutToFit
  ToolUsesAreAccountedFor
  FocusIsUsable
  PaletteDoesWhatItShows
  ScreenIsKept
  NoticesAreMeant
  TranscriptsAreShown
  AnswersAreRead
  ConfigurationIsLayered
CHECK_DEADLOCK FALSE
