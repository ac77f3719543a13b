SPECIFICATION AccountSpec
CONSTANTS
  Tabs = {q1, q2}
  SessionDays = 1
  GraceDays = 1
  LastDate = 3
  MaxSignIns = 2
  MaxTokens = 3
  MaxAccounts = 2
  MaxLost = 1
  Senders = {q1, q2}
  Guessers = {q1, q2}
  CodeLimit = 2
  CodeAttempts = 2
  CodeTTL = 1
  SendWindow = 2
  LastMinute = 3
  MaxSends = 4
  Calls = {q1, q2}
  McpCodeTTL = 1
  McpTTL = 3
  RefreshGrace = 2
  PruneAfter = 1
  LastTick = 4
  MaxSecrets = 3
  MaxGrants = 1
  Copies = {q1, q2}
  CopyRun = 1
  StaleAfter = 1
  KeptFor = 3
  LastInstant = 6
  Cuts = 1
  Viewers = {q1, q2}
  Aired = 2
  MaxViews = 3
  Absent = Absent
  Writers = {q1, q2}
  Texts = {t1, t2}
  MaxWritings = 4
  NoText = NoText
  Clerks = {q1, q2}
  Notes = {n1}
  Folders <- MCFolders
  Wild = {"_"}
  Wide = {"w"}
  MaxErrands = 3
  Uploaders = {q1, q2}
  MaxUploads = 4
  Loggers = {q1, q2}
  MostVariables = 2
  PageSize = 1
  Instants = {1, 2}
  MaxEntries = 3
  MaxLoggings = 3
  Chatters = {q1, q2}
  MaxChats = 2
  MaxSessions = 1
  ToolRounds = 3
  Window = 8
  HourlyCap = 1
INVARIANTS
  SignInsHold
  ReturnKeepsAccount
  CodesBounded
  GraceHolds
  AppliedOnce
  WatchedAsTold
  PageWhole
  NotesKept
  FilesMatchRows
  EventsHold
  HistoryTellsAll
  ChatsHold
SYMMETRY Alike
CHECK_DEADLOCK FALSE
