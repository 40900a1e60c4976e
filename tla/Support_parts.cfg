SPECIFICATION MCSpec
CONSTANTS
  root = root
  ab = ab
  no = no
  x1 = x1
  x2 = x2
  X = X
  Loggers = {t1, t2}
  Configurer = configurer
  Names = {root, ab}
  Root = root
  ParentOf <- MCParentOf
  NoName = no
  Appenders = {x1, x2}
  NameOf <- MCNameOf
  NoAppender = none
  Levels = {300, 600}
  NOTSET = 800
  EventLevels = {600}
  Threshold <- MCThreshold
  Filters <- MCFilters
  Files <- MCFiles
  MaxChanges = 2
  MaxLogs = 1
  FileNames <- MCFileNames
  MaxLogged = 8
  MaxCrashes = 2
  MaxFileSize = 2
  SizeOf <- MCSizeOf
  MaxBackupIndex = 3
  MaxDaily = 3
  MaxTime = 4
  DayLength = 2
  MaxDay = 3
  DateOf <- MCDateOf
  MaxDaysToKeep = 1
  Buffers = {b1, b2}
  BufferSize = 2
  MaxMailed = 3
  Symbols <- MCSymbols
  Writers = {1, 2}
  Patterns <- MCPatterns
  CategoryNames <- MCCategoryNames
  Contexts <- MCContexts
  Pieces <- MCPieces
  LinePriorities = {99, 600}
  MaxSteps = 5
  Senders = {1, 2}
  MAX_PACKET = 6
  MessageLengths = {0, 2, 3, 7}
  EventPriorities = {100, 600}
  MaxSent = 1
  MaxReopens = 1
  Letters <- MCLetters
  FileTexts <- MCFileTexts
  LINE_SIZE = 6
  Environment <- MCEnvironment
  Tests = {"t1", "t2"}
  SuiteOf <- MCSuiteOf
  HasFixture <- MCHasFixture
  AnySuite = AnySuite
  MaxMacros = 2
  RequireAsserts = FALSE
  ResultIds = {1, 2}
  MaxPublished = 3
  MaxWait = 2
  MAX_WORK_METHODS = 5
  MAX_EVENT_METHODS = 2
  Plans <- MCPlans
  MaxPeriods = 2
  UINT_MAX = 5
  Periods = {0, 2}
  ClientSets = TRUE
  MethodChanges = TRUE
INVARIANTS
  OnlyLiveAppenders HeardAsAttached BackupsInOrder DaysKept LossyMailedOnce LinesAsConfigured
  MessageInPackets LoadedAsMeant CountsAgree ChecksHold OwnItem
PROPERTIES
  NotBeforePeriod LogReturns MailShutdownReturns MailsGoOut SuccessReceived
CHECK_DEADLOCK FALSE
