SPECIFICATION Spec
CONSTANTS
  Nobody = "nobody"
  Owner = "owner"
  Successor = "successor"
  KeyUsers = {"p", "q"}
  Keys = {"k", "l"}
  NoKeys = {"x"}
  Feed = "feed"
  Validator = "validator"
  Monitor = "monitor"
  Stranger = "stranger"
  Flags = "flags"
  OtherFlags = "other flags"
  Controllers = {"raising", "other raising"}
  FirstController = "raising"
  Lowering = {"monitor"}
  FlagAnswers <- SomeAnswers
  AnswerBits = 5
  Multiplier = 2
  Thresholds = {1, 2}
  FirstThreshold = 1
  MaxRounds = 3
  Aggregators = {"a", "b"}
  First = "a"
  ProxyAnswers = {5, 6}
  PhaseBits = 2
  RoundBits = 2
  MaxPublished = 2
  ReportBits = 3
  MaxOracles = 4
  Slots = 5
  ObservationLists <- Reported
  Contracts <- SomeContracts
  Proposals <- SomeProposals
  OnchainConfig <- Limits
  VersionBits = 2
  MaxAccepted = 2
  Batches <- SomeBatches
  Budgets <- SomeBudgets
  Messages <- Written
  MaxNumOracles = 4
  FeedIDMaxLength = 2
  Places <- Feeds
  Configs <- FeedConfigs
  Observations <- Observed
  MaxInstalled = 3
INVARIANTS
  RoundTrip
  LeadingFieldsOnly
  LaterFieldsCount
  DigestBinds
  
  
  ReportUnderstood
  FlagTellsDeviation
  ReadersSeeOneFeed
  PresentKeySigns
  SimulatedOnceInOrder
CHECK_DEADLOCK FALSE
