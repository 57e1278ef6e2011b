\* The components around the lifecycle, each on a small instance of its own.
SPECIFICATION DeskSpec
CONSTANTS
  Desks = {"policy", "market data", "drafts", "alerts", "web", "schema", "previews", "signals",
           "reports", "catalogue", "views"}
  Unit = 100
  Grain = 2
  Base <- BaseDoc
  Profiles <- MCProfiles
  ModeOverrides = {"", "semi_auto", "manual_only"}
  Snapshots <- MCSnapshots
  SeedEstimates <- Seed
  MaxDrafts = 1
  Clients = {c1, c2}
  StaleAfter = 1
  Skew = 0
  MaxAttempts = 2
  MaxClock = 2
  MaxStored = 2
  MaxEmptyFrames = 1
  Drafters = {d1, d2}
  Markets = {"m1", "m2"}
  Quotes <- DeskQuotes
  DraftRules <- DeskRules
  DraftLimit = 2
  MaxProposals = 2
  AlertWriters = {w1, w2}
  CatalogueMarkets <- DeskMarkets
  TrackedCategories = {"politics"}
  TrackedKeywords = {"iran"}
  LiquidityThreshold = 50
  ResolvingSoonDays = 7
  EnabledAlertTypes = {"high_liquidity_market", "resolving_soon_market", "potential_context_market"}
  EntityAlerts <- DeskEntityAlerts
  MaxAlerts = 2
  Servers = {s1, s2}
  Browsers = {b1, b2}
  LoginKeys = {k1, k2}
  OperatorKeys = {k1}
  MaxFailedAttempts = 1
  MaxRevocations = 1
  MaxRows = 2
  MaxRestarts = 1
  MaxRequests = 3
  Starters = {p1, p2}
  MaxStarts = 3
  Previewers = {p1, p2}
  RowWriters = {w1, w2}
  GatewayModes = {"disabled", "enabled"}
  LimitPrices = {40, 43}
  QuotedPrices = {41}
  MaxPreviews = 2
  MaxChanges = 2
  StrategyConfigs <- DeskStrategies
  FeatureSnapshots <- DeskFeatures
  Analysts = {a1}
  Reported <- DeskReported
  Orders <- DeskOrders
  MaxReported = 2
  MaxReports = 1
  Readers = {r1}
  Venue <- DeskVenue
  Queries <- DeskQueries
  BatchLimit = 3
  MaxMoves = 2
  NumberTexts <- DeskNumbers
  SwitchTexts <- DeskSwitches
  FloatTexts <- DeskFloats
  PointTexts = {"20.0", "2.50", "2.5", "-0.5", "0.00001", "1.5e-05"}
  NegativeFloats = {"-0.5"}
  ViewUsers = {u1}
  ViewNames = {"catalog-markets-default", "v1"}
  CatalogueRequests <- DeskCatalogueRequests
  WebSaves <- DeskWebSaves
  CliSaves <- DeskCliSaves
  ViewEdits <- DeskViewEdits
INVARIANTS
  SemiAutoIsStrict SizesRespectLimits PriceMoveRefusesOnlyAnEdge
  CacheRegressIsBounded
  DuplicatesComeFromOverlap
  MarketAlertedOnce
  SurvivorsOverlapped RememberLossExplained GuessesBounded
  ReadyFindsItsTables FreshOkIsSound
  BetterMarketsSignalMore OppositeSidesExplained
  UnknownIsNewer PraiseExplained PagesPartition SavedViewsKeepTheirFilter
PROPERTIES
  RefreshesEnd ClosedStaysClosed
CHECK_DEADLOCK FALSE
