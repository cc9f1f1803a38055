SPECIFICATION ServicesSpec
CONSTANTS
  None = None
  Absent = Absent
  Lost = Lost
  NoState = NoState
  NoValue = NoValue
  Remotes = {"gdrive", "gmail", "gcal", "outlookMail", "outlookCal", "teams"}
  Items <- Two
  Limit = 1
  MaxEdits = 3
  MaxSnags = 1
  Processes = {"p1"}
  Calls <- Two
  Grant = 2
  Periods = {1, 2}
  MaxOutages = 2
  MaxSpent = 4
  Missing = Missing
  Unset = Unset
  Word = Word
  Raw = Raw
  Error = Error
  k1 = k1
  k2 = k2
  k3 = k3
  r1 = r1
  r2 = r2
  Members = {1, 2, 3}
  Operations <- Two
  Enforcements = {"hard", "soft", "none"}
  Seated = {1, 2}
  Bought = 2
  MaxOperations = 4
  MaxCycles = 1
  MaxMishaps = 1
  NoSeat = NoSeat
  Kbs <- Three
  Creators <- Two
  Servers = {"s1"}
  Owners = {"o1"}
  Names = {"n1", "n2"}
  KbCap = 2
  Batches = 2
  MaxServed = 3
  MaxDeaths = 1
  NoBase = NoBase
  Docs <- Two
  Uploads = {"u1", "u2"}
  DocCap = 1
  MaxUploads = 3
  MaxDeletes = 2
  NoUpload = NoUpload
  Users = {"u1"}
  RunIds <- Three
  Schedulers <- Two
  Workers <- Two
  MaxAttempts = 2
  MaxTicks = 2
  MaxSetbacks = 2
  Nobody = Nobody
  Exchanges <- Two
  Runs = {"x"}
  Plugins <- Digests
  Needs <- ReadAndSend
  Consents <- Grants
  MaxRuns = 2
  MaxTroubles = 1
  Reporters <- Two
  Months = {1, 2}
  MaxUsage = 2
  MaxReports = 3
  MaxLosses = 1
  NoPeriod = NoPeriod
  Checks <- Two
  Editors = {"e1"}
  Ttl = 2
  MaxTime = 2
  MaxChanges = 2
  MaxAsked = 3
  MaxFailures = 1
  Tenants = {1, 2}
  Sources <- Order
  Throttled = {"usage"}
  Interval = 2
  Backoff = 1
  MaxRounds = 3
  Keys = {"key"}
  Numbers = {0, 1}
  Lives <- Spans
  CleanupInterval = 2
  MaxMoment = 4
  Requests <- Two
  Costs = {1, 2}
  Capacity = 2
  Window = 2
  MaxClock = 3
  MaxAsks = 3
  MaxHitches = 1
  Invocations <- Two
  PluginOperations <- TwoOperations
  MaxCalls = 2
  MaxEvents = 1
  Lacking = Lacking
SYMMETRY Symmetry
INVARIANTS CallsAccounted StateIsCurrent NotOverbilled SeatsAddUp WithinCaps NoTenantLeftBehind ActiveIsInHand CursorMeansSynced SameAnswers WithinCapacity LastDecisionStands EditIsSeen
CHECK_DEADLOCK FALSE
