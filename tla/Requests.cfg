SPECIFICATION RequestsSpec
CONSTANTS
  None = None
  Gone = Gone
  Nobody = Nobody
  NoRow = NoRow
  NotYet = NotYet
  ann = ann
  bob = bob
  m1 = m1
  m2 = m2
  r1 = r1
  r2 = r2
  w1 = w1
  k1 = k1
  k2 = k2
  Users <- People
  Admin = ann
  Mails <- TwoMails
  Mailers <- OneMailer
  Requests <- TwoRequests
  Configs <- SomeConfigs
  MaxAttempts = 2
  MaxMishaps = 1
  MaxClock = 2
  MaxRequests = 3
  Readers <- Audience
  Creator = "ann"
  Denied <- Barred
  Connected <- Linked
  Runs <- OneRun
  StepLists <- SomeSteps
  MaxEdits = 3
  ChatRequests <- TwoRequests
  Models = {"m1", "m2"}
  Attachments = {"a1"}
  MaxModels = 1
  MaxMessages = 3
  MaxChatServed = 3
  MaxChatDeaths = 1
  Calls <- ProviderCalls
  MaxTries = 3
  MaxRounds = 2
  Role <- Roles
  Team = "team"
  Kbs <- Two
  Docs = {"d1"}
  Slugs = {"a", "b"}
  Policies = {"p", "q"}
  PolicyInputs <- SomePolicies
  Reruns <- TwoRequests
  MaxChanges = 4
  MaxJobs = 2
  Absent = Absent
  Packaged = {"mail"}
  Uploaded = {"mail"}
  Server = "mcp"
  OfferedTools = {"t"}
  Fed = {"mcp"}
  Errands <- TwoRequests
  MaxAltered = 2
  NoValue = NoValue
  Providers = {"own", "shu"}
  Managed = {"shu"}
  LockCreations = FALSE
  ModelRows <- SomeModels
  Shipped = "shipped"
  ModelNames = {"x"}
  Configurations <- Two
  Bases = {"kb"}
  Prompts = {"p"}
  Entities = {"agent"}
  Reads <- SomeReads
  PowerUsers = {"ann"}
  Inputs <- SomeInputs
  Rated = {"shipped"}
  CatalogRequests = {"one"}
  MaxUpdates = 3
  MaxCalls = 1
  Missing = Missing
SYMMETRY Symmetry
INVARIANTS OldSessionsEnd EarlierLinksEnd MailAccountedFor ShownIsTheirs GivenIsKept LibraryAgrees CatalogHolds RoundsAddUp OffStaysOff
CHECK_DEADLOCK FALSE
