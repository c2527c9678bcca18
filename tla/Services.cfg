SPECIFICATION Spec
CONSTANTS
  \* Catalog
  Backends = {"pg", "sqlite"}
  Pooled = {TRUE}
  Names = {n1}
  Repos = {r1}
  Senders = {"hook"}
  MaxNext = 5
  DefaultPerPage = 1
  MaxPerPage = 2
  AskedPerPage = {0}
  \* Stealth
  Polls = {orchestrator, request}
  Versions = {v1, v2}
  Contents = {c1, c2}
  Passing = {v1}
  StealthConns = {TRUE, FALSE}
  StealthMaxNext = 11
  MaxFaults = 1
  MaxEdits = 1
  \* Todos
  Releases = {"r1", "r2", "q"}
  Semantics = {"s1", "s2"}
  GroupOf <- MCGroupOf
  Users = {u1, u2}
  Times = {1, 2}
  MaxSteps = 4
  \* ReleaseLists
  Srcs = {"s"}
  Vers <- MCVers
  Patterns <- MCPatterns
  RulePattern <- MCRulePattern
  Dates = {1, 2}
  MaxMoves = 4
  \* GithubTokens
  Callers = {k1}
  Syncers = {y1}
  GhRepos = {g1, g2}
  Insts = {i1}
  NoInst = NoInst
  Setups <- MCSetups
  Life = 2
  Margin = 1
  MaxNow = 1
  MaxMoved = 2
  MaxErrs = 1
  \* Onboarding
  Requests = {q1, q2}
  Extractors = {TRUE, FALSE}
  MaxScans = 2
  MaxAttempts = 2
  MaxOutages = 1
  \* Sessions
  Tabs = {t1, t2}
  People = {bob, eve}
  Allowed = {}
  Members = {bob}
  MaxStates = 1
  Ttl = 1
  SessionLife = 1
  MaxClock = 2
  MaxLogins = 2
  MaxKeys = 1
  MaxRestarts = 1
  \* Events
  Clients = {b1, b2}
  Buffer = 1
  MaxEvents = 3
  MaxFailures = 1
  \* Registries
  Providers = {"dockerhub", "github", "ecr-public", "ghcr", "gitlab", "pypi", "npm", "other"}
  Tags = {1, 2, 3}
  DateSets <- MCDateSets
  PageSize = 1
  MaxChanges = 3
  MaxErrors = 1
INVARIANTS NoDangling    NothingOlderPopsUp
    RulesFollowUpgrades TokenUsable  ScanDecided
    PollFaithful
PROPERTIES HonestReply OnlyAskedFor
CHECK_DEADLOCK FALSE
