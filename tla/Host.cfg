SPECIFICATION HostSpec
CONSTANTS
  Parts = {"streams", "hooks", "lifecycle", "stores", "history", "desks", "daemons", "screens"}
  \* the server's handlers
  NewUser = "new"
  User = {"root", "bob"}
  Admin = "root"
  DefaultSpace = "team"
  Space = {"team", "lab"}
  Path = {"p"}
  MaxRequests = 2
  MaxFaults = 1
  \* the credentials' caches
  Caller = {"a"}
  Grain = 2
  Margin = 3
  SlowScan = 1
  MaxTick = 4
  MaxChanges = 3
  \* the rate limiter
  Peer = {"p", "q"}
  TrustedProxy = {"q"}
  Bearer = {}
  Visitor = {"v", "w"}
  RequestsPerMinute = 2
  AuthPerMinute = 1
  PerMinute = 2
  IdleAfter = 2
  SweepEvery = 1
  SweepAbove = 1
  LastTick = 3
  MaxBuckets = 3
  MaxPassed = 5
  \* the lockout
  Login = {"l", "m"}
  Address = {"x"}
  Account = {"u"}
  MaxLoginFailures = 2
  MaxAccountFailures = 8
  LockoutWindow = 2
  LockoutDuration = 2
  EvictAbove = 1
  LastMinute = 3
  MaxGuesses = 8
  \* the audit log
  DayLength = 2
  LastTime = 3
  MaxEntries = 3
  MaxLosses = 2
  \* the event hub and the webhooks
  Follower = {"c"}
  MaySee <- EveryTeam
  Wanted <- EveryScope
  Webhook <- TwoHooks
  Topic <- Topics
  Worker = {"w"}
  RingSize = 2
  ChannelSize = 1
  QueueSize = 1
  MaxAttempts = 2
  LetterLimit = 2
  TailLines = 2
  MaxEvents = 3
  MaxVisits = 2
  MaxMishaps = 1
  \* the server's lifecycle
  MaxBegun = 3
  MaxTroubles = 1
  \* the storage backends and their pool
  Driver = {"local", "git", "sql", "s3"}
  Content = {"a", "b"}
  Absent = "none"
  StoreCaller = {"x", "y"}
  MaxStoreCalls = 2
  MaxStoreFaults = 1
  \* snapshots, restores and migrations
  From = {"local", "git", "sql", "s3"}
  Name <- Ordered
  Foreign = {"team2/x"}
  Text = {"a", "b"}
  Nothing = "none"
  MaxJobs = 2
  MaxUpsets = 1
  \* editors
  Cli = {"cli"}
  Tui = {"tui"}
  Console = {"page"}
  Environment = {"code"}
  Installed = {"vim"}
  Terminal = {"vim"}
  Known = {"code"}
  Draft = {"a", "b"}
  NoText = "none"
  MaxOpened = 2
  MaxDirect = 1
  \* the daemon and its agents
  Platform = "linux"
  Interval = {2}
  Shell = {"first", "second"}
  MaxBackoff = 3
  MaxFailures = 2
  MaxLaunched = 2
  \* the terminal screens
  Shelf = {"team", "lab"}
  Sheet = {"p"}
  OnShelf <- Sheets
  MaxAtOnce = 2
CONSTRAINT StillAlone
INVARIANTS
  NothingMissed
  HooksServed
  RequestsServed
  DirectoryTells
  ConnectionsOwned
  MigratedWhole
  EditsKept
  DaemonAlone
  ScreenKeepsUp
PROPERTIES
  SwapsWhatItCompared
  HooksDrain
CHECK_DEADLOCK FALSE
