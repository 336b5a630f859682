SPECIFICATION PartsSpec
CONSTANTS
  None = None
  Sites = {s1}
  Bases = {app}
  Branches = {main, feat}
  Unusable = {}
  Ports = {5432}
  DefaultPort = 5432
  Clients = {c1}
  Watcher = watcher
  Writes = {w1}
  Attached <- MCAttached
  Trunk = main
  Requests = {"switch"}
  Faults = {"session", "outage", "crash", "savefail"}
  Names = {a, b}
  Engines = {v1}
  MaxPort = 2
  Partial = Partial
  ServicesFaults = {"save", "spawn", "exit", "kill", "foreign"}
  Conns = {c1, c2}
  Users = {blog}
  Addrs = {x}
  MaxMail = 2
  MaxClock = 1
  MailFaults = {"hangup", "binary"}
  Pauses = {p1, p2}
  Tokens = {t1, t2}
  Posts = {d1, d2}
  Viewers = {w1}
  RingCap = 1
  ChannelCap = 2
  DumpsFaults = {"resume", "clear"}
  Calls = {r1, r2}
  Pages <- MCPages
  Roots <- MCRoots
  Workers = 1
  Backlog = 1
  MaxChunks = 2
  GatewayFaults = {"die", "restart"}
  Clis = {c1, c2}
  Hosts = {"h1", "h2"}
  DefaultHost = "h1"
  Urls = {"u1", "u2"}
  DefaultUrl = "u1"
  WithToken = {}
  EnvToken = "env"
  CliCommands = {"login", "logout", "use", "keel login", "keel logout", "keel use"}
  MaxPolls = 1
  MaxKeys = 1
  CliFaults = {"network", "crash"}
  Empty = Empty
  Half = Half
  Tlds = {"test", "dev", "localhost"}
  Native = {"localhost"}
  Servers = {"known", "other"}
  SetupCommands = {"setup", "setup --no-ports", "takeover", "unsetup", "untakeover", "resolution hosts",
                   "resolution resolver", "trust", "untrust", "daemon install", "daemon uninstall",
                   "start", "stop", "reload"}
  JobStates = {"none", "loaded"}
  SiteNames = {"none", "fine"}
  SetupEvents = {"hand", "upgrade", "reboot", "tld", "sites", "quit"}
  SetupFaults = {"deny"}
  MaxCommands = 2
  Projects <- MCProjects
  Fans = {c1}
  NodeVersions = {"18", "20"}
  Ranges = {"^20 || 18", "*"}
  FirstOf <- MCFirstOf
  Managers <- MCManagers
  Forced <- MCForced
  PathNode = "path"
  PhpLines = {"8.4"}
  PathPhp = {}
  Exts = {"xdebug", "spx"}
  Zend = {"xdebug"}
  Linking = {"spx"}
  Lines = {"live"}
  PhpClis = {c1, c2}
  MaxBrews = 2
  PhpCommands = {"install", "upgrade", "uninstall", "ext-install", "ext-uninstall", "fix"}
INVARIANTS LiveDataFindable Durable QueuedKept HeldUntilResumed NoLeak SeesAll
INVARIANTS CleanIsReachable BlockGone AnswerWhole TokensHome
PROPERTY ToolsMatch
CHECK_DEADLOCK FALSE
