SPECIFICATION MCSpec
CONSTANTS
  None = None
  server = server
  script = script
  bus = bus
  poll = poll
  Channels = {"BROWSER"}
  LeaseTime = 1
  Limit = 1
  Processes = {server, script}
  Server = server
  Observers = {bus, poll}
  Pollers = {poll}
  Deployments <- MCDeployments
  Window = 1
  Expiries = {None, 2}
  MaxVersion = 2
  MaxInbox = 2
  MaxLog = 3
  MaxTime = 2
INVARIANTS HistoryExplainsState CooldownKept
PROPERTIES TerminalIsFinal
CHECK_DEADLOCK FALSE
