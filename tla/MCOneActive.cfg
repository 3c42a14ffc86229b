SPECIFICATION Spec
CONSTANTS
  None = None
  server = server
  script = script
  bus = bus
  poll = poll
  Channels = {"BROWSER"}
  LeaseTime = 1
  Limit = 1
  Processes = {server, script}
  Server = server
  Observers = {bus, poll}
  Pollers = {poll}
  Deployments <- MCJustTwoProcesses
  Window = 1
  Expiries = {None}
  MaxVersion = 1
  MaxInbox = 3
  MaxLog = 2
  MaxTime = 2
INVARIANTS OneActive
CHECK_DEADLOCK FALSE
