SPECIFICATION Spec
CONSTANTS
  Host = {h1, h2}
  NoHost = NoHost
  Client = {c1, c2}
  NoClient = NoClient
  Handler = {m1, m2}
  Calls = {}
  Mail = {"deprovision"}
  MaxFaults = 2
INVARIANT NothingLost
CHECK_DEADLOCK FALSE
