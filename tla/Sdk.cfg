SPECIFICATION FairSpec
CONSTANTS
  Host = {h1, h2}
  NoHost = NoHost
  Client = {c1, c2}
  NoClient = NoClient
  Handler = {m1, m2}
  Calls = {"disconnect", "deprovision", "switch"}
  Mail = {"certs", "deprovision"}
  MaxFaults = 2
INVARIANTS
  TypeOK
  OneConnection
  
  OnlyOwnCredentials
PROPERTIES
  
  SessionSpec
CHECK_DEADLOCK FALSE
