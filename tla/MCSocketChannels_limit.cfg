SPECIFICATION Spec
CONSTANTS
  c1 = c1
  c2 = c2
  srv = srv
  Families <- MCFamilies
  Clients <- MCClients
  Bound <- MCBound
  Server = srv
  Tuned <- MCTuned
  Limits <- MCLimits
  PacketSize = 2
  MaxCalls <- MCMaxCalls
  MaxPackets <- MCMaxPackets
  MaxSockets = 2
INVARIANT SendLimitHolds
CHECK_DEADLOCK FALSE
