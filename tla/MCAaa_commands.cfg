SPECIFICATION CommandSpec
CONSTANTS
  Jobs = {j1}
  Workers = {w1, w2}
  MaxCopies = 2
  MaxFaults = 2
  NoOwner = NoOwner
  Gone = Gone
  s1 = s1
  s2 = s2
  p1 = p1
  p2 = p2
  p3 = p3
  p4 = p4
  on = on
  h1 = h1
  h2 = h2
  None = None
  d1 = d1
  a1 = a1
  Unnamed = Unnamed
  Sessions <- TwoSessions
  Packets <- FivePackets
  PacketSession <- OfSession
  TypeOf <- Types
  CountOf <- Counts
  Handlers <- TwoHandlers
  Threshold = 3
  ResetKeys <- OneReset
  Targets <- OneSession
  CommandSession <- ForTheSession
  Disconnects <- OneDisconnect
  Actions <- OneAction
  Scheduler = FALSE
  Commands = {d1, a1, c1}
PROPERTIES
  CommandsAreTaken
CHECK_DEADLOCK FALSE
