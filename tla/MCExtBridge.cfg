SPECIFICATION ForwardSpec
CONSTANTS
  s1 = s1
  s2 = s2
  NoStream = NoStream
  Streams = {s1, s2}
  Ids = {1, 3}
  IdOf <- TwoSessions
  Requested <- Upgrades
  MaxChunks = 2
  MaxQueued = 1
  Talks <- OneWord
  MaxFrames = 1
INVARIANT FramesStayInTunnel
CHECK_DEADLOCK FALSE
