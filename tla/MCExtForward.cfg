SPECIFICATION ForwardSpec
CONSTANTS
  s1 = s1
  s2 = s2
  NoStream = NoStream
  Streams = {s1}
  Ids = {1, 3}
  IdOf <- JustOne
  Requested <- AllRequests
  MaxChunks = 2
  MaxQueued = 2
  Talks <- SomeTalks
  MaxFrames = 1
INVARIANTS  MessagesWhole
PROPERTIES BridgeEndsTogether LeftRequestCloses
CHECK_DEADLOCK FALSE
