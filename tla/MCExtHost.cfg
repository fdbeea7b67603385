SPECIFICATION Spec
CONSTANTS
  t1 = t1
  Tunnels <- OneTunnel
  Configs = {1, 2}
  Prefix <- LongPrefix
  Slots = {1, 2}
  MaxNotices = 2
PROPERTIES ImplementsDoc HostedRecovers
CHECK_DEADLOCK FALSE
