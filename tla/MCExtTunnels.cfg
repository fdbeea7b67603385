SPECIFICATION AppSpec
CONSTANTS
  t1 = t1
  t2 = t2
  Tunnels <- OneTunnel
  NoTunnel = NoTunnel
  Configs = {1, 2}
  MaxNotices = 3
  MaxEvents = 4
  MaxOps = 2
  Cards <- TwoTunnels
  Metered <- TwoTunnels
  MaxTraffic = 3
  MaxSamples = 3
  MaxClicks = 4
  Rewriters <- TwoTunnels
  Offset <- OneOffset
  MaxWrites = 2
INVARIANTS BackgroundAgrees RatesAreSane PopupAgrees
PROPERTY LostHostRestarts
CHECK_DEADLOCK FALSE
