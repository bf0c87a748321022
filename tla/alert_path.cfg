SPECIFICATION FairPathSpec
CONSTANTS
  Engine = {e1, e2}
  Dispatcher = {d1}
  Channels = 2
  Alerts = {a1}
INVARIANTS
  PathTypeOK
  OneAlertPerWindow
  EveryChannelTried
PROPERTIES
  ReachesEachChannel
