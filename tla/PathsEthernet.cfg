SPECIFICATION FairSpec
CONSTANTS
  Worlds = {{"eth"}, {"lte"}, {"eth", "lte"}}
  Losses = {"unplug", "silence", "lease", "reset", "reboot", "wrap"}
  WifiConfigured = FALSE
  HostIsLiteral = FALSE
  EthProbeFailLimit = 2
  WifiProbeFailLimit = 2
  LanMqttFailLimit = 2
  MaxMishaps = 1
INVARIANTS
  OneSession
  StaleSessionIsBounced
PROPERTIES
  LteKept
  EthernetComesBack
