SPECIFICATION FairSpec
CONSTANTS
  Worlds = {{"lte"}, {"wifi"}}
  Losses = {"forget", "wifi", "uptime"}
  WifiConfigured = TRUE
  HostIsLiteral = FALSE
  EthProbeFailLimit = 2
  WifiProbeFailLimit = 2
  LanMqttFailLimit = 2
  MaxMishaps = 1
PROPERTIES
  LteTakesOver
  WifiTakesOver
