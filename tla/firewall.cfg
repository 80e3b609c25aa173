SPECIFICATION FairSpec
CONSTANTS
  firefox = firefox
  shop = shop
  pictures = pictures
  Hosts = {shop, pictures}
  Apps = {firefox}
  StaticAllow = static_allow
  NoApp = NoApp
  NoHost = NoHost
  StaticAllows <- MCStaticAllows
  Visits <- MCVisits
  Links <- MCLinks
  Options <- MCOptions
  MaxEvents = 2
  MaxFailures = 1
INVARIANTS TypeOK CacheHasOneOwner FirewallIsListed
CHECK_DEADLOCK FALSE
PROPERTY ComesToRest
