SPECIFICATION FairSpec
CONSTANTS
  url = url
  from = from
  shop = shop
  mail = mail
  raw = raw
  home = home
  web = web
  browser = browser
  Vars = {url, from}
  Values = {shop, raw}
  Regexps <- MCRegexps
  Accepts <- MCAccepts
  Broken = {"bad"}
  Clean <- MCClean
  Programs = {browser}
  NoProgram = NoProgram
  Domains = {home, web}
  Covers <- MCCovers
  LoopLists <- MCLoopLists
  RuleLists <- MCRuleLists
  NoTransition = NoTransition
INVARIANTS TypeOK FirstRuleDecides
PROPERTY SearchEnds
CHECK_DEADLOCK FALSE
