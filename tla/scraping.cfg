CONSTANTS
  s1 = s1
  s2 = s2
  rtcd1 = rtcd1
  h1 = h1
  h2 = h2
  NoOne = NoOne
  Servers = {s1, s2}
  RtcdNodes = {rtcd1}
  Self = s1
  Hooks = {h1, h2}
  SavedSettings <- SomeSettings
  MaxGlitches = 1
SPECIFICATION FairSpec
INVARIANT ScrapingInv
PROPERTY SingleFollows ClusterFollows SettingsApply
CHECK_DEADLOCK FALSE
