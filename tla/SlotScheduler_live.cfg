CONSTANTS
  r1 = r1 r2 = r2 h1 = h1 h2 = h2 w = w
  Runs = {r1, r2} Handlers = {h1} Agents = {}
  Watcher = w NoRun = NoRun
  Configs <- OneOrTwo Initial <- OneSlot MaxEdits = 1
  Restored <- OneRestored Recovered = {r1}
SPECIFICATION FairSpec
PROPERTIES EditServesQueue ResumedRunServed
