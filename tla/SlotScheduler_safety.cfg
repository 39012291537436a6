CONSTANTS
  r1 = r1 r2 = r2 h1 = h1 h2 = h2 w = w
  Runs = {r1, r2} Handlers = {h1, h2} Agents = {h1}
  Watcher = w NoRun = NoRun
  Configs <- OneSlot Initial <- OneSlot MaxEdits = 0
  Restored <- NoRestored Recovered = {}
SPECIFICATION Spec
INVARIANTS TypeOK SlotsAccounted WorkWithinLimit ClaimsSettled NoLostWakeup
PROPERTIES LaunchOrder
