CONSTANTS
  Invocations = {a, b, c, d} Limits <- AllLimits
SPECIFICATION FairSpec
INVARIANTS TypeOK NoIdlePlace
PROPERTIES WaiterServed
