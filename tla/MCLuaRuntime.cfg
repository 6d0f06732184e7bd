SPECIFICATION Spec
CONSTANTS
  Callers = {h1, h2}
  Operations = {"runGlobal", "runScript", "destroyScript"}
  Scripts = {global, s1}
  Global = global
  Refs = {r1, r2, r3}
  NoRef = NoRef
  MaxTimers = 1
  MaxLocals = 1
  None = None
SYMMETRY RuntimeSymmetry
INVARIANTS TypeOK NoLostWakeup CallsAccounted OwnersExist RegistryOwned
PROPERTY CallsSpec
