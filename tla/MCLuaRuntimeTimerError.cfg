SPECIFICATION Spec
CONSTANTS
  Callers = {h1}
  Operations = {"runGlobal", "runScript", "destroyScript"}
  Scripts = {global}
  Global = global
  Refs = {r1, r2}
  NoRef = NoRef
  MaxTimers = 1
  MaxLocals = 0
  None = None
PROPERTY TimerErrorContained
