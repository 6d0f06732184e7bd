SPECIFICATION FairSpec
CONSTANTS
  Callers = {h1}
  Operations = {"runGlobal", "destroyScript"}
  Scripts = {global}
  Global = global
  Refs = {r1, r2, r3}
  NoRef = NoRef
  MaxTimers = 2
  MaxLocals = 0
  None = None
PROPERTIES DestroyedTimersStayDestroyed CallsAnswered ShutdownCompletes TimersTakeTurns
