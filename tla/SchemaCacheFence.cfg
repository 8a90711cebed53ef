SPECIFICATION Spec
CONSTANTS
  Keys = {catalogScope}
  Callers = {c1}
  Flights = {f1, f2}
  Scripts = {ddl}
  MaxChanges = 2
  MaxEpoch = 1
  None = None
INVARIANT NoStaleAnswerKept
