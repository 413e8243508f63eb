SPECIFICATION Spec
CONSTANTS
  r1 = r1
  r2 = r2
  n1 = n1
  t1 = t1
  t2 = t2
  Sessions = {r1, r2}
  Nonces = {n1}
  Tasks = {t1, t2}
  None = None
INVARIANTS TablesMatchTasks FinishReachesPeer
PROPERTIES ReRegisters
CHECK_DEADLOCK FALSE
