SPECIFICATION Spec
CONSTANTS
  Nil = Nil
  Requests = {r1, r2, r3}
  c1 = c1
  c2 = c2
  c3 = c3
  f1 = f1
  t1 = t1
  t2 = t2
  Callers = {c1, c2, c3}
  Tenants = {t1, t2}
  CallerTenant <- MCCallerTenant
  Readers = {c1, c2}
  Files = {f1}
  FileTenant <- MCFileTenant
  PolicyRows = {{t1}, {}}
  Keys = {k1}
  TTLs = {0, 2}
  DefaultTTL = 3
  Second = 2
  MaxTime = 3
  MaxFaults = 1
SYMMETRY Symmetry
INVARIANTS
  TypeOK
  AnswersAgree
  TicketWindow
  DeletedNotServed
CHECK_DEADLOCK FALSE
