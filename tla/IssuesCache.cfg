SPECIFICATION Spec
CONSTANTS
  Workers = {w1, w2}
  Tenants = {t1, t2}
  Records = {x1, x2}
  None = None
  Panels = 2
  TTL = 1
  MaxTime = 2
SYMMETRY Interchangeable
INVARIANTS TypeOK AnswersStayInTenant PanelsNest StalenessBounded
