SPECIFICATION Spec
CONSTANTS
  c1 = c1
  c2 = c2
  c3 = c3
  Callers = {c1, c2, c3}
  NoCaller = NoCaller
  IDs = 4
  Window = 3
  AnswersKeepalive = TRUE
SYMMETRY Symmetry
INVARIANTS TypeOK OwnAnswer Reachable
