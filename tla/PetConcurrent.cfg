SPECIFICATION Spec
CONSTANTS
  Users = {u1, u2}
  Pets = {p1}
  Requests = {r1, r2}
  ReportIds = {i1}
  Times = {1}
  MaxEpisodes = 2
  MaxVersion = 1
  MaxDeletions = 1
  MaxReunions = 1
  Failures = FALSE
  Nil = Nil
SYMMETRY Symmetry
INVARIANTS PaidOnce NoManagerCredited ReferencesLive StartedWithinOpened
PROPERTIES ClockFallsOnlyOnRecompute
CHECK_DEADLOCK FALSE
