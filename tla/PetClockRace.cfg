SPECIFICATION Spec
CONSTANTS
  Users = {u1}
  Pets = {p1}
  Requests = {r1, r2}
  ReportIds = {i1, i2}
  Times = {1}
  MaxEpisodes = 1
  MaxVersion = 2
  MaxDeletions = 0
  MaxReunions = 1
  Failures = FALSE
  Nil = Nil
SYMMETRY Symmetry
INVARIANTS ClockIsNewestSighting
CHECK_DEADLOCK FALSE
