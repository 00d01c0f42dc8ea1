SPECIFICATION Spec
CONSTANTS
  Users = {u1, u2}
  Pets = {p1}
  Requests = {r1}
  ReportIds = {i1, i2, i3}
  Times = {1, 2}
  MaxEpisodes = 2
  MaxVersion = 1
  MaxDeletions = 0
  MaxReunions = 1
  Failures = FALSE
  Nil = Nil
SYMMETRY Symmetry
INVARIANTS ClockIsNewestSighting
CHECK_DEADLOCK FALSE
