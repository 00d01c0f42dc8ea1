SPECIFICATION Spec
CONSTANTS
  Users = {u1}
  Pets = {p1}
  Requests = {r1}
  ReportIds = {i1, i2}
  Times = {1}
  MaxEpisodes = 2
  MaxVersion = 2
  MaxDeletions = 0
  MaxReunions = 1
  Failures = FALSE
  Nil = Nil
SYMMETRY Symmetry
INVARIANTS AtMostOneOpenEpisode
CHECK_DEADLOCK FALSE
