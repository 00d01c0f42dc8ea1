SPECIFICATION Spec
CONSTANTS
  Users = {u1}
  Pets = {p1}
  Requests = {r1, r2}
  ReportIds = {i1}
  Times = {1}
  MaxEpisodes = 1
  MaxVersion = 1
  MaxDeletions = 0
  MaxReunions = 1
  Failures = FALSE
  Nil = Nil
SYMMETRY Symmetry
PROPERTIES OnlyListedTransitions
CHECK_DEADLOCK FALSE
