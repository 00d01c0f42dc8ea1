SPECIFICATION Spec
CONSTANTS
  Users = {u1, u2}
  Pets = {p1}
  Requests = {r1}
  ReportIds = {i1, i2}
  Times = {1}
  MaxEpisodes = 2
  MaxVersion = 2
  MaxDeletions = 1
  MaxReunions = 2
  Failures = TRUE
  Nil = Nil
SYMMETRY Symmetry
INVARIANTS TypeOK CurrentIsNewest FoundWithinReunions
PROPERTIES ImplementsContract
CHECK_DEADLOCK FALSE
