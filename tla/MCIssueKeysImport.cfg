CONSTANTS
  Projects = {RFE}
  Sessions = {s1, s2}
  ImportNumbers = {9, 10}
  MaxIssues = 2
  NoSession = NoSession
SPECIFICATION Spec
SYMMETRY SessionSymmetry
INVARIANT ImportSetsNextPastMaximum
