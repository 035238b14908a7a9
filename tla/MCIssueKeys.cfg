CONSTANTS
  Projects = {RFE}
  Sessions = {s1, s2}
  ImportNumbers = {9, 10}
  MaxIssues = 4
  NoSession = NoSession
SPECIFICATION Spec
SYMMETRY SessionSymmetry
INVARIANTS TypeOK ReservationFresh NoReissue GapsAreFailedForms
