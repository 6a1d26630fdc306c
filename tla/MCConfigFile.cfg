CONSTANTS
  Key = {k1, k2}
  Val = {u, v}
  Comment = Comment
  Junk = Junk
  Spoiled = Spoiled
  Absent = Absent
  Remains <- MCRemains
  MaxLines = 3
SPECIFICATION Spec
SYMMETRY MCSymmetry
INVARIANTS TypeOK SavedIsReadUnlessJoined OthersKept NoSecondLine
