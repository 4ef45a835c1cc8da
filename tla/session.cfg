SPECIFICATION Spec
CONSTANTS
  ann = ann
  ben = ben
  q1 = q1
  q2 = q2
  q3 = q3
  NoOne = NoOne
  Users = {ann, ben}
  Slots = {q1, q2, q3}
  MaxSignIns = 2
SYMMETRY Symmetry
CHECK_DEADLOCK FALSE
INVARIANTS ShownIsWhoActs StuckOnlyAfterSignOut
PROPERTIES ExpiryIsSaidOnce

