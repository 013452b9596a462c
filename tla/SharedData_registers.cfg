SPECIFICATION Spec
CONSTANTS
  Editor = {e1, e2}
  Player = {p1, p2}
  Profile = {f1}
  Registered = {"garden_chips", "foraging", "time_pocket"}
  Document = {d1}
  PocketSize = {10}
  Zero = Zero
  Absent = Absent
  DbMayFail = TRUE
SYMMETRY Symmetry
INVARIANT
  TypeOK
PROPERTY
  ActsAsRegisters
