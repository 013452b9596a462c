SPECIFICATION Spec
CONSTANTS
  Editor = {e1}
  Player = {p1}
  Profile = {f1}
  Registered = {"hotm"}
  Document = {d1}
  PocketSize = {}
  Zero = Zero
  Absent = Absent
  DbMayFail = FALSE
PROPERTY
  DeleteRemovesRows
