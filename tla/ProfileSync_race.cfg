SPECIFICATION Spec
CONSTANTS
  Viewer = {r1}
  Editor = {e1}
  Player = {p1}
  Profile = {f1, f2}
  Registered = {"time_pocket"}
  Document = {}
  PocketSize = {10}
  Zero = Zero
  Absent = Absent
  DbMayFail = FALSE
  MaxVersion = 2
PROPERTY
  KnownProfilesKeepData
