SPECIFICATION Spec
CONSTANTS
  Paths <- HomePaths
  Users = {"alice", "bob"}
  Anonymous = "nobody"
  HomeName = "home"
  DesktopsName = "desktops"
  Texts = {"old", "one", "two", "part"}
  Absent = "absent"
  Folder = "folder"
  NoRules = NoRules
  Clients = {"c1", "c2"}
  UserOf <- MCUserOf
  TextOf <- MCTextOf
  Disks <- HomeDisks
  Part = "part"
  MaxRequests = 2
INVARIANT HomeCopied
INVARIANT RefusedWhole
PROPERTY OnlyCreates
CHECK_DEADLOCK FALSE
