SPECIFICATION Spec
CONSTANTS
  Paths <- MCPaths
  Users = {"alice", "bob"}
  Anonymous = "nobody"
  HomeName = "home"
  DesktopsName = "desktops"
  Texts = {"old", "one", "two", "part"}
  Absent = "absent"
  Folder = "folder"
  NoRules = NoRules
  Clients = {"c1", "c2"}
  UserOf <- MCUserOf
  TextOf <- MCTextOf
  Disks <- MCDisks
  Part = "part"
  MaxRequests = 2
INVARIANT HiddenAsMissing
INVARIANT StartedCompletes
PROPERTY OnlyWritable
PROPERTY NewKeepsFiles
CHECK_DEADLOCK FALSE
