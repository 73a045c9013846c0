SPECIFICATION Spec
CONSTANTS
    MaxDepth = 2
    Apps <- MCApps
    DeepWindows = TRUE
    Unshowable = TRUE
    RawIds <- MCRawIds
    viewer = viewer
    song = song
    film = film
    AppIds = {viewer}
    Placed <- MCPlaced
    Places <- MCPlaces
    Sizes <- MCSizes
    Start <- MCStart
    Draws <- MCDraws
    None = None
    MaxWindows = 3
    MaxUserActs = 2
    MaxChanges = 1
    Names <- MCNames
    Stars <- MCStars
    Patterns <- MCPatterns
    Paths <- MCPaths
    Folders <- MCFolders
    DotGit = ".git"
    MaxLines = 2
INVARIANT BalancedAccepted
INVARIANT ClicksActedOnce
INVARIANT TitlesDistinct
INVARIANT KeepsItsCorner
CHECK_DEADLOCK FALSE
