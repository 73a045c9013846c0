SPECIFICATION Spec
CONSTANTS
    MaxDepth = 2
    Apps <- MCApps
    DeepWindows = FALSE
    Unshowable = FALSE
    RawIds <- MCRawIds
    viewer = viewer
    song = song
    film = film
    AppIds = {viewer}
    Placed <- MCPlaced
    Places <- MCPlaces
    Sizes <- MCSizes
    Start <- MCStart
    Draws <- MCDraws
    None = None
    MaxWindows = 2
    MaxUserActs = 1
    MaxChanges = 2
    Names <- MCNames
    Stars <- MCStars
    Patterns <- MCPatterns
    Paths <- MCPaths
    Folders <- MCFolders
    DotGit = ".git"
    MaxLines = 2
PROPERTY PlayersGoOnlyThen
CHECK_DEADLOCK FALSE
