CONSTANTS
    Games = {"red", "ruby"}
    SystemOf <- MCSystemOf
    Batteries = {"red", "ruby"}
    NoFile = NoFile
    MaxVersion = 1
    MaxEvents = 4
    Keys = {"a"}
    PadButtons = {"right"}
    Items = 10
    Visible = 4
    VkMaxEvents = 5
    Actions = {"a", "right", "left"}
    PadDefault <- MCPadDefault
    KeyDefault <- MCKeyDefault
    KeyCodes = {122, 300}
    MapButtons = {2, 15}
    Axes = {0}
    MaxBindings = 3
    SettingGames = {"red", "blue"}
    None = None
    Levels = {8, 16}
    MapDeadzone = 16
    DefaultLevel = 8
    MaxChanges = 6
    Catalog <- MCCatalog
    KindOf <- MCKindOf
    Roots <- MCRoots
    Named = "lime"
    NoPath = "none"
    Queries = {"", "r", "ru"}
    Matches <- MCMatches
    MaxRecents = 2
    Cards = 2
    MaxMoves = 4
SPECIFICATION Spec
CHECK_DEADLOCK FALSE
INVARIANTS
    NoStuckButton
    BindingsSurvive
PROPERTIES
    FilesOwn
    OverridesOwn
    LauncherKeeps
    PadFollows
    FaultEnds
