CONSTANTS
    Windows = {1, 2}
    Looks = {"a", "b", "c"}
    CacheSize = 2
    MaxShellTurns = 4
    Pages = 2
    MaxBarTurns = 2
    MaxBlurs = 1
    MaxSaveTurns = 3
    MaxWarnings = 1
    DocLengths = {12, 24}
    WinLengths = {8, 16}
    MaxMapTurns = 3
    MaxHandTurns = 5
    MaxKeyTurns = 4
    OpenDocs = {1, 2}
    Visits = {1, 2, 3}
    UserOf <- MCUserOf
    ChartSizes = {1, 2, 3}
    MaxAdminTurns = 4
    MaxChartTurns = 3
    Files = {"a", "b", "z"}
    SlicesOf <- MCSlicesOf
    Installed = {"b"}
    MaxUploadTurns = 4
    MaxLaunchSends = 1
    MaxLaunchAnswers = 2
    MaxLaunchFaults = 1
    MenuTables <- MCMenuTables
    MaxMenuTurns = 2
    MaxMenuClicks = 2
SPECIFICATION ControlsSpec
INVARIANT ControlsTypeOK
INVARIANT DialogsAreRight
PROPERTY ButtonsAreRight
INVARIANT OpeningAndClosingAreRight
INVARIANT MapIsRight
INVARIANT InputIsRight
INVARIANT ConsoleIsRight
CHECK_DEADLOCK FALSE
