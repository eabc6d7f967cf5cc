CONSTANTS
    Parts = {0, 1}
    DocTwips = 50
    Edits <- MCEdits
    MaxMoves = 2
    MaxEdits = 1
    MaxUp = 1
    Users = {0, 1, 2}
    Me = 0
    Readers = {2}
    Sheets = {0, 1}
    ViewKinds = {"cursor", "cell", "graphic", "selection"}
    MaxTurns = 4
    Bodies = {"a", "b"}
    MaxSelections = 2
    MaxKeys = 2
    Shapes = {"a", "b", "c"}
    Places <- MCPlaces
    Pies = {"b"}
    Steady = {"b"}
    DocWidth = 6
    MaxPicTurns = 3
    LastRow = 5
    Page = 2
    Lists <- MCLists
    MaxCellTurns = 3
    FirstSizes <- MCFirstSizes
    Shown = 2
    MaxHeadTurns = 3
    FirstSlides = 2
    InReach = 2
    MaxSlideTurns = 2
    Anchors = {1, 2}
    MaxNoteTurns = 2
    Outline <- MCOutline
    PageSize = 16
    Kinds <- MCKinds
    Reach = 3
    Half = 1
    MaxXfTurns = 2
    MaxXfMoves = 2
    FirstSheets <- MCFirstSheets
    FirstHidden = {"c"}
    FirstNotes <- MCFirstNotes
    FreshSheets = {"x"}
    MaxBookTurns = 2
    MaxBookNews = 1
SPECIFICATION DocumentSpec
INVARIANT DocumentTypeOK
INVARIANT TilesAreRight
INVARIANT ViewsAreRight
INVARIANT EditingIsRight
INVARIANT ShapesAreRight
INVARIANT HeadersAreRight
INVARIANT SlidesAreRight
INVARIANT CommentsAreRight
CHECK_DEADLOCK FALSE
