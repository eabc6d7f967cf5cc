---- MODULE BrowserDocument ----
(***************************************************************************)
(* The parts of the browser client that show the document: its tiles, the  *)
(* views of other users, the clipboard, the graphic selection and how a    *)
(* shape is scaled and turned, the cells of a spreadsheet, their headers   *)
(* and sheets, the slides and the comments.                                *)
(*                                                                         *)
(* Each of them is a conversation of its own with the kit: they share the  *)
(* socket, which keeps the order of what each sends, and no state beyond   *)
(* what their modules already model.  A behaviour of this module is hence  *)
(* a behaviour of one of them, drawn at the start, and the invariants of   *)
(* all of them are checked side by side.                                   *)
(***************************************************************************)
EXTENDS BrowserTiles, BrowserViews, BrowserClipboard, BrowserGraphic,
        BrowserCells, BrowserHeaders, BrowserSlides, BrowserComments,
        BrowserTransform, BrowserSheets

VARIABLE shownPart    \* the part of the client this behaviour is about

DocumentParts == {"tiles", "views", "clipboard", "graphic", "cells", "headers", "slides",
                  "comments", "transform", "sheets"}

documentVars == <<shownPart, tilesVars, viewsVars, clipVars, picVars, cellsVars, headVars,
                  slidesVars, notesVars, xfVars, sheetsVars>>

\* Every part has its type, in every behaviour: what arrives over the socket
\* and what the timers do leaves each handler with state it can go on from.
DocumentTypeOK ==
    /\ shownPart \in DocumentParts
    /\ shownPart = "tiles" => TilesTypeOK
    /\ shownPart = "views" => ViewsTypeOK
    /\ shownPart = "clipboard" => ClipTypeOK
    /\ shownPart = "graphic" => PicTypeOK
    /\ shownPart = "cells" => CellsTypeOK
    /\ shownPart = "headers" => HeadTypeOK
    /\ shownPart = "slides" => SlidesTypeOK
    /\ shownPart = "comments" => NotesTypeOK
    /\ shownPart = "transform" => XfTypeOK
    /\ shownPart = "sheets" => SheetsTypeOK

DocumentInit ==
    /\ shownPart \in DocumentParts
    /\ TilesInit
    /\ ViewsInit
    /\ ClipInit
    /\ PicInit
    /\ CellsInit
    /\ HeadInit
    /\ SlidesInit
    /\ NotesInit
    /\ XfInit
    /\ SheetsInit

DocumentNext ==
    /\ UNCHANGED shownPart
    /\ \/ /\ shownPart = "tiles"
          /\ TilesNext
          /\ UNCHANGED <<viewsVars, clipVars, picVars, cellsVars, headVars, slidesVars,
                         notesVars, xfVars, sheetsVars>>
       \/ /\ shownPart = "views"
          /\ ViewsNext
          /\ UNCHANGED <<tilesVars, clipVars, picVars, cellsVars, headVars, slidesVars,
                         notesVars, xfVars, sheetsVars>>
       \/ /\ shownPart = "clipboard"
          /\ ClipNext
          /\ UNCHANGED <<tilesVars, viewsVars, picVars, cellsVars, headVars, slidesVars,
                         notesVars, xfVars, sheetsVars>>
       \/ /\ shownPart = "graphic"
          /\ PicNext
          /\ UNCHANGED <<tilesVars, viewsVars, clipVars, cellsVars, headVars, slidesVars,
                         notesVars, xfVars, sheetsVars>>
       \/ /\ shownPart = "cells"
          /\ CellsNext
          /\ UNCHANGED <<tilesVars, viewsVars, clipVars, picVars, headVars, slidesVars,
                         notesVars, xfVars, sheetsVars>>
       \/ /\ shownPart = "headers"
          /\ HeadNext
          /\ UNCHANGED <<tilesVars, viewsVars, clipVars, picVars, cellsVars, slidesVars,
                         notesVars, xfVars, sheetsVars>>
       \/ /\ shownPart = "slides"
          /\ SlidesNext
          /\ UNCHANGED <<tilesVars, viewsVars, clipVars, picVars, cellsVars, headVars, notesVars,
                         xfVars, sheetsVars>>
       \/ /\ shownPart = "comments"
          /\ NotesNext
          /\ UNCHANGED <<tilesVars, viewsVars, clipVars, picVars, cellsVars, headVars,
                         slidesVars, xfVars, sheetsVars>>
       \/ /\ shownPart = "transform"
          /\ XfNext
          /\ UNCHANGED <<tilesVars, viewsVars, clipVars, picVars, cellsVars, headVars,
                         slidesVars, notesVars, sheetsVars>>
       \/ /\ shownPart = "sheets"
          /\ SheetsNext
          /\ UNCHANGED <<tilesVars, viewsVars, clipVars, picVars, cellsVars, headVars,
                         slidesVars, notesVars, xfVars>>

DocumentSpec == DocumentInit /\ [][DocumentNext]_documentVars

\* What the user types, copies and selects arrives: the copy is known as the user's own and what
\* is pasted is of the clipboard, a key that turns the page is freed again, and the cursor, its
\* list button, the marks and the caret are where the kit put the cell.
EditingIsRight ==
    /\ shownPart = "clipboard" =>
        /\ ContentSettles
        /\ OwnCopyIsRecognised
        /\ PasteIsFromClipboard
    /\ shownPart = "cells" =>
        /\ PageKeyIsFreed
        /\ CursorIsInWindow
        /\ ListButtonIsRight
        /\ MarksFollowRange
        /\ CaretIsRight

\* The tiles on the screen, when all is quiet, show the document as it is; what is out of
\* date is known to be, and a blank place has been asked for.
TilesAreRight ==
    shownPart = "tiles" =>
        /\ ScreenIsCurrent
        /\ StaleIsKnown
        /\ BlankIsAskedFor

\* What is shown of the other users is theirs and of now, nothing of those who left stays, and
\* following one of them is either on everywhere or nowhere.
ViewsAreRight ==
    shownPart = "views" =>
        /\ WhoLeftIsErased
        /\ FollowIsConsistent
        /\ CursorsAreCurrent

\* The handles are drawn for the shape the kit selected last, a gesture keeps the shape it began
\* with, and when it is over the map can be dragged and nothing stays dark.
ShapesAreRight ==
    /\ shownPart = "transform" =>
        /\ HandlesFollowTheOutline
        /\ AppliedIsDrawn
        /\ AskedIsApplied
        /\ TablesKeepTheirCorner
        /\ PieceIsWhereAsked
        /\ PictureOnlyInDrag
    /\ shownPart = "graphic" =>
        /\ AskedIsDrawn
        /\ GestureKeepsItsShape
        /\ MapCanBeDragged
        /\ DarkOnlyInPlace

\* The headers show the rows where the sheet has them, light up what is selected, and a command
\* of theirs is about the rows it was given on.
HeadersAreRight ==
    shownPart = "headers" =>
        /\ HeaderShowsRows
        /\ HighlightIsRight
        /\ CommandsAreAimed

\* The previews are the kit's slides in its order, each as it was painted last, and a page is
\* deleted that the user saw selected.
SlidesAreRight ==
    /\ shownPart = "sheets" =>
        /\ TabsAreTheSheets
        /\ CommandsMeetTheirSheet
        /\ NotesAreTheSheets
        /\ SelectedTabIsSeen
    /\ shownPart = "slides" =>
        /\ SlidesAgree
        /\ PreviewsAreCurrent
        /\ DeletesWhatIsShown

\* The comments in the margin are the kit's, a selected one is a thread's first, and what the
\* user writes is neither interrupted nor sent unwanted.
CommentsAreRight ==
    shownPart = "comments" =>
        /\ CommentsMatch
        /\ SelectionIsARoot
        /\ WritingIsNotInterrupted
        /\ NothingIsSentUnwanted

====
