---- MODULE MCBrowserDocument ----
(* A small instance of the parts of the browser client that show the document. *)
EXTENDS BrowserDocument

\* One area that edits change, in the first tile at one zoom level and in the second at the other.
MCEdits == {<<26, 28>>}

\* The second shape is as long as the document, the third leaves no room.
MCPlaces == [s \in {"a", "b", "c"} |-> CASE s = "a" -> <<2, 4>>
                                         [] s = "b" -> <<0, 4>>
                                         [] s = "c" -> <<4, 4>>]

\* Cells with a list of values, <<sheet, row>>.
MCLists == {<<0, 1>>, <<0, 2>>, <<1, 0>>}

\* Three rows, two of them of the same size, and one that stands out.
MCFirstSizes == <<3, 3, 6>>

\* A box of four by six.
MCOutline == [x0 |-> 6, y0 |-> 6, x1 |-> 10, y1 |-> 12]

\* A free shape, a slanted one that keeps its proportions, a line, a table, and two pictures of a
\* text: one that lies across and a slanted one.
Plain == [steady |-> FALSE, line |-> FALSE, table |-> FALSE, writer |-> FALSE, angle |-> 0]
MCKinds == {Plain, [Plain EXCEPT !.steady = TRUE, !.angle = 13500],
            [Plain EXCEPT !.line = TRUE], [Plain EXCEPT !.table = TRUE],
            [Plain EXCEPT !.writer = TRUE, !.angle = 9000],
            [Plain EXCEPT !.writer = TRUE, !.angle = 2262]}

\* Three sheets, one hidden, two with a note.
MCFirstSheets == <<"a", "b", "c">>

\* Notes of the sheets.
MCFirstNotes == {<<"a", "n">>, <<"b", "m">>}

====
