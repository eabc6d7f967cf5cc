---------------------------- MODULE BrowserTiles ----------------------------
(***************************************************************************)
(* The tiles of one browser: L.GridLayer and the tile handlers of          *)
(* L.TileLayer and its subclasses, with the part of wsd that answers them. *)
(*                                                                         *)
(* A tile is on the screen (tiles) or kept aside for a part or zoom level  *)
(* that is not shown (cache).  Of its picture we keep whether the document *)
(* has changed under it.  The document has one dimension: x stands for     *)
(* both coordinates, a view is one tile wide.  There are two zoom levels,  *)
(* whose tiles relate as 1.2 to 1; twips are such that no width is broken. *)
(*                                                                         *)
(* The browser and wsd only see each other through two ordered channels,   *)
(* up and down.  Every handler is one step.  An image that is given a      *)
(* source is only "loaded" when the browser has decoded it and calls       *)
(* onload, a later step.                                                   *)
(***************************************************************************)
EXTENDS Integers, Sequences, FiniteSets, FiniteSetsExt, SequencesExt

CONSTANTS Parts,     \* the parts of the document: sheets or slides
          DocTwips,  \* the width of a part
          Edits,     \* the areas that edits change: a set of intervals
          MaxMoves,  \* bound: scrolls, zooms and the like of the user
          MaxEdits,  \* bound: edits of the document
          MaxUp      \* bound: handlers whose messages wsd has yet to read

VARIABLES
    grid,     \* L.GridLayer, see TilesTypeOK
    up,       \* messages to wsd; those of one handler are read in one go
    down,     \* messages from wsd
    session,  \* what wsd knows of this browser, and the tiles it is to send
    moves,    \* how much of MaxMoves is used up
    edits,    \* how much of MaxEdits is used up
    holes     \* history: the named holes through which a tile may have gone wrong

tilesVars == <<grid, up, down, session, moves, edits, holes>>

-----------------------------------------------------------------------------
(* Geometry.                                                               *)

Zooms == {0, 1}
BaseTwips == 30                               \* options.tileWidthTwips, at zoom 0

\* _updateTileTwips: a level further in divides the width by 1.2.
TileTwips(z) == IF z = 0 THEN BaseTwips ELSE (BaseTwips * 5) \div 6

\* _isValidTile
ValidX(z) == {x \in 0..(DocTwips \div 25) : x * TileTwips(z) < DocTwips}
TileKeys == {k \in (0..(DocTwips \div 25)) \X Zooms \X Parts : k[1] \in ValidX(k[2])}
At(x, g) == <<x, g.zoom, g.part>>

\* L.Bounds.intersects: touching is enough.
Touches(a, b) == b[2] >= a[1] /\ b[1] <= a[2]
Overlaps(a, b) == b[2] > a[1] /\ b[1] < a[2]

Interval(x, width) == <<x * width, (x + 1) * width>>
Covered(k) == Interval(k[1], TileTwips(k[2]))  \* what the tile really shows

\* _coordsToTwips, and the same width added: the width of the zoom level on
\* the screen, whatever the level of the tile.
Measured(g, k) == Interval(k[1], TileTwips(g.zoom))

\* What the scan of _tileCache takes a tile to cover: getZoomScale(z) is
\* relative to the zoom level on the screen, tileWidthTwips to zoom 0.
CacheMeasured(g, k) ==
    Interval(k[1], CASE g.zoom = k[2] -> BaseTwips
                     [] g.zoom > k[2] -> (BaseTwips * 6) \div 5
                     [] OTHER -> (BaseTwips * 5) \div 6)

View(g) == Interval(g.pos, TileTwips(g.zoom))

\* _pxBoundsToTileRange of the view, without the invalid ones.
RangeX(g) == {x \in ValidX(g.zoom) : g.pos - 1 <= x /\ x <= g.pos + 1}

-----------------------------------------------------------------------------
(* State.                                                                  *)

Pictures == {"fresh", "stale"}
Tile == [loaded: BOOLEAN, current: BOOLEAN, invalid: 0..MaxMoves + MaxEdits,
         src: Pictures \cup {"none"},
         painting: BOOLEAN]                     \* onload is due

TilesTypeOK ==
    /\ grid.zoom \in Zooms /\ grid.part \in Parts /\ grid.pos \in ValidX(grid.zoom)
    /\ DOMAIN grid.tiles \subseteq TileKeys /\ \A k \in DOMAIN grid.tiles : grid.tiles[k] \in Tile
    /\ DOMAIN grid.cache \subseteq TileKeys /\ \A k \in DOMAIN grid.cache : grid.cache[k] \in Pictures
    /\ grid.empty \in Int                       \* _emptyTilesCount
    /\ grid.orphans \subseteq TileKeys          \* onload due of a tile that was dropped
    /\ grid.zooming \in BOOLEAN                 \* moveend of an animated zoom is due
    /\ grid.fetcher \in BOOLEAN /\ grid.fetchPart \in Parts
    /\ session.part \in Parts /\ session.zoom \in Zooms /\ session.pos \in 0..(DocTwips \div 25)
    /\ session.pending \in Seq(TileKeys)
    /\ moves \in 0..MaxMoves /\ edits \in 0..MaxEdits
    /\ holes \subseteq {"zoom", "cache", "race", "orphan", "pruned"}

NewTile(src) == [loaded |-> FALSE, current |-> TRUE, invalid |-> 0, src |-> src,
                 painting |-> src # "none"]

Without(f, S) == [k \in DOMAIN f \ S |-> f[k]]

\* The screen when everything of part 0 has arrived.
TilesInit ==
    LET part == Min(Parts) IN
    /\ grid = [zoom |-> 0, part |-> part, pos |-> 0,
               tiles |-> [k \in {<<x, 0, part>> : x \in {x \in ValidX(0) : x <= 1}} |->
                             [NewTile("fresh") EXCEPT !.loaded = TRUE, !.painting = FALSE]],
               cache |-> [k \in {} |-> "fresh"], empty |-> 0, orphans |-> {},
               zooming |-> FALSE, fetcher |-> TRUE, fetchPart |-> part]
    /\ up = <<>> /\ down = <<>>
    /\ session = [pos |-> 0, zoom |-> 0, part |-> part, pending |-> <<>>]
    /\ moves = 0 /\ edits = 0 /\ holes = {}

-----------------------------------------------------------------------------
(* Operations on the grid g.  The ones that send return the messages too:  *)
(* [grid, sent].                                                           *)

Does(g, sent) == [grid |-> g, sent |-> sent]

\* _removeTile, for every key of ks.  An invalid tile is not worth keeping,
\* and one without a picture leaves an empty entry, which is none.
RemoveTiles(g, ks) ==
    LET gone == ks \cap DOMAIN g.tiles
        kept == {k \in gone : g.tiles[k].invalid = 0}
        seen == {k \in kept : g.tiles[k].src # "none"}
        unloaded == Cardinality({k \in gone : ~g.tiles[k].loaded})
        paid == IF g.empty > unloaded THEN unloaded ELSE IF g.empty > 0 THEN g.empty ELSE 0
    IN  [g EXCEPT !.tiles = Without(@, gone),
                  !.cache = [k \in seen |-> g.tiles[k].src] @@ Without(@, kept),
                  !.empty = @ - paid]

\* _pruneTiles with _retainParent and _retainChildren: the current tiles stay,
\* and what covers a current one that is not loaded yet, a level out or a
\* level in.
PruneTiles(g) ==
    LET Loaded(k) == k \in DOMAIN g.tiles /\ g.tiles[k].loaded
        Parent(k) == <<(5 * k[1]) \div 6, k[2] - 1, k[3]>>
        Children(k) == {<<(6 * k[1]) \div 5 + i, k[2] + 1, k[3]>> : i \in 0..1}
        current == {k \in DOMAIN g.tiles : g.tiles[k].current}
        retained == UNION {IF Loaded(Parent(k)) THEN {Parent(k)}
                           ELSE {c \in Children(k) : Loaded(c)} :
                           k \in {k \in current : ~Loaded(k)}}
    IN  RemoveTiles(g, DOMAIN g.tiles \ (current \cup retained))

\* Mutant of CancelTiles: tiles that are still to come are kept.
CancelLoosely(g) ==
    Does([g EXCEPT !.empty = 0], <<[type |-> "canceltiles"]>>)

\* _cancelTiles: wsd forgets what it was to send, so what is not loaded, or
\* invalid out of sight, goes.  The images' onload is not taken back.
CancelTiles(g) ==
    LET Drop(k) == \/ ~g.tiles[k].loaded
                   \/ g.tiles[k].invalid > 0
                      /\ (k[3] = g.part => ~Touches(View(g), Measured(g, k)))
        gone == {k \in DOMAIN g.tiles : Drop(k)}
    IN  Does([g EXCEPT !.tiles = Without(@, gone), !.empty = 0,
                       !.orphans = @ \cup {k \in gone : g.tiles[k].painting}],
             <<[type |-> "canceltiles"]>>)

\* _addTiles, createTile and _initTile: a tile for each of the keys that has
\* none, with its picture from the cache; the other pictures are asked for.
AddTiles(g, ks) ==
    LET mine == {k \in ks : k[3] = g.part}
        new == mine \ DOMAIN g.tiles
        asked == mine \ DOMAIN g.cache
        Src(k) == IF k \in DOMAIN g.cache THEN g.cache[k] ELSE "none"
    IN  Does([g EXCEPT !.tiles = [k \in new |-> NewTile(Src(k))] @@ @,
                       !.empty = @ + Cardinality(new)],
             IF asked = {} THEN <<>> ELSE <<[type |-> "tilecombine", keys |-> asked]>>)

\* The loop of _update and of _updateOnChangePart that marks the tiles of the
\* other parts and zoom levels.
MarkOthers(g) ==
    [g EXCEPT !.tiles = [k \in DOMAIN @ |->
        [@[k] EXCEPT !.current = @ /\ k[2] = g.zoom /\ k[3] = g.part]]]

\* What both do once they know the keys to ask for.
Fetch(g, queue, newView) ==
    LET cancelled == IF newView THEN CancelTiles(g) ELSE Does(g, <<>>)
        added == AddTiles(cancelled.grid, queue)
    IN  IF queue = {} THEN Does(g, <<>>)
        ELSE Does(added.grid, cancelled.sent \o added.sent)

\* _update
UpdateTiles(g) ==
    LET g1 == MarkOthers(g)
        range == {At(x, g) : x \in RangeX(g)}
        invalid == {k \in range \cap DOMAIN g.tiles : g.tiles[k].invalid > 0}
        good == {k \in range \cap DOMAIN g.tiles : g.tiles[k].loaded} \ invalid
        g2 == [g1 EXCEPT !.tiles = [k \in DOMAIN @ |->
                  IF k \in good THEN [@[k] EXCEPT !.current = TRUE]
                  ELSE IF k \in invalid THEN [@[k] EXCEPT !.invalid = 1]
                  ELSE @[k]]]
        done == Fetch(g2, range \ good, good = {})
        \* _sendClientVisibleArea, _sendClientZoom, both forced
        area == [type |-> "area", pos |-> g.pos, zoom |-> g.zoom]
    IN  Does(done.grid, <<area>> \o done.sent)

\* _updateOnChangePart: any tile that is there will do.
UpdateOnChangePart(g) ==
    LET range == {At(x, g) : x \in RangeX(g)}
        there == range \cap DOMAIN g.tiles
        g1 == MarkOthers(g)
        g2 == [g1 EXCEPT !.tiles = [k \in DOMAIN @ |->
                  [@[k] EXCEPT !.current = @ \/ k \in there]]]
    IN  Fetch(g2, range \ there, there = {})

\* _resetPreFetching
ResetPreFetching(g) == [g EXCEPT !.fetcher = TRUE, !.fetchPart = g.part]

\* _move, on moveend
MoveTo(g) == LET done == UpdateTiles(g)
             IN  Does(ResetPreFetching(done.grid), done.sent)

\* Mutant of InvalidateTiles: what is aside is left alone.
InvalidateShown(g, part, area) ==
    LET hit == {k \in DOMAIN g.tiles : k[3] = part /\ Touches(area, Measured(g, k))}
        marked == [g EXCEPT !.tiles = [k \in DOMAIN @ |->
                      IF k \in hit THEN [@[k] EXCEPT !.invalid = @ + 1] ELSE @[k]]]
    IN  RemoveTiles(marked, {k \in hit : ~Touches(View(g), Measured(g, k))})

\* _onInvalidateTilesMsg, the same in all three kinds of document.
InvalidateTiles(g, part, area) ==
    LET hit == {k \in DOMAIN g.tiles : k[3] = part /\ Touches(area, Measured(g, k))}
        marked == [g EXCEPT !.tiles = [k \in DOMAIN @ |->
                      IF k \in hit THEN [@[k] EXCEPT !.invalid = @ + 1] ELSE @[k]]]
        left == RemoveTiles(marked, {k \in hit : ~Touches(View(g), Measured(g, k))})
    IN  [left EXCEPT !.cache = Without(@, {k \in DOMAIN @ :
                                   k[3] = part /\ Touches(area, CacheMeasured(g, k))})]

\* Mutant of TileArrives: a tile that nobody has invalidated is counted down.
TileArrivesUnasked(g, k, src) ==
    IF k \notin DOMAIN g.tiles THEN g
    ELSE [g EXCEPT !.tiles[k].invalid = @ - 1, !.tiles[k].src = src, !.tiles[k].painting = TRUE,
                   !.empty = IF g.tiles[k].loaded THEN @ ELSE @ - 1]

\* _onTileMsg.  The acknowledgement and wsd's count of them: TileService.
TileArrives(g, k, src) ==
    IF k \notin DOMAIN g.tiles THEN g
    ELSE [g EXCEPT !.tiles[k].invalid = IF @ > 0 THEN @ - 1 ELSE 0,
                   !.tiles[k].src = src,
                   !.tiles[k].painting = TRUE,
                   !.empty = IF g.tiles[k].loaded THEN @ ELSE @ - 1]

\* _tileReady: the callback knows the key, not the image it was given to.
TileReady(g, k) ==
    LET g1 == [g EXCEPT !.tiles[k].loaded = TRUE]
    IN  IF k \notin DOMAIN g.tiles THEN g
        ELSE IF \A j \in DOMAIN g1.tiles : g1.tiles[j].loaded THEN PruneTiles(g1)
        ELSE g1

-----------------------------------------------------------------------------
(* Steps of the browser.                                                   *)

MoveBudget == moves < MaxMoves /\ Len(up) < MaxUp /\ moves' = moves + 1

\* Sending while an invalidation is on its way is the hole "race": wsd has
\* rendered for the view, and with the requests, of before.
Send(done) ==
    /\ grid' = done.grid
    /\ up' = IF done.sent = <<>> THEN up ELSE Append(up, done.sent)
    /\ holes' = holes \cup {"race" : m \in {m \in ToSet(down) : m.type = "invalidatetiles"}}

\* The user scrolls: movestart, moveend.
Scroll ==
    /\ MoveBudget
    /\ \E pos \in ValidX(grid.zoom) \ {grid.pos} : Send(MoveTo([grid EXCEPT !.pos = pos]))
    /\ UNCHANGED <<down, session, edits>>

\* _reset for a new zoom level, with its _update.
ResetZoom(pos) == UpdateTiles([grid EXCEPT !.zoom = 1 - @, !.pos = pos])

\* Without animation: a hard viewreset (_viewReset), then moveend.
Zoom ==
    /\ MoveBudget /\ ~grid.zooming
    /\ \E pos \in ValidX(1 - grid.zoom) :
          LET reset == ResetZoom(pos)
              moved == MoveTo(PruneTiles(reset.grid))
          IN  Send(Does(moved.grid, reset.sent \o moved.sent))
    /\ UNCHANGED <<down, session, edits>>

\* With animation: _animateZoom, which prunes nothing; moveend is later.
AnimateZoom ==
    /\ MoveBudget /\ ~grid.zooming
    /\ \E pos \in ValidX(1 - grid.zoom) :
          LET reset == ResetZoom(pos)
          IN  Send(Does([reset.grid EXCEPT !.zooming = TRUE], reset.sent))
    /\ UNCHANGED <<down, session, edits>>

ZoomEnd ==
    /\ grid.zooming
    /\ Send(MoveTo([grid EXCEPT !.zooming = FALSE]))
    /\ UNCHANGED <<down, session, moves, edits>>

\* The tile part of L.Map.setPart.
ChangePart ==
    /\ MoveBudget
    /\ \E part \in Parts \ {grid.part} :
          LET done == UpdateOnChangePart([grid EXCEPT !.part = part])
          IN  Send(Does(PruneTiles(done.grid),
                        <<[type |-> "setclientpart", part |-> part]>> \o done.sent))
    /\ UNCHANGED <<down, session, edits>>

\* _requestNewTiles: the browser invalidates everything itself.
RequestNewTiles ==
    /\ MoveBudget
    /\ Send(UpdateTiles(InvalidateTiles(grid, grid.part, <<0, DocTwips>>)))
    /\ UNCHANGED <<down, session, edits>>

\* _preFetchTiles, on an interval that the idle timer of _resetPreFetching
\* has started: the tiles around the view.
PreFetchTiles ==
    LET near == {<<x, grid.zoom, grid.fetchPart>> : x \in ValidX(grid.zoom)}
        queue == near \ (DOMAIN grid.tiles \cup DOMAIN grid.cache)
    IN  /\ grid.fetcher /\ grid.empty <= 0
        /\ Send(IF queue = {} THEN Does([grid EXCEPT !.fetcher = FALSE], <<>>)
                ELSE AddTiles(grid, queue))
        /\ UNCHANGED <<down, session, moves, edits>>

\* The browser has decoded the pictures it was given, the tiles' and those of
\* tiles which _cancelTiles has dropped.  Pruning may take a tile that is
\* looked at: _update does not make an invalid tile current again.
Onload ==
    LET painted == {k \in DOMAIN grid.tiles : grid.tiles[k].painting}
        view == At(grid.pos, grid)
        idle == [grid EXCEPT !.orphans = {},
                             !.tiles = [k \in DOMAIN @ |-> [@[k] EXCEPT !.painting = FALSE]]]
    IN  /\ painted \cup grid.orphans # {}
        /\ grid' = FoldSet(LAMBDA k, g : TileReady(g, k), idle, painted \cup grid.orphans)
        /\ holes' = holes
               \cup {"orphan" : k \in (grid.orphans \cap DOMAIN grid.tiles) \ painted}
               \cup {"pruned" : k \in ({view} \cap DOMAIN grid.tiles) \ DOMAIN grid'.tiles}
        /\ UNCHANGED <<up, down, session, moves, edits>>

\* What an invalidation misses: tiles that it measures wrongly.
HolesOf(msg) ==
    LET Missed(S, Bounds(_)) == \E k \in S : /\ k[3] = msg.part
                                             /\ Overlaps(msg.area, Covered(k))
                                             /\ ~Touches(msg.area, Bounds(k))
    IN  {h \in {"zoom", "cache"} :
            \/ h = "zoom" /\ Missed(DOMAIN grid.tiles, LAMBDA k : Measured(grid, k))
            \/ h = "cache" /\ Missed(DOMAIN grid.cache, LAMBDA k : CacheMeasured(grid, k))}

ReceiveTileMessage ==
    /\ down # <<>>
    /\ down' = Tail(down)
    /\ LET msg == Head(down)
       IN  IF msg.type = "tile"
           THEN grid' = TileArrives(grid, msg.key, msg.src) /\ UNCHANGED holes
           ELSE grid' = InvalidateTiles(grid, msg.part, msg.area) /\ holes' = holes \cup HolesOf(msg)
    /\ UNCHANGED <<up, session, moves, edits>>

-----------------------------------------------------------------------------
(* Steps of wsd and the kit.                                               *)

\* A tile that is already to be sent is not added again.
Queue(pending, ks) == pending \o SetToSeq(ks \ ToSet(pending))

\* ClientSession::_handleInput, for one message.
WsdHandles(known, msg) ==
    CASE msg.type = "area" -> [known EXCEPT !.pos = msg.pos, !.zoom = msg.zoom]
      [] msg.type = "setclientpart" -> [known EXCEPT !.part = msg.part]
      [] msg.type = "canceltiles" -> [known EXCEPT !.pending = <<>>]
      [] OTHER -> [known EXCEPT !.pending = Queue(@, msg.keys)]

WsdReceives ==
    /\ up # <<>>
    /\ up' = Tail(up)
    /\ session' = FoldLeft(WsdHandles, session, Head(up))
    /\ UNCHANGED <<grid, down, moves, edits, holes>>

\* The kit renders what is asked for in one go, and wsd sends the tiles.
WsdSends ==
    /\ session.pending # <<>>
    /\ down' = down \o [i \in DOMAIN session.pending |->
                          [type |-> "tile", key |-> session.pending[i], src |-> "fresh"]]
    /\ session' = [session EXCEPT !.pending = <<>>]
    /\ UNCHANGED <<grid, up, moves, edits, holes>>

\* Somebody edits.  The kit invalidates, and handleTileInvalidation renders
\* anew what it takes the browser to see.
Edit ==
    /\ edits < MaxEdits /\ edits' = edits + 1
    /\ \E part \in Parts, area \in Edits :
          LET Hit(k) == k[3] = part /\ Overlaps(area, Covered(k))
              seen == {k \in TileKeys : /\ k[1] \in {session.pos, session.pos + 1}
                                        /\ k[2] = session.zoom /\ part = session.part
                                        /\ Hit(k)}
          IN  /\ grid' = [grid EXCEPT
                    !.tiles = [k \in DOMAIN @ |->
                        IF Hit(k) /\ @[k].src = "fresh" THEN [@[k] EXCEPT !.src = "stale"] ELSE @[k]],
                    !.cache = [k \in DOMAIN @ |-> IF Hit(k) THEN "stale" ELSE @[k]]]
              /\ down' = Append([i \in DOMAIN down |->
                                    IF down[i].type = "tile" /\ Hit(down[i].key)
                                    THEN [down[i] EXCEPT !.src = "stale"] ELSE down[i]],
                                [type |-> "invalidatetiles", part |-> part, area |-> area])
              /\ session' = [session EXCEPT !.pending = Queue(@, seen)]
              /\ holes' = holes \cup {"race" : m \in ToSet(up)}
    /\ UNCHANGED <<up, moves>>

TilesNext ==
    \/ Scroll \/ Zoom \/ AnimateZoom \/ ZoomEnd \/ ChangePart \/ RequestNewTiles
    \/ PreFetchTiles \/ Onload \/ ReceiveTileMessage
    \/ WsdReceives \/ WsdSends \/ Edit

TilesSpec == TilesInit /\ [][TilesNext]_tilesVars

-----------------------------------------------------------------------------
(* Properties.                                                             *)

\* When wsd has nothing left to say and all images are decoded.
TilesQuiet ==
    /\ up = <<>> /\ down = <<>> /\ session.pending = <<>>
    /\ ~grid.zooming /\ grid.orphans = {} /\ \A k \in DOMAIN grid.tiles : ~grid.tiles[k].painting

\* What the user looks at is what the document holds, once everything that
\* was on its way has arrived: whatever was scrolled, zoomed, cancelled,
\* invalidated or cached in between, the tile of the view is loaded and its
\* picture is current.  The holes are those of the code: an invalidation that
\* measures tiles of another zoom level, or cached ones, wrongly; one that
\* crosses a move; an onload of a dropped image.
ScreenIsCurrent ==
    TilesQuiet /\ holes = {}
        => /\ At(grid.pos, grid) \in DOMAIN grid.tiles
           /\ grid.tiles[At(grid.pos, grid)].loaded
           /\ grid.tiles[At(grid.pos, grid)].src = "fresh"

\* An out-of-date picture, shown or kept aside, is known to be so: it is
\* counted as invalid, or its invalidation is on its way.
StaleIsKnown ==
    holes \cap {"zoom", "cache"} = {} =>
        LET Announced(k) == \E i \in DOMAIN down : /\ down[i].type = "invalidatetiles"
                                                  /\ down[i].part = k[3]
                                                  /\ Overlaps(down[i].area, Covered(k))
        IN  /\ \A k \in DOMAIN grid.tiles :
                  grid.tiles[k].src = "stale" => grid.tiles[k].invalid > 0 \/ Announced(k)
            /\ \A k \in DOMAIN grid.cache : grid.cache[k] = "stale" => Announced(k)

\* A tile without a picture is one that wsd has been asked for and will send:
\* no order of cancelling and asking leaves a blank that nobody fills.
BlankIsAskedFor ==
    "orphan" \notin holes =>
        \A k \in DOMAIN grid.tiles :
            grid.tiles[k].src = "none" =>
                \/ k \in ToSet(FoldLeft(WsdHandles, session, FlattenSeq(up)).pending)
                \/ \E i \in DOMAIN down : down[i].type = "tile" /\ down[i].key = k

=============================================================================
