----------------------------- MODULE TileQueue ------------------------------
(***************************************************************************)
(* The queue of the kit's document thread as far as tiles go               *)
(* (common/MessageQueue.cpp, class TileQueue): requests to render a tile,  *)
(* invalidation callbacks, and users who turn to the document or away.     *)
(* put() replaces and merges, get() takes the next message, or several     *)
(* tile requests to be rendered together.                                  *)
(***************************************************************************)
EXTENDS Naturals, SequencesExt

CONSTANTS TileCount,    \* how many tiles the document has
          TilesPerRow,
          Previews      \* the tiles that are requested with an id (thumbnails)

\* Numbered row by row.
Tiles == 0..(TileCount - 1)

ASSUME TilesAssumption == TileCount \in Nat
ASSUME RowAssumption == TilesPerRow \in Nat \ {0}
ASSUME PreviewsAssumption == Previews \subseteq Tiles

\* "tile ... oldwid=... ver=...", and "callback all 0 ..." (a rectangle is the
\* set of the tiles it touches).
TileRequests == [k : {"tile"}, t : Tiles, ver : Nat, old : Nat]
TileRequest(t, ver, old) == [k |-> "tile", t |-> t, ver |-> ver, old |-> old]
Invalidation(ts) == [k |-> "invalidate", ts |-> ts]
\* "child-... useractive" and "child-... userinactive".
Activity(s, on) == [k |-> "activity", s |-> s, on |-> on]

IsTile(m) == m.k = "tile"
IsPreview(m) == IsTile(m) /\ m.t \in Previews
IsPlainTile(m) == IsTile(m) /\ m.t \notin Previews

\* The elements of q at the places I, in their order.
Kept(q, I) ==
    LET kept[i \in 0..Len(q)] ==
          IF i = 0 THEN <<>> ELSE IF i \in I THEN Append(kept[i - 1], q[i]) ELSE kept[i - 1]
    IN kept[Len(q)]

\* Those at the other places.
Except(q, I) == Kept(q, (1..Len(q)) \ I)

-----------------------------------------------------------------------------
(* put_impl.                                                               *)

\* removeTileDuplicate compares the messages up to " ver".
SameRequest(m, n) == IsTile(m) /\ IsTile(n) /\ m.t = n.t /\ m.old = n.old

\* "tile", or the tiles of a "tilecombine", no two of which are the same.
PutTiles(q, ms) ==
    Except(q, {i \in 1..Len(q) : \E j \in 1..Len(ms) : SameRequest(ms[j], q[i])}) \o ms

\* s.find("ver=" + v): v is the start of the version's digits.
ContainsVersion(m, v) == IsTile(m) /\ \E i \in 0..m.ver : m.ver \div (10 ^ i) = v

\* s.find("id="): it is in "nviewid=", "oldwid=" and "wid=" of every request.
ContainsId(m) == IsTile(m)

\* canceltiles.
CancelTiles(q, vers) ==
    Except(q, {i \in 1..Len(q) : ~ContainsId(q[i]) /\ \E v \in vers : ContainsVersion(q[i], v)})

\* removeCallbackDuplicate: what the new rectangle covers goes, and what it
\* touches may be joined to it.  Which ones do depends on where the rectangles
\* lie within their tiles, so it may be any.
PutInvalidation(q, ts) ==
    LET invalidations == {i \in 1..Len(q) : q[i].k = "invalidate"}
        Joined(joined) == ts \cup UNION {q[i].ts : i \in joined}
    IN {Append(Except(q, joined), Invalidation(Joined(joined))) :
            joined \in SUBSET invalidations}

-----------------------------------------------------------------------------
(* get_impl.                                                               *)

\* deprioritizePreviews: previews at the front go to the back.
Deprioritized(q) ==
    LET front == {i \in 1..Len(q) : \A j \in 1..i : IsPreview(q[j])}
    IN Except(q, front) \o Kept(q, front)

\* A tile near a cursor is taken first, but not past anything else: any of the
\* tiles at the front may be the one.
MayBeNext(q) ==
    {i \in 1..Len(q) : \A j \in 1..i : IsPlainTile(q[j])}

\* onSameRow: edges that meet count, so the rows above and below do too.
OnSameRow(t, u) ==
    LET Row(x) == x \div TilesPerRow
    IN Row(u) <= Row(t) + 1 /\ Row(t) <= Row(u) + 1

\* Every tile on the same row is rendered along with it, wherever it waits.
CombinesWith(m, n) == IsPlainTile(n) /\ OnSameRow(m.t, n.t)

\* What get() returns and what it leaves: <<messages, queue>>.
Gets(q) ==
    IF q = <<>> THEN {}
    ELSE IF ~IsTile(q[1]) THEN {<< <<q[1]>>, Tail(q) >>}
    ELSE IF IsPreview(q[1]) THEN {<< <<q[1]>>, Deprioritized(Tail(q)) >>}
    ELSE {LET along == {j \in (1..Len(q)) \ {i} : CombinesWith(q[i], q[j])}
          IN << <<q[i]>> \o Kept(q, along), Except(q, along \cup {i}) >> :
              i \in MayBeNext(q)}
=============================================================================
