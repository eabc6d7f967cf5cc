----------------------------- MODULE TileCache ------------------------------
(***************************************************************************)
(* How the document broker serves tiles: the tile cache                    *)
(* (wsd/TileCache.cpp), the broker's tile handlers                         *)
(* (wsd/DocumentBroker.cpp) and each session's bookkeeping of the tiles it *)
(* waits for (wsd/ClientSession.cpp).  The handlers run one after the      *)
(* other in the broker's thread, so each is a function of the broker's     *)
(* state, a record of                                                      *)
(*   ver     _tileVersion                                                  *)
(*   cache   the content of each tile in the cache, or NoTile              *)
(*   tbr     _tilesBeingRendered: version and subscribers, or NotRendered  *)
(*   client  for each session, a record of                                 *)
(*     requested   _requestedTiles                                         *)
(*     onFly       _tilesOnFly, oldest first                               *)
(*     rendering   _tilesBeingRendered of the session                      *)
(*     wids        _oldWireIds, 0 for a tile without one                   *)
(*     out         the tiles in its SenderQueue                            *)
(*   queue   the kit's queue, where requests go.                           *)
(*                                                                         *)
(* A tile's content stands for its wire id as well: hashToWireId gives     *)
(* equal contents equal ids.  All sessions have the same view settings and *)
(* see all of Tiles.                                                       *)
(***************************************************************************)
EXTENDS TileQueue, FiniteSets

CONSTANTS Clients,      \* the sessions, all with their view loaded
          UpperLimit,   \* tilesOnFlyUpperLimit
          Persistent    \* _tileCachePersistent

ASSUME ClientsAssumption == IsFiniteSet(Clients)
ASSUME LimitAssumption == UpperLimit \in Nat \ {0}
ASSUME PersistentAssumption == Persistent \in BOOLEAN

NoTile == 0
NotRendered == [ver |-> 0, subs |-> <<>>]

TileStates == [ver : Nat, subs : Seq(Clients)]
TilesToSend == [t : Tiles, content : Nat]
ClientStates == [requested : Seq(TileRequests), onFly : Seq(Tiles),
                 rendering : SUBSET Tiles, wids : [Tiles -> Nat], out : Seq(TilesToSend)]
KitMessages == TileRequests \cup [k : {"invalidate"}, ts : SUBSET Tiles]
                 \cup [k : {"activity"}, s : Clients, on : BOOLEAN]
BrokerStates == [ver : Nat, cache : [Tiles -> Nat], tbr : [Tiles -> TileStates],
                 client : [Clients -> ClientStates], queue : Seq(KitMessages)]

NewClient == [requested |-> <<>>, onFly |-> <<>>, rendering |-> {},
              wids |-> [t \in Tiles |-> 0], out |-> <<>>]

\* lookupTile.
Cached(b, t) == b.cache[t] # NoTile

\* findTileBeingRendered.
BeingRendered(b, t) == b.tbr[t] # NotRendered

Subscribed(b, s, t) == \E i \in 1..Len(b.tbr[t].subs) : b.tbr[t].subs[i] = s

Count(t, seq) == Cardinality({i \in 1..Len(seq) : seq[i] = t})

\* The tiles row by row.
InOrder(ts) == Kept([i \in 1..TileCount |-> i - 1], {t + 1 : t \in ts})

-----------------------------------------------------------------------------
(* Sending a tile to a client.                                             *)

\* SenderQueue::deduplicate: a tile that waits is replaced by the newer one.
Deduplicated(out, t) == Except(out, {i \in 1..Len(out) : out[i].t = t})

\* Mutant of TraceTileBySend: a tile from the cache leaves the recorded wire id.
TraceKeepsWireId(c, t, wid, deduplicated) ==
    [c EXCEPT !.wids[t] = IF wid = 0 THEN @ ELSE wid,
              !.onFly = IF deduplicated THEN @ ELSE Append(@, t)]

\* traceTileBySend.
TraceTileBySend(c, t, wid, deduplicated) ==
    [c EXCEPT !.wids[t] = wid, !.onFly = IF deduplicated THEN @ ELSE Append(@, t)]

\* enqueueSendMessage: a tile the client has is not sent.  A tile from the
\* cache has wire id 0.
EnqueueTile(c, t, content, wid) ==
    IF wid # 0 /\ c.wids[t] = wid THEN c
    ELSE TraceTileBySend(
           [c EXCEPT !.out = Append(Deduplicated(@, t), [t |-> t, content |-> content])],
           t, wid, \E i \in 1..Len(c.out) : c.out[i].t = t)

SendCached(b, s, t) ==
    [b EXCEPT !.client[s] = EnqueueTile(@, t, b.cache[t], 0)]

-----------------------------------------------------------------------------
(* Subscriptions.                                                          *)

\* subscribeToTileRendering; stalled: the tiles whose
\* painting takes longer than the timeout.
SubscribeToTileRendering(b, t, ver, s, stalled) ==
    IF Subscribed(b, s, t) THEN [b EXCEPT !.tbr[t].ver = ver]
    ELSE [b EXCEPT
            !.tbr[t] = [ver  |-> IF BeingRendered(b, t) /\ t \notin stalled THEN @.ver ELSE ver,
                        subs |-> Append(@.subs, s)],
            !.client[s].rendering = IF t \in Previews THEN @ ELSE @ \cup {t}]

\* registerTileBeingRendered, for requests of different tiles.
RegisterTilesBeingRendered(b, requests, stalled) ==
    LET Requests(t) == {i \in 1..Len(requests) : requests[i].t = t}
    IN [b EXCEPT !.tbr = [t \in Tiles |->
          IF Requests(t) = {} \/ (BeingRendered(b, t) /\ t \notin stalled) THEN @[t]
          ELSE [@[t] EXCEPT !.ver = requests[CHOOSE i \in Requests(t) : TRUE].ver]]]

\* Mutant of ForgetTileBeingRendered: the sessions go on counting the tile.
ForgetUntraced(b, t) == [b EXCEPT !.tbr[t] = NotRendered]

ForgetTileBeingRendered(b, t) ==
    LET Forgetting(c) == [c EXCEPT !.rendering = @ \ {t}]
        forgetting == {s \in Clients : Subscribed(b, s, t) /\ t \notin Previews}
    IN [b EXCEPT !.tbr[t] = NotRendered,
                 !.client = [s \in Clients |->
                               IF s \in forgetting THEN Forgetting(@[s]) ELSE @[s]]]

\* saveTileAndNotify: all subscribers get the tile; the subscription stays if
\* a newer version is under way.
SaveTileAndNotify(b, tile) ==
    LET t == tile.t
        notified == [b EXCEPT !.cache[t] = IF Persistent THEN tile.content ELSE @,
                              !.client = [s \in Clients |->
                                  IF Subscribed(b, s, t)
                                  THEN EnqueueTile(@[s], t, tile.content, tile.content) ELSE @[s]]]
    IN IF BeingRendered(b, t) /\ b.tbr[t].ver <= tile.ver
       THEN ForgetTileBeingRendered(notified, t) ELSE notified

\* handleTileCombinedResponse: one tile after the other.
SaveTiles(b, tiles) ==
    LET saved[i \in 0..Len(tiles)] ==
          IF i = 0 THEN b ELSE SaveTileAndNotify(saved[i - 1], tiles[i])
    IN saved[Len(tiles)]

-----------------------------------------------------------------------------
(* Requests.                                                               *)

\* Requests go to the kit's queue, which takes them at once: nothing the kit
\* does before a message arrives depends on it.
SendToKit(b, requests) == [b EXCEPT !.queue = PutTiles(@, requests)]

\* The loop of handleTileRequest over the sessions.
SubscribeAll(b, t, ver, subs, stalled) ==
    LET subscribed[i \in 0..Len(subs)] ==
          IF i = 0 THEN b
          ELSE SubscribeToTileRendering(subscribed[i - 1], t, ver, subs[i], stalled)
    IN subscribed[Len(subs)]

\* handleTileRequest; a preview may be wanted for all sessions.
HandleTileRequest(b, s, t, broadcast, stalled) ==
    LET ver == b.ver + 1
        next == [b EXCEPT !.ver = ver]
        subs == IF broadcast THEN SetToSeq(Clients) ELSE <<s>>
    IN IF Cached(b, t) THEN SendCached(next, s, t)
       ELSE SendToKit(SubscribeAll(next, t, ver, subs, stalled), <<TileRequest(t, ver, 0)>>)

\* One tile of sendRequestedTiles: from the cache, or subscribed to, and
\* requested anew if an older version of it is being rendered.
SendRequestedTile(a, r, s, stalled) ==
    LET b == a.b  t == r.t IN
    IF Cached(b, t) THEN [a EXCEPT !.b = SendCached(b, s, t)]
    ELSE IF ~BeingRendered(b, t) \/ b.tbr[t].ver < r.ver
    THEN [a EXCEPT !.b = SubscribeToTileRendering([b EXCEPT !.ver = b.ver + 1],
                                                  t, b.ver + 1, s, stalled),
                   !.needed = Append(@, [r EXCEPT !.ver = b.ver + 1])]
    ELSE [a EXCEPT !.b = SubscribeToTileRendering(b, t, r.ver, s, stalled)]

\* One turn of the loop of sendRequestedTiles: as many as the limit allows.  A
\* tile of which two versions are on the fly is delayed and goes to the back.
Busy(c) == Len(c.onFly) + Cardinality(c.rendering) >= UpperLimit
TakeRequest(a, r, s, stalled) ==
    IF Busy(a.b.client[s]) THEN [a EXCEPT !.left = Append(@, r)]
    ELSE IF Count(r.t, a.b.client[s].onFly) >= 2
    THEN [a EXCEPT !.delayed = Append(@, r)]
    ELSE SendRequestedTile(a, r, s, stalled)

TakeRequests(b, requests, s, stalled) ==
    LET taken[i \in 0..Len(requests)] ==
          IF i = 0 THEN [b |-> b, needed |-> <<>>, left |-> <<>>, delayed |-> <<>>]
          ELSE TakeRequest(taken[i - 1], requests[i], s, stalled)
    IN taken[Len(requests)]

\* sendRequestedTiles.  outdated: how many tiles on the fly were sent too long
\* ago to wait for.
SendRequestedTiles(b, s, outdated, stalled) ==
    LET start == [b EXCEPT !.client[s].onFly = Except(@, 1..outdated)]
        done == TakeRequests(start, b.client[s].requested, s, stalled)
    IN SendToKit([done.b EXCEPT !.client[s].requested = done.left \o done.delayed],
                 done.needed)

\* Accumulate tiles: drop duplicates, but use the newer version.
Accumulated(requested, new) ==
    LET Known(t) == \E i \in 1..Len(requested) : requested[i].t = t
        Newer(r) == IF \E i \in 1..Len(new) : new[i].t = r.t
                    THEN new[CHOOSE i \in 1..Len(new) : new[i].t = r.t] ELSE r
    IN [i \in 1..Len(requested) |-> Newer(requested[i])]
         \o Except(new, {i \in 1..Len(new) : Known(new[i].t)})

\* handleTileCombinedRequest: what is not cached is rendered at once, and all
\* of it is sent as the limit allows.  old gives the wire ids the client has.
HandleTileCombinedRequest(b, s, tiles, old, outdated, stalled) ==
    LET new == [i \in 1..Len(tiles) |-> TileRequest(tiles[i], b.ver + i, old[tiles[i]])]
        needed == Except(new, {i \in 1..Len(new) : Cached(b, tiles[i])})
        prerendered == SendToKit(RegisterTilesBeingRendered([b EXCEPT !.ver = @ + Len(tiles)],
                                                            needed, stalled),
                                 needed)
    IN SendRequestedTiles([prerendered EXCEPT !.client[s].requested = Accumulated(@, new)],
                          s, outdated, stalled)

\* TileCache::cancelTiles: s waits for nothing, and what nobody else waits for
\* is taken out of the queue.
CancelSubscriptions(b, s) ==
    LET Without(subs) == Except(subs, {i \in 1..Len(subs) : subs[i] = s})
        Left(x) == [x EXCEPT !.subs = Without(@)]
        mine == {t \in Tiles \ Previews : Subscribed(b, s, t)}
        alone == {t \in mine : Without(b.tbr[t].subs) = <<>>}
    IN [b EXCEPT
          !.tbr = [t \in Tiles |->
                     IF t \in alone THEN NotRendered
                     ELSE IF t \in mine THEN Left(@[t]) ELSE @[t]],
          !.queue = CancelTiles(@, {b.tbr[t].ver : t \in alone})]

\* cancelTileRequests.
CancelTileRequests(b, s) ==
    CancelSubscriptions(
      [b EXCEPT !.client[s] = [@ EXCEPT !.requested = <<>>, !.onFly = <<>>, !.rendering = {},
                                        !.wids = [t \in Tiles |-> 0]]], s)

\* Mutant of Invalidated: the tiles stay in the cache.
NotInvalidated(b, ts) == b

\* invalidateTiles.
Invalidated(b, ts) ==
    [b EXCEPT !.cache = [t \in Tiles |-> IF t \in ts THEN NoTile ELSE @[t]]]

\* handleTileInvalidation: the cached tiles go, and the visible ones are
\* requested again for the session.
HandleTileInvalidation(b, s, ts, outdated, stalled) ==
    LET visible == InOrder(ts \ Previews)
    IN IF visible = <<>> THEN Invalidated(b, ts)
       ELSE HandleTileCombinedRequest(Invalidated(b, ts), s, visible, b.client[s].wids,
                                      outdated, stalled)

\* "tileprocessed": the tile that was sent first is no longer on the fly.
TileProcessed(b, s, t, outdated, stalled) ==
    LET First(fly) == {i \in 1..Len(fly) : fly[i] = t /\ \A j \in 1..(i - 1) : fly[j] # t}
    IN SendRequestedTiles([b EXCEPT !.client[s].onFly = Except(@, First(@))],
                          s, outdated, stalled)
=============================================================================
