---------------------------- MODULE TileService -----------------------------
(***************************************************************************)
(* Tiles from the document in the kit to the screens of the users: the     *)
(* kit renders what its queue holds (TileQueue, kit/Kit.cpp), the broker   *)
(* caches and distributes (TileCache), the clients draw and acknowledge.   *)
(***************************************************************************)
EXTENDS TileCache

CONSTANTS Contents,     \* what a tile may look like
          MaxEdits,     \* bound on the changes of the document
          MaxRequests,  \* bound on the requests of the clients
          Cancellers,   \* the clients that may cancel, once each
          Timeouts      \* whether tiles may take longer than the timeouts

ASSUME ContentsAssumption == Contents \subseteq Nat \ {0} /\ 1 \in Contents
ASSUME BoundsAssumption == MaxEdits \in Nat /\ MaxRequests \in Nat
ASSUME CancellersAssumption == Cancellers \subseteq Clients
ASSUME TimeoutsAssumption == Timeouts \in BOOLEAN

VARIABLES
    tileVersion, cache, tbr, client,    \* the broker, see TileCache
    queue,      \* the kit's TileQueue
    content,    \* what each tile of the document looks like
    active,     \* the sessions whose user is active, for the kit
    missed,     \* the sessions with an invalidation in their StateRecorder
    skipped,    \* history: the requests whose tile the kit found unchanged
    fromKit,    \* messages of the kit the broker has not handled
    screen,     \* what each client shows, NoTile before anything
    acks,       \* the tiles each client has drawn and not acknowledged
    edits, requests,    \* how many there were
    cancelled   \* the clients that have cancelled their requests

brokerVars == <<tileVersion, cache, tbr, client>>
clientVars == <<screen, acks>>
bounds == <<edits, requests, cancelled>>
kitVars == <<content, active, missed, skipped>>
vars == <<brokerVars, queue, kitVars, fromKit, clientVars, bounds>>

Broker == [ver |-> tileVersion, cache |-> cache, tbr |-> tbr, client |-> client,
           queue |-> queue]

BrokerBecomes(b) ==
    /\ tileVersion' = b.ver
    /\ cache' = b.cache
    /\ tbr' = b.tbr
    /\ client' = b.client
    /\ queue' = b.queue

Images == [t : Tiles, ver : Nat, content : Nat]
FromKitMessages == [k : {"tiles"}, tiles : Seq(Images)]
                     \cup [k : {"invalidatetiles"}, s : Clients, ts : SUBSET Tiles]

TypeOK ==
    /\ Broker \in BrokerStates
    /\ content \in [Tiles -> Contents]
    /\ active \subseteq Clients /\ missed \subseteq Clients
    /\ skipped \subseteq TileRequests
    /\ fromKit \in Seq(FromKitMessages)
    /\ screen \in [Clients -> [Tiles -> Nat]]
    /\ acks \in [Clients -> Seq(Tiles)]
    /\ edits \in 0..MaxEdits /\ requests \in 0..MaxRequests
    /\ cancelled \subseteq Cancellers

Init ==
    /\ tileVersion = 0
    /\ cache = [t \in Tiles |-> NoTile]
    /\ tbr = [t \in Tiles |-> NotRendered]
    /\ client = [s \in Clients |-> NewClient]
    /\ queue = <<>>
    /\ content = [t \in Tiles |-> 1]
    /\ active = Clients /\ missed = {} /\ skipped = {}
    /\ fromKit = <<>>
    /\ screen = [s \in Clients |-> [t \in Tiles |-> NoTile]]
    /\ acks = [s \in Clients |-> <<>>]
    /\ edits = 0 /\ requests = 0
    /\ cancelled = {}

-----------------------------------------------------------------------------
(* The kit.                                                                *)

\* LibreOfficeKit changes a tile, or repaints it as it was, and calls back.
KitInvalidates(t, c) ==
    /\ edits < MaxEdits
    /\ edits' = edits + 1
    /\ content' = [content EXCEPT ![t] = c]
    /\ queue' \in PutInvalidation(queue, {t})
    /\ UNCHANGED <<brokerVars, active, missed, skipped, fromKit, clientVars, requests, cancelled>>

\* "The tile content is identical to what the client already has, so skip it".
Unchanged(r) == r.old = content[r.t]

\* renderTile and renderCombinedTiles: one message, or none if all are skipped.
RenderTiles(reqs) ==
    LET same == {i \in 1..Len(reqs) : Unchanged(reqs[i])}
        changed == Except(reqs, same)
        images == [i \in 1..Len(changed) |->
                     [t |-> changed[i].t, ver |-> changed[i].ver,
                      content |-> content[changed[i].t]]]
    IN /\ fromKit' = IF images = <<>> THEN fromKit
                     ELSE Append(fromKit, [k |-> "tiles", tiles |-> images])
       /\ skipped' = skipped \cup {reqs[i] : i \in same}

InvalidateTiles(ss, ts) ==
    LET all == SetToSeq(ss)
    IN [i \in 1..Len(all) |-> [k |-> "invalidatetiles", s |-> all[i], ts |-> ts]]

\* "callback all 0": "invalidatetiles:" goes to each of the active sessions,
\* the others remember it.
SendInvalidations(ts) ==
    /\ fromKit' = fromKit \o InvalidateTiles(active, ts)
    /\ missed' = missed \cup (Clients \ active)

\* "useractive": what the session has missed is sent, for the whole part.
BecomesActive(s) ==
    /\ active' = active \cup {s}
    /\ missed' = missed \ {s}
    /\ fromKit' = fromKit \o InvalidateTiles(missed \cap {s}, Tiles)

BecomesInactive(s) ==
    /\ active' = active \ {s}
    /\ UNCHANGED <<missed, fromKit>>

\* What Document::run does with a message, or with tiles to be rendered together.
KitHandles(ms) ==
    LET m == ms[1] IN
    \/ /\ IsTile(m) /\ RenderTiles(ms) /\ UNCHANGED <<active, missed>>
    \/ /\ m.k = "invalidate" /\ SendInvalidations(m.ts) /\ UNCHANGED <<active, skipped>>
    \/ /\ m.k = "activity" /\ IF m.on THEN BecomesActive(m.s) ELSE BecomesInactive(m.s)
       /\ UNCHANGED skipped

\* Document::run takes what its queue gives.
KitRuns ==
    /\ \E got \in Gets(queue) : queue' = got[2] /\ KitHandles(got[1])
    /\ UNCHANGED <<brokerVars, content, clientVars, bounds>>

-----------------------------------------------------------------------------
(* The broker.                                                             *)

\* The tiles whose timeout has passed: how many on the fly, and which ones
\* that are being rendered.
Outdated(s) == IF Timeouts THEN 0..Len(client[s].onFly) ELSE {0}
Stalled == IF Timeouts THEN SUBSET {t \in Tiles : BeingRendered(Broker, t)} ELSE {{}}

HandleTileResponse ==
    /\ fromKit # <<>> /\ Head(fromKit).k = "tiles"
    /\ fromKit' = Tail(fromKit)
    /\ BrokerBecomes(SaveTiles(Broker, Head(fromKit).tiles))
    /\ UNCHANGED <<kitVars, clientVars, bounds>>

HandleInvalidateTiles ==
    /\ fromKit # <<>> /\ Head(fromKit).k = "invalidatetiles"
    /\ fromKit' = Tail(fromKit)
    /\ LET m == Head(fromKit) IN
         \E outdated \in Outdated(m.s), stalled \in Stalled :
           BrokerBecomes(HandleTileInvalidation(Broker, m.s, m.ts, outdated, stalled))
    /\ UNCHANGED <<kitVars, clientVars, bounds>>

ClientRequest ==
    /\ requests < MaxRequests
    /\ requests' = requests + 1
    /\ UNCHANGED <<kitVars, fromKit, clientVars, edits, cancelled>>

\* "tile".
ClientTile(s, t, broadcast) ==
    /\ broadcast => t \in Previews
    /\ ClientRequest
    /\ \E stalled \in Stalled :
         BrokerBecomes(HandleTileRequest(Broker, s, t, broadcast, stalled))

\* "tilecombine", of tiles on the screen.
ClientTileCombine(s, ts) ==
    /\ ClientRequest
    /\ \E outdated \in Outdated(s), stalled \in Stalled :
         BrokerBecomes(HandleTileCombinedRequest(Broker, s, InOrder(ts),
                           [t \in Tiles |-> 0], outdated, stalled))

\* "canceltiles".
ClientCancelTiles(s) ==
    /\ s \in Cancellers \ cancelled
    /\ cancelled' = cancelled \cup {s}
    /\ BrokerBecomes(CancelTileRequests(Broker, s))
    /\ UNCHANGED <<kitVars, fromKit, clientVars, edits, requests>>

\* "clientvisiblearea", "clientzoom", "setclientpart": resetWireIdMap.
ClientMoves(s) ==
    /\ ClientRequest
    /\ client' = [client EXCEPT ![s].wids = [t \in Tiles |-> 0]]
    /\ UNCHANGED <<tileVersion, cache, tbr, queue>>

\* "useractive", "userinactive": forwarded to the kit.
ClientTurns(s, on) ==
    /\ ClientRequest
    /\ queue' = Append(queue, Activity(s, on))
    /\ UNCHANGED brokerVars

\* The socket takes a tile from the SenderQueue and the client draws it.
ClientDraws(s) ==
    /\ client[s].out # <<>>
    /\ LET m == Head(client[s].out) IN
         /\ screen' = [screen EXCEPT ![s][m.t] = m.content]
         /\ acks' = [acks EXCEPT ![s] = Append(@, m.t)]
    /\ client' = [client EXCEPT ![s].out = Tail(@)]
    /\ UNCHANGED <<tileVersion, cache, tbr, queue, kitVars, fromKit, bounds>>

ClientTileProcessed(s) ==
    /\ acks[s] # <<>>
    /\ acks' = [acks EXCEPT ![s] = Tail(@)]
    /\ \E outdated \in Outdated(s), stalled \in Stalled :
         BrokerBecomes(TileProcessed(Broker, s, Head(acks[s]), outdated, stalled))
    /\ UNCHANGED <<kitVars, fromKit, screen, bounds>>

ClientStep(s) ==
    \/ \E t \in Tiles, broadcast \in BOOLEAN : ClientTile(s, t, broadcast)
    \/ \E ts \in SUBSET (Tiles \ Previews) \ {{}} : ClientTileCombine(s, ts)
    \/ \E on \in BOOLEAN : ClientTurns(s, on)
    \/ ClientCancelTiles(s) \/ ClientMoves(s) \/ ClientDraws(s) \/ ClientTileProcessed(s)

KitStep == KitRuns \/ \E t \in Tiles, c \in Contents : KitInvalidates(t, c)

\* All is drawn and nobody wants anything any more.
NothingUnderWay ==
    /\ queue = <<>> /\ fromKit = <<>>
    /\ \A s \in Clients : client[s].out = <<>> /\ acks[s] = <<>>

Done == NothingUnderWay /\ UNCHANGED vars

Next ==
    \/ KitStep \/ HandleTileResponse \/ HandleInvalidateTiles
    \/ \E s \in Clients : ClientStep(s)
    \/ Done

Spec == Init /\ [][Next]_vars

-----------------------------------------------------------------------------
(* Properties.                                                             *)

\* An invalidation of t for session s has not been handled.
InvalidationPending(s, t) ==
    \/ s \in missed
    \/ \E i \in 1..Len(queue) : queue[i].k = "invalidate" /\ t \in queue[i].ts
    \/ \E i \in 1..Len(fromKit) :
         fromKit[i].k = "invalidatetiles" /\ fromKit[i].s = s /\ t \in fromKit[i].ts

\* The cache holds an outdated tile only as long as no session has heard of
\* the change: a tile that was rendered before it never comes after the
\* invalidation (saveTileAndNotify caches whatever comes).
CacheIsCurrent ==
    \A t \in Tiles : cache[t] \notin {NoTile, content[t]}
                       => \A s \in Clients : InvalidationPending(s, t)

\* A session counts exactly the tiles it is subscribed to, so that the limit
\* of tiles under way counts each one once.
SessionsCountTheirTiles ==
    \A s \in Clients :
        client[s].rendering = {t \in Tiles \ Previews : Subscribed(Broker, s, t)}

\* A named hole: "The tile content is identical to what the client already has,
\* so skip it", and the rendering stays registered.  Whoever subscribes to it
\* then waits for a tile that does not come, as long as the tile is as it was.
WaitsForSkipped(s, t) ==
    /\ Subscribed(Broker, s, t)
    /\ \E r \in skipped : r.t = t /\ r.ver >= tbr[t].ver /\ r.old = content[t]

\* Once nothing is under way and no request waits for the limit, what an active
\* client shows is what the document looks like: whatever is skipped as
\* unchanged, filtered, replaced, merged or cancelled by others on the way was
\* not needed, but for what was skipped because another client had it.  A
\* client that cancels its own requests asks again for what it shows.
ScreensAreCurrent ==
    NothingUnderWay =>
        \A s \in active \ cancelled, t \in Tiles \ Previews :
            \/ screen[s][t] \in {NoTile, content[t]}
            \/ \E i \in 1..Len(client[s].requested) : client[s].requested[i].t = t
            \/ WaitsForSkipped(s, t)

\* "If we delayed all tiles we don't send any tile (we will when next
\* tileprocessed message arrives)" (sendRequestedTiles): a request waits only
\* as long as a tile is under way.  This is what the comment says, and it does
\* not hold.
RequestsAreServed ==
    NothingUnderWay => \A s \in Clients : client[s].requested = <<>>
=============================================================================
