---------------------- MODULE BrowserConnection_proofs ----------------------
(***************************************************************************)
(* What the browser, wsd and the host believe of each other agrees, and    *)
(* the user sees what became of his connection, however the socket, the    *)
(* timers, the window and the user interleave.                             *)
(*                                                                         *)
(* The handlers are operators on the state of the map that apply each      *)
(* other, so that a lemma for each says what it does to the fields that    *)
(* matter, and the steps are put together from these.                      *)
(***************************************************************************)
EXTENDS BrowserConnection, TLAPS

-----------------------------------------------------------------------------
(* The inductive invariant.                                                *)

Live(m) == m.conn \in {"open", "lost"}
Covered(m) == m.shown \cap Overlays # {}
Waits(m) == m.recycling \/ m.idle

\* Only a live connection has a document, and only of that the host is told.
LoadedIsLive ==
    /\ map.docLoaded => Live(map)
    /\ map.appLoaded \/ "docloaded" \in map.conditions => map.docLoaded

\* wsd says that it recycles, or that the document was idle, as its last word.
WaitingIsClosing == Waits(map) /\ Live(map) => stage = "closing"

\* Until wsd has loaded the document nothing puts the client to sleep.
LoadingIsAwake ==
    map.conn = "open" /\ stage \in {"new", "ready"}
        => /\ map.active /\ ~map.docLoaded /\ map.timer = "none"
           /\ map.docLayer => map.reconnecting

\* While a client waits for its server, or for a click, an overlay says so.
WaitingIsCovered ==
    Waits(map) /\ excuse = "none" => Covered(map) \/ (~Live(map) /\ map.reported)

\* NoSilentEnd whatever has the focus, and without relying on dialogs that the
\* user may dismiss.
EndIsKnown ==
    map.conn = "closed" /\ ~map.active /\ excuse = "none"
        => \/ map.timer \in {"reload", "retry", "recycle"}
           \/ Covered(map) \/ map.reported \/ map.fatal \/ map.gone

ReadOnlyIsAsked ==
    readonly => map.optPerm = "readonly" /\ (map.docLoaded => map.perm # "edit")

\* The interval is that of a server being recycled, and ends with it.
RecycleTimerIsItsOwn == map.timer = "recycle" => map.recycling

\* A map that was removed never connects again.
GoneIsClosed == map.gone => map.conn = "closed"

ConnInv ==
    /\ ConnTypeOK
    /\ ServerKnowsActivity
    /\ LoadedIsLive
    /\ RecyclingIsWaitedFor
    /\ RecycleTimerIsItsOwn
    /\ GoneIsClosed
    /\ WaitingIsClosing
    /\ LoadingIsAwake
    /\ WaitingIsCovered
    /\ InactiveIsShown
    /\ EndIsKnown
    /\ ReadOnlyIsAsked

-----------------------------------------------------------------------------
(* What the operators do.  r is what an operator makes of m; the fields    *)
(* are taken in groups, of which most operators touch one.                 *)

SameLink(m, r) ==
    /\ r.fatal = m.fatal /\ r.recycling = m.recycling /\ r.idle = m.idle
    /\ r.docLayer = m.docLayer /\ r.reconnecting = m.reconnecting
    /\ r.optPerm = m.optPerm /\ r.gone = m.gone

SameUser(m, r) == r.active = m.active /\ r.told = m.told
SameScreen(m, r) == r.dialogID = m.dialogID /\ r.shown = m.shown
SameLoad(m, r) ==
    r.docLoaded = m.docLoaded /\ r.appLoaded = m.appLoaded /\ r.conditions = m.conditions
SameEnd(m, r) == r.conn = m.conn /\ r.reported = m.reported

\* The host has been told that the document is loaded, or is about to be.
Claims(m) == m.appLoaded \/ "docloaded" \in m.conditions

\* The dialog that vex.dialogID names goes, another may come.
Shows(m, r, kinds) == r.shown = (m.shown \ {m.dialogID}) \cup kinds

\* CloseDialog: the dialog that dialogID names is no longer on the screen.
LEMMA CloseDialogEffect ==
    ASSUME NEW m \in Maps, NEW r, r = CloseDialog(m)
    PROVE  /\ r \in Maps
           /\ SameLink(m, r) /\ SameUser(m, r) /\ SameLoad(m, r) /\ SameEnd(m, r)
           /\ r.timer = m.timer /\ r.perm = m.perm
           /\ r.dialogID = "none" /\ Shows(m, r, {})
BY Zenon DEF Maps, CloseDialog, SameLink, SameUser, SameLoad, SameEnd, Shows

\* OpenDialog: the new dialog is on the screen, and the others stay.
LEMMA OpenDialogEffect ==
    ASSUME NEW m \in Maps, NEW kind \in Dialogs, NEW r, r = OpenDialog(m, kind)
    PROVE  /\ r \in Maps
           /\ SameLink(m, r) /\ SameUser(m, r) /\ SameLoad(m, r) /\ SameEnd(m, r)
           /\ r.timer = m.timer /\ r.perm = m.perm
           /\ r.dialogID = kind /\ r.shown = m.shown \cup {kind}
BY Zenon DEF Maps, OpenDialog, SameLink, SameUser, SameLoad, SameEnd

\* Alert: after a fatal error the dialog before it stays, otherwise it goes.
LEMMA AlertEffect ==
    ASSUME NEW m \in Maps, NEW r, r = Alert(m)
    PROVE  /\ r \in Maps
           /\ SameLink(m, r) /\ SameUser(m, r) /\ SameLoad(m, r) /\ SameEnd(m, r)
           /\ r.timer = m.timer /\ r.perm = m.perm
           /\ r.dialogID = "alert" /\ "alert" \in r.shown
           /\ IF m.fatal THEN r.shown = m.shown \cup {"alert"} ELSE Shows(m, r, {"alert"})
<1>1. "alert" \in Dialogs
  BY DEF Dialogs
<1>2. CASE m.fatal
  <2>1. r = OpenDialog(m, "alert")
    BY <1>2 DEF Alert
  <2> QED
    BY <1>1, <1>2, <2>1, OpenDialogEffect
<1>3. CASE ~m.fatal
  <2>1. PICK c : c = CloseDialog(m)
    OBVIOUS
  <2>2. r = OpenDialog(c, "alert")
    BY <1>3, <2>1 DEF Alert
  <2>3. c \in Maps
    BY <2>1, CloseDialogEffect
  <2>4. /\ SameLink(m, c) /\ SameUser(m, c) /\ SameLoad(m, c) /\ SameEnd(m, c)
        /\ c.timer = m.timer /\ c.perm = m.perm /\ Shows(m, c, {})
    BY <2>1, CloseDialogEffect
  <2>5. /\ r \in Maps
        /\ SameLink(c, r) /\ SameUser(c, r) /\ SameLoad(c, r) /\ SameEnd(c, r)
        /\ r.timer = c.timer /\ r.perm = c.perm
        /\ r.dialogID = "alert" /\ r.shown = c.shown \cup {"alert"}
    BY <1>1, <2>2, <2>3, OpenDialogEffect
  <2> QED
    BY <1>3, <2>4, <2>5 DEF SameLink, SameUser, SameLoad, SameEnd, Shows
<1> QED
  BY <1>2, <1>3

\* SendActivity: wsd knows, unless the connection is given up.
LEMMA SendActivityEffect ==
    ASSUME NEW m \in Maps, NEW b \in BOOLEAN, NEW r, r = SendActivity(m, b)
    PROVE  /\ r \in Maps
           /\ SameLink(m, r) /\ SameLoad(m, r) /\ SameEnd(m, r) /\ SameScreen(m, r)
           /\ r.timer = m.timer /\ r.perm = m.perm /\ r.active = m.active
           /\ m.fatal \/ r.told = b
BY DEF Maps, SendActivity, SameLink, SameLoad, SameEnd, SameScreen

\* PostLoaded: the host is told of the document only after docloaded.
LEMMA PostLoadedEffect ==
    ASSUME NEW m \in Maps, NEW event \in Conditions, NEW r, r = PostLoaded(m, event)
    PROVE  /\ r \in Maps
           /\ SameLink(m, r) /\ SameUser(m, r) /\ SameScreen(m, r) /\ SameEnd(m, r)
           /\ r.timer = m.timer /\ r.perm = m.perm /\ r.docLoaded = m.docLoaded
           /\ Claims(r) => Claims(m) \/ event = "docloaded"
<1> DEFINE met == m.conditions \cup {event}
<1>1. CASE m.appLoaded
  BY <1>1 DEF PostLoaded, SameLink, SameUser, SameScreen, SameEnd, Claims
<1>2. CASE ~m.appLoaded
  <2>1. r = [m EXCEPT !.conditions = met, !.appLoaded = met = Conditions]
    BY <1>2 DEF PostLoaded
  <2>2. met \in SUBSET Conditions
    BY DEF Maps
  <2>3. /\ r \in Maps
        /\ SameLink(m, r) /\ SameUser(m, r) /\ SameScreen(m, r) /\ SameEnd(m, r)
        /\ r.timer = m.timer /\ r.perm = m.perm /\ r.docLoaded = m.docLoaded
        /\ r.conditions = met /\ (r.appLoaded => met = Conditions)
    <3> HIDE DEF met
    <3>1. CASE met = Conditions
      <4>1. (met = Conditions) = TRUE
        BY <3>1
      <4>2. r = [m EXCEPT !.conditions = met, !.appLoaded = TRUE]
        BY <2>1, <4>1
      <4> QED
        BY ZenonT(60), <2>2, <3>1, <4>2 DEF Maps, SameLink, SameUser, SameScreen, SameEnd
    <3>2. CASE met # Conditions
      <4>1. (met = Conditions) = FALSE
        BY <3>2
      <4>2. r = [m EXCEPT !.conditions = met, !.appLoaded = FALSE]
        BY <2>1, <4>1
      <4> QED
        BY ZenonT(60), <2>2, <4>2 DEF Maps, SameLink, SameUser, SameScreen, SameEnd
    <3> QED
      BY <3>1, <3>2
  <2>4. Claims(r) => "docloaded" \in met
    BY <2>3 DEF Claims, Conditions
  <2>5. "docloaded" \in met => Claims(m) \/ event = "docloaded"
    BY DEF Claims
  <2> QED
    BY <2>3, <2>4, <2>5
<1> QED
  BY <1>1, <1>2

\* Close: without a connection there is no document.
LEMMA CloseEffect ==
    ASSUME NEW m \in Maps, NEW r, r = Close(m)
    PROVE  /\ r \in Maps
           /\ SameLink(m, r) /\ SameUser(m, r) /\ SameScreen(m, r)
           /\ r.timer = m.timer /\ r.perm = m.perm /\ r.reported = m.reported
           /\ r.conn = "closed" /\ ~r.docLoaded /\ ~Claims(r)
BY ZenonT(60) DEF Maps, Close, Unload, SameLink, SameUser, SameScreen, Claims

\* Unload: the same without the connection's end.
LEMMA UnloadEffect ==
    ASSUME NEW m \in Maps, NEW r, r = Unload(m)
    PROVE  /\ r \in Maps
           /\ SameLink(m, r) /\ SameUser(m, r) /\ SameScreen(m, r) /\ SameEnd(m, r)
           /\ r.timer = m.timer /\ ~r.docLoaded /\ ~Claims(r)
BY ZenonT(60) DEF Maps, Unload, SameLink, SameUser, SameScreen, SameEnd, Claims

\* LoadDocument: the browser connects, or it refuses the socket and says so.
LEMMA LoadDocumentEffect ==
    ASSUME NEW m \in Maps, NEW r, r = LoadDocument(m)
    PROVE  /\ r \in Maps
           /\ SameLink(m, r) /\ SameUser(m, r)
           /\ r.timer = m.timer /\ r.perm = m.perm
           /\ ~Live(r) /\ ~r.docLoaded /\ ~Claims(r)
           /\ \/ r.conn = "connecting" /\ SameScreen(m, r) /\ r.reported = m.reported
              \/ r.conn = "closed" /\ r.reported /\ (m.fatal => m.shown \subseteq r.shown)
<1>1. PICK c : c = Close(m)
  OBVIOUS
<1>2. /\ c \in Maps
      /\ SameLink(m, c) /\ SameUser(m, c) /\ SameScreen(m, c)
      /\ c.timer = m.timer /\ c.perm = m.perm /\ c.reported = m.reported
      /\ c.conn = "closed" /\ ~c.docLoaded /\ ~Claims(c)
  BY <1>1, CloseEffect
<1>3. CASE m.refused
  <2>1. PICK a : a = Alert(c)
    OBVIOUS
  <2>2. r = [a EXCEPT !.reported = TRUE]
    BY <1>1, <1>3, <2>1 DEF LoadDocument
  <2>3. /\ a \in Maps
        /\ SameLink(c, a) /\ SameUser(c, a) /\ SameLoad(c, a) /\ SameEnd(c, a)
        /\ a.timer = c.timer /\ a.perm = c.perm
        /\ c.fatal => c.shown \subseteq a.shown
    BY <1>2, <2>1, AlertEffect
  <2>4. /\ r \in Maps
        /\ SameLink(a, r) /\ SameUser(a, r) /\ SameLoad(a, r) /\ SameScreen(a, r)
        /\ r.timer = a.timer /\ r.perm = a.perm /\ r.conn = a.conn /\ r.reported
    BY ZenonT(60), <2>2, <2>3 DEF Maps, SameLink, SameUser, SameLoad, SameScreen
  <2> QED
    BY <1>2, <2>3, <2>4
       DEF SameLink, SameUser, SameLoad, SameScreen, SameEnd, Claims, Live
<1>4. CASE ~m.refused
  <2>1. r = [c EXCEPT !.conn = "connecting"]
    BY <1>1, <1>4 DEF LoadDocument
  <2>2. /\ r \in Maps
        /\ SameLink(c, r) /\ SameUser(c, r) /\ SameLoad(c, r) /\ SameScreen(c, r)
        /\ r.timer = c.timer /\ r.perm = c.perm /\ r.reported = c.reported
        /\ r.conn = "connecting"
    BY ZenonT(60), <1>2, <2>1 DEF Maps, SameLink, SameUser, SameLoad, SameScreen
  <2> QED
    BY <1>2, <2>2 DEF SameLink, SameUser, SameLoad, SameScreen, Claims, Live
<1> QED
  BY <1>3, <1>4

\* StartInactiveTimer: only the timer changes, and only for a loaded document.
LEMMA StartInactiveTimerEffect ==
    ASSUME NEW m \in Maps, NEW r, r = StartInactiveTimer(m)
    PROVE  /\ r \in Maps
           /\ SameLink(m, r) /\ SameUser(m, r) /\ SameScreen(m, r) /\ SameLoad(m, r)
           /\ SameEnd(m, r) /\ r.perm = m.perm
           /\ r.timer = IF Waits(m) \/ ~m.docLoaded THEN m.timer ELSE "check"
BY DEF Maps, Timers, StartInactiveTimer, Waits, SameLink, SameUser, SameScreen, SameLoad, SameEnd

\* Activate: while the client waits nothing happens.  Otherwise the timer is
\* set anew, and an inactive client wakes up or connects.
LEMMA ActivateEffect ==
    ASSUME NEW m \in Maps, NEW r, r = Activate(m)
    PROVE  /\ r \in Maps /\ SameLink(m, r) /\ r.perm = m.perm
           /\ Waits(m) => r = m
           /\ ~Waits(m) => r.timer = "none" \/ (r.timer = "check" /\ m.docLoaded)
           /\ m.active => SameUser(m, r) /\ SameScreen(m, r) /\ SameLoad(m, r) /\ SameEnd(m, r)
           /\ ~Waits(m) /\ ~m.active /\ m.conn # "open" =>
                 /\ SameUser(m, r) /\ ~Live(r) /\ ~r.docLoaded /\ ~Claims(r)
                 /\ \/ r.conn = "connecting" /\ SameScreen(m, r)
                    \/ r.conn = "closed" /\ r.reported
           /\ ~Waits(m) /\ ~m.active /\ m.conn = "open" =>
                 /\ r.active /\ (m.fatal \/ r.told)
                 /\ SameLoad(m, r) /\ SameEnd(m, r)
<1>1. CASE Waits(m)
  <2>1. r = m
    BY <1>1 DEF Activate, Waits
  <2> QED
    BY <1>1, <2>1 DEF SameLink, SameUser, SameScreen, SameLoad, SameEnd
<1>2. CASE ~Waits(m)
  <2>1. PICK cleared : cleared = [m EXCEPT !.timer = "none"]
    OBVIOUS
  <2>2. /\ cleared \in Maps
        /\ SameLink(m, cleared) /\ SameUser(m, cleared) /\ SameScreen(m, cleared)
        /\ SameLoad(m, cleared) /\ SameEnd(m, cleared)
        /\ cleared.perm = m.perm /\ cleared.timer = "none"
    BY <2>1 DEF Maps, Timers, SameLink, SameUser, SameScreen, SameLoad, SameEnd
  <2>3. CASE m.active
    <3>1. r = StartInactiveTimer(cleared)
      BY <1>2, <2>1, <2>3 DEF Activate, Waits
    <3>2. /\ r \in Maps
          /\ SameLink(cleared, r) /\ SameUser(cleared, r) /\ SameScreen(cleared, r)
          /\ SameLoad(cleared, r) /\ SameEnd(cleared, r) /\ r.perm = cleared.perm
          /\ r.timer = IF Waits(cleared) \/ ~cleared.docLoaded THEN cleared.timer ELSE "check"
      BY <2>2, <3>1, StartInactiveTimerEffect
    <3>3. r.timer = "none" \/ (r.timer = "check" /\ m.docLoaded)
      BY <2>2, <3>2 DEF SameLoad
    <3> QED
      BY Zenon, <1>2, <2>2, <2>3, <3>2, <3>3 DEF SameLink, SameUser, SameScreen, SameLoad, SameEnd
  <2>4. CASE ~m.active /\ ~Connected(m)
    <3>1. PICK l : l = LoadDocument(cleared)
      OBVIOUS
    <3>2. r = StartInactiveTimer(l)
      BY <1>2, <2>1, <2>4, <3>1 DEF Activate, Waits
    <3>3. /\ l \in Maps
          /\ SameLink(cleared, l) /\ SameUser(cleared, l)
          /\ l.timer = cleared.timer /\ l.perm = cleared.perm
          /\ ~Live(l) /\ ~l.docLoaded /\ ~Claims(l)
          /\ \/ l.conn = "connecting" /\ SameScreen(cleared, l)
             \/ l.conn = "closed" /\ l.reported
      BY <2>2, <3>1, LoadDocumentEffect
    <3>4. /\ r \in Maps
          /\ SameLink(l, r) /\ SameUser(l, r) /\ SameScreen(l, r)
          /\ SameLoad(l, r) /\ SameEnd(l, r) /\ r.perm = l.perm
          /\ r.timer = IF Waits(l) \/ ~l.docLoaded THEN l.timer ELSE "check"
      BY <3>2, <3>3, StartInactiveTimerEffect
    <3>5. r.timer = "none"
      BY <2>2, <3>3, <3>4
    <3> QED
      BY <1>2, <2>2, <2>4, <3>3, <3>4, <3>5
         DEF SameLink, SameUser, SameScreen, SameLoad, SameEnd, Claims, Live, Connected
  <2>5. CASE ~m.active /\ Connected(m)
    <3>1. PICK t : t = SendActivity(cleared, TRUE)
      OBVIOUS
    <3>2. PICK awake : awake = [t EXCEPT !.active = TRUE]
      OBVIOUS
    <3>3. r = awake \/ r = StartInactiveTimer(CloseDialog(awake))
      BY <1>2, <2>1, <2>5, <3>1, <3>2 DEF Activate, Waits
    <3>4. /\ t \in Maps
          /\ SameLink(cleared, t) /\ SameLoad(cleared, t) /\ SameEnd(cleared, t)
          /\ t.timer = cleared.timer /\ t.perm = cleared.perm
          /\ cleared.fatal \/ t.told
      BY ZenonT(60), <2>2, <3>1, SendActivityEffect
    <3>5. /\ awake \in Maps
          /\ SameLink(t, awake) /\ SameLoad(t, awake) /\ SameEnd(t, awake)
          /\ awake.timer = t.timer /\ awake.perm = t.perm
          /\ awake.told = t.told /\ awake.active
      BY Zenon, <3>2, <3>4 DEF Maps, SameLink, SameLoad, SameEnd
    <3>6. /\ awake.timer = "none" /\ awake.perm = m.perm
          /\ SameLink(m, awake) /\ SameLoad(m, awake) /\ SameEnd(m, awake)
          /\ m.fatal \/ awake.told
      BY <2>2, <3>4, <3>5 DEF SameLink, SameLoad, SameEnd
    <3>7. CASE r = awake
      BY <1>2, <2>5, <3>5, <3>6, <3>7 DEF Connected
    <3>8. CASE r = StartInactiveTimer(CloseDialog(awake))
      <4>1. PICK c : c = CloseDialog(awake)
        OBVIOUS
      <4>2. /\ c \in Maps
            /\ SameLink(awake, c) /\ SameUser(awake, c) /\ SameLoad(awake, c)
            /\ SameEnd(awake, c) /\ c.timer = awake.timer /\ c.perm = awake.perm
        BY <3>5, <4>1, CloseDialogEffect
      <4>3. /\ r \in Maps
            /\ SameLink(c, r) /\ SameUser(c, r) /\ SameLoad(c, r)
            /\ SameEnd(c, r) /\ r.perm = c.perm
            /\ r.timer = IF Waits(c) \/ ~c.docLoaded THEN c.timer ELSE "check"
        BY <3>8, <4>1, <4>2, StartInactiveTimerEffect
      <4>4. r.timer = "none" \/ (r.timer = "check" /\ m.docLoaded)
        BY <3>6, <4>2, <4>3 DEF SameLoad
      <4>5. SameLink(m, r) /\ SameLoad(m, r) /\ SameEnd(m, r)
        BY <3>6, <4>2, <4>3 DEF SameLink, SameLoad, SameEnd
      <4>6. r.active /\ (m.fatal \/ r.told) /\ r.perm = m.perm
        BY <3>5, <3>6, <4>2, <4>3 DEF SameUser
      <4> QED
        BY <1>2, <2>5, <4>3, <4>4, <4>5, <4>6 DEF Connected
    <3> QED
      BY <3>3, <3>7, <3>8
  <2> QED
    BY <2>3, <2>4, <2>5
<1> QED
  BY <1>1, <1>2

\* Deactivate: only a loaded document is put to sleep, and wsd is told.
LEMMA DeactivateEffect ==
    ASSUME NEW m \in Maps, NEW r, r = Deactivate(m)
    PROVE  /\ r \in Maps /\ r.perm = m.perm
           /\ SameLink(m, r) /\ SameScreen(m, r) /\ SameLoad(m, r) /\ SameEnd(m, r)
           /\ Waits(m) \/ ~m.docLoaded => r = m
           /\ ~Waits(m) => r.timer # "recycle" \/ r = m
           /\ SameUser(m, r) \/ (~r.active /\ (m.conn = "open" /\ ~m.fatal => ~r.told))
<1>1. CASE Waits(m) \/ ~m.docLoaded
  <2>1. r = m
    BY <1>1 DEF Deactivate, Waits
  <2> QED
    BY <2>1 DEF SameLink, SameUser, SameScreen, SameLoad, SameEnd
<1>2. CASE ~Waits(m) /\ m.docLoaded /\ (~m.active \/ m.dialogID # "none")
  <2>1. PICK asleep : asleep = [m EXCEPT !.timer = "none", !.active = FALSE]
    OBVIOUS
  <2>2. r = IF Connected(m) THEN SendActivity(asleep, FALSE) ELSE asleep
    BY <1>2, <2>1 DEF Deactivate, Waits
  <2>3. /\ asleep \in Maps /\ asleep.perm = m.perm
        /\ SameLink(m, asleep) /\ SameScreen(m, asleep) /\ SameLoad(m, asleep)
        /\ SameEnd(m, asleep) /\ asleep.timer = "none" /\ ~asleep.active
    BY Zenon, <2>1 DEF Maps, Timers, SameLink, SameScreen, SameLoad, SameEnd
  <2>4. CASE ~Connected(m)
    BY <1>2, <2>2, <2>3, <2>4 DEF Connected
  <2>5. CASE Connected(m)
    <3>1. r = SendActivity(asleep, FALSE)
      BY <2>2, <2>5
    <3>2. /\ r \in Maps /\ r.perm = asleep.perm /\ r.timer = asleep.timer
          /\ SameLink(asleep, r) /\ SameScreen(asleep, r) /\ SameLoad(asleep, r)
          /\ SameEnd(asleep, r) /\ r.active = asleep.active
          /\ asleep.fatal \/ r.told = FALSE
      BY ZenonT(60), <2>3, <3>1, SendActivityEffect
    <3> QED
      BY <1>2, <2>3, <3>2 DEF SameLink, SameScreen, SameLoad, SameEnd
  <2> QED
    BY <2>4, <2>5
<1>3. CASE ~Waits(m) /\ m.docLoaded /\ ~(~m.active \/ m.dialogID # "none")
  <2>1. r = [m EXCEPT !.timer = "dim"]
    BY <1>3 DEF Deactivate, Waits
  <2>2. /\ r \in Maps /\ r.perm = m.perm /\ r.timer = "dim"
        /\ SameLink(m, r) /\ SameUser(m, r) /\ SameScreen(m, r) /\ SameLoad(m, r)
        /\ SameEnd(m, r)
    BY <2>1 DEF Maps, Timers, SameLink, SameUser, SameScreen, SameLoad, SameEnd
  <2> QED
    BY <1>3, <2>2
<1> QED
  BY <1>1, <1>2, <1>3

\* Dim: a client that goes to sleep is behind an overlay, and wsd is told.
LEMMA DimEffect ==
    ASSUME NEW m \in Maps, NEW long \in BOOLEAN, NEW r, r = Dim(m, long)
    PROVE  /\ r \in Maps /\ r.perm = m.perm
           /\ SameLink(m, r) /\ SameLoad(m, r) /\ SameEnd(m, r)
           /\ r.timer \in {"none", "dim"}
           /\ \/ SameUser(m, r) /\ SameScreen(m, r)
              \/ ~r.active /\ r.conn = "open" /\ (m.fatal \/ ~r.told)
                 /\ r.shown = m.shown \cup {"dim"}
<1>1. PICK fired : fired = [m EXCEPT !.timer = "none"]
  OBVIOUS
<1>2. /\ fired \in Maps /\ fired.perm = m.perm
      /\ SameLink(m, fired) /\ SameLoad(m, fired) /\ SameEnd(m, fired)
      /\ SameUser(m, fired) /\ SameScreen(m, fired) /\ fired.timer = "none"
  BY <1>1 DEF Maps, Timers, SameLink, SameUser, SameScreen, SameLoad, SameEnd
<1>3. CASE m.alwaysActive \/ ~Connected(m)
  <2>1. r = fired
    BY <1>1, <1>3 DEF Dim
  <2> QED
    BY <1>2, <2>1
<1>4. CASE ~(m.alwaysActive \/ ~Connected(m)) /\ ~long
  <2>1. r = [m EXCEPT !.timer = "dim"]
    BY <1>4 DEF Dim
  <2> QED
    BY <2>1 DEF Maps, Timers, SameLink, SameUser, SameScreen, SameLoad, SameEnd
<1>5. CASE ~(m.alwaysActive \/ ~Connected(m)) /\ long
  <2>1. PICK asleep : asleep = [fired EXCEPT !.active = FALSE]
    OBVIOUS
  <2>2. PICK dimmed : dimmed = OpenDialog(asleep, "dim")
    OBVIOUS
  <2>3. r = SendActivity(dimmed, FALSE)
    BY <1>1, <1>5, <2>1, <2>2 DEF Dim
  <2>4. /\ asleep \in Maps /\ asleep.perm = fired.perm
        /\ SameLink(fired, asleep) /\ SameScreen(fired, asleep) /\ SameLoad(fired, asleep)
        /\ SameEnd(fired, asleep) /\ asleep.timer = fired.timer /\ ~asleep.active
    BY ZenonT(60), <1>2, <2>1 DEF Maps, SameLink, SameScreen, SameLoad, SameEnd
  <2>5. /\ dimmed \in Maps /\ dimmed.perm = asleep.perm
        /\ SameLink(asleep, dimmed) /\ SameUser(asleep, dimmed) /\ SameLoad(asleep, dimmed)
        /\ SameEnd(asleep, dimmed) /\ dimmed.timer = asleep.timer
        /\ dimmed.shown = asleep.shown \cup {"dim"}
    <3>1. "dim" \in Dialogs
      BY DEF Dialogs, Overlays
    <3> QED
      BY <2>2, <2>4, <3>1, OpenDialogEffect
  <2>6. /\ r \in Maps /\ r.perm = dimmed.perm /\ r.timer = dimmed.timer
        /\ SameLink(dimmed, r) /\ SameScreen(dimmed, r) /\ SameLoad(dimmed, r)
        /\ SameEnd(dimmed, r) /\ r.active = dimmed.active
        /\ dimmed.fatal \/ r.told = FALSE
    BY ZenonT(60), <2>3, <2>5, SendActivityEffect
  <2>7. SameLink(m, r) /\ SameLoad(m, r) /\ SameEnd(m, r) /\ r.perm = m.perm
    BY <1>2, <2>4, <2>5, <2>6 DEF SameLink, SameLoad, SameEnd
  <2>8. r.shown = m.shown \cup {"dim"}
    BY <1>2, <2>4, <2>5, <2>6 DEF SameScreen
  <2>9. ~r.active /\ (m.fatal \/ ~r.told) /\ r.timer = "none"
    BY <1>2, <2>4, <2>5, <2>6 DEF SameLink, SameUser
  <2>10. r.conn = "open"
    BY <1>5, <2>7 DEF Connected, SameEnd
  <2> QED
    BY <2>6, <2>7, <2>8, <2>9, <2>10
<1> QED
  BY <1>3, <1>4, <1>5

\* SetPermission: a permission it does not know changes nothing.
LEMMA SetPermissionEffect ==
    ASSUME NEW m \in Maps, NEW perm, NEW r, r = SetPermission(m, perm)
    PROVE  /\ r \in Maps
           /\ SameLink(m, r) /\ SameUser(m, r) /\ SameScreen(m, r) /\ SameEnd(m, r)
           /\ r.timer = m.timer /\ r.docLoaded = m.docLoaded
           /\ Claims(r) => Claims(m)
           /\ r.perm = IF perm \in {"edit", "view", "readonly"} THEN perm ELSE m.perm
<1>1. CASE perm \in {"edit", "view", "readonly"}
  <2>1. PICK s : s = [m EXCEPT !.perm = perm]
    OBVIOUS
  <2>2. r = PostLoaded(s, "updatepermission")
    BY <1>1, <2>1 DEF SetPermission
  <2>3. /\ s \in Maps /\ s.perm = perm /\ s.timer = m.timer
        /\ SameLink(m, s) /\ SameUser(m, s) /\ SameScreen(m, s) /\ SameLoad(m, s)
        /\ SameEnd(m, s)
    BY <1>1, <2>1 DEF Maps, SameLink, SameUser, SameScreen, SameLoad, SameEnd
  <2>4. "updatepermission" \in Conditions
    BY DEF Conditions
  <2>5. /\ r \in Maps
        /\ SameLink(s, r) /\ SameUser(s, r) /\ SameScreen(s, r) /\ SameEnd(s, r)
        /\ r.timer = s.timer /\ r.perm = s.perm /\ r.docLoaded = s.docLoaded
        /\ Claims(r) => Claims(s)
    <3>1. Claims(r) => Claims(s) \/ "updatepermission" = "docloaded"
      BY <2>2, <2>3, <2>4, PostLoadedEffect
    <3> QED
      BY <2>2, <2>3, <2>4, <3>1, PostLoadedEffect
  <2> QED
    BY <1>1, <2>3, <2>5 DEF SameLink, SameUser, SameScreen, SameLoad, SameEnd, Claims
<1>2. CASE perm \notin {"edit", "view", "readonly"}
  <2>1. r = m
    BY <1>2 DEF SetPermission
  <2> QED
    BY <1>2, <2>1 DEF SameLink, SameUser, SameScreen, SameEnd
<1> QED
  BY <1>1, <1>2

\* Error: the alert, and editing may end.
LEMMA ErrorEffect ==
    ASSUME NEW m \in Maps, NEW r, r = Error(m)
    PROVE  /\ r \in Maps
           /\ SameLink(m, r) /\ SameUser(m, r) /\ SameEnd(m, r)
           /\ r.timer = m.timer /\ r.docLoaded = m.docLoaded
           /\ Claims(r) => Claims(m)
           /\ r.perm \in {m.perm, "view"}
<1>1. PICK a : a = Alert(m)
  OBVIOUS
<1>2. /\ a \in Maps
      /\ SameLink(m, a) /\ SameUser(m, a) /\ SameLoad(m, a) /\ SameEnd(m, a)
      /\ a.timer = m.timer /\ a.perm = m.perm
  BY <1>1, AlertEffect
<1>3. CASE r = a
  BY <1>2, <1>3 DEF SameLoad, Claims
<1>4. CASE r = SetPermission(a, "view")
  <2>1. /\ r \in Maps
        /\ SameLink(a, r) /\ SameUser(a, r) /\ SameEnd(a, r)
        /\ r.timer = a.timer /\ r.docLoaded = a.docLoaded
        /\ Claims(r) => Claims(a)
    BY <1>2, <1>4, SetPermissionEffect
  <2>2. r.perm = "view"
    BY <1>2, <1>4, SetPermissionEffect
  <2> QED
    BY <1>2, <2>1, <2>2 DEF SameLink, SameUser, SameLoad, SameEnd, Claims
<1> QED
  BY <1>1, <1>3, <1>4 DEF Error

\* DocLoaded: with the focus the client stays awake, without it may sleep.
LEMMA DocLoadedEffect ==
    ASSUME NEW m \in Maps, NEW hasFocus \in BOOLEAN, NEW r, r = DocLoaded(m, hasFocus),
           ~Waits(m), m.active, m.timer = "none"
    PROVE  /\ r \in Maps /\ r.perm = m.perm
           /\ SameLink(m, r) /\ SameEnd(m, r) /\ r.docLoaded /\ r.timer # "recycle"
           /\ SameUser(m, r) \/ (~r.active /\ (m.conn = "open" /\ ~m.fatal => ~r.told))
           /\ hasFocus => r.active
<1>1. PICK p : p = PostLoaded(m, "docloaded")
  OBVIOUS
<1>2. PICK loaded : loaded = [p EXCEPT !.docLoaded = TRUE]
  OBVIOUS
<1>3. r = IF hasFocus THEN Activate(loaded) ELSE Deactivate(loaded)
  BY <1>1, <1>2 DEF DocLoaded
<1>4. "docloaded" \in Conditions
  BY DEF Conditions
<1>5. /\ p \in Maps
      /\ SameLink(m, p) /\ SameUser(m, p) /\ SameScreen(m, p) /\ SameEnd(m, p)
      /\ p.timer = m.timer /\ p.perm = m.perm
  BY <1>1, <1>4, PostLoadedEffect
<1>6. /\ loaded \in Maps
      /\ SameLink(p, loaded) /\ SameUser(p, loaded) /\ SameEnd(p, loaded)
      /\ loaded.timer = p.timer /\ loaded.perm = p.perm /\ loaded.docLoaded
  BY <1>2, <1>5 DEF Maps, SameLink, SameUser, SameEnd
<1>7. /\ SameLink(m, loaded) /\ SameUser(m, loaded) /\ SameEnd(m, loaded)
      /\ loaded.perm = m.perm /\ loaded.timer = "none" /\ ~Waits(loaded) /\ loaded.active
  BY <1>5, <1>6 DEF SameLink, SameUser, SameEnd, Waits
<1>8. CASE hasFocus
  <2>1. r = Activate(loaded)
    BY <1>3, <1>8
  <2>2. /\ r \in Maps /\ SameLink(loaded, r) /\ r.perm = loaded.perm
        /\ r.timer = "none" \/ r.timer = "check"
        /\ SameUser(loaded, r) /\ SameLoad(loaded, r) /\ SameEnd(loaded, r)
    BY <1>6, <1>7, <2>1, ActivateEffect
  <2> QED
    BY <1>6, <1>7, <2>2 DEF SameLink, SameUser, SameEnd, SameLoad
<1>9. CASE ~hasFocus
  <2>1. r = Deactivate(loaded)
    BY <1>3, <1>9
  <2>2. /\ r \in Maps /\ r.perm = loaded.perm
        /\ SameLink(loaded, r) /\ SameLoad(loaded, r) /\ SameEnd(loaded, r)
        /\ r.timer # "recycle" \/ r = loaded
        /\ \/ SameUser(loaded, r)
           \/ ~r.active /\ (loaded.conn = "open" /\ ~loaded.fatal => ~r.told)
    BY <1>6, <1>7, <2>1, DeactivateEffect
  <2> QED
    BY <1>6, <1>7, <1>9, <2>2 DEF SameLink, SameUser, SameEnd, SameLoad
<1> QED
  BY <1>8, <1>9

\* StatusOf: the permission is the option's, and the document is loaded.
LEMMA StatusOfEffect ==
    ASSUME NEW m \in Maps, focused \in BOOLEAN, NEW r, r = StatusOf(m),
           ~Waits(m), m.active, m.timer = "none", m.docLayer => m.reconnecting
    PROVE  /\ r \in Maps /\ r.perm = m.optPerm
           /\ r.fatal = m.fatal /\ r.recycling = m.recycling /\ r.idle = m.idle
           /\ r.optPerm = m.optPerm /\ r.gone = m.gone
           /\ SameEnd(m, r) /\ r.docLoaded /\ r.timer # "recycle"
           /\ SameUser(m, r) \/ (~r.active /\ (m.conn = "open" /\ ~m.fatal => ~r.told))
           /\ focused => r.active
<1>1. PICK s : s = IF ~m.docLayer THEN [m EXCEPT !.docLayer = TRUE]
                   ELSE [m EXCEPT !.reconnecting = FALSE]
  OBVIOUS
<1>2. PICK p : p = SetPermission(s, m.optPerm)
  OBVIOUS
<1>3. r = DocLoaded(p, focused)
  <2>1. CASE ~m.docLayer
    BY <1>1, <1>2, <2>1 DEF StatusOf
  <2>2. CASE m.docLayer
    BY <1>1, <1>2, <2>2 DEF StatusOf
  <2> QED
    BY <2>1, <2>2
<1>4. /\ s \in Maps /\ s.timer = m.timer
      /\ s.fatal = m.fatal /\ s.recycling = m.recycling /\ s.idle = m.idle
      /\ s.optPerm = m.optPerm /\ s.gone = m.gone
      /\ SameUser(m, s) /\ SameEnd(m, s)
  BY ZenonT(60), <1>1 DEF Maps, SameUser, SameEnd
<1>5. m.optPerm \in {"edit", "view", "readonly"}
  BY DEF Maps
<1>6. /\ p \in Maps
      /\ SameLink(s, p) /\ SameUser(s, p) /\ SameEnd(s, p)
      /\ p.timer = s.timer /\ p.perm = m.optPerm
  BY <1>2, <1>4, <1>5, SetPermissionEffect
<1>7. ~Waits(p) /\ p.active /\ p.timer = "none"
  BY <1>4, <1>6 DEF Waits, SameLink, SameUser
<1>8. /\ r \in Maps /\ r.perm = p.perm
      /\ SameLink(p, r) /\ SameEnd(p, r) /\ r.docLoaded /\ r.timer # "recycle"
      /\ SameUser(p, r) \/ (~r.active /\ (p.conn = "open" /\ ~p.fatal => ~r.told))
      /\ focused => r.active
  BY <1>3, <1>6, <1>7, DocLoadedEffect
<1> QED
  BY Zenon, <1>4, <1>6, <1>8 DEF SameLink, SameUser, SameEnd

\* SendMessage: nothing happens, or an active client connects to send it.
LEMMA SendMessageEffect ==
    ASSUME NEW m \in Maps, NEW r, r = SendMessage(m)
    PROVE  /\ r \in Maps
           /\ SameLink(m, r) /\ SameUser(m, r) /\ r.timer = m.timer /\ r.perm = m.perm
           /\ \/ SameScreen(m, r) /\ SameLoad(m, r) /\ SameEnd(m, r)
              \/ /\ m.active /\ ~Live(r) /\ ~r.docLoaded /\ ~Claims(r)
                 /\ \/ r.conn = "connecting" /\ SameScreen(m, r) /\ r.reported = m.reported
                    \/ r.conn = "closed" /\ r.reported
<1>1. CASE m.fatal \/ ~m.active \/ m.conn = "open"
  <2>1. r = m
    BY <1>1 DEF SendMessage
  <2> QED
    BY <2>1 DEF SameLink, SameUser, SameScreen, SameLoad, SameEnd
<1>2. CASE ~(m.fatal \/ ~m.active \/ m.conn = "open") /\ m.conn = "connecting"
  <2>1. r = [m EXCEPT !.queue = Append(@, "input")]
    BY <1>2 DEF SendMessage
  <2>2. Append(m.queue, "input") \in Seq({"input"})
    BY DEF Maps
  <2> QED
    BY ZenonT(60), <2>1, <2>2 DEF Maps, SameLink, SameUser, SameScreen, SameLoad, SameEnd
<1>3. CASE ~(m.fatal \/ ~m.active \/ m.conn = "open") /\ m.conn # "connecting"
  <2>1. PICK l : l = LoadDocument(m)
    OBVIOUS
  <2>2. r = [l EXCEPT !.queue = Append(@, "input")]
    BY <1>3, <2>1 DEF SendMessage
  <2>3. /\ l \in Maps
        /\ SameLink(m, l) /\ SameUser(m, l) /\ l.timer = m.timer /\ l.perm = m.perm
        /\ ~Live(l) /\ ~l.docLoaded /\ ~Claims(l)
        /\ \/ l.conn = "connecting" /\ SameScreen(m, l) /\ l.reported = m.reported
           \/ l.conn = "closed" /\ l.reported
    BY <2>1, LoadDocumentEffect
  <2>4. Append(l.queue, "input") \in Seq({"input"})
    BY <2>3 DEF Maps
  <2>5. /\ r \in Maps
        /\ SameLink(l, r) /\ SameUser(l, r) /\ SameScreen(l, r) /\ SameLoad(l, r)
        /\ SameEnd(l, r) /\ r.timer = l.timer /\ r.perm = l.perm
    BY ZenonT(60), <2>2, <2>3, <2>4 DEF Maps, SameLink, SameUser, SameScreen, SameLoad, SameEnd
  <2> QED
    BY <1>3, <2>3, <2>5
       DEF SameLink, SameUser, SameScreen, SameLoad, SameEnd, Claims, Live
<1> QED
  BY <1>1, <1>2, <1>3

\* Disconnected: the second attempt in a row that fails is reported, a first
\* one is followed by another, unless the client waits.
LEMMA DisconnectedEffect ==
    ASSUME NEW m \in Maps, NEW r, r = Disconnected(m)
    PROVE  /\ r \in Maps
           /\ r.fatal = m.fatal /\ r.recycling = m.recycling /\ r.idle = m.idle
           /\ r.optPerm = m.optPerm /\ r.gone = m.gone
           /\ ~r.active /\ ~Live(r) /\ ~r.docLoaded /\ ~Claims(r)
           /\ \/ r.conn = "closed" /\ r.reported /\ r.timer = m.timer
              \/ /\ r.conn = "closed" /\ ((m.reconnecting /\ ~m.active) \/ Waits(m))
                 /\ SameScreen(m, r) /\ r.timer = m.timer /\ r.reported = m.reported
              \/ ~Waits(m) /\ r.timer = "none" /\ (r.reported \/ r.conn = "connecting")
<1>1. PICK closed : closed = [m EXCEPT !.conn = "closed", !.active = FALSE]
  OBVIOUS
<1>2. /\ closed \in Maps /\ closed.conn = "closed" /\ ~closed.active
      /\ SameLink(m, closed) /\ SameScreen(m, closed)
      /\ closed.timer = m.timer /\ closed.reported = m.reported
  BY Zenon, <1>1 DEF Maps, SameLink, SameScreen
<1>3. CASE m.active /\ m.reconnecting
  <2>1. PICK e : e = Error(closed)
    OBVIOUS
  <2>2. PICK shown : shown = [e EXCEPT !.reported = TRUE]
    OBVIOUS
  <2>3. r = Unload(shown)
    BY <1>1, <1>3, <2>1, <2>2 DEF Disconnected
  <2>4. /\ e \in Maps
        /\ SameLink(closed, e) /\ SameUser(closed, e) /\ SameEnd(closed, e)
        /\ e.timer = closed.timer
    BY <1>2, <2>1, ErrorEffect
  <2>5. /\ shown \in Maps
        /\ SameLink(e, shown) /\ SameUser(e, shown) /\ shown.conn = e.conn
        /\ shown.timer = e.timer /\ shown.reported
    BY <2>2, <2>4 DEF Maps, SameLink, SameUser
  <2>6. /\ r \in Maps
        /\ SameLink(shown, r) /\ SameUser(shown, r) /\ SameEnd(shown, r)
        /\ r.timer = shown.timer /\ ~r.docLoaded /\ ~Claims(r)
    BY <2>3, <2>5, UnloadEffect
  <2> QED
    BY <1>2, <2>4, <2>5, <2>6 DEF SameLink, SameUser, SameEnd, Live
<1>4. CASE ~(m.active /\ m.reconnecting)
  <2>1. PICK off : off = Unload(closed)
    OBVIOUS
  <2>2. /\ off \in Maps
        /\ SameLink(closed, off) /\ SameUser(closed, off) /\ SameScreen(closed, off)
        /\ SameEnd(closed, off) /\ off.timer = closed.timer
        /\ ~off.docLoaded /\ ~Claims(off)
    BY <1>2, <2>1, UnloadEffect
  <2>3. /\ SameLink(m, off) /\ SameScreen(m, off) /\ off.timer = m.timer
        /\ off.reported = m.reported /\ off.conn = "closed" /\ ~off.active
    BY <1>2, <2>2 DEF SameLink, SameUser, SameScreen, SameEnd
  <2>4. CASE m.reconnecting
    <3>1. r = off
      BY <1>1, <1>4, <2>1, <2>4 DEF Disconnected
    <3> QED
      BY <1>4, <2>2, <2>3, <2>4, <3>1 DEF SameLink, Live
  <2>5. CASE ~m.reconnecting
    <3>1. PICK again : again = [off EXCEPT !.reconnecting = TRUE]
      OBVIOUS
    <3>2. r = Activate(again)
      BY <1>1, <1>4, <2>1, <2>5, <3>1 DEF Disconnected
    <3>3. /\ again \in Maps
          /\ again.fatal = m.fatal /\ again.recycling = m.recycling /\ again.idle = m.idle
          /\ again.optPerm = m.optPerm /\ again.gone = m.gone
          /\ SameScreen(m, again) /\ again.timer = m.timer /\ again.reported = m.reported
          /\ again.conn = "closed" /\ ~again.active /\ ~again.docLoaded /\ ~Claims(again)
      <4>1. /\ again \in Maps
            /\ again.fatal = off.fatal /\ again.recycling = off.recycling
            /\ again.idle = off.idle /\ again.optPerm = off.optPerm /\ again.gone = off.gone
            /\ SameUser(off, again) /\ SameScreen(off, again) /\ SameLoad(off, again)
            /\ SameEnd(off, again) /\ again.timer = off.timer
        BY Zenon, <2>2, <3>1 DEF Maps, SameUser, SameScreen, SameLoad, SameEnd
      <4> QED
        BY <2>2, <2>3, <4>1
           DEF SameLink, SameUser, SameScreen, SameLoad, SameEnd, Claims
    <3>4. CASE Waits(m)
      <4>1. r = again
        BY <3>2, <3>3, <3>4, ActivateEffect DEF Waits
      <4> QED
        BY <3>3, <3>4, <4>1 DEF Live
    <3>5. CASE ~Waits(m)
      <4>1. ~Waits(again) /\ again.conn # "open"
        BY <3>3, <3>5 DEF Waits
      <4>2. /\ r \in Maps /\ SameLink(again, r)
            /\ r.timer = "none" \/ (r.timer = "check" /\ again.docLoaded)
            /\ SameUser(again, r) /\ ~Live(r) /\ ~r.docLoaded /\ ~Claims(r)
            /\ r.conn = "connecting" \/ (r.conn = "closed" /\ r.reported)
        BY <3>2, <3>3, <4>1, ActivateEffect
      <4> QED
        BY <3>3, <3>5, <4>2 DEF SameLink, SameUser
    <3> QED
      BY <3>4, <3>5
  <2> QED
    BY <2>4, <2>5
<1> QED
  BY <1>3, <1>4

-----------------------------------------------------------------------------
(* The steps.  Each is put together from the effects of its operators; the *)
(* conjuncts of the invariant are visible in all of them.                  *)

Covering(m, r) == Covered(m) => Covered(r)

\* A dialog that is no overlay, or is not on the screen, may go.
LEMMA CoveredStays ==
    ASSUME NEW m, NEW r, NEW kinds, r.shown = (m.shown \ {m.dialogID}) \cup kinds,
           m.dialogID \notin Overlays \cap m.shown
    PROVE  Covering(m, r)
BY DEF Covering, Covered

\* An overlay that comes covers.
LEMMA CoveredComes ==
    ASSUME NEW r, NEW kind \in Overlays, kind \in r.shown
    PROVE  Covered(r)
BY DEF Covered

LEMMA ScreenStays ==
    ASSUME NEW m, NEW r, SameScreen(m, r)
    PROVE  Covered(m) <=> Covered(r)
BY DEF Covered, SameScreen

\* As long as the connection serves, the client waits for nothing.
LEMMA ServedWaitsNot ==
    ASSUME ConnInv, map.conn = "open", stage # "closing"
    PROVE  ~Waits(map)
BY DEF ConnInv, WaitingIsClosing, Live

LEMMA EmptyIsAQueue == <<>> \in Seq({"input"})
OBVIOUS

\* The state in which _onSocketOpen calls _activate.
Opened(m, again) ==
    [m EXCEPT !.conn = "open", !.recycling = FALSE, !.idle = FALSE,
              !.reconnecting = again, !.queue = <<>>, !.told = TRUE, !.reported = FALSE]

LEMMA OpenedEffect ==
    ASSUME NEW m \in Maps, NEW again \in BOOLEAN, NEW r, r = Opened(m, again)
    PROVE  /\ r \in Maps /\ SameLoad(m, r)
           /\ r.conn = "open" /\ ~r.recycling /\ ~r.idle /\ r.told
           /\ r.docLayer = m.docLayer /\ r.optPerm = m.optPerm /\ r.gone = m.gone
           /\ r.reconnecting = again
<1>1. PICK o : o = [m EXCEPT !.conn = "open", !.recycling = FALSE, !.idle = FALSE,
                             !.told = TRUE, !.reported = FALSE]
  OBVIOUS
<1>2. PICK a : a = [o EXCEPT !.reconnecting = again]
  OBVIOUS
<1>3. PICK nothing \in Seq({"input"}) : nothing = <<>>
  BY EmptyIsAQueue
<1>4. r = [a EXCEPT !.queue = nothing]
  BY <1>1, <1>2, <1>3 DEF Opened
<1>5. /\ o \in Maps /\ SameLoad(m, o)
      /\ o.conn = "open" /\ ~o.recycling /\ ~o.idle /\ o.told
      /\ o.docLayer = m.docLayer /\ o.optPerm = m.optPerm /\ o.gone = m.gone
  BY ZenonT(60), <1>1 DEF Maps, SameLoad
<1>6. /\ a \in Maps /\ SameLoad(o, a)
      /\ a.conn = o.conn /\ a.recycling = o.recycling /\ a.idle = o.idle /\ a.told = o.told
      /\ a.docLayer = o.docLayer /\ a.optPerm = o.optPerm /\ a.gone = o.gone
      /\ a.reconnecting = again
  BY <1>2, <1>5 DEF Maps, SameLoad
<1>7. /\ r \in Maps /\ SameLoad(a, r)
      /\ r.conn = a.conn /\ r.recycling = a.recycling /\ r.idle = a.idle /\ r.told = a.told
      /\ r.docLayer = a.docLayer /\ r.optPerm = a.optPerm /\ r.gone = a.gone
      /\ r.reconnecting = a.reconnecting
  BY ZenonT(60), <1>6, <1>4 DEF Maps, SameLoad
<1> QED
  BY <1>5, <1>6, <1>7 DEF SameLoad

USE DEF ConnInv, ServerKnowsActivity, LoadedIsLive, RecyclingIsWaitedFor,
        RecycleTimerIsItsOwn, GoneIsClosed, WaitingIsClosing, LoadingIsAwake,
        WaitingIsCovered, InactiveIsShown, EndIsKnown, ReadOnlyIsAsked

LEMMA InitStep == ConnInit => ConnInv
<1> SUFFICES ASSUME ConnInit PROVE ConnInv
  OBVIOUS
<1>1. PICK always \in BOOLEAN :
          map = [conn |-> "connecting", queue |-> <<>>, active |-> TRUE, fatal |-> FALSE,
                 recycling |-> FALSE, idle |-> FALSE, docLoaded |-> FALSE, docLayer |-> FALSE,
                 reconnecting |-> FALSE, retries |-> 0, dialogID |-> "none", shown |-> {},
                 prompt |-> FALSE, timer |-> "none", optPerm |-> "edit", perm |-> "none",
                 appLoaded |-> FALSE, conditions |-> {}, told |-> TRUE,
                 alwaysActive |-> always, reported |-> FALSE, refused |-> FALSE, gone |-> FALSE]
  BY DEF ConnInit
<1>2. map \in Maps
  BY <1>1, ConnAssumption DEF Maps, Timers
<1>3. ConnTypeOK
  <2>1. readonly \in BOOLEAN /\ focused \in BOOLEAN
    BY DEF ConnInit
  <2>2. faults \in 0..MaxFaults
    BY ConnAssumption DEF ConnInit
  <2>3. stage = "new" /\ excuse \in Excuses
    BY DEF ConnInit, Excuses
  <2> QED
    BY <1>2, <2>1, <2>2, <2>3 DEF ConnTypeOK
<1>4. /\ map.conn = "connecting" /\ map.active /\ ~map.docLoaded /\ ~map.appLoaded
      /\ map.conditions = {} /\ ~map.recycling /\ ~map.idle /\ ~map.gone
      /\ map.timer = "none" /\ ~readonly
  BY <1>1 DEF ConnInit
<1> QED
  BY <1>3, <1>4 DEF Waits, Live

LEMMA OnSocketOpenStep == ASSUME ConnInv, OnSocketOpen PROVE ConnInv'
<1>1. map \in Maps
  BY DEF ConnTypeOK
<1>2. PICK again \in BOOLEAN :
          /\ again = (IF map.docLayer THEN TRUE ELSE map.reconnecting)
          /\ map.docLayer => again
  BY <1>1 DEF Maps
<1>3. PICK m : m = Opened(map, again)
  OBVIOUS
<1>4. map' = Activate(m)
  BY <1>2, <1>3 DEF OnSocketOpen, Opened
<1>5. /\ m \in Maps
      /\ m.conn = "open" /\ ~m.recycling /\ ~m.idle /\ m.told
      /\ m.docLayer = map.docLayer /\ m.optPerm = map.optPerm /\ m.gone = map.gone
      /\ SameLoad(map, m)
      /\ m.docLayer => m.reconnecting
  <2>1. map.docLayer => again
    BY <1>2
  <2> QED
    BY <1>1, <1>3, <2>1, OpenedEffect
<1>6. ~m.docLoaded /\ ~Claims(m) /\ ~m.gone /\ ~Waits(m)
  BY <1>5 DEF OnSocketOpen, SameLoad, Claims, Live, Waits
<1>7. /\ map' \in Maps /\ SameLink(m, map') /\ SameLoad(m, map') /\ SameEnd(m, map')
      /\ map'.timer = "none" /\ map'.active /\ (map'.fatal \/ map'.told)
  BY <1>4, <1>5, <1>6, ActivateEffect DEF SameLink, SameUser
<1>8. ConnTypeOK'
  BY <1>7 DEF ConnTypeOK, OnSocketOpen
<1>9. /\ map'.conn = "open" /\ ~map'.docLoaded /\ ~Claims(map)' /\ ~Waits(map)'
      /\ (map'.docLayer => map'.reconnecting) /\ ~map'.gone /\ map'.optPerm = map.optPerm
  BY <1>5, <1>6, <1>7 DEF SameLink, SameLoad, SameEnd, Claims, Waits
<1> QED
  BY <1>7, <1>8, <1>9 DEF OnSocketOpen, Waits, Claims, Live

LEMMA LoseConnectionStep == ASSUME ConnInv, LoseConnection PROVE ConnInv'
<1>1. map \in Maps
  BY DEF ConnTypeOK
<1>2. map' = [map EXCEPT !.conn = "lost"]
  BY DEF LoseConnection
<1>3. /\ map' \in Maps /\ map'.conn = "lost"
      /\ SameLink(map, map') /\ SameUser(map, map') /\ SameScreen(map, map')
      /\ SameLoad(map, map') /\ map'.timer = map.timer /\ map'.perm = map.perm
  BY <1>1, <1>2 DEF Maps, SameLink, SameUser, SameScreen, SameLoad
<1>4. faults' \in 0..MaxFaults
  BY ConnAssumption DEF ConnTypeOK, LoseConnection, Fault
<1>5. ConnTypeOK'
  BY <1>3, <1>4 DEF ConnTypeOK, LoseConnection
<1>6. Covered(map) <=> Covered(map')
  BY <1>3, ScreenStays
<1> QED
  BY <1>3, <1>5, <1>6 DEF LoseConnection, Waits, Live, SameLink, SameLoad

LEMMA OnSocketCloseStep == ASSUME ConnInv, OnSocketClose PROVE ConnInv'
<1>1. map \in Maps
  BY DEF ConnTypeOK
<1>2. map' = Disconnected(map)
  BY DEF OnSocketClose
<1>3. /\ map' \in Maps
      /\ map'.fatal = map.fatal /\ map'.recycling = map.recycling /\ map'.idle = map.idle
      /\ map'.optPerm = map.optPerm /\ map'.gone = map.gone
      /\ ~map'.active /\ ~Live(map') /\ ~map'.docLoaded /\ ~Claims(map')
      /\ \/ map'.conn = "closed" /\ map'.reported /\ map'.timer = map.timer
         \/ /\ map'.conn = "closed" /\ ((map.reconnecting /\ ~map.active) \/ Waits(map))
            /\ SameScreen(map, map') /\ map'.timer = map.timer
            /\ map'.reported = map.reported
         \/ ~Waits(map) /\ map'.timer = "none" /\ (map'.reported \/ map'.conn = "connecting")
  BY <1>1, <1>2, DisconnectedEffect
<1>4. faults' \in 0..MaxFaults
  BY ConnAssumption DEF ConnTypeOK, OnSocketClose, Fault
<1>5. /\ excuse' \in Excuses
      /\ excuse' = "none" => excuse = "none" /\ ~GivesUpSilently(map)
  BY DEF ConnTypeOK, OnSocketClose, Excuse, Excuses
<1>6. ConnTypeOK'
  BY <1>3, <1>4, <1>5 DEF ConnTypeOK, OnSocketClose
<1>7. SameScreen(map, map') => (Covered(map) <=> Covered(map'))
  BY ScreenStays
<1>8. map.conn # "closed" /\ ~map.gone
  BY DEF OnSocketClose
<1>9. WaitingIsCovered' /\ EndIsKnown'
  BY <1>3, <1>5, <1>7, <1>8 DEF Waits, Live, GivesUpSilently
<1> QED
  BY <1>3, <1>5, <1>6, <1>8, <1>9 DEF OnSocketClose, Waits, Live, Claims

LEMMA OnReadyStep == ASSUME ConnInv, OnReady PROVE ConnInv'
<1>1. map \in Maps /\ ~Waits(map)
  BY ServedWaitsNot DEF ConnTypeOK, OnReady, Receive
<1>2. PICK c : c = CloseDialog(map)
  OBVIOUS
<1>3. map' = [c EXCEPT !.retries = 0, !.timer = "none"]
  BY <1>2 DEF OnReady, Receive
<1>4. /\ c \in Maps
      /\ SameLink(map, c) /\ SameUser(map, c) /\ SameLoad(map, c) /\ SameEnd(map, c)
      /\ c.perm = map.perm
  BY <1>1, <1>2, CloseDialogEffect
<1>5. 0 \in 0..(MaxRetries + 1)
  BY ConnAssumption
<1>6. /\ map' \in Maps /\ map'.timer = "none"
      /\ SameLink(c, map') /\ SameUser(c, map') /\ SameLoad(c, map') /\ SameEnd(c, map')
      /\ map'.perm = c.perm
  BY Zenon, <1>3, <1>4, <1>5 DEF Maps, Timers, SameLink, SameUser, SameLoad, SameEnd
<1>7. /\ SameLink(map, map') /\ SameUser(map, map') /\ SameLoad(map, map')
      /\ SameEnd(map, map') /\ map'.perm = map.perm
  BY <1>4, <1>6 DEF SameLink, SameUser, SameLoad, SameEnd
<1>8. ConnTypeOK'
  BY <1>6 DEF ConnTypeOK, OnReady, Receive, Calmly
<1> QED
  BY <1>1, <1>6, <1>7, <1>8
     DEF OnReady, Receive, Calmly, Waits, Live, SameLink, SameUser, SameLoad, SameEnd

LEMMA OnPermStep == ASSUME ConnInv, OnPerm PROVE ConnInv'
<1>1. map \in Maps /\ ~Waits(map)
  BY ServedWaitsNot DEF ConnTypeOK, OnPerm, Receive
<1>2. map' = [map EXCEPT !.optPerm = "readonly"]
  BY DEF OnPerm, Receive, MakeReadOnly, SetPermission
<1>3. /\ map' \in Maps /\ map'.optPerm = "readonly"
      /\ map'.fatal = map.fatal /\ map'.recycling = map.recycling /\ map'.idle = map.idle
      /\ map'.docLayer = map.docLayer /\ map'.reconnecting = map.reconnecting
      /\ map'.gone = map.gone /\ map'.timer = map.timer /\ SameUser(map, map')
      /\ SameScreen(map, map') /\ SameLoad(map, map') /\ SameEnd(map, map')
  BY <1>1, <1>2 DEF Maps, SameUser, SameScreen, SameLoad, SameEnd
<1>4. ConnTypeOK'
  BY <1>3 DEF ConnTypeOK, OnPerm, Receive
<1> QED
  BY <1>1, <1>3, <1>4
     DEF OnPerm, Receive, Waits, Live, SameUser, SameScreen, SameLoad, SameEnd

LEMMA OnStatusStep == ASSUME ConnInv, OnStatus PROVE ConnInv'
<1>1. map \in Maps /\ focused \in BOOLEAN /\ ~Waits(map)
  BY ServedWaitsNot DEF ConnTypeOK, OnStatus, Receive
<1>2. map.active /\ map.timer = "none" /\ (map.docLayer => map.reconnecting)
  BY DEF OnStatus, Receive
<1>3. map' = StatusOf(map)
  BY DEF OnStatus, Receive
<1>4. /\ map' \in Maps /\ map'.perm = map.optPerm
      /\ map'.fatal = map.fatal /\ map'.recycling = map.recycling /\ map'.idle = map.idle
      /\ map'.optPerm = map.optPerm /\ map'.gone = map.gone
      /\ SameEnd(map, map') /\ map'.docLoaded /\ map'.timer # "recycle"
      /\ \/ SameUser(map, map')
         \/ ~map'.active /\ (map.conn = "open" /\ ~map.fatal => ~map'.told)
      /\ focused => map'.active
  BY <1>1, <1>2, <1>3, StatusOfEffect
<1>5. ConnTypeOK'
  BY <1>4 DEF ConnTypeOK, OnStatus, Receive, Calmly
<1>6. map'.told \in BOOLEAN /\ map'.active \in BOOLEAN
  BY <1>4 DEF Maps
<1>7. ServerKnowsActivity'
  BY <1>4, <1>6 DEF OnStatus, Receive, SameUser
<1> QED
  BY <1>1, <1>4, <1>5, <1>7 DEF OnStatus, Receive, Calmly, Waits, Live, SameEnd

LEMMA OnViewInfoStep == ASSUME ConnInv, OnViewInfo PROVE ConnInv'
<1>1. map \in Maps /\ ~Waits(map)
  BY ServedWaitsNot DEF ConnTypeOK, OnViewInfo, Receive
<1>2. map' = PostLoaded(map, "viewinfo") /\ "viewinfo" \in Conditions
  BY DEF OnViewInfo, Receive, Conditions
<1>3. /\ map' \in Maps
      /\ SameLink(map, map') /\ SameUser(map, map') /\ SameScreen(map, map')
      /\ SameEnd(map, map') /\ map'.timer = map.timer /\ map'.perm = map.perm
      /\ map'.docLoaded = map.docLoaded
  BY <1>1, <1>2, PostLoadedEffect
<1>4. Claims(map') => Claims(map) \/ "viewinfo" = "docloaded"
  BY <1>1, <1>2, PostLoadedEffect
<1>5. ConnTypeOK'
  BY <1>3 DEF ConnTypeOK, OnViewInfo, Receive, Calmly
<1>6. Covered(map) <=> Covered(map')
  BY <1>3, ScreenStays
<1> QED
  BY <1>1, <1>3, <1>4, <1>5, <1>6
     DEF OnViewInfo, Receive, Calmly, Waits, Live, Claims, Covered, SameLink, SameUser, SameEnd

\* A message about storage leaves the connection as it is, and changes the dialog.
LEMMA DialogStep ==
    ASSUME ConnInv, map.conn = "open", stage = "loaded", stage' = stage,
           UNCHANGED <<focused, readonly, faults>>,
           map' \in Maps,
           SameLink(map, map') /\ SameUser(map, map') /\ SameLoad(map, map')
               /\ SameEnd(map, map') /\ map'.timer = map.timer /\ map'.perm = map.perm,
           NEW hole \in Excuses, Excuse(hole, Uncovers(map)), hole # "none",
           NEW kinds, Shows(map, map', kinds) \/ map.fatal
    PROVE  ConnInv'
<1>1. ~Waits(map)
  BY ServedWaitsNot
<1>2. /\ excuse' \in Excuses
      /\ excuse' = "none" => excuse = "none" /\ ~Uncovers(map)
  BY DEF Excuse, ConnTypeOK
<1>3. ConnTypeOK'
  BY <1>2 DEF ConnTypeOK
<1>4. InactiveIsShown'
  <2> SUFFICES ASSUME map'.conn = "open", ~map'.active, focused', ~map'.fatal, excuse' = "none"
               PROVE  Covered(map')
    BY DEF Covered
  <2>1. Covered(map) /\ ~map.active /\ ~map.fatal
    BY <1>2 DEF Covered, SameLink, SameUser
  <2>2. map.dialogID \notin Overlays \cap map.shown
    BY <1>2, <2>1 DEF Uncovers
  <2>3. map'.shown = (map.shown \ {map.dialogID}) \cup kinds
    BY <2>1 DEF Shows
  <2> QED
    BY <2>1, <2>2, <2>3, CoveredStays DEF Covering
<1> QED
  BY <1>1, <1>3, <1>4 DEF Waits, Live, SameLink, SameUser, SameLoad, SameEnd

LEMMA OnSavedStep == ASSUME ConnInv, OnSaved PROVE ConnInv'
<1>1. map \in Maps
  BY DEF ConnTypeOK
<1>2. map' = CloseDialog(map)
  BY DEF OnSaved, Receive
<1>3. /\ map' \in Maps
      /\ SameLink(map, map') /\ SameUser(map, map') /\ SameLoad(map, map')
      /\ SameEnd(map, map') /\ map'.timer = map.timer /\ map'.perm = map.perm
      /\ Shows(map, map', {})
  BY <1>1, <1>2, CloseDialogEffect
<1>4. "saved" \in Excuses
  BY DEF Excuses
<1>5. /\ map.conn = "open" /\ stage = "loaded" /\ stage' = stage
      /\ UNCHANGED <<focused, readonly, faults>> /\ Excuse("saved", Uncovers(map))
  BY DEF OnSaved, Receive
<1> QED
  BY <1>3, <1>4, <1>5, DialogStep

LEMMA OnStorageErrorStep == ASSUME ConnInv, OnStorageError PROVE ConnInv'
<1>1. map \in Maps
  BY DEF ConnTypeOK
<1>2. map' = Alert(map)
  BY DEF OnStorageError, Receive
<1>3. /\ map' \in Maps
      /\ SameLink(map, map') /\ SameUser(map, map') /\ SameLoad(map, map')
      /\ SameEnd(map, map') /\ map'.timer = map.timer /\ map'.perm = map.perm
      /\ Shows(map, map', {"alert"}) \/ map.fatal
  BY <1>1, <1>2, AlertEffect
<1>4. "alert" \in Excuses
  BY DEF Excuses
<1>5. /\ map.conn = "open" /\ stage = "loaded" /\ stage' = stage
      /\ UNCHANGED <<focused, readonly, faults>> /\ Excuse("alert", Uncovers(map))
  BY DEF OnStorageError, Receive
<1> QED
  BY <1>3, <1>4, <1>5, DialogStep

LEMMA OnConflictStep == ASSUME ConnInv, OnConflict PROVE ConnInv'
<1>1. map \in Maps /\ "conflict" \in Dialogs
  BY DEF ConnTypeOK, Dialogs
<1>2. PICK c : c = CloseDialog(map)
  OBVIOUS
<1>3. map' = OpenDialog(c, "conflict")
  BY <1>2 DEF OnConflict, Receive
<1>4. /\ c \in Maps
      /\ SameLink(map, c) /\ SameUser(map, c) /\ SameLoad(map, c)
      /\ SameEnd(map, c) /\ c.timer = map.timer /\ c.perm = map.perm
      /\ Shows(map, c, {})
  BY <1>1, <1>2, CloseDialogEffect
<1>5. /\ map' \in Maps
      /\ SameLink(c, map') /\ SameUser(c, map') /\ SameLoad(c, map')
      /\ SameEnd(c, map') /\ map'.timer = c.timer /\ map'.perm = c.perm
      /\ map'.shown = c.shown \cup {"conflict"}
  BY <1>1, <1>3, <1>4, OpenDialogEffect
<1>6. /\ SameLink(map, map') /\ SameUser(map, map') /\ SameLoad(map, map')
      /\ SameEnd(map, map') /\ map'.timer = map.timer /\ map'.perm = map.perm
      /\ Shows(map, map', {"conflict"})
  BY <1>4, <1>5 DEF SameLink, SameUser, SameLoad, SameEnd, Shows
<1>7. "conflict" \in Excuses
  BY DEF Excuses
<1>8. /\ map.conn = "open" /\ stage = "loaded" /\ stage' = stage
      /\ UNCHANGED <<focused, readonly, faults>> /\ Excuse("conflict", Uncovers(map))
  BY DEF OnConflict, Receive
<1> QED
  BY <1>5, <1>6, <1>7, <1>8, DialogStep

\* A message that ends the connection, or replaces it.
LEMMA EndingStep ==
    ASSUME ConnInv, ~Waits(map), ~Live(map'), ~map'.docLoaded, ~Claims(map'),
           map'.recycling = map.recycling /\ map'.idle = map.idle
               /\ map'.optPerm = map.optPerm,
           readonly' = readonly, ConnTypeOK', map'.timer # "recycle",
           map'.gone => map'.conn = "closed",
           \/ map'.conn = "connecting" \/ map'.active \/ map'.timer \in {"reload", "retry"}
           \/ Covered(map') \/ map'.reported \/ map'.fatal \/ map'.gone
           \/ excuse' # "none"
    PROVE  ConnInv'
BY DEF Waits, Live, Claims

\* The bound on what fails, and what such a message does not change.
LEMMA BadlyEffect ==
    ASSUME ConnInv, Badly
    PROVE  /\ faults' \in 0..MaxFaults /\ excuse' = excuse /\ readonly' = readonly
           /\ excuse \in Excuses /\ readonly \in BOOLEAN /\ focused \in BOOLEAN
BY ConnAssumption DEF ConnTypeOK, Badly, Fault

\* What every message finds that comes while wsd serves the connection.
LEMMA ReceiveEffect ==
    ASSUME ConnInv, NEW stages, NEW next, NEW m, Receive(stages, next, m),
           "closing" \notin stages
    PROVE  /\ map \in Maps /\ map.conn = "open" /\ ~Waits(map) /\ map.timer # "recycle"
           /\ ~map.gone /\ map' = m /\ stage' = next /\ focused' = focused
           /\ stage \in stages
<1>1. map.conn = "open" /\ stage # "closing" /\ map \in Maps
  BY DEF Receive, ConnTypeOK
<1>2. ~Waits(map)
  BY <1>1, ServedWaitsNot
<1> QED
  BY <1>1, <1>2 DEF Receive, Waits

LEMMA OnLoadFailedStep == ASSUME ConnInv, OnLoadFailed PROVE ConnInv'
<1>1. Badly /\ Receive({"ready"}, "closing", [Alert(Close(map)) EXCEPT !.reported = TRUE])
  BY DEF OnLoadFailed
<1>2. PICK c : c = Close(map)
  OBVIOUS
<1>3. PICK a : a = Alert(c)
  OBVIOUS
<1>4. /\ map \in Maps /\ map.conn = "open" /\ ~Waits(map) /\ map.timer # "recycle"
      /\ ~map.gone /\ stage' = "closing" /\ focused' = focused
      /\ map' = [a EXCEPT !.reported = TRUE]
  BY <1>1, <1>2, <1>3, ReceiveEffect
<1>5. /\ c \in Maps
      /\ SameLink(map, c) /\ SameUser(map, c) /\ c.timer = map.timer
      /\ c.conn = "closed" /\ ~c.docLoaded /\ ~Claims(c)
  BY <1>2, <1>4, CloseEffect
<1>6. /\ a \in Maps
      /\ SameLink(c, a) /\ SameUser(c, a) /\ SameLoad(c, a) /\ SameEnd(c, a)
      /\ a.timer = c.timer
  BY <1>3, <1>5, AlertEffect
<1>7. /\ map' \in Maps
      /\ SameLink(a, map') /\ SameUser(a, map') /\ SameLoad(a, map')
      /\ map'.conn = a.conn /\ map'.timer = a.timer /\ map'.reported
  BY <1>4, <1>6 DEF Maps, SameLink, SameUser, SameLoad
<1>8. ConnTypeOK'
  BY <1>1, <1>4, <1>7, BadlyEffect DEF ConnTypeOK
<1>9. /\ map'.conn = "closed" /\ ~Live(map') /\ ~map'.docLoaded /\ ~Claims(map')
      /\ map'.recycling = map.recycling /\ map'.idle = map.idle
      /\ map'.optPerm = map.optPerm /\ map'.timer # "recycle"
  BY <1>4, <1>5, <1>6, <1>7 DEF Live, Claims, SameLink, SameLoad, SameEnd
<1> QED
  BY <1>1, <1>4, <1>7, <1>8, <1>9, BadlyEffect, EndingStep

LEMMA OnInternalErrorStep == ASSUME ConnInv, OnInternalError PROVE ConnInv'
<1>1. Badly /\ Receive({"ready", "loaded"}, "closing", Close(Error([map EXCEPT !.fatal = TRUE])))
  BY DEF OnInternalError
<1>2. PICK f : f = [map EXCEPT !.fatal = TRUE]
  OBVIOUS
<1>3. PICK e : e = Error(f)
  OBVIOUS
<1>4. /\ map \in Maps /\ map.conn = "open" /\ ~Waits(map) /\ map.timer # "recycle"
      /\ ~map.gone /\ stage' = "closing" /\ focused' = focused
      /\ map' = Close(e)
  BY <1>1, <1>2, <1>3, ReceiveEffect
<1>5. /\ f \in Maps /\ f.fatal /\ f.timer = map.timer
      /\ f.recycling = map.recycling /\ f.idle = map.idle /\ f.optPerm = map.optPerm
  BY <1>2, <1>4 DEF Maps
<1>6. e \in Maps /\ SameLink(f, e) /\ e.timer = f.timer
  BY <1>3, <1>5, ErrorEffect
<1>7. /\ map' \in Maps
      /\ SameLink(e, map') /\ map'.timer = e.timer
      /\ map'.conn = "closed" /\ ~map'.docLoaded /\ ~Claims(map')
  BY <1>4, <1>6, CloseEffect
<1>8. ConnTypeOK'
  BY <1>1, <1>4, <1>7, BadlyEffect DEF ConnTypeOK
<1>9. /\ ~Live(map') /\ map'.fatal
      /\ map'.recycling = map.recycling /\ map'.idle = map.idle
      /\ map'.optPerm = map.optPerm /\ map'.timer # "recycle"
  BY <1>4, <1>5, <1>6, <1>7 DEF Live, SameLink
<1> QED
  BY <1>1, <1>4, <1>7, <1>8, <1>9, BadlyEffect, EndingStep

LEMMA OnPasswordRequiredStep == ASSUME ConnInv, OnPasswordRequired PROVE ConnInv'
<1>1. Badly /\ Receive({"ready"}, "closing", [Close(map) EXCEPT !.prompt = TRUE])
  BY DEF OnPasswordRequired
<1>2. PICK c : c = Close(map)
  OBVIOUS
<1>3. /\ map \in Maps /\ map.conn = "open" /\ ~Waits(map) /\ map.timer # "recycle"
      /\ ~map.gone /\ stage' = "closing" /\ focused' = focused /\ stage \in {"ready"}
      /\ map' = [c EXCEPT !.prompt = TRUE]
  BY <1>1, <1>2, ReceiveEffect
<1>4. map.active
  BY <1>3
<1>5. /\ c \in Maps
      /\ SameLink(map, c) /\ SameUser(map, c) /\ c.timer = map.timer
      /\ c.conn = "closed" /\ ~c.docLoaded /\ ~Claims(c)
  BY <1>2, <1>3, CloseEffect
<1>6. /\ map' \in Maps
      /\ SameLink(c, map') /\ SameUser(c, map') /\ SameLoad(c, map')
      /\ map'.conn = c.conn /\ map'.timer = c.timer
  BY Zenon, <1>3, <1>5 DEF Maps, SameLink, SameUser, SameLoad
<1>7. ConnTypeOK'
  BY <1>1, <1>3, <1>6, BadlyEffect DEF ConnTypeOK
<1>8. /\ map'.conn = "closed" /\ ~Live(map') /\ ~map'.docLoaded /\ ~Claims(map')
      /\ map'.recycling = map.recycling /\ map'.idle = map.idle
      /\ map'.optPerm = map.optPerm /\ map'.timer # "recycle" /\ map'.active
  BY ZenonT(60), <1>3, <1>4, <1>5, <1>6 DEF Live, Claims, SameLink, SameUser, SameLoad
<1> QED
  BY <1>1, <1>3, <1>7, <1>8, BadlyEffect, EndingStep

LEMMA OnFailedDocLoadingStep == ASSUME ConnInv, OnFailedDocLoading PROVE ConnInv'
<1>1. Badly /\ Receive({"ready"}, "closing", Error([Close(map) EXCEPT !.fatal = TRUE]))
  BY DEF OnFailedDocLoading
<1>2. PICK c : c = Close(map)
  OBVIOUS
<1>3. PICK f : f = [c EXCEPT !.fatal = TRUE]
  OBVIOUS
<1>4. /\ map \in Maps /\ map.conn = "open" /\ ~Waits(map) /\ map.timer # "recycle"
      /\ ~map.gone /\ stage' = "closing" /\ focused' = focused
      /\ map' = Error(f)
  BY <1>1, <1>2, <1>3, ReceiveEffect
<1>5. /\ c \in Maps /\ SameLink(map, c) /\ c.timer = map.timer
      /\ c.conn = "closed" /\ ~c.docLoaded /\ ~Claims(c)
  BY <1>2, <1>4, CloseEffect
<1>6. /\ f \in Maps /\ f.fatal /\ f.timer = c.timer /\ f.conn = c.conn /\ SameLoad(c, f)
      /\ f.recycling = c.recycling /\ f.idle = c.idle /\ f.optPerm = c.optPerm
  BY <1>3, <1>5 DEF Maps, SameLoad
<1>7. /\ map' \in Maps /\ SameLink(f, map') /\ SameEnd(f, map') /\ map'.timer = f.timer
      /\ map'.docLoaded = f.docLoaded /\ (Claims(map') => Claims(f))
  BY <1>4, <1>6, ErrorEffect
<1>8. ConnTypeOK'
  BY <1>1, <1>4, <1>7, BadlyEffect DEF ConnTypeOK
<1>9. /\ map'.conn = "closed" /\ ~Live(map') /\ ~map'.docLoaded /\ ~Claims(map')
      /\ map'.recycling = map.recycling /\ map'.idle = map.idle
      /\ map'.optPerm = map.optPerm /\ map'.timer # "recycle" /\ map'.fatal
  BY <1>4, <1>5, <1>6, <1>7 DEF Live, Claims, SameLink, SameLoad, SameEnd
<1> QED
  BY <1>1, <1>4, <1>8, <1>9, BadlyEffect, EndingStep

\* Unloading: a timer tries again, until the retries are used up.
LEMMA UnloadingEffect ==
    ASSUME NEW m \in Maps, NEW r, r = Unloading(m)
    PROVE  /\ r \in Maps /\ SameLink(m, r)
           /\ r.conn = "closed" /\ ~r.docLoaded /\ ~Claims(r)
           /\ r.timer = IF m.retries >= MaxRetries THEN "none" ELSE "retry"
<1>1. PICK c : c = Close(m)
  OBVIOUS
<1>2. PICK tries : tries = (IF c.retries > MaxRetries THEN c.retries ELSE c.retries + 1)
  OBVIOUS
<1>3. PICK off : off = [c EXCEPT !.active = FALSE, !.timer = "none", !.retries = tries]
  OBVIOUS
<1>4. PICK hidden : hidden = IF m.docLayer /\ ~m.fatal
                             THEN [off EXCEPT !.shown = @ \ {m.dialogID}] ELSE off
  OBVIOUS
<1>5. r = IF m.retries >= MaxRetries THEN off ELSE [hidden EXCEPT !.timer = "retry"]
  BY <1>1, <1>2, <1>3, <1>4 DEF Unloading
<1>6. /\ c \in Maps /\ SameLink(m, c)
      /\ c.conn = "closed" /\ ~c.docLoaded /\ ~Claims(c)
  BY <1>1, CloseEffect
<1>7. tries \in 0..(MaxRetries + 1)
  <2>1. c.retries \in 0..(MaxRetries + 1)
    BY <1>6 DEF Maps
  <2>2. PICK k \in 0..(MaxRetries + 1) : k = c.retries
    BY <2>1
  <2>3. tries = IF k > MaxRetries THEN k ELSE k + 1
    BY <1>2, <2>2
  <2> QED
    BY <2>2, <2>3, ConnAssumption
<1>8. /\ off \in Maps /\ SameLink(c, off) /\ SameLoad(c, off) /\ off.conn = c.conn
      /\ off.timer = "none"
  BY ZenonT(60), <1>3, <1>6, <1>7 DEF Maps, Timers, SameLink, SameLoad
<1>9. /\ hidden \in Maps /\ SameLink(off, hidden) /\ SameLoad(off, hidden)
      /\ hidden.conn = off.conn
  BY <1>4, <1>8 DEF Maps, SameLink, SameLoad
<1>10. CASE m.retries >= MaxRetries
  BY <1>5, <1>6, <1>8, <1>10 DEF SameLink, SameLoad, Claims
<1>11. CASE ~(m.retries >= MaxRetries)
  <2>1. r = [hidden EXCEPT !.timer = "retry"]
    BY <1>5, <1>11
  <2>2. /\ r \in Maps /\ SameLink(hidden, r) /\ SameLoad(hidden, r)
        /\ r.conn = hidden.conn /\ r.timer = "retry"
    BY <1>9, <2>1 DEF Maps, Timers, SameLink, SameLoad
  <2>3. /\ SameLink(m, r) /\ r.conn = "closed" /\ ~r.docLoaded /\ ~Claims(r)
    BY <1>6, <1>8, <1>9, <2>2 DEF SameLink, SameLoad, Claims
  <2> QED
    BY <1>11, <2>2, <2>3
<1> QED
  BY <1>10, <1>11

LEMMA OnDocUnloadingStep == ASSUME ConnInv, OnDocUnloading PROVE ConnInv'
<1>1. Receive({"new"}, "closing", Unloading(map))
  BY DEF OnDocUnloading
<1>2. /\ map \in Maps /\ map.conn = "open" /\ ~Waits(map) /\ map.timer # "recycle"
      /\ ~map.gone /\ stage' = "closing" /\ focused' = focused
      /\ map' = Unloading(map)
  BY <1>1, ReceiveEffect
<1>3. /\ map' \in Maps /\ SameLink(map, map')
      /\ map'.conn = "closed" /\ ~map'.docLoaded /\ ~Claims(map')
      /\ map'.timer = IF map.retries >= MaxRetries THEN "none" ELSE "retry"
  BY <1>2, UnloadingEffect
<1>4. faults' \in 0..MaxFaults
  BY ConnAssumption DEF ConnTypeOK, OnDocUnloading, Fault
<1>5. /\ excuse' \in Excuses
      /\ map.retries >= MaxRetries => excuse' # "none"
  BY DEF ConnTypeOK, OnDocUnloading, Excuse, Excuses
<1>6. readonly' = readonly
  BY DEF OnDocUnloading
<1>7. ConnTypeOK'
  BY <1>2, <1>3, <1>4, <1>5, <1>6 DEF ConnTypeOK
<1>8. /\ map'.timer \in {"reload", "retry"} \/ excuse' # "none"
      /\ map'.timer # "recycle"
  BY <1>3, <1>5
<1>9. /\ ~Live(map') /\ map'.recycling = map.recycling /\ map'.idle = map.idle
      /\ map'.optPerm = map.optPerm
  BY <1>3 DEF Live, SameLink
<1> QED
  BY <1>2, <1>3, <1>6, <1>7, <1>8, <1>9, EndingStep

LEMMA OnSaveAsStep == ASSUME ConnInv, OnSaveAs PROVE ConnInv'
<1>1. Badly /\ Receive({"loaded"}, "closing", SendMessage(LoadDocument(map)))
  BY DEF OnSaveAs
<1>2. PICK l : l = LoadDocument(map)
  OBVIOUS
<1>3. /\ map \in Maps /\ map.conn = "open" /\ ~Waits(map) /\ map.timer # "recycle"
      /\ ~map.gone /\ stage' = "closing" /\ focused' = focused
      /\ map' = SendMessage(l)
  BY <1>1, <1>2, ReceiveEffect
<1>4. /\ l \in Maps /\ SameLink(map, l) /\ l.timer = map.timer
      /\ ~Live(l) /\ ~l.docLoaded /\ ~Claims(l)
      /\ l.conn = "connecting" \/ l.reported
  BY <1>2, <1>3, LoadDocumentEffect
<1>5. /\ map' \in Maps /\ SameLink(l, map') /\ SameUser(l, map') /\ map'.timer = l.timer
      /\ \/ SameLoad(l, map') /\ SameEnd(l, map')
         \/ /\ l.active /\ ~Live(map') /\ ~map'.docLoaded /\ ~Claims(map')
            /\ map'.conn = "connecting" \/ map'.reported
  BY <1>3, <1>4, SendMessageEffect
<1>6. ConnTypeOK'
  BY <1>1, <1>3, <1>5, BadlyEffect DEF ConnTypeOK
<1>7. /\ ~Live(map') /\ ~map'.docLoaded /\ ~Claims(map')
      /\ map'.conn = "connecting" \/ map'.reported
  BY <1>4, <1>5 DEF Live, Claims, SameLoad, SameEnd
<1>8. /\ map'.recycling = map.recycling /\ map'.idle = map.idle /\ ~map'.gone
      /\ map'.optPerm = map.optPerm /\ map'.timer # "recycle"
  BY <1>3, <1>4, <1>5 DEF SameLink
<1> QED
  BY <1>1, <1>3, <1>6, <1>7, <1>8, BadlyEffect, EndingStep

\* Three messages open an overlay, and this is what they do.
LEMMA OverlayEffect ==
    ASSUME NEW m \in Maps, NEW kind \in Overlays, NEW r, r = OpenDialog(CloseDialog(m), kind)
    PROVE  /\ r \in Maps
           /\ SameLink(m, r) /\ SameUser(m, r) /\ SameLoad(m, r) /\ SameEnd(m, r)
           /\ r.timer = m.timer /\ r.perm = m.perm /\ Covered(r)
<1>1. PICK c : c = CloseDialog(m)
  OBVIOUS
<1>2. kind \in Dialogs
  BY DEF Dialogs
<1>3. /\ c \in Maps
      /\ SameLink(m, c) /\ SameUser(m, c) /\ SameLoad(m, c) /\ SameEnd(m, c)
      /\ c.timer = m.timer /\ c.perm = m.perm
  BY <1>1, CloseDialogEffect
<1>4. /\ r \in Maps
      /\ SameLink(c, r) /\ SameUser(c, r) /\ SameLoad(c, r) /\ SameEnd(c, r)
      /\ r.timer = c.timer /\ r.perm = c.perm /\ r.shown = c.shown \cup {kind}
  BY <1>1, <1>2, <1>3, OpenDialogEffect
<1>5. Covered(r)
  BY <1>4 DEF Covered
<1> QED
  BY <1>3, <1>4, <1>5 DEF SameLink, SameUser, SameLoad, SameEnd

LEMMA OnOwnerTerminationStep == ASSUME ConnInv, OnOwnerTermination PROVE ConnInv'
<1>1. Badly /\ Receive({"loaded"}, "closing",
               [Close(OpenDialog(CloseDialog(map), "closed")) EXCEPT !.gone = TRUE])
  BY DEF OnOwnerTermination
<1>2. PICK o : o = OpenDialog(CloseDialog(map), "closed")
  OBVIOUS
<1>3. PICK c : c = Close(o)
  OBVIOUS
<1>4. /\ map \in Maps /\ map.conn = "open" /\ ~Waits(map) /\ map.timer # "recycle"
      /\ stage' = "closing" /\ focused' = focused
      /\ map' = [c EXCEPT !.gone = TRUE]
  BY <1>1, <1>2, <1>3, ReceiveEffect
<1>5. o \in Maps /\ SameLink(map, o) /\ o.timer = map.timer
  <2>1. "closed" \in Overlays
    BY DEF Overlays
  <2> QED
    BY <1>2, <1>4, <2>1, OverlayEffect
<1>6. /\ c \in Maps /\ SameLink(o, c) /\ c.timer = o.timer
      /\ c.conn = "closed" /\ ~c.docLoaded /\ ~Claims(c)
  BY <1>3, <1>5, CloseEffect
<1>7. /\ map' \in Maps /\ map'.gone /\ SameLoad(c, map')
      /\ map'.recycling = c.recycling /\ map'.idle = c.idle /\ map'.optPerm = c.optPerm
      /\ map'.conn = c.conn /\ map'.timer = c.timer
  BY <1>4, <1>6 DEF Maps, SameLoad
<1>8. ConnTypeOK'
  BY <1>1, <1>4, <1>7, BadlyEffect DEF ConnTypeOK
<1>9. /\ map'.conn = "closed" /\ ~Live(map') /\ ~map'.docLoaded /\ ~Claims(map')
      /\ map'.recycling = map.recycling /\ map'.idle = map.idle
      /\ map'.optPerm = map.optPerm /\ map'.timer # "recycle"
  BY <1>4, <1>5, <1>6, <1>7 DEF Live, Claims, SameLink, SameLoad
<1> QED
  BY <1>1, <1>4, <1>7, <1>8, <1>9, BadlyEffect, EndingStep

LEMMA OnReloadStep == ASSUME ConnInv, OnReload PROVE ConnInv'
<1>1. Badly /\ Receive({"loaded"}, "closing", Reload(map))
  BY DEF OnReload
<1>2. PICK c : c = Close(map)
  OBVIOUS
<1>3. PICK off : off = [c EXCEPT !.active = FALSE, !.timer = "reload"]
  OBVIOUS
<1>4. /\ map \in Maps /\ map.conn = "open" /\ ~Waits(map) /\ map.timer # "recycle"
      /\ ~map.gone /\ stage' = "closing" /\ focused' = focused
      /\ map' = OpenDialog(CloseDialog(off), "closed")
  BY <1>1, <1>2, <1>3, ReceiveEffect DEF Reload
<1>5. /\ c \in Maps /\ SameLink(map, c) /\ c.conn = "closed" /\ ~c.docLoaded /\ ~Claims(c)
  BY <1>2, <1>4, CloseEffect
<1>6. /\ off \in Maps /\ SameLink(c, off) /\ SameLoad(c, off) /\ off.conn = c.conn
      /\ off.timer = "reload"
  BY Zenon, <1>3, <1>5 DEF Maps, Timers, SameLink, SameLoad
<1>7. "closed" \in Overlays
  BY DEF Overlays
<1>8. /\ map' \in Maps /\ SameLink(off, map') /\ SameLoad(off, map') /\ SameEnd(off, map')
      /\ map'.timer = off.timer /\ Covered(map')
  BY <1>4, <1>6, <1>7, OverlayEffect
<1>9. ConnTypeOK'
  BY <1>1, <1>4, <1>8, BadlyEffect DEF ConnTypeOK
<1>10. /\ map'.conn = "closed" /\ ~Live(map') /\ ~map'.docLoaded /\ ~Claims(map')
       /\ map'.recycling = map.recycling /\ map'.idle = map.idle
       /\ map'.optPerm = map.optPerm /\ map'.timer = "reload"
  BY <1>5, <1>6, <1>8 DEF Live, Claims, SameLink, SameLoad, SameEnd
<1> QED
  BY <1>1, <1>4, <1>8, <1>9, <1>10, BadlyEffect, EndingStep

LEMMA OnUnavailableStep == ASSUME ConnInv, OnUnavailable PROVE ConnInv'
<1>1. /\ ~map.docLayer /\ Badly
      /\ Receive({"new", "ready"}, "closing",
                 Error([map EXCEPT !.fatal = TRUE, !.active = FALSE]))
  BY DEF OnUnavailable
<1>2. PICK f : f = [map EXCEPT !.fatal = TRUE, !.active = FALSE]
  OBVIOUS
<1>3. /\ map \in Maps /\ map.conn = "open" /\ ~Waits(map) /\ map.timer # "recycle"
      /\ ~map.gone /\ stage' = "closing" /\ focused' = focused
      /\ stage \in {"new", "ready"} /\ map' = Error(f)
  BY <1>1, <1>2, ReceiveEffect
<1>4. /\ f \in Maps /\ f.fatal /\ f.timer = map.timer /\ SameEnd(map, f) /\ SameLoad(map, f)
      /\ f.recycling = map.recycling /\ f.idle = map.idle /\ f.optPerm = map.optPerm
      /\ f.gone = map.gone
  BY Zenon, <1>2, <1>3 DEF Maps, SameEnd, SameLoad
<1>5. /\ map' \in Maps /\ SameLink(f, map') /\ SameEnd(f, map') /\ map'.timer = f.timer
      /\ map'.docLoaded = f.docLoaded /\ (Claims(map') => Claims(f))
  BY <1>3, <1>4, ErrorEffect
<1>6. ConnTypeOK'
  BY <1>1, <1>3, <1>5, BadlyEffect DEF ConnTypeOK
<1>7. /\ map'.conn = "open" /\ ~map'.docLoaded /\ ~Claims(map') /\ ~Waits(map')
      /\ map'.optPerm = map.optPerm /\ map'.timer # "recycle" /\ map'.fatal /\ ~map'.gone
  BY <1>3, <1>4, <1>5 DEF Waits, Claims, SameLink, SameLoad, SameEnd
<1> QED
  BY <1>1, <1>3, <1>6, <1>7, BadlyEffect DEF Waits, Live, Claims

LEMMA OnShuttingDownStep == ASSUME ConnInv, OnShuttingDown PROVE ConnInv'
<1>1. Badly /\ Receive({"loaded"}, "closing", OpenDialog(CloseDialog(map), "closed"))
  BY DEF OnShuttingDown
<1>2. /\ map \in Maps /\ map.conn = "open" /\ ~Waits(map) /\ map.timer # "recycle"
      /\ ~map.gone /\ stage' = "closing" /\ focused' = focused
      /\ map' = OpenDialog(CloseDialog(map), "closed")
  BY <1>1, ReceiveEffect
<1>3. "closed" \in Overlays
  BY DEF Overlays
<1>4. /\ map' \in Maps
      /\ SameLink(map, map') /\ SameUser(map, map') /\ SameLoad(map, map')
      /\ SameEnd(map, map') /\ map'.timer = map.timer /\ map'.perm = map.perm
      /\ Covered(map')
  BY <1>2, <1>3, OverlayEffect
<1>5. ConnTypeOK'
  BY <1>1, <1>2, <1>4, BadlyEffect DEF ConnTypeOK
<1> QED
  BY <1>1, <1>2, <1>4, <1>5, BadlyEffect
     DEF Waits, Live, Covered, SameLink, SameUser, SameLoad, SameEnd

LEMMA OnIdleStep == ASSUME ConnInv, OnIdle PROVE ConnInv'
<1>1. Badly /\ Receive({"loaded"}, "closing",
                       OpenDialog(CloseDialog([map EXCEPT !.idle = TRUE]), "idle"))
  BY DEF OnIdle
<1>2. PICK i : i = [map EXCEPT !.idle = TRUE]
  OBVIOUS
<1>3. /\ map \in Maps /\ map.conn = "open" /\ ~Waits(map) /\ map.timer # "recycle"
      /\ ~map.gone /\ stage' = "closing" /\ focused' = focused
      /\ map' = OpenDialog(CloseDialog(i), "idle")
  BY <1>1, <1>2, ReceiveEffect
<1>4. /\ i \in Maps /\ i.fatal = map.fatal /\ i.recycling = map.recycling
      /\ i.optPerm = map.optPerm /\ i.gone = map.gone /\ i.timer = map.timer
      /\ i.perm = map.perm
      /\ SameUser(map, i) /\ SameLoad(map, i) /\ SameEnd(map, i)
  BY <1>2, <1>3 DEF Maps, SameUser, SameLoad, SameEnd
<1>5. "idle" \in Overlays
  BY DEF Overlays
<1>6. /\ map' \in Maps
      /\ SameLink(i, map') /\ SameUser(i, map') /\ SameLoad(i, map')
      /\ SameEnd(i, map') /\ map'.timer = i.timer /\ map'.perm = i.perm
      /\ Covered(map')
  BY <1>3, <1>4, <1>5, OverlayEffect
<1>7. ConnTypeOK'
  BY <1>1, <1>3, <1>6, BadlyEffect DEF ConnTypeOK
<1>8. /\ map'.fatal = map.fatal /\ map'.recycling = map.recycling
      /\ map'.optPerm = map.optPerm /\ map'.gone = map.gone /\ map'.timer = map.timer
      /\ map'.perm = map.perm
      /\ SameUser(map, map') /\ SameLoad(map, map') /\ SameEnd(map, map')
  BY <1>4, <1>6 DEF SameLink, SameUser, SameLoad, SameEnd
<1> QED
  BY <1>1, <1>3, <1>6, <1>7, <1>8, BadlyEffect
     DEF Waits, Live, Covered, SameUser, SameLoad, SameEnd

LEMMA OnRecyclingStep == ASSUME ConnInv, OnRecycling PROVE ConnInv'
<1>1. /\ Badly
      /\ Receive({"new", "ready", "loaded"}, "closing",
               OpenDialog(CloseDialog([map EXCEPT !.active = FALSE, !.recycling = TRUE,
                                                  !.timer = "recycle"]), "closed"))
  BY DEF OnRecycling
<1>2. PICK i : i = [map EXCEPT !.active = FALSE, !.recycling = TRUE, !.timer = "recycle"]
  OBVIOUS
<1>3. /\ map \in Maps /\ map.conn = "open" /\ ~Waits(map)
      /\ ~map.gone /\ stage' = "closing" /\ focused' = focused
      /\ map' = OpenDialog(CloseDialog(i), "closed")
  BY <1>1, <1>2, ReceiveEffect
<1>4. /\ i \in Maps /\ i.recycling /\ i.optPerm = map.optPerm /\ i.gone = map.gone
      /\ i.timer = "recycle" /\ i.perm = map.perm
      /\ SameLoad(map, i) /\ SameEnd(map, i)
  BY ZenonT(60), <1>2, <1>3 DEF Maps, Timers, SameLoad, SameEnd
<1>5. "closed" \in Overlays
  BY DEF Overlays
<1>6. /\ map' \in Maps
      /\ SameLink(i, map') /\ SameLoad(i, map')
      /\ SameEnd(i, map') /\ map'.timer = i.timer /\ map'.perm = i.perm
      /\ Covered(map')
  BY <1>3, <1>4, <1>5, OverlayEffect
<1>7. ConnTypeOK'
  BY <1>1, <1>3, <1>6, BadlyEffect DEF ConnTypeOK
<1>8. /\ map'.recycling /\ map'.timer = "recycle" /\ map'.conn = "open"
      /\ map'.optPerm = map.optPerm /\ ~map'.gone /\ map'.perm = map.perm
      /\ SameLoad(map, map')
  BY <1>3, <1>4, <1>6 DEF SameLink, SameLoad, SameEnd
<1> QED
  BY <1>1, <1>3, <1>6, <1>7, <1>8, BadlyEffect DEF Waits, Live, Covered, SameLoad

\* The window, the user and the timers leave wsd's side as it is.
Aside == UNCHANGED <<stage, readonly>>

\* _activate, from the window, from a click or from a timer.
LEMMA ActivateStep ==
    ASSUME ConnInv, Aside, focused' \in BOOLEAN, faults' = faults, excuse' = excuse,
           ~map.gone, map' = Activate(map)
    PROVE  ConnInv'
<1>1. map \in Maps
  BY DEF ConnTypeOK
<1>2. CASE Waits(map)
  <2>1. map' = map
    BY <1>1, <1>2, ActivateEffect
  <2>2. ConnTypeOK'
    BY <2>1 DEF ConnTypeOK, Aside
  <2>3. Covered(map') <=> Covered(map)
    BY <2>1
  <2>4. InactiveIsShown'
    BY <1>2, <2>1 DEF Live, Covered
  <2> QED
    BY <1>2, <2>1, <2>2, <2>3, <2>4 DEF Aside, Waits, Live
<1>3. CASE ~Waits(map) /\ map.active
  <2>1. /\ map' \in Maps /\ SameLink(map, map') /\ map'.perm = map.perm
        /\ map'.timer = "none" \/ (map'.timer = "check" /\ map.docLoaded)
        /\ SameUser(map, map') /\ SameScreen(map, map') /\ SameLoad(map, map')
        /\ SameEnd(map, map')
    BY <1>1, <1>3, ActivateEffect
  <2>2. ConnTypeOK'
    BY <2>1 DEF ConnTypeOK, Aside
  <2> QED
    BY <1>3, <2>1, <2>2 DEF Aside, Waits, Live, SameLink, SameUser, SameLoad, SameEnd
<1>4. CASE ~Waits(map) /\ ~map.active /\ map.conn # "open"
  <2>1. /\ map' \in Maps /\ SameLink(map, map') /\ map'.perm = map.perm
        /\ map'.timer = "none" \/ (map'.timer = "check" /\ map.docLoaded)
        /\ ~Live(map') /\ ~map'.docLoaded /\ ~Claims(map')
        /\ map'.conn = "connecting" \/ map'.reported
    BY <1>1, <1>4, ActivateEffect
  <2>2. ConnTypeOK'
    BY <2>1 DEF ConnTypeOK, Aside
  <2> QED
    BY <1>4, <2>1, <2>2 DEF Aside, Waits, Live, Claims, SameLink
<1>5. CASE ~Waits(map) /\ ~map.active /\ map.conn = "open"
  <2>1. /\ map' \in Maps /\ SameLink(map, map') /\ map'.perm = map.perm
        /\ map'.timer = "none" \/ (map'.timer = "check" /\ map.docLoaded)
        /\ SameLoad(map, map') /\ SameEnd(map, map')
    BY <1>1, <1>5, ActivateEffect
  <2>2. map'.active /\ (map'.fatal \/ map'.told)
    BY <1>1, <1>5, ActivateEffect DEF SameLink
  <2>3. ConnTypeOK'
    BY <2>1 DEF ConnTypeOK, Aside
  <2>4. ServerKnowsActivity'
    <3>1. map'.active \in BOOLEAN /\ map'.told \in BOOLEAN
      BY <2>1 DEF Maps
    <3> QED
      BY <2>2, <3>1
  <2> QED
    BY <1>5, <2>1, <2>2, <2>3, <2>4 DEF Aside, Waits, Live, SameLink, SameLoad, SameEnd
<1> QED
  BY <1>2, <1>3, <1>4, <1>5

\* _dim: what it puts to sleep it covers.
LEMMA DimStep ==
    ASSUME ConnInv, Aside, UNCHANGED <<focused, faults, excuse>>,
           map.timer \in {"check", "dim"}, NEW away \in BOOLEAN, map' = Dim(map, away)
    PROVE  ConnInv'
<1>1. map \in Maps
  BY DEF ConnTypeOK
<1>2. /\ map' \in Maps /\ map'.perm = map.perm
      /\ SameLink(map, map') /\ SameLoad(map, map') /\ SameEnd(map, map')
      /\ map'.timer \in {"none", "dim"}
      /\ \/ SameUser(map, map') /\ SameScreen(map, map')
         \/ ~map'.active /\ map'.conn = "open" /\ (map.fatal \/ ~map'.told)
            /\ map'.shown = map.shown \cup {"dim"}
  BY <1>1, DimEffect
<1>3. ConnTypeOK'
  BY <1>2 DEF ConnTypeOK, Aside
<1>4. CASE SameUser(map, map') /\ SameScreen(map, map')
  <2>1. Covered(map) <=> Covered(map')
    BY <1>4, ScreenStays
  <2> QED
    BY <1>2, <1>3, <1>4, <2>1
       DEF Aside, Waits, Live, Covered, SameLink, SameUser, SameLoad, SameEnd
<1>5. CASE /\ ~map'.active /\ map'.conn = "open" /\ (map.fatal \/ ~map'.told)
           /\ map'.shown = map.shown \cup {"dim"}
  <2>1. Covered(map')
    BY <1>5 DEF Covered, Overlays
  <2>2. ServerKnowsActivity'
    <3>1. map'.active \in BOOLEAN /\ map'.told \in BOOLEAN
      BY <1>2 DEF Maps
    <3> QED
      BY <1>2, <1>5, <3>1 DEF SameLink
  <2> QED
    BY <1>2, <1>3, <1>5, <2>1, <2>2
       DEF Aside, Waits, Live, Covered, SameLink, SameLoad, SameEnd
<1> QED
  BY <1>2, <1>4, <1>5

\* Without a step of the connection only what the user sees may change.
LEMMA ScreenStep ==
    ASSUME ConnInv, Aside, focused' = focused, faults' \in 0..MaxFaults,
           excuse' \in Excuses, excuse' = "none" => excuse = "none",
           map' \in Maps, SameLink(map, map'), SameUser(map, map'), SameLoad(map, map'),
           SameEnd(map, map'), map'.perm = map.perm,
           excuse' = "none" => Covering(map, map'),
           map'.timer = map.timer \/ map.timer = "check",
           map'.timer \in {map.timer, "none", "check"}
    PROVE  ConnInv'
<1>1. ConnTypeOK'
  BY DEF ConnTypeOK, Aside
<1> QED
  BY <1>1
     DEF Aside, Covering, Waits, Live, Covered, SameLink, SameUser, SameLoad, SameEnd

\* LoadDocument without waking up: by the interval while wsd recycles, by the
\* answer to the prompt, by a message of an active user.
LEMMA LoadStep ==
    ASSUME ConnInv, Aside, focused' = focused, faults' = faults, excuse' = excuse,
           map' \in Maps, SameLink(map, map'), map'.timer = map.timer, ~map.gone,
           ~Live(map'), ~map'.docLoaded, ~Claims(map'),
           \/ map'.conn = "connecting" /\ Covering(map, map') /\ map'.reported = map.reported
           \/ map'.conn = "closed" /\ map'.reported
    PROVE  ConnInv'
<1>1. ConnTypeOK'
  BY DEF ConnTypeOK, Aside
<1>2. WaitingIsCovered'
  BY DEF Aside, Covering, Waits, Live, SameLink
<1> QED
  BY <1>1, <1>2 DEF Aside, Waits, Live, Claims, SameLink

LEMMA OnTimerStep == ASSUME ConnInv, OnTimer PROVE ConnInv'
<1>1. /\ map \in Maps /\ map.timer # "none" /\ ~map.gone
      /\ focused' = focused /\ faults' = faults /\ Aside /\ focused \in BOOLEAN
      /\ excuse' \in Excuses /\ (excuse' = "none" => excuse = "none")
      /\ faults' \in 0..MaxFaults
      /\ map.timer # "recycle" => excuse' = excuse
  BY DEF ConnTypeOK, OnTimer, Aside, Excuse, Excuses
<1>2. PICK idle \in BOOLEAN, away \in BOOLEAN : map' = TimerFires(map, idle, away)
  BY DEF OnTimer
<1>3. map.timer \in {"check", "dim", "reload", "retry", "recycle"}
  BY <1>1 DEF Maps, Timers
<1>4. CASE map.timer = "check" /\ map.docLoaded /\ idle
  <2>1. map' = Dim(map, away)
    BY <1>2, <1>4 DEF TimerFires
  <2> QED
    BY <1>1, <1>4, <2>1, DimStep
<1>5. CASE map.timer = "check" /\ ~(map.docLoaded /\ idle)
  <2>1. PICK n : n = [map EXCEPT !.timer = "none"]
    OBVIOUS
  <2>2. map' = StartInactiveTimer(n)
    BY <1>2, <1>5, <2>1 DEF TimerFires
  <2>3. /\ n \in Maps /\ n.perm = map.perm
        /\ SameLink(map, n) /\ SameUser(map, n) /\ SameScreen(map, n) /\ SameLoad(map, n)
        /\ SameEnd(map, n) /\ n.timer = "none"
    BY <1>1, <2>1 DEF Maps, Timers, SameLink, SameUser, SameScreen, SameLoad, SameEnd
  <2>4. /\ map' \in Maps /\ map'.perm = n.perm
        /\ SameLink(n, map') /\ SameUser(n, map') /\ SameScreen(n, map')
        /\ SameLoad(n, map') /\ SameEnd(n, map') /\ map'.timer \in {"none", "check"}
    <3>1. map'.timer = IF Waits(n) \/ ~n.docLoaded THEN n.timer ELSE "check"
      BY <2>2, <2>3, StartInactiveTimerEffect
    <3> QED
      BY <2>2, <2>3, <3>1, StartInactiveTimerEffect
  <2>5. /\ SameLink(map, map') /\ SameUser(map, map') /\ SameScreen(map, map')
        /\ SameLoad(map, map') /\ SameEnd(map, map') /\ map'.perm = map.perm
    BY <2>3, <2>4 DEF SameLink, SameUser, SameScreen, SameLoad, SameEnd
  <2>6. Covering(map, map')
    BY <2>5, ScreenStays DEF Covering
  <2>7. map'.timer \in {map.timer, "none", "check"}
    BY <2>4
  <2> QED
    BY <1>1, <1>5, <2>4, <2>5, <2>6, <2>7, ScreenStep
<1>6. CASE map.timer = "dim"
  <2>1. map' = Dim(map, away)
    BY <1>2, <1>6 DEF TimerFires
  <2> QED
    BY <1>1, <1>6, <2>1, DimStep
<1>7. CASE map.timer \in {"reload", "retry"}
  <2>1. map' = Activate(map)
    BY <1>2, <1>7 DEF TimerFires
  <2> QED
    BY <1>1, <1>7, <2>1, ActivateStep
<1>8. CASE map.timer = "recycle" /\ Connected(map)
  <2>1. PICK c : c = CloseDialog(map)
    OBVIOUS
  <2>2. map' = [c EXCEPT !.timer = "none"]
    BY <1>2, <1>8, <2>1 DEF TimerFires
  <2>3. excuse' # "none"
    BY <1>8 DEF OnTimer, Excuse, StillConnected
  <2>4. /\ c \in Maps
        /\ SameLink(map, c) /\ SameUser(map, c) /\ SameLoad(map, c) /\ SameEnd(map, c)
        /\ c.perm = map.perm
    BY <1>1, <2>1, CloseDialogEffect
  <2>5. /\ map' \in Maps /\ map'.timer = "none" /\ map'.perm = c.perm
        /\ SameLink(c, map') /\ SameUser(c, map') /\ SameLoad(c, map') /\ SameEnd(c, map')
    BY <2>2, <2>4 DEF Maps, Timers, SameLink, SameUser, SameLoad, SameEnd
  <2>6. /\ SameLink(map, map') /\ SameUser(map, map') /\ SameLoad(map, map')
        /\ SameEnd(map, map') /\ map'.perm = map.perm
    BY <2>4, <2>5 DEF SameLink, SameUser, SameLoad, SameEnd
  <2>7. ConnTypeOK'
    BY <1>1, <2>5 DEF ConnTypeOK, Aside
  <2> QED
    BY <1>1, <1>8, <2>3, <2>5, <2>6, <2>7
       DEF Aside, Waits, Live, SameLink, SameUser, SameLoad, SameEnd
<1>9. CASE map.timer = "recycle" /\ ~Connected(map)
  <2>1. map' = LoadDocument(map)
    BY <1>2, <1>9 DEF TimerFires
  <2>2. /\ map' \in Maps /\ SameLink(map, map') /\ map'.timer = map.timer
        /\ ~Live(map') /\ ~map'.docLoaded /\ ~Claims(map')
        /\ \/ map'.conn = "connecting" /\ SameScreen(map, map')
              /\ map'.reported = map.reported
           \/ map'.conn = "closed" /\ map'.reported
    BY <1>1, <2>1, LoadDocumentEffect
  <2>3. SameScreen(map, map') => Covering(map, map')
    BY ScreenStays DEF Covering
  <2>4. excuse' = excuse
    BY <1>9 DEF OnTimer, Excuse, StillConnected
  <2> QED
    BY <1>1, <2>2, <2>3, <2>4, LoadStep
<1> QED
  BY <1>3, <1>4, <1>5, <1>6, <1>7, <1>8, <1>9

LEMMA OnFocusStep == ASSUME ConnInv, OnFocus PROVE ConnInv'
<1>1. /\ map \in Maps /\ focused' \in BOOLEAN /\ faults' = faults /\ excuse' = excuse
      /\ Aside
  BY DEF ConnTypeOK, OnFocus, Aside
<1>2. CASE map.gone
  <2>1. map' = map
    BY <1>2 DEF OnFocus
  <2>2. ConnTypeOK'
    BY <1>1, <2>1 DEF ConnTypeOK, Aside
  <2> QED
    BY <1>1, <1>2, <2>1, <2>2 DEF Aside, Waits, Live, Covered
<1>3. CASE ~map.gone /\ ~focused
  <2>1. map' = Activate(map)
    BY <1>3 DEF OnFocus
  <2> QED
    BY <1>1, <1>3, <2>1, ActivateStep
<1>4. CASE ~map.gone /\ focused
  <2>1. map' = Deactivate(map) /\ ~focused'
    BY <1>4 DEF OnFocus
  <2>2. /\ map' \in Maps /\ map'.perm = map.perm
        /\ SameLink(map, map') /\ SameScreen(map, map') /\ SameLoad(map, map')
        /\ SameEnd(map, map')
        /\ Waits(map) \/ ~map.docLoaded => map' = map
        /\ ~Waits(map) => map'.timer # "recycle" \/ map' = map
        /\ \/ SameUser(map, map')
           \/ ~map'.active /\ (map.conn = "open" /\ ~map.fatal => ~map'.told)
    BY <1>1, <2>1, DeactivateEffect
  <2>3. ConnTypeOK'
    BY <1>1, <2>2 DEF ConnTypeOK, Aside
  <2>4. CASE Waits(map) \/ ~map.docLoaded
    <3>1. map' = map
      BY <2>2, <2>4
    <3> QED
      BY <1>1, <2>1, <2>3, <3>1 DEF Aside, Waits, Live, Covered
  <2>5. CASE ~Waits(map) /\ map.docLoaded
    <3>1. ServerKnowsActivity'
      <4>1. map'.active \in BOOLEAN /\ map'.told \in BOOLEAN
        BY <2>2 DEF Maps
      <4> QED
        BY <2>2, <4>1 DEF SameLink, SameUser, SameEnd
    <3> QED
      BY <1>1, <2>1, <2>2, <2>3, <2>5, <3>1
         DEF Aside, Waits, Live, SameLink, SameLoad, SameEnd
  <2> QED
    BY <2>4, <2>5
<1> QED
  BY <1>2, <1>3, <1>4

\* A click on the overlay of an idle document ends the waiting first: what
\* then follows is _activate in a state that keeps the invariant, too.
LEMMA ClickOverlayStep == ASSUME ConnInv, ClickOverlay PROVE ConnInv'
<1>1. /\ map \in Maps /\ focused' = focused /\ focused \in BOOLEAN /\ faults' = faults
      /\ excuse' = excuse /\ Aside /\ ~map.gone
  BY DEF ConnTypeOK, ClickOverlay, Aside
<1>2. CASE map' = Activate(map)
  BY <1>1, <1>2, ActivateStep
<1>3. CASE "idle" \in map.shown /\ map' = Activate([map EXCEPT !.idle = FALSE])
  <2>1. PICK i : i = [map EXCEPT !.idle = FALSE]
    OBVIOUS
  <2>2. map' = Activate(i)
    BY <1>3, <2>1
  <2>3. /\ i \in Maps /\ ~i.idle /\ i.recycling = map.recycling /\ i.fatal = map.fatal
        /\ i.docLayer = map.docLayer /\ i.reconnecting = map.reconnecting
        /\ i.optPerm = map.optPerm /\ i.gone = map.gone
        /\ i.timer = map.timer /\ i.perm = map.perm
        /\ SameUser(map, i) /\ SameScreen(map, i) /\ SameLoad(map, i) /\ SameEnd(map, i)
    BY Zenon, <1>1, <2>1 DEF Maps, SameUser, SameScreen, SameLoad, SameEnd
  <2>4. Covered(map) <=> Covered(i)
    BY <2>3, ScreenStays
  <2>5. CASE map.recycling
    <3>1. map' = i
      BY <2>2, <2>3, <2>5, ActivateEffect DEF Waits
    <3>2. ConnTypeOK'
      BY <1>1, <2>3, <3>1 DEF ConnTypeOK, Aside
    <3> QED
      BY <1>1, <2>3, <2>4, <2>5, <3>1, <3>2
         DEF Aside, Waits, Live, Covered, SameUser, SameLoad, SameEnd
  <2>6. CASE ~map.recycling
    <3>1. ~Waits(i)
      BY <2>3, <2>6 DEF Waits
    <3>2. /\ map' \in Maps /\ SameLink(i, map') /\ map'.perm = i.perm
          /\ map'.timer = "none" \/ (map'.timer = "check" /\ i.docLoaded)
      BY <2>2, <2>3, <3>1, ActivateEffect
    <3>3. ConnTypeOK'
      BY <1>1, <3>2 DEF ConnTypeOK, Aside
    <3>4. /\ ~Waits(map') /\ map'.fatal = map.fatal /\ map'.gone = map.gone
          /\ map'.docLayer = map.docLayer /\ map'.reconnecting = map.reconnecting
          /\ map'.optPerm = map.optPerm /\ map'.perm = map.perm
          /\ map'.timer = "none" \/ (map'.timer = "check" /\ map.docLoaded)
      BY <2>3, <2>6, <3>2 DEF Waits, SameLink, SameLoad
    <3>5. CASE i.active
      <4>1. SameUser(i, map') /\ SameLoad(i, map') /\ SameEnd(i, map')
        BY <2>2, <2>3, <3>5, ActivateEffect
      <4>2. SameUser(map, map') /\ SameLoad(map, map') /\ SameEnd(map, map')
        BY <2>3, <4>1 DEF SameUser, SameLoad, SameEnd
      <4> QED
        BY Zenon, <1>1, <2>3, <2>6, <3>3, <3>4, <3>5, <4>2
           DEF Aside, Waits, Live, SameUser, SameLoad, SameEnd
    <3>6. CASE ~i.active /\ i.conn # "open"
      <4>1. /\ ~Live(map') /\ ~map'.docLoaded /\ ~Claims(map')
            /\ map'.conn = "connecting" \/ map'.reported
        BY <2>2, <2>3, <3>1, <3>6, ActivateEffect
      <4> QED
        BY <1>1, <3>3, <3>4, <4>1 DEF Aside, Waits, Live, Claims
    <3>7. CASE ~i.active /\ i.conn = "open"
      <4>1. map'.active /\ SameLoad(i, map') /\ SameEnd(i, map')
        BY <2>2, <2>3, <3>1, <3>7, ActivateEffect
      <4>2. map'.fatal \/ map'.told
        BY <2>2, <2>3, <3>1, <3>7, ActivateEffect DEF SameLink
      <4>3. SameLoad(map, map') /\ SameEnd(map, map')
        BY <2>3, <4>1 DEF SameLoad, SameEnd
      <4>4. ServerKnowsActivity'
        <5>1. map'.active \in BOOLEAN /\ map'.told \in BOOLEAN
          BY <3>2 DEF Maps
        <5> QED
          BY <4>1, <4>2, <5>1
      <4> QED
        BY <1>1, <3>3, <3>4, <4>1, <4>3, <4>4 DEF Aside, Waits, Live, SameLoad, SameEnd
    <3> QED
      BY <3>5, <3>6, <3>7
  <2> QED
    BY <2>5, <2>6
<1> QED
  BY <1>2, <1>3 DEF ClickOverlay

LEMMA DismissStep == ASSUME ConnInv, Dismiss PROVE ConnInv'
<1>1. /\ map \in Maps /\ focused' = focused /\ Aside /\ faults' \in 0..MaxFaults
  BY DEF ConnTypeOK, Dismiss, Aside
<1>2. PICK kind \in map.shown \ {"conflict"} :
          /\ map' = [map EXCEPT !.shown = @ \ {kind}]
          /\ Excuse("escape", kind \in Overlays)
  BY DEF Dismiss
<1>3. /\ map' \in Maps /\ map'.shown = map.shown \ {kind}
      /\ SameLink(map, map') /\ SameUser(map, map') /\ SameLoad(map, map')
      /\ SameEnd(map, map') /\ map'.timer = map.timer /\ map'.perm = map.perm
  BY <1>1, <1>2 DEF Maps, SameLink, SameUser, SameLoad, SameEnd
<1>4. /\ excuse' \in Excuses
      /\ excuse' = "none" => excuse = "none" /\ kind \notin Overlays
  BY <1>2 DEF ConnTypeOK, Excuse, Excuses
<1>5. excuse' = "none" => Covering(map, map')
  BY <1>3, <1>4 DEF Covering, Covered
<1> QED
  BY <1>1, <1>3, <1>4, <1>5, ScreenStep

\* A message of the user, from a state that differs from map in what it shows.
LEMMA MessageStep ==
    ASSUME ConnInv, Aside, UNCHANGED <<focused, faults, excuse>>, ~map.gone,
           NEW m \in Maps, map' = SendMessage(m), Covering(map, m),
           SameLink(map, m), SameUser(map, m), SameLoad(map, m), SameEnd(map, m),
           m.timer = map.timer, m.perm = map.perm
    PROVE  ConnInv'
<1>1. /\ map' \in Maps
      /\ SameLink(m, map') /\ SameUser(m, map') /\ map'.timer = m.timer /\ map'.perm = m.perm
      /\ \/ SameScreen(m, map') /\ SameLoad(m, map') /\ SameEnd(m, map')
         \/ /\ m.active /\ ~Live(map') /\ ~map'.docLoaded /\ ~Claims(map')
            /\ \/ map'.conn = "connecting" /\ SameScreen(m, map') /\ map'.reported = m.reported
               \/ map'.conn = "closed" /\ map'.reported
  BY SendMessageEffect
<1>2. /\ SameLink(map, map') /\ SameUser(map, map') /\ map'.timer = map.timer
      /\ map'.perm = map.perm
  BY <1>1 DEF SameLink, SameUser
<1>3. SameScreen(m, map') => Covering(map, map')
  BY ScreenStays DEF Covering
<1>4. faults' \in 0..MaxFaults /\ excuse' \in Excuses
  BY DEF ConnTypeOK
<1>5. CASE SameScreen(m, map') /\ SameLoad(m, map') /\ SameEnd(m, map')
  <2>1. SameLoad(map, map') /\ SameEnd(map, map')
    BY <1>5 DEF SameLoad, SameEnd
  <2>2. map'.timer \in {map.timer, "none", "check"}
    BY <1>2
  <2> QED
    BY <1>1, <1>2, <1>3, <1>4, <1>5, <2>1, <2>2, ScreenStep
<1>6. CASE /\ m.active /\ ~Live(map') /\ ~map'.docLoaded /\ ~Claims(map')
           /\ \/ map'.conn = "connecting" /\ SameScreen(m, map') /\ map'.reported = m.reported
              \/ map'.conn = "closed" /\ map'.reported
  <2>1. m.reported = map.reported
    BY DEF SameEnd
  <2> QED
    BY <1>1, <1>2, <1>3, <1>6, <2>1, LoadStep
<1> QED
  BY <1>1, <1>5, <1>6

LEMMA AnswerConflictStep == ASSUME ConnInv, AnswerConflict PROVE ConnInv'
<1>1. /\ map \in Maps /\ Aside /\ UNCHANGED <<focused, faults, excuse>> /\ ~map.gone
  BY DEF ConnTypeOK, AnswerConflict, Aside
<1>2. PICK m : m = [map EXCEPT !.shown = @ \ {"conflict"}]
  OBVIOUS
<1>3. map' = SendMessage(m)
  BY <1>2 DEF AnswerConflict
<1>4. /\ m \in Maps /\ m.shown = map.shown \ {"conflict"}
      /\ SameLink(map, m) /\ SameUser(map, m) /\ SameLoad(map, m) /\ SameEnd(map, m)
      /\ m.timer = map.timer /\ m.perm = map.perm
  BY <1>1, <1>2 DEF Maps, SameLink, SameUser, SameLoad, SameEnd
<1>5. Covering(map, m)
  BY <1>4 DEF Covering, Covered, Overlays
<1> QED
  BY <1>1, <1>3, <1>4, <1>5, MessageStep

LEMMA UserInputStep == ASSUME ConnInv, UserInput PROVE ConnInv'
<1>1. /\ map \in Maps /\ Aside /\ UNCHANGED <<focused, faults, excuse>> /\ ~map.gone
      /\ map' = SendMessage(map)
  BY DEF ConnTypeOK, UserInput, Aside
<1>2. /\ Covering(map, map) /\ SameLink(map, map) /\ SameUser(map, map)
      /\ SameLoad(map, map) /\ SameEnd(map, map)
  BY DEF Covering, SameLink, SameUser, SameLoad, SameEnd
<1> QED
  BY <1>1, <1>2, MessageStep

LEMMA AnswerPromptStep == ASSUME ConnInv, AnswerPrompt PROVE ConnInv'
<1>1. /\ map \in Maps /\ Aside /\ UNCHANGED <<focused, faults, excuse>> /\ ~map.gone
  BY DEF ConnTypeOK, AnswerPrompt, Aside
<1>2. CASE map' = LoadDocument([map EXCEPT !.prompt = FALSE])
  <2>1. PICK m : m = [map EXCEPT !.prompt = FALSE]
    OBVIOUS
  <2>2. map' = LoadDocument(m)
    BY <1>2, <2>1
  <2>3. /\ m \in Maps /\ SameLink(map, m) /\ SameScreen(map, m) /\ m.timer = map.timer
        /\ m.reported = map.reported
    BY Zenon, <1>1, <2>1 DEF Maps, SameLink, SameScreen
  <2>4. /\ map' \in Maps /\ SameLink(m, map') /\ map'.timer = m.timer
        /\ ~Live(map') /\ ~map'.docLoaded /\ ~Claims(map')
        /\ \/ map'.conn = "connecting" /\ SameScreen(m, map') /\ map'.reported = m.reported
           \/ map'.conn = "closed" /\ map'.reported
    BY <2>2, <2>3, LoadDocumentEffect
  <2>5. SameLink(map, map') /\ (SameScreen(m, map') => Covering(map, map'))
    BY <2>3, <2>4 DEF SameLink, SameScreen, Covering, Covered
  <2> QED
    BY <1>1, <2>3, <2>4, <2>5, LoadStep
<1>3. CASE map' = [Close(map) EXCEPT !.prompt = FALSE, !.gone = TRUE]
  <2>1. PICK c : c = Close(map)
    OBVIOUS
  <2>2. map' = [c EXCEPT !.prompt = FALSE, !.gone = TRUE]
    BY <1>3, <2>1
  <2>3. /\ c \in Maps
        /\ SameLink(map, c) /\ SameScreen(map, c) /\ c.reported = map.reported
        /\ c.timer = map.timer /\ c.conn = "closed" /\ ~c.docLoaded /\ ~Claims(c)
    BY <1>1, <2>1, CloseEffect
  <2>4. /\ map' \in Maps /\ map'.gone /\ map'.conn = c.conn /\ SameLoad(c, map')
        /\ map'.recycling = c.recycling /\ map'.idle = c.idle /\ map'.optPerm = c.optPerm
        /\ SameScreen(c, map') /\ map'.reported = c.reported /\ map'.timer = c.timer
    BY Zenon, <2>2, <2>3 DEF Maps, SameLoad, SameScreen
  <2>5. ConnTypeOK'
    BY <1>1, <2>4 DEF ConnTypeOK, Aside
  <2>6. SameScreen(map, map')
    BY <2>3, <2>4 DEF SameScreen
  <2>7. Covered(map) <=> Covered(map')
    BY <2>6, ScreenStays
  <2>8. ~Live(map') /\ ~map'.docLoaded /\ ~Claims(map')
    BY <2>3, <2>4 DEF Live, Claims, SameLoad
  <2> QED
    BY <1>1, <2>3, <2>4, <2>5, <2>7, <2>8 DEF Aside, Waits, Live, Claims, SameLink
<1> QED
  BY <1>2, <1>3 DEF AnswerPrompt

LEMMA SocketLimitStep == ASSUME ConnInv, SocketLimit PROVE ConnInv'
<1>1. /\ map \in Maps /\ Aside /\ focused' = focused /\ excuse' = excuse
      /\ excuse \in Excuses
  BY DEF ConnTypeOK, SocketLimit, Aside
<1>2. PICK b \in BOOLEAN : map' = [map EXCEPT !.refused = b]
  <2>1. map' = [map EXCEPT !.refused = ~map.refused]
    BY DEF SocketLimit
  <2>2. (~map.refused) \in BOOLEAN
    OBVIOUS
  <2> QED
    BY <2>1, <2>2
<1>3. /\ map' \in Maps /\ SameLink(map, map') /\ SameUser(map, map')
      /\ SameScreen(map, map') /\ SameLoad(map, map') /\ SameEnd(map, map')
      /\ map'.timer = map.timer /\ map'.perm = map.perm
  BY <1>1, <1>2 DEF Maps, SameLink, SameUser, SameScreen, SameLoad, SameEnd
<1>4. faults' \in 0..MaxFaults
  BY ConnAssumption DEF ConnTypeOK, SocketLimit, Fault
<1>5. Covering(map, map') /\ map'.timer \in {map.timer, "none", "check"}
  BY <1>3, ScreenStays DEF Covering
<1> QED
  BY <1>1, <1>3, <1>4, <1>5, ScreenStep

LEMMA StutterStep == ASSUME ConnInv, UNCHANGED connVars PROVE ConnInv'
BY DEF connVars, ConnTypeOK, Waits, Live, Covered

HIDE DEF ConnInv, ServerKnowsActivity, LoadedIsLive, RecyclingIsWaitedFor,
         RecycleTimerIsItsOwn, GoneIsClosed, WaitingIsClosing, LoadingIsAwake,
         WaitingIsCovered, InactiveIsShown, EndIsKnown, ReadOnlyIsAsked

-----------------------------------------------------------------------------
(* The theorems.                                                           *)

LEMMA NextStep == ConnInv /\ [ConnNext]_connVars => ConnInv'
<1> SUFFICES ASSUME ConnInv, [ConnNext]_connVars PROVE ConnInv'
  OBVIOUS
<1>1. CASE OnSocketOpen \/ LoseConnection \/ OnSocketClose
  BY <1>1, OnSocketOpenStep, LoseConnectionStep, OnSocketCloseStep
<1>2. CASE Served \/ OnPerm \/ OnSaved \/ OnStorageError \/ OnConflict
  BY <1>2, OnReadyStep, OnStatusStep, OnViewInfoStep, OnPermStep, OnSavedStep,
     OnStorageErrorStep, OnConflictStep DEF Served
<1>3. CASE OnLoadFailed \/ OnInternalError \/ OnPasswordRequired \/ OnFailedDocLoading
           \/ OnDocUnloading \/ OnUnavailable
  BY <1>3, OnLoadFailedStep, OnInternalErrorStep, OnPasswordRequiredStep,
     OnFailedDocLoadingStep, OnDocUnloadingStep, OnUnavailableStep
<1>4. CASE OnSaveAs \/ OnOwnerTermination \/ OnIdle \/ OnShuttingDown \/ OnRecycling
           \/ OnReload
  BY <1>4, OnSaveAsStep, OnOwnerTerminationStep, OnIdleStep, OnShuttingDownStep,
     OnRecyclingStep, OnReloadStep
<1>5. CASE OnTimer \/ User \/ SocketLimit
  BY <1>5, OnTimerStep, OnFocusStep, ClickOverlayStep, DismissStep, AnswerConflictStep,
     AnswerPromptStep, UserInputStep, SocketLimitStep DEF User
<1>6. CASE UNCHANGED connVars
  BY <1>6, StutterStep
<1> QED
  BY <1>1, <1>2, <1>3, <1>4, <1>5, <1>6 DEF ConnNext, Message

LEMMA ConnInvHolds == ConnSpec => []ConnInv
<1>1. ConnInit => ConnInv
  BY InitStep
<1>2. ConnInv /\ [ConnNext]_connVars => ConnInv'
  BY NextStep
<1> QED
  BY <1>1, <1>2, PTL DEF ConnSpec

\* The state of the map and of the connection are of their types, however
\* often the connection is lost, refused or tried again.
THEOREM ConnTypesAreRight == ConnSpec => []ConnTypeOK
<1>1. ConnInv => ConnTypeOK
  BY DEF ConnInv
<1> QED
  BY <1>1, ConnInvHolds, PTL

\* wsd knows whether the user is active, the host is told only of the document
\* that is loaded, and the interval that waits for a recycled server is never
\* lost but through the named hole (_activate, _deactivate, _dim, _postLoaded).
THEOREM PartnersAlwaysAgree == ConnSpec => []PartnersAgree
<1>1. ConnInv => PartnersAgree
  BY DEF ConnInv, PartnersAgree, HostKnowsLoaded, LoadedIsLive, Live
<1> QED
  BY <1>1, ConnInvHolds, PTL

\* An inactive client is behind an overlay, an ended connection tries again or
\* says that it does not, and a session made read-only is never offered for
\* editing, but for the named holes (_dim, _onSocketClose, perm:, status:).
THEOREM ConnectionIsAlwaysShown == ConnSpec => []ConnectionIsShown
<1>1. ConnInv => NoSilentEnd
  BY DEF ConnInv, NoSilentEnd, EndIsKnown, Covered
<1>2. ConnInv => InactiveIsShown /\ ReadOnlyIsKept
  BY DEF ConnInv, ReadOnlyIsKept, ReadOnlyIsAsked
<1>3. ConnInv => ConnectionIsShown
  BY <1>1, <1>2 DEF ConnectionIsShown
<1> QED
  BY <1>3, ConnInvHolds, PTL
=============================================================================
