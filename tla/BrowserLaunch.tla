---------------------------- MODULE BrowserLaunch ---------------------------
(***************************************************************************)
(* How a page comes to show a document: it connects, says what it wants to *)
(* load, is asked for a password, waits for a document that is just being  *)
(* closed, creates the layer of the document at the first status, enters   *)
(* the mode that its permission allows, and tells the host that the        *)
(* document is there.  Until the socket is open, messages wait in a queue. *)
(***************************************************************************)
EXTENDS Integers, Sequences, FiniteSets, SequencesExt, Functions

CONSTANTS MaxLaunchSends,     \* bound: messages of the user
          MaxLaunchAnswers,   \* bound: answers to prompts for a password
          MaxLaunchFaults     \* bound: lost connections, documents just being closed

ASSUME LaunchAssumption == {MaxLaunchSends, MaxLaunchAnswers, MaxLaunchFaults} \subseteq Nat

VARIABLES
    library,      \* the server: the document, its lock, and this connection
    toLauncher,   \* messages to the page
    launcher,     \* the page, with its messages to the server
    fates,        \* history: the messages of the user that were served and those lost
    launchTurns,  \* how much of the bounds is used up
    launchGaps    \* history: the named holes that have been met

launchVars == <<library, toLauncher, launcher, fates, launchTurns, launchGaps>>

InitConditions == {"doclayerinit", "statusindicatorfinish", "values", "updatepermission"}
LoadedConditions == {"docloaded", "updatepermission", "viewinfo"}
Passwords == {"none", "wrong", "right"}

\* The values the variables take.
LaunchTypeOK ==
    /\ library.lock \in {"none", "view", "modify"} /\ library.writable \in BOOLEAN
    /\ library.stage \in {"none", "greeted", "loaded", "refused"}
    /\ library.kitPassword \in Passwords
    /\ launcher.sock \in {"none", "connecting", "open", "closed"}
    /\ launcher.permission \in {"none", "edit", "readonly"} /\ launcher.asked \in {"edit", "readonly"}
    /\ launcher.conditions \subseteq InitConditions /\ launcher.loaded \subseteq LoadedConditions
    /\ launcher.password \in Passwords
    /\ \A i \in DOMAIN launcher.prompts : launcher.prompts[i] \in {"view", "modify", "wrong"}
    /\ launchGaps \subseteq {"stacked", "button", "joined", "unasked"}

LaunchInit ==
    /\ library = [lock |-> "none", odf |-> "no", fresh |-> TRUE, kitPassword |-> "none",
                  writable |-> TRUE, stage |-> "none"]
    /\ toLauncher = <<>> /\ launchGaps = {}
    /\ fates = [sent |-> 0, served |-> <<>>, lost |-> {}, early |-> {}]
    /\ launchTurns = [answers |-> 0, faults |-> 0]
    /\ launcher = [sock |-> "none", out |-> <<>>, queue |-> <<>>, layer |-> FALSE,
                   reconnecting |-> FALSE, active |-> TRUE, timer |-> FALSE, gone |-> FALSE,
                   mobile |-> FALSE, odf |-> "no", asked |-> "edit", permission |-> "none",
                   button |-> FALSE, conditions |-> {}, complete |-> FALSE,
                   loaded |-> {}, appLoaded |-> FALSE, told |-> 0,
                   password |-> "none", prompts |-> <<>>,
                   bar |-> FALSE, barTimer |-> FALSE, busy |-> FALSE]

Users(msgs) == SelectSeq(msgs, LAMBDA m : m[1] = "user")
Numbers(msgs) == {m[2] : m \in {msgs[i] : i \in DOMAIN msgs}}

-----------------------------------------------------------------------------
(* The page: its progress bar, what it tells the host, its permission.     *)

ShowBusy(l) == IF l.layer THEN [l EXCEPT !.busy = TRUE] ELSE [l EXCEPT !.barTimer = TRUE]
HideBarOnly(l) == [l EXCEPT !.busy = FALSE, !.bar = FALSE]
HideBar(l) == [l EXCEPT !.busy = FALSE, !.bar = FALSE, !.barTimer = FALSE]

\* A slip: what happens before the layer is there does not count.
FireInitCompleteLate(l, condition) ==
    LET met == l.conditions \cup condition
    IN  IF l.complete \/ ~l.layer THEN l
        ELSE [l EXCEPT !.conditions = met, !.complete = met = InitConditions]

FireInitComplete(l, condition) ==
    LET met == l.conditions \cup condition
    IN  IF l.complete THEN l
        ELSE [l EXCEPT !.conditions = met, !.complete = met = InitConditions]

PostLoaded(l, condition) ==
    LET met == l.loaded \cup {condition}
    IN  IF l.appLoaded THEN l
        ELSE [l EXCEPT !.loaded = met, !.appLoaded = met = LoadedConditions,
                       !.told = IF met = LoadedConditions THEN @ + 1 ELSE @]

UpdatePermission(l, perm) ==
    PostLoaded(FireInitComplete(
        [l EXCEPT !.permission = perm], {"updatepermission"}), "updatepermission")

(* Closing and opening the socket: what was on the way is lost.            *)

\* A slip: the host is not told again what it knows of the connection before.
CloseQuietly(l) == [l EXCEPT !.sock = "closed", !.out = <<>>]

Close(l) == [l EXCEPT !.sock = "closed", !.out = <<>>, !.loaded = {}, !.appLoaded = FALSE]
Connect(l) == [Close(l) EXCEPT !.sock = "connecting", !.told = 0]

\* With the socket goes what was on the way, and what wsd knew of the page.
SocketIsGone ==
    /\ library' = [library EXCEPT !.stage = "none"] /\ toLauncher' = <<>>
    /\ fates' = [fates EXCEPT !.lost = @ \cup Numbers(Users(launcher.out))]
    /\ launchGaps' = launchGaps \cup
           (IF launcher.layer /\ "values" \notin launcher.conditions THEN {"unasked"} ELSE {})

\* sendMessage, with the socket connecting or open.
Says(l, m) == IF ~l.active THEN l
              ELSE IF l.sock = "open" THEN [l EXCEPT !.out = Append(@, m)]
              ELSE [l EXCEPT !.queue = Append(@, m)]

EnterEditMode(l) ==
    UpdatePermission(IF l.permission = "readonly" /\ (l.mobile \/ l.odf # "no")
                     THEN Says(l, <<"values">>) ELSE l, "edit")

SetPermission(l, perm) ==
    IF perm = "readonly"
    THEN UpdatePermission([l EXCEPT !.button = @ /\ ~l.mobile], "readonly")
    ELSE IF l.odf = "other" THEN UpdatePermission(l, "readonly")
    ELSE IF l.mobile \/ l.odf = "owner" THEN UpdatePermission([l EXCEPT !.button = TRUE], "readonly")
    ELSE EnterEditMode(l)

\* _activate, but for the case of a server that is recycling.
Activate(l) == IF l.active THEN [l EXCEPT !.timer = FALSE]
               ELSE IF l.sock = "open" THEN [l EXCEPT !.active = TRUE, !.timer = FALSE]
               ELSE [Connect(l) EXCEPT !.timer = FALSE]

\* A page with at most one of: a lock, a format of its own for editing, a small screen.
OpenPage(lock, odf, fresh, mobile) ==
    /\ launcher.sock = "none"
    /\ lock # "none" => odf = "no" /\ ~mobile
    /\ odf # "no" => ~mobile
    /\ library' = [library EXCEPT !.lock = lock, !.odf = odf, !.fresh = fresh,
                                  !.kitPassword = IF fresh \/ lock = "none" THEN "none" ELSE "right"]
    /\ launcher' = ShowBusy([launcher EXCEPT !.sock = "connecting", !.mobile = mobile])
    /\ UNCHANGED <<toLauncher, fates, launchTurns, launchGaps>>

\* _onSocketOpen: the greeting, the document, and then what has waited.
GreetsLate(l) == l.queue \o <<<<"load", l.password>>>>
Greets(l) == <<<<"load", l.password>>>> \o l.queue

OnSocketOpen(writable) ==
    /\ launcher.sock = "connecting"
    /\ library' = [library EXCEPT !.stage = "greeted", !.writable = writable /\ launcher.asked = "edit"]
    /\ toLauncher' = <<<<"find">>, <<"ready">>, <<"wopi", library.odf>>>>
                     \o IF writable \/ launcher.asked = "readonly" THEN <<>> ELSE <<<<"perm">>>>
    /\ launcher' = [launcher EXCEPT !.sock = "open", !.out = Greets(launcher), !.queue = <<>>,
                                    !.active = TRUE, !.timer = FALSE,
                                    !.reconnecting = @ \/ launcher.layer]
    /\ UNCHANGED <<fates, launchTurns, launchGaps>>

-----------------------------------------------------------------------------
(* The server: wsd admits the client, the kit loads the document.          *)

\* What the kit says to a password: only the first session of a kit can open
\* a document that is locked against changes without one.
Refusal(pw) ==
    IF library.lock = "none" THEN "no"
    ELSE IF pw = "none" THEN IF library.lock = "modify" /\ library.fresh THEN "no" ELSE library.lock
    ELSE IF library.fresh THEN IF pw = "right" THEN "no" ELSE "wrong"
    ELSE IF pw = library.kitPassword THEN "no" ELSE "wrong"

LibrarySays(msgs) ==
    /\ toLauncher' = toLauncher \o msgs
    /\ launcher' = [launcher EXCEPT !.out = Tail(@)]

LoadDocument(pw) ==
    \/ /\ launchTurns.faults < MaxLaunchFaults
       /\ LibrarySays(<<<<"error", "unloading">>>>)
       /\ library' = [library EXCEPT !.stage = "refused", !.fresh = TRUE]
       /\ launchTurns' = [launchTurns EXCEPT !.faults = @ + 1]
    \/ /\ Refusal(pw) # "no"
       /\ LibrarySays(<<<<"error", Refusal(pw)>>>>)
       /\ library' = [library EXCEPT !.stage = "refused"]
       /\ UNCHANGED launchTurns
    \/ /\ Refusal(pw) = "no"
       /\ LibrarySays((IF library.fresh THEN <<<<"start">>, <<"finish">>>> ELSE <<>>)
                      \o <<<<"status">>, <<"viewinfo">>>>)
       /\ library' = [library EXCEPT !.stage = "loaded", !.fresh = FALSE,
                                     !.kitPassword = IF library.fresh THEN pw ELSE @]
       /\ UNCHANGED launchTurns

LibraryHandles ==
    /\ launcher.sock = "open" /\ launcher.out # <<>>
    /\ LET m == Head(launcher.out) IN
       \/ /\ m[1] = "load"
          /\ LoadDocument(m[2])
          /\ UNCHANGED fates
       \/ /\ m[1] = "values"
          /\ LibrarySays(IF library.stage = "loaded" THEN <<<<"values">>>> ELSE <<>>)
          /\ UNCHANGED <<library, fates, launchTurns>>
       \/ /\ m[1] = "saveas"
          /\ LibrarySays(<<<<"saveas">>>>)
          /\ library' = [library EXCEPT !.odf = "no", !.fresh = TRUE]
          /\ UNCHANGED <<fates, launchTurns>>
       \/ /\ m[1] = "user"
          /\ LibrarySays(<<>>)
          /\ fates' = CASE library.stage = "loaded" -> [fates EXCEPT !.served = Append(@, m[2])]
                        [] library.stage = "refused" -> [fates EXCEPT !.lost = @ \cup {m[2]}]
                        [] OTHER -> [fates EXCEPT !.early = @ \cup {m[2]}]
          /\ UNCHANGED <<library, launchTurns>>
    /\ launchGaps' = launchGaps \cup
           (IF library'.stage = "loaded" /\ library.stage # "loaded" /\ ~library.fresh
            THEN {"joined"} ELSE {})

-----------------------------------------------------------------------------
(* What the page makes of each message (Socket._onMessage).                *)

\* The first status creates the layer, later ones follow a lost connection.
CreateLayer(l) ==
    FireInitComplete(HideBar(SetPermission(Says([l EXCEPT !.layer = TRUE], <<"values">>), l.asked)),
                     {"doclayerinit"})

\* A slip: the page goes on in the mode it was in.
ResumeUnasked(l) == SetPermission(HideBar([l EXCEPT !.reconnecting = FALSE]), l.permission)

Resume(l) == SetPermission(HideBar([l EXCEPT !.reconnecting = FALSE]), l.asked)

OnStatus(l) ==
    PostLoaded(IF ~l.layer THEN CreateLayer(l) ELSE IF l.reconnecting THEN Resume(l) ELSE l, "docloaded")

\* A slip: the socket stays open while the user is asked.
AskPasswordOpen(l, kind) == [l EXCEPT !.prompts = Append(@, kind)]

AskPassword(l, kind) == [Close(l) EXCEPT !.prompts = Append(@, kind)]

OnLoadError(l, kind) ==
    IF kind = "unloading" THEN [Close(HideBar(l)) EXCEPT !.active = FALSE, !.timer = TRUE]
    ELSE AskPassword(HideBar(l), kind)

\* The copy is opened over a new socket, with what is asked for at the start.
OnSaveAs(l) == Says(Connect(HideBar(l)), <<"values">>)

OnLaunchMessage(l, m) ==
    CASE m[1] \in {"find", "start"} -> ShowBusy(l)
      [] m[1] = "ready" -> [ShowBusy(l) EXCEPT !.timer = FALSE]
      [] m[1] = "wopi" -> [l EXCEPT !.odf = m[2]]
      [] m[1] = "perm" -> [l EXCEPT !.asked = "readonly"]
      [] m[1] = "finish" -> FireInitComplete(HideBar(l), {"statusindicatorfinish"})
      [] m[1] = "status" -> OnStatus(l)
      [] m[1] = "viewinfo" -> IF l.layer THEN PostLoaded(l, "viewinfo") ELSE l
      [] m[1] = "values" -> IF l.layer THEN FireInitComplete(l, {"values"}) ELSE l
      [] m[1] = "error" -> OnLoadError(l, m[2])
      [] m[1] = "saveas" -> OnSaveAs(l)

LauncherHears ==
    /\ launcher.sock = "open" /\ toLauncher # <<>>
    /\ LET m == Head(toLauncher)
           l == OnLaunchMessage(launcher, m)
       IN /\ launcher' = l
          /\ \/ l.sock # "open" /\ SocketIsGone
             \/ /\ l.sock = "open"
                /\ toLauncher' = Tail(toLauncher)
                /\ UNCHANGED <<library, fates, launchGaps>>
    /\ UNCHANGED launchTurns

-----------------------------------------------------------------------------
(* The user, the timers, and the network.                                  *)

\* A prompt is answered; a declined one ends the page, unless the document
\* could be read without a password: it is loaded without one, then.
AnswerPrompt(i, answer) ==
    /\ i \in DOMAIN launcher.prompts /\ ~launcher.gone
    /\ launchTurns.answers < MaxLaunchAnswers
    /\ launchTurns' = [launchTurns EXCEPT !.answers = @ + 1]
    /\ SocketIsGone
    /\ LET l == [launcher EXCEPT !.prompts = RemoveAt(@, i)] IN
       launcher' = IF answer = "none" /\ launcher.prompts[i] # "modify"
                   THEN [Close(l) EXCEPT !.gone = TRUE, !.timer = FALSE, !.prompts = <<>>]
                   ELSE Connect([l EXCEPT !.password = answer])

\* sendMessage: a closed socket is opened for the message, which has to wait.
UserSends ==
    /\ launcher.sock # "none" /\ ~launcher.gone /\ launcher.active
    /\ fates.sent < MaxLaunchSends
    /\ LET m == <<"user", fates.sent + 1>> IN
       IF launcher.sock = "closed"
       THEN /\ launcher' = Says(Connect(launcher), m)
            /\ launchGaps' = launchGaps \cup (IF launcher.prompts # <<>> THEN {"stacked"} ELSE {})
       ELSE launcher' = Says(launcher, m) /\ UNCHANGED launchGaps
    /\ fates' = [fates EXCEPT !.sent = @ + 1]
    /\ UNCHANGED <<library, toLauncher, launchTurns>>

\* The button that a page has where editing must be asked for.
ClickEditButton ==
    /\ launcher.button /\ launcher.sock = "open" /\ launcher.active /\ ~launcher.gone
    /\ LET l == EnterEditMode([launcher EXCEPT !.button = FALSE])
       IN launcher' = IF l.odf = "owner" THEN Says(l, <<"saveas">>) ELSE l
    /\ launchGaps' = launchGaps \cup (IF launcher.asked = "readonly" THEN {"button"} ELSE {})
    /\ UNCHANGED <<library, toLauncher, fates, launchTurns>>

\* _onSocketClose: one attempt to connect again that the user does not see.
OnSocketClose ==
    /\ launcher.sock \in {"connecting", "open"} /\ ~launcher.gone
    /\ launchTurns.faults < MaxLaunchFaults
    /\ launchTurns' = [launchTurns EXCEPT !.faults = @ + 1]
    /\ SocketIsGone
    /\ LET l == [Close(HideBar(launcher)) EXCEPT !.active = FALSE]
       IN launcher' = IF l.reconnecting THEN l ELSE Activate([l EXCEPT !.reconnecting = TRUE])

\* The timer that waits for a document being closed, or the user who is back.
TryAgain ==
    /\ ~launcher.active /\ launcher.sock \in {"closed", "connecting"} /\ ~launcher.gone
    /\ launcher' = Activate(launcher)
    /\ SocketIsGone
    /\ UNCHANGED launchTurns

BarTick ==
    /\ launcher.barTimer /\ ~launcher.bar
    /\ launcher' = [launcher EXCEPT !.bar = TRUE]
    /\ UNCHANGED <<library, toLauncher, fates, launchTurns, launchGaps>>

LaunchNext ==
    \/ \E lock \in {"none", "view", "modify"}, odf \in {"no", "owner", "other"},
          fresh \in BOOLEAN, mobile \in BOOLEAN :
            OpenPage(lock, odf, fresh, mobile)
    \/ \E writable \in BOOLEAN : OnSocketOpen(writable)
    \/ LibraryHandles
    \/ LauncherHears
    \/ \E i \in {1, 2}, answer \in Passwords : AnswerPrompt(i, answer)
    \/ UserSends
    \/ ClickEditButton
    \/ OnSocketClose
    \/ TryAgain
    \/ BarTick

LaunchSpec == LaunchInit /\ [][LaunchNext]_launchVars

-----------------------------------------------------------------------------
(* Properties.                                                             *)

AllRead == /\ launcher.sock = "open" /\ library.stage = "loaded" /\ ~launcher.gone
           /\ toLauncher = <<>> /\ launcher.out = <<>>

\* What the user sent while there was no connection arrives in order, once, and after the
\* document was asked for (_msgQueue in _onSocketOpen); only with a socket is anything lost.
QueueIsKept ==
    LET waiting == Users(launcher.out) \o Users(launcher.queue)
    IN /\ fates.early = {}
       /\ \A i, j \in DOMAIN fates.served : i < j => fates.served[i] < fates.served[j]
       /\ 1..fates.sent = Range(fates.served) \cup fates.lost \cup Numbers(waiting)
       /\ \A i \in DOMAIN waiting, j \in DOMAIN fates.served : fates.served[j] < waiting[i][2]

\* The user is asked for one password at a time, of a document that is not open (the load error
\* closes the socket); but a message sent meanwhile opens it again, and then the user is asked twice.
PromptIsAlone ==
    "stacked" \notin launchGaps =>
        /\ Len(launcher.prompts) <= 1
        /\ launcher.prompts # <<>> => launcher.sock = "closed"

\* The progress bar ends with what it was started for (ProgressOverlay.end, _onUpdateProgress), also
\* when that ends with an error: neither it nor its timer outlives the loading.
BarEnds ==
    AllRead \/ (launcher.sock = "closed" /\ ~launcher.gone) =>
        ~launcher.bar /\ ~launcher.barTimer /\ ~launcher.busy

\* Who edits may write, by the last word of the server (perm:) and the state of the document
\* (setPermission), but for a button of the connection before that is still shown.
EditorMayWrite ==
    AllRead /\ "button" \notin launchGaps /\ launcher.permission = "edit" =>
        /\ library.writable /\ launcher.asked = "edit"
        /\ launcher.odf # "other"

\* The host is told once in a connection that the document is loaded (_postLoaded), when it is, and
\* again after the next one (resetAppLoaded).
HostIsToldOnce ==
    /\ launcher.told <= 1
    /\ launcher.told = 1 => launcher.layer
    /\ AllRead => launcher.told = 1

\* The page finishes starting (_fireInitComplete), also when answers come in another order or from
\* another connection; but a page that joined others waits for an indicator that never finishes, and
\* one that lost its connection does not ask again for the values it needs.
LaunchIsComplete ==
    AllRead /\ launchGaps \cap {"joined", "unasked"} = {} => launcher.complete

====
