---------------------------- MODULE KitDocument -----------------------------
(***************************************************************************)
(* The kit process of one document (kit/Kit.cpp, class Document, and       *)
(* kit/ChildSession.cpp): its sessions and views, the document in memory,  *)
(* and the one thread that takes messages off the queue (Document::run).   *)
(*                                                                         *)
(* Callbacks of LibreOfficeKit (command results, state changes) are not    *)
(* sent at once: ViewCallback puts them into the kit's own queue, and they *)
(* go to wsd when run() reaches them, if their session still exists then.  *)
(* The broker has forgotten every session the kit has, so whether the kit  *)
(* or the broker drops such a message is the same; fromKit holds them from *)
(* the moment they are queued.  A status is sent at once and may overtake  *)
(* callbacks that wait in the queue.                                       *)
(***************************************************************************)
EXTENDS KitChannel

VARIABLES hasDocument,  \* the Document object exists
          kitSessions,  \* Document::_sessions
          kitViews,     \* the sessions with a loaded view
          isLoading,    \* Document::_isLoading
          doc,          \* the document in memory
          kitModified   \* the document's own modified flag

kitVars == <<hasDocument, kitSessions, kitViews, isLoading, doc, kitModified>>

KitTypeOK ==
    /\ hasDocument \in BOOLEAN
    /\ kitSessions \in SUBSET Sessions
    /\ kitViews \in SUBSET kitSessions
    /\ isLoading \in BOOLEAN
    /\ doc \in SUBSET Edits
    /\ kitModified \in BOOLEAN

KitInit ==
    /\ hasDocument = FALSE
    /\ kitSessions = {}
    /\ kitViews = {}
    /\ isLoading = FALSE
    /\ doc = {}
    /\ kitModified = FALSE

-----------------------------------------------------------------------------
Receive(type) ==
    /\ kitAlive
    /\ toKit # <<>>
    /\ Head(toKit).t = type
    /\ toKit' = Tail(toKit)

\* The messages the broker may find when status m is sent: it may overtake
\* fromKit, but not another status.
WithStatus(m) ==
    {SubSeq(fromKit, 1, i) \o <<m>> \o SubSeq(fromKit, i + 1, Len(fromKit)) :
        i \in {j \in 0..Len(fromKit) :
                \A k \in (j + 1)..Len(fromKit) : fromKit[k].t # "status"}}

\* "session <id>": the first one creates the Document; then createSession.
KitSession ==
    /\ Receive("session")
    /\ hasDocument' = TRUE
    /\ kitSessions' = kitSessions \cup {Head(toKit).s}
    /\ UNCHANGED <<fromKit, kitAlive, jail, fresh, excuses,
                   kitViews, isLoading, doc, kitModified>>

\* Mutant of KitLoad: a document loaded again starts empty.
KitLoadEmpty ==
    /\ Receive("load")
    /\ ~isLoading
    /\ LET s == Head(toKit).s IN
         /\ s \in kitSessions
         /\ kitViews' = kitViews \cup {s}
         /\ doc' = IF kitViews = {} THEN {} ELSE doc
         /\ kitModified' = (kitViews # {} /\ kitModified)
         /\ \E q \in WithStatus([t |-> "status", s |-> s]) :
              fromKit' = Append(q, [t |-> "modified", to |-> {s}, v |-> kitModified'])
    /\ UNCHANGED <<kitAlive, jail, fresh, excuses, hasDocument, kitSessions, isLoading>>

\* "child-<id> load": onLoad waits while _isLoading, loads the document with
\* the first view (from the file in the jail) and answers with the status;
\* the new view is told the modified state.  A template is saved over the
\* file in the jail.
KitLoad ==
    /\ Receive("load")
    /\ ~isLoading
    /\ LET s == Head(toKit).s IN
         /\ s \in kitSessions
         /\ kitViews' = kitViews \cup {s}
         /\ doc' = IF kitViews = {} THEN jail ELSE doc
         /\ kitModified' = (kitViews # {} /\ kitModified)
         /\ \E q \in WithStatus([t |-> "status", s |-> s]) :
              fromKit' = Append(q, [t |-> "modified", to |-> {s}, v |-> kitModified'])
    /\ IF FromTemplate THEN jail' = doc' /\ fresh' = FALSE
                       ELSE UNCHANGED <<jail, fresh>>
    /\ UNCHANGED <<kitAlive, excuses, hasDocument, kitSessions, isLoading>>

\* load() returned null or threw: onLoad returns without decrementing
\* _isLoading, and the session stays without a view.
KitLoadFails ==
    /\ "load" \in Faults
    /\ Receive("load")
    /\ ~isLoading
    /\ isLoading' = TRUE
    /\ excuses' = excuses \cup {"load"}
    /\ UNCHANGED <<fromKit, kitAlive, jail, fresh,
                   hasDocument, kitSessions, kitViews, doc, kitModified>>

\* Input that changes the document.  LibreOfficeKit reports the modified
\* state to every view when it changes.
KitEdit ==
    /\ Receive("edit")
    /\ LET m == Head(toKit) IN
         IF m.s \in kitViews
         THEN /\ doc' = doc \cup {m.e}
              /\ kitModified' = TRUE
              /\ fromKit' = IF kitModified THEN fromKit
                              ELSE Append(fromKit,
                                     [t |-> "modified", to |-> kitViews, v |-> TRUE])
         ELSE UNCHANGED <<doc, kitModified, fromKit>>     \* kind=nodocloaded
    /\ UNCHANGED <<kitAlive, jail, fresh, excuses,
                   hasDocument, kitSessions, kitViews, isLoading>>

SaveResult(s, ok) == [t |-> "saved", s |-> s, ok |-> ok]

\* ".uno:Save" of a document that is unmodified, with DontSaveIfUnmodified; or
\* from a session without a view, which is answered with kind=nodocloaded only.
KitSaveSkips ==
    /\ Receive("save")
    /\ LET m == Head(toKit) IN
         \/ /\ m.s \in kitViews
            /\ m.skip /\ ~kitModified
            /\ fromKit' = Append(fromKit, SaveResult(m.s, FALSE))
            /\ UNCHANGED excuses
         \/ /\ m.s \notin kitViews
            /\ excuses' = excuses \cup {"noview"}
            /\ UNCHANGED fromKit
    /\ UNCHANGED <<kitAlive, jail, fresh,
                   hasDocument, kitSessions, kitViews, isLoading, doc, kitModified>>

\* ".uno:Save" writes the file.  The result and the change of the modified
\* state are two callbacks, in either order.  Two writes within one tick of
\* the file system's clock leave the same mtime.
KitSaves ==
    /\ Receive("save")
    /\ LET m == Head(toKit)
           result  == SaveResult(m.s, TRUE)
           cleared == IF kitModified
                      THEN <<[t |-> "modified", to |-> kitViews, v |-> FALSE]>>
                      ELSE <<>>
       IN /\ m.s \in kitViews
          /\ ~(m.skip /\ ~kitModified)
          /\ fromKit' \in {fromKit \o <<result>> \o cleared,
                           fromKit \o cleared \o <<result>>}
    /\ jail' = doc
    /\ kitModified' = FALSE
    /\ \/ fresh' = FALSE /\ UNCHANGED excuses
       \/ /\ "tick" \in Faults /\ fresh /\ UNCHANGED fresh
          /\ excuses' = excuses \cup {"tick"}
    /\ UNCHANGED <<kitAlive, hasDocument, kitSessions, kitViews, isLoading, doc>>

\* ".uno:Save" fails: the document stays modified.
KitSaveFails ==
    /\ "save" \in Faults
    /\ Receive("save")
    /\ LET m == Head(toKit) IN
         /\ m.s \in kitViews
         /\ ~(m.skip /\ ~kitModified)
         /\ fromKit' = Append(fromKit, SaveResult(m.s, FALSE))
    /\ excuses' = excuses \cup {"save"}
    /\ UNCHANGED <<kitAlive, jail, fresh,
                   hasDocument, kitSessions, kitViews, isLoading, doc, kitModified>>

\* Mutant of KitDisconnect: the view of the session is not unloaded.
KitDisconnectKeepsView ==
    /\ Receive("disconnect")
    /\ kitSessions' = kitSessions \ {Head(toKit).s}
    /\ UNCHANGED <<fromKit, kitAlive, jail, fresh, excuses,
                   hasDocument, kitViews, isLoading, doc, kitModified>>

\* "child-<id> disconnect": the session is erased and its view unloaded.  The
\* last view closes the document if other sessions exist, else the kit exits.
KitDisconnect ==
    /\ Receive("disconnect")
    /\ LET s == Head(toKit).s
           lastView == kitViews = {s}
       IN /\ kitSessions' = kitSessions \ {s}
          /\ kitViews' = kitViews \ {s}
          /\ kitAlive' = ~(lastView /\ kitSessions \subseteq {s})
          /\ doc' = IF lastView THEN jail ELSE doc
          /\ kitModified' = (kitModified /\ ~lastView)
    /\ UNCHANGED <<fromKit, jail, fresh, excuses, hasDocument, isLoading>>

\* purgeSessions finds no session left: the process exits bluntly.
KitPurge ==
    /\ kitAlive
    /\ hasDocument
    /\ kitSessions = {}
    /\ kitAlive' = FALSE
    /\ UNCHANGED <<toKit, fromKit, jail, fresh, excuses, kitVars>>

KitCrash ==
    /\ "crash" \in Faults
    /\ kitAlive
    /\ kitAlive' = FALSE
    /\ excuses' = excuses \cup {"crash"}
    /\ UNCHANGED <<toKit, fromKit, jail, fresh, kitVars>>

KitHandle ==
    \/ KitSession \/ KitLoad \/ KitEdit \/ KitSaveSkips \/ KitSaves
    \/ KitDisconnect
=============================================================================
