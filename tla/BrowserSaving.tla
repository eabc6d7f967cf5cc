---------------------------- MODULE BrowserSaving ----------------------------
(***************************************************************************)
(* Saving, renaming, downloading and closing from the browser: requests    *)
(* whose answers name a command but not the request, so that the answer to *)
(* one request can be taken for the answer to another.                     *)
(*                                                                         *)
(* The server saves on its own as well, and its storage may refuse: a      *)
(* refusal is a warning, or the question what to do about a conflict, sent *)
(* before the result of the command, which says that the kit saved.        *)
(***************************************************************************)
EXTENDS Integers, Sequences, FiniteSets

CONSTANTS MaxSaveTurns,   \* bound: what the user, the host and the server do
          MaxWarnings     \* bound: refusals of the storage

VARIABLES
    paperDoc,    \* the kit: input in a cell, version of the document and version stored; and
                 \* the server's word that the document is modified, whatever the kit says
    saveIn,      \* requests to the server
    saveOut,     \* messages to the browser
    saver,       \* the browser, see SavingTypeOK
    host,        \* the page around: how often it asked to be told of a save, and was
    saveTurns,   \* how much of the bounds is used up
    trouble      \* history: the named holes that have been met

saveVars == <<paperDoc, saveIn, saveOut, saver, host, saveTurns, trouble>>

\* Who asks for a save; the last one is the server itself.
Savers == {"user", "host", "rename", "close", "auto"}

\* The values the variables take.
SavingTypeOK ==
    /\ paperDoc.cell \in BOOLEAN /\ paperDoc.version \in 0..MaxSaveTurns /\ paperDoc.stored \in 0..paperDoc.version
    /\ paperDoc.told \in BOOLEAN
    /\ saver.permission \in {"none", "edit", "readonly"} /\ saver.open \in BOOLEAN /\ saver.cursor \in BOOLEAN
    /\ saver.everModified \in BOOLEAN /\ saver.waitSaveResult \in BOOLEAN /\ saver.stopClose \in BOOLEAN
    /\ saver.saveTimers \in 0..MaxSaveTurns /\ saver.closeTimers \in 0..MaxSaveTurns
    /\ saver.renameFile \in BOOLEAN /\ saver.notifySave \in BOOLEAN /\ saver.busy \in BOOLEAN
    /\ saver.asking \in {"none", "conflict", "watermark"} /\ saver.closing \in {"no", "asked", "warned", "kept"}
    /\ host.asked \in 0..MaxSaveTurns /\ host.answered \in 0..host.asked
    /\ saveTurns.turns \in 0..MaxSaveTurns /\ saveTurns.warnings \in 0..MaxWarnings
    /\ trouble \subseteq {"unseen", "timeout", "other", "failed", "conflict", "after", "twice", "overlap",
                          "reader", "renamed"}

SavingInit ==
    /\ paperDoc = [cell |-> FALSE, version |-> 0, stored |-> 0, told |-> FALSE]
    /\ saveIn = <<>> /\ saveOut = <<>>
    /\ saver = [permission |-> "none", open |-> TRUE, cursor |-> FALSE, everModified |-> FALSE,
                waitSaveResult |-> FALSE, stopClose |-> FALSE, saveTimers |-> 0, closeTimers |-> 0,
                renameFile |-> FALSE, notifySave |-> FALSE, busy |-> FALSE, asking |-> "none", closing |-> "no"]
    /\ host = [asked |-> 0, answered |-> 0]
    /\ saveTurns = [turns |-> 0, warnings |-> 0] /\ trouble = {}

SaveTurn == saveTurns.turns < MaxSaveTurns /\ saveTurns' = [saveTurns EXCEPT !.turns = @ + 1]

-----------------------------------------------------------------------------
(* The server and the kit.                                                 *)

Request(k, who) == [kind |-> k, who |-> who]
Msg(k) == [kind |-> k]
ResultMsg(who, ok, reason) == [kind |-> "result", who |-> who, ok |-> ok, reason |-> reason]

\* Input in a cell is a change once it is committed.
Committed(d) == IF d.cell THEN [d EXCEPT !.cell = FALSE, !.version = @ + 1] ELSE d

Stored(d) == [d EXCEPT !.stored = d.version, !.told = FALSE]

\* An explicit save ends the input in a cell; that of the closing leaves it.
Before(d, who) == IF who \in {"user", "host", "rename"} THEN Committed(d) ELSE d

\* What comes of a save: nothing to save, saved and stored, saved and refused by the storage, or
\* not saved by the kit.
Refusals == {"refused", "conflict", "failed"}

SaveAnswer(who, outcome) ==
    CASE outcome = "unmodified" -> <<ResultMsg(who, FALSE, "unmodified")>>
      [] outcome = "stored" -> <<ResultMsg(who, TRUE, "")>>
      [] outcome = "refused" -> <<Msg("warn"), ResultMsg(who, TRUE, "")>>
      [] outcome = "conflict" -> <<Msg("conflict"), ResultMsg(who, TRUE, "")>>
      [] outcome = "failed" -> <<ResultMsg(who, FALSE, "failed")>>

ServerSaves(d, who) ==
    \E o \in IF who = "close" /\ d.version = d.stored THEN {"unmodified"} ELSE Refusals \cup {"stored"} :
        /\ o \in Refusals => saveTurns.warnings < MaxWarnings
        /\ saveTurns' = [saveTurns EXCEPT !.warnings = IF o \in Refusals THEN @ + 1 ELSE @]
        /\ paperDoc' = IF o = "stored" THEN Stored(d) ELSE d
        /\ saveOut' = saveOut \o (IF d.version # paperDoc.version THEN <<Msg("nocursor"), Msg("modified")>> ELSE <<>>)
                              \o SaveAnswer(who, o)

\* The server opens the document for an editor or a reader.
ServerAdmits ==
    /\ saver.permission = "none"
    /\ \E p \in {"edit", "readonly"} : saver' = [saver EXCEPT !.permission = p]
    /\ UNCHANGED <<paperDoc, saveIn, saveOut, host, saveTurns, trouble>>

ServerHandles ==
    /\ saveIn # <<>> /\ saveIn' = Tail(saveIn)
    /\ LET m == Head(saveIn) IN
        CASE m.kind = "key" ->
                /\ paperDoc' = [paperDoc EXCEPT !.cell = TRUE]
                /\ saveOut' = Append(saveOut, Msg("cursor")) /\ UNCHANGED saveTurns
          [] m.kind = "enter" ->
                /\ paperDoc' = Committed(paperDoc)
                /\ saveOut' = saveOut \o IF paperDoc.cell THEN <<Msg("nocursor"), Msg("modified")>> ELSE <<>>
                /\ UNCHANGED saveTurns
          [] m.kind = "setmodified" ->
                paperDoc' = [paperDoc EXCEPT !.told = TRUE] /\ UNCHANGED <<saveOut, saveTurns>>
          [] m.kind = "save" ->
                IF saver.permission = "readonly" THEN UNCHANGED <<paperDoc, saveOut, saveTurns>>
                ELSE ServerSaves(Before(paperDoc, m.who), m.who)
          [] m.kind = "savetostorage" ->
                /\ paperDoc' = Stored(paperDoc)
                /\ saveOut' = Append(saveOut, Msg("commandresult")) /\ UNCHANGED saveTurns
          [] m.kind \in {"renamefile", "saveas"} ->
                saveOut' = Append(saveOut, Msg("renamed")) /\ UNCHANGED <<paperDoc, saveTurns>>
          [] m.kind = "downloadas" ->
                saveOut' = Append(saveOut, Msg("downloadas")) /\ UNCHANGED <<paperDoc, saveTurns>>
    /\ UNCHANGED <<saver, host, trouble>>

\* The server saves on its own, and this session is told the result, also that nothing was to save.
ServerAutosaves ==
    /\ saveTurns.turns < MaxSaveTurns /\ saver.open
    /\ paperDoc.version # paperDoc.stored \/ paperDoc.told
    /\ saveTurns' = [saveTurns EXCEPT !.turns = @ + 1]
    /\ IF paperDoc.version # paperDoc.stored
       THEN paperDoc' = Stored(paperDoc) /\ saveOut' = saveOut \o SaveAnswer("auto", "stored")
       ELSE UNCHANGED paperDoc /\ saveOut' = saveOut \o SaveAnswer("auto", "unmodified")
    /\ UNCHANGED <<saveIn, saver, host, trouble>>

-----------------------------------------------------------------------------
(* Requests.                                                               *)

\* save: the status bar is locked while it lasts.
Save(s) == [s EXCEPT !.busy = TRUE]

HideBusy(s) == [s EXCEPT !.busy = FALSE]

\* Input that is not stored, on its way to the kit or with it.
Unsaved ==
    \/ paperDoc.cell \/ paperDoc.version # paperDoc.stored
    \/ \E i \in DOMAIN saveIn : saveIn[i].kind = "key"

\* sendUICloseMessage: not after an error, once.
SendUICloseMessage(s) ==
    IF s.stopClose THEN [s EXCEPT !.stopClose = FALSE, !.closing = IF @ = "warned" THEN "kept" ELSE @]
    ELSE [s EXCEPT !.open = FALSE]

\* forceCellCommit: when the cursor is seen in a cell the server is told that the document is
\* modified, and the kit is sent the key that ends the input.
ForceCellCommit(s) ==
    IF s.cursor THEN <<Request("setmodified", "close"), Request("enter", "close")>> ELSE <<>>

\* With a slip: the input in a cell is left.
CloseWithoutCommit(s) ==
    LET r == [s EXCEPT !.stopClose = FALSE, !.closing = "asked"] IN
    IF s.permission = "edit" /\ (s.cursor \/ s.everModified)
    THEN [to |-> <<>>, s |-> [r EXCEPT !.waitSaveResult = TRUE, !.saveTimers = @ + 1, !.closeTimers = @ + 1]]
    ELSE [to |-> <<>>, s |-> SendUICloseMessage([r EXCEPT !.stopClose = IF s.permission = "edit" THEN FALSE ELSE s.stopClose])]

\* With a slip: an error from before the closing stops it.
CloseStale(s) ==
    LET r == [s EXCEPT !.closing = "asked"] IN
    IF s.permission = "edit" /\ (s.cursor \/ s.everModified)
    THEN [to |-> ForceCellCommit(s),
          s |-> [r EXCEPT !.waitSaveResult = TRUE, !.saveTimers = @ + 1, !.closeTimers = @ + 1]]
    ELSE [to |-> <<>>, s |-> SendUICloseMessage(r)]

\* closeDocument: what it sends and what it leaves.  The flag is reset for an editor only.
CloseDocument(s) ==
    LET r == [s EXCEPT !.stopClose = @ /\ s.permission # "edit", !.closing = "asked"] IN
    IF s.permission = "edit" /\ (s.cursor \/ s.everModified)
    THEN [to |-> ForceCellCommit(s),
          s |-> [r EXCEPT !.waitSaveResult = TRUE, !.saveTimers = @ + 1, !.closeTimers = @ + 1]]
    ELSE [to |-> <<>>, s |-> SendUICloseMessage(r)]

-----------------------------------------------------------------------------
(* Answers.                                                                *)

\* _onError of the alerts: whatever is being closed stays open.
OnError(s) == [s EXCEPT !.stopClose = TRUE, !.closing = IF @ = "asked" THEN "warned" ELSE @]

\* error: cmd=storage, with a message: a warning.
OnStorageError(s) == OnError(HideBusy(s))

\* The conflict is asked about instead, and stops nothing.
OnConflict(s) == [HideBusy(s) EXCEPT !.asking = "conflict"]

\* .uno:ModifiedStatus.
ModifiedStatus(s) == [s EXCEPT !.everModified = TRUE]

\* With a slip: the wait goes on when the closing was stopped.
OnResultCloseAgain(s) == IF s.waitSaveResult THEN SendUICloseMessage(s) ELSE s

\* The listener of the map: the first result of a save ends the wait of the closing, whatever it is.
OnResultClose(s) ==
    IF s.waitSaveResult THEN SendUICloseMessage([s EXCEPT !.waitSaveResult = FALSE]) ELSE s

\* renameFile, saveAs: answered with the address of the document under its new name.
RenameFile(s, to) == [to |-> to, s |-> [s EXCEPT !.renameFile = FALSE, !.busy = TRUE]]

\* onCommandResult: a successful save is followed by the renaming that waits for one.
OnCommandResult(s, ok) ==
    LET r == [s EXCEPT !.everModified = @ \/ ok, !.notifySave = FALSE] IN
    IF ok /\ s.renameFile THEN RenameFile(r, <<Request("renamefile", "rename")>>) ELSE [to |-> <<>>, s |-> r]

\* _postMessage lets the answer through to the host that asked for one, and forgets that it did.
PostMessage(s, h) == [h EXCEPT !.answered = IF s.notifySave THEN @ + 1 ELSE @]

\* With a slip: the host is told of a success only.
SaveRespOnSuccess(s, h, ok) == IF ok THEN PostMessage(s, h) ELSE h

ActionSaveResp(s, h, ok) == PostMessage(s, h)

\* What is lost when the window closes on this result.
ClosedBy(m) ==
    IF m.reason = "failed" THEN {"failed"} ELSE IF m.who # "close" THEN {"other"} ELSE {}

\* unocommandresult of a save: the status bar, the map, then the tool bar.
OnUnoCommandResult(m) ==
    LET closed == OnResultClose(HideBusy(saver))
        done == OnCommandResult(closed, m.ok)
    IN  /\ saver' = done.s /\ saveIn' = saveIn \o done.to
        /\ host' = ActionSaveResp(saver, host, m.ok)
        /\ trouble' = IF closed.open \/ ~Unsaved THEN trouble ELSE trouble \cup ClosedBy(m)

\* With a slip: the status bar stays locked.
OnDownloadAsBusy(s) == s

\* _onDownloadAsMsg.
OnDownloadAs(s) == HideBusy(s)

SaverReceives ==
    /\ saver.open /\ saveOut # <<>> /\ Head(saveOut).kind # "renamed" /\ saveOut' = Tail(saveOut)
    /\ LET m == Head(saveOut) IN
        CASE m.kind = "result" -> OnUnoCommandResult(m)
          [] m.kind = "warn" -> saver' = OnStorageError(saver) /\ UNCHANGED <<saveIn, host, trouble>>
          [] m.kind = "conflict" ->
                /\ saver' = OnConflict(saver)
                /\ trouble' = IF saver.waitSaveResult THEN trouble \cup {"conflict"} ELSE trouble
                /\ UNCHANGED <<saveIn, host>>
          [] m.kind = "modified" -> saver' = ModifiedStatus(saver) /\ UNCHANGED <<saveIn, host, trouble>>
          [] m.kind \in {"cursor", "nocursor"} ->
                saver' = [saver EXCEPT !.cursor = m.kind = "cursor"] /\ UNCHANGED <<saveIn, host, trouble>>
          [] m.kind = "downloadas" -> saver' = OnDownloadAs(saver) /\ UNCHANGED <<saveIn, host, trouble>>
          [] m.kind = "commandresult" -> UNCHANGED <<saver, saveIn, host, trouble>>
    /\ UNCHANGED <<paperDoc, saveTurns>>

\* saveas, renamefile: the connection is closed and the document with the new name is opened on
\* another; what was under way on the old one is not answered.
SaverIsSentOn ==
    /\ saver.open /\ saveOut # <<>> /\ Head(saveOut).kind = "renamed"
    /\ saver' = [HideBusy(saver) EXCEPT !.cursor = FALSE]
    /\ paperDoc' = [Stored(paperDoc) EXCEPT !.cell = FALSE]
    /\ saveIn' = <<>> /\ saveOut' = <<>>
    /\ trouble' = IF saveIn # <<>> \/ Len(saveOut) > 1 THEN trouble \cup {"renamed"} ELSE trouble
    /\ UNCHANGED <<host, saveTurns>>

-----------------------------------------------------------------------------
(* Timers, the user and the host.                                          *)

\* Half a second after the closing began: the save it waits for.
SaveTimer ==
    /\ saver.open /\ saver.saveTimers > 0
    /\ saver' = Save([saver EXCEPT !.saveTimers = @ - 1])
    /\ saveIn' = Append(saveIn, Request("save", "close"))
    /\ UNCHANGED <<paperDoc, saveOut, host, saveTurns, trouble>>

\* A minute after the closing began.
CloseTimer ==
    /\ saver.open /\ saver.closeTimers > saver.saveTimers
    /\ saver' = SendUICloseMessage([saver EXCEPT !.closeTimers = @ - 1])
    /\ trouble' = IF saver'.open /\ ~saver.waitSaveResult THEN trouble ELSE trouble \cup {"timeout"}
    /\ UNCHANGED <<paperDoc, saveIn, saveOut, host, saveTurns>>

\* The user types into a cell, and ends the input.
TypeKey ==
    /\ SaveTurn /\ saver.open /\ saver.permission = "edit" /\ saver.asking = "none"
    /\ saveIn' = Append(saveIn, Request("key", "user"))
    /\ trouble' = IF saver.waitSaveResult THEN trouble \cup {"after"} ELSE trouble
    /\ UNCHANGED <<paperDoc, saveOut, saver, host>>

TypeEnter ==
    /\ SaveTurn /\ saver.open /\ saver.cursor /\ saver.asking = "none"
    /\ saveIn' = Append(saveIn, Request("enter", "user"))
    /\ UNCHANGED <<paperDoc, saveOut, saver, host, trouble>>

UserCloses ==
    /\ SaveTurn /\ saver.open /\ saver.permission # "none" /\ saver.asking = "none"
    /\ LET c == CloseDocument(saver) IN
        /\ saver' = c.s /\ saveIn' = saveIn \o c.to
        /\ trouble' = trouble \cup (IF Unsaved /\ (~c.s.open \/ ~saver.cursor) THEN {"unseen"} ELSE {})
                              \cup (IF saver.permission = "readonly" /\ c.s.open THEN {"twice"} ELSE {})
    /\ UNCHANGED <<paperDoc, saveOut, host>>

UserSaves ==
    /\ SaveTurn /\ saver.open /\ saver.permission = "edit" /\ saver.asking = "none"
    /\ saver' = Save(saver) /\ saveIn' = Append(saveIn, Request("save", "user"))
    /\ UNCHANGED <<paperDoc, saveOut, host, trouble>>

\* documentNameConfirm: saves first, and remembers the name.
DocumentNameConfirm ==
    /\ SaveTurn /\ saver.open /\ saver.permission = "edit" /\ saver.asking = "none"
    /\ saver' = [saver EXCEPT !.renameFile = TRUE] /\ saveIn' = Append(saveIn, Request("save", "rename"))
    /\ UNCHANGED <<paperDoc, saveOut, host, trouble>>

\* Action_Save of the host, with or without Notify: the last one says whether it is answered.
HostSaves ==
    /\ SaveTurn /\ saver.open /\ saver.permission # "none"
    /\ \E notify \in BOOLEAN :
        /\ saver' = Save([saver EXCEPT !.notifySave = notify])
        /\ host' = [host EXCEPT !.asked = IF notify THEN @ + 1 ELSE @]
        /\ trouble' = trouble \cup (IF saver.notifySave THEN {"overlap"} ELSE {})
                              \cup (IF saver.permission = "readonly" THEN {"reader"} ELSE {})
    /\ saveIn' = Append(saveIn, Request("save", "host"))
    /\ UNCHANGED <<paperDoc, saveOut>>

\* run of the question for a watermark takes the lock off again.
AskWatermark(s) == [HideBusy(s) EXCEPT !.asking = "watermark"]

\* print, downloadAs of a PDF.
Prints ==
    /\ SaveTurn /\ saver.open /\ saver.permission # "none" /\ saver.asking = "none"
    /\ saver' = AskWatermark([saver EXCEPT !.busy = TRUE])
    /\ UNCHANGED <<paperDoc, saveIn, saveOut, host, trouble>>

AnswerWatermark ==
    /\ saver.open /\ saver.asking = "watermark"
    /\ \/ /\ saver' = [saver EXCEPT !.busy = TRUE, !.asking = "none"]
          /\ saveIn' = Append(saveIn, Request("downloadas", "user"))
       \/ saver' = [saver EXCEPT !.asking = "none"] /\ UNCHANGED saveIn
    /\ UNCHANGED <<paperDoc, saveOut, host, saveTurns, trouble>>

\* The question about a conflict: to discard the changes, which closes the document for everyone
\* and opens it again, to overwrite what is stored, or to save under a new name.
AnswerConflict ==
    /\ saver.open /\ saver.asking = "conflict"
    /\ \/ /\ saver' = [saver EXCEPT !.asking = "none", !.cursor = FALSE]
          /\ paperDoc' = [paperDoc EXCEPT !.cell = FALSE, !.version = paperDoc.stored, !.told = FALSE]
          /\ saveIn' = <<>> /\ saveOut' = <<>>
          /\ trouble' = IF saveIn # <<>> \/ saveOut # <<>> THEN trouble \cup {"renamed"} ELSE trouble
       \/ /\ saver' = [saver EXCEPT !.asking = "none"]
          /\ saveIn' = Append(saveIn, Request("savetostorage", "user"))
          /\ UNCHANGED <<paperDoc, saveOut, trouble>>
       \/ /\ saver' = [saver EXCEPT !.asking = "none", !.busy = TRUE]
          /\ saveIn' = Append(saveIn, Request("saveas", "user"))
          /\ UNCHANGED <<paperDoc, saveOut, trouble>>
    /\ UNCHANGED <<host, saveTurns>>

SavingNext ==
    \/ ServerAdmits
    \/ ServerHandles
    \/ ServerAutosaves
    \/ SaverReceives
    \/ SaverIsSentOn
    \/ SaveTimer
    \/ CloseTimer
    \/ TypeKey
    \/ TypeEnter
    \/ UserCloses
    \/ UserSaves
    \/ DocumentNameConfirm
    \/ HostSaves
    \/ Prints
    \/ AnswerWatermark
    \/ AnswerConflict

SavingSpec == SavingInit /\ [][SavingNext]_saveVars

-----------------------------------------------------------------------------
(* Properties.                                                             *)

SavingQuiet == saveIn = <<>> /\ saveOut = <<>> /\ saver.saveTimers = 0 /\ saver.closeTimers = 0

\* When an editor's window is closed, everything he typed is stored - unless the browser had not
\* seen it yet ("unseen"), the minute was over ("timeout"), another save was taken for that of the
\* closing ("other"), the kit did not save ("failed"), the storage had a conflict ("conflict"), or
\* he typed on after closing ("after").
ClosedMeansStored ==
    ~saver.open => ~Unsaved \/ trouble \cap {"unseen", "timeout", "other", "failed", "conflict", "after"} # {}

\* A window that an error kept open stays open until it is closed again - but for the minute that
\* the closing had ("timeout").
KeptOpenStaysOpen == ~saver.open /\ saver.closing = "kept" => "timeout" \in trouble

\* When everything is done, a window that was to be closed is closed, or an error kept it open -
\* but for a reader, whom an error from long ago makes close it twice ("twice").
CloseIsObeyed == SavingQuiet /\ saver.open => saver.closing # "asked" \/ "twice" \in trouble

\* The host is told of every save it asked to be told of - unless it asked for another before the
\* answer ("overlap"), may not save ("reader"), or the document was exchanged ("renamed").
HostIsAnswered ==
    SavingQuiet /\ saver.open =>
        host.asked = host.answered \/ trouble \cap {"overlap", "reader", "renamed"} # {}

\* The status bar is not left locked - unless a reader's save was refused ("reader") or the
\* document was exchanged ("renamed").
BusyEnds == SavingQuiet /\ saver.open => ~saver.busy \/ trouble \cap {"reader", "renamed"} # {}

=============================================================================
