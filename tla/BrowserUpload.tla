---------------------------- MODULE BrowserUpload ---------------------------
(***************************************************************************)
(* The two pages of the administrator's console that send files to the     *)
(* server: fonts, one after the other, and a package to upgrade the        *)
(* service with.  A file is announced, then read and sent in slices over   *)
(* the socket that commands go over too: while the server expects a file   *)
(* it takes every message for a slice of it.                               *)
(***************************************************************************)
EXTENDS Integers, Sequences, FiniteSets, SequencesExt

CONSTANTS Files,            \* files the administrator may choose
          SlicesOf,         \* the number of slices (_sliceSize) each of them has
          Installed,        \* those that the server has at first, as fonts
          MaxUploadTurns    \* bound: what the administrator does

ASSUME UploadAssumption == SlicesOf \in [Files -> Nat] /\ Installed \subseteq Files

VARIABLES
    depot,          \* the server: the file it expects, what came, the fonts it has
    toUploader,     \* messages to the page
    uploader,       \* the page, with its messages to the server
    uploadTurns,    \* how much of the bound is used up
    mishaps          \* history: the named holes that have been met

uploadVars == <<depot, toUploader, uploader, uploadTurns, mishaps>>

NoFile == "none"
\* A slice counts for two, a command that is taken for one counts for one.
SizeOf(f) == 2 * SlicesOf[f]
Weight(m) == IF m[1] # "slice" THEN 1 ELSE IF m[3] < SlicesOf[m[2]] THEN 2 ELSE 0
Whole(f) == [i \in 1..SlicesOf[f] |-> <<"slice", f, i - 1>>]
Idle == [busy |-> FALSE, file |-> NoFile, slice |-> 0, next |-> 0]

\* The values the variables take.
UploadTypeOK ==
    /\ depot.expected \in Files \cup {NoFile} /\ depot.name \in Files \cup {NoFile}
    /\ depot.fonts \subseteq Files /\ depot.broken \subseteq depot.fonts
    /\ uploader.chosen \in Seq(Files) /\ uploader.list \in Seq(Files)
    /\ uploader.index \in 0..Len(uploader.list)
    /\ uploader.info \in Files \cup {NoFile} /\ uploader.listed \subseteq Files
    /\ uploader.reader.slice \in Nat /\ uploader.loaded \in Nat
    /\ mishaps \subseteq {"again", "deleted", "empty", "cleared", "twice"}

UploadInit ==
    /\ depot = [expected |-> NoFile, got |-> <<>>, total |-> 0, name |-> NoFile, temp |-> FALSE,
                fonts |-> Installed, broken |-> {}, deleted |-> {}, unpacked |-> FALSE, upgraded |-> {}]
    /\ toUploader = <<>> /\ uploadTurns = 0 /\ mishaps = {}
    /\ uploader = [page |-> "none", out |-> <<>>,
                   chosen |-> <<>>, enabled |-> FALSE, list |-> <<>>, index |-> 0,
                   info |-> NoFile, loaded |-> 0, reader |-> Idle,
                   progress |-> FALSE, listed |-> {}]

\* onSocketOpen
OpenUploader(page) ==
    /\ uploader.page = "none"
    /\ uploader' = [uploader EXCEPT !.page = page,
                                    !.out = IF page = "fonts" THEN <<<<"getFontlist">>>> ELSE <<>>]
    /\ UNCHANGED <<depot, toUploader, uploadTurns, mishaps>>

-----------------------------------------------------------------------------
(* The server (AdminSocketHandler::handleMessage, upgradeSoftware).         *)

\* While a file is expected, whatever comes is part of it.
TakeSlice(m) ==
    LET total == depot.total + Weight(m)
        full == total >= SizeOf(depot.expected)
    IN /\ depot' = [depot EXCEPT !.got = Append(@, m), !.total = total,
                                 !.expected = IF full THEN NoFile ELSE @]
       /\ toUploader' = IF full THEN Append(toUploader, <<"upgradeFileReciveOK">>) ELSE toUploader

\* The file is opened before its size is looked at.
ExpectFile(f) ==
    /\ depot' = [depot EXCEPT !.temp = TRUE, !.name = f, !.expected = f, !.got = <<>>, !.total = 0,
                              !.unpacked = FALSE]
    /\ toUploader' = Append(toUploader,
                            <<IF SizeOf(f) > 0 THEN "readyToReceiveFile" ELSE "upgradeFileInfoError">>)

IsWhole == depot.got = Whole(depot.name)

MoveFontFile ==
    /\ depot.temp
    /\ depot' = [depot EXCEPT !.fonts = @ \cup {depot.name},
                              !.broken = IF IsWhole THEN @ \ {depot.name} ELSE @ \cup {depot.name}]
    /\ toUploader' = Append(toUploader, <<"moveFontSuccess">>)

ClearUpgradeFiles ==
    /\ depot' = [depot EXCEPT !.temp = FALSE]
    /\ toUploader' = Append(toUploader, <<"clearUpgradeFilesOK">>)

\* What the shell commands make of the package: a package that is not whole
\* may be unpacked, but does not pass the test.
Unpack ==
    \E ok \in BOOLEAN :
        /\ depot' = [depot EXCEPT !.unpacked = ok]
        /\ toUploader' = Append(toUploader, <<IF ok THEN "uncompressPackageOK" ELSE "uncompressPackageFail">>)

TestPackage ==
    \E ok \in IF IsWhole /\ depot.unpacked THEN BOOLEAN ELSE {FALSE} :
        /\ toUploader' = Append(toUploader, <<IF ok THEN "upgradePackageTestOK" ELSE "upgradePackageTestFail">>)
        /\ UNCHANGED depot

UpgradePackage ==
    \E ok \in BOOLEAN :
        /\ depot' = [depot EXCEPT !.upgraded = @ \cup {<<depot.name, IsWhole>>}]
        /\ toUploader' = Append(toUploader, <<IF ok THEN "upgradeSuccess" ELSE "upgradeFail">>)

DeleteFont(f) ==
    /\ depot' = [depot EXCEPT !.fonts = @ \ {f}, !.broken = @ \ {f}, !.deleted = @ \cup {f}]
    /\ UNCHANGED toUploader

HandleUpload ==
    /\ uploader.out # <<>>
    /\ uploader' = [uploader EXCEPT !.out = Tail(@)]
    /\ LET m == Head(uploader.out)
       IN IF depot.expected # NoFile THEN TakeSlice(m)
          ELSE CASE m[1] = "upload" -> ExpectFile(m[2])
                 [] m[1] = "moveFontFile" -> MoveFontFile
                 [] m[1] = "clearUpgradeFiles" -> ClearUpgradeFiles
                 [] m[1] = "uncompressPackage" -> Unpack
                 [] m[1] = "upgradePackageTest" -> TestPackage
                 [] m[1] = "upgradePackage" -> UpgradePackage
                 [] m[1] = "deleteFont" -> DeleteFont(m[2])
                 [] m[1] = "getFontlist" -> /\ toUploader' = Append(toUploader, <<"fontList", depot.fonts>>)
                                            /\ UNCHANGED depot
                 [] OTHER -> UNCHANGED <<depot, toUploader>>
    /\ UNCHANGED <<uploadTurns, mishaps>>

-----------------------------------------------------------------------------
(* Reading and sending a file (_uploadFile, the same on both pages).        *)

\* A reader that is at work refuses, but its handler has been replaced.
ReadSlice(u, n) ==
    IF u.reader.busy THEN [u EXCEPT !.reader.next = n + 1]
    ELSE [u EXCEPT !.reader = [busy |-> TRUE, file |-> u.info, slice |-> n, next |-> n + 1]]

\* A slip: what was loaded is not reset for the next file.
UploadFileUncounted(u) == ReadSlice(u, 0)

UploadFile(u) == ReadSlice([u EXCEPT !.loaded = 0], 0)

\* onloadend: the slice is sent, and the next one read of what _fileInfo is now.
OnLoadEnd ==
    LET r == uploader.reader
        m == <<"slice", r.file, r.slice>>
        sent == [uploader EXCEPT !.out = Append(@, m), !.loaded = @ + Weight(m), !.reader = Idle]
    IN /\ r.busy
       /\ uploader' = IF sent.loaded < SizeOf(sent.info) THEN ReadSlice(sent, r.next) ELSE sent
       /\ UNCHANGED <<depot, toUploader, uploadTurns, mishaps>>

Sends(u, c) == [u EXCEPT !.out = Append(@, c)]

-----------------------------------------------------------------------------
(* The page for fonts.                                                      *)

\* A slip: the first file of the list is uploaded over and over.
UploadInOrderOnce(u) ==
    IF u.index < Len(u.list)
    THEN LET f == u.list[u.index + 1]
         IN Sends([u EXCEPT !.info = f, !.index = Len(u.list)], <<"upload", f>>)
    ELSE Sends([u EXCEPT !.progress = FALSE], <<"getFontlist">>)

UploadInOrder(u) ==
    IF u.index < Len(u.list)
    THEN LET f == u.list[u.index + 1]
         IN Sends([u EXCEPT !.info = f, !.index = @ + 1], <<"upload", f>>)
    ELSE Sends([u EXCEPT !.progress = FALSE], <<"getFontlist">>)

OnUploadMessage(m) ==
    CASE m[1] = "fontList" -> [uploader EXCEPT !.listed = m[2], !.chosen = <<>>]
      [] m[1] = "readyToReceiveFile" -> UploadFile(uploader)
      [] m[1] = "upgradeFileReciveOK" -> Sends(uploader, <<"moveFontFile">>)
      [] m[1] = "moveFontSuccess" -> Sends(uploader, <<"clearUpgradeFiles">>)
      [] m[1] = "clearUpgradeFilesOK" -> UploadInOrder(uploader)
      [] OTHER -> uploader

Uploading == uploader.progress

UserUploads(act, what) ==
    /\ uploadTurns < MaxUploadTurns /\ uploadTurns' = uploadTurns + 1
    /\ uploader' = act /\ mishaps' = mishaps \cup what
    /\ UNCHANGED <<depot, toUploader>>

Empty(files) == IF \E f \in files : SizeOf(f) = 0 THEN {"empty"} ELSE {}

ChooseFiles ==
    \E files \in {<<f>> : f \in Files} \cup {<<f, g>> : f \in Files, g \in Files} :
        /\ uploader.page = "fonts" /\ uploader.chosen # files
        /\ \A i, j \in DOMAIN files : i # j => files[i] # files[j]
        /\ UserUploads([uploader EXCEPT !.chosen = files, !.enabled = TRUE], {})

\* The button stays as it was when the list of fonts has taken the files away.
ClickUpload ==
    LET started == [uploader EXCEPT !.enabled = FALSE, !.progress = TRUE, !.list = uploader.chosen]
    IN /\ uploader.page = "fonts" /\ uploader.enabled
       /\ UserUploads(IF uploader.chosen = <<>> THEN [started EXCEPT !.index = 0]
                      ELSE UploadInOrder([started EXCEPT !.index = 0]),
                      (IF Uploading THEN {"again"} ELSE {})
                      \cup (IF uploader.chosen = <<>> THEN {"cleared"} ELSE {})
                      \cup Empty({uploader.chosen[i] : i \in DOMAIN uploader.chosen}))

ClickDelete(f) ==
    /\ uploader.page = "fonts" /\ f \in uploader.listed
    /\ UserUploads(Sends(Sends(uploader, <<"deleteFont", f>>), <<"getFontlist">>),
                   IF Uploading THEN {"deleted"} ELSE {})

-----------------------------------------------------------------------------
(* The page for upgrades.                                                   *)

\* The button is disabled only when the server is ready.
ClickUpgrade(f) ==
    /\ uploader.page = "upgrade" /\ ~uploader.progress
    /\ UserUploads(Sends([uploader EXCEPT !.info = f], <<"upload", f>>),
                   (IF uploader.info # NoFile THEN {"twice"} ELSE {}) \cup Empty({f}))

\* A slip: the package is not tested first.
OnUpgradeMessageUntested(m) ==
    CASE m[1] = "readyToReceiveFile" -> UploadFile([uploader EXCEPT !.progress = TRUE])
      [] m[1] = "upgradeFileReciveOK" -> Sends(uploader, <<"uncompressPackage">>)
      [] m[1] = "uncompressPackageOK" -> Sends(uploader, <<"upgradePackage">>)
      [] OTHER -> uploader

OnUpgradeMessage(m) ==
    CASE m[1] = "readyToReceiveFile" -> UploadFile([uploader EXCEPT !.progress = TRUE])
      [] m[1] = "upgradeFileReciveOK" -> Sends(uploader, <<"uncompressPackage">>)
      [] m[1] = "uncompressPackageOK" -> Sends(uploader, <<"upgradePackageTest">>)
      [] m[1] = "upgradePackageTestOK" -> Sends(uploader, <<"upgradePackage">>)
      [] m[1] \in {"uncompressPackageFail", "upgradePackageTestFail", "upgradeSuccess", "upgradeFail"} ->
             Sends(uploader, <<"clearUpgradeFiles">>)
      [] OTHER -> uploader

OnUploaderMessage ==
    /\ toUploader # <<>> /\ toUploader' = Tail(toUploader)
    /\ uploader' = IF uploader.page = "fonts" THEN OnUploadMessage(Head(toUploader))
                   ELSE OnUpgradeMessage(Head(toUploader))
    /\ UNCHANGED <<depot, uploadTurns, mishaps>>

UploadNext ==
    \/ \E page \in {"fonts", "upgrade"} : OpenUploader(page)
    \/ HandleUpload \/ OnUploaderMessage \/ OnLoadEnd
    \/ ChooseFiles \/ ClickUpload
    \/ \E f \in Files : ClickDelete(f) \/ ClickUpgrade(f)

UploadSpec == UploadInit /\ [][UploadNext]_uploadVars

-----------------------------------------------------------------------------

UploadQuiet == toUploader = <<>> /\ uploader.out = <<>> /\ ~uploader.reader.busy

\* A font that is installed is the file that was chosen, from the first slice to the last - unless
\* the administrator uploaded again ("again") or deleted a font ("deleted") meanwhile, or a file
\* was empty and left the server waiting ("empty").
FontsAreWhole == depot.broken # {} => mishaps \cap {"again", "deleted", "empty"} # {}

\* With nothing under way, all chosen fonts are installed and listed and the progress bar is gone:
\* no upload waits for an answer that does not come - unless for these reasons, or because the list
\* of fonts took the files away before the button was pressed ("cleared").
UploadsEnd ==
    UploadQuiet /\ uploader.page = "fonts" /\ mishaps = {} =>
        /\ ~uploader.progress /\ depot.expected = NoFile /\ ~depot.temp
        /\ uploader.listed = depot.fonts
        /\ \A i \in DOMAIN uploader.list : uploader.list[i] \in depot.fonts \cup depot.deleted

\* No file is moved that is not there: the server would use a directory it has deleted.
MoveFindsFile ==
    depot.expected = NoFile /\ uploader.out # <<>> /\ Head(uploader.out)[1] = "moveFontFile" => depot.temp

\* The service is upgraded only with a package that came whole, however often the button was
\* pressed, and with nothing under way the server does not wait for the rest of a file - unless it
\* was pressed twice ("twice") or the file was empty.
UpgradesAreWhole ==
    /\ \A p \in depot.upgraded : p[2]
    /\ UploadQuiet /\ uploader.page = "upgrade" /\ mishaps = {} =>
           depot.expected = NoFile /\ ~depot.temp

=============================================================================
