----------------------------- MODULE KitChannel -----------------------------
(***************************************************************************)
(* What the document broker in wsd and the kit process that hosts the      *)
(* document share: the WebSocket between them (one FIFO each way), the     *)
(* life of the kit process, and the document file in the jail, which the   *)
(* kit writes and the broker uploads.                                      *)
(*                                                                         *)
(* Document contents are sets of edits: a copy of the document is the set  *)
(* of the edits it contains.                                               *)
(***************************************************************************)
EXTENDS Sequences, Naturals

CONSTANTS Sessions,     \* the ids of the client sessions, in the order of the _sessions map
          Edits,        \* the edits users may make, each at most once
          Faults,       \* the faults the environment may inject
          FromTemplate, \* the document is created from a template
          MaxQueue      \* bound on the messages under way when a user or a timer adds one

AllFaults == {"crash", "join", "load", "save", "upload", "conflict", "kill", "tick",
              "timeout"}

\* Orders of events without any fault that the history also notes:
\*   "overlap"  the result of a save is handled while another save is under way,
\*              although results are not matched to requests;
\*   "ghost"    a session leaves unsaved because of one that has already left;
\*   "orphan"   a session is removed while its own save is not answered;
\*   "noview"   a save is asked of a session that has no view;
\*   "outdated" the file is uploaded although a change of the document is not in it;
\*   "discard"  a user gives up the changes.
Races == {"overlap", "ghost", "orphan", "noview", "outdated", "discard"}

ASSUME SessionsAssumption == Sessions \subseteq Nat
ASSUME FaultsAssumption == Faults \subseteq AllFaults
ASSUME TemplateAssumption == FromTemplate \in BOOLEAN
ASSUME QueueAssumption == MaxQueue \in Nat

VARIABLES toKit,        \* messages from the broker the kit has not handled
          fromKit,      \* messages from the kit the broker has not handled
          kitAlive,     \* the kit process is running
          jail,         \* contents of the document file in the jail
          fresh,        \* the file's mtime equals the broker's _lastFileModifiedTime
          excuses       \* history: faults and races that happened so far

channelVars == <<toKit, fromKit, kitAlive, jail, fresh, excuses>>

\* Messages from wsd to the kit: "session <id>" and "child-<id> ...".
SessionMsg == [t : {"session", "load", "disconnect"}, s : Sessions]
EditMsg    == [t : {"edit"}, s : Sessions, e : Edits]
SaveMsg    == [t : {"save"}, s : Sessions, skip : BOOLEAN]
ToKitMsg   == SessionMsg \cup EditMsg \cup SaveMsg

\* Messages from the kit to wsd: "client-<id> ...".  The ModifiedStatus that
\* the kit sends to each of its views is one message with a set of recipients.
StatusMsg   == [t : {"status"}, s : Sessions]
ModifiedMsg == [t : {"modified"}, to : SUBSET Sessions, v : BOOLEAN]
SavedMsg    == [t : {"saved"}, s : Sessions, ok : BOOLEAN]
FromKitMsg  == StatusMsg \cup ModifiedMsg \cup SavedMsg

ChannelTypeOK ==
    /\ toKit \in Seq(ToKitMsg)
    /\ fromKit \in Seq(FromKitMsg)
    /\ kitAlive \in BOOLEAN
    /\ jail \in SUBSET Edits
    /\ fresh \in BOOLEAN
    /\ excuses \in SUBSET (AllFaults \cup Races)

\* load() copies the document into the jail and takes the file's mtime, or
\* 0 for a template, before anything reads either.
ChannelInit ==
    /\ toKit = <<>>
    /\ fromKit = <<>>
    /\ kitAlive = TRUE
    /\ jail = {}
    /\ fresh = ~FromTemplate
    /\ excuses = {}

\* ChildProcess::sendTextFrame: what is sent to a dead kit is lost.
Sent(m) == IF kitAlive THEN Append(toKit, m) ELSE toKit

\* Users and timers add messages only while few are under way (a bound of the
\* model: each message to the kit has at most two answers).
RoomToKit == Len(toKit) + Len(fromKit) < MaxQueue

\* ChildProcess::isAlive: kill(pid, 0) succeeds for a while on a dead child.
ChildSeenAlive == IF kitAlive THEN {TRUE} ELSE BOOLEAN
=============================================================================
