----------------------- MODULE DocumentLifecycle_proofs ----------------------
(***************************************************************************)
(* Proofs about DocumentLifecycle, for any sessions, edits, faults,        *)
(* commands, roles and queue bound: its types, what the copies of the      *)
(* document hold, the mark of the last session, that it implements         *)
(* DurableDocument, and that what users type is not lost.                  *)
(***************************************************************************)
EXTENDS DocumentLifecycle, TLAPS

-----------------------------------------------------------------------------
(* Messages.                                                               *)

\* The messages to the kit that the broker puts together are messages.
LEMMA ToKitMessages ==
    ASSUME NEW s \in Sessions
    PROVE  /\ [t |-> "session", s |-> s] \in ToKitMsg
           /\ [t |-> "load", s |-> s] \in ToKitMsg
           /\ [t |-> "disconnect", s |-> s] \in ToKitMsg
           /\ \A e \in Edits : [t |-> "edit", s |-> s, e |-> e] \in ToKitMsg
           /\ \A k \in BOOLEAN : [t |-> "save", s |-> s, skip |-> k] \in ToKitMsg
  BY DEF ToKitMsg, SessionMsg, EditMsg, SaveMsg

\* The messages to the broker that the kit puts together are messages.
LEMMA FromKitMessages ==
    ASSUME NEW s \in Sessions
    PROVE  /\ [t |-> "status", s |-> s] \in FromKitMsg
           /\ \A ok \in BOOLEAN : SaveResult(s, ok) \in FromKitMsg
           /\ \A to \in SUBSET Sessions, v \in BOOLEAN :
                [t |-> "modified", to |-> to, v |-> v] \in FromKitMsg
  BY DEF FromKitMsg, StatusMsg, ModifiedMsg, SavedMsg, SaveResult

\* What sendTextFrame leaves in the queue is a queue of messages.
LEMMA SentType ==
    ASSUME toKit \in Seq(ToKitMsg), NEW m \in ToKitMsg
    PROVE  Sent(m) \in Seq(ToKitMsg)
  BY DEF Sent

\* Every message to the kit names a session, and an edit names an edit.
LEMMA ToKitFields ==
    ASSUME NEW m \in ToKitMsg
    PROVE  /\ m.s \in Sessions
           /\ m.t = "edit" => m.e \in Edits
  BY DEF ToKitMsg, SessionMsg, EditMsg, SaveMsg

\* The reasons that the actions note are among those the history may hold.
LEMMA Named ==
    /\ AllFaults \subseteq AllFaults \cup Races
    /\ {"crash", "join", "load", "save", "upload", "conflict", "kill", "tick", "timeout"}
         \subseteq AllFaults \cup Races
    /\ {"overlap", "ghost", "orphan", "noview", "outdated", "discard"}
         \subseteq AllFaults \cup Races
  BY DEF AllFaults, Races

-----------------------------------------------------------------------------
(* Types.                                                                  *)

\* A step of the kit keeps the types.
LEMMA KitStepType == TypeOK /\ KitStep => TypeOK'
<1> SUFFICES ASSUME TypeOK, KitStep
             PROVE  TypeOK'
  OBVIOUS
<1> USE DEF TypeOK, KitTypeOK, ChannelTypeOK
<1>a. BrokerTypeOK'
  BY DEF KitStep, BrokerTypeOK, brokerVars, flagVars, sessionVars, historyVars
<1>h. ASSUME toKit # <<>>
      PROVE  /\ Head(toKit) \in ToKitMsg /\ Tail(toKit) \in Seq(ToKitMsg)
             /\ Head(toKit).s \in Sessions
             /\ Head(toKit).t = "edit" => Head(toKit).e \in Edits
  <2>1. Head(toKit) \in ToKitMsg /\ Tail(toKit) \in Seq(ToKitMsg)
    BY <1>h
  <2> QED
    BY <2>1, ToKitFields
<1>1. CASE KitSession
  BY <1>1, <1>a, <1>h DEF KitSession, Receive
<1>2. CASE KitLoad
  <2> DEFINE s == Head(toKit).s
             modified == [t |-> "modified", to |-> {s}, v |-> kitModified']
  <2>1. toKit # <<>> /\ s \in Sessions /\ kitModified' \in BOOLEAN
    BY <1>2, <1>h DEF KitLoad, Receive
  <2>2. PICK q \in WithStatus([t |-> "status", s |-> s]) : fromKit' = Append(q, modified)
    BY <1>2 DEF KitLoad
  <2>3. [t |-> "status", s |-> s] \in FromKitMsg /\ modified \in FromKitMsg
    BY <2>1, FromKitMessages
  <2>4. q \in Seq(FromKitMsg)
    <3>1. PICK i \in 0..Len(fromKit) :
            q = SubSeq(fromKit, 1, i) \o <<[t |-> "status", s |-> s]>>
                  \o SubSeq(fromKit, i + 1, Len(fromKit))
      BY <2>2 DEF WithStatus
    <3>2. SubSeq(fromKit, 1, i) \in Seq(FromKitMsg)
      OBVIOUS
    <3>3. SubSeq(fromKit, i + 1, Len(fromKit)) \in Seq(FromKitMsg)
      OBVIOUS
    <3>4. <<[t |-> "status", s |-> s]>> \in Seq(FromKitMsg)
      BY <2>3
    <3> HIDE DEF s
    <3> QED
      BY <3>1, <3>2, <3>3, <3>4
  <2>5. fromKit' \in Seq(FromKitMsg)
    <3> HIDE DEF modified
    <3> QED
      BY <2>2, <2>3, <2>4
  <2> QED
    BY <1>2, <1>a, <1>h, <2>1, <2>5 DEF KitLoad, Receive
<1>3. CASE KitLoadFails
  BY <1>3, <1>a, <1>h, FaultsAssumption DEF KitLoadFails, Receive
<1>4. CASE KitEdit
  <2> DEFINE msg == [t |-> "modified", to |-> kitViews, v |-> TRUE]
  <2>1. msg \in FromKitMsg
    BY <1>4, <1>h, FromKitMessages DEF KitEdit, Receive
  <2>2. fromKit' = fromKit \/ fromKit' = Append(fromKit, msg)
    BY <1>4 DEF KitEdit
  <2>3. fromKit' \in Seq(FromKitMsg)
    <3> HIDE DEF msg
    <3> QED
      BY <2>1, <2>2
  <2>4. doc' \in SUBSET Edits /\ kitModified' \in BOOLEAN
    BY <1>4, <1>h DEF KitEdit, Receive
  <2> QED
    BY <1>4, <1>a, <1>h, <2>3, <2>4 DEF KitEdit, Receive
<1>5. CASE KitSaveSkips
  <2> DEFINE msg == SaveResult(Head(toKit).s, FALSE)
  <2>1. msg \in FromKitMsg
    BY <1>5, <1>h, FromKitMessages DEF KitSaveSkips, Receive
  <2>2. /\ fromKit' = fromKit \/ fromKit' = Append(fromKit, msg)
        /\ excuses' = excuses \/ excuses' = excuses \cup {"noview"}
    BY <1>5 DEF KitSaveSkips
  <2>3. fromKit' \in Seq(FromKitMsg)
    <3> HIDE DEF msg
    <3> QED
      BY <2>1, <2>2
  <2>4. excuses' \in SUBSET (AllFaults \cup Races)
    BY <2>2, Named
  <2> QED
    BY <1>5, <1>a, <1>h, <2>3, <2>4 DEF KitSaveSkips, Receive
<1>6. CASE KitSaves
  <2> DEFINE result == SaveResult(Head(toKit).s, TRUE)
             unmodified == [t |-> "modified", to |-> kitViews, v |-> FALSE]
             cleared == IF kitModified THEN <<unmodified>> ELSE <<>>
  <2>1. result \in FromKitMsg /\ unmodified \in FromKitMsg
    BY <1>6, <1>h, FromKitMessages DEF KitSaves, Receive
  <2>2. fromKit' = fromKit \o <<result>> \o cleared
        \/ fromKit' = fromKit \o cleared \o <<result>>
    BY <1>6 DEF KitSaves
  <2>3. fromKit' \in Seq(FromKitMsg)
    <3> HIDE DEF result, unmodified
    <3>1. <<result>> \in Seq(FromKitMsg) /\ cleared \in Seq(FromKitMsg)
      BY <2>1
    <3>2. \A x, y, z \in Seq(FromKitMsg) : x \o y \o z \in Seq(FromKitMsg)
      OBVIOUS
    <3> QED
      BY <3>1, <3>2, <2>2, Zenon
  <2>4. excuses' = excuses \/ excuses' = excuses \cup {"tick"}
    BY <1>6 DEF KitSaves
  <2>5. excuses' \in SUBSET (AllFaults \cup Races)
    BY <2>4, Named
  <2>6. fresh' \in BOOLEAN
    BY <1>6 DEF KitSaves
  <2> QED
    BY <1>6, <1>a, <1>h, <2>3, <2>5, <2>6 DEF KitSaves, Receive
<1>7. CASE KitSaveFails
  <2> DEFINE msg == SaveResult(Head(toKit).s, FALSE)
  <2>1. msg \in FromKitMsg
    BY <1>7, <1>h, FromKitMessages DEF KitSaveFails, Receive
  <2>2. fromKit' = Append(fromKit, msg)
    BY <1>7 DEF KitSaveFails
  <2>3. fromKit' \in Seq(FromKitMsg)
    <3> HIDE DEF msg
    <3> QED
      BY <2>1, <2>2
  <2> QED
    BY <1>7, <1>a, <1>h, <2>3, Named DEF KitSaveFails, Receive
<1>8. CASE KitDisconnect
  BY <1>8, <1>a, <1>h DEF KitDisconnect, Receive
<1>9. CASE KitPurge
  BY <1>9, <1>a DEF KitPurge, kitVars
<1>10. CASE KitCrash
  BY <1>10, <1>a, Named DEF KitCrash, kitVars
<1> QED
  BY <1>1, <1>2, <1>3, <1>4, <1>5, <1>6, <1>7, <1>8, <1>9, <1>10
  DEF KitStep, KitHandle

\* removeSessionInternal keeps the types of what it changes.
LEMMA RemoveSessionInternalType ==
    ASSUME TypeOK, NEW s \in Sessions, RemoveSessionInternal(s)
    PROVE  sessions' \in SUBSET Sessions /\ toKit' \in Seq(ToKitMsg)
<1> DEFINE msg == [t |-> "disconnect", s |-> s]
<1>1. msg \in ToKitMsg
  BY ToKitMessages
<1>2. sessions' \in SUBSET Sessions /\ (toKit' = Sent(msg) \/ toKit' = toKit)
  BY DEF RemoveSessionInternal, TypeOK, BrokerTypeOK
<1>3. toKit \in Seq(ToKitMsg)
  BY DEF TypeOK, ChannelTypeOK
<1> HIDE DEF msg
<1> QED
  BY <1>1, <1>2, <1>3, SentType

\* sendUnoSave keeps the types of what it changes.
LEMMA SendUnoSaveType ==
    ASSUME TypeOK, NEW s \in Sessions, NEW skip \in BOOLEAN, SendUnoSave(s, skip)
    PROVE  toKit' \in Seq(ToKitMsg) /\ fresh' \in BOOLEAN /\ saving' \in BOOLEAN
           /\ active' \in BOOLEAN
<1> DEFINE msg == [t |-> "save", s |-> s, skip |-> skip]
<1>1. msg \in ToKitMsg
  BY ToKitMessages
<1>2. /\ toKit' = Sent(msg)
      /\ fresh' \in BOOLEAN /\ saving' \in BOOLEAN /\ active' \in BOOLEAN
  BY DEF SendUnoSave
<1>3. toKit \in Seq(ToKitMsg)
  BY DEF TypeOK, ChannelTypeOK
<1> HIDE DEF msg
<1> QED
  BY <1>1, <1>2, <1>3, SentType

\* autoSave, when it saves, keeps the types of what it changes.
LEMMA AutoSaveSendsType ==
    ASSUME TypeOK, NEW force, NEW skip \in BOOLEAN, AutoSaveSends(force, skip)
    PROVE  toKit' \in Seq(ToKitMsg) /\ fresh' \in BOOLEAN /\ saving' \in BOOLEAN
           /\ active' \in BOOLEAN
<1>1. PICK s \in sessions : SendUnoSave(s, skip)
  BY DEF AutoSaveSends
<1>2. s \in Sessions
  BY DEF TypeOK, BrokerTypeOK
<1> QED
  BY <1>1, <1>2, SendUnoSaveType

\* removeSession keeps the types of what it changes.
LEMMA RemoveSessionType ==
    ASSUME TypeOK, NEW s \in Sessions, NEW act \in BOOLEAN,
           NEW why \in SUBSET (AllFaults \cup Races), RemoveSession(s, act, why)
    PROVE  /\ sessions' \in SUBSET Sessions
           /\ markToDestroy' \in BOOLEAN
           /\ toKit' \in Seq(ToKitMsg) /\ fresh' \in BOOLEAN /\ saving' \in BOOLEAN
           /\ active' \in BOOLEAN
           /\ excuses' \in SUBSET (AllFaults \cup Races)
<1>1. CASE s \notin sessions
  BY <1>1 DEF RemoveSession, TypeOK, BrokerTypeOK, ChannelTypeOK
<1>2. CASE s \in sessions
  <2>1. markToDestroy' \in BOOLEAN
    BY <1>2 DEF RemoveSession
  <2>2. CASE /\ AutoSaveSends(PossiblyModified(act), ~AlwaysSaveOnExit)
             /\ excuses' = excuses \cup why
             /\ UNCHANGED sessions
    <3>1. toKit' \in Seq(ToKitMsg) /\ fresh' \in BOOLEAN /\ saving' \in BOOLEAN
          /\ active' \in BOOLEAN
      BY <2>2, AutoSaveSendsType, AlwaysSaveAssumption
    <3> QED
      BY <2>1, <2>2, <3>1 DEF TypeOK, BrokerTypeOK, ChannelTypeOK
  <2>3. ASSUME NEW races \in SUBSET {"ghost", "orphan"},
               RemoveSessionInternal(s), active' = act,
               excuses' = excuses \cup why \cup races,
               UNCHANGED <<fresh, saving>>
        PROVE  /\ sessions' \in SUBSET Sessions
               /\ toKit' \in Seq(ToKitMsg) /\ fresh' \in BOOLEAN /\ saving' \in BOOLEAN
               /\ active' \in BOOLEAN
               /\ excuses' \in SUBSET (AllFaults \cup Races)
    <3>1. sessions' \in SUBSET Sessions /\ toKit' \in Seq(ToKitMsg)
      BY <2>3, RemoveSessionInternalType
    <3>2. excuses' \in SUBSET (AllFaults \cup Races)
      BY <2>3, Named DEF TypeOK, ChannelTypeOK
    <3> QED
      BY <2>3, <3>1, <3>2 DEF TypeOK, BrokerTypeOK, ChannelTypeOK
  <2>4. \/ /\ AutoSaveSends(PossiblyModified(act), ~AlwaysSaveOnExit)
           /\ excuses' = excuses \cup why
           /\ UNCHANGED sessions
        \/ \E races \in SUBSET {"ghost", "orphan"} :
             /\ RemoveSessionInternal(s) /\ active' = act
             /\ excuses' = excuses \cup why \cup races
             /\ UNCHANGED <<fresh, saving>>
    BY <1>2 DEF RemoveSession
  <2> QED
    BY <2>1, <2>2, <2>3, <2>4
<1> QED
  BY <1>1, <1>2

\* saveToStorage keeps the types of what it changes.
LEMMA SaveToStorageType ==
    ASSUME TypeOK, NEW s \in Sessions, NEW success, NEW force,
           NEW why \in SUBSET (AllFaults \cup Races),
           SaveToStorage(s, success, force, why)
    PROVE  /\ saving' \in BOOLEAN /\ store' \in SUBSET Edits /\ isModified' \in BOOLEAN
           /\ fresh' \in BOOLEAN /\ changed' \in BOOLEAN /\ stop' \in BOOLEAN
           /\ excuses' \in SUBSET (AllFaults \cup Races)
           /\ sessions' \in SUBSET Sessions /\ toKit' \in Seq(ToKitMsg)
<1> DEFINE forced == force \/ (isMarkedToDestroy /\ AlwaysSaveOnExit)
<1>1. SaveToStorageInternal(success, forced, why)
  BY DEF SaveToStorage
<1>2. /\ saving' \in BOOLEAN /\ store' \in SUBSET Edits /\ isModified' \in BOOLEAN
      /\ fresh' \in BOOLEAN /\ changed' \in BOOLEAN
  BY <1>1 DEF SaveToStorageInternal, Uploads, UploadFails, UploadFindsConflict,
              TypeOK, BrokerTypeOK, ChannelTypeOK
<1>3. excuses' = excuses \cup why \/ excuses' = excuses \cup why \cup {"upload"}
      \/ excuses' = excuses \cup why \cup {"conflict"}
  BY <1>1 DEF SaveToStorageInternal
<1>4. excuses' \in SUBSET (AllFaults \cup Races)
  BY <1>3, Named DEF TypeOK, ChannelTypeOK
<1>5. RemoveSessionInternal(s) \/ UNCHANGED <<sessions, toKit>>
  BY DEF SaveToStorage
<1>6. sessions' \in SUBSET Sessions /\ toKit' \in Seq(ToKitMsg)
  BY <1>5, RemoveSessionInternalType DEF TypeOK, BrokerTypeOK, ChannelTypeOK
<1>7. stop' \in BOOLEAN
  BY DEF SaveToStorage
<1> QED
  BY <1>2, <1>4, <1>6, <1>7

\* A step of the broker keeps the types.
LEMMA BrokerStepType == TypeOK /\ BrokerStep => TypeOK'
<1> SUFFICES ASSUME TypeOK, BrokerNext, UNCHANGED kitVars
             PROVE  TypeOK'
  BY DEF BrokerStep
<1> USE DEF TypeOK, BrokerTypeOK, ChannelTypeOK, flagVars, sessionVars, historyVars,
            channelVars, bodyRest, savingVars
<1>k. KitTypeOK'
  BY DEF KitTypeOK, kitVars
<1>h. ASSUME fromKit # <<>>
      PROVE  Head(fromKit) \in FromKitMsg /\ Tail(fromKit) \in Seq(FromKitMsg)
  BY <1>h
<1>o. /\ \A q : Overlap(q) \subseteq AllFaults \cup Races
      /\ Outdated \subseteq AllFaults \cup Races
  BY Named DEF Overlap, Outdated
<1>1. ASSUME NEW s \in Sessions, Join(s)
      PROVE  TypeOK'
  <2> DEFINE msg == [t |-> "session", s |-> s]
  <2>1. msg \in ToKitMsg
    BY ToKitMessages
  <2>2. toKit' = Sent(msg) \/ toKit' = toKit
    BY <1>1 DEF Join
  <2>3. toKit' \in Seq(ToKitMsg)
    <3> HIDE DEF msg
    <3> QED
      BY <2>1, <2>2, SentType
  <2> QED
    BY <1>1, <1>k, <2>3 DEF Join
<1>2. ASSUME NEW s \in Sessions, Disconnect(s)
      PROVE  TypeOK'
  <2>1. RemoveSession(s, active, {})
    BY <1>2 DEF Disconnect
  <2> QED
    BY <1>2, <1>k, <2>1, RemoveSessionType DEF Disconnect
<1>3. ASSUME NEW s \in Sessions, ClientActivity(s)
      PROVE  TypeOK'
  BY <1>3, <1>k DEF ClientActivity
<1>4. ASSUME NEW s \in Sessions, ClientLoad(s)
      PROVE  TypeOK'
  <2> DEFINE msg == [t |-> "load", s |-> s]
  <2>1. msg \in ToKitMsg
    BY ToKitMessages
  <2>2. toKit' = Sent(msg)
    BY <1>4 DEF ClientLoad
  <2>3. toKit' \in Seq(ToKitMsg)
    <3> HIDE DEF msg
    <3> QED
      BY <2>1, <2>2, SentType
  <2> QED
    BY <1>4, <1>k, <2>3 DEF ClientLoad
<1>5. ASSUME NEW s \in Sessions, NEW e \in Edits, ClientEdit(s, e)
      PROVE  TypeOK'
  <2> DEFINE msg == [t |-> "edit", s |-> s, e |-> e]
  <2>1. msg \in ToKitMsg
    BY ToKitMessages
  <2>2. toKit' = Sent(msg)
    BY <1>5 DEF ClientEdit
  <2>3. toKit' \in Seq(ToKitMsg)
    <3> HIDE DEF msg
    <3> QED
      BY <2>1, <2>2, SentType
  <2>4. typed' \in SUBSET Edits /\ owed' \in SUBSET typed'
    BY <1>5 DEF ClientEdit
  <2> QED
    BY <1>5, <1>k, <2>3, <2>4 DEF ClientEdit
<1>6. ASSUME NEW s \in Sessions, ClientSave(s)
      PROVE  TypeOK'
  <2>1. PICK skip \in BOOLEAN : SendUnoSave(s, skip)
    BY <1>6 DEF ClientSave
  <2> QED
    BY <1>6, <1>k, <2>1, SendUnoSaveType DEF ClientSave
<1>7. ASSUME NEW s \in Sessions, ClientSaveToStorage(s)
      PROVE  TypeOK'
  <2> DEFINE why == Overlap(fromKit) \cup Outdated
  <2>1. SaveToStorage(s, TRUE, TRUE, why)
    BY <1>7 DEF ClientSaveToStorage
  <2>2. why \in SUBSET (AllFaults \cup Races)
    BY <1>o
  <2> HIDE DEF why
  <2>3. /\ saving' \in BOOLEAN /\ store' \in SUBSET Edits /\ isModified' \in BOOLEAN
        /\ fresh' \in BOOLEAN /\ changed' \in BOOLEAN /\ stop' \in BOOLEAN
        /\ excuses' \in SUBSET (AllFaults \cup Races)
        /\ sessions' \in SUBSET Sessions /\ toKit' \in Seq(ToKitMsg)
    BY <2>1, <2>2, SaveToStorageType
  <2> QED
    BY <1>7, <1>k, <2>3 DEF ClientSaveToStorage
<1>8. ASSUME NEW s \in Sessions, SaveAsToStorage(s)
      PROVE  TypeOK'
  BY <1>8, <1>k, <1>o DEF SaveAsToStorage
<1>9. ASSUME NEW s \in Sessions, ClientSetModified(s)
      PROVE  TypeOK'
  BY <1>9, <1>k DEF ClientSetModified
<1>10. ASSUME NEW s \in Sessions, ClientClosesDocument(s)
       PROVE  TypeOK'
  BY <1>10, <1>k DEF ClientClosesDocument
<1>11. ASSUME NEW s \in Sessions, ClientDiscards(s)
       PROVE  TypeOK'
  BY <1>11, <1>k, Named DEF ClientDiscards
<1>12. ASSUME NEW s \in Sessions, NEW r \in Sessions, ClientRemovesSession(s, r)
       PROVE  TypeOK'
  <2> DEFINE why == IF sessions = {r} THEN {"discard"} ELSE {}
  <2>1. RemoveSession(r, TRUE, why)
    BY <1>12 DEF ClientRemovesSession
  <2>2. why \in SUBSET (AllFaults \cup Races)
    BY Named
  <2> HIDE DEF why
  <2> QED
    BY <1>12, <1>k, <2>1, <2>2, RemoveSessionType DEF ClientRemovesSession
<1>13. CASE HandleStatus
  <2>1. Head(fromKit) \in StatusMsg /\ fromKit' \in Seq(FromKitMsg)
    BY <1>13, <1>h DEF HandleStatus, ReceiveFromKit, FromKitMsg, StatusMsg, ModifiedMsg, SavedMsg
  <2>2. Head(fromKit).s \in Sessions
    BY <2>1 DEF StatusMsg
  <2>3. viewLoaded' \in SUBSET Sessions /\ isLoaded' \in BOOLEAN
    BY <1>13, <2>2 DEF HandleStatus
  <2>4. \/ SaveToStorage(Head(fromKit).s, TRUE, FALSE, Overlap(fromKit) \cup Outdated)
        \/ UNCHANGED storageVars
    BY <1>13 DEF HandleStatus
  <2>5. /\ saving' \in BOOLEAN /\ store' \in SUBSET Edits /\ isModified' \in BOOLEAN
        /\ fresh' \in BOOLEAN /\ changed' \in BOOLEAN /\ stop' \in BOOLEAN
        /\ excuses' \in SUBSET (AllFaults \cup Races)
        /\ sessions' \in SUBSET Sessions /\ toKit' \in Seq(ToKitMsg)
    BY <2>2, <2>4, <1>o, SaveToStorageType DEF storageVars
  <2> QED
    BY <1>13, <1>k, <2>1, <2>3, <2>5 DEF HandleStatus
<1>14. CASE HandleModifiedStatus
  <2>1. Head(fromKit) \in ModifiedMsg /\ fromKit' \in Seq(FromKitMsg)
    BY <1>14, <1>h DEF HandleModifiedStatus, ReceiveFromKit, FromKitMsg, StatusMsg,
                       ModifiedMsg, SavedMsg
  <2>2. Head(fromKit).v \in BOOLEAN
    BY <2>1 DEF ModifiedMsg
  <2>3. isModified' \in BOOLEAN
    BY <1>14, <2>2 DEF HandleModifiedStatus
  <2> QED
    BY <1>14, <1>k, <2>1, <2>3 DEF HandleModifiedStatus
<1>15. CASE HandleSaveResult
  <2>1. Head(fromKit) \in SavedMsg /\ fromKit' \in Seq(FromKitMsg)
    BY <1>15, <1>h DEF HandleSaveResult, ReceiveFromKit, FromKitMsg, StatusMsg,
                       ModifiedMsg, SavedMsg
  <2>2. Head(fromKit).s \in Sessions
    BY <2>1 DEF SavedMsg
  <2>3. \/ SaveToStorage(Head(fromKit).s, Head(fromKit).ok, FALSE, Overlap(Tail(fromKit)))
        \/ UNCHANGED storageVars
    BY <1>15 DEF HandleSaveResult
  <2>4. /\ saving' \in BOOLEAN /\ store' \in SUBSET Edits /\ isModified' \in BOOLEAN
        /\ fresh' \in BOOLEAN /\ changed' \in BOOLEAN /\ stop' \in BOOLEAN
        /\ excuses' \in SUBSET (AllFaults \cup Races)
        /\ sessions' \in SUBSET Sessions /\ toKit' \in Seq(ToKitMsg)
    BY <2>2, <2>3, <1>o, SaveToStorageType DEF storageVars
  <2> QED
    BY <1>15, <1>k, <2>1, <2>4 DEF HandleSaveResult
<1>16. CASE KitDisconnected
  BY <1>16, <1>k DEF KitDisconnected
<1>17. CASE GetChild
  BY <1>17, <1>k DEF GetChild, Phases
<1>18. CASE FailToGetChild
  BY <1>18, <1>k DEF FailToGetChild, Phases
<1>19. CASE RequestShutdown
  BY <1>19, <1>k DEF RequestShutdown
<1>t. PastSaveTimeout \/ IdleTimePassed => excuses' \in SUBSET (AllFaults \cup Races)
  BY Named DEF PastSaveTimeout, IdleTimePassed
<1>20. CASE LoadTimedOut
  BY <1>20, <1>k DEF LoadTimedOut, Phases
<1>21. CASE WaitForSave
  BY <1>21, <1>k DEF WaitForSave, Phases
<1>22. CASE SaveAndClose
  <2>1. \/ AutoSaveSends(isPossiblyModified, TRUE) /\ UNCHANGED stop
        \/ stop' = TRUE /\ UNCHANGED savingVars
    BY <1>22 DEF SaveAndClose
  <2>2. toKit' \in Seq(ToKitMsg) /\ fresh' \in BOOLEAN /\ saving' \in BOOLEAN
        /\ active' \in BOOLEAN /\ stop' \in BOOLEAN
    BY <2>1, AutoSaveSendsType
  <2> QED
    BY <1>22, <1>k, <1>t, <2>2 DEF SaveAndClose, Phases
<1>23. CASE TimedAutoSave
  <2>1. toKit' \in Seq(ToKitMsg) /\ fresh' \in BOOLEAN /\ saving' \in BOOLEAN
        /\ active' \in BOOLEAN
    BY <1>23, AutoSaveSendsType DEF TimedAutoSave
  <2> QED
    BY <1>23, <1>k, <1>t, <2>1 DEF TimedAutoSave, Phases
<1>24. CASE NothingToSave
  BY <1>24, <1>k, <1>t DEF NothingToSave, Phases
<1>25. CASE CloseIdle
  <2>1. \/ AutoSaveSends(isPossiblyModified, TRUE) /\ UNCHANGED stop
        \/ stop' = TRUE /\ UNCHANGED savingVars
    BY <1>25 DEF CloseIdle
  <2>2. toKit' \in Seq(ToKitMsg) /\ fresh' \in BOOLEAN /\ saving' \in BOOLEAN
        /\ active' \in BOOLEAN /\ stop' \in BOOLEAN
    BY <2>1, AutoSaveSendsType
  <2> QED
    BY <1>25, <1>k, <1>t, <2>2 DEF CloseIdle, LeaveTail, Phases
<1>26. CASE CloseDead
  BY <1>26, <1>k DEF CloseDead, LeaveTail, Phases
<1>27. CASE Linger
  BY <1>27, <1>k DEF Linger, LeaveTail, Phases
<1>28. CASE Terminate
  BY <1>28, <1>k, Named DEF Terminate, Phases
<1>29. CASE Finish
  <2>1. toKit' \in Seq(ToKitMsg) /\ fromKit' \in Seq(FromKitMsg)
    BY <1>29 DEF Finish
  <2>2. phase' \in Phases
    BY <1>29 DEF Finish, Phases
  <2> QED
    BY <1>29, <1>k, <2>1, <2>2 DEF Finish
<1> QED
  BY <1>1, <1>2, <1>3, <1>4, <1>5, <1>6, <1>7, <1>8, <1>9, <1>10, <1>11, <1>12,
     <1>13, <1>14, <1>15, <1>16, <1>17, <1>18, <1>19, <1>20, <1>21, <1>22, <1>23,
     <1>24, <1>25, <1>26, <1>27, <1>28, <1>29
  DEF BrokerNext, ClientCommand, HandleKit, BrokerBody

\* Every variable of the broker, the kit and the channel between them keeps
\* its type.
THEOREM TypeCorrect == Spec => []TypeOK
<1>1. Init => TypeOK
  <2> SUFFICES ASSUME Init
               PROVE  TypeOK
    OBVIOUS
  <2>1. BrokerTypeOK
    BY DEF Init, BrokerInit, BrokerTypeOK, Phases
  <2>2. KitTypeOK
    BY DEF Init, KitInit, KitTypeOK
  <2>3. ChannelTypeOK
    BY TemplateAssumption DEF Init, ChannelInit, ChannelTypeOK
  <2> QED
    BY <2>1, <2>2, <2>3 DEF TypeOK
<1>2. TypeOK /\ [Next]_vars => TypeOK'
  <2>1. CASE UNCHANGED vars
    BY <2>1 DEF vars, brokerVars, kitVars, channelVars, flagVars, sessionVars,
                historyVars, TypeOK, BrokerTypeOK, KitTypeOK, ChannelTypeOK
  <2> QED
    BY <2>1, BrokerStepType, KitStepType DEF Next, Finished
<1> QED
  BY <1>1, <1>2, PTL DEF Spec

-----------------------------------------------------------------------------
(* The storage, the jail and the document.                                 *)

\* What any step of the broker does to the copies of the document and to the
\* queue to the kit: a user types, or the file is uploaded, or the kit is
\* killed, or none of these.
BrokerEffect ==
    /\ jail' = jail
    /\ \/ UNCHANGED <<typed, store, kitAlive>>
       \/ UNCHANGED <<store, kitAlive>> /\ \E e \in Edits \ typed : typed' = typed \cup {e}
       \/ UNCHANGED <<typed, kitAlive>> /\ store' = jail
       \/ UNCHANGED <<typed, store>> /\ kitAlive' = FALSE
    /\ \/ toKit' = toKit
       \/ toKit' = <<>>
       \/ \E m \in ToKitMsg : toKit' = Sent(m) /\ (m.t = "edit" => m.e \in typed')

\* sendUnoSave sends one message, which is not an edit.
LEMMA SendUnoSaveSends ==
    ASSUME NEW s \in Sessions, NEW skip \in BOOLEAN, SendUnoSave(s, skip)
    PROVE  \E m \in ToKitMsg : toKit' = Sent(m) /\ m.t # "edit"
<1> DEFINE msg == [t |-> "save", s |-> s, skip |-> skip]
<1>1. msg \in ToKitMsg /\ msg.t # "edit"
  BY ToKitMessages
<1>2. toKit' = Sent(msg)
  BY DEF SendUnoSave
<1> HIDE DEF msg
<1> QED
  BY <1>1, <1>2

\* autoSave, when it saves, sends one message, which is not an edit.
LEMMA AutoSaveSendsOne ==
    ASSUME TypeOK, NEW force, NEW skip \in BOOLEAN, AutoSaveSends(force, skip)
    PROVE  \E m \in ToKitMsg : toKit' = Sent(m) /\ m.t # "edit"
<1>1. PICK s \in sessions : SendUnoSave(s, skip)
  BY DEF AutoSaveSends
<1>2. s \in Sessions
  BY DEF TypeOK, BrokerTypeOK
<1> QED
  BY <1>1, <1>2, SendUnoSaveSends

\* removeSessionInternal sends at most one message, which is not an edit.
LEMMA RemoveSessionInternalSends ==
    ASSUME NEW s \in Sessions, RemoveSessionInternal(s)
    PROVE  toKit' = toKit \/ \E m \in ToKitMsg : toKit' = Sent(m) /\ m.t # "edit"
<1> DEFINE msg == [t |-> "disconnect", s |-> s]
<1>1. msg \in ToKitMsg /\ msg.t # "edit"
  BY ToKitMessages
<1>2. toKit' = Sent(msg) \/ toKit' = toKit
  BY DEF RemoveSessionInternal
<1> HIDE DEF msg
<1> QED
  BY <1>1, <1>2

\* removeSession sends at most one message, which is not an edit.
LEMMA RemoveSessionSends ==
    ASSUME TypeOK, NEW s \in Sessions, NEW act \in BOOLEAN, NEW why,
           RemoveSession(s, act, why)
    PROVE  toKit' = toKit \/ \E m \in ToKitMsg : toKit' = Sent(m) /\ m.t # "edit"
<1>1. \/ toKit' = toKit
      \/ AutoSaveSends(PossiblyModified(act), ~AlwaysSaveOnExit)
      \/ RemoveSessionInternal(s)
  BY DEF RemoveSession
<1> QED
  BY <1>1, AutoSaveSendsOne, RemoveSessionInternalSends, AlwaysSaveAssumption

\* saveToStorage stores the file in the jail or nothing, and sends at most one
\* message, which is not an edit.
LEMMA SaveToStorageStores ==
    ASSUME NEW s \in Sessions, NEW success, NEW force, NEW why,
           SaveToStorage(s, success, force, why)
    PROVE  /\ store' = store \/ store' = jail
           /\ toKit' = toKit \/ \E m \in ToKitMsg : toKit' = Sent(m) /\ m.t # "edit"
<1> DEFINE forced == force \/ (isMarkedToDestroy /\ AlwaysSaveOnExit)
<1>1. SaveToStorageInternal(success, forced, why)
  BY DEF SaveToStorage
<1>2. store' = store \/ store' = jail
  BY <1>1 DEF SaveToStorageInternal, Uploads, UploadFails, UploadFindsConflict
<1>3. RemoveSessionInternal(s) \/ toKit' = toKit
  BY DEF SaveToStorage
<1> QED
  BY <1>2, <1>3, RemoveSessionInternalSends

\* Every step of the broker has that effect.
LEMMA BrokerStepEffect ==
    ASSUME TypeOK, BrokerStep
    PROVE  BrokerEffect
<1> USE DEF BrokerEffect, flagVars, sessionVars, historyVars, channelVars, bodyRest,
            savingVars
<1>h. fromKit # <<>> => Head(fromKit) \in FromKitMsg
  BY DEF TypeOK, ChannelTypeOK
<1>1. ASSUME NEW s \in Sessions, Join(s)
      PROVE  BrokerEffect
  <2> DEFINE msg == [t |-> "session", s |-> s]
  <2>1. msg \in ToKitMsg /\ msg.t # "edit"
    BY ToKitMessages
  <2>2. toKit' = Sent(msg) \/ toKit' = toKit
    BY <1>1 DEF Join
  <2>3. UNCHANGED <<jail, store, typed, kitAlive>>
    BY <1>1 DEF Join
  <2> HIDE DEF msg
  <2> QED
    BY <2>1, <2>2, <2>3
<1>2. ASSUME NEW s \in Sessions, ClientLoad(s)
      PROVE  BrokerEffect
  <2> DEFINE msg == [t |-> "load", s |-> s]
  <2>1. msg \in ToKitMsg /\ msg.t # "edit"
    BY ToKitMessages
  <2>2. toKit' = Sent(msg) /\ UNCHANGED <<jail, store, typed, kitAlive>>
    BY <1>2 DEF ClientLoad
  <2> HIDE DEF msg
  <2> QED
    BY <2>1, <2>2
<1>3. ASSUME NEW s \in Sessions, NEW e \in Edits, ClientEdit(s, e)
      PROVE  BrokerEffect
  <2> DEFINE msg == [t |-> "edit", s |-> s, e |-> e]
  <2>1. msg \in ToKitMsg /\ msg.e = e
    BY ToKitMessages
  <2>2. toKit' = Sent(msg) /\ e \notin typed /\ typed' = typed \cup {e}
        /\ UNCHANGED <<jail, store, kitAlive>>
    BY <1>3 DEF ClientEdit
  <2> HIDE DEF msg
  <2> QED
    BY <2>1, <2>2
<1>4. ASSUME NEW s \in Sessions, Disconnect(s) \/ \E r \in Sessions : ClientRemovesSession(s, r)
      PROVE  BrokerEffect
  <2>1. \E r \in Sessions, act \in BOOLEAN, why \in SUBSET Races : RemoveSession(r, act, why)
    <3>1. CASE Disconnect(s)
      BY <3>1 DEF Disconnect, TypeOK, BrokerTypeOK
    <3>2. ASSUME NEW r \in Sessions, ClientRemovesSession(s, r)
          PROVE  RemoveSession(r, TRUE, IF sessions = {r} THEN {"discard"} ELSE {})
      BY <3>2 DEF ClientRemovesSession
    <3>3. \A r : (IF sessions = {r} THEN {"discard"} ELSE {}) \in SUBSET Races
      BY DEF Races
    <3> QED
      BY <1>4, <3>1, <3>2, <3>3
  <2>2. UNCHANGED <<jail, store, typed, kitAlive>>
    BY <1>4 DEF Disconnect, ClientRemovesSession
  <2> QED
    BY <2>1, <2>2, RemoveSessionSends
<1>5. ASSUME NEW s \in Sessions, ClientSave(s)
      PROVE  BrokerEffect
  <2>1. PICK skip \in BOOLEAN : SendUnoSave(s, skip)
    BY <1>5 DEF ClientSave
  <2>2. UNCHANGED <<jail, store, typed, kitAlive>>
    BY <1>5 DEF ClientSave
  <2> QED
    BY <2>1, <2>2, SendUnoSaveSends
<1>6. ASSUME NEW s \in Sessions, ClientSaveToStorage(s)
      PROVE  BrokerEffect
  <2>1. SaveToStorage(s, TRUE, TRUE, Overlap(fromKit) \cup Outdated)
    BY <1>6 DEF ClientSaveToStorage
  <2>2. UNCHANGED <<jail, typed, kitAlive>>
    BY <1>6 DEF ClientSaveToStorage
  <2> QED
    BY <2>1, <2>2, SaveToStorageStores
<1>7. ASSUME NEW s \in Sessions,
             \/ ClientActivity(s) \/ SaveAsToStorage(s) \/ ClientSetModified(s)
             \/ ClientClosesDocument(s) \/ ClientDiscards(s)
      PROVE  BrokerEffect
  BY <1>7 DEF ClientActivity, SaveAsToStorage, ClientSetModified, ClientClosesDocument,
              ClientDiscards
<1>8. CASE HandleStatus
  <2>1. Head(fromKit).s \in Sessions
    BY <1>8, <1>h DEF HandleStatus, ReceiveFromKit, FromKitMsg, StatusMsg, ModifiedMsg,
                      SavedMsg
  <2>2. \/ SaveToStorage(Head(fromKit).s, TRUE, FALSE, Overlap(fromKit) \cup Outdated)
        \/ UNCHANGED storageVars
    BY <1>8 DEF HandleStatus
  <2>3. UNCHANGED <<jail, typed, kitAlive>>
    BY <1>8 DEF HandleStatus
  <2> QED
    BY <2>1, <2>2, <2>3, SaveToStorageStores DEF storageVars
<1>9. CASE HandleSaveResult
  <2>1. Head(fromKit).s \in Sessions
    BY <1>9, <1>h DEF HandleSaveResult, ReceiveFromKit, FromKitMsg, StatusMsg, ModifiedMsg,
                      SavedMsg
  <2>2. \/ SaveToStorage(Head(fromKit).s, Head(fromKit).ok, FALSE, Overlap(Tail(fromKit)))
        \/ UNCHANGED storageVars
    BY <1>9 DEF HandleSaveResult
  <2>3. UNCHANGED <<jail, typed, kitAlive>>
    BY <1>9 DEF HandleSaveResult
  <2> QED
    BY <2>1, <2>2, <2>3, SaveToStorageStores DEF storageVars
<1>10. CASE SaveAndClose \/ TimedAutoSave \/ CloseIdle
  <2>1. \/ AutoSaveSends(isPossiblyModified, TRUE)
        \/ AutoSaveSends(FALSE, TRUE)
        \/ toKit' = toKit
    BY <1>10 DEF SaveAndClose, TimedAutoSave, CloseIdle
  <2>2. UNCHANGED <<jail, store, typed, kitAlive>>
    BY <1>10 DEF SaveAndClose, TimedAutoSave, CloseIdle
  <2> QED
    BY <2>1, <2>2, AutoSaveSendsOne
<1>11. CASE \/ HandleModifiedStatus \/ KitDisconnected \/ GetChild \/ FailToGetChild
            \/ RequestShutdown \/ LoadTimedOut \/ WaitForSave \/ NothingToSave
            \/ CloseDead \/ Linger \/ Terminate \/ Finish
  BY <1>11 DEF HandleModifiedStatus, KitDisconnected, GetChild, FailToGetChild,
               RequestShutdown, LoadTimedOut, WaitForSave, NothingToSave, CloseDead,
               Linger, Terminate, Finish
<1> QED
  BY <1>1, <1>2, <1>3, <1>4, <1>5, <1>6, <1>7, <1>8, <1>9, <1>10, <1>11
  DEF BrokerStep, BrokerNext, ClientCommand, HandleKit, BrokerBody

\* A queue that loses its first message, is emptied, or gets a message that is
\* not an edit nobody made, holds only edits that users made.
LEMMA EditsInToKitStep ==
    ASSUME TypeOK, EditsInToKit, typed \subseteq typed',
           \/ toKit' = toKit
           \/ toKit' = <<>>
           \/ toKit # <<>> /\ toKit' = Tail(toKit)
           \/ \E m \in ToKitMsg : toKit' = Sent(m) /\ (m.t = "edit" => m.e \in typed')
    PROVE  EditsInToKit'
<1> USE DEF EditsInToKit
<1>0. toKit \in Seq(ToKitMsg)
  BY DEF TypeOK, ChannelTypeOK
<1>1. CASE toKit' = toKit
  BY <1>1
<1>2. CASE toKit' = <<>>
  BY <1>2
<1>3. CASE toKit # <<>> /\ toKit' = Tail(toKit)
  <2>1. Len(toKit') = Len(toKit) - 1 /\ \A i \in 1..Len(toKit') : toKit'[i] = toKit[i + 1]
    BY <1>0, <1>3
  <2>2. \A i \in 1..Len(toKit') : i + 1 \in 1..Len(toKit)
    BY <1>0, <2>1
  <2> QED
    BY <2>1, <2>2
<1>4. ASSUME NEW m \in ToKitMsg, toKit' = Sent(m), m.t = "edit" => m.e \in typed'
      PROVE  EditsInToKit'
  <2>1. CASE toKit' = toKit
    BY <2>1
  <2>2. CASE toKit' = Append(toKit, m)
    <3>1. /\ Len(toKit') = Len(toKit) + 1
          /\ toKit'[Len(toKit) + 1] = m
          /\ \A i \in 1..Len(toKit) : toKit'[i] = toKit[i]
      BY <1>0, <2>2
    <3>2. \A i \in 1..Len(toKit') : i \in 1..Len(toKit) \/ i = Len(toKit) + 1
      BY <1>0, <3>1
    <3> QED
      BY <1>4, <3>1, <3>2
  <2> QED
    BY <1>4, <2>1, <2>2 DEF Sent
<1> QED
  BY <1>1, <1>2, <1>3, <1>4

\* A step of the kit keeps the order of the copies: the kit loads from the
\* jail, edits in memory, and writes its memory to the jail.
LEMMA KitStepStorage == TypeOK /\ StorageInv /\ KitStep => StorageInv'
<1> SUFFICES ASSUME TypeOK, StorageInv, KitStep
             PROVE  StorageInv'
  OBVIOUS
<1>0. UNCHANGED <<typed, store>>
  BY DEF KitStep, brokerVars, historyVars
<1>q. EditsInToKit'
  <2>1. toKit' = toKit \/ (toKit # <<>> /\ toKit' = Tail(toKit))
    BY DEF KitStep, KitHandle, KitSession, KitLoad, KitLoadFails, KitEdit, KitSaveSkips,
           KitSaves, KitSaveFails, KitDisconnect, KitPurge, KitCrash, Receive
  <2> QED
    BY <1>0, <2>1, EditsInToKitStep DEF StorageInv
<1> USE DEF StorageInv, StorageChain
<1>1. CASE KitLoad
  <2>1. doc' = IF kitViews = {} THEN jail ELSE doc
    BY <1>1 DEF KitLoad
  <2>2. jail' = doc' \/ jail' = jail
    BY <1>1 DEF KitLoad
  <2> QED
    BY <1>0, <1>q, <2>1, <2>2
<1>2. CASE KitEdit
  <2>1. UNCHANGED <<jail, kitViews>>
    BY <1>2 DEF KitEdit
  <2>2. doc' = doc \/ doc' = doc \cup {Head(toKit).e}
    BY <1>2 DEF KitEdit
  <2>3. Head(toKit).e \in typed
    <3>1. toKit \in Seq(ToKitMsg) /\ toKit # <<>> /\ Head(toKit).t = "edit"
      BY <1>2 DEF KitEdit, Receive, TypeOK, ChannelTypeOK
    <3>2. 1 \in 1..Len(toKit) /\ Head(toKit) = toKit[1]
      BY <3>1
    <3> QED
      BY <3>1, <3>2 DEF EditsInToKit
  <2> QED
    BY <1>0, <1>q, <2>1, <2>2, <2>3
<1>3. CASE KitSaves
  <2>1. /\ jail' = doc /\ UNCHANGED <<kitViews, doc>>
        /\ Head(toKit).s \in kitViews
    BY <1>3 DEF KitSaves
  <2> QED
    BY <1>0, <1>q, <2>1
<1>4. CASE KitDisconnect
  <2>1. /\ kitViews' = kitViews \ {Head(toKit).s} /\ UNCHANGED jail
        /\ doc' = IF kitViews = {Head(toKit).s} THEN jail ELSE doc
    BY <1>4 DEF KitDisconnect
  <2> QED
    BY <1>0, <1>q, <2>1
<1>5. CASE \/ KitSession \/ KitLoadFails \/ KitSaveSkips \/ KitSaveFails
           \/ KitPurge \/ KitCrash
  <2>1. UNCHANGED <<jail, kitViews, doc>>
    BY <1>5 DEF KitSession, KitLoadFails, KitSaveSkips, KitSaveFails, KitPurge, KitCrash,
                kitVars
  <2> QED
    BY <1>0, <1>q, <2>1
<1> QED
  BY <1>1, <1>2, <1>3, <1>4, <1>5 DEF KitStep, KitHandle

\* A step of the broker keeps the order of the copies: it uploads the file in
\* the jail or nothing.
LEMMA BrokerStepStorage == TypeOK /\ StorageInv /\ BrokerStep => StorageInv'
<1> SUFFICES ASSUME TypeOK, StorageInv, BrokerStep
             PROVE  StorageInv'
  OBVIOUS
<1>1. BrokerEffect
  BY BrokerStepEffect
<1>2. UNCHANGED <<doc, kitViews>>
  BY DEF BrokerStep, kitVars
<1>3. EditsInToKit'
  BY <1>1, EditsInToKitStep DEF BrokerEffect, StorageInv
<1> QED
  BY <1>1, <1>2, <1>3 DEF BrokerEffect, StorageInv, StorageChain

\* The inductive invariant behind it: also the jail and the queue to the kit
\* hold only what users typed.
LEMMA StorageInvHolds == Spec => []StorageInv
<1>1. Init => StorageInv
  BY DEF Init, BrokerInit, KitInit, ChannelInit, StorageInv, StorageChain, EditsInToKit
<1>2. TypeOK /\ StorageInv /\ [Next]_vars => StorageInv'
  <2>1. CASE UNCHANGED vars
    BY <2>1 DEF vars, brokerVars, kitVars, channelVars, historyVars, StorageInv,
                StorageChain, EditsInToKit
  <2> QED
    BY <2>1, BrokerStepStorage, KitStepStorage DEF Next, Finished
<1> QED
  BY <1>1, <1>2, TypeCorrect, PTL DEF Spec

\* The storage, the file in the jail and the document in memory are ever newer
\* copies of the document, under every fault and race, and for any number of
\* sessions.
THEOREM StorageChainHolds == Spec => []StorageChain
<1>1. StorageInv => StorageChain
  BY DEF StorageInv
<1> QED
  BY <1>1, StorageInvHolds, PTL

\* An upload never takes an edit out of the storage.
THEOREM StoreOnlyGrows == Spec => StoreGrows
<1>1. TypeOK /\ StorageChain /\ [Next]_vars => [store \subseteq store']_vars
  <2> SUFFICES ASSUME TypeOK, StorageChain, [Next]_vars
               PROVE  store \subseteq store'
    OBVIOUS
  <2>1. CASE BrokerStep
    BY <2>1, BrokerStepEffect DEF BrokerEffect, StorageChain
  <2>2. CASE KitStep \/ Finished \/ UNCHANGED vars
    BY <2>2 DEF KitStep, Finished, vars, brokerVars
  <2> QED
    BY <2>1, <2>2 DEF Next
<1> QED
  BY <1>1, TypeCorrect, StorageChainHolds, PTL DEF Spec, StoreGrows

-----------------------------------------------------------------------------
(* The last session.                                                       *)

\* removeSession leaves no session behind that was not there, and marks the
\* broker just if the session is the only one.
LEMMA RemoveSessionMarks ==
    ASSUME NEW s, NEW act, NEW why, RemoveSession(s, act, why)
    PROVE  /\ sessions' \subseteq sessions
           /\ s \in sessions => (markToDestroy' <=> sessions = {s})
           /\ s \notin sessions => UNCHANGED markToDestroy
<1>1. CASE s \notin sessions
  BY <1>1 DEF RemoveSession
<1>2. CASE s \in sessions
  <2>1. markToDestroy' = (sessions = {s})
    BY <1>2 DEF RemoveSession
  <2>2. sessions' = sessions \/ RemoveSessionInternal(s)
    BY <1>2 DEF RemoveSession
  <2> QED
    BY <1>2, <2>1, <2>2 DEF RemoveSessionInternal
<1> QED
  BY <1>1, <1>2

\* saveToStorage only removes sessions.
LEMMA SaveToStorageRemoves ==
    ASSUME NEW s, NEW success, NEW force, NEW why, SaveToStorage(s, success, force, why)
    PROVE  sessions' \subseteq sessions
<1>1. sessions' = sessions \/ RemoveSessionInternal(s)
  BY DEF SaveToStorage
<1> QED
  BY <1>1 DEF RemoveSessionInternal

\* A step of the broker keeps its mark, and what the mark says.
LEMMA BrokerStepMark ==
    ASSUME TypeOK, MarkedIsLast, BrokerStep
    PROVE  MarkedIsLast' /\ (markToDestroy => markToDestroy')
<1> USE DEF flagVars, sessionVars, bodyRest
<1>1. ASSUME NEW s \in Sessions, Join(s)
      PROVE  MarkedIsLast' /\ (markToDestroy => markToDestroy')
  <2>1. CASE ~markToDestroy /\ UNCHANGED markToDestroy
    BY <2>1 DEF MarkedIsLast
  <2>2. CASE markToDestroy' = (markToDestroy \/ sessions = {}) /\ UNCHANGED sessions
    BY <2>2 DEF MarkedIsLast
  <2> QED
    BY <1>1, <2>1, <2>2 DEF Join
<1>2. ASSUME NEW r, NEW act, NEW why, RemoveSession(r, act, why)
      PROVE  MarkedIsLast' /\ (markToDestroy => markToDestroy')
  <2>1. /\ sessions' \subseteq sessions
        /\ r \in sessions => (markToDestroy' <=> sessions = {r})
        /\ r \notin sessions => UNCHANGED markToDestroy
    BY <1>2, RemoveSessionMarks
  <2>2. CASE r \notin sessions
    BY <2>1, <2>2 DEF MarkedIsLast
  <2>3. CASE r \in sessions
    <3>1. markToDestroy => sessions = {r}
      BY <2>3 DEF MarkedIsLast
    <3> QED
      BY <2>1, <2>3, <3>1 DEF MarkedIsLast
  <2> QED
    BY <2>2, <2>3
<1>3. ASSUME UNCHANGED markToDestroy, sessions' \subseteq sessions
      PROVE  MarkedIsLast' /\ (markToDestroy => markToDestroy')
  BY <1>3 DEF MarkedIsLast
<1>4. ASSUME NEW s \in Sessions, Disconnect(s) \/ \E r \in Sessions : ClientRemovesSession(s, r)
      PROVE  MarkedIsLast' /\ (markToDestroy => markToDestroy')
  <2>1. \E r, act, why : RemoveSession(r, act, why)
    BY <1>4 DEF Disconnect, ClientRemovesSession
  <2> QED
    BY <2>1, <1>2
<1>5. ASSUME NEW s \in Sessions,
             \/ ClientActivity(s) \/ ClientLoad(s) \/ ClientSave(s)
             \/ SaveAsToStorage(s) \/ ClientSetModified(s) \/ ClientClosesDocument(s)
             \/ ClientDiscards(s) \/ \E e \in Edits : ClientEdit(s, e)
      PROVE  MarkedIsLast' /\ (markToDestroy => markToDestroy')
  <2>1. UNCHANGED markToDestroy /\ sessions' \subseteq sessions
    BY <1>5 DEF ClientActivity, ClientLoad, ClientSave, SaveAsToStorage,
                ClientSetModified, ClientClosesDocument, ClientDiscards, ClientEdit
  <2> QED
    BY <2>1, <1>3
<1>6. ASSUME NEW s \in Sessions, ClientSaveToStorage(s)
      PROVE  MarkedIsLast' /\ (markToDestroy => markToDestroy')
  <2>1. SaveToStorage(s, TRUE, TRUE, Overlap(fromKit) \cup Outdated)
    BY <1>6 DEF ClientSaveToStorage
  <2>2. sessions' \subseteq sessions
    BY <2>1, SaveToStorageRemoves
  <2> QED
    BY <1>6, <2>2, <1>3 DEF ClientSaveToStorage
<1>7. CASE HandleStatus
  <2>1. \/ SaveToStorage(Head(fromKit).s, TRUE, FALSE, Overlap(fromKit) \cup Outdated)
        \/ UNCHANGED storageVars
    BY <1>7 DEF HandleStatus
  <2>2. sessions' \subseteq sessions
    BY <2>1, SaveToStorageRemoves DEF storageVars
  <2> QED
    BY <1>7, <2>2, <1>3 DEF HandleStatus
<1>8. CASE HandleSaveResult
  <2>1. \/ SaveToStorage(Head(fromKit).s, Head(fromKit).ok, FALSE, Overlap(Tail(fromKit)))
        \/ UNCHANGED storageVars
    BY <1>8 DEF HandleSaveResult
  <2>2. sessions' \subseteq sessions
    BY <2>1, SaveToStorageRemoves DEF storageVars
  <2> QED
    BY <1>8, <2>2, <1>3 DEF HandleSaveResult
<1>9. CASE \/ HandleModifiedStatus \/ KitDisconnected \/ GetChild \/ FailToGetChild
           \/ RequestShutdown \/ LoadTimedOut \/ WaitForSave \/ SaveAndClose
           \/ TimedAutoSave \/ NothingToSave \/ CloseIdle \/ CloseDead \/ Linger
           \/ Terminate \/ Finish
  <2>1. UNCHANGED markToDestroy /\ sessions' \subseteq sessions
    BY <1>9 DEF HandleModifiedStatus, KitDisconnected, GetChild, FailToGetChild,
                RequestShutdown, LoadTimedOut, WaitForSave, SaveAndClose, TimedAutoSave,
                NothingToSave, CloseIdle, CloseDead, Linger, Terminate, Finish
  <2> QED
    BY <2>1, <1>3
<1> QED
  BY <1>1, <1>4, <1>5, <1>6, <1>7, <1>8, <1>9
  DEF BrokerStep, BrokerNext, ClientCommand, HandleKit, BrokerBody

\* A broker marked to destroy has at most one session: nobody joins any more.
THEOREM MarkedHasOneSession == Spec => []MarkedIsLast
<1>1. Init => MarkedIsLast
  BY DEF Init, BrokerInit, MarkedIsLast
<1>2. TypeOK /\ MarkedIsLast /\ [Next]_vars => MarkedIsLast'
  <2>1. CASE KitStep \/ Finished \/ UNCHANGED vars
    BY <2>1 DEF KitStep, Finished, vars, brokerVars, flagVars, sessionVars, MarkedIsLast
  <2> QED
    BY <2>1, BrokerStepMark DEF Next
<1> QED
  BY <1>1, <1>2, TypeCorrect, PTL DEF Spec

\* A broker marked to destroy is never revived, although removeSession sets
\* the mark to the outcome of a test.
THEOREM MarkStays == Spec => MarkIsFinal
<1>1. TypeOK /\ MarkedIsLast /\ [Next]_vars => [markToDestroy => markToDestroy']_vars
  <2>1. CASE KitStep \/ Finished \/ UNCHANGED vars
    BY <2>1 DEF KitStep, Finished, vars, brokerVars, flagVars
  <2> QED
    BY <2>1, BrokerStepMark DEF Next
<1> QED
  BY <1>1, TypeCorrect, MarkedHasOneSession, PTL DEF Spec, MarkIsFinal

\* saveToStorage that stops a marked broker removes the one session it has.
LEMMA SaveToStorageStops ==
    ASSUME MarkedIsLast, NEW s \in sessions, NEW success, NEW force, NEW why,
           SaveToStorage(s, success, force, why), ~stop, stop'
    PROVE  sessions' = {}
<1>1. stop' = (stop \/ markToDestroy \/ sessions' = {})
  BY DEF SaveToStorage
<1>2. CASE markToDestroy
  <2>1. sessions = {s}
    BY <1>2 DEF MarkedIsLast
  <2>2. RemoveSessionInternal(s)
    BY <1>2 DEF SaveToStorage
  <2> QED
    BY <2>1, <2>2 DEF RemoveSessionInternal
<1> QED
  BY <1>1, <1>2

\* The answer to a save stops the broker only if it leaves no session behind.
THEOREM SaveStopsOnlyEmpty == Spec => SaveStopsEmptyBroker
<1> DEFINE A == ~stop /\ stop' /\ saving /\ ~saving' => sessions' = {}
<1>1. ASSUME TypeOK, MarkedIsLast, [Next]_vars
      PROVE  A
  <2> USE DEF flagVars, bodyRest, savingVars
  <2>1. ASSUME NEW s \in Sessions, ClientSaveToStorage(s)
        PROVE  A
    <3>1. s \in sessions
      BY <2>1 DEF ClientSaveToStorage, Live
    <3>2. SaveToStorage(s, TRUE, TRUE, Overlap(fromKit) \cup Outdated)
      BY <2>1 DEF ClientSaveToStorage
    <3> QED
      BY <1>1, <3>1, <3>2, SaveToStorageStops
  <2>2. CASE HandleStatus
    <3>1. \/ /\ Head(fromKit).s \in sessions
             /\ SaveToStorage(Head(fromKit).s, TRUE, FALSE, Overlap(fromKit) \cup Outdated)
          \/ UNCHANGED storageVars
      BY <2>2 DEF HandleStatus
    <3> QED
      BY <1>1, <3>1, SaveToStorageStops DEF storageVars
  <2>3. CASE HandleSaveResult
    <3>1. \/ /\ Head(fromKit).s \in sessions
             /\ SaveToStorage(Head(fromKit).s, Head(fromKit).ok, FALSE,
                              Overlap(Tail(fromKit)))
          \/ UNCHANGED storageVars
      BY <2>3 DEF HandleSaveResult
    <3> QED
      BY <1>1, <3>1, SaveToStorageStops DEF storageVars
  <2>4. ASSUME NEW s \in Sessions,
               \/ Join(s) \/ Disconnect(s)
               \/ ClientActivity(s) \/ ClientLoad(s) \/ ClientSave(s)
               \/ SaveAsToStorage(s) \/ ClientSetModified(s) \/ ClientClosesDocument(s)
               \/ \E e \in Edits : ClientEdit(s, e)
               \/ \E r \in Sessions : ClientRemovesSession(s, r)
        PROVE  UNCHANGED stop
    BY <2>4 DEF Join, Disconnect, ClientActivity, ClientLoad, ClientSave, SaveAsToStorage,
                ClientSetModified, ClientClosesDocument, ClientEdit, ClientRemovesSession
  <2>5. ASSUME NEW s \in Sessions, ClientDiscards(s)
        PROVE  UNCHANGED saving
    BY <2>5 DEF ClientDiscards
  <2>6. CASE \/ HandleModifiedStatus \/ KitDisconnected \/ GetChild \/ FailToGetChild
             \/ RequestShutdown \/ LoadTimedOut \/ WaitForSave \/ NothingToSave
             \/ CloseDead \/ Linger \/ Terminate \/ Finish
    <3>1. UNCHANGED saving
      BY <2>6 DEF HandleModifiedStatus, KitDisconnected, GetChild, FailToGetChild,
                  RequestShutdown, LoadTimedOut, WaitForSave, NothingToSave, CloseDead,
                  Linger, Terminate, Finish
    <3> QED
      BY <3>1
  <2>7. CASE SaveAndClose \/ TimedAutoSave \/ CloseIdle
    <3>1. UNCHANGED stop \/ UNCHANGED saving
      BY <2>7 DEF SaveAndClose, TimedAutoSave, CloseIdle
    <3> QED
      BY <3>1
  <2>8. CASE KitStep \/ Finished \/ UNCHANGED vars
    <3>1. UNCHANGED stop
      BY <2>8 DEF KitStep, Finished, vars, brokerVars
    <3> QED
      BY <3>1
  <2> QED
    BY <1>1, <2>1, <2>2, <2>3, <2>4, <2>5, <2>6, <2>7, <2>8
    DEF Next, BrokerStep, BrokerNext, ClientCommand, HandleKit, BrokerBody
<1>2. TypeOK /\ MarkedIsLast /\ [Next]_vars => [A]_vars
  BY <1>1
<1> QED
  BY <1>2, TypeCorrect, MarkedHasOneSession, PTL DEF Spec, SaveStopsEmptyBroker

-----------------------------------------------------------------------------
(* DocumentLifecycle implements DurableDocument.                           *)

\* A step of the kit takes an edit, closes the document, writes the file, or
\* does nothing to the copies.
LEMMA KitStepDurable ==
    ASSUME TypeOK, StorageInv, KitStep
    PROVE  [Durable!Next]_(Durable!vars)
<1> USE DEF Durable!vars, InMemory
<1>0. UNCHANGED <<typed, store>>
  BY DEF KitStep, brokerVars, historyVars
<1>1. CASE KitLoad
  <2>1. /\ kitAlive /\ kitAlive' /\ kitViews' = kitViews \cup {Head(toKit).s}
        /\ doc' = IF kitViews = {} THEN jail ELSE doc
        /\ jail' = doc' \/ jail' = jail
    BY <1>1 DEF KitLoad, Receive
  <2>2. InMemory' = doc' /\ doc' = InMemory
    BY <2>1
  <2>3. Durable!Write \/ UNCHANGED Durable!vars
    BY <1>0, <2>1, <2>2 DEF Durable!Write
  <2> QED
    BY <2>3 DEF Durable!Next
<1>2. CASE KitEdit
  <2>1. UNCHANGED <<jail, kitViews, kitAlive>>
    BY <1>2 DEF KitEdit
  <2>2. CASE Head(toKit).s \in kitViews
    <3>1. kitAlive /\ kitViews # {} /\ doc' = doc \cup {Head(toKit).e}
      BY <1>2, <2>2 DEF KitEdit, Receive
    <3>2. Head(toKit).e \in typed
      <4>1. toKit \in Seq(ToKitMsg) /\ toKit # <<>> /\ Head(toKit).t = "edit"
        BY <1>2 DEF KitEdit, Receive, TypeOK, ChannelTypeOK
      <4>2. 1 \in 1..Len(toKit) /\ Head(toKit) = toKit[1]
        BY <4>1
      <4> QED
        BY <4>1, <4>2 DEF EditsInToKit, StorageInv
    <3>3. Durable!Take
      BY <1>0, <2>1, <3>1, <3>2 DEF Durable!Take
    <3> QED
      BY <3>3 DEF Durable!Next
  <2>3. CASE Head(toKit).s \notin kitViews
    BY <1>0, <1>2, <2>1, <2>3 DEF KitEdit
  <2> QED
    BY <2>2, <2>3
<1>3. CASE KitSaves
  <2>1. kitAlive /\ kitViews # {} /\ UNCHANGED <<kitAlive, kitViews, doc>> /\ jail' = doc
    BY <1>3 DEF KitSaves, Receive
  <2>2. Durable!Write
    BY <1>0, <2>1 DEF Durable!Write
  <2> QED
    BY <2>2 DEF Durable!Next
<1>4. CASE KitDisconnect
  <2>1. /\ UNCHANGED jail
        /\ kitViews' = kitViews \ {Head(toKit).s}
        /\ doc' = IF kitViews = {Head(toKit).s} THEN jail ELSE doc
        /\ kitAlive
        /\ ~kitAlive' => kitViews = {Head(toKit).s}
    BY <1>4 DEF KitDisconnect, Receive
  <2>2. InMemory' = jail \/ InMemory' = InMemory
    BY <2>1
  <2>3. Durable!Drop \/ UNCHANGED Durable!vars
    BY <1>0, <2>1, <2>2 DEF Durable!Drop
  <2> QED
    BY <2>3 DEF Durable!Next
<1>5. CASE KitSession \/ KitLoadFails \/ KitSaveSkips \/ KitSaveFails
  <2>1. UNCHANGED <<jail, kitViews, doc, kitAlive>>
    BY <1>5 DEF KitSession, KitLoadFails, KitSaveSkips, KitSaveFails
  <2> QED
    BY <1>0, <2>1
<1>6. CASE KitPurge \/ KitCrash
  <2>1. UNCHANGED <<jail, kitViews, doc>> /\ ~kitAlive'
    BY <1>6 DEF KitPurge, KitCrash, kitVars
  <2>2. Durable!Drop
    BY <1>0, <2>1 DEF Durable!Drop
  <2> QED
    BY <2>2 DEF Durable!Next
<1> QED
  BY <1>1, <1>2, <1>3, <1>4, <1>5, <1>6 DEF KitStep, KitHandle

\* A step of the broker types, uploads, kills the kit, or does nothing to the
\* copies.
LEMMA BrokerStepDurable ==
    ASSUME TypeOK, BrokerStep
    PROVE  [Durable!Next]_(Durable!vars)
<1> USE DEF Durable!vars, InMemory
<1>0. BrokerEffect /\ UNCHANGED <<jail, doc, kitViews>>
  BY BrokerStepEffect DEF BrokerStep, BrokerEffect, kitVars
<1>1. CASE UNCHANGED <<typed, store, kitAlive>>
  BY <1>0, <1>1
<1>2. CASE /\ UNCHANGED <<store, kitAlive>>
           /\ \E e \in Edits \ typed : typed' = typed \cup {e}
  BY <1>0, <1>2 DEF Durable!Type, Durable!Next
<1>3. CASE UNCHANGED <<typed, kitAlive>> /\ store' = jail
  BY <1>0, <1>3 DEF Durable!Upload, Durable!Next
<1>4. CASE UNCHANGED <<typed, store>> /\ kitAlive' = FALSE
  BY <1>0, <1>4 DEF Durable!Drop, Durable!Next
<1> QED
  BY <1>0, <1>1, <1>2, <1>3, <1>4 DEF BrokerEffect

\* The broker and the kit keep the document as DurableDocument promises: the
\* storage only ever holds states the document really was in, whatever
\* sessions, saves, uploads and faults there are.
THEOREM DurableRefined == Spec => ImplementsDurable
<1>1. Init => Durable!Init
  BY DEF Init, BrokerInit, KitInit, ChannelInit, Durable!Init, InMemory
<1>2. TypeOK /\ StorageInv /\ [Next]_vars => [Durable!Next]_(Durable!vars)
  <2>1. CASE Finished \/ UNCHANGED vars
    BY <2>1 DEF Finished, vars, brokerVars, kitVars, channelVars, historyVars, Durable!vars,
                InMemory
  <2> QED
    BY <2>1, BrokerStepDurable, KitStepDurable DEF Next
<1> QED
  BY <1>1, <1>2, TypeCorrect, StorageInvHolds, PTL DEF Spec, ImplementsDurable, Durable!Spec

-----------------------------------------------------------------------------
(* The kit's sessions follow the broker's: DocumentLifecycle keeps         *)
(* KitFollowsBroker, for any sessions, edits, faults, commands and roles.  *)

ToldOf(s) == \E i \in 1..Len(toKit) : toKit[i].t = "session" /\ toKit[i].s = s

Drops(i, s) == toKit[i].t = "disconnect" /\ toKit[i].s = s

ToldToDrop(s) == \E i \in 1..Len(toKit) : Drops(i, s)

\* KitFollowsBroker, by the fields of the messages.
Follows ==
    kitAlive =>
      \A s \in Sessions :
        IF s \in sessions
        THEN (s \in kitSessions \/ ToldOf(s)) /\ ~ToldToDrop(s)
        ELSE s \in kitSessions \/ ToldOf(s) => ToldToDrop(s)

\* Whoever anybody speaks of has joined.
SessionsKnown == sessions \cup viewLoaded \cup kitSessions \subseteq joined

ToldKnown ==
    \A i \in 1..Len(toKit) : toKit[i].t \in {"session", "disconnect"} => toKit[i].s \in joined

\* The kit is told to drop a session only after it was told of it.
ToldInOrder ==
    \A i, j \in 1..Len(toKit) :
      i < j /\ toKit[i].t = "disconnect" /\ toKit[j].t = "session" => toKit[i].s # toKit[j].s

\* An edit reaches the kit while its session has a view.
EditsHaveViews ==
    \A i \in 1..Len(toKit) :
      toKit[i].t = "edit" =>
        toKit[i].s \in kitViews /\ \A k \in 1..i : ~Drops(k, toKit[i].s)

QueueInv == Follows /\ ToldKnown /\ ToldInOrder /\ EditsHaveViews

\* A session whose view is taken for loaded, or is about to be, has a view.
LoadedHaveViews == sessions \cap viewLoaded \subseteq kitViews

StatusesAreTrue ==
    \A i \in 1..Len(fromKit) :
      fromKit[i].t = "status" =>
        /\ fromKit[i].s \in joined
        /\ fromKit[i].s \in sessions => fromKit[i].s \in kitViews

ViewInv == SessionsKnown /\ LoadedHaveViews /\ StatusesAreTrue

\* Nobody edits before the document is loaded, and the kit never outlives the
\* broker.
LoadedFirst ==
    /\ owed # {} \/ viewLoaded # {} => isLoaded
    /\ phase = "start" => ~isLoaded
    /\ kitAlive => phase # "finished"

OrderInv == QueueInv /\ ViewInv /\ LoadedFirst

-----------------------------------------------------------------------------
(* The queue to the kit.                                                   *)

\* What sendTextFrame does to the queue, message by message.
LEMMA SentFacts ==
    ASSUME TypeOK, NEW m \in ToKitMsg, toKit' = Sent(m)
    PROVE  \/ ~kitAlive /\ toKit' = toKit
           \/ /\ kitAlive /\ Len(toKit') = Len(toKit) + 1
              /\ toKit'[Len(toKit) + 1] = m
              /\ \A i \in 1..Len(toKit) : toKit'[i] = toKit[i]
<1>0. toKit \in Seq(ToKitMsg)
  BY DEF TypeOK, ChannelTypeOK
<1>1. CASE kitAlive
  <2>1. toKit' = Append(toKit, m)
    BY <1>1 DEF Sent
  <2> QED
    BY <1>0, <1>1, <2>1
<1> QED
  BY <1>1 DEF Sent

\* What taking the first message does to it.
LEMMA TailFacts ==
    ASSUME TypeOK, toKit # <<>>, toKit' = Tail(toKit)
    PROVE  /\ Len(toKit) \in Nat /\ Len(toKit) >= 1
           /\ Len(toKit') = Len(toKit) - 1
           /\ \A i \in 1..Len(toKit') : i + 1 \in 1..Len(toKit) /\ toKit'[i] = toKit[i + 1]
           /\ \A i \in 1..Len(toKit) :
                i = 1 \/ (i - 1 \in 1..Len(toKit') /\ toKit'[i - 1] = toKit[i])
           /\ Head(toKit) = toKit[1] /\ Head(toKit) \in ToKitMsg
<1>0. toKit \in Seq(ToKitMsg)
  BY DEF TypeOK, ChannelTypeOK
<1>1. /\ Len(toKit) \in Nat /\ Len(toKit) >= 1
      /\ Len(toKit') = Len(toKit) - 1
      /\ \A i \in 1..Len(toKit') : i + 1 \in 1..Len(toKit) /\ toKit'[i] = toKit[i + 1]
      /\ Head(toKit) = toKit[1] /\ Head(toKit) \in ToKitMsg
  BY <1>0
<1>2. ASSUME NEW i \in 1..Len(toKit), i # 1
      PROVE  i - 1 \in 1..Len(toKit') /\ toKit'[i - 1] = toKit[i]
  <2>1. i - 1 \in 1..Len(toKit') /\ (i - 1) + 1 = i
    BY <1>1, <1>2
  <2> QED
    BY <1>1, <2>1
<1> QED
  BY <1>1, <1>2

\* A message that neither names a new session, drops one nor edits leaves the
\* order as it is.
LEMMA QueueSent ==
    ASSUME TypeOK, QueueInv, NEW m \in ToKitMsg, m.t \in {"load", "save"}, toKit' = Sent(m),
           UNCHANGED <<sessions, kitSessions, kitViews, kitAlive>>, joined \subseteq joined'
    PROVE  QueueInv'
<1> USE DEF QueueInv
<1>0. Len(toKit) \in Nat
  BY DEF TypeOK, ChannelTypeOK
<1>1. CASE ~kitAlive /\ toKit' = toKit
  BY <1>1 DEF Follows, ToldKnown, ToldInOrder, EditsHaveViews, Drops
<1>2. CASE /\ kitAlive /\ Len(toKit') = Len(toKit) + 1
           /\ toKit'[Len(toKit) + 1] = m
           /\ \A i \in 1..Len(toKit) : toKit'[i] = toKit[i]
  <2>1. \A s : ToldOf(s)' <=> ToldOf(s)
    BY <1>0, <1>2 DEF ToldOf
  <2>2. \A s : ToldToDrop(s)' <=> ToldToDrop(s)
    BY <1>0, <1>2 DEF ToldToDrop, Drops
  <2>3. Follows'
    BY <2>1, <2>2 DEF Follows
  <2>4. ToldKnown'
    BY <1>0, <1>2 DEF ToldKnown
  <2>5. ToldInOrder'
    BY <1>0, <1>2 DEF ToldInOrder
  <2>6. EditsHaveViews'
    BY <1>0, <1>2 DEF EditsHaveViews, Drops
  <2> QED
    BY <2>3, <2>4, <2>5, <2>6
<1> QED
  BY <1>1, <1>2, SentFacts

\* removeSessionInternal keeps the order: the session was in the map, so the
\* kit has not yet been told to drop it.
LEMMA QueueDropped ==
    ASSUME TypeOK, QueueInv, SessionsKnown, NEW s \in Sessions, RemoveSessionInternal(s),
           UNCHANGED <<joined, kitSessions, kitViews, kitAlive>>
    PROVE  QueueInv'
<1> USE DEF QueueInv
<1> DEFINE msg == [t |-> "disconnect", s |-> s]
<1>0. Len(toKit) \in Nat /\ sessions \in SUBSET Sessions
  BY DEF TypeOK, ChannelTypeOK, BrokerTypeOK
<1>1. CASE s \notin sessions
  <2>1. sessions' = sessions /\ toKit' = toKit
    BY <1>1 DEF RemoveSessionInternal
  <2> QED
    BY <2>1 DEF Follows, ToldKnown, ToldInOrder, EditsHaveViews, Drops, ToldOf, ToldToDrop
<1>2. CASE s \in sessions
  <2>1. /\ toKit' = Sent(msg) /\ sessions' = sessions \ {s} /\ s \in joined
        /\ msg \in ToKitMsg /\ msg.t = "disconnect" /\ msg.s = s
    BY <1>2, ToKitMessages DEF RemoveSessionInternal, SessionsKnown
  <2> HIDE DEF msg
  <2>2. CASE ~kitAlive /\ toKit' = toKit
    BY <2>1, <2>2 DEF Follows, ToldKnown, ToldInOrder, EditsHaveViews, Drops
  <2>3. CASE /\ kitAlive /\ Len(toKit') = Len(toKit) + 1
             /\ toKit'[Len(toKit) + 1] = msg
             /\ \A i \in 1..Len(toKit) : toKit'[i] = toKit[i]
    <3>1. \A x : ToldOf(x)' <=> ToldOf(x)
      BY <1>0, <2>1, <2>3 DEF ToldOf
    <3>2. \A x : ToldToDrop(x)' <=> ToldToDrop(x) \/ x = s
      BY <1>0, <2>1, <2>3 DEF ToldToDrop, Drops
    <3>3. Follows'
      BY <1>0, <1>2, <2>1, <3>1, <3>2 DEF Follows
    <3>4. ToldKnown'
      BY <1>0, <2>1, <2>3 DEF ToldKnown
    <3>5. ToldInOrder'
      BY <1>0, <2>1, <2>3 DEF ToldInOrder
    <3>6. EditsHaveViews'
      BY <1>0, <2>1, <2>3 DEF EditsHaveViews, Drops
    <3> QED
      BY <3>3, <3>4, <3>5, <3>6
  <2> QED
    BY <2>1, <2>2, <2>3, SentFacts
<1> QED
  BY <1>1, <1>2

\* addSession keeps the order: nobody has heard of the new session.
LEMMA QueueJoined ==
    ASSUME TypeOK, QueueInv, SessionsKnown, NEW m \in ToKitMsg, m.t = "session",
           m.s \in Sessions \ joined, toKit' = Sent(m),
           sessions' = sessions \cup {m.s}, joined' = joined \cup {m.s},
           UNCHANGED <<kitSessions, kitViews, kitAlive>>
    PROVE  QueueInv'
<1> USE DEF QueueInv
<1>0. Len(toKit) \in Nat /\ sessions \in SUBSET Sessions
  BY DEF TypeOK, ChannelTypeOK, BrokerTypeOK
<1>1. m.s \notin sessions /\ m.s \notin kitSessions /\ ~ToldToDrop(m.s)
  BY DEF SessionsKnown, ToldKnown, ToldToDrop, Drops
<1>2. CASE ~kitAlive /\ toKit' = toKit
  BY <1>2 DEF Follows, ToldKnown, ToldInOrder, EditsHaveViews, Drops
<1>3. CASE /\ kitAlive /\ Len(toKit') = Len(toKit) + 1
           /\ toKit'[Len(toKit) + 1] = m
           /\ \A i \in 1..Len(toKit) : toKit'[i] = toKit[i]
  <2>1. \A x : ToldOf(x)' <=> ToldOf(x) \/ x = m.s
    BY <1>0, <1>1, <1>3 DEF ToldOf
  <2>2. \A x : ToldToDrop(x)' <=> ToldToDrop(x)
    BY <1>0, <1>1, <1>3 DEF ToldToDrop, Drops
  <2>3. Follows'
    BY <1>0, <1>1, <2>1, <2>2 DEF Follows
  <2>4. ToldKnown'
    BY <1>0, <1>1, <1>3 DEF ToldKnown
  <2>5. ToldInOrder'
    <3> SUFFICES ASSUME NEW i \in 1..Len(toKit'), NEW j \in 1..Len(toKit'), i < j,
                        toKit'[i].t = "disconnect", toKit'[j].t = "session"
                 PROVE  toKit'[i].s # toKit'[j].s
      BY DEF ToldInOrder
    <3>1. i \in 1..Len(toKit) /\ toKit[i] = toKit'[i]
      BY <1>0, <1>3
    <3>2. CASE j \in 1..Len(toKit)
      <4>1. toKit[j] = toKit'[j]
        BY <1>3, <3>2
      <4> QED BY <3>1, <3>2, <4>1 DEF ToldInOrder
    <3>3. CASE j = Len(toKit) + 1
      <4>1. toKit'[i].s \in joined
        BY <3>1 DEF ToldKnown
      <4> QED BY <1>3, <3>3, <4>1
    <3> QED BY <1>0, <1>3, <3>2, <3>3
  <2>6. EditsHaveViews'
    BY <1>0, <1>1, <1>3 DEF EditsHaveViews, Drops
  <2> QED
    BY <2>3, <2>4, <2>5, <2>6
<1> QED
  BY <1>1, <1>2, <1>3, SentFacts

\* An edit of a session in the map, with its view loaded, keeps the order.
LEMMA QueueEdited ==
    ASSUME TypeOK, QueueInv, LoadedHaveViews, NEW m \in ToKitMsg, m.t = "edit",
           m.s \in sessions \cap viewLoaded, toKit' = Sent(m),
           UNCHANGED <<sessions, joined, kitSessions, kitViews, kitAlive>>
    PROVE  QueueInv'
<1> USE DEF QueueInv
<1>0. Len(toKit) \in Nat /\ sessions \in SUBSET Sessions
  BY DEF TypeOK, ChannelTypeOK, BrokerTypeOK
<1>2. CASE ~kitAlive /\ toKit' = toKit
  BY <1>2 DEF Follows, ToldKnown, ToldInOrder, EditsHaveViews, Drops
<1>3. CASE /\ kitAlive /\ Len(toKit') = Len(toKit) + 1
           /\ toKit'[Len(toKit) + 1] = m
           /\ \A i \in 1..Len(toKit) : toKit'[i] = toKit[i]
  <2>1. \A x : ToldOf(x)' <=> ToldOf(x)
    BY <1>0, <1>3 DEF ToldOf
  <2>2. \A x : ToldToDrop(x)' <=> ToldToDrop(x)
    BY <1>0, <1>3 DEF ToldToDrop, Drops
  <2>3. Follows'
    BY <1>0, <2>1, <2>2 DEF Follows
  <2>4. ToldKnown'
    BY <1>0, <1>3 DEF ToldKnown
  <2>5. ToldInOrder'
    BY <1>0, <1>3 DEF ToldInOrder
  <2>6. m.s \in kitViews /\ ~ToldToDrop(m.s)
    BY <1>0, <1>3 DEF Follows, LoadedHaveViews
  <2>7. EditsHaveViews'
    BY <1>0, <1>3, <2>6 DEF EditsHaveViews, Drops, ToldToDrop
  <2> QED
    BY <2>3, <2>4, <2>5, <2>7
<1> QED
  BY <1>2, <1>3, SentFacts

\* A step of the kit keeps the order: it takes a message and does what it says.
LEMMA QueueTaken ==
    ASSUME TypeOK, QueueInv, SessionsKnown, KitStep
    PROVE  QueueInv'
<1> USE DEF QueueInv
<1>0. UNCHANGED <<sessions, joined>> /\ kitViews \subseteq kitSessions
  BY DEF KitStep, brokerVars, sessionVars, TypeOK, KitTypeOK
<1>1. CASE KitPurge \/ KitCrash
  BY <1>0, <1>1 DEF KitPurge, KitCrash, kitVars, Follows, ToldKnown, ToldInOrder,
                    EditsHaveViews, Drops
<1>2. ASSUME kitAlive, toKit # <<>>, toKit' = Tail(toKit), kitViews \subseteq kitViews',
             Head(toKit).t # "disconnect",
             kitSessions' = IF Head(toKit).t = "session"
                            THEN kitSessions \cup {Head(toKit).s} ELSE kitSessions
      PROVE  QueueInv'
  <2>1. /\ Len(toKit) \in Nat /\ Len(toKit) >= 1
        /\ Len(toKit') = Len(toKit) - 1
        /\ \A i \in 1..Len(toKit') : i + 1 \in 1..Len(toKit) /\ toKit'[i] = toKit[i + 1]
        /\ \A i \in 1..Len(toKit) :
             i = 1 \/ (i - 1 \in 1..Len(toKit') /\ toKit'[i - 1] = toKit[i])
        /\ Head(toKit) = toKit[1]
    BY <1>2, TailFacts
  <2>2. \A x : ToldToDrop(x)' <=> ToldToDrop(x)
    BY <1>2, <2>1 DEF ToldToDrop, Drops
  <2>3. \A x : ToldOf(x) <=> ToldOf(x)' \/ (toKit[1].t = "session" /\ toKit[1].s = x)
    <3> TAKE x
    <3>1. ToldOf(x)' => ToldOf(x)
      BY <2>1 DEF ToldOf
    <3>2. toKit[1].t = "session" /\ toKit[1].s = x => ToldOf(x)
      BY <2>1 DEF ToldOf
    <3>3. ToldOf(x) => ToldOf(x)' \/ (toKit[1].t = "session" /\ toKit[1].s = x)
      BY <2>1 DEF ToldOf
    <3> QED
      BY <3>1, <3>2, <3>3
  <2>4. Follows'
    BY <1>0, <1>2, <2>2, <2>3 DEF Follows
  <2>5. ToldKnown'
    BY <1>0, <2>1 DEF ToldKnown
  <2>6. ToldInOrder'
    BY <2>1 DEF ToldInOrder
  <2>7. EditsHaveViews'
    BY <1>2, <2>1 DEF EditsHaveViews, Drops
  <2> QED
    BY <2>4, <2>5, <2>6, <2>7
<1>3. CASE KitDisconnect
  <2>1. /\ toKit # <<>> /\ toKit' = Tail(toKit) /\ kitAlive
        /\ Head(toKit).t = "disconnect"
    BY <1>3 DEF KitDisconnect, Receive
  <2>2. /\ Len(toKit) \in Nat /\ Len(toKit) >= 1
        /\ Len(toKit') = Len(toKit) - 1
        /\ \A i \in 1..Len(toKit') : i + 1 \in 1..Len(toKit) /\ toKit'[i] = toKit[i + 1]
        /\ \A i \in 1..Len(toKit) :
             i = 1 \/ (i - 1 \in 1..Len(toKit') /\ toKit'[i - 1] = toKit[i])
        /\ Head(toKit) = toKit[1] /\ Head(toKit).s \in Sessions
    BY <2>1, TailFacts, ToKitFields
  <2>3. PICK s \in Sessions : s = toKit[1].s
    BY <2>2
  <2>4. /\ toKit[1].t = "disconnect" /\ Drops(1, s)
        /\ kitSessions' = kitSessions \ {s} /\ kitViews' = kitViews \ {s}
    BY <1>3, <2>1, <2>2, <2>3 DEF KitDisconnect, Drops
  <2>5. ToldToDrop(s) /\ \A x : x # s => (ToldToDrop(x)' <=> ToldToDrop(x))
    BY <2>2, <2>3, <2>4 DEF ToldToDrop, Drops
  <2>6. ~ToldOf(s)' /\ \A x : ToldOf(x)' <=> ToldOf(x)
    BY <2>2, <2>3, <2>4 DEF ToldOf, ToldInOrder
  <2>7. Follows'
    BY <1>0, <2>1, <2>4, <2>5, <2>6 DEF Follows
  <2>8. ToldKnown'
    BY <1>0, <2>2 DEF ToldKnown
  <2>9. ToldInOrder'
    BY <2>2 DEF ToldInOrder
  <2>10. EditsHaveViews'
    <3>1. ASSUME NEW i \in 1..Len(toKit'), toKit'[i].t = "edit"
          PROVE  /\ toKit'[i].s \in kitViews'
                 /\ \A k \in 1..i : ~(toKit'[k].t = "disconnect" /\ toKit'[k].s = toKit'[i].s)
      <4>1. i + 1 \in 1..Len(toKit) /\ toKit[i + 1] = toKit'[i] /\ 1 \in 1..(i + 1)
        BY <2>2
      <4>2. toKit'[i].s \in kitViews /\ \A k \in 1..(i + 1) : ~Drops(k, toKit'[i].s)
        BY <3>1, <4>1 DEF EditsHaveViews
      <4>3. \A k \in 1..i : k + 1 \in 1..(i + 1) /\ k \in 1..Len(toKit')
        BY <2>2
      <4>4. toKit'[i].s # s
        BY <2>4, <4>1, <4>2
      <4> QED
        BY <2>2, <2>4, <4>2, <4>3, <4>4 DEF Drops
    <3> QED
      BY <3>1 DEF EditsHaveViews, Drops
  <2> QED
    BY <2>7, <2>8, <2>9, <2>10
<1>4. CASE \/ KitSession \/ KitLoad \/ KitLoadFails \/ KitEdit \/ KitSaveSkips
           \/ KitSaves \/ KitSaveFails
  BY <1>2, <1>4 DEF KitSession, KitLoad, KitLoadFails, KitEdit, KitSaveSkips, KitSaves,
                    KitSaveFails, Receive
<1> QED
  BY <1>1, <1>3, <1>4 DEF KitStep, KitHandle

-----------------------------------------------------------------------------
(* The queue from the kit.                                                 *)

\* Where Append puts the message.
LEMMA AppendFacts ==
    ASSUME NEW S, NEW q \in Seq(S), NEW m \in S
    PROVE  /\ Append(q, m) \in Seq(S)
           /\ Len(Append(q, m)) = Len(q) + 1
           /\ Append(q, m)[Len(q) + 1] = m
           /\ \A i \in 1..Len(q) : Append(q, m)[i] = q[i]
  OBVIOUS

\* A status that overtakes other messages moves those behind it by one place.
LEMMA WithStatusFacts ==
    ASSUME TypeOK, NEW m \in FromKitMsg, NEW q \in WithStatus(m)
    PROVE  /\ q \in Seq(FromKitMsg)
           /\ \E i \in 0..Len(fromKit) :
                /\ Len(q) = Len(fromKit) + 1
                /\ q[i + 1] = m
                /\ \A k \in 1..i : q[k] = fromKit[k]
                /\ \A k \in (i + 1)..Len(fromKit) : q[k + 1] = fromKit[k]
<1>0. fromKit \in Seq(FromKitMsg) /\ Len(fromKit) \in Nat
  BY DEF TypeOK, ChannelTypeOK
<1>1. PICK i \in 0..Len(fromKit) :
        q = SubSeq(fromKit, 1, i) \o <<m>> \o SubSeq(fromKit, i + 1, Len(fromKit))
  BY DEF WithStatus
<1> DEFINE x == SubSeq(fromKit, 1, i)
           z == SubSeq(fromKit, i + 1, Len(fromKit))
<1>2. x \in Seq(FromKitMsg) /\ Len(x) = i /\ \A k \in 1..i : x[k] = fromKit[k]
  BY <1>0
<1>3. /\ z \in Seq(FromKitMsg) /\ Len(z) = Len(fromKit) - i
      /\ \A k \in 1..(Len(fromKit) - i) : z[k] = fromKit[i + k]
  BY <1>0
<1>4. q = x \o <<m>> \o z
  BY <1>1
<1> HIDE DEF x, z
<1> DEFINE y == x \o <<m>>
<1>5. y \in Seq(FromKitMsg) /\ Len(y) = i + 1 /\ y[i + 1] = m /\ \A k \in 1..i : y[k] = x[k]
  BY <1>2
<1>6. q = y \o z
  BY <1>4
<1> HIDE DEF y
<1>7. /\ q \in Seq(FromKitMsg) /\ Len(q) = Len(fromKit) + 1
      /\ \A k \in 1..(i + 1) : q[k] = y[k]
      /\ \A k \in 1..(Len(fromKit) - i) : q[i + 1 + k] = z[k]
  BY <1>0, <1>3, <1>5, <1>6
<1>8. ASSUME NEW k \in (i + 1)..Len(fromKit)
      PROVE  q[k + 1] = fromKit[k]
  <2>1. PICK j \in 1..(Len(fromKit) - i) : j = k - i
    BY <1>0
  <2>2. i + 1 + j = k + 1 /\ i + j = k
    BY <2>1
  <2>3. q[i + 1 + j] = z[j] /\ z[j] = fromKit[i + j]
    BY <1>3, <1>7
  <2> QED
    BY <2>2, <2>3
<1>9. /\ q[i + 1] = m
      /\ \A k \in 1..i : q[k] = fromKit[k]
  <2>1. i + 1 \in 1..(i + 1) /\ \A k \in 1..i : k \in 1..(i + 1)
    OBVIOUS
  <2> QED
    BY <1>2, <1>5, <1>7, <2>1
<1> QED
  BY <1>7, <1>8, <1>9

\* What taking the first answer does to the queue from the kit.
LEMMA AnswerFacts ==
    ASSUME TypeOK, fromKit # <<>>, fromKit' = Tail(fromKit)
    PROVE  /\ Len(fromKit) \in Nat /\ Len(fromKit) >= 1
           /\ Len(fromKit') = Len(fromKit) - 1
           /\ \A i \in 1..Len(fromKit') :
                i + 1 \in 1..Len(fromKit) /\ fromKit'[i] = fromKit[i + 1]
           /\ \A i \in 1..Len(fromKit) :
                i = 1 \/ (i - 1 \in 1..Len(fromKit') /\ fromKit'[i - 1] = fromKit[i])
           /\ Head(fromKit) = fromKit[1] /\ Head(fromKit) \in FromKitMsg
<1>0. fromKit \in Seq(FromKitMsg)
  BY DEF TypeOK, ChannelTypeOK
<1>1. /\ Len(fromKit) \in Nat /\ Len(fromKit) >= 1
      /\ Len(fromKit') = Len(fromKit) - 1
      /\ \A i \in 1..Len(fromKit') :
           i + 1 \in 1..Len(fromKit) /\ fromKit'[i] = fromKit[i + 1]
      /\ Head(fromKit) = fromKit[1] /\ Head(fromKit) \in FromKitMsg
  BY <1>0
<1>2. ASSUME NEW i \in 1..Len(fromKit), i # 1
      PROVE  i - 1 \in 1..Len(fromKit') /\ fromKit'[i - 1] = fromKit[i]
  <2>1. i - 1 \in 1..Len(fromKit') /\ (i - 1) + 1 = i
    BY <1>1, <1>2
  <2> QED
    BY <1>1, <2>1
<1> QED
  BY <1>1, <1>2

\* Message m was on its way to the broker before this step.
Old(m) == \E k \in 1..Len(fromKit) : fromKit[k] = m

\* What a save that succeeds tells the broker, and nothing else: its result,
\* and perhaps that the document is unmodified.
LEMMA SavesAnswers ==
    ASSUME TypeOK, KitSaves
    PROVE  /\ Head(toKit).s \in Sessions
           /\ \A i \in 1..Len(fromKit') :
                \/ Old(fromKit'[i])
                \/ fromKit'[i] = SaveResult(Head(toKit).s, TRUE)
                \/ fromKit'[i].t = "modified"
           /\ \E i \in 1..Len(fromKit') : fromKit'[i] = SaveResult(Head(toKit).s, TRUE)
           /\ \A k \in 1..Len(fromKit) : k \in 1..Len(fromKit') /\ fromKit'[k] = fromKit[k]
<1>0. fromKit \in Seq(FromKitMsg) /\ Len(fromKit) \in Nat /\ Head(toKit).s \in Sessions
  <2>1. Head(toKit) \in ToKitMsg
    BY DEF TypeOK, ChannelTypeOK, KitSaves, Receive
  <2> QED
    BY <2>1, ToKitFields DEF TypeOK, ChannelTypeOK
<1>r. PICK r \in FromKitMsg : r = SaveResult(Head(toKit).s, TRUE)
  BY <1>0, FromKitMessages
<1>k. kitViews \in SUBSET Sessions
  BY DEF TypeOK, KitTypeOK
<1>c. PICK c \in FromKitMsg : c = [t |-> "modified", to |-> kitViews, v |-> FALSE]
  BY <1>0, <1>k, FromKitMessages
<1>1. c.t = "modified"
  BY <1>c
<1>2. \/ fromKit' = fromKit \o <<r>> \o <<>>
      \/ fromKit' = fromKit \o <<>> \o <<r>>
      \/ fromKit' = fromKit \o <<r>> \o <<c>>
      \/ fromKit' = fromKit \o <<c>> \o <<r>>
  BY <1>r, <1>c DEF KitSaves
<1>3. \/ fromKit' = Append(fromKit, r)
      \/ fromKit' = Append(Append(fromKit, r), c)
      \/ fromKit' = Append(Append(fromKit, c), r)
  <2>1. \A q \in Seq(FromKitMsg), m \in FromKitMsg :
          q \o <<m>> = Append(q, m) /\ q \o <<>> = q /\ Append(q, m) \in Seq(FromKitMsg)
    OBVIOUS
  <2> QED
    BY <1>0, <1>2, <2>1
<1>4. ASSUME fromKit' = Append(fromKit, r)
      PROVE  /\ \A i \in 1..Len(fromKit') : Old(fromKit'[i]) \/ fromKit'[i] = r
             /\ \E i \in 1..Len(fromKit') : fromKit'[i] = r
             /\ \A k \in 1..Len(fromKit) : k \in 1..Len(fromKit') /\ fromKit'[k] = fromKit[k]
  <2>1. /\ Len(fromKit') = Len(fromKit) + 1 /\ fromKit'[Len(fromKit) + 1] = r
        /\ \A i \in 1..Len(fromKit) : fromKit'[i] = fromKit[i]
    BY <1>0, <1>4, AppendFacts
  <2>2. \A i \in 1..Len(fromKit') : i \in 1..Len(fromKit) \/ i = Len(fromKit) + 1
    BY <1>0, <2>1
  <2> QED
    BY <1>0, <2>1, <2>2 DEF Old
<1>5. ASSUME NEW x \in FromKitMsg, NEW y \in FromKitMsg,
             fromKit' = Append(Append(fromKit, x), y)
      PROVE  /\ \A i \in 1..Len(fromKit') :
                  Old(fromKit'[i]) \/ fromKit'[i] = x \/ fromKit'[i] = y
             /\ \E i \in 1..Len(fromKit') : fromKit'[i] = x
             /\ \E i \in 1..Len(fromKit') : fromKit'[i] = y
             /\ \A k \in 1..Len(fromKit) : k \in 1..Len(fromKit') /\ fromKit'[k] = fromKit[k]
  <2> DEFINE q == Append(fromKit, x)
  <2>1. /\ q \in Seq(FromKitMsg)
        /\ Len(q) = Len(fromKit) + 1 /\ q[Len(fromKit) + 1] = x
        /\ \A i \in 1..Len(fromKit) : q[i] = fromKit[i]
    BY <1>0, AppendFacts
  <2>2. fromKit' = Append(q, y)
    BY <1>5
  <2> HIDE DEF q
  <2>3. /\ Len(fromKit') = Len(q) + 1 /\ fromKit'[Len(q) + 1] = y
        /\ \A i \in 1..Len(q) : fromKit'[i] = q[i]
    BY <2>1, <2>2, AppendFacts
  <2>4. \A i \in 1..Len(fromKit') :
          \/ i \in 1..Len(fromKit) /\ i \in 1..Len(q)
          \/ i = Len(fromKit) + 1 /\ i \in 1..Len(q)
          \/ i = Len(q) + 1
    BY <1>0, <2>1, <2>3
  <2>5. Len(fromKit) + 1 \in 1..Len(q) /\ Len(fromKit) + 1 \in 1..Len(fromKit')
        /\ Len(q) + 1 \in 1..Len(fromKit')
    BY <1>0, <2>1, <2>3
  <2>6. \A k \in 1..Len(fromKit) : k \in 1..Len(q) /\ k \in 1..Len(fromKit')
    BY <1>0, <2>1, <2>3
  <2> QED
    BY <2>1, <2>3, <2>4, <2>5, <2>6 DEF Old
<1> QED
  <2>1. /\ \A i \in 1..Len(fromKit') :
             Old(fromKit'[i]) \/ fromKit'[i] = r \/ fromKit'[i] = c
        /\ \E i \in 1..Len(fromKit') : fromKit'[i] = r
        /\ \A k \in 1..Len(fromKit) : k \in 1..Len(fromKit') /\ fromKit'[k] = fromKit[k]
    BY <1>3, <1>4, <1>5
  <2> QED
    BY <1>0, <1>1, <1>r, <2>1
\* What a load that succeeds tells the broker: the status, which may overtake
\* others, and at the end the modified state.
LEMMA LoadAnswers ==
    ASSUME TypeOK, KitLoad
    PROVE  \E s \in Sessions, j \in 0..Len(fromKit) :
             /\ s = Head(toKit).s
             /\ Len(fromKit') = Len(fromKit) + 2
             /\ fromKit'[j + 1] = [t |-> "status", s |-> s]
             /\ \A k \in 1..j : fromKit'[k] = fromKit[k]
             /\ \A k \in (j + 1)..Len(fromKit) : fromKit'[k + 1] = fromKit[k]
             /\ fromKit'[Len(fromKit) + 2] = [t |-> "modified", to |-> {s}, v |-> kitModified']
<1>0. fromKit \in Seq(FromKitMsg) /\ Len(fromKit) \in Nat
  BY DEF TypeOK, ChannelTypeOK
<1>1. PICK s \in Sessions : s = Head(toKit).s
  <2>1. Head(toKit) \in ToKitMsg
    BY DEF TypeOK, ChannelTypeOK, KitLoad, Receive
  <2> QED
    BY <2>1, ToKitFields
<1>2. PICK m \in FromKitMsg : m = [t |-> "status", s |-> s]
  BY FromKitMessages
<1>3. PICK d \in FromKitMsg : d = [t |-> "modified", to |-> {s}, v |-> kitModified']
  <2>1. kitModified' \in BOOLEAN /\ {s} \in SUBSET Sessions
    BY DEF TypeOK, KitTypeOK, KitLoad
  <2> QED
    BY <2>1, FromKitMessages
<1>4. PICK q \in WithStatus(m) : fromKit' = Append(q, d)
  BY <1>1, <1>2, <1>3 DEF KitLoad
<1>5. q \in Seq(FromKitMsg)
  BY WithStatusFacts
<1>6. PICK j \in 0..Len(fromKit) :
        /\ Len(q) = Len(fromKit) + 1
        /\ q[j + 1] = m
        /\ \A k \in 1..j : q[k] = fromKit[k]
        /\ \A k \in (j + 1)..Len(fromKit) : q[k + 1] = fromKit[k]
  BY WithStatusFacts
<1>7. /\ Len(fromKit') = Len(q) + 1 /\ fromKit'[Len(q) + 1] = d
      /\ \A k \in 1..Len(q) : fromKit'[k] = q[k]
  BY <1>4, <1>5, AppendFacts
<1>8. Len(fromKit') = Len(fromKit) + 2 /\ fromKit'[Len(fromKit) + 2] = d
  <2>1. Len(q) + 1 = Len(fromKit) + 2
    BY <1>0, <1>6
  <2> QED
    BY <1>7, <2>1
<1>9. fromKit'[j + 1] = m
  <2>1. j + 1 \in 1..Len(q)
    BY <1>0, <1>6
  <2> QED
    BY <1>6, <1>7, <2>1
<1>10. \A k \in 1..j : fromKit'[k] = fromKit[k]
  <2>1. \A k \in 1..j : k \in 1..Len(q)
    BY <1>0, <1>6
  <2> QED
    BY <1>6, <1>7, <2>1
<1>11. \A k \in (j + 1)..Len(fromKit) : fromKit'[k + 1] = fromKit[k]
  <2>1. \A k \in (j + 1)..Len(fromKit) : k + 1 \in 1..Len(q)
    BY <1>0, <1>6
  <2> QED
    BY <1>6, <1>7, <2>1
<1> QED
  BY <1>1, <1>2, <1>3, <1>8, <1>9, <1>10, <1>11

\* The answers of a step of the kit: a status is only sent for a session whose
\* view the kit has just made.
LEMMA KitAnswers ==
    ASSUME TypeOK, KitStep, NEW i \in 1..Len(fromKit'), fromKit'[i].t = "status"
    PROVE  \/ Old(fromKit'[i])
           \/ fromKit'[i].s \in kitViews' /\ fromKit'[i].s \in kitSessions
<1>0. fromKit \in Seq(FromKitMsg) /\ Len(fromKit) \in Nat
  BY DEF TypeOK, ChannelTypeOK
<1>1. CASE UNCHANGED fromKit
  BY <1>1 DEF Old
<1>2. ASSUME NEW m \in FromKitMsg, m.t # "status", fromKit' = Append(fromKit, m)
      PROVE  Old(fromKit'[i])
  <2>1. /\ Len(fromKit') = Len(fromKit) + 1
        /\ fromKit'[Len(fromKit) + 1] = m
        /\ \A k \in 1..Len(fromKit) : fromKit'[k] = fromKit[k]
    BY <1>0, <1>2, AppendFacts
  <2>2. i \in 1..Len(fromKit)
    BY <1>0, <1>2, <2>1
  <2> QED
    BY <2>1, <2>2 DEF Old
<1>3. CASE KitLoad
  <2>1. PICK s \in Sessions, j \in 0..Len(fromKit) :
          /\ s = Head(toKit).s
          /\ Len(fromKit') = Len(fromKit) + 2
          /\ fromKit'[j + 1] = [t |-> "status", s |-> s]
          /\ \A k \in 1..j : fromKit'[k] = fromKit[k]
          /\ \A k \in (j + 1)..Len(fromKit) : fromKit'[k + 1] = fromKit[k]
          /\ fromKit'[Len(fromKit) + 2] = [t |-> "modified", to |-> {s}, v |-> kitModified']
    BY <1>3, LoadAnswers
  <2>2. i # Len(fromKit) + 2
    BY <2>1
  <2>3. CASE i = j + 1
    BY <1>3, <2>1, <2>3 DEF KitLoad
  <2>4. CASE i \in 1..j
    BY <1>0, <2>1, <2>4 DEF Old
  <2>5. CASE i - 1 \in (j + 1)..Len(fromKit)
    <3>1. (i - 1) + 1 = i /\ i - 1 \in 1..Len(fromKit)
      BY <1>0, <2>5
    <3> QED
      BY <2>1, <2>5, <3>1 DEF Old
  <2>6. i = j + 1 \/ i \in 1..j \/ i - 1 \in (j + 1)..Len(fromKit)
    BY <1>0, <2>1, <2>2
  <2> QED
    BY <2>3, <2>4, <2>5, <2>6
<1>h. ASSUME toKit # <<>>
      PROVE  Head(toKit).s \in Sessions
  <2>1. Head(toKit) \in ToKitMsg
    BY <1>h DEF TypeOK, ChannelTypeOK
  <2> QED
    BY <2>1, ToKitFields
<1>4. CASE KitEdit
  <2>1. toKit # <<>> /\ kitViews \in SUBSET Sessions
    BY <1>4 DEF KitEdit, Receive, TypeOK, KitTypeOK
  <2>2. PICK m \in FromKitMsg : m = [t |-> "modified", to |-> kitViews, v |-> TRUE]
    BY <1>h, <2>1, FromKitMessages
  <2>3. fromKit' = fromKit \/ fromKit' = Append(fromKit, m)
    BY <1>4, <2>2 DEF KitEdit
  <2> QED
    BY <1>1, <1>2, <2>2, <2>3
<1>5. CASE KitSaveSkips \/ KitSaveFails
  <2>1. toKit # <<>>
    BY <1>5 DEF KitSaveSkips, KitSaveFails, Receive
  <2>2. PICK m \in FromKitMsg : m = SaveResult(Head(toKit).s, FALSE)
    BY <1>h, <2>1, FromKitMessages
  <2>3. fromKit' = fromKit \/ fromKit' = Append(fromKit, m)
    BY <1>5, <2>2 DEF KitSaveSkips, KitSaveFails
  <2> QED
    BY <1>1, <1>2, <2>2, <2>3 DEF SaveResult
<1>6. CASE KitSaves
  BY <1>6, SavesAnswers DEF SaveResult
<1> QED
  BY <1>1, <1>3, <1>4, <1>5, <1>6
     DEF KitStep, KitHandle, KitSession, KitLoadFails, KitDisconnect, KitPurge, KitCrash,
         kitVars
\* A step of the kit keeps what is said of views: it unloads only the view of a
\* session that the broker has dropped.
LEMMA KitStepOrder == TypeOK /\ OrderInv /\ KitStep => OrderInv'
<1> SUFFICES ASSUME TypeOK, OrderInv, KitStep
             PROVE  OrderInv'
  OBVIOUS
<1> USE DEF OrderInv, ViewInv
<1>0. /\ UNCHANGED <<sessions, joined, viewLoaded, owed, phase, isLoaded>>
      /\ kitAlive' => kitAlive
  BY DEF KitStep, brokerVars, flagVars, sessionVars, historyVars, KitHandle, KitSession,
         KitLoad, KitLoadFails, KitEdit, KitSaveSkips, KitSaves, KitSaveFails,
         KitDisconnect, KitPurge, KitCrash, Receive
<1>1. sessions \cap kitViews \subseteq kitViews' /\ kitSessions' \subseteq joined
  <2>1. CASE KitSession
    <3>1. toKit # <<>> /\ toKit' = Tail(toKit) /\ Head(toKit).t = "session"
      BY <2>1 DEF KitSession, Receive
    <3>2. Head(toKit) = toKit[1] /\ 1 \in 1..Len(toKit)
      BY <3>1, TailFacts
    <3>3. Head(toKit).s \in joined
      BY <3>1, <3>2 DEF QueueInv, ToldKnown
    <3> QED
      BY <2>1, <3>3 DEF KitSession, SessionsKnown
  <2>2. CASE KitDisconnect
    <3>1. toKit # <<>> /\ toKit' = Tail(toKit) /\ Head(toKit).t = "disconnect" /\ kitAlive
      BY <2>2 DEF KitDisconnect, Receive
    <3>2. /\ Head(toKit) = toKit[1] /\ 1 \in 1..Len(toKit)
          /\ Head(toKit) \in ToKitMsg /\ Head(toKit).s \in Sessions
      BY <3>1, TailFacts, ToKitFields
    <3>3. PICK s \in Sessions : s = Head(toKit).s
      BY <3>2
    <3>4. ToldToDrop(s)
      BY <3>1, <3>2, <3>3 DEF ToldToDrop, Drops
    <3>5. s \notin sessions
      BY <3>1, <3>4 DEF QueueInv, Follows
    <3> QED
      BY <2>2, <3>3, <3>5 DEF KitDisconnect, SessionsKnown
  <2>3. CASE ~KitSession /\ ~KitDisconnect
    BY <2>3 DEF KitStep, KitHandle, KitLoad, KitLoadFails, KitEdit, KitSaveSkips, KitSaves,
                KitSaveFails, KitPurge, KitCrash, kitVars, SessionsKnown
  <2> QED
    BY <2>1, <2>2, <2>3
<1>2. QueueInv'
  BY QueueTaken
<1>3. SessionsKnown' /\ LoadedHaveViews'
  BY <1>0, <1>1 DEF SessionsKnown, LoadedHaveViews
<1>4. StatusesAreTrue'
  <2>1. ASSUME NEW i \in 1..Len(fromKit'), fromKit'[i].t = "status"
        PROVE  /\ fromKit'[i].s \in joined
               /\ fromKit'[i].s \in sessions => fromKit'[i].s \in kitViews'
    <3>1. CASE Old(fromKit'[i])
      BY <1>1, <2>1, <3>1 DEF Old, StatusesAreTrue
    <3>2. CASE fromKit'[i].s \in kitViews' /\ fromKit'[i].s \in kitSessions
      BY <3>2 DEF SessionsKnown
    <3> QED
      BY <2>1, <3>1, <3>2, KitAnswers
  <2> QED
    BY <1>0, <2>1 DEF StatusesAreTrue
<1>5. LoadedFirst'
  BY <1>0 DEF LoadedFirst
<1> QED
  BY <1>2, <1>3, <1>4, <1>5

-----------------------------------------------------------------------------
(* The broker's steps.                                                     *)

\* The queue stays as it is, or is lost with the kit.
LEMMA QueueKept ==
    ASSUME TypeOK, QueueInv, toKit' = toKit \/ (toKit' = <<>> /\ ~kitAlive'),
           sessions' = sessions \/ ~kitAlive', ~kitAlive' \/ kitAlive,
           kitSessions' = kitSessions, kitViews' = kitViews, joined \subseteq joined'
    PROVE  QueueInv'
<1>1. Follows'
  BY DEF QueueInv, Follows, ToldOf, ToldToDrop, Drops
<1>2. CASE toKit' = toKit
  BY <1>1, <1>2 DEF QueueInv, ToldKnown, ToldInOrder, EditsHaveViews, Drops
<1>3. CASE toKit' = <<>>
  BY <1>1, <1>3 DEF QueueInv, ToldKnown, ToldInOrder, EditsHaveViews, Drops
<1> QED
  BY <1>2, <1>3

\* sendUnoSave keeps the order.
LEMMA QueueSaved ==
    ASSUME TypeOK, QueueInv, NEW force, NEW skip \in BOOLEAN, AutoSaveSends(force, skip),
           UNCHANGED <<sessions, joined, kitSessions, kitViews, kitAlive>>
    PROVE  QueueInv'
<1>1. PICK s \in Sessions : toKit' = Sent([t |-> "save", s |-> s, skip |-> skip])
  BY DEF AutoSaveSends, SendUnoSave, TypeOK, BrokerTypeOK
<1>2. PICK m \in ToKitMsg : m = [t |-> "save", s |-> s, skip |-> skip]
  BY ToKitMessages
<1> QED
  BY <1>1, <1>2, QueueSent

\* removeSession keeps the order: it asks for a save, or lets the session go.
LEMMA QueueRemoves ==
    ASSUME TypeOK, QueueInv, SessionsKnown, NEW s \in Sessions, NEW act, NEW why,
           RemoveSession(s, act, why),
           UNCHANGED <<joined, kitSessions, kitViews, kitAlive>>
    PROVE  QueueInv'
<1>1. CASE s \notin sessions
  <2>1. /\ toKit' = toKit /\ sessions' = sessions /\ joined \subseteq joined'
        /\ ~kitAlive' \/ kitAlive
    BY <1>1 DEF RemoveSession
  <2> QED
    BY <2>1, QueueKept
<1>2. CASE s \in sessions
  <2>1. \/ RemoveSessionInternal(s)
        \/ UNCHANGED sessions /\ AutoSaveSends(PossiblyModified(act), ~AlwaysSaveOnExit)
    BY <1>2 DEF RemoveSession
  <2>2. CASE RemoveSessionInternal(s)
    BY <2>2, QueueDropped
  <2>3. CASE UNCHANGED sessions /\ AutoSaveSends(PossiblyModified(act), ~AlwaysSaveOnExit)
    BY <2>3, QueueSaved, AlwaysSaveAssumption
  <2> QED
    BY <2>1, <2>2, <2>3
<1> QED
  BY <1>1, <1>2

\* saveToStorage keeps the order.
LEMMA QueueStores ==
    ASSUME TypeOK, QueueInv, SessionsKnown, NEW s \in Sessions, NEW success, NEW force,
           NEW why, SaveToStorage(s, success, force, why),
           UNCHANGED <<joined, kitSessions, kitViews, kitAlive>>
    PROVE  QueueInv'
<1>1. RemoveSessionInternal(s) \/ UNCHANGED <<sessions, toKit>>
  BY DEF SaveToStorage
<1>2. CASE RemoveSessionInternal(s)
  BY <1>2, QueueDropped
<1>3. CASE UNCHANGED <<sessions, toKit>>
  <2>1. /\ toKit' = toKit /\ sessions' = sessions /\ joined \subseteq joined'
        /\ ~kitAlive' \/ kitAlive
    BY <1>3
  <2> QED
    BY <2>1, QueueKept
<1> QED
  BY <1>1, <1>2, <1>3
\* A step of the broker keeps the order of the queue.
LEMMA BrokerStepQueue ==
    ASSUME TypeOK, QueueInv, SessionsKnown, LoadedHaveViews, BrokerStep
    PROVE  QueueInv'
<1>0. /\ UNCHANGED <<kitSessions, kitViews>> /\ sessions \in SUBSET Sessions
  BY DEF BrokerStep, kitVars, TypeOK, BrokerTypeOK
<1>k. ASSUME toKit' = toKit, sessions' = sessions, joined' = joined, ~kitAlive' \/ kitAlive
      PROVE  QueueInv'
  <2>1. joined \subseteq joined'
    BY <1>k
  <2> QED
    BY <1>0, <1>k, <2>1, QueueKept
<1>1. ASSUME NEW s \in Sessions, Join(s)
      PROVE  QueueInv'
  <2>1. \/ /\ sessions' = sessions \cup {s}
           /\ toKit' = Sent([t |-> "session", s |-> s])
        \/ UNCHANGED <<sessions, toKit>>
    BY <1>1 DEF Join
  <2>2. s \notin joined /\ joined' = joined \cup {s} /\ kitAlive' = kitAlive
    BY <1>1 DEF Join
  <2>3. PICK m \in ToKitMsg : m = [t |-> "session", s |-> s]
    BY ToKitMessages
  <2>4. m.t = "session" /\ m.s = s
    BY <2>3
  <2>5. CASE sessions' = sessions \cup {s} /\ toKit' = Sent(m)
    BY <1>0, <2>2, <2>4, <2>5, QueueJoined
  <2>6. CASE UNCHANGED <<sessions, toKit>>
    <3>1. joined \subseteq joined' /\ (~kitAlive' \/ kitAlive)
      BY <2>2
    <3> QED
      BY <1>0, <2>6, <3>1, QueueKept
  <2> QED
    BY <2>1, <2>3, <2>5, <2>6
<1>2. ASSUME NEW s \in Sessions, Disconnect(s)
      PROVE  QueueInv'
  BY <1>0, <1>2, QueueRemoves DEF Disconnect
<1>3. ASSUME NEW s \in Sessions, ClientLoad(s)
      PROVE  QueueInv'
  <2>1. PICK m \in ToKitMsg : m = [t |-> "load", s |-> s]
    BY ToKitMessages
  <2>2. toKit' = Sent(m) /\ m.t \in {"load", "save"} /\ joined \subseteq joined'
    BY <1>3, <2>1 DEF ClientLoad
  <2> QED
    BY <1>0, <1>3, <2>2, QueueSent DEF ClientLoad
<1>4. ASSUME NEW s \in Sessions, NEW e \in Edits, ClientEdit(s, e)
      PROVE  QueueInv'
  <2>1. PICK m \in ToKitMsg : m = [t |-> "edit", s |-> s, e |-> e]
    BY ToKitMessages
  <2>2. /\ toKit' = Sent(m) /\ m.t = "edit" /\ m.s \in sessions \cap viewLoaded
        /\ UNCHANGED <<sessions, joined, kitAlive>>
    BY <1>4, <2>1 DEF ClientEdit, Live, EditableView, sessionVars
  <2> QED
    BY <1>0, <2>2, QueueEdited
<1>5. ASSUME NEW s \in Sessions, ClientSave(s)
      PROVE  QueueInv'
  <2>1. PICK skip \in BOOLEAN : SendUnoSave(s, skip)
    BY <1>5 DEF ClientSave
  <2>2. PICK m \in ToKitMsg : m = [t |-> "save", s |-> s, skip |-> skip]
    BY ToKitMessages
  <2>3. toKit' = Sent(m) /\ m.t \in {"load", "save"} /\ joined \subseteq joined'
    BY <1>5, <2>1, <2>2 DEF ClientSave, SendUnoSave, sessionVars
  <2> QED
    BY <1>0, <1>5, <2>3, QueueSent DEF ClientSave, sessionVars
<1>6. ASSUME NEW s \in Sessions, ClientSaveToStorage(s)
      PROVE  QueueInv'
  BY <1>0, <1>6, QueueStores DEF ClientSaveToStorage
<1>7. ASSUME NEW s \in Sessions, NEW r \in Sessions, ClientRemovesSession(s, r)
      PROVE  QueueInv'
  BY <1>0, <1>7, QueueRemoves DEF ClientRemovesSession
<1>8. ASSUME NEW s \in Sessions,
             \/ ClientActivity(s) \/ SaveAsToStorage(s) \/ ClientSetModified(s)
             \/ ClientClosesDocument(s) \/ ClientDiscards(s)
      PROVE  QueueInv'
  <2>1. UNCHANGED <<toKit, sessions, joined, kitAlive>>
    BY <1>8 DEF ClientActivity, SaveAsToStorage, ClientSetModified, ClientClosesDocument,
                ClientDiscards, sessionVars, channelVars
  <2> QED
    BY <2>1, <1>k
<1>9. ASSUME HandleStatus \/ HandleSaveResult
      PROVE  QueueInv'
  <2>1. UNCHANGED <<joined, kitAlive>>
    BY <1>9 DEF HandleStatus, HandleSaveResult
  <2>2. CASE UNCHANGED storageVars
    BY <2>1, <2>2, <1>k DEF storageVars
  <2>3. CASE ~UNCHANGED storageVars
    <3>1. PICK s \in Sessions : \E success, force, why : SaveToStorage(s, success, force, why)
      BY <1>0, <1>9, <2>3 DEF HandleStatus, HandleSaveResult
    <3> QED
      BY <1>0, <2>1, <3>1, QueueStores
  <2> QED
    BY <2>2, <2>3
<1>10. CASE HandleModifiedStatus
  BY <1>10, <1>k DEF HandleModifiedStatus, sessionVars
<1>11. CASE KitDisconnected
  <2>1. toKit' = <<>> /\ ~kitAlive' /\ joined \subseteq joined'
    BY <1>11 DEF KitDisconnected, sessionVars
  <2> QED
    BY <1>0, <2>1, QueueKept
<1>12. CASE Finish
  <2>1. toKit' = <<>> /\ ~kitAlive' /\ joined \subseteq joined'
    BY <1>12 DEF Finish
  <2> QED
    BY <1>0, <2>1, QueueKept
<1>13. CASE GetChild \/ FailToGetChild \/ RequestShutdown \/ Terminate
  BY <1>13, <1>k DEF GetChild, FailToGetChild, RequestShutdown, Terminate, sessionVars,
                     channelVars
<1>14. CASE LoadTimedOut \/ WaitForSave \/ NothingToSave \/ CloseDead \/ Linger
  BY <1>14, <1>k DEF LoadTimedOut, WaitForSave, NothingToSave, CloseDead, Linger,
                     bodyRest, savingVars, sessionVars
<1>15. CASE SaveAndClose \/ TimedAutoSave \/ CloseIdle
  <2>1. UNCHANGED <<sessions, joined, kitAlive>>
    BY <1>15 DEF SaveAndClose, TimedAutoSave, CloseIdle, bodyRest, sessionVars
  <2>2. \/ UNCHANGED savingVars
        \/ \E force : AutoSaveSends(force, TRUE)
    BY <1>15 DEF SaveAndClose, TimedAutoSave, CloseIdle
  <2>3. CASE UNCHANGED savingVars
    BY <2>1, <2>3, <1>k DEF savingVars
  <2>4. CASE \E force : AutoSaveSends(force, TRUE)
    BY <1>0, <2>1, <2>4, QueueSaved
  <2> QED
    BY <2>2, <2>3, <2>4
<1> QED
  BY <1>1, <1>2, <1>3, <1>4, <1>5, <1>6, <1>7, <1>8, <1>9, <1>10, <1>11, <1>12, <1>13,
     <1>14, <1>15 DEF BrokerStep, BrokerNext, ClientCommand, HandleKit, BrokerBody
\* Who is known to the broker after a step: nobody but those it knew before and
\* one whose view's status it has just handled, or who has just joined.
LEMMA BrokerStepViews ==
    ASSUME TypeOK, ViewInv, BrokerStep
    PROVE  ViewInv'
<1> USE DEF ViewInv
<1>0. /\ UNCHANGED <<kitSessions, kitViews>> /\ sessions \in SUBSET Sessions
  BY DEF BrokerStep, kitVars, TypeOK, BrokerTypeOK
<1>1. ASSUME joined \subseteq joined', sessions' \subseteq sessions \cup (joined' \ joined),
             sessions' \subseteq joined',
             viewLoaded' \subseteq viewLoaded \cup (kitViews \cap joined),
             fromKit' = fromKit \/ fromKit' = <<>> \/ (fromKit # <<>> /\ fromKit' = Tail(fromKit))
      PROVE  ViewInv'
  <2>1. SessionsKnown'
    BY <1>0, <1>1 DEF SessionsKnown
  <2>2. LoadedHaveViews'
    BY <1>0, <1>1 DEF LoadedHaveViews, SessionsKnown
  <2>3. \A i \in 1..Len(fromKit') : Old(fromKit'[i])
    <3>1. CASE fromKit' = fromKit \/ fromKit' = <<>>
      BY <3>1 DEF Old
    <3>2. CASE fromKit # <<>> /\ fromKit' = Tail(fromKit)
      BY <3>2, AnswerFacts DEF Old
    <3> QED
      BY <1>1, <3>1, <3>2
  <2>4. StatusesAreTrue'
    <3>1. ASSUME NEW i \in 1..Len(fromKit'), fromKit'[i].t = "status"
          PROVE  /\ fromKit'[i].s \in joined'
                 /\ fromKit'[i].s \in sessions' => fromKit'[i].s \in kitViews'
      <4>1. PICK k \in 1..Len(fromKit) : fromKit[k] = fromKit'[i]
        BY <2>3 DEF Old
      <4>2. /\ fromKit[k].s \in joined
            /\ fromKit[k].s \in sessions => fromKit[k].s \in kitViews
        BY <3>1, <4>1 DEF StatusesAreTrue
      <4> QED
        BY <1>0, <1>1, <4>1, <4>2
    <3> QED
      BY <3>1 DEF StatusesAreTrue
  <2> QED
    BY <2>1, <2>2, <2>4
<1>k. ASSUME UNCHANGED <<joined, viewLoaded>>, sessions' \subseteq sessions,
             fromKit' = fromKit \/ fromKit' = <<>> \/ (fromKit # <<>> /\ fromKit' = Tail(fromKit))
      PROVE  ViewInv'
  <2>1. /\ joined \subseteq joined' /\ sessions' \subseteq sessions \cup (joined' \ joined)
        /\ viewLoaded' \subseteq viewLoaded \cup (kitViews \cap joined)
        /\ sessions' \subseteq joined'
    BY <1>k DEF SessionsKnown
  <2> QED
    BY <1>1, <1>k, <2>1
<1>s. ASSUME NEW s, NEW success, NEW force, NEW why, SaveToStorage(s, success, force, why)
      PROVE  sessions' \subseteq sessions
  BY <1>s DEF SaveToStorage, RemoveSessionInternal
<1>r. ASSUME NEW s, NEW act, NEW why, RemoveSession(s, act, why)
      PROVE  sessions' \subseteq sessions
  BY <1>r DEF RemoveSession, RemoveSessionInternal
<1>2. ASSUME NEW s \in Sessions, Join(s)
      PROVE  ViewInv'
  <2>1. /\ joined' = joined \cup {s} /\ s \notin joined
        /\ sessions' = sessions \cup {s} \/ sessions' = sessions
        /\ UNCHANGED <<viewLoaded, fromKit>>
    BY <1>2 DEF Join
  <2>2. /\ joined \subseteq joined' /\ sessions' \subseteq sessions \cup (joined' \ joined)
        /\ viewLoaded' \subseteq viewLoaded \cup (kitViews \cap joined)
        /\ sessions' \subseteq joined'
    BY <2>1 DEF SessionsKnown
  <2> QED
    BY <1>1, <2>1, <2>2
<1>3. ASSUME NEW s \in Sessions, Disconnect(s) \/ \E r \in Sessions : ClientRemovesSession(s, r)
      PROVE  ViewInv'
  <2>1. UNCHANGED <<joined, viewLoaded, fromKit>>
    BY <1>3 DEF Disconnect, ClientRemovesSession
  <2>2. sessions' \subseteq sessions
    BY <1>3, <1>r DEF Disconnect, ClientRemovesSession
  <2> QED
    BY <1>k, <2>1, <2>2
<1>4. ASSUME NEW s \in Sessions, ClientSaveToStorage(s)
      PROVE  ViewInv'
  <2>1. UNCHANGED <<joined, viewLoaded, fromKit>>
    BY <1>4 DEF ClientSaveToStorage
  <2>2. sessions' \subseteq sessions
    BY <1>4, <1>s DEF ClientSaveToStorage
  <2> QED
    BY <1>k, <2>1, <2>2
<1>5. ASSUME NEW s \in Sessions,
             \/ ClientLoad(s) \/ ClientSave(s) \/ ClientActivity(s) \/ SaveAsToStorage(s)
             \/ ClientSetModified(s) \/ ClientClosesDocument(s) \/ ClientDiscards(s)
             \/ \E e \in Edits : ClientEdit(s, e)
      PROVE  ViewInv'
  <2>1. UNCHANGED <<joined, viewLoaded, sessions, fromKit>>
    BY <1>5 DEF ClientLoad, ClientSave, ClientActivity, SaveAsToStorage, ClientSetModified,
                ClientClosesDocument, ClientDiscards, ClientEdit, sessionVars, channelVars
  <2> QED
    BY <1>k, <2>1
<1>6. CASE HandleStatus
  <2>1. fromKit # <<>> /\ fromKit' = Tail(fromKit) /\ Head(fromKit).t = "status"
    BY <1>6 DEF HandleStatus, ReceiveFromKit
  <2>2. Head(fromKit) = fromKit[1] /\ 1 \in 1..Len(fromKit)
    BY <2>1, AnswerFacts
  <2>3. joined' = joined /\ sessions' \subseteq sessions
    <3>1. \/ UNCHANGED sessions
          \/ \E s, success, force, why : SaveToStorage(s, success, force, why)
      BY <1>6 DEF HandleStatus, storageVars
    <3> QED
      BY <1>6, <1>s, <3>1 DEF HandleStatus
  <2>4. viewLoaded' \subseteq viewLoaded \cup (kitViews \cap joined)
    <3>1. \/ viewLoaded' = viewLoaded
          \/ fromKit[1].s \in sessions /\ viewLoaded' = viewLoaded \cup {fromKit[1].s}
      BY <1>6, <2>2 DEF HandleStatus
    <3>2. fromKit[1].s \in sessions => fromKit[1].s \in kitViews \cap joined
      BY <2>1, <2>2 DEF StatusesAreTrue
    <3> QED
      BY <3>1, <3>2
  <2>5. /\ joined \subseteq joined' /\ sessions' \subseteq sessions \cup (joined' \ joined)
        /\ sessions' \subseteq joined'
    BY <2>3 DEF SessionsKnown
  <2> QED
    BY <1>1, <2>1, <2>4, <2>5
<1>7. CASE HandleSaveResult
  <2>1. /\ UNCHANGED <<joined, viewLoaded>>
        /\ fromKit # <<>> /\ fromKit' = Tail(fromKit)
    BY <1>7 DEF HandleSaveResult, ReceiveFromKit
  <2>2. sessions' \subseteq sessions
    <3>1. \/ UNCHANGED sessions
          \/ \E s, success, force, why : SaveToStorage(s, success, force, why)
      BY <1>7 DEF HandleSaveResult, storageVars
    <3> QED
      BY <1>s, <3>1
  <2> QED
    BY <1>k, <2>1, <2>2
<1>8. CASE HandleModifiedStatus \/ KitDisconnected
  <2>1. /\ UNCHANGED <<joined, viewLoaded, sessions>>
        /\ fromKit' = <<>> \/ (fromKit # <<>> /\ fromKit' = Tail(fromKit))
    BY <1>8 DEF HandleModifiedStatus, KitDisconnected, ReceiveFromKit, sessionVars
  <2> QED
    BY <1>k, <2>1
<1>9. CASE Finish
  <2>1. UNCHANGED <<joined, viewLoaded>> /\ sessions' \subseteq sessions /\ fromKit' = <<>>
    BY <1>9 DEF Finish
  <2> QED
    BY <1>k, <2>1
<1>10. CASE \/ GetChild \/ FailToGetChild \/ RequestShutdown \/ Terminate \/ BrokerBody
  <2>1. UNCHANGED <<joined, viewLoaded, sessions, fromKit>>
    BY <1>10 DEF GetChild, FailToGetChild, RequestShutdown, Terminate, BrokerBody,
                 LoadTimedOut, WaitForSave, SaveAndClose, TimedAutoSave, NothingToSave,
                 CloseIdle, CloseDead, Linger, bodyRest, sessionVars, channelVars
  <2> QED
    BY <1>k, <2>1
<1> QED
  BY <1>2, <1>3, <1>4, <1>5, <1>6, <1>7, <1>8, <1>9, <1>10
     DEF BrokerStep, BrokerNext, ClientCommand, HandleKit

\* The broker hears of a view before it handles an edit, and ends the kit's
\* process before it is finished itself.
LEMMA BrokerStepLoadedFirst ==
    ASSUME TypeOK, LoadedFirst, BrokerStep
    PROVE  LoadedFirst'
<1> USE DEF LoadedFirst
<1>1. ASSUME UNCHANGED <<owed, viewLoaded, isLoaded>>, ~kitAlive' \/ kitAlive,
             phase' \in {"poll", "tail", "flush", phase}
      PROVE  LoadedFirst'
  BY <1>1
<1>2. ASSUME NEW s \in Sessions, NEW e \in Edits, ClientEdit(s, e)
      PROVE  LoadedFirst'
  BY <1>2 DEF ClientEdit, Live, EditableView, Polling, sessionVars
<1>3. CASE HandleStatus
  BY <1>3 DEF HandleStatus, ReceiveFromKit, Polling, historyVars
<1>4. CASE Finish \/ FailToGetChild
  BY <1>4 DEF Finish, FailToGetChild, historyVars, sessionVars
<1>5. ASSUME NEW s \in Sessions,
             \/ Join(s) \/ Disconnect(s) \/ ClientActivity(s) \/ ClientLoad(s)
             \/ ClientSave(s) \/ ClientSaveToStorage(s) \/ SaveAsToStorage(s)
             \/ ClientSetModified(s) \/ ClientClosesDocument(s) \/ ClientDiscards(s)
             \/ \E r \in Sessions : ClientRemovesSession(s, r)
      PROVE  LoadedFirst'
  <2>1. UNCHANGED <<owed, viewLoaded, isLoaded, kitAlive, phase>>
    BY <1>5 DEF Join, Disconnect, ClientActivity, ClientLoad, ClientSave, ClientSaveToStorage,
                SaveAsToStorage, ClientSetModified, ClientClosesDocument, ClientDiscards,
                ClientRemovesSession, sessionVars, channelVars, historyVars
  <2> QED
    BY <1>1, <2>1
<1>6. CASE \/ HandleModifiedStatus \/ HandleSaveResult \/ KitDisconnected
           \/ RequestShutdown \/ GetChild \/ Terminate \/ BrokerBody
  <2>1. UNCHANGED <<owed, viewLoaded, isLoaded>>
    BY <1>6 DEF HandleModifiedStatus, HandleSaveResult, KitDisconnected, RequestShutdown,
                GetChild, Terminate, BrokerBody, LoadTimedOut, WaitForSave, SaveAndClose,
                TimedAutoSave, NothingToSave, CloseIdle, CloseDead, Linger, bodyRest,
                flagVars, sessionVars, historyVars
  <2>3. kitAlive' = kitAlive \/ kitAlive' = FALSE
    BY <1>6 DEF HandleModifiedStatus, HandleSaveResult, KitDisconnected, RequestShutdown,
                GetChild, Terminate, BrokerBody, LoadTimedOut, WaitForSave, SaveAndClose,
                TimedAutoSave, NothingToSave, CloseIdle, CloseDead, Linger, channelVars
  <2>2. phase' \in {"poll", "tail", "flush", phase}
    BY <1>6 DEF HandleModifiedStatus, HandleSaveResult, KitDisconnected, RequestShutdown,
                GetChild, Terminate, BrokerBody, LoadTimedOut, WaitForSave, SaveAndClose,
                TimedAutoSave, NothingToSave, CloseIdle, CloseDead, Linger, LeaveTail
  <2> QED
    BY <1>1, <2>1, <2>2, <2>3
<1> QED
  BY <1>2, <1>3, <1>4, <1>5, <1>6 DEF BrokerStep, BrokerNext, ClientCommand, HandleKit

-----------------------------------------------------------------------------
(* The theorem.                                                            *)

\* The order of the queues holds in every state.
LEMMA OrderInvHolds == Spec => []OrderInv
<1>1. Init => OrderInv
  BY DEF Init, BrokerInit, KitInit, ChannelInit, OrderInv, QueueInv, ViewInv, Follows,
         ToldKnown, ToldInOrder, EditsHaveViews, SessionsKnown, LoadedHaveViews,
         StatusesAreTrue, LoadedFirst, ToldOf, ToldToDrop
<1>2. TypeOK /\ OrderInv /\ [Next]_vars => OrderInv'
  <2> SUFFICES ASSUME TypeOK, OrderInv, [Next]_vars
               PROVE  OrderInv'
    OBVIOUS
  <2>1. CASE BrokerStep
    BY <2>1, BrokerStepQueue, BrokerStepViews, BrokerStepLoadedFirst DEF OrderInv, ViewInv
  <2>2. CASE KitStep
    BY <2>2, KitStepOrder
  <2>3. CASE UNCHANGED vars
    BY <2>3 DEF vars, brokerVars, kitVars, channelVars, flagVars, sessionVars, historyVars,
                OrderInv, QueueInv, ViewInv, Follows, ToldKnown, ToldInOrder, EditsHaveViews,
                SessionsKnown, LoadedHaveViews, StatusesAreTrue, LoadedFirst, ToldOf,
                ToldToDrop, Drops
  <2> QED
    BY <2>1, <2>2, <2>3 DEF Next, Finished
<1> QED
  BY <1>1, <1>2, TypeCorrect, PTL DEF Spec

\* A message is in the queue if one with its fields is.
LEMMA SessionMessages ==
    ASSUME TypeOK, NEW s \in Sessions
    PROVE  /\ InToKit([t |-> "session", s |-> s]) <=> ToldOf(s)
           /\ InToKit([t |-> "disconnect", s |-> s]) <=> ToldToDrop(s)
<1>1. \A i \in 1..Len(toKit) : toKit[i] \in ToKitMsg
  BY DEF TypeOK, ChannelTypeOK
<1>2. \A m \in ToKitMsg : m.t \in {"session", "disconnect"} => m = [t |-> m.t, s |-> m.s]
  BY DEF ToKitMsg, SessionMsg, EditMsg, SaveMsg
<1>3. InToKit([t |-> "session", s |-> s]) <=> ToldOf(s)
  BY <1>1, <1>2 DEF InToKit, ToldOf
<1>4. InToKit([t |-> "disconnect", s |-> s]) <=> ToldToDrop(s)
  BY <1>1, <1>2 DEF InToKit, ToldToDrop, Drops
<1> QED
  BY <1>3, <1>4

\* The kit's sessions follow the broker's, in every order of clients that join
\* and leave, saves that keep a session, and messages still on their way.
THEOREM KitFollows == Spec => []KitFollowsBroker
<1>1. TypeOK /\ OrderInv => KitFollowsBroker
  BY SessionMessages DEF OrderInv, QueueInv, Follows, KitFollowsBroker
<1> QED
  BY <1>1, TypeCorrect, OrderInvHolds, PTL

-----------------------------------------------------------------------------
(* Edits on their way to the storage, while no fault or race happens.      *)

\* Edit e is behind the i-th message to the kit.
Behind(e, i) == \E k \in 1..Len(toKit) : k > i /\ toKit[k].t = "edit" /\ toKit[k].e = e

\* The i-th message to the kit is a save that includes e.
SaveOf(e, i) == toKit[i].t = "save" /\ ~Behind(e, i)

\* A save has written the file, and the broker has not yet heard.
Written == \E i \in 1..Len(fromKit) : fromKit[i].t = "saved" /\ fromKit[i].ok

\* A save under way takes e to the storage.
Covered(e) == (e \in jail /\ Written) \/ \E i \in 1..Len(toKit) : SaveOf(e, i)

Unsaved == owed \ store

\* No save is under way but the one the broker waits for, and its session has
\* stayed to get the answer.
SavesAreAwaited ==
    /\ (\E s \in Sessions : SaveUnderWay(s)) => saving
    /\ \A s \in Sessions : SaveUnderWay(s) => s \in sessions
    /\ \A i \in 1..Len(fromKit) : fromKit[i].t = "saved" => fromKit[i].s \in kitViews

\* Every unsaved edit is somewhere: in the file, in memory, or on its way.
EditsAreSomewhere == \A e \in Unsaved : e \in jail \cup doc \/ Behind(e, 0)

\* The kit's modified flag and the answers tell what is not yet stored.
FlagsAreRight ==
    /\ fresh => jail \subseteq store
    /\ ~kitModified => doc \subseteq jail \/ kitViews = {}
    /\ ~kitModified /\ Unsaved \cap jail # {} => Written

\* An unsaved edit that no save covers makes the broker take the document for
\* modified, and keeps a user who may edit connected.
UncoveredIsKnown ==
    \A e \in Unsaved :
      \/ Covered(e)
      \/ active /\ \E t \in sessions \ closed : EditableView(t)

\* The kit keeps a view for as long as an edit is unsaved.
ViewsStay ==
    /\ kitViews = {} => Unsaved = {}
    /\ \A d \in 1..Len(toKit), e \in Unsaved :
         toKit[d].t = "disconnect" =>
           \/ Behind(e, d)
           \/ \E i \in 1..d : SaveOf(e, i)
           \/ \E t \in kitViews : \A k \in 1..d : ~Drops(k, t)

\* A message after which the broker may take the document for unmodified.
Clears(m) == m.t = "saved" \/ (m.t = "modified" /\ ~m.v)

\* The last that each session with a view has or will have told the broker of
\* a modified document is that it is modified.
ModifiedIsTold ==
    \A t \in kitViews \cap sessions :
      kitModified =>
        \/ isModified /\ \A i \in 1..Len(fromKit) : ~Clears(fromKit[i])
        \/ \E i \in 1..Len(fromKit) :
             /\ fromKit[i].t = "modified" /\ fromKit[i].v /\ t \in fromKit[i].to
             /\ \A k \in i..Len(fromKit) : ~Clears(fromKit[k])

\* While the kit lives.
SaveInv ==
    /\ SavesAreAwaited
    /\ EditsAreSomewhere
    /\ FlagsAreRight
    /\ UncoveredIsKnown
    /\ ViewsStay
    /\ ModifiedIsTold

Ended == stop \/ phase \in {"flush", "finished"} \/ ~kitAlive

\* Once the broker or the kit has come to an end, all is stored.
EndInv ==
    /\ Ended => Unsaved = {}
    /\ ~kitAlive /\ ~stop => kitViews = {}

\* A broker marked to destroy only waits for its last session's save.
MarkedIsClosed == markToDestroy => sessions \subseteq closed

EditInv == excuses = {} => EndInv /\ MarkedIsClosed /\ (kitAlive => SaveInv)

-----------------------------------------------------------------------------
(* What a message more, or less, does to the edits behind it.              *)

\* Where a message that is told to the kit is put.
LEMMA ToldFacts ==
    ASSUME TypeOK, NEW m \in ToKitMsg, toKit' = Append(toKit, m)
    PROVE  /\ Len(toKit) \in Nat /\ Len(toKit') = Len(toKit) + 1
           /\ toKit'[Len(toKit) + 1] = m
           /\ \A i \in 1..Len(toKit) : toKit'[i] = toKit[i]
<1>1. toKit \in Seq(ToKitMsg)
  BY DEF TypeOK, ChannelTypeOK
<1> QED
  BY <1>1

LEMMA BehindTold ==
    ASSUME TypeOK, NEW m \in ToKitMsg, toKit' = Append(toKit, m), NEW e, NEW i \in Nat
    PROVE  /\ Behind(e, i) => Behind(e, i)'
           /\ Behind(e, i)' => Behind(e, i) \/ (m.t = "edit" /\ m.e = e)
           /\ m.t = "edit" /\ m.e = e /\ i <= Len(toKit) => Behind(e, i)'
<1>1. /\ Len(toKit) \in Nat /\ Len(toKit') = Len(toKit) + 1
      /\ toKit'[Len(toKit) + 1] = m
      /\ \A k \in 1..Len(toKit) : toKit'[k] = toKit[k]
  BY ToldFacts
<1>2. Behind(e, i) => Behind(e, i)'
  BY <1>1 DEF Behind
<1>3. Behind(e, i)' => Behind(e, i) \/ (m.t = "edit" /\ m.e = e)
  BY <1>1 DEF Behind
<1>4. m.t = "edit" /\ m.e = e /\ i <= Len(toKit) => Behind(e, i)'
  BY <1>1 DEF Behind
<1> QED
  BY <1>2, <1>3, <1>4

\* A save includes an edit as long as that edit is not sent again.
LEMMA SaveOfTold ==
    ASSUME TypeOK, NEW m \in ToKitMsg, toKit' = Append(toKit, m), NEW e
    PROVE  /\ ~(m.t = "edit" /\ m.e = e) =>
                \A i \in 1..Len(toKit) : SaveOf(e, i) => SaveOf(e, i)'
           /\ m.t = "save" => \E i \in 1..Len(toKit') : SaveOf(e, i)'
<1>1. /\ Len(toKit) \in Nat /\ Len(toKit') = Len(toKit) + 1
      /\ toKit'[Len(toKit) + 1] = m
      /\ \A k \in 1..Len(toKit) : toKit'[k] = toKit[k]
  BY ToldFacts
<1>2. ASSUME ~(m.t = "edit" /\ m.e = e), NEW i \in 1..Len(toKit), SaveOf(e, i)
      PROVE  SaveOf(e, i)'
  BY <1>1, <1>2, BehindTold DEF SaveOf
<1>3. ASSUME m.t = "save"
      PROVE  \E i \in 1..Len(toKit') : SaveOf(e, i)'
  <2>1. PICK n \in 1..Len(toKit') : n = Len(toKit) + 1
    BY <1>1
  <2>2. SaveOf(e, n)'
    BY <1>1, <1>3, <2>1 DEF SaveOf, Behind
  <2> QED
    BY <2>2
<1> QED
  BY <1>2, <1>3

\* The kit takes a message: the others move up by one.
LEMMA BehindTaken ==
    ASSUME TypeOK, toKit # <<>>, toKit' = Tail(toKit), NEW e, NEW i \in Nat
    PROVE  Behind(e, i)' <=> Behind(e, i + 1)
<1>1. /\ Len(toKit) \in Nat /\ Len(toKit) >= 1
      /\ Len(toKit') = Len(toKit) - 1
      /\ \A k \in 1..Len(toKit') : k + 1 \in 1..Len(toKit) /\ toKit'[k] = toKit[k + 1]
      /\ \A k \in 1..Len(toKit) :
           k = 1 \/ (k - 1 \in 1..Len(toKit') /\ toKit'[k - 1] = toKit[k])
  BY TailFacts
<1>2. ASSUME Behind(e, i)'
      PROVE  Behind(e, i + 1)
  <2>1. PICK k \in 1..Len(toKit') : k > i /\ toKit'[k].t = "edit" /\ toKit'[k].e = e
    BY <1>2 DEF Behind
  <2>2. k + 1 \in 1..Len(toKit) /\ toKit'[k] = toKit[k + 1] /\ k + 1 > i + 1
    BY <1>1, <2>1
  <2> QED
    BY <2>1, <2>2 DEF Behind
<1>3. ASSUME Behind(e, i + 1)
      PROVE  Behind(e, i)'
  <2>1. PICK k \in 1..Len(toKit) : k > i + 1 /\ toKit[k].t = "edit" /\ toKit[k].e = e
    BY <1>3 DEF Behind
  <2>2. k - 1 \in 1..Len(toKit') /\ toKit'[k - 1] = toKit[k] /\ k - 1 > i
    BY <1>1, <2>1
  <2> QED
    BY <2>1, <2>2 DEF Behind
<1> QED
  BY <1>2, <1>3

LEMMA SaveOfTaken ==
    ASSUME TypeOK, toKit # <<>>, toKit' = Tail(toKit), NEW e,
           NEW i \in 1..Len(toKit), i # 1, SaveOf(e, i)
    PROVE  i - 1 \in 1..Len(toKit') /\ SaveOf(e, i - 1)'
<1>1. i - 1 \in 1..Len(toKit') /\ toKit'[i - 1] = toKit[i]
  BY TailFacts
<1>2. PICK j \in Nat : j = i - 1 /\ j + 1 = i
  <2>1. i - 1 \in Nat /\ (i - 1) + 1 = i
    BY <1>1 DEF TypeOK, ChannelTypeOK
  <2> QED
    BY <2>1
<1>3. ~Behind(e, j)'
  BY <1>2, BehindTaken DEF SaveOf
<1> QED
  BY <1>1, <1>2, <1>3 DEF SaveOf, Behind
-----------------------------------------------------------------------------
(* What each step of the broker does, while the kit lives and no fault or  *)
(* race happens.                                                           *)

\* The user of a connected session with its view made one new edit.
TypedNow(m) ==
    /\ m.e \notin typed /\ owed' \subseteq owed \cup {m.e}
    /\ active'
    /\ m.s \in sessions' \ closed' /\ m.s \in viewLoaded' \ readOnly'

\* The kit is told at most one thing more, and a save is waited for.
ToldMore ==
    \/ toKit' = toKit /\ owed' = owed
    \/ \E m \in ToKitMsg :
         /\ toKit' = Append(toKit, m)
         /\ IF m.t = "edit" THEN TypedNow(m) ELSE owed' = owed
         /\ m.t = "save" => m.s \in sessions' /\ saving'

\* The broker hears at most one answer, and that the file is written makes it
\* store the file.
HeardOne ==
    \/ fromKit' = fromKit
    \/ /\ fromKit # <<>> /\ fromKit' = Tail(fromKit)
       /\ Head(fromKit).t = "saved" /\ Head(fromKit).ok => jail \subseteq store'

\* The storage grows, and the broker takes the file for known only if it is
\* stored.
StoredMore ==
    /\ store \subseteq store'
    /\ fresh' => fresh \/ jail \subseteq store'

\* The broker stops waiting only if no save is under way, and no session leaves
\* while its own is.
AnswersAwaited ==
    /\ saving => saving' \/ \A s \in Sessions : ~SaveUnderWay(s)'
    /\ \A s \in sessions \ sessions' : ~SaveUnderWay(s)'

SomeoneEdits == \E t \in sessions \ closed : EditableView(t)

\* Activity is forgotten, and the last user who may edit leaves, only if a save
\* is asked for or every edit has its save under way.
ActivityKept ==
    \/ \E m \in ToKitMsg : toKit' = Append(toKit, m) /\ m.t = "save"
    \/ \A e \in Unsaved : Covered(e)
    \/ (active => active') /\ (SomeoneEdits => SomeoneEdits')

\* The broker takes the document for unmodified only when it is told so.
ModifiedKept ==
    \/ (isModified => isModified') /\ fromKit' = fromKit
    \/ /\ fromKit # <<>> /\ fromKit' = Tail(fromKit)
       /\ isModified => isModified' \/ Clears(Head(fromKit))
       /\ Head(fromKit).t = "modified" /\ Head(fromKit).v
            /\ Head(fromKit).to \cap sessions # {} => isModified'

BrokerKeeps ==
    /\ ToldMore /\ HeardOne /\ StoredMore /\ AnswersAwaited /\ ActivityKept /\ ModifiedKept
    /\ sessions' \cap joined \subseteq sessions
    /\ UNCHANGED <<jail, kitVars>> /\ kitAlive /\ kitAlive'

\* The edits not stored after the step are those of before, and a new one.
LEMMA UnsavedKept ==
    ASSUME BrokerKeeps, NEW e \in Unsaved'
    PROVE  \/ /\ e \in Unsaved
              /\ \/ toKit' = toKit
                 \/ \E m \in ToKitMsg :
                      toKit' = Append(toKit, m) /\ (m.t = "edit" => m.e \notin typed)
           \/ \E m \in ToKitMsg :
                toKit' = Append(toKit, m) /\ m.t = "edit" /\ m.e = e /\ TypedNow(m)
<1>1. e \in owed' /\ e \notin store
  BY DEF Unsaved, BrokerKeeps, StoredMore
<1> QED
  BY <1>1 DEF BrokerKeeps, ToldMore, TypedNow, Unsaved

\* A save under way after the step was so before, or is asked for by the step.
LEMMA UnderWayKept ==
    ASSUME TypeOK, BrokerKeeps, NEW s \in Sessions, SaveUnderWay(s)'
    PROVE  \/ SaveUnderWay(s)
           \/ \E m \in ToKitMsg :
                toKit' = Append(toKit, m) /\ m.t = "save" /\ m.s = s
<1>1. CASE \E i \in 1..Len(fromKit') : fromKit'[i].t = "saved" /\ fromKit'[i].s = s
  <2>1. CASE fromKit' = fromKit
    BY <1>1, <2>1 DEF SaveUnderWay
  <2>2. CASE fromKit # <<>> /\ fromKit' = Tail(fromKit)
    BY <1>1, <2>2, AnswerFacts DEF SaveUnderWay
  <2> QED
    BY <2>1, <2>2 DEF BrokerKeeps, HeardOne
<1>2. CASE \E i \in 1..Len(toKit') : toKit'[i].t = "save" /\ toKit'[i].s = s
  <2>1. CASE toKit' = toKit
    BY <1>2, <2>1 DEF SaveUnderWay
  <2>2. ASSUME NEW m \in ToKitMsg, toKit' = Append(toKit, m)
        PROVE  SaveUnderWay(s) \/ (m.t = "save" /\ m.s = s)
    <3>1. /\ Len(toKit) \in Nat /\ Len(toKit') = Len(toKit) + 1
          /\ toKit'[Len(toKit) + 1] = m
          /\ \A i \in 1..Len(toKit) : toKit'[i] = toKit[i]
      BY <2>2, ToldFacts
    <3> QED
      BY <1>2, <3>1 DEF SaveUnderWay
  <2> QED
    BY <2>1, <2>2 DEF BrokerKeeps, ToldMore
<1> QED
  BY <1>1, <1>2 DEF SaveUnderWay

LEMMA AwaitedKept ==
    ASSUME TypeOK, SavesAreAwaited, BrokerKeeps
    PROVE  SavesAreAwaited'
<1>1. ASSUME NEW s \in Sessions, SaveUnderWay(s)'
      PROVE  saving' /\ s \in sessions'
  <2>1. CASE SaveUnderWay(s)
    BY <1>1, <2>1 DEF SavesAreAwaited, BrokerKeeps, AnswersAwaited
  <2>2. ASSUME NEW m \in ToKitMsg, toKit' = Append(toKit, m), m.t = "save", m.s = s
        PROVE  saving' /\ s \in sessions'
    <3>1. PICK n \in ToKitMsg :
            toKit' = Append(toKit, n) /\ (n.t = "save" => n.s \in sessions' /\ saving')
      <4>1. toKit' # toKit
        BY <2>2, ToldFacts
      <4> QED
        BY <4>1 DEF BrokerKeeps, ToldMore
    <3>2. n = m
      BY <2>2, <3>1, ToldFacts
    <3> QED
      BY <2>2, <3>1, <3>2
  <2> QED
    BY <1>1, <2>1, <2>2, UnderWayKept
<1>2. \A i \in 1..Len(fromKit') : fromKit'[i].t = "saved" => fromKit'[i].s \in kitViews'
  <2>1. UNCHANGED kitViews
    BY DEF BrokerKeeps, kitVars
  <2>2. CASE fromKit' = fromKit
    BY <2>1, <2>2 DEF SavesAreAwaited
  <2>3. CASE fromKit # <<>> /\ fromKit' = Tail(fromKit)
    BY <2>1, <2>3, AnswerFacts DEF SavesAreAwaited
  <2> QED
    BY <2>2, <2>3 DEF BrokerKeeps, HeardOne
<1> QED
  BY <1>1, <1>2 DEF SavesAreAwaited

LEMMA SomewhereKept ==
    ASSUME TypeOK, EditsAreSomewhere, BrokerKeeps
    PROVE  EditsAreSomewhere'
<1>1. ASSUME NEW e \in Unsaved'
      PROVE  e \in jail' \cup doc' \/ Behind(e, 0)'
  <2>1. UNCHANGED <<jail, doc>>
    BY DEF BrokerKeeps, kitVars
  <2>2. CASE e \in Unsaved
    <3>1. CASE toKit' = toKit
      BY <2>1, <2>2, <3>1 DEF EditsAreSomewhere, Behind
    <3>2. ASSUME NEW m \in ToKitMsg, toKit' = Append(toKit, m)
          PROVE  e \in jail' \cup doc' \/ Behind(e, 0)'
      BY <2>1, <2>2, <3>2, BehindTold DEF EditsAreSomewhere
    <3> QED
      BY <3>1, <3>2 DEF BrokerKeeps, ToldMore
  <2>3. ASSUME NEW m \in ToKitMsg, toKit' = Append(toKit, m), m.t = "edit", m.e = e
        PROVE  Behind(e, 0)'
    <3>1. 0 <= Len(toKit)
      BY <2>3, ToldFacts
    <3> QED
      BY <2>3, <3>1, BehindTold
  <2> QED
    BY <2>2, <2>3, UnsavedKept
<1> QED
  BY <1>1 DEF EditsAreSomewhere

\* The storage gets what a save has written with the answer to it.
LEMMA WrittenKept ==
    ASSUME TypeOK, BrokerKeeps, Written
    PROVE  Written' \/ jail \subseteq store'
<1>1. PICK i \in 1..Len(fromKit) : fromKit[i].t = "saved" /\ fromKit[i].ok
  BY DEF Written
<1>2. CASE fromKit' = fromKit
  BY <1>1, <1>2 DEF Written
<1>3. CASE fromKit # <<>> /\ fromKit' = Tail(fromKit)
  <2>1. CASE i = 1
    <3>0. /\ Len(fromKit) \in Nat /\ Len(fromKit') = Len(fromKit) - 1
          /\ Head(fromKit) = fromKit[1]
      BY <1>3, AnswerFacts
    <3>1. fromKit' # fromKit /\ Head(fromKit) = fromKit[1]
      <4>1. Len(fromKit') # Len(fromKit)
        BY <3>0
      <4> QED
        BY <3>0, <4>1
    <3>2. Head(fromKit).t = "saved" /\ Head(fromKit).ok => jail \subseteq store'
      BY <3>1 DEF BrokerKeeps, HeardOne
    <3> QED
      BY <1>1, <2>1, <3>1, <3>2
  <2>2. CASE i # 1
    <3>1. i - 1 \in 1..Len(fromKit') /\ fromKit'[i - 1] = fromKit[i]
      BY <1>3, <2>2, AnswerFacts
    <3> QED
      BY <1>1, <3>1 DEF Written
  <2> QED
    BY <2>1, <2>2
<1> QED
  BY <1>2, <1>3 DEF BrokerKeeps, HeardOne

LEMMA FlagsKept ==
    ASSUME TypeOK, StorageInv, FlagsAreRight, BrokerKeeps
    PROVE  FlagsAreRight'
<1>0. UNCHANGED <<jail, doc, kitModified, kitViews>>
  BY DEF BrokerKeeps, kitVars
<1>1. fresh' => jail' \subseteq store'
  BY <1>0 DEF FlagsAreRight, BrokerKeeps, StoredMore
<1>2. ~kitModified' => doc' \subseteq jail' \/ kitViews' = {}
  BY <1>0 DEF FlagsAreRight
<1>3. ASSUME ~kitModified', NEW e \in Unsaved' \cap jail'
      PROVE  Written'
  <2>1. e \notin store' /\ e \in typed
    BY <1>0, <1>3 DEF Unsaved, StorageInv
  <2>2. e \in Unsaved
    BY <1>3, <2>1, UnsavedKept DEF TypedNow
  <2>3. Written
    BY <1>0, <1>3, <2>2 DEF FlagsAreRight
  <2> QED
    BY <1>0, <1>3, <2>1, <2>3, WrittenKept
<1> QED
  BY <1>1, <1>2, <1>3 DEF FlagsAreRight
\* What was on its way to the storage still is, or has arrived.
LEMMA CoveredKept ==
    ASSUME TypeOK, BrokerKeeps, NEW e \in Unsaved', e \in Unsaved, Covered(e)
    PROVE  Covered(e)'
<1>0. e \notin store' /\ e \in Edits /\ jail' = jail
  BY DEF Unsaved, TypeOK, BrokerTypeOK, BrokerKeeps
<1>1. CASE e \in jail /\ Written
  BY <1>0, <1>1, WrittenKept DEF Covered
<1>2. ASSUME NEW i \in 1..Len(toKit), SaveOf(e, i)
      PROVE  Covered(e)'
  <2>1. CASE toKit' = toKit
    BY <1>2, <2>1 DEF Covered, SaveOf, Behind
  <2>2. ASSUME NEW m \in ToKitMsg, toKit' = Append(toKit, m), m.t = "edit" => m.e \notin typed
        PROVE  Covered(e)'
    <3>1. ~(m.t = "edit" /\ m.e = e)
      BY <2>2 DEF Unsaved, TypeOK, BrokerTypeOK
    <3>2. i \in 1..Len(toKit')
      BY <2>2, ToldFacts
    <3>3. SaveOf(e, i)'
      BY <1>2, <2>2, <3>1, SaveOfTold
    <3> QED
      BY <3>2, <3>3 DEF Covered
  <2>3. \/ toKit' = toKit
        \/ \E m \in ToKitMsg : toKit' = Append(toKit, m) /\ (m.t = "edit" => m.e \notin typed)
    BY DEF BrokerKeeps, ToldMore, TypedNow
  <2> QED
    BY <2>1, <2>2, <2>3
<1> QED
  BY <1>1, <1>2 DEF Covered

LEMMA UncoveredKept ==
    ASSUME TypeOK, UncoveredIsKnown, BrokerKeeps
    PROVE  UncoveredIsKnown'
<1>1. ASSUME NEW e \in Unsaved'
      PROVE  \/ Covered(e)'
             \/ active' /\ \E t \in sessions' \ closed' : EditableView(t)'
  <2>1. CASE e \in Unsaved
    <3>1. CASE Covered(e)
      BY <1>1, <2>1, <3>1, CoveredKept
    <3>2. CASE ~Covered(e)
      <4>1. active /\ SomeoneEdits
        BY <2>1, <3>2 DEF UncoveredIsKnown, SomeoneEdits
      <4>2. ASSUME NEW m \in ToKitMsg, toKit' = Append(toKit, m), m.t = "save"
            PROVE  Covered(e)'
        BY <4>2, SaveOfTold DEF Covered
      <4>3. CASE (active => active') /\ (SomeoneEdits => SomeoneEdits')
        BY <4>1, <4>3 DEF SomeoneEdits
      <4> QED
        BY <2>1, <3>2, <4>2, <4>3 DEF BrokerKeeps, ActivityKept
    <3> QED
      BY <3>1, <3>2
  <2>2. ASSUME NEW m \in ToKitMsg, TypedNow(m)
        PROVE  active' /\ \E t \in sessions' \ closed' : EditableView(t)'
    BY <2>2 DEF TypedNow, EditableView
  <2> QED
    BY <1>1, <2>1, <2>2, UnsavedKept
<1> QED
  BY <1>1 DEF UncoveredIsKnown

\* An unsaved edit has a save before it, or a view stays.
SavedOrViewed ==
    \A e \in Unsaved :
      \/ \E i \in 1..Len(toKit) : SaveOf(e, i)
      \/ \E t \in kitViews : \A k \in 1..Len(toKit) : ~Drops(k, t)

LEMMA SomeViewStays ==
    TypeOK /\ OrderInv /\ kitAlive /\ SavesAreAwaited /\ UncoveredIsKnown => SavedOrViewed
<1> SUFFICES ASSUME TypeOK, OrderInv, kitAlive, SavesAreAwaited, UncoveredIsKnown,
                    NEW e \in Unsaved
             PROVE  \/ \E i \in 1..Len(toKit) : SaveOf(e, i)
                    \/ \E t \in kitViews : \A k \in 1..Len(toKit) : ~Drops(k, t)
  BY DEF SavedOrViewed
<1>1. ASSUME NEW t \in kitViews, t \in sessions
      PROVE  \A k \in 1..Len(toKit) : ~Drops(k, t)
  BY <1>1 DEF OrderInv, QueueInv, Follows, ToldToDrop, TypeOK, BrokerTypeOK
<1>2. CASE Covered(e) /\ Written
  <2>1. PICK i \in 1..Len(fromKit) : fromKit[i].t = "saved"
    BY <1>2 DEF Written
  <2>2. fromKit[i] \in FromKitMsg
    BY <2>1 DEF TypeOK, ChannelTypeOK
  <2>3. fromKit[i].s \in Sessions
    BY <2>1, <2>2 DEF FromKitMsg, StatusMsg, ModifiedMsg, SavedMsg
  <2>4. fromKit[i].s \in kitViews /\ fromKit[i].s \in sessions
    BY <2>1, <2>3 DEF SavesAreAwaited, SaveUnderWay
  <2> QED
    BY <1>1, <2>4
<1>3. CASE Covered(e) /\ ~Written
  BY <1>3 DEF Covered
<1>4. CASE ~Covered(e)
  <2>1. PICK t \in sessions \ closed : EditableView(t)
    BY <1>4 DEF UncoveredIsKnown
  <2>2. t \in kitViews
    BY <2>1 DEF EditableView, OrderInv, ViewInv, LoadedHaveViews
  <2> QED
    BY <1>1, <2>1, <2>2
<1> QED
  BY <1>2, <1>3, <1>4

LEMMA ViewsKept ==
    ASSUME TypeOK, TypeOK', OrderInv, OrderInv', ViewsStay,
           SavesAreAwaited', UncoveredIsKnown', BrokerKeeps
    PROVE  ViewsStay'
<1>0. UNCHANGED kitViews /\ kitAlive'
  BY DEF BrokerKeeps, kitVars
<1>1. kitViews' = {} => Unsaved' = {}
  <2>1. ASSUME kitViews = {}, NEW e \in Unsaved'
        PROVE  FALSE
    <3>1. PICK m \in ToKitMsg : TypedNow(m)
      BY <2>1, UnsavedKept DEF ViewsStay
    <3>2. m.s \in kitViews'
      BY <3>1 DEF TypedNow, OrderInv, ViewInv, LoadedHaveViews
    <3> QED
      BY <1>0, <2>1, <3>2
  <2> QED
    BY <1>0, <2>1
<1>2. ASSUME NEW d \in 1..Len(toKit'), NEW e \in Unsaved', toKit'[d].t = "disconnect"
      PROVE  \/ Behind(e, d)'
             \/ \E i \in 1..d : SaveOf(e, i)'
             \/ \E t \in kitViews' : \A k \in 1..d : ~Drops(k, t)'
  <2>0. \/ \E i \in 1..Len(toKit') : SaveOf(e, i)'
        \/ \E t \in kitViews' : \A k \in 1..Len(toKit') : ~Drops(k, t)'
    <3>1. SavedOrViewed'
      BY <1>0, SomeViewStays, PTL
    <3> QED
      BY <1>2, <3>1 DEF SavedOrViewed
  <2>1. CASE \E t \in kitViews' : \A k \in 1..Len(toKit') : ~Drops(k, t)'
    <3>1. \A k \in 1..d : k \in 1..Len(toKit')
      BY DEF TypeOK, ChannelTypeOK
    <3> QED
      BY <2>1, <3>1
  <2>2. ASSUME d \in 1..Len(toKit), toKit'[d] = toKit[d],
               \A k \in 1..Len(toKit) : toKit'[k] = toKit[k],
               \/ toKit' = toKit
               \/ \E m \in ToKitMsg : toKit' = Append(toKit, m) /\ (m.t = "edit" => m.e \notin typed),
               e \in Unsaved
        PROVE  \/ Behind(e, d)'
               \/ \E i \in 1..d : SaveOf(e, i)'
               \/ \E t \in kitViews' : \A k \in 1..d : ~Drops(k, t)'
    <3>1. CASE Behind(e, d)
      <4>1. CASE toKit' = toKit
        BY <3>1, <4>1 DEF Behind
      <4>2. CASE toKit' # toKit
        <5>1. d \in Nat
          BY <2>2
        <5> QED
          BY <2>2, <3>1, <4>2, <5>1, BehindTold
      <4> QED
        BY <4>1, <4>2
    <3>2. ASSUME NEW i \in 1..d, SaveOf(e, i)
          PROVE  SaveOf(e, i)'
      <4>1. CASE toKit' = toKit
        BY <3>2, <4>1 DEF SaveOf, Behind
      <4>2. CASE toKit' # toKit
        <5>1. PICK m \in ToKitMsg : toKit' = Append(toKit, m) /\ (m.t = "edit" => m.e \notin typed)
          BY <2>2, <4>2
        <5>2. ~(m.t = "edit" /\ m.e = e) /\ i \in 1..Len(toKit)
          BY <2>2, <5>1 DEF Unsaved, TypeOK, BrokerTypeOK, ChannelTypeOK
        <5> QED
          BY <3>2, <5>1, <5>2, SaveOfTold
      <4> QED
        BY <4>1, <4>2
    <3>3. ASSUME NEW t \in kitViews, \A k \in 1..d : ~Drops(k, t)
          PROVE  \A k \in 1..d : ~Drops(k, t)'
      <4>1. \A k \in 1..d : k \in 1..Len(toKit)
        BY <2>2 DEF TypeOK, ChannelTypeOK
      <4> QED
        BY <2>2, <3>3, <4>1 DEF Drops
    <3> QED
      BY <1>0, <1>2, <2>2, <3>1, <3>2, <3>3 DEF ViewsStay
  <2>3. CASE toKit' = toKit
    <3>1. e \in Unsaved
      <4>1. \A m \in ToKitMsg : toKit' # Append(toKit, m)
        BY <2>3, ToldFacts
      <4> QED
        BY <1>2, <4>1, UnsavedKept
    <3> QED
      BY <1>2, <2>2, <2>3, <3>1
  <2>4. ASSUME NEW m \in ToKitMsg, toKit' = Append(toKit, m)
        PROVE  \/ Behind(e, d)'
               \/ \E i \in 1..d : SaveOf(e, i)'
               \/ \E t \in kitViews' : \A k \in 1..d : ~Drops(k, t)'
    <3>1. /\ Len(toKit) \in Nat /\ Len(toKit') = Len(toKit) + 1
          /\ toKit'[Len(toKit) + 1] = m
          /\ \A i \in 1..Len(toKit) : toKit'[i] = toKit[i]
      BY <2>4, ToldFacts
    <3>2. CASE d = Len(toKit) + 1
      BY <2>0, <2>1, <3>1, <3>2
    <3>3. CASE d # Len(toKit) + 1
      <4>1. d \in 1..Len(toKit)
        BY <3>1, <3>3
      <4>2. ASSUME m.t = "edit", m.e = e
            PROVE  Behind(e, d)'
        BY <2>4, <4>1, <4>2, BehindTold
      <4>3. ASSUME e \in Unsaved
            PROVE  m.t = "edit" => m.e \notin typed
        <5>1. PICK n \in ToKitMsg : toKit' = Append(toKit, n) /\ (n.t = "edit" => n.e \notin typed)
          <6>1. toKit' # toKit
            BY <3>1
          <6> QED
            BY <6>1 DEF BrokerKeeps, ToldMore, TypedNow
        <5>2. n = m
          BY <2>4, <5>1, ToldFacts
        <5> QED
          BY <5>1, <5>2
      <4>4. CASE e \in Unsaved
        BY <2>2, <2>4, <3>1, <4>1, <4>3, <4>4
      <4>5. CASE e \notin Unsaved
        <5>1. PICK n \in ToKitMsg : toKit' = Append(toKit, n) /\ n.t = "edit" /\ n.e = e
          BY <1>2, <4>5, UnsavedKept
        <5>2. n = m
          BY <2>4, <5>1, ToldFacts
        <5> QED
          BY <4>2, <5>1, <5>2
      <4> QED
        BY <4>4, <4>5
    <3> QED
      BY <3>2, <3>3
  <2> QED
    BY <2>3, <2>4 DEF BrokerKeeps, ToldMore
<1> QED
  BY <1>1, <1>2 DEF ViewsStay
LEMMA ModifiedStaysTold ==
    ASSUME TypeOK, OrderInv, ModifiedIsTold, BrokerKeeps
    PROVE  ModifiedIsTold'
<1>0. UNCHANGED <<kitViews, kitSessions, kitModified>>
  BY DEF BrokerKeeps, kitVars
<1>1. ASSUME NEW t \in kitViews' \cap sessions', kitModified'
      PROVE  \/ isModified' /\ \A i \in 1..Len(fromKit') : ~Clears(fromKit'[i])
             \/ \E i \in 1..Len(fromKit') :
                  /\ fromKit'[i].t = "modified" /\ fromKit'[i].v /\ t \in fromKit'[i].to
                  /\ \A k \in i..Len(fromKit') : ~Clears(fromKit'[k])
  <2>1. t \in sessions
    BY <1>0, <1>1 DEF TypeOK, KitTypeOK, OrderInv, ViewInv, SessionsKnown, BrokerKeeps
  <2>2. \/ isModified /\ \A i \in 1..Len(fromKit) : ~Clears(fromKit[i])
        \/ \E i \in 1..Len(fromKit) :
             /\ fromKit[i].t = "modified" /\ fromKit[i].v /\ t \in fromKit[i].to
             /\ \A k \in i..Len(fromKit) : ~Clears(fromKit[k])
    BY <1>0, <1>1, <2>1 DEF ModifiedIsTold
  <2>3. CASE (isModified => isModified') /\ fromKit' = fromKit
    BY <2>2, <2>3
  <2>4. CASE /\ fromKit # <<>> /\ fromKit' = Tail(fromKit)
             /\ isModified => isModified' \/ Clears(Head(fromKit))
             /\ Head(fromKit).t = "modified" /\ Head(fromKit).v
                  /\ Head(fromKit).to \cap sessions # {} => isModified'
    <3>1. /\ Len(fromKit) \in Nat /\ Len(fromKit) >= 1
          /\ Len(fromKit') = Len(fromKit) - 1
          /\ \A i \in 1..Len(fromKit') :
               i + 1 \in 1..Len(fromKit) /\ fromKit'[i] = fromKit[i + 1]
          /\ \A i \in 1..Len(fromKit) :
               i = 1 \/ (i - 1 \in 1..Len(fromKit') /\ fromKit'[i - 1] = fromKit[i])
          /\ Head(fromKit) = fromKit[1] /\ 1 \in 1..Len(fromKit)
      BY <2>4, AnswerFacts
    <3>2. CASE isModified /\ \A i \in 1..Len(fromKit) : ~Clears(fromKit[i])
      <4>1. isModified'
        BY <2>4, <3>1, <3>2
      <4> QED
        BY <3>1, <3>2, <4>1
    <3>3. ASSUME NEW i \in 1..Len(fromKit),
                 fromKit[i].t = "modified", fromKit[i].v, t \in fromKit[i].to,
                 \A k \in i..Len(fromKit) : ~Clears(fromKit[k])
          PROVE  \/ isModified' /\ \A j \in 1..Len(fromKit') : ~Clears(fromKit'[j])
                 \/ \E j \in 1..Len(fromKit') :
                      /\ fromKit'[j].t = "modified" /\ fromKit'[j].v /\ t \in fromKit'[j].to
                      /\ \A k \in j..Len(fromKit') : ~Clears(fromKit'[k])
      <4>1. CASE i = 1
        <5>1. isModified'
          BY <2>1, <2>4, <3>1, <3>3, <4>1
        <5>2. ASSUME NEW j \in 1..Len(fromKit')
              PROVE  ~Clears(fromKit'[j])
          <6>1. j + 1 \in i..Len(fromKit) /\ fromKit'[j] = fromKit[j + 1]
            BY <3>1, <4>1
          <6> QED
            BY <3>3, <6>1
        <5> QED
          BY <5>1, <5>2
      <4>2. CASE i # 1
        <5>1. i - 1 \in 1..Len(fromKit') /\ fromKit'[i - 1] = fromKit[i]
          BY <3>1, <4>2
        <5>2. ASSUME NEW k \in (i - 1)..Len(fromKit')
              PROVE  ~Clears(fromKit'[k])
          <6>1. k \in 1..Len(fromKit') /\ k + 1 \in i..Len(fromKit)
            BY <3>1, <5>1
          <6>2. fromKit'[k] = fromKit[k + 1]
            BY <3>1, <6>1
          <6> QED
            BY <3>3, <6>1, <6>2
        <5> QED
          BY <3>3, <5>1, <5>2
      <4> QED
        BY <4>1, <4>2
    <3> QED
      BY <2>2, <3>2, <3>3
  <2> QED
    BY <2>3, <2>4 DEF BrokerKeeps, ModifiedKept
<1> QED
  BY <1>1 DEF ModifiedIsTold

\* So a step of the broker that does no more than that keeps the invariant.
LEMMA BrokerKeepsSaves ==
    ASSUME TypeOK, TypeOK', StorageInv, OrderInv, OrderInv', SaveInv, BrokerKeeps
    PROVE  SaveInv'
<1> USE DEF SaveInv
<1>1. SavesAreAwaited'
  BY AwaitedKept
<1>2. EditsAreSomewhere'
  BY SomewhereKept
<1>3. FlagsAreRight'
  BY FlagsKept
<1>4. UncoveredIsKnown'
  BY UncoveredKept
<1>5. ViewsStay'
  BY <1>1, <1>4, ViewsKept
<1>6. ModifiedIsTold'
  BY ModifiedStaysTold
<1> QED
  BY <1>1, <1>2, <1>3, <1>4, <1>5, <1>6

-----------------------------------------------------------------------------
(* The broker's handlers do no more than that.                             *)

\* What most steps of the broker leave alone.
outsideVars == <<jail, kitVars, kitAlive, owed>>

\* A step that tells nothing, hears nothing and stores nothing.
LEMMA QuietKeeps ==
    ASSUME kitAlive, UNCHANGED <<outsideVars, toKit, fromKit, store, fresh, saving, sessions>>,
           active => active', isModified => isModified', SomeoneEdits => SomeoneEdits'
    PROVE  BrokerKeeps
<1>1. ToldMore /\ HeardOne /\ StoredMore /\ ActivityKept /\ ModifiedKept
  BY DEF ToldMore, HeardOne, StoredMore, ActivityKept, ModifiedKept, outsideVars
<1>2. AnswersAwaited
  BY DEF AnswersAwaited
<1> QED
  BY <1>1, <1>2 DEF BrokerKeeps, outsideVars

\* sendUnoSave.
LEMMA SavingKeeps ==
    ASSUME TypeOK, kitAlive, NEW s \in sessions, NEW skip \in BOOLEAN, SendUnoSave(s, skip),
           UNCHANGED <<outsideVars, fromKit, store, sessions, isModified>>
    PROVE  BrokerKeeps
<1>0. s \in Sessions
  BY DEF TypeOK, BrokerTypeOK
<1>1. PICK m \in ToKitMsg : m = [t |-> "save", s |-> s, skip |-> skip]
  BY <1>0, ToKitMessages
<1>2. /\ toKit' = Append(toKit, m) /\ m.t = "save" /\ m.s = s
      /\ saving' = TRUE /\ fresh' = FALSE
  BY <1>1 DEF SendUnoSave, Sent
<1>3. ToldMore
  BY <1>2 DEF ToldMore, outsideVars
<1>4. HeardOne /\ StoredMore /\ AnswersAwaited /\ ModifiedKept
  BY <1>2 DEF HeardOne, StoredMore, AnswersAwaited, ModifiedKept
<1>5. ActivityKept
  BY <1>2 DEF ActivityKept
<1> QED
  BY <1>3, <1>4, <1>5 DEF BrokerKeeps, outsideVars

LEMMA AutoSaveKeeps ==
    ASSUME TypeOK, kitAlive, NEW force, NEW skip \in BOOLEAN, AutoSaveSends(force, skip),
           UNCHANGED <<outsideVars, fromKit, store, sessions, isModified>>
    PROVE  BrokerKeeps
  BY SavingKeeps DEF AutoSaveSends

\* While the kit lives, autoSave finds nothing to save only if nobody is there,
\* nothing is loaded, or the document is not to be saved.
LEMMA IdlesOnlyIf ==
    ASSUME kitAlive, NEW force \in BOOLEAN, AutoSaveIdles(force)
    PROVE  sessions = {} \/ ~isLoaded \/ (~isModified /\ ~force)
  BY DEF AutoSaveIdles, NothingToAutoSave, ChildSeenAlive

\* removeSession.  A session leaves unsaved only while another user who may
\* edit stays, or when nothing is left to save.
LEMMA RemovingKeeps ==
    ASSUME TypeOK, OrderInv, SaveInv, kitAlive, NEW s \in Sessions, NEW act \in BOOLEAN,
           active => act, NEW why, RemoveSession(s, act, why), excuses' = {},
           closed' = closed \/ closed' = closed \cup {s},
           UNCHANGED <<outsideVars, fromKit, store, isModified, readOnly, viewLoaded>>
    PROVE  BrokerKeeps
<1> USE DEF outsideVars
<1>0. sessions \in SUBSET Sessions /\ active \in BOOLEAN /\ isModified \in BOOLEAN
  BY DEF TypeOK, BrokerTypeOK
<1>1. CASE s \notin sessions
  <2>1. UNCHANGED <<sessions, toKit, fresh, saving>> /\ (active => active')
    BY <1>1 DEF RemoveSession
  <2>2. SomeoneEdits => SomeoneEdits'
    BY <1>1, <2>1 DEF SomeoneEdits, EditableView
  <2> QED
    BY <2>1, <2>2, QuietKeeps
<1>2. CASE s \in sessions /\ AutoSaveSends(PossiblyModified(act), ~AlwaysSaveOnExit)
           /\ UNCHANGED sessions
  BY <1>2, AutoSaveKeeps, AlwaysSaveAssumption
<1>3. CASE /\ s \in sessions
           /\ s \notin readOnly /\ ~haveAnotherEditableSession(s)
                => AutoSaveIdles(PossiblyModified(act))
           /\ RemoveSessionInternal(s) /\ active' = act
           /\ UNCHANGED <<fresh, saving>>
           /\ ~SaveUnderWay(s)
           /\ s \notin readOnly /\ haveAnotherEditableSession(s)
                => \E t \in sessions \ {s} : EditableView(t) /\ t \notin closed
  <2>1. PICK m \in ToKitMsg : m = [t |-> "disconnect", s |-> s]
    BY ToKitMessages
  <2>2. /\ sessions' = sessions \ {s} /\ toKit' = Append(toKit, m)
        /\ m.t = "disconnect"
    BY <1>3, <2>1 DEF RemoveSessionInternal, Sent
  <2>3. ToldMore /\ HeardOne /\ StoredMore /\ ModifiedKept
    BY <1>3, <2>2 DEF ToldMore, HeardOne, StoredMore, ModifiedKept
  <2>4. AnswersAwaited
    <3>1. ~SaveUnderWay(s)'
      <4>1. /\ Len(toKit) \in Nat /\ Len(toKit') = Len(toKit) + 1
            /\ toKit'[Len(toKit) + 1] = m
            /\ \A i \in 1..Len(toKit) : toKit'[i] = toKit[i]
        BY <2>2, ToldFacts
      <4> QED
        BY <1>3, <2>2, <4>1 DEF SaveUnderWay
    <3> QED
      BY <1>3, <2>2, <3>1 DEF AnswersAwaited
  <2>5. ActivityKept
    <3>1. CASE s \notin readOnly /\ ~haveAnotherEditableSession(s)
      <4>1. sessions = {} \/ ~isLoaded \/ (~isModified /\ ~PossiblyModified(act))
        <5>1. PossiblyModified(act) \in BOOLEAN
          BY <1>0 DEF PossiblyModified
        <5> QED
          BY <1>3, <3>1, <5>1, IdlesOnlyIf
      <4>2. CASE ~isLoaded
        BY <4>2 DEF OrderInv, LoadedFirst, Unsaved, ActivityKept
      <4>3. CASE ~PossiblyModified(act)
        <5>1. ~active
          BY <4>3 DEF PossiblyModified
        <5> QED
          BY <5>1 DEF SaveInv, UncoveredIsKnown, ActivityKept
      <4> QED
        BY <1>3, <4>1, <4>2, <4>3
    <3>2. CASE s \notin readOnly /\ haveAnotherEditableSession(s)
      <4>1. PICK t \in sessions \ {s} : EditableView(t) /\ t \notin closed
        BY <1>3, <3>2
      <4>2. t \in sessions' \ closed' /\ EditableView(t)'
        BY <2>2, <4>1 DEF EditableView
      <4> QED
        BY <1>3, <4>2 DEF ActivityKept, SomeoneEdits
    <3>3. CASE s \in readOnly
      <4>1. SomeoneEdits => SomeoneEdits'
        BY <2>2, <3>3 DEF SomeoneEdits, EditableView
      <4> QED
        BY <1>3, <4>1 DEF ActivityKept
    <3> QED
      BY <3>1, <3>2, <3>3
  <2> QED
    BY <2>2, <2>3, <2>4, <2>5 DEF BrokerKeeps
<1>4. s \in sessions =>
        \/ /\ AutoSaveSends(PossiblyModified(act), ~AlwaysSaveOnExit)
           /\ UNCHANGED sessions
        \/ /\ s \notin readOnly /\ ~haveAnotherEditableSession(s)
                => AutoSaveIdles(PossiblyModified(act))
           /\ RemoveSessionInternal(s) /\ active' = act
           /\ UNCHANGED <<fresh, saving>>
           /\ ~SaveUnderWay(s)
           /\ s \notin readOnly /\ haveAnotherEditableSession(s)
                => \E t \in sessions \ {s} : EditableView(t) /\ t \notin closed
  <2> DEFINE last == s \notin readOnly /\ ~haveAnotherEditableSession(s)
             ghost == /\ s \notin readOnly /\ ~last
                      /\ \E t \in sessions \ {s} : EditableView(t)
                      /\ \A t \in sessions \ {s} : EditableView(t) => t \in closed
             races == {r \in {"ghost", "orphan"} :
                         IF r = "ghost" THEN ghost ELSE SaveUnderWay(s)}
  <2>1. s \in sessions =>
          \/ /\ AutoSaveSends(PossiblyModified(act), ~AlwaysSaveOnExit)
             /\ UNCHANGED sessions
          \/ /\ last => AutoSaveIdles(PossiblyModified(act))
             /\ RemoveSessionInternal(s)
             /\ active' = act
             /\ excuses' = excuses \cup why \cup races
             /\ UNCHANGED <<fresh, saving>>
    BY DEF RemoveSession
  <2>2. excuses' = excuses \cup why \cup races => races = {}
    <3> HIDE DEF races
    <3> QED
      OBVIOUS
  <2>3. races = {} => ~ghost /\ ~SaveUnderWay(s)
    <3> HIDE DEF ghost
    <3>1. "ghost" \in {"ghost", "orphan"} /\ "orphan" \in {"ghost", "orphan"} /\ "orphan" # "ghost"
      OBVIOUS
    <3> QED
      BY <3>1
  <2>4. ~ghost /\ s \notin readOnly /\ haveAnotherEditableSession(s)
          => \E t \in sessions \ {s} : EditableView(t) /\ t \notin closed
    BY DEF haveAnotherEditableSession
  <2> HIDE DEF ghost, races
  <2> QED
    BY <2>1, <2>2, <2>3, <2>4
<1> QED
  BY <1>1, <1>2, <1>3, <1>4
\* saveToStorageInternal, with no fault: the file is uploaded, or nothing is.
LEMMA StoringInternal ==
    ASSUME NEW success, NEW force, NEW why,
           SaveToStorageInternal(success, force, why), excuses' = {}
    PROVE  /\ saving' = FALSE /\ why = {}
           /\ \/ /\ store' = jail /\ isModified' = FALSE /\ fresh' = TRUE /\ ~fresh
                 /\ success \/ force
              \/ /\ UNCHANGED <<store, isModified, fresh>>
                 /\ ~(success \/ force) \/ fresh
<1>1. "upload" \in {"upload"} /\ "conflict" \in {"conflict"}
  OBVIOUS
<1> QED
  BY <1>1 DEF SaveToStorageInternal, Uploads, UploadFails, UploadFindsConflict

\* saveToStorage, with no save under way but the one that is answered.
LEMMA StoringKeeps ==
    ASSUME TypeOK, StorageInv, FlagsAreRight, MarkedIsClosed, kitAlive,
           NEW s \in Sessions, NEW success \in BOOLEAN, NEW force \in BOOLEAN, NEW why,
           SaveToStorage(s, success, force, why), excuses' = {},
           \A i \in 1..Len(toKit) : toKit[i].t # "save",
           \A i \in 1..Len(fromKit') : fromKit'[i].t # "saved",
           active => active', viewLoaded \subseteq viewLoaded',
           UNCHANGED <<outsideVars, closed, readOnly>>
    PROVE  /\ ToldMore /\ StoredMore /\ AnswersAwaited /\ ActivityKept
           /\ sessions' \subseteq sessions /\ saving' = FALSE
           /\ \A x \in Sessions : ~SaveUnderWay(x)'
           /\ success => jail \subseteq store'
           /\ isModified' = isModified \/ (isModified' = FALSE /\ ~fresh)
<1> USE DEF outsideVars
<1> DEFINE forced == force \/ (isMarkedToDestroy /\ AlwaysSaveOnExit)
<1>0. sessions \in SUBSET Sessions /\ fresh \in BOOLEAN
  BY DEF TypeOK, BrokerTypeOK, ChannelTypeOK
<1>1. SaveToStorageInternal(success, forced, why)
  BY DEF SaveToStorage
<1> HIDE DEF forced
<1>2. /\ saving' = FALSE
      /\ \/ store' = jail /\ isModified' = FALSE /\ fresh' = TRUE /\ ~fresh
         \/ UNCHANGED <<store, isModified, fresh>> /\ (~success \/ fresh)
  BY <1>1, StoringInternal
<1>3. StoredMore /\ (success => jail \subseteq store')
  BY <1>2 DEF StoredMore, StorageInv, StorageChain, FlagsAreRight
<1>4. /\ sessions' \subseteq sessions
      /\ \/ toKit' = toKit
         \/ \E m \in ToKitMsg : toKit' = Append(toKit, m) /\ m.t = "disconnect"
  <2>1. RemoveSessionInternal(s) \/ UNCHANGED <<sessions, toKit>>
    BY DEF SaveToStorage
  <2>2. PICK m \in ToKitMsg : m = [t |-> "disconnect", s |-> s]
    BY ToKitMessages
  <2> QED
    BY <2>1, <2>2 DEF RemoveSessionInternal, Sent
<1>5. ToldMore
  BY <1>4 DEF ToldMore
<1>6. ASSUME NEW x \in Sessions
      PROVE  ~SaveUnderWay(x)'
  <2>1. CASE toKit' = toKit
    BY <2>1 DEF SaveUnderWay
  <2>2. ASSUME NEW m \in ToKitMsg, toKit' = Append(toKit, m), m.t = "disconnect"
        PROVE  ~SaveUnderWay(x)'
    BY <2>2, ToldFacts DEF SaveUnderWay
  <2> QED
    BY <1>4, <2>1, <2>2
<1>7. AnswersAwaited
  BY <1>0, <1>6 DEF AnswersAwaited
<1>8. SomeoneEdits => SomeoneEdits'
  <2>1. \/ UNCHANGED sessions
        \/ sessions' = sessions \ {s} /\ (markToDestroy \/ s \in closed)
    BY DEF SaveToStorage, RemoveSessionInternal
  <2>2. sessions \ closed \subseteq sessions' \ closed'
    BY <2>1 DEF MarkedIsClosed
  <2> QED
    BY <2>2 DEF SomeoneEdits, EditableView
<1> QED
  BY <1>2, <1>3, <1>4, <1>5, <1>6, <1>7, <1>8 DEF ActivityKept

\* An answer to nobody's question is not among those that may be overtaken.
LEMMA NoOverlap ==
    ASSUME NEW answers, Overlap(answers) = {}
    PROVE  /\ \A i \in 1..Len(toKit) : toKit[i].t # "save"
           /\ \A i \in 1..Len(answers) : answers[i].t # "saved"
<1>1. "overlap" \in {"overlap"}
  OBVIOUS
<1> QED
  BY <1>1 DEF Overlap

LEMMA NotOutdated == Outdated = {} => ~isModified \/ fresh
<1>1. "outdated" \in {"outdated"}
  OBVIOUS
<1> QED
  BY <1>1 DEF Outdated

\* The history never forgets.
LEMMA ExcusesGrow ==
    ASSUME BrokerStep \/ KitStep
    PROVE  excuses \subseteq excuses'
<1>1. CASE KitStep
  BY <1>1 DEF KitStep, KitHandle, KitSession, KitLoad, KitLoadFails, KitEdit, KitSaveSkips,
              KitSaves, KitSaveFails, KitDisconnect, KitPurge, KitCrash
<1>r. ASSUME NEW s, NEW act, NEW why, RemoveSession(s, act, why)
      PROVE  excuses \subseteq excuses'
  <2> DEFINE races(ghost) == {r \in {"ghost", "orphan"} :
                                IF r = "ghost" THEN ghost ELSE SaveUnderWay(s)}
  <2>1. \/ excuses' = excuses
        \/ excuses' = excuses \cup why
        \/ \E ghost : excuses' = excuses \cup why \cup races(ghost)
    BY <1>r DEF RemoveSession
  <2> HIDE DEF races
  <2> QED
    BY <2>1
<1>s. ASSUME NEW s, NEW success, NEW force, NEW why, SaveToStorage(s, success, force, why)
      PROVE  excuses \subseteq excuses'
  <2> DEFINE forced == force \/ (isMarkedToDestroy /\ AlwaysSaveOnExit)
  <2>1. SaveToStorageInternal(success, forced, why)
    BY <1>s DEF SaveToStorage
  <2> HIDE DEF forced
  <2> QED
    BY <2>1 DEF SaveToStorageInternal
<1>2. ASSUME NEW s \in Sessions, Join(s) \/ Disconnect(s) \/ ClientCommand(s)
      PROVE  excuses \subseteq excuses'
  <2>1. CASE Disconnect(s) \/ \E r \in Sessions : ClientRemovesSession(s, r)
    BY <1>r, <2>1 DEF Disconnect, ClientRemovesSession
  <2>2. CASE ClientSaveToStorage(s)
    BY <1>s, <2>2 DEF ClientSaveToStorage
  <2>3. CASE \/ Join(s) \/ ClientActivity(s) \/ ClientLoad(s) \/ ClientSave(s)
             \/ SaveAsToStorage(s) \/ ClientSetModified(s) \/ ClientClosesDocument(s)
             \/ ClientDiscards(s) \/ \E e \in Edits : ClientEdit(s, e)
    BY <2>3 DEF Join, ClientActivity, ClientLoad, ClientSave, SaveAsToStorage,
                ClientSetModified, ClientClosesDocument, ClientDiscards, ClientEdit,
                channelVars
  <2> QED
    BY <1>2, <2>1, <2>2, <2>3 DEF ClientCommand
<1>3. CASE HandleStatus \/ HandleSaveResult
  BY <1>3, <1>s DEF HandleStatus, HandleSaveResult, storageVars
<1>4. CASE \/ HandleModifiedStatus \/ KitDisconnected \/ BrokerBody \/ GetChild
           \/ FailToGetChild \/ RequestShutdown \/ Terminate \/ Finish
  BY <1>4 DEF HandleModifiedStatus, KitDisconnected, BrokerBody, LoadTimedOut, WaitForSave,
              SaveAndClose, TimedAutoSave, NothingToSave, CloseIdle, CloseDead, Linger,
              PastSaveTimeout, IdleTimePassed, GetChild, FailToGetChild, RequestShutdown,
              Terminate, Finish, channelVars
<1> QED
  BY <1>1, <1>2, <1>3, <1>4 DEF BrokerStep, BrokerNext, HandleKit

\* Every step of the broker that leaves the kit alive does no more than that.
LEMMA BrokerStepKeeps ==
    ASSUME TypeOK, TypeOK', StorageInv, OrderInv, OrderInv', SaveInv, MarkedIsClosed, BrokerStep,
           excuses = {}, excuses' = {}, kitAlive, kitAlive'
    PROVE  BrokerKeeps
<1> USE DEF outsideVars
<1>0. /\ UNCHANGED kitVars /\ FlagsAreRight /\ SavesAreAwaited
      /\ sessions \in SUBSET Sessions
  BY DEF BrokerStep, SaveInv, TypeOK, BrokerTypeOK
<1>n. \A r : excuses' # excuses \cup {r}
  OBVIOUS
<1>1. ASSUME NEW s \in Sessions, Join(s)
      PROVE  BrokerKeeps
  <2>1. /\ UNCHANGED <<outsideVars, fromKit, store, fresh, saving, active, isModified, viewLoaded>>
        /\ s \notin joined /\ joined' = joined \cup {s} /\ kitAlive' = kitAlive
        /\ readOnly' \subseteq readOnly \cup {s} /\ closed' \subseteq closed \cup {s}
    BY <1>0, <1>1 DEF Join, historyVars
  <2>2. \/ /\ sessions' = sessions \cup {s}
           /\ toKit' = Sent([t |-> "session", s |-> s])
        \/ UNCHANGED <<sessions, toKit>>
    BY <1>1 DEF Join
  <2>3. PICK m \in ToKitMsg : m = [t |-> "session", s |-> s]
    BY ToKitMessages
  <2>4. \/ UNCHANGED <<sessions, toKit>>
        \/ toKit' = Append(toKit, m) /\ m.t = "session" /\ sessions' = sessions \cup {s}
    BY <2>2, <2>3 DEF Sent
  <2>5. ToldMore /\ HeardOne /\ StoredMore /\ ModifiedKept
    BY <2>1, <2>4 DEF ToldMore, HeardOne, StoredMore, ModifiedKept
  <2>6. AnswersAwaited
    BY <2>1, <2>4 DEF AnswersAwaited
  <2>7. ActivityKept
    <3>1. s \notin sessions
      BY <2>1 DEF OrderInv, ViewInv, SessionsKnown
    <3>2. \A t \in sessions \ closed : EditableView(t) =>
            t \in sessions' \ closed' /\ EditableView(t)'
      BY <2>1, <2>4, <3>1 DEF EditableView
    <3> QED
      BY <2>1, <3>2 DEF ActivityKept, SomeoneEdits
  <2> QED
    BY <2>1, <2>4, <2>5, <2>6, <2>7 DEF BrokerKeeps
<1>2. ASSUME NEW s \in Sessions, Disconnect(s)
      PROVE  BrokerKeeps
  <2>1. /\ RemoveSession(s, active, {}) /\ closed' = closed \cup {s}
        /\ UNCHANGED <<outsideVars, fromKit, store, isModified, readOnly, viewLoaded>>
    BY <1>0, <1>2 DEF Disconnect, historyVars
  <2>2. active \in BOOLEAN
    BY DEF TypeOK, BrokerTypeOK
  <2> QED
    BY <2>1, <2>2, RemovingKeeps
<1>3. ASSUME NEW s \in Sessions, NEW r \in Sessions, ClientRemovesSession(s, r)
      PROVE  BrokerKeeps
  <2>1. /\ RemoveSession(r, TRUE, IF sessions = {r} THEN {"discard"} ELSE {})
        /\ UNCHANGED <<outsideVars, fromKit, store, isModified, readOnly, viewLoaded, closed>>
    BY <1>0, <1>3 DEF ClientRemovesSession, historyVars
  <2> QED
    BY <2>1, RemovingKeeps
<1>4. ASSUME NEW s \in Sessions, ClientLoad(s)
      PROVE  BrokerKeeps
  <2>1. PICK m \in ToKitMsg : m = [t |-> "load", s |-> s]
    BY ToKitMessages
  <2>2. /\ toKit' = Append(toKit, m) /\ m.t = "load"
        /\ UNCHANGED <<outsideVars, fromKit, store, fresh, saving, isModified, viewLoaded,
                       sessions, closed, readOnly>>
        /\ active' = TRUE
    BY <1>0, <1>4, <2>1 DEF ClientLoad, Sent, historyVars
  <2>3. ToldMore /\ HeardOne /\ StoredMore /\ ModifiedKept /\ AnswersAwaited
    BY <2>2 DEF ToldMore, HeardOne, StoredMore, ModifiedKept, AnswersAwaited
  <2>4. ActivityKept
    BY <2>2 DEF ActivityKept, SomeoneEdits, EditableView
  <2> QED
    BY <2>2, <2>3, <2>4 DEF BrokerKeeps
<1>5. ASSUME NEW s \in Sessions, NEW e \in Edits, ClientEdit(s, e)
      PROVE  BrokerKeeps
  <2>1. PICK m \in ToKitMsg : m = [t |-> "edit", s |-> s, e |-> e]
    BY ToKitMessages
  <2>2. /\ toKit' = Append(toKit, m) /\ m.t = "edit" /\ m.s = s /\ m.e = e
        /\ UNCHANGED <<jail, kitVars, fromKit, store, fresh, saving, isModified, viewLoaded,
                       sessions, closed, readOnly>>
        /\ active' = TRUE
        /\ e \notin typed /\ owed' \subseteq owed \cup {e}
        /\ s \in sessions \ closed /\ s \in viewLoaded \ readOnly
    BY <1>0, <1>5, <2>1 DEF ClientEdit, Sent, Live, EditableView, sessionVars
  <2>3. TypedNow(m)
    BY <2>2 DEF TypedNow
  <2>4. ToldMore
    BY <2>2, <2>3 DEF ToldMore
  <2>5. HeardOne /\ StoredMore /\ ModifiedKept /\ AnswersAwaited
    BY <2>2 DEF HeardOne, StoredMore, ModifiedKept, AnswersAwaited
  <2>6. ActivityKept
    BY <2>2 DEF ActivityKept, SomeoneEdits, EditableView
  <2> QED
    BY <2>2, <2>4, <2>5, <2>6 DEF BrokerKeeps
<1>6. ASSUME NEW s \in Sessions, ClientSave(s)
      PROVE  BrokerKeeps
  <2>1. PICK skip \in BOOLEAN : SendUnoSave(s, skip)
    BY <1>6 DEF ClientSave
  <2>2. /\ UNCHANGED <<outsideVars, fromKit, store, sessions, isModified>>
        /\ s \in sessions
    BY <1>0, <1>6 DEF ClientSave, Live, sessionVars, historyVars
  <2> QED
    BY <2>1, <2>2, SavingKeeps
<1>7. ASSUME NEW s \in Sessions, ClientSaveToStorage(s)
      PROVE  BrokerKeeps
  <2> DEFINE why == Overlap(fromKit) \cup Outdated
  <2>1. /\ SaveToStorage(s, TRUE, TRUE, why) /\ fromKit' = fromKit /\ active' = TRUE
        /\ UNCHANGED <<outsideVars, closed, readOnly, viewLoaded>>
    BY <1>0, <1>7 DEF ClientSaveToStorage, historyVars
  <2>2. why = {}
    <3> HIDE DEF why
    <3> QED
      BY <2>1, StoringInternal DEF SaveToStorage
  <2>3. Overlap(fromKit) = {} /\ Outdated = {}
    BY <2>2
  <2>4. /\ \A i \in 1..Len(toKit) : toKit[i].t # "save"
        /\ \A i \in 1..Len(fromKit') : fromKit'[i].t # "saved"
    BY <2>1, <2>3, NoOverlap
  <2> HIDE DEF why
  <2>5. /\ ToldMore /\ StoredMore /\ AnswersAwaited /\ ActivityKept
        /\ sessions' \subseteq sessions
        /\ isModified' = isModified \/ (isModified' = FALSE /\ ~fresh)
    BY <1>0, <2>1, <2>4, StoringKeeps
  <2>6. isModified => isModified'
    BY <2>3, <2>5, NotOutdated
  <2>7. HeardOne /\ ModifiedKept
    BY <2>1, <2>6 DEF HeardOne, ModifiedKept
  <2> QED
    BY <2>1, <2>5, <2>7 DEF BrokerKeeps
<1>8. ASSUME NEW s \in Sessions, SaveAsToStorage(s)
      PROVE  BrokerKeeps
  <2>1. /\ excuses' = excuses \cup Overlap(fromKit) /\ active' \in {active, TRUE}
        /\ UNCHANGED <<outsideVars, toKit, fromKit, store, fresh, isModified, sessions, closed,
                       readOnly, viewLoaded>>
    BY <1>0, <1>8 DEF SaveAsToStorage, sessionVars, historyVars
  <2>2. Overlap(fromKit) = {}
    BY <2>1
  <2>3. AnswersAwaited
    BY <2>1, <2>2, NoOverlap DEF AnswersAwaited, SaveUnderWay
  <2>4. ToldMore /\ HeardOne /\ StoredMore /\ ModifiedKept
    BY <2>1 DEF ToldMore, HeardOne, StoredMore, ModifiedKept
  <2>5. ActivityKept
    BY <2>1 DEF ActivityKept, SomeoneEdits, EditableView
  <2> QED
    BY <2>1, <2>3, <2>4, <2>5 DEF BrokerKeeps
<1>9. ASSUME NEW s \in Sessions,
             \/ ClientActivity(s) \/ ClientSetModified(s) \/ ClientClosesDocument(s)
             \/ ClientDiscards(s)
      PROVE  BrokerKeeps
  <2>1. /\ UNCHANGED <<outsideVars, toKit, fromKit, store, fresh, saving, sessions, closed,
                       readOnly, viewLoaded>>
        /\ active' = TRUE /\ (isModified => isModified')
    BY <1>0, <1>9 DEF ClientActivity, ClientSetModified, ClientClosesDocument, ClientDiscards,
                      sessionVars, historyVars, channelVars
  <2>2. SomeoneEdits => SomeoneEdits'
    BY <2>1 DEF SomeoneEdits, EditableView
  <2> QED
    BY <2>1, <2>2, QuietKeeps
<1>10. CASE HandleStatus
  <2>1. /\ fromKit # <<>> /\ fromKit' = Tail(fromKit) /\ Head(fromKit).t = "status"
        /\ UNCHANGED <<outsideVars, closed, readOnly, active>>
    BY <1>0, <1>10 DEF HandleStatus, ReceiveFromKit, historyVars
  <2>2. HeardOne
    BY <2>1 DEF HeardOne
  <2>3. CASE UNCHANGED storageVars
    <3>1. UNCHANGED <<toKit, store, fresh, saving, sessions, isModified>>
      BY <2>3 DEF storageVars
    <3>2. viewLoaded \subseteq viewLoaded'
      BY <1>10 DEF HandleStatus
    <3>3. ToldMore /\ StoredMore /\ AnswersAwaited /\ ModifiedKept
      BY <2>1, <3>1 DEF ToldMore, StoredMore, AnswersAwaited, ModifiedKept
    <3>4. ActivityKept
      BY <2>1, <3>1, <3>2 DEF ActivityKept, SomeoneEdits, EditableView
    <3> QED
      BY <2>1, <2>2, <3>1, <3>3, <3>4 DEF BrokerKeeps
  <2>4. ASSUME ~UNCHANGED storageVars
        PROVE  BrokerKeeps
    <3> DEFINE why == Overlap(fromKit) \cup Outdated
    <3>1. PICK s \in Sessions : SaveToStorage(s, TRUE, FALSE, why)
      BY <1>0, <1>10, <2>4 DEF HandleStatus
    <3>2. viewLoaded \subseteq viewLoaded'
      BY <1>10 DEF HandleStatus
    <3>3. why = {}
      <4> HIDE DEF why
      <4> QED
        BY <3>1, StoringInternal DEF SaveToStorage
    <3>4. Overlap(fromKit) = {} /\ Outdated = {}
      BY <3>3
    <3>5. /\ \A i \in 1..Len(toKit) : toKit[i].t # "save"
          /\ \A i \in 1..Len(fromKit) : fromKit[i].t # "saved"
      BY <3>4, NoOverlap
    <3>6. \A i \in 1..Len(fromKit') : fromKit'[i].t # "saved"
      BY <2>1, <3>5, AnswerFacts
    <3> HIDE DEF why
    <3>7. /\ ToldMore /\ StoredMore /\ AnswersAwaited /\ ActivityKept
          /\ sessions' \subseteq sessions
          /\ isModified' = isModified \/ (isModified' = FALSE /\ ~fresh)
      BY <1>0, <2>1, <3>1, <3>2, <3>5, <3>6, StoringKeeps
    <3>8. isModified => isModified'
      BY <3>4, <3>7, NotOutdated
    <3>9. ModifiedKept
      BY <2>1, <3>8 DEF ModifiedKept
    <3> QED
      BY <2>1, <2>2, <3>7, <3>9 DEF BrokerKeeps
  <2> QED
    BY <2>3, <2>4
<1>11. CASE HandleModifiedStatus
  <2>1. /\ fromKit # <<>> /\ fromKit' = Tail(fromKit) /\ Head(fromKit).t = "modified"
        /\ UNCHANGED <<outsideVars, toKit, store, fresh, saving, sessions, closed, readOnly,
                       viewLoaded, active>>
        /\ isModified' = IF Head(fromKit).to \cap sessions # {}
                         THEN Head(fromKit).v ELSE isModified
    BY <1>0, <1>11 DEF HandleModifiedStatus, ReceiveFromKit, historyVars, sessionVars
  <2>2. ToldMore /\ HeardOne /\ StoredMore /\ AnswersAwaited
    BY <2>1 DEF ToldMore, HeardOne, StoredMore, AnswersAwaited
  <2>3. ModifiedKept
    BY <2>1 DEF ModifiedKept, Clears
  <2>4. ActivityKept
    BY <2>1 DEF ActivityKept, SomeoneEdits, EditableView
  <2> QED
    BY <2>1, <2>2, <2>3, <2>4 DEF BrokerKeeps
<1>12. CASE HandleSaveResult
  <2>1. /\ fromKit # <<>> /\ fromKit' = Tail(fromKit) /\ Head(fromKit).t = "saved"
        /\ UNCHANGED <<outsideVars, closed, readOnly, active, viewLoaded>>
    BY <1>0, <1>12 DEF HandleSaveResult, ReceiveFromKit, historyVars
  <2>2. PICK m \in FromKitMsg : m = Head(fromKit) /\ m = fromKit[1] /\ 1 \in 1..Len(fromKit)
    BY <2>1, AnswerFacts
  <2>3. m.s \in Sessions /\ m.ok \in BOOLEAN
    BY <2>1, <2>2 DEF FromKitMsg, StatusMsg, ModifiedMsg, SavedMsg
  <2>4. m.s \in sessions
    BY <1>0, <2>1, <2>2, <2>3 DEF SavesAreAwaited, SaveUnderWay
  <2>5. SaveToStorage(m.s, m.ok, FALSE, Overlap(fromKit'))
    BY <1>12, <2>1, <2>2, <2>4 DEF HandleSaveResult
  <2>6. Overlap(fromKit') = {}
    BY <2>5, StoringInternal DEF SaveToStorage
  <2>7. /\ \A i \in 1..Len(toKit) : toKit[i].t # "save"
        /\ \A i \in 1..Len(fromKit') : fromKit'[i].t # "saved"
    BY <2>6, NoOverlap
  <2>8. /\ ToldMore /\ StoredMore /\ AnswersAwaited /\ ActivityKept
        /\ sessions' \subseteq sessions
        /\ m.ok => jail \subseteq store'
    BY <1>0, <2>1, <2>3, <2>5, <2>7, StoringKeeps
  <2>9. HeardOne /\ ModifiedKept
    BY <2>1, <2>2, <2>8 DEF HeardOne, ModifiedKept, Clears
  <2> QED
    BY <2>1, <2>8, <2>9 DEF BrokerKeeps
<1>13. CASE \/ GetChild \/ RequestShutdown \/ Terminate \/ WaitForSave \/ NothingToSave
            \/ CloseDead \/ Linger
  <2>1. UNCHANGED <<outsideVars, toKit, fromKit, store, fresh, saving, sessions, closed,
                    readOnly, viewLoaded, active, isModified>>
    BY <1>0, <1>13 DEF GetChild, RequestShutdown, Terminate, WaitForSave, NothingToSave,
                       CloseDead, Linger, bodyRest, savingVars, flagVars, sessionVars,
                       historyVars, channelVars
  <2>2. SomeoneEdits => SomeoneEdits'
    BY <2>1 DEF SomeoneEdits, EditableView
  <2> QED
    BY <2>1, <2>2, QuietKeeps
<1>14. CASE SaveAndClose \/ TimedAutoSave \/ CloseIdle
  <2>1. UNCHANGED <<outsideVars, fromKit, store, sessions, closed, readOnly, viewLoaded,
                    isModified>>
    BY <1>0, <1>14 DEF SaveAndClose, TimedAutoSave, CloseIdle, bodyRest, sessionVars,
                       historyVars
  <2>2. \/ UNCHANGED savingVars
        \/ \E force : AutoSaveSends(force, TRUE)
    BY <1>14 DEF SaveAndClose, TimedAutoSave, CloseIdle
  <2>3. CASE UNCHANGED savingVars
    <3>1. UNCHANGED <<toKit, fresh, saving, active>>
      BY <2>3 DEF savingVars
    <3>2. SomeoneEdits => SomeoneEdits'
      BY <2>1 DEF SomeoneEdits, EditableView
    <3> QED
      BY <2>1, <3>1, <3>2, QuietKeeps
  <2>4. CASE \E force : AutoSaveSends(force, TRUE)
    BY <2>1, <2>4, AutoSaveKeeps
  <2> QED
    BY <2>2, <2>3, <2>4
<1>15. ~KitDisconnected /\ ~FailToGetChild /\ ~LoadTimedOut /\ ~Finish
  BY DEF KitDisconnected, FailToGetChild, LoadTimedOut, Finish
<1> QED
  BY <1>1, <1>2, <1>3, <1>4, <1>5, <1>6, <1>7, <1>8, <1>9, <1>10, <1>11, <1>12, <1>13,
     <1>14, <1>15 DEF BrokerStep, BrokerNext, ClientCommand, HandleKit, BrokerBody
-----------------------------------------------------------------------------
(* What each step of the kit does, while it lives and no fault happens.    *)

\* The answers on their way stay on their way; what comes behind one of them
\* does not clear a document that is modified.
AnswersStay ==
    \A k \in 1..Len(fromKit) : \E i \in 1..Len(fromKit') :
      /\ fromKit'[i] = fromKit[k]
      /\ kitModified' =>
           \A x \in i..Len(fromKit') :
             Clears(fromKit'[x]) => \E y \in k..Len(fromKit) : fromKit'[x] = fromKit[y]

NoneClears ==
    kitModified' =>
      \A i \in 1..Len(fromKit') : Clears(fromKit'[i]) => Old(fromKit'[i])

\* Only the save that is handled is answered, and its session has a view.
SaveAnswered ==
    /\ \A i \in 1..Len(fromKit') :
         fromKit'[i].t = "saved" =>
           \/ Old(fromKit'[i])
           \/ Head(toKit).t = "save" /\ fromKit'[i].s = Head(toKit).s
    /\ Head(toKit).t = "save" => Head(toKit).s \in kitViews'

\* A view that is new, or finds the document newly modified, is told so last.
NewlyTold ==
    kitModified' =>
      \A t \in kitViews' :
        \/ t \in kitViews /\ kitModified
        \/ \E i \in 1..Len(fromKit') :
             /\ i = Len(fromKit')
             /\ fromKit'[i].t = "modified" /\ fromKit'[i].v /\ t \in fromKit'[i].to

\* No unsaved edit is forgotten, and a save takes what it includes to the file.
EditsTaken ==
    /\ \A e \in Unsaved :
         e \in jail \cup doc \/ (Head(toKit).t = "edit" /\ Head(toKit).e = e)
           => e \in jail' \cup doc'
    /\ \A e \in Unsaved : SaveOf(e, 1) => e \in jail' /\ Written'
    /\ \A e \in Unsaved : e \in jail => e \in jail'
    /\ \A t \in kitViews \ kitViews' : Drops(1, t)

KitTakes ==
    /\ toKit # <<>> /\ toKit' = Tail(toKit) /\ kitAlive /\ kitAlive'
    /\ UNCHANGED brokerVars
    /\ AnswersStay /\ NoneClears /\ SaveAnswered /\ NewlyTold /\ EditsTaken

\* An answer that is appended stays behind all others.
LEMMA AnswerAppended ==
    ASSUME TypeOK, NEW m \in FromKitMsg, fromKit' = Append(fromKit, m),
           kitModified' => ~Clears(m)
    PROVE  /\ AnswersStay /\ NoneClears
           /\ \A i \in 1..Len(fromKit') : Old(fromKit'[i]) \/ fromKit'[i] = m
           /\ Len(fromKit') \in 1..Len(fromKit') /\ fromKit'[Len(fromKit')] = m
<1>0. fromKit \in Seq(FromKitMsg) /\ Len(fromKit) \in Nat
  BY DEF TypeOK, ChannelTypeOK
<1>1. /\ Len(fromKit') = Len(fromKit) + 1
      /\ fromKit'[Len(fromKit) + 1] = m
      /\ \A k \in 1..Len(fromKit) : fromKit'[k] = fromKit[k]
  BY <1>0, AppendFacts
<1>2. \A i \in 1..Len(fromKit') : i \in 1..Len(fromKit) \/ i = Len(fromKit) + 1
  BY <1>0, <1>1
<1>3. \A i \in 1..Len(fromKit') : Old(fromKit'[i]) \/ fromKit'[i] = m
  BY <1>1, <1>2 DEF Old
<1>4. NoneClears
  BY <1>3 DEF NoneClears
<1>5. AnswersStay
  <2>1. ASSUME NEW k \in 1..Len(fromKit)
        PROVE  /\ k \in 1..Len(fromKit') /\ fromKit'[k] = fromKit[k]
               /\ kitModified' =>
                    \A x \in k..Len(fromKit') :
                      Clears(fromKit'[x]) => \E y \in k..Len(fromKit) : fromKit'[x] = fromKit[y]
    <3>1. k \in 1..Len(fromKit') /\ fromKit'[k] = fromKit[k]
      BY <1>0, <1>1
    <3>2. ASSUME kitModified', NEW x \in k..Len(fromKit'), Clears(fromKit'[x])
          PROVE  \E y \in k..Len(fromKit) : fromKit'[x] = fromKit[y]
      <4>1. x # Len(fromKit) + 1
        BY <1>1, <3>2
      <4>2. x \in k..Len(fromKit) /\ x \in 1..Len(fromKit)
        BY <1>0, <1>1, <4>1
      <4> QED
        BY <1>1, <4>2
    <3> QED
      BY <3>1, <3>2
  <2> QED
    BY <2>1 DEF AnswersStay
<1>6. Len(fromKit') \in 1..Len(fromKit') /\ fromKit'[Len(fromKit')] = m
  BY <1>0, <1>1
<1> QED
  BY <1>3, <1>4, <1>5, <1>6

LEMMA AnswersSame ==
    ASSUME TypeOK, fromKit' = fromKit
    PROVE  AnswersStay /\ NoneClears /\ \A i \in 1..Len(fromKit') : Old(fromKit'[i])
<1>1. \A k \in 1..Len(fromKit) : k \in 1..Len(fromKit') /\ fromKit'[k] = fromKit[k]
  OBVIOUS
<1> QED
  BY <1>1 DEF AnswersStay, NoneClears, Old

\* The answers to a load.
LEMMA LoadTells ==
    ASSUME TypeOK, KitLoad
    PROVE  AnswersStay /\ NoneClears /\ SaveAnswered /\ NewlyTold
<1>0. fromKit \in Seq(FromKitMsg) /\ Len(fromKit) \in Nat
  BY DEF TypeOK, ChannelTypeOK
<1>1. PICK s \in Sessions, j \in 0..Len(fromKit) :
        /\ s = Head(toKit).s
        /\ Len(fromKit') = Len(fromKit) + 2
        /\ fromKit'[j + 1] = [t |-> "status", s |-> s]
        /\ \A k \in 1..j : fromKit'[k] = fromKit[k]
        /\ \A k \in (j + 1)..Len(fromKit) : fromKit'[k + 1] = fromKit[k]
        /\ fromKit'[Len(fromKit) + 2] = [t |-> "modified", to |-> {s}, v |-> kitModified']
  BY LoadAnswers
<1>2. fromKit'[j + 1].t = "status" /\ ~Clears(fromKit'[j + 1])
  BY <1>1 DEF Clears
<1>3. /\ fromKit'[Len(fromKit) + 2].t = "modified"
      /\ fromKit'[Len(fromKit) + 2].v = kitModified'
      /\ fromKit'[Len(fromKit) + 2].to = {s}
      /\ kitModified' => ~Clears(fromKit'[Len(fromKit) + 2])
  BY <1>1 DEF Clears
<1>4. \A x \in 1..Len(fromKit') :
        \/ x = j + 1
        \/ x = Len(fromKit) + 2
        \/ x \in 1..j /\ x \in 1..Len(fromKit) /\ fromKit'[x] = fromKit[x]
        \/ /\ x - 1 \in (j + 1)..Len(fromKit) /\ x - 1 \in 1..Len(fromKit)
           /\ fromKit'[x] = fromKit[x - 1]
  <2>1. ASSUME NEW x \in 1..Len(fromKit'), x # j + 1, x # Len(fromKit) + 2, x \notin 1..j
        PROVE  /\ x - 1 \in (j + 1)..Len(fromKit) /\ x - 1 \in 1..Len(fromKit)
               /\ fromKit'[x] = fromKit[x - 1]
    <3>1. /\ x - 1 \in (j + 1)..Len(fromKit) /\ x - 1 \in 1..Len(fromKit)
          /\ (x - 1) + 1 = x
      BY <1>0, <1>1, <2>1
    <3> QED
      BY <1>1, <3>1
  <2>2. \A x \in 1..j : x \in 1..Len(fromKit) /\ fromKit'[x] = fromKit[x]
    BY <1>0, <1>1
  <2> QED
    BY <2>1, <2>2
<1>5. NoneClears
  BY <1>2, <1>3, <1>4 DEF NoneClears, Old
<1>6. AnswersStay
  <2>1. ASSUME NEW k \in 1..Len(fromKit)
        PROVE  \E i \in 1..Len(fromKit') :
                 /\ fromKit'[i] = fromKit[k]
                 /\ kitModified' =>
                      \A x \in i..Len(fromKit') :
                        Clears(fromKit'[x]) => \E y \in k..Len(fromKit) : fromKit'[x] = fromKit[y]
    <3>1. CASE k \in 1..j
      <4>1. k \in 1..Len(fromKit') /\ fromKit'[k] = fromKit[k]
        BY <1>0, <1>1, <3>1
      <4>2. ASSUME kitModified', NEW x \in k..Len(fromKit'), Clears(fromKit'[x])
            PROVE  \E y \in k..Len(fromKit) : fromKit'[x] = fromKit[y]
        <5>1. x \in 1..Len(fromKit') /\ x # j + 1 /\ x # Len(fromKit) + 2
          BY <1>0, <1>2, <1>3, <4>1, <4>2
        <5>2. CASE x \in 1..j /\ x \in 1..Len(fromKit) /\ fromKit'[x] = fromKit[x]
          <6>1. x \in k..Len(fromKit)
            BY <4>2, <5>2
          <6> QED
            BY <5>2, <6>1
        <5>3. CASE /\ x - 1 \in (j + 1)..Len(fromKit) /\ x - 1 \in 1..Len(fromKit)
                   /\ fromKit'[x] = fromKit[x - 1]
          <6>1. x - 1 \in k..Len(fromKit)
            BY <3>1, <5>3
          <6> QED
            BY <5>3, <6>1
        <5> QED
          BY <1>4, <5>1, <5>2, <5>3
      <4> QED
        BY <4>1, <4>2
    <3>2. CASE k \in (j + 1)..Len(fromKit)
      <4>1. k + 1 \in 1..Len(fromKit') /\ fromKit'[k + 1] = fromKit[k]
        BY <1>0, <1>1, <3>2
      <4>2. ASSUME kitModified', NEW x \in (k + 1)..Len(fromKit'), Clears(fromKit'[x])
            PROVE  \E y \in k..Len(fromKit) : fromKit'[x] = fromKit[y]
        <5>1. /\ x \in 1..Len(fromKit') /\ x # j + 1 /\ x # Len(fromKit) + 2
              /\ x \notin 1..j
          BY <1>0, <1>2, <1>3, <3>2, <4>1, <4>2
        <5>2. x - 1 \in 1..Len(fromKit) /\ fromKit'[x] = fromKit[x - 1]
          BY <1>4, <5>1
        <5>3. x - 1 \in k..Len(fromKit)
          BY <4>2, <5>2
        <5> QED
          BY <5>2, <5>3
      <4> QED
        BY <4>1, <4>2
    <3> QED
      BY <1>0, <3>1, <3>2
  <2> QED
    BY <2>1 DEF AnswersStay
<1>7. SaveAnswered
  <2>1. \A i \in 1..Len(fromKit') : fromKit'[i].t = "saved" => Old(fromKit'[i])
    BY <1>2, <1>3, <1>4 DEF Old
  <2>2. Head(toKit).t # "save"
    BY DEF KitLoad, Receive
  <2> QED
    BY <2>1, <2>2 DEF SaveAnswered
<1>8. NewlyTold
  <2>1. Len(fromKit) + 2 \in 1..Len(fromKit')
    BY <1>0, <1>1
  <2>2. kitViews' = kitViews \cup {s} /\ (kitModified' => kitModified)
    BY <1>1 DEF KitLoad
  <2> QED
    BY <1>1, <1>3, <2>1, <2>2 DEF NewlyTold
<1> QED
  BY <1>5, <1>6, <1>7, <1>8

\* The last view of the kit is dropped only once all is stored.
LEMMA LastViewSaved ==
    ASSUME TypeOK, OrderInv, ViewsStay, toKit # <<>>, \A t \in kitViews : Drops(1, t)
    PROVE  Unsaved = {}
<1>0. 1 \in 1..Len(toKit)
  BY DEF TypeOK, ChannelTypeOK
<1>1. ASSUME NEW e \in Unsaved
      PROVE  FALSE
  <2>1. PICK t \in kitViews : Drops(1, t)
    BY <1>1 DEF ViewsStay
  <2>2. toKit[1].t = "disconnect" /\ \A i \in 1..1 : ~SaveOf(e, i)
    BY <2>1 DEF Drops, SaveOf
  <2>3. ASSUME Behind(e, 1)
        PROVE  FALSE
    <3>1. PICK k \in 1..Len(toKit) : toKit[k].t = "edit" /\ k > 1
      BY <2>3 DEF Behind
    <3>2. toKit[k].s \in kitViews /\ ~Drops(1, toKit[k].s)
      BY <3>1 DEF OrderInv, QueueInv, EditsHaveViews
    <3> QED
      BY <3>2
  <2> QED
    BY <1>0, <2>2, <2>3 DEF ViewsStay
<1> QED
  BY <1>1

\* Every step of the kit that leaves it alive takes a message, but for no other
\* effect on the edits.
LEMMA KitStepTakes ==
    ASSUME TypeOK, StorageInv, OrderInv, SaveInv, KitStep, excuses = {}, excuses' = {},
           kitAlive, kitAlive'
    PROVE  KitTakes /\ FlagsAreRight'
<1> USE DEF SaveInv
<1>0. /\ UNCHANGED brokerVars /\ Unsaved' = Unsaved /\ store' = store
      /\ kitModified \in BOOLEAN
  BY DEF KitStep, brokerVars, historyVars, Unsaved, TypeOK, KitTypeOK
<1>n. \A r : excuses' # excuses \cup {r}
  OBVIOUS
<1>h. ASSUME toKit # <<>>, toKit' = Tail(toKit)
      PROVE  /\ Head(toKit) = toKit[1] /\ 1 \in 1..Len(toKit)
             /\ Head(toKit) \in ToKitMsg /\ Head(toKit).s \in Sessions
  BY <1>h, TailFacts, ToKitFields
<1>w. AnswersStay => (Written => Written')
  BY DEF Written, AnswersStay
<1>1. CASE KitSession
  <2>1. /\ toKit # <<>> /\ toKit' = Tail(toKit) /\ Head(toKit).t = "session"
        /\ UNCHANGED <<fromKit, jail, fresh, doc, kitViews, kitModified>>
    BY <1>1 DEF KitSession, Receive
  <2>2. AnswersStay /\ NoneClears /\ \A i \in 1..Len(fromKit') : Old(fromKit'[i])
    BY <2>1, AnswersSame
  <2>3. SaveAnswered /\ NewlyTold
    BY <2>1, <2>2 DEF SaveAnswered, NewlyTold
  <2>4. EditsTaken
    BY <2>1, <1>h DEF EditsTaken, SaveOf
  <2>5. FlagsAreRight'
    BY <1>0, <1>w, <2>1, <2>2 DEF FlagsAreRight
  <2> QED
    BY <1>0, <2>1, <2>2, <2>3, <2>4, <2>5 DEF KitTakes
<1>2. CASE KitLoad
  <2>1. /\ toKit # <<>> /\ toKit' = Tail(toKit) /\ Head(toKit).t = "load"
        /\ kitViews \subseteq kitViews' /\ kitViews' # {}
        /\ doc' = IF kitViews = {} THEN jail ELSE doc
        /\ kitModified' = (kitViews # {} /\ kitModified)
        /\ \/ jail' = doc' /\ fresh' = FALSE
           \/ UNCHANGED <<jail, fresh>>
    BY <1>2 DEF KitLoad, Receive
  <2>2. AnswersStay /\ NoneClears /\ SaveAnswered /\ NewlyTold
    BY <1>2, LoadTells
  <2>3. kitViews # {} => jail \subseteq doc
    BY DEF StorageInv, StorageChain
  <2>4. kitViews = {} => Unsaved = {}
    BY DEF ViewsStay
  <2>5. EditsTaken
    BY <1>h, <2>1, <2>3, <2>4 DEF EditsTaken, SaveOf
  <2>6. FlagsAreRight'
    <3>1. CASE kitViews = {}
      BY <1>0, <2>1, <2>4, <3>1 DEF FlagsAreRight
    <3>2. CASE kitViews # {}
      <4>1. doc' = doc /\ kitModified' = kitModified
        BY <1>0, <2>1, <3>2
      <4>2. ~kitModified => jail' = jail
        BY <2>1, <2>3, <3>2, <4>1 DEF FlagsAreRight
      <4>3. fresh' => jail' \subseteq store'
        BY <1>0, <2>1 DEF FlagsAreRight
      <4> QED
        BY <1>0, <1>w, <2>1, <2>2, <3>2, <4>1, <4>2, <4>3 DEF FlagsAreRight
    <3> QED
      BY <3>1, <3>2
  <2> QED
    BY <1>0, <2>1, <2>2, <2>5, <2>6 DEF KitTakes
<1>3. CASE KitEdit
  <2>1. /\ toKit # <<>> /\ toKit' = Tail(toKit) /\ Head(toKit).t = "edit"
        /\ UNCHANGED <<jail, fresh, kitViews>>
    BY <1>3 DEF KitEdit, Receive
  <2>2. Head(toKit).s \in kitViews
    BY <1>h, <2>1 DEF OrderInv, QueueInv, EditsHaveViews
  <2>3. PICK m \in FromKitMsg : m = [t |-> "modified", to |-> kitViews, v |-> TRUE]
    <3>1. kitViews \in SUBSET Sessions
      BY DEF TypeOK, KitTypeOK
    <3> QED
      BY <1>h, <2>1, <3>1, FromKitMessages
  <2>4. /\ doc' = doc \cup {Head(toKit).e} /\ kitModified' = TRUE
        /\ fromKit' = IF kitModified THEN fromKit ELSE Append(fromKit, m)
    BY <1>3, <2>2, <2>3 DEF KitEdit
  <2>5. m.t = "modified" /\ m.v = TRUE /\ m.to = kitViews /\ ~Clears(m)
    BY <2>3 DEF Clears
  <2>6. AnswersStay /\ NoneClears /\ \A i \in 1..Len(fromKit') : Old(fromKit'[i]) \/ fromKit'[i] = m
    BY <2>4, <2>5, AnswersSame, AnswerAppended
  <2>7. SaveAnswered
    BY <2>1, <2>5, <2>6 DEF SaveAnswered
  <2>8. NewlyTold
    <3>1. CASE kitModified
      BY <2>1, <3>1 DEF NewlyTold
    <3>2. CASE ~kitModified
      <4>1. Len(fromKit') \in 1..Len(fromKit') /\ fromKit'[Len(fromKit')] = m
        BY <2>4, <2>5, <3>2, AnswerAppended
      <4> QED
        BY <2>1, <2>5, <4>1 DEF NewlyTold
    <3> QED
      BY <3>1, <3>2
  <2>9. EditsTaken
    BY <1>h, <2>1, <2>4 DEF EditsTaken, SaveOf
  <2>10. FlagsAreRight'
    BY <1>0, <2>1, <2>4 DEF FlagsAreRight
  <2> QED
    BY <1>0, <2>1, <2>6, <2>7, <2>8, <2>9, <2>10 DEF KitTakes
<1>4. CASE KitSaveSkips
  <2>1. /\ toKit # <<>> /\ toKit' = Tail(toKit) /\ Head(toKit).t = "save"
        /\ UNCHANGED <<jail, fresh, kitViews, doc, kitModified>>
        /\ Head(toKit).s \in kitViews /\ ~kitModified
        /\ fromKit' = Append(fromKit, SaveResult(Head(toKit).s, FALSE))
    BY <1>4, <1>n DEF KitSaveSkips, Receive
  <2>2. PICK m \in FromKitMsg : m = SaveResult(Head(toKit).s, FALSE)
    BY <1>h, <2>1, FromKitMessages
  <2>3. m.t = "saved" /\ m.s = Head(toKit).s
    BY <2>2 DEF SaveResult
  <2>4. AnswersStay /\ NoneClears /\ \A i \in 1..Len(fromKit') : Old(fromKit'[i]) \/ fromKit'[i] = m
    BY <2>1, <2>2, AnswerAppended
  <2>5. SaveAnswered /\ NewlyTold
    BY <2>1, <2>3, <2>4 DEF SaveAnswered, NewlyTold
  <2>6. doc \subseteq jail
    BY <2>1 DEF FlagsAreRight
  <2>7. EditsTaken
    <3>1. ASSUME NEW e \in Unsaved, SaveOf(e, 1)
          PROVE  e \in jail' /\ Written'
      <4>1. ~Behind(e, 0)
        <5>1. toKit[1].t # "edit" /\ ~Behind(e, 1)
          BY <1>h, <2>1, <3>1 DEF SaveOf
        <5> QED
          BY <5>1 DEF Behind, TypeOK, ChannelTypeOK
      <4>2. e \in jail
        BY <2>6, <3>1, <4>1 DEF EditsAreSomewhere
      <4> QED
        BY <1>w, <2>1, <2>4, <3>1, <4>2 DEF FlagsAreRight
    <3> QED
      BY <1>h, <2>1, <3>1 DEF EditsTaken
  <2>8. FlagsAreRight'
    BY <1>0, <1>w, <2>1, <2>4 DEF FlagsAreRight
  <2> QED
    BY <1>0, <2>1, <2>4, <2>5, <2>7, <2>8 DEF KitTakes
<1>5. CASE KitSaves
  <2>1. /\ toKit # <<>> /\ toKit' = Tail(toKit) /\ Head(toKit).t = "save"
        /\ UNCHANGED <<kitViews, doc>>
        /\ Head(toKit).s \in kitViews /\ jail' = doc /\ kitModified' = FALSE /\ fresh' = FALSE
    BY <1>5, <1>n DEF KitSaves, Receive
  <2>2. /\ \A i \in 1..Len(fromKit') :
             \/ Old(fromKit'[i])
             \/ fromKit'[i] = SaveResult(Head(toKit).s, TRUE)
             \/ fromKit'[i].t = "modified"
        /\ \E i \in 1..Len(fromKit') : fromKit'[i] = SaveResult(Head(toKit).s, TRUE)
        /\ \A k \in 1..Len(fromKit) : k \in 1..Len(fromKit') /\ fromKit'[k] = fromKit[k]
    BY <1>5, SavesAnswers
  <2>3. AnswersStay /\ NoneClears /\ NewlyTold
    BY <2>1, <2>2 DEF AnswersStay, NoneClears, NewlyTold
  <2>4. SaveAnswered
    BY <2>1, <2>2 DEF SaveAnswered, SaveResult
  <2>5. Written'
    BY <2>2 DEF Written, SaveResult
  <2>6. jail \subseteq doc
    BY <2>1 DEF StorageInv, StorageChain
  <2>7. EditsTaken
    <3>1. ASSUME NEW e \in Unsaved, SaveOf(e, 1)
          PROVE  e \in jail'
      <4>1. ~Behind(e, 0)
        <5>1. toKit[1].t # "edit" /\ ~Behind(e, 1)
          BY <1>h, <2>1, <3>1 DEF SaveOf
        <5> QED
          BY <5>1 DEF Behind, TypeOK, ChannelTypeOK
      <4> QED
        BY <2>1, <2>6, <3>1, <4>1 DEF EditsAreSomewhere
    <3> QED
      BY <1>h, <2>1, <2>5, <2>6, <3>1 DEF EditsTaken
  <2>8. FlagsAreRight'
    BY <2>1, <2>5 DEF FlagsAreRight
  <2> QED
    BY <1>0, <2>1, <2>3, <2>4, <2>7, <2>8 DEF KitTakes
<1>6. CASE KitDisconnect
  <2> DEFINE s == Head(toKit).s
             lastView == kitViews = {s}
  <2>1. /\ toKit # <<>> /\ toKit' = Tail(toKit) /\ Head(toKit).t = "disconnect"
        /\ UNCHANGED <<fromKit, jail, fresh>>
        /\ kitViews' = kitViews \ {s}
        /\ doc' = IF lastView THEN jail ELSE doc
        /\ kitModified' = (kitModified /\ ~lastView)
    BY <1>6 DEF KitDisconnect, Receive
  <2>2. AnswersStay /\ NoneClears /\ \A i \in 1..Len(fromKit') : Old(fromKit'[i])
    BY <2>1, AnswersSame
  <2>3. SaveAnswered /\ NewlyTold
    BY <2>1, <2>2 DEF SaveAnswered, NewlyTold
  <2>4. \A t \in kitViews \ kitViews' : Drops(1, t)
    BY <1>h, <2>1 DEF Drops
  <2>5. kitViews' = {} => Unsaved = {}
    BY <2>1, <2>4, LastViewSaved
  <2>6. lastView => kitViews' = {}
    BY <2>1
  <2>7. EditsTaken
    <3>1. toKit[1].t = "disconnect"
      BY <1>h, <2>1
    <3>2. \A e \in Unsaved : doc' = doc
      BY <2>1, <2>5, <2>6
    <3> QED
      BY <1>h, <2>1, <2>4, <3>1, <3>2 DEF EditsTaken, SaveOf
  <2>8. FlagsAreRight'
    <3>1. CASE lastView
      BY <1>0, <2>1, <2>5, <2>6, <3>1 DEF FlagsAreRight
    <3>2. CASE ~lastView
      <4>1. kitModified' = kitModified /\ doc' = doc
        BY <1>0, <2>1, <3>2
      <4>2. kitViews = {} => kitViews' = {}
        BY <2>1
      <4> QED
        BY <1>0, <1>w, <2>1, <2>2, <4>1, <4>2 DEF FlagsAreRight
    <3> QED
      BY <3>1, <3>2
  <2> QED
    BY <1>0, <2>1, <2>2, <2>3, <2>7, <2>8 DEF KitTakes
<1>7. ~KitLoadFails /\ ~KitSaveFails /\ ~KitPurge /\ ~KitCrash
  BY <1>n DEF KitLoadFails, KitSaveFails, KitPurge, KitCrash
<1> QED
  BY <1>1, <1>2, <1>3, <1>4, <1>5, <1>6, <1>7 DEF KitStep, KitHandle

\* A session the broker still has keeps its view.
LEMMA ViewTaken ==
    ASSUME TypeOK, OrderInv, KitTakes, NEW t \in sessions, t \in kitViews, t \in Sessions
    PROVE  t \in kitViews'
<1>1. ~ToldToDrop(t)
  BY DEF OrderInv, QueueInv, Follows, KitTakes
<1>2. 1 \in 1..Len(toKit) \/ ~Drops(1, t)
  BY TailFacts DEF Drops, KitTakes
<1> QED
  BY <1>1, <1>2 DEF KitTakes, EditsTaken, ToldToDrop

\* No save is under way that was not.
LEMMA UnderWayTaken ==
    ASSUME TypeOK, KitTakes, NEW s \in Sessions, SaveUnderWay(s)'
    PROVE  SaveUnderWay(s)
<1>0. /\ Head(toKit) = toKit[1] /\ 1 \in 1..Len(toKit)
      /\ \A i \in 1..Len(toKit') : i + 1 \in 1..Len(toKit) /\ toKit'[i] = toKit[i + 1]
  <2>1. toKit # <<>> /\ toKit' = Tail(toKit)
    BY DEF KitTakes
  <2> QED
    BY <2>1, TailFacts
<1>1. CASE \E i \in 1..Len(toKit') : toKit'[i].t = "save" /\ toKit'[i].s = s
  BY <1>0, <1>1 DEF SaveUnderWay
<1>2. CASE \E i \in 1..Len(fromKit') : fromKit'[i].t = "saved" /\ fromKit'[i].s = s
  BY <1>0, <1>2 DEF SaveUnderWay, KitTakes, SaveAnswered, Old
<1> QED
  BY <1>1, <1>2 DEF SaveUnderWay

LEMMA AwaitedTaken ==
    ASSUME TypeOK, TypeOK', OrderInv, SavesAreAwaited, KitTakes
    PROVE  SavesAreAwaited'
<1>0. UNCHANGED <<saving, sessions>>
  BY DEF KitTakes, brokerVars, flagVars, sessionVars
<1>1. ASSUME NEW s \in Sessions, SaveUnderWay(s)'
      PROVE  saving' /\ s \in sessions'
  BY <1>0, <1>1, UnderWayTaken DEF SavesAreAwaited
<1>2. ASSUME NEW i \in 1..Len(fromKit'), fromKit'[i].t = "saved"
      PROVE  fromKit'[i].s \in kitViews'
  <2>1. CASE Head(toKit).t = "save" /\ fromKit'[i].s = Head(toKit).s
    BY <2>1 DEF KitTakes, SaveAnswered
  <2>2. CASE Old(fromKit'[i])
    <3>1. PICK k \in 1..Len(fromKit) : fromKit[k] = fromKit'[i]
      BY <2>2 DEF Old
    <3>2. fromKit[k] \in FromKitMsg
      BY DEF TypeOK, ChannelTypeOK
    <3>3. fromKit[k].s \in Sessions
      BY <1>2, <3>1, <3>2 DEF FromKitMsg, StatusMsg, ModifiedMsg, SavedMsg
    <3>4. fromKit[k].s \in sessions /\ fromKit[k].s \in kitViews
      BY <1>2, <3>1, <3>3 DEF SavesAreAwaited, SaveUnderWay
    <3> QED
      BY <3>1, <3>3, <3>4, ViewTaken
  <2> QED
    BY <1>2, <2>1, <2>2 DEF KitTakes, SaveAnswered
<1> QED
  BY <1>1, <1>2 DEF SavesAreAwaited

LEMMA SomewhereTaken ==
    ASSUME TypeOK, EditsAreSomewhere, KitTakes
    PROVE  EditsAreSomewhere'
<1>0. /\ Unsaved' = Unsaved /\ toKit # <<>> /\ toKit' = Tail(toKit)
      /\ Head(toKit) = toKit[1] /\ Len(toKit) \in Nat
  <2>1. toKit # <<>> /\ toKit' = Tail(toKit)
    BY DEF KitTakes
  <2> QED
    BY <2>1, TailFacts DEF KitTakes, brokerVars, historyVars, Unsaved
<1>1. ASSUME NEW e \in Unsaved
      PROVE  e \in jail' \cup doc' \/ Behind(e, 0)'
  <2>1. CASE e \in jail \cup doc
    BY <2>1 DEF KitTakes, EditsTaken
  <2>2. ASSUME NEW k \in 1..Len(toKit), toKit[k].t = "edit", toKit[k].e = e
        PROVE  e \in jail' \cup doc' \/ Behind(e, 0)'
    <3>1. CASE k = 1
      BY <1>0, <2>2, <3>1 DEF KitTakes, EditsTaken
    <3>2. CASE k # 1
      <4>1. Behind(e, 0 + 1)
        BY <2>2, <3>2 DEF Behind
      <4> QED
        BY <1>0, <4>1, BehindTaken
    <3> QED
      BY <3>1, <3>2
  <2> QED
    BY <2>1, <2>2 DEF EditsAreSomewhere, Behind
<1> QED
  BY <1>0, <1>1 DEF EditsAreSomewhere

LEMMA UncoveredTaken ==
    ASSUME TypeOK, UncoveredIsKnown, KitTakes
    PROVE  UncoveredIsKnown'
<1>0. /\ Unsaved' = Unsaved /\ toKit # <<>> /\ toKit' = Tail(toKit)
      /\ UNCHANGED <<active, sessions, closed, viewLoaded, readOnly>>
  BY DEF KitTakes, brokerVars, flagVars, sessionVars, historyVars, Unsaved
<1>1. ASSUME NEW e \in Unsaved, Covered(e)
      PROVE  Covered(e)'
  <2>1. CASE e \in jail /\ Written
    BY <2>1 DEF Covered, Written, KitTakes, AnswersStay, EditsTaken
  <2>2. ASSUME NEW i \in 1..Len(toKit), SaveOf(e, i)
        PROVE  Covered(e)'
    <3>1. CASE i = 1
      BY <2>2, <3>1 DEF Covered, KitTakes, EditsTaken
    <3>2. CASE i # 1
      BY <1>0, <2>2, <3>2, SaveOfTaken DEF Covered
    <3> QED
      BY <3>1, <3>2
  <2> QED
    BY <1>1, <2>1, <2>2 DEF Covered
<1> QED
  BY <1>0, <1>1 DEF UncoveredIsKnown, EditableView

LEMMA ViewsTaken ==
    ASSUME TypeOK, TypeOK', OrderInv, OrderInv', ViewsStay, SavesAreAwaited, KitTakes
    PROVE  ViewsStay'
<1>0. /\ Unsaved' = Unsaved /\ sessions' = sessions
      /\ toKit # <<>> /\ toKit' = Tail(toKit) /\ kitAlive'
  BY DEF KitTakes, brokerVars, sessionVars, historyVars, Unsaved
<1>t. /\ Len(toKit) \in Nat /\ 1 \in 1..Len(toKit)
      /\ \A i \in 1..Len(toKit') : i + 1 \in 1..Len(toKit) /\ toKit'[i] = toKit[i + 1]
      /\ Head(toKit) = toKit[1] /\ Head(toKit) \in ToKitMsg
  BY <1>0, TailFacts
<1>v. \A t \in kitViews \ kitViews' : Drops(1, t)
  BY DEF KitTakes, EditsTaken
<1>1. kitViews' = {} => Unsaved = {}
  BY <1>0, <1>v, LastViewSaved
<1>2. ASSUME NEW d \in 1..Len(toKit'), NEW e \in Unsaved, toKit'[d].t = "disconnect"
      PROVE  \/ Behind(e, d)'
             \/ \E i \in 1..d : SaveOf(e, i)'
             \/ \E t \in kitViews' : \A k \in 1..d : ~Drops(k, t)'
  <2>1. d + 1 \in 1..Len(toKit) /\ toKit[d + 1].t = "disconnect"
    BY <1>t, <1>2
  <2>2. CASE Behind(e, d + 1)
    <3>1. d \in Nat
      BY <2>1 DEF TypeOK, ChannelTypeOK
    <3> QED
      BY <1>0, <2>2, <3>1, BehindTaken
  <2>3. ASSUME NEW i \in 1..(d + 1), SaveOf(e, i)
        PROVE  \/ \E j \in 1..d : SaveOf(e, j)'
               \/ \E t \in kitViews' : \A k \in 1..d : ~Drops(k, t)'
    <3>0. i \in 1..Len(toKit)
      BY <1>t, <2>1, <2>3
    <3>1. CASE i = 1
      <4>1. /\ Head(toKit).t = "save" /\ Head(toKit).s \in Sessions
            /\ SaveUnderWay(Head(toKit).s)
        BY <1>t, <2>3, <3>1, ToKitFields DEF SaveOf, SaveUnderWay
      <4>2. PICK t \in Sessions : t = Head(toKit).s
        BY <4>1
      <4>3. t \in kitViews' /\ t \in sessions'
        BY <1>0, <4>1, <4>2 DEF KitTakes, SaveAnswered, SavesAreAwaited
      <4>4. ~ToldToDrop(t)'
        BY <1>0, <4>3 DEF OrderInv, QueueInv, Follows
      <4>5. \A k \in 1..d : k \in 1..Len(toKit') /\ ~Drops(k, t)'
        <5>1. \A k \in 1..d : k \in 1..Len(toKit')
          BY <1>t, <2>1 DEF TypeOK, ChannelTypeOK
        <5> QED
          BY <4>4, <5>1 DEF ToldToDrop, Drops
      <4> QED
        BY <4>3, <4>5
    <3>2. CASE i # 1
      <4>1. i - 1 \in 1..Len(toKit') /\ SaveOf(e, i - 1)'
        BY <1>0, <2>3, <3>0, <3>2, SaveOfTaken
      <4>2. i - 1 \in 1..d
        BY <2>1, <2>3, <3>0, <3>2, <1>t
      <4>3. PICK j \in 1..d : j = i - 1
        BY <4>2
      <4> QED
        BY <4>1, <4>3
    <3> QED
      BY <3>1, <3>2
  <2>4. ASSUME NEW t \in kitViews, \A k \in 1..(d + 1) : ~Drops(k, t)
        PROVE  \E x \in kitViews' : \A k \in 1..d : ~Drops(k, x)'
    <3>1. t \in kitViews'
      BY <1>v, <2>1, <2>4
    <3>2. ASSUME NEW k \in 1..d
          PROVE  ~Drops(k, t)'
      <4>1. k \in 1..Len(toKit') /\ k + 1 \in 1..(d + 1)
        BY <1>t, <2>1 DEF TypeOK, ChannelTypeOK
      <4> QED
        BY <1>t, <2>4, <4>1 DEF Drops
    <3> QED
      BY <3>1, <3>2
  <2> QED
    BY <1>2, <2>1, <2>2, <2>3, <2>4 DEF ViewsStay
<1> QED
  BY <1>0, <1>1, <1>2 DEF ViewsStay

LEMMA ModifiedTaken ==
    ASSUME ModifiedIsTold, KitTakes
    PROVE  ModifiedIsTold'
<1>0. UNCHANGED <<sessions, isModified>>
  BY DEF KitTakes, brokerVars, flagVars, sessionVars
<1>1. ASSUME NEW t \in kitViews', t \in sessions, kitModified'
      PROVE  \/ isModified /\ \A i \in 1..Len(fromKit') : ~Clears(fromKit'[i])
             \/ \E i \in 1..Len(fromKit') :
                  /\ fromKit'[i].t = "modified" /\ fromKit'[i].v /\ t \in fromKit'[i].to
                  /\ \A k \in i..Len(fromKit') : ~Clears(fromKit'[k])
  <2>1. ASSUME NEW i \in 1..Len(fromKit'), i = Len(fromKit'),
               fromKit'[i].t = "modified", fromKit'[i].v, t \in fromKit'[i].to
        PROVE  \A k \in i..Len(fromKit') : ~Clears(fromKit'[k])
    <3>1. \A k \in i..Len(fromKit') : k = i
      BY <2>1
    <3> QED
      BY <2>1, <3>1 DEF Clears
  <2>2. CASE isModified /\ \A i \in 1..Len(fromKit) : ~Clears(fromKit[i])
    BY <1>1, <2>2 DEF KitTakes, NoneClears, Old
  <2>3. ASSUME NEW k \in 1..Len(fromKit),
               fromKit[k].t = "modified", fromKit[k].v, t \in fromKit[k].to,
               \A y \in k..Len(fromKit) : ~Clears(fromKit[y])
        PROVE  \E i \in 1..Len(fromKit') :
                 /\ fromKit'[i].t = "modified" /\ fromKit'[i].v /\ t \in fromKit'[i].to
                 /\ \A x \in i..Len(fromKit') : ~Clears(fromKit'[x])
    <3>1. PICK i \in 1..Len(fromKit') :
            /\ fromKit'[i] = fromKit[k]
            /\ \A x \in i..Len(fromKit') :
                 Clears(fromKit'[x]) => \E y \in k..Len(fromKit) : fromKit'[x] = fromKit[y]
      BY <1>1 DEF KitTakes, AnswersStay
    <3>2. \A x \in i..Len(fromKit') : ~Clears(fromKit'[x])
      BY <2>3, <3>1
    <3> QED
      BY <2>3, <3>1, <3>2
  <2>4. t \in kitViews /\ kitModified =>
          \/ isModified /\ \A i \in 1..Len(fromKit) : ~Clears(fromKit[i])
          \/ \E i \in 1..Len(fromKit) :
               /\ fromKit[i].t = "modified" /\ fromKit[i].v /\ t \in fromKit[i].to
               /\ \A k \in i..Len(fromKit) : ~Clears(fromKit[k])
    BY <1>1 DEF ModifiedIsTold
  <2>5. \/ t \in kitViews /\ kitModified
        \/ \E i \in 1..Len(fromKit') :
             /\ i = Len(fromKit')
             /\ fromKit'[i].t = "modified" /\ fromKit'[i].v /\ t \in fromKit'[i].to
    BY <1>1 DEF KitTakes, NewlyTold
  <2>6. CASE t \in kitViews /\ kitModified
    BY <2>2, <2>3, <2>4, <2>6
  <2>7. CASE \E i \in 1..Len(fromKit') :
               /\ i = Len(fromKit')
               /\ fromKit'[i].t = "modified" /\ fromKit'[i].v /\ t \in fromKit'[i].to
    BY <2>1, <2>7
  <2> QED
    BY <2>5, <2>6, <2>7
<1> QED
  BY <1>0, <1>1 DEF ModifiedIsTold

\* So the steps of the kit keep the invariant too.
LEMMA KitKeepsSaves ==
    ASSUME TypeOK, TypeOK', StorageInv, OrderInv, OrderInv', SaveInv, KitStep,
           excuses = {}, excuses' = {}, kitAlive, kitAlive'
    PROVE  SaveInv'
<1> USE DEF SaveInv
<1>1. KitTakes /\ FlagsAreRight'
  BY KitStepTakes
<1>2. SavesAreAwaited'
  BY <1>1, AwaitedTaken
<1>3. EditsAreSomewhere'
  BY <1>1, SomewhereTaken
<1>4. UncoveredIsKnown'
  BY <1>1, UncoveredTaken
<1>5. ViewsStay'
  BY <1>1, ViewsTaken
<1>6. ModifiedIsTold'
  BY <1>1, ModifiedTaken
<1> QED
  BY <1>1, <1>2, <1>3, <1>4, <1>5, <1>6

-----------------------------------------------------------------------------
(* The end of the broker and of the kit.                                   *)

\* Only the last client that leaves marks the broker.
LEMMA MarkedKept ==
    ASSUME MarkedIsClosed, BrokerStep, excuses' = {}
    PROVE  MarkedIsClosed'
<1> USE DEF MarkedIsClosed
<1>n. \A r : excuses' # excuses \cup {r}
  OBVIOUS
<1>1. ASSUME UNCHANGED markToDestroy, sessions' \subseteq sessions, closed \subseteq closed'
      PROVE  MarkedIsClosed'
  BY <1>1
<1>2. ASSUME NEW s \in Sessions, Join(s)
      PROVE  MarkedIsClosed'
  BY <1>2 DEF Join
<1>3. ASSUME NEW s \in Sessions, Disconnect(s)
      PROVE  MarkedIsClosed'
  <2>1. RemoveSession(s, active, {}) /\ closed' = closed \cup {s}
    BY <1>3 DEF Disconnect
  <2> QED
    BY <1>1, <2>1, RemoveSessionMarks
<1>4. ASSUME NEW s \in Sessions, NEW r \in Sessions, ClientRemovesSession(s, r)
      PROVE  MarkedIsClosed'
  <2> DEFINE why == IF sessions = {r} THEN {"discard"} ELSE {}
  <2>1. RemoveSession(r, TRUE, why) /\ closed' = closed
    BY <1>4 DEF ClientRemovesSession
  <2>2. CASE r \notin sessions
    BY <1>1, <2>1, <2>2, RemoveSessionMarks
  <2>3. CASE r \in sessions
    <3>1. why \subseteq excuses'
      <4> HIDE DEF why
      <4> DEFINE races(ghost) == {x \in {"ghost", "orphan"} :
                                    IF x = "ghost" THEN ghost ELSE SaveUnderWay(r)}
      <4>1. \/ excuses' = excuses \cup why
            \/ \E ghost : excuses' = excuses \cup why \cup races(ghost)
        BY <2>1, <2>3 DEF RemoveSession
      <4> HIDE DEF races
      <4> QED
        BY <4>1
    <3>2. sessions # {r}
      BY <3>1
    <3> HIDE DEF why
    <3> QED
      BY <2>1, <2>3, <3>2, RemoveSessionMarks
  <2> QED
    BY <2>2, <2>3
<1>5. ASSUME NEW s \in Sessions,
             \/ ClientActivity(s) \/ ClientLoad(s) \/ ClientSave(s) \/ ClientSaveToStorage(s)
             \/ SaveAsToStorage(s) \/ ClientSetModified(s) \/ ClientClosesDocument(s)
             \/ ClientDiscards(s) \/ \E e \in Edits : ClientEdit(s, e)
      PROVE  MarkedIsClosed'
  <2>1. UNCHANGED <<markToDestroy, closed>>
    BY <1>5 DEF ClientActivity, ClientLoad, ClientSave, ClientSaveToStorage, SaveAsToStorage,
                ClientSetModified, ClientClosesDocument, ClientDiscards, ClientEdit,
                sessionVars
  <2>2. sessions' = sessions \/ ClientSaveToStorage(s)
    BY <1>5 DEF ClientActivity, ClientLoad, ClientSave, SaveAsToStorage,
                ClientSetModified, ClientClosesDocument, ClientDiscards, ClientEdit,
                sessionVars
  <2>3. sessions' \subseteq sessions
    BY <2>2, SaveToStorageRemoves DEF ClientSaveToStorage
  <2> QED
    BY <1>1, <2>1, <2>3
<1>6. CASE HandleStatus \/ HandleSaveResult
  <2>1. UNCHANGED <<markToDestroy, closed>>
    BY <1>6 DEF HandleStatus, HandleSaveResult
  <2>2. \/ UNCHANGED storageVars
        \/ \E s, success, force, why : SaveToStorage(s, success, force, why)
    BY <1>6 DEF HandleStatus, HandleSaveResult
  <2>3. sessions' \subseteq sessions
    BY <2>2, SaveToStorageRemoves DEF storageVars
  <2> QED
    BY <1>1, <2>1, <2>3
<1>7. CASE \/ HandleModifiedStatus \/ KitDisconnected \/ BrokerBody \/ GetChild
           \/ FailToGetChild \/ RequestShutdown \/ Terminate \/ Finish
  <2>1. UNCHANGED <<markToDestroy, closed>> /\ sessions' \subseteq sessions
    BY <1>7 DEF HandleModifiedStatus, KitDisconnected, BrokerBody, LoadTimedOut, WaitForSave,
                SaveAndClose, TimedAutoSave, NothingToSave, CloseIdle, CloseDead, Linger,
                GetChild, FailToGetChild, RequestShutdown, Terminate, Finish, flagVars,
                sessionVars, bodyRest
  <2> QED
    BY <1>1, <2>1
<1> QED
  BY <1>2, <1>3, <1>4, <1>5, <1>6, <1>7 DEF BrokerStep, BrokerNext, ClientCommand, HandleKit

\* An edit that is covered has its save under way.
LEMMA CoveredUnderWay ==
    TypeOK => \A e \in Unsaved : Covered(e) => \E s \in Sessions : SaveUnderWay(s)
<1> SUFFICES ASSUME TypeOK, NEW e \in Unsaved, Covered(e)
             PROVE  \E s \in Sessions : SaveUnderWay(s)
  OBVIOUS
<1>1. CASE Written
  <2>1. PICK i \in 1..Len(fromKit) : fromKit[i].t = "saved"
    BY <1>1 DEF Written
  <2>2. fromKit[i] \in FromKitMsg
    BY DEF TypeOK, ChannelTypeOK
  <2>3. fromKit[i].s \in Sessions
    BY <2>1, <2>2 DEF FromKitMsg, StatusMsg, ModifiedMsg, SavedMsg
  <2> QED
    BY <2>1, <2>3 DEF SaveUnderWay
<1>2. ASSUME NEW i \in 1..Len(toKit), toKit[i].t = "save"
      PROVE  \E s \in Sessions : SaveUnderWay(s)
  <2>1. toKit[i] \in ToKitMsg
    BY DEF TypeOK, ChannelTypeOK
  <2>2. toKit[i].s \in Sessions
    BY <2>1, ToKitFields
  <2> QED
    BY <1>2, <2>2 DEF SaveUnderWay
<1> QED
  BY <1>1, <1>2 DEF Covered, SaveOf

\* With no save to wait for, an unsaved edit keeps a user connected.
LEMMA AllLeftSaved ==
    TypeOK /\ SaveInv /\ sessions \subseteq closed /\ (~saving \/ sessions = {}) => Unsaved = {}
  BY CoveredUnderWay DEF SaveInv, SavesAreAwaited, UncoveredIsKnown

\* When the broker takes the document for unmodified, nobody was active since
\* the last save, and nothing but saves is on its way to the kit, all is saved.
LEMMA AllIdleSaved ==
    ASSUME TypeOK, OrderInv, StorageInv, SaveInv, kitAlive, ~isModified, ~active, fromKit = <<>>,
           \A i \in 1..Len(toKit) : toKit[i].t = "save"
    PROVE  Unsaved = {}
<1> USE DEF SaveInv
<1>1. ~Written
  BY DEF Written
<1>2. \A t \in Sessions : ~ToldToDrop(t)
  BY DEF ToldToDrop, Drops
<1>3. kitViews \subseteq sessions /\ kitViews \subseteq Sessions
  BY <1>2 DEF OrderInv, QueueInv, Follows, TypeOK, KitTypeOK
<1>4. ASSUME NEW e \in Unsaved
      PROVE  FALSE
  <2>1. PICK t \in kitViews : t \in sessions
    BY <1>3, <1>4 DEF ViewsStay
  <2>2. ~kitModified
    BY <2>1 DEF ModifiedIsTold
  <2>3. e \in jail \cup doc
    BY DEF EditsAreSomewhere, Behind
  <2> QED
    BY <1>1, <2>1, <2>2, <2>3 DEF FlagsAreRight
<1> QED
  BY <1>4

\* Why a broker that has not come to its end does so, with neither a fault nor
\* a race: nothing was loaded; nobody is left; the answer to a save finds
\* nobody left; or it has nothing to save.
EndsUnloaded == ~isLoaded
EndsAnswered == kitAlive' /\ ~saving' /\ (markToDestroy' \/ sessions' = {})
EndsIdle ==
    /\ AutoSaveIdles(isPossiblyModified)
    /\ ~saving \/ (fromKit = <<>> /\ \A i \in 1..Len(toKit) : toKit[i].t = "save")

EndEffect ==
    /\ owed' = owed \/ (phase = "poll" /\ ~stop /\ \E s \in sessions : s \in viewLoaded)
    /\ stop => stop'
    /\ kitAlive' => kitAlive
    /\ kitAlive /\ ~kitAlive' => stop'
    /\ Ended' => \/ Ended
                 \/ /\ owed' = owed
                    /\ EndsUnloaded \/ EndsAnswered \/ EndsIdle \/ sessions = {}

LEMMA BrokerStepEndEffect ==
    ASSUME TypeOK, OrderInv, BrokerStep, excuses' = {}
    PROVE  EndEffect
<1>n. \A r : excuses' # excuses \cup {r}
  OBVIOUS
<1>b. stop \in BOOLEAN /\ kitAlive \in BOOLEAN
  BY DEF TypeOK, BrokerTypeOK, ChannelTypeOK
<1>1. ASSUME UNCHANGED <<stop, kitAlive, owed>>,
             phase' = phase \/ phase' \in {"poll", "tail"} \/ (phase' = "flush" /\ stop)
      PROVE  EndEffect
  BY <1>1 DEF EndEffect, Ended
<1>2. ASSUME NEW s \in Sessions,
             \/ Join(s) \/ Disconnect(s) \/ ClientActivity(s) \/ ClientLoad(s) \/ ClientSave(s)
             \/ SaveAsToStorage(s) \/ ClientSetModified(s) \/ ClientClosesDocument(s)
             \/ ClientDiscards(s) \/ \E r \in Sessions : ClientRemovesSession(s, r)
      PROVE  EndEffect
  <2>1. UNCHANGED <<stop, kitAlive, owed, phase>>
    BY <1>2, <1>n DEF Join, Disconnect, ClientActivity, ClientLoad, ClientSave, SaveAsToStorage,
                ClientSetModified, ClientClosesDocument, ClientDiscards, ClientRemovesSession,
                historyVars, channelVars
  <2> QED
    BY <1>1, <2>1
<1>3. ASSUME NEW s \in Sessions, NEW e \in Edits, ClientEdit(s, e)
      PROVE  EndEffect
  <2>1. /\ UNCHANGED <<stop, kitAlive, phase>>
        /\ owed' = owed \/ (phase = "poll" /\ ~stop /\ s \in sessions /\ s \in viewLoaded)
    BY <1>3 DEF ClientEdit, Live, EditableView
  <2> QED
    BY <2>1 DEF EndEffect, Ended
<1>4. ASSUME NEW s, NEW success, NEW force, NEW why, SaveToStorage(s, success, force, why),
             UNCHANGED <<kitAlive, phase, markToDestroy, owed>>
      PROVE  EndEffect
  <2> DEFINE forced == force \/ (isMarkedToDestroy /\ AlwaysSaveOnExit)
  <2>1. stop' = (stop \/ markToDestroy \/ sessions' = {})
    BY <1>4 DEF SaveToStorage
  <2>2. SaveToStorageInternal(success, forced, why)
    BY <1>4 DEF SaveToStorage
  <2> HIDE DEF forced
  <2>3. saving' = FALSE
    BY <2>2 DEF SaveToStorageInternal
  <2> QED
    BY <1>4, <2>1, <2>3 DEF EndEffect, Ended, EndsAnswered
<1>5. ASSUME NEW s \in Sessions, ClientSaveToStorage(s)
      PROVE  EndEffect
  BY <1>4, <1>5 DEF ClientSaveToStorage, historyVars
<1>6. CASE HandleStatus \/ HandleSaveResult
  <2>1. UNCHANGED <<kitAlive, phase, markToDestroy, owed>>
    BY <1>6 DEF HandleStatus, HandleSaveResult, historyVars
  <2>2. \/ UNCHANGED storageVars
        \/ \E s, success, force, why : SaveToStorage(s, success, force, why)
    BY <1>6 DEF HandleStatus, HandleSaveResult
  <2> QED
    BY <1>1, <1>4, <2>1, <2>2 DEF storageVars
<1>7. CASE \/ HandleModifiedStatus \/ GetChild \/ RequestShutdown \/ Terminate \/ WaitForSave
           \/ TimedAutoSave \/ NothingToSave \/ Linger
  <2>1. UNCHANGED <<stop, kitAlive, owed>>
    BY <1>7 DEF HandleModifiedStatus, GetChild, RequestShutdown, Terminate, WaitForSave,
                TimedAutoSave, NothingToSave, Linger, flagVars, historyVars, channelVars, bodyRest
  <2>2. ~Terminate
    BY <1>n DEF Terminate
  <2>3. CASE HandleModifiedStatus \/ GetChild \/ RequestShutdown
    BY <1>1, <2>1, <2>3 DEF HandleModifiedStatus, GetChild, RequestShutdown
  <2>4. CASE WaitForSave \/ TimedAutoSave \/ NothingToSave
    BY <1>1, <2>1, <2>4 DEF WaitForSave, TimedAutoSave, NothingToSave
  <2>5. CASE Linger
    BY <1>1, <2>1, <2>5 DEF Linger, LeaveTail
  <2> QED
    BY <1>7, <2>2, <2>3, <2>4, <2>5
<1>8. CASE KitDisconnected \/ Finish
  BY <1>8, <1>b DEF KitDisconnected, Finish, EndEffect, Ended, historyVars
<1>9. CASE FailToGetChild \/ LoadTimedOut
  <2>1. /\ stop' = TRUE /\ kitAlive' = FALSE /\ owed' = owed
        /\ phase = "start" \/ ~isLoaded
    BY <1>9 DEF FailToGetChild, LoadTimedOut, historyVars, bodyRest
  <2>2. ~isLoaded
    BY <2>1 DEF OrderInv, LoadedFirst
  <2> QED
    BY <2>1, <2>2, <1>b DEF EndEffect, Ended, EndsUnloaded
<1>10. CASE SaveAndClose \/ CloseIdle
  <2>1. /\ UNCHANGED <<kitAlive, owed>>
        /\ \/ UNCHANGED stop
           \/ stop' = TRUE /\ AutoSaveIdles(isPossiblyModified)
        /\ \/ phase' = "tail" /\ ~saving
           \/ /\ fromKit = <<>> /\ \A i \in 1..Len(toKit) : toKit[i].t = "save"
              /\ phase' = IF stop' THEN "flush" ELSE "poll"
    BY <1>10, <1>n DEF SaveAndClose, CloseIdle, PastSaveTimeout, IdleTimePassed, LeaveTail,
                       bodyRest, historyVars
  <2> QED
    BY <2>1, <1>b DEF EndEffect, Ended, EndsIdle
<1>11. CASE CloseDead
  BY <1>11, <1>b DEF CloseDead, Dead, EndEffect, Ended, historyVars, bodyRest
<1> QED
  BY <1>2, <1>3, <1>5, <1>6, <1>7, <1>8, <1>9, <1>10, <1>11
     DEF BrokerStep, BrokerNext, ClientCommand, HandleKit, BrokerBody

LEMMA BrokerStepEnds ==
    ASSUME TypeOK, TypeOK', StorageInv, OrderInv, EndInv, MarkedIsClosed', BrokerStep,
           kitAlive => SaveInv, kitAlive' => SaveInv', excuses' = {}
    PROVE  EndInv'
<1>1. EndEffect
  BY BrokerStepEndEffect
<1>2. store \subseteq store'
  BY BrokerStepEffect DEF BrokerEffect, StorageInv, StorageChain
<1>3. stop \in BOOLEAN /\ kitAlive \in BOOLEAN /\ saving \in BOOLEAN /\ UNCHANGED kitViews
  BY DEF TypeOK, BrokerTypeOK, ChannelTypeOK, BrokerStep, kitVars
<1>4. ~kitAlive' /\ ~stop' => kitViews' = {}
  BY <1>1, <1>3 DEF EndInv, EndEffect
<1>5. owed' = owed /\ Unsaved = {} => Unsaved' = {}
  BY <1>2 DEF Unsaved
<1>6. CASE Ended
  <2>1. owed' = owed
    BY <1>1, <1>3, <1>6 DEF EndInv, EndEffect, Ended, OrderInv, ViewInv, LoadedHaveViews
  <2> QED
    BY <1>4, <1>5, <1>6, <2>1 DEF EndInv
<1>7. CASE ~Ended /\ Ended'
  <2>0. kitAlive /\ SaveInv /\ owed' = owed
    BY <1>1, <1>7 DEF Ended, EndEffect
  <2> SUFFICES Unsaved' = {}
    BY <1>4 DEF EndInv
  <2>1. CASE EndsUnloaded
    BY <1>5, <2>0, <2>1 DEF EndsUnloaded, OrderInv, LoadedFirst, Unsaved
  <2>2. CASE sessions = {}
    BY <1>5, <2>0, <2>2, AllLeftSaved
  <2>3. CASE EndsAnswered
    <3>1. (TypeOK /\ SaveInv /\ sessions \subseteq closed /\ (~saving \/ sessions = {}))'
      BY <2>3 DEF EndsAnswered, MarkedIsClosed
    <3>2. (Unsaved = {})'
      BY <3>1, AllLeftSaved, PTL
    <3> QED
      BY <3>2
  <2>4. CASE EndsIdle
    <3>1. isPossiblyModified \in BOOLEAN
      BY DEF isPossiblyModified, PossiblyModified, TypeOK, BrokerTypeOK
    <3>2. sessions = {} \/ ~isLoaded \/ (~isModified /\ ~active)
      BY <2>0, <2>4, <3>1, IdlesOnlyIf DEF EndsIdle, isPossiblyModified, PossiblyModified
    <3>3. CASE ~isLoaded
      BY <2>1, <3>3 DEF EndsUnloaded
    <3>4. CASE ~isModified /\ ~active /\ ~saving
      <4>1. Unsaved = {}
        BY <2>0, <3>4, CoveredUnderWay DEF SaveInv, SavesAreAwaited, UncoveredIsKnown
      <4> QED
        BY <1>5, <2>0, <4>1
    <3>5. CASE /\ ~isModified /\ ~active /\ fromKit = <<>>
               /\ \A i \in 1..Len(toKit) : toKit[i].t = "save"
      BY <1>5, <2>0, <3>5, AllIdleSaved
    <3> QED
      BY <2>2, <2>4, <3>2, <3>3, <3>4, <3>5 DEF EndsIdle
  <2> QED
    BY <1>1, <1>7, <2>1, <2>2, <2>3, <2>4 DEF EndEffect
<1>8. CASE ~Ended'
  BY <1>4, <1>8 DEF EndInv
<1> QED
  BY <1>6, <1>7, <1>8

LEMMA KitStepEnds ==
    ASSUME TypeOK, OrderInv, EndInv, kitAlive => SaveInv, KitStep, excuses' = {}
    PROVE  EndInv'
<1>n. \A r : excuses' # excuses \cup {r}
  OBVIOUS
<1>0. Unsaved' = Unsaved /\ UNCHANGED <<stop, phase>>
  BY DEF KitStep, brokerVars, flagVars, historyVars, Unsaved
<1>1. kitAlive /\ ViewsStay
  BY DEF KitStep, KitHandle, KitSession, KitLoad, KitLoadFails, KitEdit, KitSaveSkips, KitSaves,
         KitSaveFails, KitDisconnect, KitPurge, KitCrash, Receive, SaveInv
<1>2. CASE KitDisconnect
  <2>1. /\ toKit # <<>> /\ Head(toKit).t = "disconnect"
        /\ kitViews' = kitViews \ {Head(toKit).s}
        /\ ~kitAlive' => kitViews = {Head(toKit).s}
    BY <1>2 DEF KitDisconnect, Receive
  <2>2. ASSUME ~kitAlive'
        PROVE  kitViews' = {} /\ Unsaved = {}
    <3>1. Head(toKit) = toKit[1]
      BY <2>1 DEF TypeOK, ChannelTypeOK
    <3>2. \A t \in kitViews : Drops(1, t)
      BY <2>1, <2>2, <3>1 DEF Drops
    <3> QED
      BY <1>1, <2>1, <2>2, <3>2, LastViewSaved
  <2> QED
    BY <1>0, <1>1, <2>2 DEF EndInv, Ended
<1>3. CASE KitPurge
  <2>1. kitViews' = kitViews /\ kitViews = {}
    BY <1>3 DEF KitPurge, kitVars, TypeOK, KitTypeOK
  <2> QED
    BY <1>0, <1>1, <2>1 DEF EndInv, ViewsStay
<1>4. CASE KitSession \/ KitLoad \/ KitEdit \/ KitSaveSkips \/ KitSaves
  <2>1. kitAlive' = kitAlive
    BY <1>4 DEF KitSession, KitLoad, KitEdit, KitSaveSkips, KitSaves
  <2> QED
    BY <1>0, <1>1, <2>1 DEF EndInv, Ended
<1>5. ~KitLoadFails /\ ~KitSaveFails /\ ~KitCrash
  BY <1>n DEF KitLoadFails, KitSaveFails, KitCrash
<1> QED
  BY <1>2, <1>3, <1>4, <1>5 DEF KitStep, KitHandle

-----------------------------------------------------------------------------
(* The theorems.                                                           *)

\* The inductive invariant holds in every state.
LEMMA EditInvHolds == Spec => []EditInv
<1>1. Init => EditInv
  <2> SUFFICES ASSUME Init
               PROVE  EditInv
    OBVIOUS
  <2>1. /\ Unsaved = {} /\ kitViews = {} /\ jail = {} /\ toKit = <<>> /\ fromKit = <<>>
        /\ kitAlive /\ ~stop /\ ~markToDestroy /\ phase = "start"
    BY DEF Init, BrokerInit, KitInit, ChannelInit, Unsaved
  <2>2. EndInv /\ MarkedIsClosed
    BY <2>1 DEF EndInv, MarkedIsClosed
  <2>3. SavesAreAwaited
    BY <2>1 DEF SavesAreAwaited, SaveUnderWay
  <2>4. EditsAreSomewhere /\ FlagsAreRight /\ UncoveredIsKnown /\ ViewsStay /\ ModifiedIsTold
    BY <2>1 DEF EditsAreSomewhere, FlagsAreRight, UncoveredIsKnown, ViewsStay, ModifiedIsTold
  <2> QED
    BY <2>2, <2>3, <2>4 DEF EditInv, SaveInv
<1>2. /\ TypeOK /\ TypeOK' /\ StorageInv /\ OrderInv /\ OrderInv' /\ EditInv /\ [Next]_vars
      => EditInv'
  <2> SUFFICES ASSUME TypeOK, TypeOK', StorageInv, OrderInv, OrderInv', EditInv, [Next]_vars,
                      excuses' = {}
               PROVE  EndInv' /\ MarkedIsClosed' /\ (kitAlive' => SaveInv')
    BY DEF EditInv
  <2> USE DEF EditInv
  <2>1. CASE BrokerStep
    <3>1. excuses = {}
      BY <2>1, ExcusesGrow
    <3>2. MarkedIsClosed'
      BY <2>1, <3>1, MarkedKept
    <3>3. kitAlive' => kitAlive
      BY <2>1, BrokerStepEndEffect DEF EndEffect
    <3>4. kitAlive' => SaveInv'
      BY <2>1, <3>1, <3>3, BrokerStepKeeps, BrokerKeepsSaves
    <3>5. EndInv'
      BY <2>1, <3>1, <3>2, <3>4, BrokerStepEnds
    <3> QED
      BY <3>2, <3>4, <3>5
  <2>2. CASE KitStep
    <3>1. excuses = {}
      BY <2>2, ExcusesGrow
    <3>2. MarkedIsClosed'
      BY <2>2, <3>1 DEF MarkedIsClosed, KitStep, brokerVars, flagVars, sessionVars
    <3>3. kitAlive' => kitAlive
      BY <2>2 DEF KitStep, KitHandle, KitSession, KitLoad, KitLoadFails, KitEdit, KitSaveSkips,
                  KitSaves, KitSaveFails, KitDisconnect, KitPurge, KitCrash, Receive
    <3>4. kitAlive' => SaveInv'
      BY <2>2, <3>1, <3>3, KitKeepsSaves
    <3>5. EndInv'
      BY <2>2, <3>1, KitStepEnds
    <3> QED
      BY <3>2, <3>4, <3>5
  <2>3. CASE UNCHANGED vars
    <3>0. /\ UNCHANGED <<brokerVars, kitVars, channelVars>>
          /\ UNCHANGED <<flagVars, sessionVars, historyVars>>
      BY <2>3 DEF vars, brokerVars
    <3> USE <3>0 DEF brokerVars, kitVars, channelVars, flagVars, sessionVars, historyVars
    <3>1. EndInv' /\ MarkedIsClosed'
      BY DEF EndInv, MarkedIsClosed, Ended, Unsaved
    <3>2. SavesAreAwaited' \/ ~SaveInv
      BY DEF SaveInv, SavesAreAwaited, SaveUnderWay
    <3>3. EditsAreSomewhere' \/ ~SaveInv
      BY DEF SaveInv, EditsAreSomewhere, Unsaved, Behind
    <3>4. FlagsAreRight' \/ ~SaveInv
      BY DEF SaveInv, FlagsAreRight, Unsaved, Written
    <3>5. UncoveredIsKnown' \/ ~SaveInv
      BY DEF SaveInv, UncoveredIsKnown, Unsaved, Covered, Written, SaveOf, Behind, EditableView
    <3>6. ViewsStay' \/ ~SaveInv
      BY DEF SaveInv, ViewsStay, Unsaved, SaveOf, Behind, Drops
    <3>7. ModifiedIsTold' \/ ~SaveInv
      BY DEF SaveInv, ModifiedIsTold, Clears
    <3> QED
      BY <3>1, <3>2, <3>3, <3>4, <3>5, <3>6, <3>7 DEF SaveInv
  <2> QED
    BY <2>1, <2>2, <2>3 DEF Next, Finished
<1> QED
  BY <1>1, <1>2, TypeCorrect, StorageInvHolds, OrderInvHolds, PTL DEF Spec

\* Once the broker is gone, every edit a user made before it decided to stop is
\* in the storage, unless a fault or one of the named races happened: whichever
\* way clients leave, saves are answered and time passes.
THEOREM NoEditIsLost == Spec => []NoEditLost
<1>1. EditInv => NoEditLost
  BY DEF EditInv, EndInv, Ended, Unsaved, NoEditLost
<1> QED
  BY <1>1, EditInvHolds, PTL

\* With no message under way, a document that isPossiblyModified() denies to be
\* modified is in the storage: the broker may let it go.
THEOREM CleanIsStored == Spec => []CleanMeansStored
<1>1. TypeOK /\ StorageInv /\ OrderInv /\ EditInv => CleanMeansStored
  <2> SUFFICES ASSUME TypeOK, StorageInv, OrderInv, EditInv, toKit = <<>>, fromKit = <<>>,
                      kitAlive, ~isPossiblyModified, excuses = {}
               PROVE  Unsaved = {}
    BY DEF CleanMeansStored, Unsaved
  <2>1. ~isModified /\ ~active
    BY DEF isPossiblyModified, PossiblyModified
  <2>2. \A i \in 1..Len(toKit) : toKit[i].t = "save"
    OBVIOUS
  <2> QED
    BY <2>1, <2>2, AllIdleSaved DEF EditInv
<1> QED
  BY <1>1, TypeCorrect, StorageInvHolds, OrderInvHolds, EditInvHolds, PTL
=============================================================================
