------------------------- MODULE DocumentLifecycle --------------------------
(***************************************************************************)
(* A document from its first client to the end of its broker: the broker   *)
(* and its sessions (DocumentBroker) composed with the kit (KitDocument).  *)
(***************************************************************************)
EXTENDS DocumentBroker, KitDocument

vars == <<brokerVars, kitVars, channelVars>>

Init == BrokerInit /\ KitInit /\ ChannelInit

BrokerStep == BrokerNext /\ UNCHANGED kitVars

KitStep ==
    /\ KitHandle \/ KitLoadFails \/ KitSaveFails \/ KitPurge \/ KitCrash
    /\ UNCHANGED brokerVars

\* The broker is gone: nothing is left to do.
Finished == phase = "finished" /\ UNCHANGED vars

Next == BrokerStep \/ KitStep \/ Finished

Spec == Init /\ [][Next]_vars

\* Both processes go on: the kit takes messages off its queue, the broker's
\* poll() serves its socket and returns, and the loop goes round.  A save that
\* is not answered times out, 30 seconds pass again and again, and once every
\* client has left nothing but the idle timeout is needed for it to pass.
Abandoned == joined # {} /\ joined \subseteq closed

Fairness ==
    /\ WF_vars(KitHandle /\ UNCHANGED brokerVars)
    /\ WF_vars(GetChild /\ UNCHANGED kitVars)
    /\ SF_vars(HandleKit /\ UNCHANGED kitVars)
    /\ WF_vars((SaveAndClose \/ NothingToSave) /\ UNCHANGED kitVars)
    /\ WF_vars((CloseIdle \/ CloseDead \/ Linger) /\ UNCHANGED kitVars)
    /\ SF_vars(TimedAutoSave /\ UNCHANGED kitVars)
    /\ SF_vars(CloseIdle /\ Abandoned /\ UNCHANGED kitVars)
    /\ WF_vars(Finish /\ UNCHANGED kitVars)

FairSpec == Spec /\ Fairness

-----------------------------------------------------------------------------
(* Properties.                                                             *)

\* Every variable has its type.
TypeOK == BrokerTypeOK /\ KitTypeOK /\ ChannelTypeOK

\* The storage, the file in the jail and the document in memory are ever
\* newer copies of the document, whatever fails: an upload never replaces an
\* edit by an older state of the document.
StorageChain ==
    /\ store \subseteq jail
    /\ kitViews # {} => jail \subseteq doc
    /\ doc \subseteq typed

\* The edits on their way to the kit were made by users.
EditsInToKit ==
    \A i \in 1..Len(toKit) : toKit[i].t = "edit" => toKit[i].e \in typed

\* What makes StorageChain inductive: also the file in the jail, from which
\* the document may be loaded again, and the queue hold only what users typed.
StorageInv == StorageChain /\ jail \subseteq typed /\ EditsInToKit

\* "If marked to destroy, then this was the last session" (saveToStorage).
MarkedIsLast == markToDestroy => \A s, t \in sessions : s = t

InToKit(m) == \E i \in 1..Len(toKit) : toKit[i] = m

\* The kit's sessions follow the broker's: a session the broker has, the kit
\* has or is being told of, and is not being told to drop; one that only the
\* kit has, it is being told to drop.
KitFollowsBroker ==
    kitAlive /\ phase # "finished" =>
      \A s \in Sessions :
        IF s \in sessions
        THEN /\ s \in kitSessions \/ InToKit([t |-> "session", s |-> s])
             /\ ~InToKit([t |-> "disconnect", s |-> s])
        ELSE s \in kitSessions \/ InToKit([t |-> "session", s |-> s])
               => InToKit([t |-> "disconnect", s |-> s])

\* Once the broker is gone, every edit a user made before it decided to stop
\* is in the storage, unless a fault or one of the named races happened.
NoEditLost == phase = "finished" /\ excuses = {} => owed \subseteq store

\* With no message under way, a document the broker takes for unmodified is in
\* the storage.
CleanMeansStored ==
    /\ toKit = <<>> /\ fromKit = <<>> /\ kitAlive
    /\ ~isPossiblyModified
    /\ excuses = {}
    => owed \subseteq store

\* The abstract document.  The kit's process holds the memory, while it has a
\* view and lives; the jail holds the file.
InMemory == IF kitAlive /\ kitViews # {} THEN doc ELSE jail

Durable == INSTANCE DurableDocument
             WITH memory <- InMemory, file <- jail, stored <- store

\* The broker and the kit keep the document as DurableDocument promises: every
\* copy is taken as a whole from the one before it, in every order of saves,
\* uploads, views that come and go, and deaths of the kit.
ImplementsDurable == Durable!Spec

\* An upload never takes an edit out of the storage.
StoreGrows == [][store \subseteq store']_vars

\* A broker marked to destroy is never revived.
MarkIsFinal == [][markToDestroy => markToDestroy']_vars

\* The answer to a save stops the broker only if it leaves no session behind.
SaveStopsEmptyBroker ==
    [][~stop /\ stop' /\ saving /\ ~saving' => sessions' = {}]_vars

\* Once its last client has left, the broker comes to its end, whatever the
\* kit does.
BrokerEnds == Abandoned ~> (phase = "finished" \/ ~Abandoned)

\* What users type reaches the storage while they stay connected, unless a
\* fault or a race happens.
EditsReachStorage ==
    \A e \in Edits : e \in owed ~> (e \in store \/ excuses # {})
=============================================================================
