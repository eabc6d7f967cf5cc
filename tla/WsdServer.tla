------------------------------ MODULE WsdServer -----------------------------
(***************************************************************************)
(* wsd as a whole: the threads that share the map of brokers and the pool  *)
(* of kits.  They are the web server's poll, the prisoner poll, and one    *)
(* thread per broker; forkit and the kits are processes.                   *)
(***************************************************************************)
EXTENDS DocBrokers

vars == <<mapVars, childVars>>

TypeOK == MapTypeOK /\ PoolTypeOK

Init == MapInit /\ PoolInit

\* PrisonerPoll::wakeupHook, after doHousekeeping or every few seconds.  It only
\* tries the mutexes of the pool and of the map.
WakeupHook(poolLocked, mapLocked) ==
    /\ RestorePool(poolLocked)
    /\ docBrokers' = IF mapLocked THEN AliveDocBrokers ELSE docBrokers
    /\ UNCHANGED <<docKey, thread, stop, marked, kitSocket, clientVars, child, boundVars>>

WebServerStep(c) ==
    (FindOrCreateDocBroker(c) \/ MoveSocket(c)) /\ UNCHANGED childVars

PollStep(b) ==
    \/ BrokerAsks(b) \/ BrokerTakesChild(b) \/ BrokerWaitsInVain(b)
    \/ BrokerDead(b) \/ KitDisconnects(b) \/ BrokerIdle(b) \/ LoadTimesOut(b)
    \/ TerminateChild(b) \/ ThreadEnds(b)

SessionStep(c) == RunCallback(c) \/ ClientLeaves(c) \/ RemoveSession(c)

Next ==
    \/ \E poolLocked, mapLocked \in BOOLEAN : WakeupHook(poolLocked, mapLocked)
    \/ PoolStep /\ UNCHANGED mapVars
    \/ \E b \in Brokers : PollStep(b)
    \/ \E c \in Clients : WebServerStep(c) \/ SessionStep(c)

-----------------------------------------------------------------------------
(* Fairness.  Every thread and process runs; the hook gets its mutexes,    *)
(* which are never held for long, again and again; time passes.  Users     *)
(* and documents owe nothing.                                              *)

PoolFairness ==
    /\ WF_vars(WakeupHook(TRUE, TRUE))
    /\ WF_vars(AddNewChild /\ UNCHANGED mapVars)
    /\ WF_vars(SpawnTimeout /\ UNCHANGED mapVars)
    /\ WF_vars(ForkitStarts /\ UNCHANGED mapVars)
    /\ WF_vars(ForkitLoop /\ UNCHANGED mapVars)

\* A broker's thread has one thing to do at a time, but for a stop for which
\* there are two reasons; a client's socket is at one place at a time.
ThreadRuns(b) ==
    \/ BrokerAsks(b) \/ BrokerTakesChild(b) \/ BrokerWaitsInVain(b)
    \/ BrokerDead(b) \/ KitDisconnects(b) \/ TerminateChild(b) \/ ThreadEnds(b)

SocketMoves(c) ==
    (MoveSocket(c) /\ UNCHANGED childVars) \/ RunCallback(c) \/ RemoveSession(c)

ThreadFairness ==
    /\ \A b \in Brokers : WF_vars(ThreadRuns(b))
    /\ \A c \in Clients : WF_vars(SocketMoves(c))

Spec == Init /\ [][Next]_vars /\ PoolFairness /\ ThreadFairness

-----------------------------------------------------------------------------
(* Properties.                                                             *)

\* A document never has two brokers at work: a broker leaves the map, which
\* makes room for the next (findOrCreateDocBroker), only when its thread is over.
OneBrokerPerDocument ==
    \A b, e \in Brokers :
        /\ docKey[b] = docKey[e]
        /\ thread[b] \in Running \cup {"made"}
        /\ thread[e] \in Running \cup {"made"}
        => b = e

\* Whoever has a socket or a session in a broker's poll can be reached through
\* the map: for the admin console, autosave and "docisdisconnected".
SessionsAreRegistered ==
    \A c \in Clients :
        client[c] \in {"polled", "session", "leaving"} => via[c] \in docBrokers

\* However forks and crashes interleave, the spare kits and those on their way
\* are at most the pool's size and one, plus one for every restart of forkit and
\* for every fork that rebalanceChildren forgot.
SpareKitsAreBounded ==
    Len(newChildren) + InFlight <= NumPreSpawnedChildren + 1 + unaccounted

\* The pool recovers from whatever was lost: once nothing dies any more and no
\* client comes, there are always enough spare kits.
LiveSpares == {i \in 1..Len(newChildren) : newChildren[i] = "live"}
PoolRecovers == <>[](Cardinality(LiveSpares) >= NumPreSpawnedChildren)

\* A broker whose thread is over leaves the map, so that its document can be
\* opened again.
FinishedBrokersGo ==
    \A b \in Brokers : (thread[b] = "finished") ~> (b \notin docBrokers)
=============================================================================
