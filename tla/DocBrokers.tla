------------------------------ MODULE DocBrokers ----------------------------
(***************************************************************************)
(* The map of document brokers (DocBrokers, wsd/LOOLWSD.cpp), the threads  *)
(* of the brokers from their construction to their end, and the way of a   *)
(* client's socket from the web server's poll to its broker's.             *)
(*                                                                         *)
(* What a broker does with its document between the arrival of its kit and *)
(* its end is the subject of DocumentBroker; here it only accepts          *)
(* sessions, loses them and stops.                                         *)
(*                                                                         *)
(* A broker goes by the name of the client whose request created it, so    *)
(* that the brokers are as many as the clients.                            *)
(***************************************************************************)
EXTENDS ChildPool

CONSTANTS Docs      \* the documents, by docKey

Clients == Brokers

VARIABLES
    docBrokers,     \* DocBrokers: the brokers in the map
    docKey,         \* the document each client asked for, its broker's _docKey
    thread,         \* where pollThread() of each broker is
    stop,           \* the brokers with _stop
    marked,         \* the brokers with _markToDestroy
    kitSocket,      \* the brokers with the socket of their kit in their poll
    client,         \* how far each client has come
    via             \* the broker it was given

brokerVars == <<docBrokers, docKey, thread, stop, marked, kitSocket>>
clientVars == <<client, via>>
mapVars == <<brokerVars, clientVars>>

\* "asking" and "blocked" are the two halves of getNewChild_Blocks; "serving"
\* is the polling loop, "flush" the polling after it, "ending" what follows.
Running == {"asking", "blocked", "serving", "flush", "ending"}
ThreadStates == Running \cup {"none", "made", "finished"}

\* "found": the web server's thread holds a broker for it; "queued": its socket
\* is in a callback of that broker; "polled": its socket is in the broker's poll
\* without a session; "leaving": its session waits for its last save.
ClientStates == {"new", "found", "queued", "polled", "session", "leaving",
                 "refused", "closed"}

MapTypeOK ==
    /\ docBrokers \in SUBSET Brokers
    /\ docKey \in [Clients -> Docs]
    /\ thread \in [Brokers -> ThreadStates]
    /\ stop \in SUBSET Brokers
    /\ marked \in SUBSET Brokers
    /\ kitSocket \in SUBSET Brokers
    /\ client \in [Clients -> ClientStates]
    /\ via \in [Clients -> Brokers]

MapInit ==
    /\ docBrokers = {}
    /\ docKey \in [Clients -> Docs]
    /\ thread = [b \in Brokers |-> "none"]
    /\ stop = {}
    /\ marked = {}
    /\ kitSocket = {}
    /\ client = [c \in Clients |-> "new"]
    /\ via = [c \in Clients |-> c]

-----------------------------------------------------------------------------
(* The map.                                                                *)

\* Mutant of IsAlive: the thread does not count.
IsAliveByChild(b) == b \notin stop \/ SeenAlive(child[b])

\* DocumentBroker::isAlive
IsAlive(b) == b \notin stop \/ thread[b] \in Running \/ SeenAlive(child[b])

IsMarkedToDestroy(b) == b \in marked \/ b \in stop

\* Mutant of AliveDocBrokers: the brokers that are marked leave at once.
UnmarkedDocBrokers == {b \in docBrokers : ~IsMarkedToDestroy(b)}

\* cleanupDocBrokers
AliveDocBrokers == {b \in docBrokers : IsAlive(b)}

\* findOrCreateDocBroker, in the web server's thread, for the first message of
\* client c.  It cleans the map up first.  The thread handles one client at a
\* time, up to the move of its socket.
FindOrCreateDocBroker(c) ==
    LET same == {b \in AliveDocBrokers : docKey[b] = docKey[c]}
    IN  /\ client[c] = "new"
        /\ \A e \in Clients : client[e] # "found"
        /\ \/ \E b \in same :
                /\ IsMarkedToDestroy(b)
                /\ client' = [client EXCEPT ![c] = "refused"]
                /\ docBrokers' = AliveDocBrokers
                /\ UNCHANGED <<via, thread>>
           \/ \E b \in same :
                /\ ~IsMarkedToDestroy(b)
                /\ client' = [client EXCEPT ![c] = "found"]
                /\ via' = [via EXCEPT ![c] = b]
                /\ docBrokers' = AliveDocBrokers
                /\ UNCHANGED thread
           \/ /\ same = {}
              /\ client' = [client EXCEPT ![c] = "found"]
              /\ via' = [via EXCEPT ![c] = c]
              /\ docBrokers' = AliveDocBrokers \cup {c}
              /\ thread' = [thread EXCEPT ![c] = "made"]
        /\ UNCHANGED <<docKey, stop, marked, kitSocket>>

\* The move of the client's socket, once its handler has returned: startThread,
\* which does nothing for a thread that was started, even if it has finished,
\* and addCallback.
MoveSocket(c) ==
    LET b == via[c]
    IN  /\ client[c] = "found"
        /\ client' = [client EXCEPT ![c] = "queued"]
        /\ thread' = IF thread[b] = "made" THEN [thread EXCEPT ![b] = "asking"] ELSE thread
        /\ UNCHANGED <<docBrokers, docKey, stop, marked, kitSocket, via>>

-----------------------------------------------------------------------------
(* pollThread(): getting a kit.                                            *)

\* Mutant of NoChild: the broker that gives up is not stopped.
NoChildNoStop(b) ==
    /\ \/ thread' = [thread EXCEPT ![b] = "asking"]
       \/ thread' = [thread EXCEPT ![b] = "ending"]
    /\ UNCHANGED stop

\* getNewChild_Blocks returned no child: pollThread tries again, or gives up
\* after five times COMMAND_TIMEOUT_MS without ever having polled.
NoChild(b) ==
    \/ thread' = [thread EXCEPT ![b] = "asking"] /\ UNCHANGED stop
    \/ thread' = [thread EXCEPT ![b] = "ending"] /\ stop' = stop \cup {b}

BrokerAsks(b) ==
    /\ thread[b] = "asking"
    /\ AskForChild
    /\ IF RebalanceFails(NumPreSpawnedChildren + 1)
       THEN NoChild(b)
       ELSE thread' = [thread EXCEPT ![b] = "blocked"] /\ UNCHANGED stop
    /\ UNCHANGED <<docBrokers, docKey, marked, kitSocket, clientVars>>

\* The wait for NewChildrenCV ends with a child, which may be found dead.
BrokerTakesChild(b) ==
    /\ thread[b] = "blocked"
    /\ TakeChild(b)
    /\ IF SeenAlive(Last(newChildren))
       THEN /\ thread' = [thread EXCEPT ![b] = "serving"]
            /\ kitSocket' = kitSocket \cup {b}
            /\ UNCHANGED stop
       ELSE NoChild(b) /\ UNCHANGED kitSocket
    /\ UNCHANGED <<docBrokers, docKey, marked, clientVars>>

BrokerWaitsInVain(b) ==
    /\ thread[b] = "blocked"
    /\ newChildren = <<>>
    /\ NoChild(b)
    /\ UNCHANGED <<docBrokers, docKey, marked, kitSocket, clientVars, childVars>>

-----------------------------------------------------------------------------
(* pollThread(): the sessions and the end.                                 *)

At(b, states) == {c \in Clients : via[c] = b /\ client[c] \in states}

SessionsOf(b) == At(b, {"session", "leaving"})

\* The broker is in poll(), which runs the queued callbacks before it handles
\* the sockets.  After the loop it polls only while it has sockets.
Polls(b) ==
    \/ thread[b] = "serving"
    \/ thread[b] = "flush" /\ (b \in kitSocket \/ At(b, {"polled", "session", "leaving"}) # {})

\* The callback that brings the client's socket: it goes into the poll, and
\* addSession loads the document.  That fails when the broker is marked, or
\* for reasons of its own; without any session the broker is then marked.
RunCallback(c) ==
    LET b == via[c]
    IN  /\ client[c] = "queued" /\ Polls(b)
        /\ \/ /\ b \notin marked
              /\ client' = [client EXCEPT ![c] = "session"]
              /\ UNCHANGED marked
           \/ /\ client' = [client EXCEPT ![c] = "polled"]
              /\ marked' = IF SessionsOf(b) = {} THEN marked \cup {b} ELSE marked
        /\ UNCHANGED <<docBrokers, docKey, thread, stop, kitSocket, via, childVars>>

\* removeSession marks the broker if this is its only session; the session
\* itself stays until the document is saved, if it has to be.
ClientLeaves(c) ==
    LET b == via[c]
    IN  /\ client[c] = "session" /\ Polls(b)
        /\ client' = [client EXCEPT ![c] = "leaving"]
        /\ marked' = IF Cardinality(SessionsOf(b)) <= 1 THEN marked \cup {b}
                     ELSE marked \ {b}
        /\ UNCHANGED <<docBrokers, docKey, thread, stop, kitSocket, via, childVars>>

RemoveSession(c) ==
    /\ client[c] = "leaving" /\ Polls(via[c])
    /\ client' = [client EXCEPT ![c] = "closed"]
    /\ UNCHANGED <<brokerVars, via, childVars>>

\* The loop ends.  The poll before has run the callbacks that were queued.
StopServing(b) ==
    /\ thread[b] = "serving"
    /\ At(b, {"queued"}) = {}
    /\ stop' = stop \cup {b}
    /\ thread' = [thread EXCEPT ![b] = "flush"]
    /\ UNCHANGED <<docBrokers, docKey, marked, clientVars>>

\* The end of the loop's body: "dead", a broker without sessions.
BrokerDead(b) ==
    /\ SessionsOf(b) = {} /\ b \in marked
    /\ StopServing(b) /\ UNCHANGED <<kitSocket, childVars>>

\* The document is idle, or was closed and saved, or is without sessions once
\* loaded.
BrokerIdle(b) == StopServing(b) /\ UNCHANGED <<kitSocket, childVars>>

\* The document did not load within limit_load_secs: the kit is killed.
LoadTimesOut(b) ==
    /\ StopServing(b)
    /\ child' = [child EXCEPT ![b] = "closed"]
    /\ UNCHANGED <<kitSocket, forkitVars, poolVars, boundVars>>

\* PrisonerRequestDispatcher::onDisconnect: the kit's end of its socket is closed.
KitDisconnects(b) ==
    /\ b \in kitSocket /\ child[b] # "live"
    /\ kitSocket' = kitSocket \ {b}
    /\ \/ StopServing(b)
       \/ /\ thread[b] = "flush" /\ At(b, {"queued"}) = {}
          /\ UNCHANGED <<docBrokers, docKey, thread, stop, marked, clientVars>>
    /\ UNCHANGED childVars

\* After the loop and the flush: terminateChild shuts the clients down and
\* closes the kit; the poll stops and lets go of its sockets.
TerminateChild(b) ==
    /\ thread[b] = "flush" /\ (Polls(b) => At(b, {"queued"}) = {})
    /\ thread' = [thread EXCEPT ![b] = "ending"]
    /\ client' = [c \in Clients |->
                    IF via[c] = b /\ client[c] \in {"polled", "session", "leaving"}
                    THEN "closed" ELSE client[c]]
    /\ child' = [child EXCEPT ![b] = "closed"]
    /\ kitSocket' = kitSocket \ {b}
    /\ UNCHANGED <<docBrokers, docKey, stop, marked, via, forkitVars, poolVars, boundVars>>

ThreadEnds(b) ==
    /\ thread[b] = "ending"
    /\ thread' = [thread EXCEPT ![b] = "finished"]
    /\ UNCHANGED <<docBrokers, docKey, stop, marked, kitSocket, clientVars, childVars>>
=============================================================================
