-------------------------- MODULE WsdServer_proofs --------------------------
(***************************************************************************)
(* Proofs about the map of brokers and the pool of kits of WsdServer, for  *)
(* any number of clients and documents and any pool.                       *)
(*                                                                         *)
(* That a document has one broker at most does not follow from the map     *)
(* having one entry per docKey: brokers live on outside of it.  What makes *)
(* it true is RunningIsRegistered, which cleanupDocBrokers keeps because   *)
(* isAlive() covers both a thread that runs and one not yet started, and   *)
(* the latter because nobody stops a broker before its thread runs.        *)
(*                                                                         *)
(* The kits under way are a sum over the commands in forkit's pipe, and    *)
(* the live kits are what a loop leaves over, so that the second half      *)
(* needs inductions over sequences.  They are by descent: of the numbers   *)
(* for which a statement fails there is a least one, since < is well       *)
(* founded on Nat.                                                         *)
(***************************************************************************)
EXTENDS WsdServer, WellFoundedInduction, NaturalsInduction, SequenceTheorems, TLAPS

Occupied == Running \cup {"made"}

\* A broker whose thread runs, or will run, is in the map.
RunningIsRegistered == \A b \in Brokers : thread[b] \in Occupied => b \in docBrokers

\* The map has one broker for a document.
OneEntryPerDocument ==
    \A b, e \in docBrokers : docKey[b] = docKey[e] => b = e

\* No broker is stopped before its thread runs, and none exists before the
\* client it is named after has come.
FreshIsNotStopped ==
    /\ \A b \in Brokers : thread[b] \in {"none", "made"} => b \notin stop
    /\ \A c \in Clients : client[c] = "new" => thread[c] = "none"

\* Sockets are in the poll of a broker only while it polls.
PolledIsServed ==
    \A c \in Clients :
        client[c] \in {"polled", "session", "leaving"}
            => thread[via[c]] \in {"serving", "flush"}

MapInv ==
    /\ MapTypeOK
    /\ RunningIsRegistered
    /\ OneEntryPerDocument
    /\ FreshIsNotStopped
    /\ PolledIsServed

\* What a broker's thread does keeps the map, and moves that broker from one
\* running state to another, or to its end.
LEMMA ThreadMoves ==
    ASSUME MapInv, NEW b \in Brokers, NEW s \in Running \cup {"finished"},
           thread[b] \in Running,
           thread' = [thread EXCEPT ![b] = s],
           stop' \in {stop, stop \cup {b}},
           thread[b] \in {"serving", "flush"} => s \in {"serving", "flush"},
           s = "finished" => thread[b] = "ending",
           marked' \in SUBSET Brokers, kitSocket' \in SUBSET Brokers,
           UNCHANGED <<docBrokers, docKey, clientVars>>
    PROVE  MapInv'
  <1>1. MapTypeOK'
    BY DEF MapInv, MapTypeOK, ThreadStates, Running, Clients, clientVars
  <1>2. RunningIsRegistered'
    BY DEF MapInv, MapTypeOK, RunningIsRegistered, Occupied, ThreadStates, Running
  <1>3. OneEntryPerDocument'
    BY DEF MapInv, OneEntryPerDocument
  <1>4. FreshIsNotStopped'
    BY DEF MapInv, MapTypeOK, FreshIsNotStopped, ThreadStates, Running, Clients, clientVars
  <1>5. PolledIsServed'
    BY DEF MapInv, MapTypeOK, PolledIsServed, ThreadStates, Running, Clients, clientVars
  <1> QED BY <1>1, <1>2, <1>3, <1>4, <1>5 DEF MapInv

\* cleanupDocBrokers only removes brokers whose thread is over.
LEMMA CleanupKeepsRunning ==
    ASSUME MapInv
    PROVE  /\ AliveDocBrokers \subseteq docBrokers
           /\ \A b \in Brokers : thread[b] \in Occupied => b \in AliveDocBrokers
  BY DEF MapInv, MapTypeOK, RunningIsRegistered, FreshIsNotStopped, AliveDocBrokers,
         IsAlive, Occupied

LEMMA MapInitial == Init => MapInv
  BY DEF Init, MapInit, MapInv, MapTypeOK, RunningIsRegistered, OneEntryPerDocument,
         FreshIsNotStopped, PolledIsServed, Occupied, Running, ThreadStates,
         ClientStates, Clients

LEMMA MapInductive == MapInv /\ [Next]_vars => MapInv'
  <1> SUFFICES ASSUME MapInv, [Next]_vars PROVE MapInv'
    OBVIOUS
  <1>1. ASSUME NEW p \in BOOLEAN, NEW m \in BOOLEAN, WakeupHook(p, m) PROVE MapInv'
    <2>1. MapTypeOK'
      BY <1>1, CleanupKeepsRunning DEF WakeupHook, MapInv, MapTypeOK, clientVars
    <2>2. RunningIsRegistered'
      BY <1>1, CleanupKeepsRunning DEF WakeupHook, MapInv, RunningIsRegistered, Occupied
    <2>3. OneEntryPerDocument'
      BY <1>1, CleanupKeepsRunning DEF WakeupHook, MapInv, OneEntryPerDocument
    <2>4. FreshIsNotStopped' /\ PolledIsServed'
      BY <1>1 DEF WakeupHook, MapInv, FreshIsNotStopped, PolledIsServed, clientVars
    <2> QED BY <2>1, <2>2, <2>3, <2>4 DEF MapInv
  <1>2. CASE UNCHANGED mapVars
    BY <1>2 DEF MapInv, MapTypeOK, RunningIsRegistered, OneEntryPerDocument,
         FreshIsNotStopped, PolledIsServed, mapVars, brokerVars, clientVars
  <1>3. ASSUME NEW b \in Brokers, PollStep(b) PROVE MapInv'
    <2>1. CASE BrokerAsks(b)
      BY <2>1, ThreadMoves DEF BrokerAsks, NoChild, Running, MapInv, MapTypeOK
    <2>2. CASE BrokerTakesChild(b)
      BY <2>2, ThreadMoves DEF BrokerTakesChild, NoChild, Running, MapInv, MapTypeOK
    <2>3. CASE BrokerWaitsInVain(b)
      BY <2>3, ThreadMoves DEF BrokerWaitsInVain, NoChild, Running, MapInv, MapTypeOK
    <2>4. ASSUME StopServing(b), kitSocket' \in SUBSET Brokers PROVE MapInv'
      BY <2>4, ThreadMoves DEF StopServing, Running, MapInv, MapTypeOK
    <2>5. CASE BrokerDead(b) \/ BrokerIdle(b) \/ LoadTimesOut(b)
      BY <2>4, <2>5 DEF BrokerDead, BrokerIdle, LoadTimesOut, MapInv, MapTypeOK
    <2>6. CASE KitDisconnects(b)
      <3>1. kitSocket' \in SUBSET Brokers
        BY <2>6 DEF KitDisconnects, MapInv, MapTypeOK
      <3>2. CASE StopServing(b)
        BY <2>4, <3>1, <3>2
      <3>3. CASE UNCHANGED <<docBrokers, docKey, thread, stop, marked, clientVars>>
        BY <3>1, <3>3 DEF MapInv, MapTypeOK, RunningIsRegistered, OneEntryPerDocument,
             FreshIsNotStopped, PolledIsServed, clientVars
      <3> QED BY <2>6, <3>2, <3>3 DEF KitDisconnects
    <2>7. CASE TerminateChild(b)
      <3>1. MapTypeOK'
        BY <2>7 DEF TerminateChild, MapInv, MapTypeOK, ThreadStates, Running, ClientStates
      <3>2. RunningIsRegistered' /\ OneEntryPerDocument'
        BY <2>7 DEF TerminateChild, MapInv, MapTypeOK, RunningIsRegistered,
             OneEntryPerDocument, Occupied, Running
      <3>3. FreshIsNotStopped'
        BY <2>7 DEF TerminateChild, MapInv, MapTypeOK, FreshIsNotStopped, Clients
      <3>4. PolledIsServed'
        BY <2>7 DEF TerminateChild, MapInv, MapTypeOK, PolledIsServed, Clients
      <3> QED BY <3>1, <3>2, <3>3, <3>4 DEF MapInv
    <2>8. CASE ThreadEnds(b)
      BY <2>8, ThreadMoves DEF ThreadEnds, Running, MapInv, MapTypeOK
    <2> QED BY <1>3, <2>1, <2>2, <2>3, <2>5, <2>6, <2>7, <2>8 DEF PollStep
  <1>4. ASSUME NEW c \in Clients, WebServerStep(c) PROVE MapInv'
    <2>1. CASE FindOrCreateDocBroker(c)
      <3>1. MapTypeOK'
        BY <2>1, CleanupKeepsRunning DEF FindOrCreateDocBroker, MapInv, MapTypeOK,
             ThreadStates, ClientStates, Clients
      <3>2. RunningIsRegistered'
        BY <2>1, CleanupKeepsRunning DEF FindOrCreateDocBroker, MapInv, MapTypeOK,
             RunningIsRegistered, Clients
      <3>3. OneEntryPerDocument'
        BY <2>1, CleanupKeepsRunning DEF FindOrCreateDocBroker, MapInv, MapTypeOK,
             OneEntryPerDocument, Clients
      <3>4. FreshIsNotStopped'
        BY <2>1 DEF FindOrCreateDocBroker, MapInv, MapTypeOK, FreshIsNotStopped, Clients
      <3>5. PolledIsServed'
        BY <2>1 DEF FindOrCreateDocBroker, MapInv, MapTypeOK, FreshIsNotStopped,
             PolledIsServed, Clients
      <3> QED BY <3>1, <3>2, <3>3, <3>4, <3>5 DEF MapInv
    <2>2. CASE MoveSocket(c)
      BY <2>2 DEF MoveSocket, MapInv, MapTypeOK, RunningIsRegistered, OneEntryPerDocument,
           FreshIsNotStopped, PolledIsServed, Occupied, Running, ThreadStates,
           ClientStates, Clients
    <2> QED BY <1>4, <2>1, <2>2 DEF WebServerStep
  <1>5. ASSUME NEW c \in Clients, SessionStep(c) PROVE MapInv'
    <2>1. /\ client[c] \in {"queued", "session", "leaving"}
          /\ thread[via[c]] \in {"serving", "flush"}
          /\ \E s \in {"session", "polled", "leaving", "closed"} :
               client' = [client EXCEPT ![c] = s]
          /\ marked' \in SUBSET Brokers
          /\ UNCHANGED <<docBrokers, docKey, thread, stop, kitSocket, via>>
      BY <1>5 DEF SessionStep, RunCallback, ClientLeaves, RemoveSession, Polls, MapInv,
           MapTypeOK, brokerVars, Clients
    <2>2. MapTypeOK'
      BY <2>1 DEF MapInv, MapTypeOK, ClientStates
    <2>3. RunningIsRegistered' /\ OneEntryPerDocument'
      BY <2>1 DEF MapInv, RunningIsRegistered, OneEntryPerDocument
    <2>4. FreshIsNotStopped' /\ PolledIsServed'
      BY <2>1 DEF MapInv, MapTypeOK, FreshIsNotStopped, PolledIsServed
    <2> QED BY <2>2, <2>3, <2>4 DEF MapInv
  <1>6. CASE UNCHANGED vars
    BY <1>2, <1>6 DEF vars
  <1> QED BY <1>1, <1>2, <1>3, <1>4, <1>5, <1>6 DEF Next

LEMMA MapInvariant == Spec => []MapInv
  BY MapInitial, MapInductive, PTL DEF Spec

\* For any number of clients and documents, and whatever the kits and forkit do:
\* a document never has two brokers whose threads run or will run
\* (findOrCreateDocBroker, cleanupDocBrokers, isAlive).
THEOREM OneBrokerAtWork == Spec => []OneBrokerPerDocument
  <1>1. MapInv => OneBrokerPerDocument
    BY DEF MapInv, RunningIsRegistered, OneEntryPerDocument, OneBrokerPerDocument, Occupied
  <1> QED BY <1>1, MapInvariant, PTL

\* In the same generality, every client with a socket or a session at a broker
\* finds that broker in the map (cleanupDocBrokers, terminateChild).
THEOREM SessionsStayRegistered == Spec => []SessionsAreRegistered
  <1>1. MapInv => SessionsAreRegistered
    BY DEF MapInv, MapTypeOK, RunningIsRegistered, PolledIsServed, SessionsAreRegistered,
         Occupied, Running
  <1> QED BY <1>1, MapInvariant, PTL

-----------------------------------------------------------------------------
(* Descent, and functions that are defined by recursion up to a number.    *)

LEMMA LeastNumber ==
    ASSUME NEW T \in SUBSET Nat, T # {}
    PROVE  \E m \in T : \A n \in T : m <= n
  <1>1. IsWellFoundedOn(OpToRel(<, Nat), Nat)
    BY NatLessThanWellFounded
  <1>2. PICK m \in T : \A n \in T : ~ (<<n, m>> \in OpToRel(<, Nat))
    BY <1>1, WFMin
  <1>3. \A n \in T : ~(n < m)
    BY <1>2 DEF OpToRel
  <1> QED BY <1>3

\* The functions that start with a and take step[i] from i - 1 to i.
Iterations(n, S, a, step) ==
    {f \in [0..n -> S] : f[0] = a /\ \A i \in 1..n : f[i] = step[i][f[i - 1]]}

LEMMA IterationExists ==
    ASSUME NEW n \in Nat, NEW S, NEW a \in S, NEW step \in [1..n -> [S -> S]]
    PROVE  Iterations(n, S, a, step) # {}
  <1> DEFINE T == {k \in 0..n : Iterations(k, S, a, step) = {}}
  <1> SUFFICES ASSUME T # {} PROVE FALSE
    OBVIOUS
  <1>1. PICK k \in T : \A j \in T : k <= j
    <2>1. T \in SUBSET Nat
      OBVIOUS
    <2> HIDE DEF T
    <2> QED BY <2>1, LeastNumber
  <1>2. k # 0
    <2> DEFINE z == [i \in 0..0 |-> a]
    <2>1. z \in [0..0 -> S] /\ z[0] = a /\ 1..0 = {}
      OBVIOUS
    <2>2. z \in Iterations(0, S, a, step)
      BY <2>1 DEF Iterations
    <2> QED BY <2>2
  <1>3. PICK g : g \in Iterations(k - 1, S, a, step)
    <2>1. k - 1 \in 0..n /\ k - 1 \notin T
      BY <1>1, <1>2
    <2> QED BY <2>1
  <1> DEFINE h == [i \in 0..k |-> IF i = k THEN step[k][g[k - 1]] ELSE g[i]]
  <1>4. g[k - 1] \in S /\ step[k][g[k - 1]] \in S
    BY <1>1, <1>2, <1>3, k \in 1..n, k - 1 \in 0..(k - 1) DEF Iterations
  <1>5. h \in [0..k -> S]
    BY <1>1, <1>2, <1>3, <1>4 DEF Iterations
  <1>6. h[0] = a
    BY <1>1, <1>2, <1>3 DEF Iterations
  <1>7. ASSUME NEW i \in 1..k PROVE h[i] = step[i][h[i - 1]]
    BY <1>1, <1>2, <1>3 DEF Iterations
  <1>8. h \in Iterations(k, S, a, step)
    BY <1>5, <1>6, <1>7 DEF Iterations
  <1> QED BY <1>8

-----------------------------------------------------------------------------
(* What the commands in forkit's pipe ask for.                             *)

LEMMA AskedUpToDefined ==
    ASSUME NEW p \in Seq(Nat)
    PROVE  /\ AskedUpTo(p) \in [0..Len(p) -> Nat]
           /\ AskedUpTo(p)[0] = 0
           /\ \A i \in 1..Len(p) : AskedUpTo(p)[i] = AskedUpTo(p)[i - 1] + p[i]
  <1> DEFINE step == [i \in 1..Len(p) |-> [x \in Nat |-> x + p[i]]]
             Right(f) == f = [i \in 0..Len(p) |-> IF i = 0 THEN 0 ELSE f[i - 1] + p[i]]
  <1>1. PICK f : f \in Iterations(Len(p), Nat, 0, step)
    <2>1. step \in [1..Len(p) -> [Nat -> Nat]]
      BY \A i \in 1..Len(p) : p[i] \in Nat
    <2>2. Len(p) \in Nat /\ 0 \in Nat
      OBVIOUS
    <2> HIDE DEF step
    <2>3. Iterations(Len(p), Nat, 0, step) # {}
      BY <2>1, <2>2, IterationExists
    <2> QED BY <2>3
  <1>2. /\ f \in [0..Len(p) -> Nat] /\ f[0] = 0
        /\ \A i \in 1..Len(p) : f[i] = f[i - 1] + p[i]
    <2>1. /\ f \in [0..Len(p) -> Nat] /\ f[0] = 0
          /\ \A i \in 1..Len(p) : f[i] = step[i][f[i - 1]]
      BY <1>1 DEF Iterations
    <2>2. ASSUME NEW i \in 1..Len(p) PROVE f[i] = f[i - 1] + p[i]
      <3>1. f[i - 1] \in Nat
        BY <2>1, i - 1 \in 0..Len(p)
      <3>2. step[i] = [x \in Nat |-> x + p[i]]
        OBVIOUS
      <3> QED BY <2>1, <3>1, <3>2
    <2> QED BY <2>1, <2>2
  <1>3. Right(f)
    BY <1>2
  <1>4. AskedUpTo(p) = CHOOSE g : Right(g)
    BY DEF AskedUpTo
  <1>5. Right(AskedUpTo(p))
    <2> HIDE DEF Right
    <2> QED BY <1>3, <1>4
  <1> DEFINE a == AskedUpTo(p)
  <1>6. a[0] = 0 /\ \A i \in 1..Len(p) : a[i] = a[i - 1] + p[i]
    BY <1>5
  <1>7. \A i \in 0..Len(p) : a[i] = f[i]
    <2> DEFINE T == {i \in 0..Len(p) : a[i] # f[i]}
    <2> SUFFICES ASSUME T # {} PROVE FALSE
      OBVIOUS
    <2>1. PICK k \in T : \A j \in T : k <= j
      <3>1. T \in SUBSET Nat
        OBVIOUS
      <3> HIDE DEF T
      <3> QED BY <3>1, LeastNumber
    <2>2. k # 0
      BY <1>2, <1>6
    <2>3. a[k - 1] = f[k - 1]
      BY <2>1, <2>2
    <2> HIDE DEF a
    <2> QED BY <1>2, <1>6, <2>2, <2>3
  <1>8. a \in [0..Len(p) -> Nat]
    BY <1>2, <1>5, <1>7
  <1> QED BY <1>6, <1>8

LEMMA AskedIsNat ==
    ASSUME NEW p \in Seq(Nat)
    PROVE  Asked(p) \in Nat
  BY AskedUpToDefined, Len(p) \in 0..Len(p) DEF Asked

LEMMA AskedOfNone == Asked(<<>>) = 0
  BY AskedUpToDefined, <<>> \in Seq(Nat), Len(<<>>) = 0 DEF Asked

\* A command that is written adds what it asks for.
LEMMA AskedAppend ==
    ASSUME NEW p \in Seq(Nat), NEW n \in Nat
    PROVE  Asked(Append(p, n)) = Asked(p) + n
  <1> DEFINE q == Append(p, n)
             a == AskedUpTo(p)
             b == AskedUpTo(q)
             T == {i \in 0..Len(p) : b[i] # a[i]}
  <1>1. /\ q \in Seq(Nat) /\ Len(q) = Len(p) + 1 /\ q[Len(p) + 1] = n
        /\ \A i \in 1..Len(p) : q[i] = p[i]
    OBVIOUS
  <1>2. /\ a[0] = 0 /\ \A i \in 1..Len(p) : a[i] = a[i - 1] + p[i]
    BY AskedUpToDefined
  <1>3. /\ b[0] = 0 /\ \A i \in 1..(Len(p) + 1) : b[i] = b[i - 1] + q[i]
    <2> HIDE DEF q
    <2> QED BY <1>1, AskedUpToDefined
  <1>4. T = {}
    <2> SUFFICES ASSUME T # {} PROVE FALSE
      OBVIOUS
    <2>1. PICK k \in T : \A j \in T : k <= j
      <3>1. T \in SUBSET Nat
        OBVIOUS
      <3> HIDE DEF T
      <3> QED BY <3>1, LeastNumber
    <2> HIDE DEF q, a, b
    <2>2. k # 0
      BY <1>2, <1>3
    <2>3. b[k - 1] = a[k - 1]
      BY <2>1, <2>2
    <2> QED BY <1>1, <1>2, <1>3, <2>2, <2>3
  <1>5. b[Len(p)] = a[Len(p)]
    <2> HIDE DEF a, b
    <2> QED BY <1>4
  <1>6. b[Len(p) + 1] = b[Len(p)] + n
    <2> HIDE DEF b
    <2> QED BY <1>1, <1>3, Len(p) + 1 \in 1..(Len(p) + 1)
  <1> QED BY <1>1, <1>5, <1>6 DEF Asked

\* A command that is read takes away what it asks for.
LEMMA AskedTail ==
    ASSUME NEW p \in Seq(Nat), p # <<>>
    PROVE  Asked(Tail(p)) = Asked(p) - Head(p)
  <1> DEFINE q == Tail(p)
             a == AskedUpTo(p)
             b == AskedUpTo(q)
             T == {i \in 0..Len(q) : b[i] # a[i + 1] - p[1]}
  <1>1. /\ q \in Seq(Nat) /\ Len(q) = Len(p) - 1 /\ Len(q) \in Nat /\ Head(p) = p[1]
        /\ \A i \in 1..Len(q) : q[i] = p[i + 1] /\ p[i + 1] \in Nat
        /\ p[1] \in Nat
    OBVIOUS
  <1>2. /\ a \in [0..Len(p) -> Nat]
        /\ a[0] = 0 /\ \A i \in 1..Len(p) : a[i] = a[i - 1] + p[i]
    BY AskedUpToDefined
  <1>3. /\ b \in [0..Len(q) -> Nat]
        /\ b[0] = 0 /\ \A i \in 1..Len(q) : b[i] = b[i - 1] + q[i]
    <2> HIDE DEF q
    <2> QED BY <1>1, AskedUpToDefined
  <1>4. T = {}
    <2> SUFFICES ASSUME T # {} PROVE FALSE
      OBVIOUS
    <2>1. PICK k \in T : \A j \in T : k <= j
      <3>1. T \in SUBSET Nat
        BY <1>1
      <3> HIDE DEF T
      <3> QED BY <3>1, LeastNumber
    <2> HIDE DEF q, a, b
    <2>2. k # 0
      <3>1. a[1] = a[0] + p[1]
        BY <1>1, <1>2, 1 \in 1..Len(p)
      <3> QED BY <1>1, <1>2, <1>3, <3>1
    <2>7. k \in 1..Len(q) /\ k - 1 \in 0..Len(q) /\ k \in 1..Len(p) /\ k + 1 \in 1..Len(p)
      <3>1. k \in 0..Len(q)
        OBVIOUS
      <3> HIDE DEF T
      <3> QED BY <1>1, <2>2, <3>1
    <2>3. b[k - 1] = a[k] - p[1]
      <3>1. k - 1 \notin T
        <4> HIDE DEF T
        <4> QED BY <2>1, <2>7
      <3>2. (k - 1) + 1 = k
        BY <2>7
      <3> QED BY <2>7, <3>1, <3>2
    <2>4. b[k] = b[k - 1] + q[k] /\ a[k + 1] = a[k] + p[k + 1] /\ q[k] = p[k + 1]
      <3>1. b[k] = b[k - 1] + q[k] /\ q[k] = p[k + 1]
        BY <1>1, <1>3, <2>7
      <3>2. (k + 1) - 1 = k
        BY <2>7
      <3> QED BY <1>2, <2>7, <3>1, <3>2
    <2>5. a[k] \in Nat /\ p[k + 1] \in Nat
      BY <1>1, <1>2, <2>7, k \in 0..Len(p)
    <2>6. b[k] # a[k + 1] - p[1]
      <3>1. k \in {i \in 0..Len(q) : b[i] # a[i + 1] - p[1]}
        OBVIOUS
      <3> HIDE DEF T
      <3> QED BY ONLY <3>1
    <2>8. p[1] \in Nat
      BY <1>1
    <2>9. (a[k] - p[1]) + p[k + 1] = (a[k] + p[k + 1]) - p[1]
      BY ONLY <2>5, <2>8
    <2> QED BY ONLY <2>3, <2>4, <2>6, <2>9
  <1>5. b[Len(q)] = a[Len(q) + 1] - p[1]
    <2> HIDE DEF a, b, q
    <2> QED BY <1>1, <1>4
  <1> QED BY <1>1, <1>5 DEF Asked

-----------------------------------------------------------------------------
(* What cleanupChildren leaves.                                            *)

LEMMA AliveUpToDefined ==
    ASSUME NEW s \in Seq(KitStates)
    PROVE  /\ AliveUpTo(s)[0] = <<>>
           /\ \A i \in 1..Len(s) :
                AliveUpTo(s)[i] = IF SeenAlive(s[i]) THEN Append(AliveUpTo(s)[i - 1], s[i])
                                  ELSE AliveUpTo(s)[i - 1]
  <1> DEFINE step == [i \in 1..Len(s) |-> [t \in Seq(KitStates) |->
                          IF SeenAlive(s[i]) THEN Append(t, s[i]) ELSE t]]
             Right(f) == f = [i \in 0..Len(s) |->
                                IF i = 0 THEN <<>>
                                ELSE IF SeenAlive(s[i]) THEN Append(f[i - 1], s[i])
                                ELSE f[i - 1]]
  <1>1. PICK f : f \in Iterations(Len(s), Seq(KitStates), <<>>, step)
    <2>1. step \in [1..Len(s) -> [Seq(KitStates) -> Seq(KitStates)]]
      BY \A i \in 1..Len(s) : s[i] \in KitStates
    <2>2. Len(s) \in Nat /\ <<>> \in Seq(KitStates)
      OBVIOUS
    <2> HIDE DEF step
    <2>3. Iterations(Len(s), Seq(KitStates), <<>>, step) # {}
      BY <2>1, <2>2, IterationExists
    <2> QED BY <2>3
  <1>2. Right(f)
    <2>1. /\ f \in [0..Len(s) -> Seq(KitStates)] /\ f[0] = <<>>
          /\ \A i \in 1..Len(s) : f[i] = step[i][f[i - 1]]
      BY <1>1 DEF Iterations
    <2>2. ASSUME NEW i \in 1..Len(s)
          PROVE  f[i] = IF SeenAlive(s[i]) THEN Append(f[i - 1], s[i]) ELSE f[i - 1]
      <3>1. f[i - 1] \in Seq(KitStates)
        BY <2>1, i - 1 \in 0..Len(s)
      <3>2. step[i] = [t \in Seq(KitStates) |->
                          IF SeenAlive(s[i]) THEN Append(t, s[i]) ELSE t]
        OBVIOUS
      <3> QED BY <2>1, <3>1, <3>2
    <2>3. ASSUME NEW i \in 0..Len(s)
          PROVE  f[i] = IF i = 0 THEN <<>>
                        ELSE IF SeenAlive(s[i]) THEN Append(f[i - 1], s[i]) ELSE f[i - 1]
      <3>1. CASE i = 0
        BY <2>1, <3>1
      <3>2. CASE i \in 1..Len(s)
        <4> HIDE DEF step
        <4> QED BY <2>2, <3>2
      <3> QED BY <3>1, <3>2
    <2>4. f = [i \in 0..Len(s) |-> f[i]]
      BY <2>1
    <2> HIDE DEF step
    <2> QED BY <2>3, <2>4
  <1>3. AliveUpTo(s) = CHOOSE g : Right(g)
    BY DEF AliveUpTo
  <1>4. Right(AliveUpTo(s))
    <2> HIDE DEF Right
    <2> QED BY <1>2, <1>3
  <1> DEFINE a == AliveUpTo(s)
  <1>5. a = [i \in 0..Len(s) |->
               IF i = 0 THEN <<>>
               ELSE IF SeenAlive(s[i]) THEN Append(a[i - 1], s[i]) ELSE a[i - 1]]
    BY <1>4
  <1> HIDE DEF a, step, Right
  <1>6. a[0] = <<>>
    BY <1>5, 0 \in 0..Len(s)
  <1>7. ASSUME NEW i \in 1..Len(s)
        PROVE  a[i] = IF SeenAlive(s[i]) THEN Append(a[i - 1], s[i]) ELSE a[i - 1]
    <2>1. i \in 0..Len(s) /\ i # 0
      OBVIOUS
    <2> QED BY <1>5, <2>1
  <1> QED BY <1>6, <1>7 DEF a

LEMMA AliveAreFewer ==
    ASSUME NEW s \in Seq(KitStates)
    PROVE  Alive(s) \in Seq(KitStates) /\ Len(Alive(s)) <= Len(s)
  <1> DEFINE a == AliveUpTo(s)
             Fine(i) == a[i] \in Seq(KitStates) /\ Len(a[i]) <= i
             T == {i \in 0..Len(s) : ~Fine(i)}
  <1>1. /\ a[0] = <<>>
        /\ \A i \in 1..Len(s) :
             a[i] = IF SeenAlive(s[i]) THEN Append(a[i - 1], s[i]) ELSE a[i - 1]
    BY AliveUpToDefined
  <1>2. T = {}
    <2> SUFFICES ASSUME T # {} PROVE FALSE
      OBVIOUS
    <2>1. PICK k \in T : \A j \in T : k <= j
      <3>1. T \in SUBSET Nat
        OBVIOUS
      <3> HIDE DEF T
      <3> QED BY <3>1, LeastNumber
    <2> HIDE DEF a
    <2>2. k \in 0..Len(s) /\ ~Fine(k)
      OBVIOUS
    <2>3. k # 0
      <3>1. Fine(0)
        BY <1>1, <<>> \in Seq(KitStates), Len(<<>>) = 0
      <3> QED BY <2>2, <3>1
    <2>4. Fine(k - 1)
      <3>1. k - 1 \in 0..Len(s) /\ ~(k <= k - 1)
        BY <2>2, <2>3
      <3>2. k - 1 \notin T
        <4> HIDE DEF T
        <4> QED BY <2>1, <3>1
      <3> QED BY <3>1, <3>2
    <2>5. k \in 1..Len(s) /\ s[k] \in KitStates
      BY <2>2, <2>3
    <2>6. a[k] = Append(a[k - 1], s[k]) \/ a[k] = a[k - 1]
      BY <1>1, <2>5
    <2>7. Len(Append(a[k - 1], s[k])) = Len(a[k - 1]) + 1
          /\ Append(a[k - 1], s[k]) \in Seq(KitStates) /\ Len(a[k - 1]) \in Nat
      BY <2>4, <2>5
    <2>8. k \in Int /\ Len(a[k - 1]) <= k - 1 /\ a[k - 1] \in Seq(KitStates)
      BY <2>4, <2>5
    <2>9. Len(a[k - 1]) <= k /\ Len(a[k - 1]) + 1 <= k
      BY <2>7, <2>8
    <2> HIDE DEF T
    <2>10. CASE a[k] = Append(a[k - 1], s[k])
      <3>1. a[k] \in Seq(KitStates) /\ Len(a[k]) = Len(a[k - 1]) + 1
        BY <2>7, <2>10
      <3> QED BY <2>2, <2>9, <3>1
    <2>11. CASE a[k] = a[k - 1]
      BY <2>2, <2>8, <2>9, <2>11
    <2> QED BY <2>6, <2>10, <2>11
  <1>3. Fine(Len(s))
    BY <1>2
  <1> QED BY <1>3 DEF Alive

-----------------------------------------------------------------------------
(* The pool.                                                               *)

\* wsd expects every kit that is under way, or knows it has lost count of it.
EveryForkIsExpected == InFlight <= outstanding + unaccounted

\* What forkit was asked for dies with it, and a new one only reads its pipe
\* once it is up.
DeadForkitOwesNothing ==
    /\ ~ForkitListens(forkit) => pipe = <<>>
    /\ forkit # "up" => forkCounter = 0

SpareInv ==
    /\ PoolTypeOK
    /\ EveryForkIsExpected
    /\ DeadForkitOwesNothing
    /\ SpareKitsAreBounded

LEMMA PipeAsks ==
    ASSUME NEW p \in Seq(Nat \ {0})
    PROVE  /\ p \in Seq(Nat) /\ Asked(p) \in Nat
           /\ \A n \in Nat \ {0} : /\ Append(p, n) \in Seq(Nat \ {0})
                                    /\ Asked(Append(p, n)) = Asked(p) + n
           /\ p # <<>> => /\ Tail(p) \in Seq(Nat \ {0}) /\ Head(p) \in Nat
                          /\ Asked(Tail(p)) = Asked(p) - Head(p)
  <1>1. p \in Seq(Nat)
    BY \A i \in 1..Len(p) : p[i] \in Nat
  <1>2. Asked(p) \in Nat /\ \A n \in Nat : Asked(Append(p, n)) = Asked(p) + n
    BY <1>1, AskedIsNat, AskedAppend
  <1>3. p # <<>> => Asked(Tail(p)) = Asked(p) - Head(p)
    BY <1>1, AskedTail
  <1>4. \A n \in Nat \ {0} : Append(p, n) \in Seq(Nat \ {0})
    OBVIOUS
  <1>5. p # <<>> => Tail(p) \in Seq(Nat \ {0}) /\ Head(p) \in Nat
    OBVIOUS
  <1>6. \A n \in Nat \ {0} : Asked(Append(p, n)) = Asked(p) + n
    BY <1>2
  <1> QED BY <1>1, <1>2, <1>3, <1>4, <1>5, <1>6

\* rebalanceChildren only asks for what is missing.
LEMMA RebalanceAsksForTheMissing ==
    ASSUME PoolTypeOK, NEW balance \in Int, NEW expected \in Nat, NEW tooLate \in BOOLEAN,
           NEW r, r = RebalanceChildren(balance, expected, tooLate)
    PROVE  /\ r.alive \in Seq(KitStates) /\ Len(r.alive) <= Len(newChildren)
           /\ r.counted \in Nat /\ r.forgotten \in Nat /\ r.spawn \in Nat
           /\ r.counted + r.forgotten = expected
           /\ ~tooLate => r.counted = expected
           /\ r.spawn > 0 => Len(r.alive) + r.counted + r.spawn = balance
  <1> DEFINE alive == Alive(newChildren)
             counted == IF tooLate THEN 0 ELSE expected
             missing == balance - Len(alive) - counted
             asks == missing > 0 /\ (Len(alive) # Len(newChildren) \/ counted = 0)
  <1>1. alive \in Seq(KitStates) /\ Len(alive) <= Len(newChildren) /\ Len(alive) \in Nat
    BY AliveAreFewer DEF PoolTypeOK
  <1>2. /\ r.alive = alive /\ r.counted = counted /\ r.forgotten = expected - counted
        /\ r.spawn = IF asks THEN missing ELSE 0
    BY DEF RebalanceChildren
  <1> HIDE DEF alive
  <1>3. counted \in Nat /\ expected - counted \in Nat /\ missing \in Int
    BY <1>1
  <1>4. r.counted \in Nat /\ r.forgotten \in Nat /\ r.counted + r.forgotten = expected
    BY <1>2, <1>3
  <1>5. ~tooLate => r.counted = expected
    BY <1>2
  <1> HIDE DEF counted
  <1>6. r.spawn \in Nat /\ (r.spawn > 0 => r.spawn = balance - Len(alive) - counted)
    BY <1>1, <1>2, <1>3
  <1>7. r.spawn > 0 => Len(r.alive) + r.counted + r.spawn = balance
    <2>1. Len(r.alive) = Len(alive) /\ r.counted = counted /\ counted \in Nat
      BY <1>2, <1>3
    <2> HIDE DEF missing, asks
    <2> QED BY <1>1, <1>6, <2>1
  <1> QED BY <1>1, <1>2, <1>4, <1>5, <1>6, <1>7

\* The three numbers of the pool after a step that asks for n more kits, when it
\* expects e, has lost count of u, and has l spare kits: nothing but arithmetic.
LEMMA StillBounded ==
    ASSUME NEW flying \in Nat, NEW e \in Nat, NEW u \in Nat, NEW l \in Nat,
           NEW size \in Nat,
           flying <= e + u, l + flying <= size + 1 + u,
           NEW n \in Nat, NEW counted \in Nat, NEW forgotten \in Nat, NEW left \in Nat,
           counted + forgotten = e, left <= l,
           NEW balance \in 0..(size + 1),
           n > 0 => left + counted + n = balance
    PROVE  /\ flying + n <= counted + n + (u + forgotten)
           /\ left + (flying + n) <= size + 1 + (u + forgotten)
  <1>1. flying <= counted + (u + forgotten)
    OBVIOUS
  <1>2. CASE n = 0
    BY <1>2
  <1>3. CASE n > 0
    BY <1>1, <1>3
  <1> QED BY <1>1, <1>2, <1>3

LEMMA RebalanceKeepsSpareInv ==
    ASSUME SpareInv, NEW balance \in 0..(NumPreSpawnedChildren + 1), Rebalance(balance),
           UNCHANGED <<forkit, forkCounter, forked, child, boundVars>>
    PROVE  SpareInv'
  <1> DEFINE r == RebalanceChildren(balance, outstanding, late)
  <1>1. NumPreSpawnedChildren \in Nat
    BY PoolAssumption
  <1>2. /\ pipe \in Seq(Nat \ {0}) /\ forkCounter \in Nat /\ forked \in Nat
        /\ newChildren \in Seq(KitStates) /\ outstanding \in Nat /\ unaccounted \in Nat
        /\ late \in BOOLEAN
    BY DEF SpareInv, PoolTypeOK
  <1>3. /\ r.alive \in Seq(KitStates) /\ Len(r.alive) <= Len(newChildren)
        /\ r.counted \in Nat /\ r.forgotten \in Nat /\ r.spawn \in Nat
        /\ r.counted + r.forgotten = outstanding
        /\ r.spawn > 0 => Len(r.alive) + r.counted + r.spawn = balance
    <2> HIDE DEF r
    <2>1. balance \in Int
      BY <1>1
    <2> QED BY <1>2, <2>1, RebalanceAsksForTheMissing DEF r, SpareInv
  <1>4. PICK n \in Nat, counted \in Nat, forgotten \in Nat :
          /\ counted = r.counted /\ forgotten = r.forgotten
          /\ n = IF r.spawn > 0 /\ ForkitListens(forkit) THEN r.spawn ELSE 0
    <2> HIDE DEF r
    <2> QED BY <1>3
  <1>5. /\ newChildren' = r.alive
        /\ outstanding' = counted + n
        /\ pipe' = IF n > 0 THEN Append(pipe, n) ELSE pipe
        /\ late' = (late /\ ~(n > 0))
        /\ unaccounted' = unaccounted + forgotten
    <2>1. /\ newChildren' = r.alive
          /\ outstanding' = IF r.spawn > 0 /\ ForkitListens(forkit)
                            THEN r.counted + r.spawn ELSE r.counted
          /\ pipe' = IF r.spawn > 0 /\ ForkitListens(forkit)
                     THEN Append(pipe, r.spawn) ELSE pipe
          /\ late' = (late /\ ~(r.spawn > 0 /\ ForkitListens(forkit)))
          /\ unaccounted' = unaccounted + r.forgotten
      BY DEF Rebalance
    <2> HIDE DEF r
    <2>2. CASE r.spawn > 0 /\ ForkitListens(forkit)
      BY <1>3, <1>4, <2>1, <2>2
    <2>3. CASE ~(r.spawn > 0 /\ ForkitListens(forkit))
      BY <1>3, <1>4, <2>1, <2>3
    <2> QED BY <2>2, <2>3
  <1>6. counted + forgotten = outstanding
    BY <1>3, <1>4
  <1>7. n > 0 => Len(r.alive) + counted + n = balance
    <2> HIDE DEF r
    <2> QED BY <1>3, <1>4
  <1> HIDE DEF r
  <1>8. /\ pipe' \in Seq(Nat \ {0}) /\ Asked(pipe) \in Nat
        /\ Asked(pipe') = Asked(pipe) + n
    <2>1. CASE n > 0
      BY <1>2, <1>5, <2>1, PipeAsks
    <2>2. CASE n = 0
      BY <1>2, <1>5, <2>2, PipeAsks
    <2> QED BY <2>1, <2>2
  <1>9. PoolTypeOK'
    <2>1. /\ outstanding' \in Nat /\ unaccounted' \in Nat /\ late' \in BOOLEAN
          /\ newChildren' \in Seq(KitStates)
      BY <1>2, <1>3, <1>5
    <2> QED BY <1>8, <2>1 DEF SpareInv, PoolTypeOK, boundVars
  <1>10. PICK start \in Nat : start = IF forkit = "starting" THEN 1 ELSE 0
    OBVIOUS
  <1>11. InFlight = Asked(pipe) + forkCounter + forked + start /\ InFlight \in Nat
    BY <1>2, <1>8, <1>10 DEF InFlight
  <1>12. InFlight' = Asked(pipe') + forkCounter + forked + start
    BY <1>10 DEF InFlight
  <1>13. InFlight' = InFlight + n
    <2>1. PICK asked \in Nat : asked = Asked(pipe)
      BY <1>8
    <2>2. (asked + n) + forkCounter + forked + start = (asked + forkCounter + forked + start) + n
      BY <1>2
    <2> QED BY <1>8, <1>11, <1>12, <2>1, <2>2
  <1>14. Len(newChildren) \in Nat /\ Len(r.alive) \in Nat
    BY <1>2, <1>3
  <1>15. /\ InFlight <= outstanding + unaccounted
         /\ Len(newChildren) + InFlight <= NumPreSpawnedChildren + 1 + unaccounted
    BY DEF SpareInv, EveryForkIsExpected, SpareKitsAreBounded
  <1>16. /\ InFlight + n <= counted + n + (unaccounted + forgotten)
         /\ Len(r.alive) + (InFlight + n)
              <= NumPreSpawnedChildren + 1 + (unaccounted + forgotten)
    <2>1. /\ outstanding \in Nat /\ unaccounted \in Nat /\ InFlight \in Nat
          /\ Len(r.alive) <= Len(newChildren)
      BY <1>2, <1>3, <1>11
    <2> QED BY <1>1, <1>6, <1>7, <1>14, <1>15, <2>1, StillBounded
  <1>17. EveryForkIsExpected' /\ SpareKitsAreBounded'
    BY <1>5, <1>13, <1>16 DEF EveryForkIsExpected, SpareKitsAreBounded
  <1>18. DeadForkitOwesNothing'
    BY <1>4, <1>5 DEF SpareInv, DeadForkitOwesNothing
  <1> QED BY <1>9, <1>17, <1>18 DEF SpareInv

LEMMA FlyingKits ==
    PoolTypeOK => /\ Asked(pipe) \in Nat
                  /\ InFlight = Asked(pipe) + forkCounter + forked
                                  + (IF forkit = "starting" THEN 1 ELSE 0)
                  /\ InFlight \in Nat /\ Len(newChildren) \in Nat
  <1> SUFFICES ASSUME PoolTypeOK PROVE /\ Asked(pipe) \in Nat
                                       /\ InFlight \in Nat /\ Len(newChildren) \in Nat
    BY DEF InFlight
  <1>1. Asked(pipe) \in Nat
    BY PipeAsks DEF PoolTypeOK
  <1>2. Len(newChildren) \in Nat
    BY DEF PoolTypeOK
  <1>3. forkCounter \in Nat /\ forked \in Nat
    BY DEF PoolTypeOK
  <1> QED BY <1>1, <1>2, <1>3 DEF InFlight

\* A step that lets no more kits fly or wait than it did keeps the bounds.
LEMMA NoMoreKits ==
    ASSUME SpareInv, PoolTypeOK', DeadForkitOwesNothing',
           InFlight' <= InFlight, Len(newChildren') <= Len(newChildren),
           UNCHANGED <<outstanding, unaccounted>>
    PROVE  SpareInv'
  <1>1. InFlight \in Nat /\ Len(newChildren) \in Nat
    BY FlyingKits DEF SpareInv
  <1>2. InFlight' \in Nat /\ Len(newChildren') \in Nat
    <2>1. (PoolTypeOK => InFlight \in Nat /\ Len(newChildren) \in Nat)'
      BY FlyingKits, PTL
    <2> QED BY <2>1
  <1>3. outstanding \in Nat /\ unaccounted \in Nat /\ NumPreSpawnedChildren \in Nat
    BY PoolAssumption DEF SpareInv, PoolTypeOK
  <1>4. EveryForkIsExpected'
    BY <1>1, <1>2, <1>3 DEF SpareInv, EveryForkIsExpected
  <1>5. SpareKitsAreBounded'
    BY <1>1, <1>2, <1>3 DEF SpareInv, SpareKitsAreBounded
  <1> QED BY <1>4, <1>5 DEF SpareInv

LEMMA SameKits ==
    ASSUME SpareInv, UNCHANGED <<forkitVars, poolVars, boundVars>>,
           child' \in [Brokers -> KitStates \cup {"none", "closed"}]
    PROVE  SpareInv'
  BY DEF SpareInv, PoolTypeOK, EveryForkIsExpected, DeadForkitOwesNothing,
         SpareKitsAreBounded, InFlight, forkitVars, poolVars, boundVars

\* createForKit: one kit comes unasked, and is counted as lost and as expected.
LEMMA CreateForKitKeepsSpareInv ==
    ASSUME SpareInv, ~ForkitListens(forkit), CreateForKit, UNCHANGED <<child, boundVars>>
    PROVE  SpareInv'
  <1> DEFINE N == NumPreSpawnedChildren
             expected == outstanding + 1
             balance == N - expected
             r == RebalanceChildren(balance, expected, FALSE)
  <1>1. /\ outstanding \in Nat /\ unaccounted \in Nat /\ forkCounter \in Nat /\ forked \in Nat
        /\ newChildren \in Seq(KitStates) /\ N \in Nat /\ forkit = "dead"
        /\ pipe = <<>> /\ forkCounter = 0
    BY PoolAssumption DEF SpareInv, PoolTypeOK, DeadForkitOwesNothing, ForkitListens
  <1>2. Asked(<<>>) = 0
    BY AskedOfNone
  <1>3. InFlight = forked
    BY <1>1, <1>2 DEF InFlight
  <1>4. /\ r.alive \in Seq(KitStates) /\ Len(r.alive) <= Len(newChildren)
        /\ r.counted = expected /\ r.spawn \in Nat
        /\ r.spawn > 0 => Len(r.alive) + r.counted + r.spawn = balance
    <2> HIDE DEF r
    <2>1. balance \in Int /\ expected \in Nat /\ PoolTypeOK
      BY <1>1 DEF SpareInv
    <2>2. PICK tooLate \in BOOLEAN : ~tooLate
      OBVIOUS
    <2>3. r = RebalanceChildren(balance, expected, tooLate)
      BY <2>2 DEF r, RebalanceChildren
    <2> HIDE DEF balance, expected
    <2> QED BY <2>1, <2>2, <2>3, RebalanceAsksForTheMissing
  <1> HIDE DEF r
  <1>5. PICK n \in Nat, kept \in Seq(KitStates) :
          /\ Len(kept) <= Len(newChildren)
          /\ n > 0 => Len(kept) + expected + n = balance
          /\ newChildren' = kept
          /\ outstanding' = expected + n
          /\ pipe' = IF n > 0 THEN <<n>> ELSE <<>>
          /\ late' = FALSE /\ forkit' = "starting" /\ unaccounted' = unaccounted + 1
          /\ UNCHANGED <<forkCounter, forked>>
    <2>1. CASE balance > 0
      <3>1. /\ newChildren' = r.alive
            /\ outstanding' = r.counted + r.spawn
            /\ pipe' = IF r.spawn > 0 THEN <<r.spawn>> ELSE <<>>
            /\ late' = FALSE /\ forkit' = "starting" /\ unaccounted' = unaccounted + 1
            /\ UNCHANGED <<forkCounter, forked>>
        BY <2>1 DEF CreateForKit, r
      <3> QED BY <1>4, <3>1
    <2>2. CASE ~(balance > 0)
      <3>1. /\ newChildren' = newChildren
            /\ outstanding' = expected + 0
            /\ pipe' = IF 0 > 0 THEN <<0>> ELSE <<>>
            /\ late' = FALSE /\ forkit' = "starting" /\ unaccounted' = unaccounted + 1
            /\ UNCHANGED <<forkCounter, forked>>
        BY <2>2, <1>1 DEF CreateForKit
      <3>2. Len(newChildren) <= Len(newChildren)
        BY <1>1
      <3> QED BY <1>1, <3>1, <3>2
    <2> QED BY <2>1, <2>2
  <1>6. pipe' \in Seq(Nat \ {0}) /\ Asked(pipe') = n
    <2>1. CASE n = 0
      BY <1>2, <1>5, <2>1
    <2>2. CASE n > 0
      <3>1. <<>> \in Seq(Nat \ {0}) /\ Append(<<>>, n) = <<n>>
        OBVIOUS
      <3>2. n \in Nat \ {0}
        BY <2>2
      <3>3. Asked(Append(<<>>, n)) = Asked(<<>>) + n
        BY <3>1, <3>2, PipeAsks
      <3>4. Asked(<<n>>) = n
        BY <1>2, <3>1, <3>3
      <3> QED BY <1>5, <2>2, <3>2, <3>4
    <2> QED BY <2>1, <2>2
  <1>7. PoolTypeOK'
    <2>1. outstanding' \in Nat /\ unaccounted' \in Nat
      BY <1>1, <1>5
    <2> QED BY <1>5, <1>6, <2>1 DEF SpareInv, PoolTypeOK, boundVars
  <1>8. InFlight' = n + forked + 1
    BY <1>1, <1>5, <1>6 DEF InFlight
  <1>9. Len(newChildren) \in Nat /\ Len(kept) \in Nat
    BY <1>1
  <1>10. /\ forked <= outstanding + unaccounted
         /\ Len(newChildren) + forked <= N + 1 + unaccounted
    BY <1>3 DEF SpareInv, EveryForkIsExpected, SpareKitsAreBounded
  <1>11. EveryForkIsExpected'
    BY <1>1, <1>5, <1>8, <1>10 DEF EveryForkIsExpected
  <1>12. Len(kept) + (n + forked + 1) <= N + 1 + (unaccounted + 1)
    <2>1. CASE n = 0
      BY <1>1, <1>5, <1>9, <1>10, <2>1
    <2>2. CASE n > 0
      BY <1>1, <1>5, <1>9, <1>10, <2>2
    <2> QED BY <2>1, <2>2
  <1>13. SpareKitsAreBounded'
    BY <1>5, <1>8, <1>12 DEF SpareKitsAreBounded
  <1>14. DeadForkitOwesNothing'
    BY <1>1, <1>5 DEF DeadForkitOwesNothing, ForkitListens
  <1> QED BY <1>7, <1>11, <1>13, <1>14 DEF SpareInv

-----------------------------------------------------------------------------
(* The steps of the kits, of forkit and of the brokers.                    *)

LEMMA AddNewChildKeepsSpareInv == SpareInv /\ AddNewChild => SpareInv'
  <1> SUFFICES ASSUME SpareInv, AddNewChild PROVE SpareInv'
    OBVIOUS
  <1>1. /\ outstanding \in Nat /\ unaccounted \in Nat /\ forkCounter \in Nat /\ forked \in Nat
        /\ newChildren \in Seq(KitStates) /\ NumPreSpawnedChildren \in Nat
    BY PoolAssumption DEF SpareInv, PoolTypeOK
  <1>2. Asked(pipe) \in Nat /\ InFlight \in Nat /\ Len(newChildren) \in Nat
    BY FlyingKits DEF SpareInv
  <1>3. /\ forked > 0 /\ forked' = forked - 1 /\ unaccounted' = unaccounted
        /\ newChildren' = Append(newChildren, "live")
        /\ outstanding' = IF outstanding = 0 THEN 0 ELSE outstanding - 1
        /\ UNCHANGED <<forkit, pipe, forkCounter, late, child, boundVars>>
    BY DEF AddNewChild
  <1>4. /\ newChildren' \in Seq(KitStates) /\ Len(newChildren') = Len(newChildren) + 1
        /\ outstanding' \in Nat /\ forked' \in Nat
    BY <1>1, <1>3 DEF KitStates
  <1>5. PoolTypeOK'
    BY <1>3, <1>4 DEF SpareInv, PoolTypeOK, boundVars
  <1>6. InFlight' = InFlight - 1
    BY <1>1, <1>2, <1>3 DEF InFlight
  <1>7. EveryForkIsExpected'
    <2>1. InFlight <= outstanding + unaccounted
      BY DEF SpareInv, EveryForkIsExpected
    <2> QED BY <1>1, <1>2, <1>3, <1>6, <2>1 DEF EveryForkIsExpected
  <1>8. SpareKitsAreBounded'
    BY <1>1, <1>2, <1>3, <1>4, <1>6 DEF SpareInv, SpareKitsAreBounded
  <1>9. DeadForkitOwesNothing'
    BY <1>3 DEF SpareInv, DeadForkitOwesNothing
  <1> QED BY <1>5, <1>7, <1>8, <1>9 DEF SpareInv

\* cleanupChildren of forkit only changes what state the kits are in.
LEMMA ReapingKeepsTheKits ==
    ASSUME PoolTypeOK, ReapAll
    PROVE  /\ newChildren' \in Seq(KitStates) /\ Len(newChildren') = Len(newChildren)
           /\ child' \in [Brokers -> KitStates \cup {"none", "closed"}]
  <1>1. newChildren \in Seq(KitStates) /\ Len(newChildren) \in Nat
    BY DEF PoolTypeOK
  <1>2. newChildren' = [i \in 1..Len(newChildren) |-> Reaped(newChildren[i])]
    BY DEF ReapAll
  <1>3. \A i \in 1..Len(newChildren) : Reaped(newChildren[i]) \in KitStates
    BY <1>1 DEF Reaped, KitStates
  <1>4. newChildren' \in Seq(KitStates) /\ Len(newChildren') = Len(newChildren)
    BY <1>1, <1>2, <1>3
  <1>5. child' \in [Brokers -> KitStates \cup {"none", "closed"}]
    BY DEF ReapAll, Reaped, PoolTypeOK, KitStates
  <1> QED BY <1>4, <1>5

LEMMA ForkitLoopKeepsSpareInv == SpareInv /\ ForkitLoop => SpareInv'
  <1> SUFFICES ASSUME SpareInv, ForkitLoop PROVE SpareInv'
    OBVIOUS
  <1> DEFINE wanted == IF pipe = <<>> THEN forkCounter ELSE Head(pipe)
  <1>1. /\ pipe \in Seq(Nat \ {0}) /\ forkCounter \in Nat /\ forked \in Nat
        /\ failures \in 0..MaxFailures /\ MaxFailures \in Nat /\ PoolTypeOK
    BY PoolAssumption DEF SpareInv, PoolTypeOK
  <1>2. /\ Asked(pipe) \in Nat /\ wanted \in Nat
        /\ pipe # <<>> => /\ Tail(pipe) \in Seq(Nat \ {0})
                         /\ Asked(Tail(pipe)) = Asked(pipe) - Head(pipe)
    BY <1>1, PipeAsks
  <1>3. /\ forkit = "up" /\ ReapAll
        /\ pipe' = IF pipe = <<>> THEN pipe ELSE Tail(pipe)
        /\ UNCHANGED <<forkit, outstanding, late, unaccounted, earlyTimeouts>>
    BY DEF ForkitLoop
  <1>4. PICK made \in 0..wanted :
          /\ forked' = forked + made /\ forkCounter' = wanted - made
          /\ \/ UNCHANGED failures
             \/ failures < MaxFailures /\ failures' = failures + 1
    BY DEF ForkitLoop
  <1>5. /\ newChildren' \in Seq(KitStates) /\ Len(newChildren') = Len(newChildren)
        /\ child' \in [Brokers -> KitStates \cup {"none", "closed"}]
    BY <1>1, <1>3, ReapingKeepsTheKits
  <1> HIDE DEF wanted
  <1>6. forked' \in Nat /\ forkCounter' \in Nat /\ failures' \in 0..MaxFailures
    BY <1>1, <1>2, <1>4
  <1>7. pipe' \in Seq(Nat \ {0})
    BY <1>1, <1>2, <1>3
  <1>8. PoolTypeOK'
    BY <1>3, <1>5, <1>6, <1>7 DEF SpareInv, PoolTypeOK
  <1>9. InFlight' <= InFlight
    <2>1. InFlight = Asked(pipe) + forkCounter + forked + 0
      BY <1>1, <1>3 DEF InFlight
    <2>2. InFlight' = Asked(pipe') + (wanted - made) + (forked + made) + 0
      BY <1>3, <1>4 DEF InFlight
    <2>3. CASE pipe = <<>>
      <3>1. wanted = forkCounter /\ Asked(pipe') = Asked(pipe)
        BY <1>3, <2>3 DEF wanted
      <3> QED BY <1>1, <1>2, <1>4, <2>1, <2>2, <3>1
    <2>4. CASE pipe # <<>>
      <3>1. wanted = Head(pipe) /\ Asked(pipe') = Asked(pipe) - wanted
        BY <1>2, <1>3, <2>4 DEF wanted
      <3>2. /\ made \in Nat /\ wanted \in Nat /\ Asked(pipe) \in Nat
            /\ forkCounter \in Nat /\ forked \in Nat
        BY <1>1, <1>2
      <3>3. InFlight' = Asked(pipe) + forked
        BY <2>2, <3>1, <3>2
      <3> QED BY <2>1, <3>2, <3>3
    <2> QED BY <2>3, <2>4
  <1>10. Len(newChildren') <= Len(newChildren)
    BY <1>1, <1>5, FlyingKits
  <1>11. DeadForkitOwesNothing'
    BY <1>3 DEF DeadForkitOwesNothing, ForkitListens
  <1> QED BY <1>3, <1>8, <1>9, <1>10, <1>11, NoMoreKits

LEMMA ForkitStartsKeepsSpareInv == SpareInv /\ ForkitStarts => SpareInv'
  <1> SUFFICES ASSUME SpareInv, ForkitStarts PROVE SpareInv'
    OBVIOUS
  <1>1. /\ pipe \in Seq(Nat \ {0}) /\ forkCounter \in Nat /\ forked \in Nat
        /\ failures \in 0..MaxFailures /\ MaxFailures \in Nat /\ PoolTypeOK
        /\ Asked(pipe) \in Nat /\ Len(newChildren) \in Nat
    BY PoolAssumption, FlyingKits DEF SpareInv, PoolTypeOK
  <1>2. forkit = "starting" /\ UNCHANGED <<poolVars, child, earlyTimeouts>>
    BY DEF ForkitStarts
  <1>3. InFlight = Asked(pipe) + forkCounter + forked + 1
    BY <1>2 DEF InFlight
  <1>4. CASE forkit' = "up" /\ forked' = forked + 1 /\ UNCHANGED <<pipe, forkCounter, failures>>
    <2>1. PoolTypeOK'
      BY <1>1, <1>2, <1>4 DEF PoolTypeOK, poolVars
    <2>2. InFlight' <= InFlight
      <3>1. InFlight' = Asked(pipe) + forkCounter + (forked + 1) + 0
        BY <1>4 DEF InFlight
      <3> QED BY <1>1, <1>3, <3>1
    <2>3. DeadForkitOwesNothing'
      BY <1>4 DEF DeadForkitOwesNothing, ForkitListens
    <2>4. Len(newChildren') <= Len(newChildren)
      BY <1>1, <1>2 DEF poolVars
    <2> QED BY <1>2, <2>1, <2>2, <2>3, <2>4, NoMoreKits DEF poolVars
  <1>5. CASE /\ failures < MaxFailures /\ failures' = failures + 1
             /\ forkit' = "dead" /\ pipe' = <<>> /\ UNCHANGED <<forkCounter, forked>>
    <2>1. PoolTypeOK'
      BY <1>1, <1>2, <1>5, <<>> \in Seq(Nat \ {0}) DEF PoolTypeOK, poolVars
    <2>2. InFlight' <= InFlight
      <3>1. InFlight' = 0 + forkCounter + forked + 0
        BY <1>5, AskedOfNone DEF InFlight
      <3> QED BY <1>1, <1>3, <3>1
    <2>3. DeadForkitOwesNothing'
      BY <1>2, <1>5 DEF SpareInv, DeadForkitOwesNothing, ForkitListens
    <2>4. Len(newChildren') <= Len(newChildren)
      BY <1>1, <1>2 DEF poolVars
    <2> QED BY <1>2, <2>1, <2>2, <2>3, <2>4, NoMoreKits DEF poolVars
  <1> QED BY <1>4, <1>5 DEF ForkitStarts

LEMMA ForkitDiesKeepsSpareInv == SpareInv /\ ForkitDies => SpareInv'
  <1> SUFFICES ASSUME SpareInv, ForkitDies PROVE SpareInv'
    OBVIOUS
  <1>1. /\ forkCounter \in Nat /\ forked \in Nat /\ MaxFailures \in Nat
        /\ failures \in 0..MaxFailures /\ PoolTypeOK /\ Asked(pipe) \in Nat
        /\ Len(newChildren) \in Nat
    BY PoolAssumption, FlyingKits DEF SpareInv, PoolTypeOK
  <1>2. /\ failures < MaxFailures /\ failures' = failures + 1
        /\ forkit' = "dead" /\ pipe' = <<>> /\ forkCounter' = 0 /\ ReapAll
        /\ UNCHANGED <<forked, outstanding, late, unaccounted, earlyTimeouts>>
    BY DEF ForkitDies
  <1>3. /\ newChildren' \in Seq(KitStates) /\ Len(newChildren') = Len(newChildren)
        /\ child' \in [Brokers -> KitStates \cup {"none", "closed"}]
    BY <1>1, <1>2, ReapingKeepsTheKits
  <1>4. PoolTypeOK'
    BY <1>1, <1>2, <1>3, <<>> \in Seq(Nat \ {0}) DEF PoolTypeOK
  <1>5. InFlight' = 0 + 0 + forked + 0
    BY <1>2, AskedOfNone DEF InFlight
  <1>6. PICK start \in Nat : InFlight = Asked(pipe) + forkCounter + forked + start
    BY DEF InFlight
  <1>7. InFlight' <= InFlight
    BY <1>1, <1>5, <1>6
  <1>8. Len(newChildren') <= Len(newChildren)
    BY <1>1, <1>3
  <1>9. DeadForkitOwesNothing'
    BY <1>2 DEF DeadForkitOwesNothing
  <1> QED BY <1>2, <1>4, <1>7, <1>8, <1>9, NoMoreKits

LEMMA KitDiesKeepsSpareInv == SpareInv /\ KitDies => SpareInv'
  <1> SUFFICES ASSUME SpareInv, KitDies PROVE SpareInv'
    OBVIOUS
  <1> DEFINE dead == IF ForkitListens(forkit) THEN "zombie" ELSE "gone"
  <1>1. /\ forkCounter \in Nat /\ forked \in Nat /\ MaxFailures \in Nat
        /\ failures \in 0..MaxFailures /\ PoolTypeOK /\ Asked(pipe) \in Nat
        /\ Len(newChildren) \in Nat /\ newChildren \in Seq(KitStates)
        /\ child \in [Brokers -> KitStates \cup {"none", "closed"}]
    BY PoolAssumption, FlyingKits DEF SpareInv, PoolTypeOK
  <1>2. dead \in KitStates
    BY DEF KitStates
  <1>3. /\ failures < MaxFailures /\ failures' = failures + 1
        /\ UNCHANGED <<forkit, pipe, forkCounter, outstanding, late, unaccounted,
                       earlyTimeouts>>
    BY DEF KitDies
  <1>4. /\ newChildren' \in Seq(KitStates) /\ Len(newChildren') = Len(newChildren)
        /\ child' \in [Brokers -> KitStates \cup {"none", "closed"}]
        /\ forked' \in Nat /\ forked' <= forked
    <2>1. CASE forked > 0 /\ forked' = forked - 1 /\ UNCHANGED <<newChildren, child>>
      BY <1>1, <2>1
    <2>2. CASE /\ \E i \in 1..Len(newChildren) : newChildren' = [newChildren EXCEPT ![i] = dead]
               /\ UNCHANGED <<child, forked>>
      BY <1>1, <1>2, <2>2
    <2>3. CASE /\ \E b \in Brokers : child' = [child EXCEPT ![b] = dead]
               /\ UNCHANGED <<forked, newChildren>>
      <3> HIDE DEF dead
      <3> QED BY <1>1, <1>2, <2>3
    <2> QED BY <2>1, <2>2, <2>3 DEF KitDies
  <1>5. PoolTypeOK'
    BY <1>1, <1>3, <1>4 DEF PoolTypeOK
  <1>6. PICK start \in Nat : start = IF forkit = "starting" THEN 1 ELSE 0
    OBVIOUS
  <1>7. /\ InFlight = Asked(pipe) + forkCounter + forked + start
        /\ InFlight' = Asked(pipe) + forkCounter + forked' + start
    BY <1>3, <1>6 DEF InFlight
  <1>8. InFlight' <= InFlight /\ Len(newChildren') <= Len(newChildren)
    BY <1>1, <1>4, <1>7
  <1>9. DeadForkitOwesNothing'
    BY <1>3 DEF SpareInv, DeadForkitOwesNothing
  <1> QED BY <1>3, <1>5, <1>8, <1>9, NoMoreKits

LEMMA TakeChildKeepsSpareInv ==
    ASSUME SpareInv, NEW b \in Brokers, TakeChild(b)
    PROVE  SpareInv'
  <1>1. /\ newChildren \in Seq(KitStates) /\ newChildren # <<>>
        /\ newChildren' = SubSeq(newChildren, 1, Len(newChildren) - 1)
        /\ Last(newChildren) = newChildren[Len(newChildren)]
        /\ UNCHANGED <<forkitVars, outstanding, late, unaccounted, boundVars>>
    BY DEF TakeChild, SpareInv, PoolTypeOK, Front, Last
  <1>2. /\ newChildren' \in Seq(KitStates) /\ Len(newChildren') <= Len(newChildren)
        /\ Last(newChildren) \in KitStates
    BY <1>1
  <1>3. child' \in [Brokers -> KitStates \cup {"none", "closed"}]
    BY <1>2 DEF TakeChild, SpareInv, PoolTypeOK
  <1>4. PoolTypeOK'
    BY <1>1, <1>2, <1>3 DEF SpareInv, PoolTypeOK, forkitVars, boundVars
  <1>5. InFlight' <= InFlight
    <2>1. InFlight' = InFlight
      BY <1>1 DEF InFlight, forkitVars
    <2> QED BY <2>1, FlyingKits DEF SpareInv
  <1>6. DeadForkitOwesNothing'
    BY <1>1 DEF SpareInv, DeadForkitOwesNothing, forkitVars
  <1> QED BY <1>1, <1>2, <1>4, <1>5, <1>6, NoMoreKits

LEMMA SpareInitial == Init => SpareInv
  <1> SUFFICES ASSUME PoolInit PROVE SpareInv
    BY DEF Init
  <1>1. <<>> \in Seq(Nat \ {0}) /\ <<"live">> \in Seq(KitStates) /\ Len(<<"live">>) = 1
    BY DEF KitStates
  <1>2. NumPreSpawnedChildren \in Nat /\ MaxFailures \in Nat /\ MaxEarlyTimeouts \in Nat
    BY PoolAssumption
  <1>3. PoolTypeOK
    <2>1. /\ pipe \in Seq(Nat \ {0}) /\ newChildren \in Seq(KitStates)
          /\ child \in [Brokers -> KitStates \cup {"none", "closed"}]
      BY <1>1 DEF PoolInit
    <2>2. forkit \in {"starting", "up", "dead"} /\ late \in BOOLEAN
      BY DEF PoolInit
    <2>3. /\ forkCounter \in Nat /\ forked \in Nat /\ outstanding \in Nat
          /\ failures \in 0..MaxFailures /\ earlyTimeouts \in 0..MaxEarlyTimeouts
          /\ unaccounted \in Nat
      BY <1>2 DEF PoolInit
    <2> QED BY <2>1, <2>2, <2>3 DEF PoolTypeOK
  <1>4. InFlight = 0
    BY AskedOfNone DEF PoolInit, InFlight
  <1>5. EveryForkIsExpected /\ SpareKitsAreBounded /\ DeadForkitOwesNothing
    BY <1>1, <1>2, <1>4 DEF PoolInit, EveryForkIsExpected, SpareKitsAreBounded,
         DeadForkitOwesNothing, ForkitListens
  <1> QED BY <1>3, <1>5 DEF SpareInv

LEMMA SpareInductive == SpareInv /\ [Next]_vars => SpareInv'
  <1> SUFFICES ASSUME SpareInv, [Next]_vars PROVE SpareInv'
    OBVIOUS
  <1>1. child \in [Brokers -> KitStates \cup {"none", "closed"}]
    BY DEF SpareInv, PoolTypeOK
  <1>2. CASE UNCHANGED childVars
    BY <1>1, <1>2, SameKits DEF childVars
  <1>3. NumPreSpawnedChildren \in Nat
    BY PoolAssumption
  <1>4. ASSUME NEW p \in BOOLEAN, NEW m \in BOOLEAN, WakeupHook(p, m) PROVE SpareInv'
    <2>1. RestorePool(p) /\ UNCHANGED <<child, boundVars>>
      BY <1>4 DEF WakeupHook
    <2>2. CASE ~ForkitListens(forkit) /\ CreateForKit
      BY <2>1, <2>2, CreateForKitKeepsSpareInv
    <2>3. CASE Rebalance(NumPreSpawnedChildren) /\ UNCHANGED <<forkit, forkCounter, forked>>
      <3>1. NumPreSpawnedChildren \in 0..(NumPreSpawnedChildren + 1)
        BY <1>3
      <3> QED BY <2>1, <2>3, <3>1, RebalanceKeepsSpareInv
    <2>4. CASE UNCHANGED <<forkitVars, poolVars>>
      BY <1>1, <2>1, <2>4, SameKits
    <2> QED BY <2>1, <2>2, <2>3, <2>4 DEF RestorePool
  <1>5. CASE PoolStep
    <2>1. CASE SpawnTimeout
      <3>1. PoolTypeOK'
        <4>1. earlyTimeouts' \in 0..MaxEarlyTimeouts
          BY <2>1, PoolAssumption DEF SpawnTimeout, SpareInv, PoolTypeOK
        <4> QED BY <2>1, <4>1 DEF SpawnTimeout, SpareInv, PoolTypeOK, forkitVars
      <3>2. UNCHANGED <<forkitVars, newChildren, outstanding, unaccounted>>
        BY <2>1 DEF SpawnTimeout
      <3>3. InFlight' = InFlight /\ Len(newChildren') = Len(newChildren)
        BY <3>2 DEF InFlight, forkitVars
      <3>4. InFlight' <= InFlight /\ Len(newChildren') <= Len(newChildren)
        BY <3>3, FlyingKits DEF SpareInv
      <3>5. DeadForkitOwesNothing'
        BY <3>2 DEF SpareInv, DeadForkitOwesNothing, forkitVars
      <3> QED BY <3>1, <3>2, <3>4, <3>5, NoMoreKits
    <2> QED BY <1>5, <2>1, AddNewChildKeepsSpareInv, ForkitStartsKeepsSpareInv,
              ForkitLoopKeepsSpareInv, ForkitDiesKeepsSpareInv, KitDiesKeepsSpareInv
         DEF PoolStep
  <1>6. ASSUME NEW b \in Brokers, PollStep(b) PROVE SpareInv'
    <2>1. CASE BrokerAsks(b)
      <3>1. /\ Rebalance(NumPreSpawnedChildren + 1)
            /\ UNCHANGED <<forkit, forkCounter, forked, child, boundVars>>
        BY <2>1 DEF BrokerAsks, AskForChild
      <3>2. NumPreSpawnedChildren + 1 \in 0..(NumPreSpawnedChildren + 1)
        BY <1>3
      <3> QED BY <3>1, <3>2, RebalanceKeepsSpareInv
    <2>2. CASE BrokerTakesChild(b)
      BY <2>2, TakeChildKeepsSpareInv DEF BrokerTakesChild
    <2>3. CASE LoadTimesOut(b) \/ TerminateChild(b)
      <3>1. /\ child' = [child EXCEPT ![b] = "closed"]
            /\ UNCHANGED <<forkitVars, poolVars, boundVars>>
        BY <2>3 DEF LoadTimesOut, TerminateChild
      <3>2. child' \in [Brokers -> KitStates \cup {"none", "closed"}]
        BY <1>1, <3>1
      <3> QED BY <3>1, <3>2, SameKits
    <2>4. CASE \/ BrokerWaitsInVain(b) \/ BrokerDead(b) \/ KitDisconnects(b)
               \/ BrokerIdle(b) \/ ThreadEnds(b)
      BY <1>2, <2>4 DEF BrokerWaitsInVain, BrokerDead, KitDisconnects, BrokerIdle, ThreadEnds
    <2> QED BY <1>6, <2>1, <2>2, <2>3, <2>4 DEF PollStep
  <1>7. ASSUME NEW c \in Clients, WebServerStep(c) \/ SessionStep(c) PROVE SpareInv'
    BY <1>2, <1>7 DEF WebServerStep, SessionStep, RunCallback, ClientLeaves, RemoveSession
  <1>8. CASE UNCHANGED vars
    BY <1>2, <1>8 DEF vars
  <1> QED BY <1>4, <1>5, <1>6, <1>7, <1>8 DEF Next

\* For any brokers, clients, pool size and failures: the spare kits and those on
\* their way exceed what the pool wants by no more than one for each restart of
\* forkit and for each fork that wsd lost count of (rebalanceChildren, createForKit).
THEOREM SpareKitsStayBounded == Spec => []SpareKitsAreBounded
  <1>1. SpareInv => SpareKitsAreBounded
    BY DEF SpareInv
  <1> QED BY <1>1, SpareInitial, SpareInductive, PTL DEF Spec
=============================================================================
