------------------------------ MODULE ChildPool -----------------------------
(***************************************************************************)
(* The pool of spare kit processes (NewChildren, wsd/LOOLWSD.cpp) and the  *)
(* forkit process that spawns them on request (kit/ForKit.cpp).            *)
(*                                                                         *)
(* wsd writes "spawn n" to forkit's pipe, forkit forks n kits, and each of *)
(* them connects to wsd's prisoner poll, which adds it to NewChildren.     *)
(* wsd only counts what it expects (OutstandingForks) and forgets the      *)
(* count when nothing came for ChildSpawnTimeoutMs.  Kits and forkit may   *)
(* die at any time, and fork() may fail.                                   *)
(*                                                                         *)
(* A kit is its state: "live", "zombie" once it died and forkit has not    *)
(* reaped it, "gone" after that.  wsd takes a zombie for alive, since      *)
(* ChildProcess::isAlive asks kill(pid, 0).                                *)
(***************************************************************************)
EXTENDS Integers, Sequences, FiniteSets, SequencesExt

CONSTANTS Brokers,               \* the document brokers that may ever exist
          NumPreSpawnedChildren, \* num_prespawn_children
          MaxFailures,           \* bound: deaths of kits and forkit, failed forks
          MaxEarlyTimeouts       \* bound: timeouts while kits are still coming

ASSUME PoolAssumption ==
    /\ NumPreSpawnedChildren \in Nat \ {0}
    /\ MaxFailures \in Nat
    /\ MaxEarlyTimeouts \in Nat

VARIABLES
    forkit,         \* "starting", "up", or "dead" until wsd launches another
    pipe,           \* the spawn commands that forkit has not read
    forkCounter,    \* ForkCounter, of forkit: the kits it still has to fork
    forked,         \* how many kits were forked and have not connected
    newChildren,    \* NewChildren
    outstanding,    \* OutstandingForks
    late,           \* LastForkRequestTime is ChildSpawnTimeoutMs ago or more
    child,          \* _childProcess of each broker: the kit's state
    failures,       \* how much of MaxFailures is used up
    earlyTimeouts,  \* how much of MaxEarlyTimeouts is used up
    unaccounted     \* history: the restarts of forkit, and the forks wsd forgot

forkitVars == <<forkit, pipe, forkCounter, forked>>
poolVars == <<newChildren, outstanding, late, unaccounted>>
boundVars == <<failures, earlyTimeouts>>
childVars == <<forkitVars, poolVars, child, boundVars>>

KitStates == {"live", "zombie", "gone"}

PoolTypeOK ==
    /\ forkit \in {"starting", "up", "dead"}
    /\ pipe \in Seq(Nat \ {0})
    /\ forkCounter \in Nat
    /\ forked \in Nat
    /\ newChildren \in Seq(KitStates)
    /\ outstanding \in Nat
    /\ late \in BOOLEAN
    /\ child \in [Brokers -> KitStates \cup {"none", "closed"}]
    /\ failures \in 0..MaxFailures
    /\ earlyTimeouts \in 0..MaxEarlyTimeouts
    /\ unaccounted \in Nat

\* wsd listens for clients once it has launched forkit and has its first kit,
\* the one that forkit forks unasked (innerMain).
PoolInit ==
    /\ forkit = "up"
    /\ pipe = <<>>
    /\ forkCounter = 0
    /\ forked = 0
    /\ newChildren = <<"live">>
    /\ outstanding = 0
    /\ late = FALSE
    /\ child = [b \in Brokers |-> "none"]
    /\ failures = 0
    /\ earlyTimeouts = 0
    /\ unaccounted = 0

-----------------------------------------------------------------------------
(* The pool, in wsd.                                                       *)

\* ChildProcess::isAlive.  A child that was closed or terminated has _pid = -1.
SeenAlive(state) == state \in {"live", "zombie"}

\* cleanupChildren: what is left of the first i spare kits once the dead are erased.
AliveUpTo(children) ==
    LET left[i \in 0..Len(children)] ==
            IF i = 0 THEN <<>>
            ELSE IF SeenAlive(children[i]) THEN Append(left[i - 1], children[i])
            ELSE left[i - 1]
    IN  left

Alive(children) == AliveUpTo(children)[Len(children)]

\* The pipe to forkit has a reader.
ForkitListens(f) == f \in {"starting", "up"}

\* Mutant of RebalanceChildren: the outstanding forks are not counted.
RebalanceUncounted(balance, expected, tooLate) ==
    LET alive == Alive(newChildren)
        counted == IF tooLate THEN 0 ELSE expected
        missing == balance - Len(alive)
    IN  [alive |-> alive, counted |-> counted, forgotten |-> expected - counted,
         spawn |-> IF missing > 0 THEN missing ELSE 0]

\* Mutant of RebalanceChildren: forks that never come are not forgotten.
RebalancePatient(balance, expected, tooLate) ==
    LET alive == Alive(newChildren)
        missing == balance - Len(alive) - expected
        asks == missing > 0 /\ (Len(alive) # Len(newChildren) \/ expected = 0)
    IN  [alive |-> alive, counted |-> expected, forgotten |-> 0,
         spawn |-> IF asks THEN missing ELSE 0]

\* rebalanceChildren with `expected` forks outstanding: the dead children go,
\* forks that take too long are forgotten, and what is missing is asked for,
\* unless forkit is at it already.
RebalanceChildren(balance, expected, tooLate) ==
    LET alive == Alive(newChildren)
        counted == IF tooLate THEN 0 ELSE expected
        missing == balance - Len(alive) - counted
        asks == missing > 0 /\ (Len(alive) # Len(newChildren) \/ counted = 0)
    IN  [alive |-> alive, counted |-> counted, forgotten |-> expected - counted,
         spawn |-> IF asks THEN missing ELSE 0]

\* forkChildren fails when nobody reads the pipe; the count is left as it is.
Rebalance(balance) ==
    LET r == RebalanceChildren(balance, outstanding, late)
        written == r.spawn > 0 /\ ForkitListens(forkit)
    IN  /\ newChildren' = r.alive
        /\ outstanding' = IF written THEN r.counted + r.spawn ELSE r.counted
        /\ pipe' = IF written THEN Append(pipe, r.spawn) ELSE pipe
        /\ late' = (late /\ ~written)
        /\ unaccounted' = unaccounted + r.forgotten

RebalanceFails(balance) ==
    /\ RebalanceChildren(balance, outstanding, late).spawn > 0
    /\ ~ForkitListens(forkit)

\* createForKit: a new forkit forks one kit without being asked.  What it adds
\* by rebalanceChildren is reduced by OutstandingForks twice.
CreateForKit ==
    LET expected == outstanding + 1
        balance == NumPreSpawnedChildren - expected
        r == IF balance > 0 THEN RebalanceChildren(balance, expected, FALSE)
             ELSE [alive |-> newChildren, counted |-> expected, spawn |-> 0]
    IN  /\ forkit' = "starting"
        /\ newChildren' = r.alive
        /\ outstanding' = r.counted + r.spawn
        /\ pipe' = IF r.spawn > 0 THEN <<r.spawn>> ELSE <<>>
        /\ late' = FALSE
        /\ unaccounted' = unaccounted + 1
        /\ UNCHANGED <<forkCounter, forked>>

\* The pool's part of PrisonerPoll::wakeupHook: checkAndRestoreForKit, and if
\* forkit is well prespawnChildren, which gives up when the mutex is taken.
RestorePool(locked) ==
    \/ ~ForkitListens(forkit) /\ CreateForKit
    \/ /\ ForkitListens(forkit) /\ locked
       /\ Rebalance(NumPreSpawnedChildren)
       /\ UNCHANGED <<forkit, forkCounter, forked>>
    \/ /\ ForkitListens(forkit) /\ ~locked
       /\ UNCHANGED <<forkitVars, poolVars>>

\* The first half of getNewChild_Blocks, up to the wait.
AskForChild ==
    /\ Rebalance(NumPreSpawnedChildren + 1)
    /\ UNCHANGED <<forkit, forkCounter, forked, child, boundVars>>

\* Its second half: NewChildren.back() goes to broker b if it seems alive.
TakeChild(b) ==
    /\ newChildren # <<>>
    /\ newChildren' = Front(newChildren)
    /\ child' = IF SeenAlive(Last(newChildren))
                THEN [child EXCEPT ![b] = Last(newChildren)] ELSE child
    /\ UNCHANGED <<forkitVars, outstanding, late, unaccounted, boundVars>>

\* addNewChild, when a kit connects to the prisoner poll.
AddNewChild ==
    /\ forked > 0
    /\ forked' = forked - 1
    /\ newChildren' = Append(newChildren, "live")
    /\ outstanding' = IF outstanding = 0 THEN 0 ELSE outstanding - 1
    /\ UNCHANGED <<forkit, pipe, forkCounter, late, unaccounted, child, boundVars>>

\* How many kits the first i commands in the pipe ask for.
AskedUpTo(commands) ==
    LET asked[i \in 0..Len(commands)] == IF i = 0 THEN 0 ELSE asked[i - 1] + commands[i]
    IN  asked

Asked(commands) == AskedUpTo(commands)[Len(commands)]

\* The kits that were asked for, or that forkit owes wsd, and are not in the pool.
InFlight ==
    Asked(pipe) + forkCounter + forked
        + (IF forkit = "starting" THEN 1 ELSE 0)

\* ChildSpawnTimeoutMs pass.  Early, while kits are coming, a bounded number
\* of times.
SpawnTimeout ==
    /\ outstanding > 0 /\ ~late
    /\ late' = TRUE
    /\ \/ InFlight = 0 /\ UNCHANGED earlyTimeouts
       \/ /\ InFlight > 0 /\ earlyTimeouts < MaxEarlyTimeouts
          /\ earlyTimeouts' = earlyTimeouts + 1
    /\ UNCHANGED <<forkitVars, newChildren, outstanding, unaccounted, child, failures>>

-----------------------------------------------------------------------------
(* forkit and the kits.                                                    *)

\* cleanupChildren of forkit, or of init for the orphans.
Reaped(state) == IF state = "zombie" THEN "gone" ELSE state

ReapAll ==
    /\ newChildren' = [i \in 1..Len(newChildren) |-> Reaped(newChildren[i])]
    /\ child' = [b \in Brokers |-> Reaped(child[b])]

\* forkit forks its first kit before it reads the pipe, and exits if it cannot.
ForkitStarts ==
    /\ forkit = "starting"
    /\ \/ /\ forkit' = "up" /\ forked' = forked + 1
          /\ UNCHANGED <<pipe, forkCounter, failures>>
       \/ /\ failures < MaxFailures /\ failures' = failures + 1
          /\ forkit' = "dead" /\ pipe' = <<>> /\ UNCHANGED <<forkCounter, forked>>
    /\ UNCHANGED <<poolVars, child, earlyTimeouts>>

\* One turn of forkit's loop: pollAndDispatch reads a command, or nothing, and
\* forkLibreOfficeKit reaps the dead and forks what is wanted.  Forks that fail
\* stay wanted, until the next command overwrites the count.
ForkitLoop ==
    LET wanted == IF pipe = <<>> THEN forkCounter ELSE Head(pipe)
    IN  /\ forkit = "up"
        /\ pipe' = IF pipe = <<>> THEN pipe ELSE Tail(pipe)
        /\ \E made \in 0..wanted :
             /\ forked' = forked + made
             /\ forkCounter' = wanted - made
             /\ \/ made = wanted /\ UNCHANGED failures
                \/ /\ made < wanted /\ failures < MaxFailures
                   /\ failures' = failures + 1
        /\ ReapAll
        /\ UNCHANGED <<forkit, outstanding, late, unaccounted, earlyTimeouts>>

ForkitDies ==
    /\ ForkitListens(forkit)
    /\ failures < MaxFailures /\ failures' = failures + 1
    /\ forkit' = "dead" /\ pipe' = <<>> /\ forkCounter' = 0
    /\ ReapAll
    /\ UNCHANGED <<forked, outstanding, late, unaccounted, earlyTimeouts>>

\* A kit dies: before it connects, as a spare, or with a document.
KitDies ==
    LET dead == IF ForkitListens(forkit) THEN "zombie" ELSE "gone"
    IN  /\ failures < MaxFailures /\ failures' = failures + 1
        /\ \/ forked > 0 /\ forked' = forked - 1 /\ UNCHANGED <<newChildren, child>>
           \/ /\ \E i \in 1..Len(newChildren) :
                   /\ newChildren[i] = "live"
                   /\ newChildren' = [newChildren EXCEPT ![i] = dead]
              /\ UNCHANGED <<forked, child>>
           \/ /\ \E b \in Brokers : child[b] = "live" /\ child' = [child EXCEPT ![b] = dead]
              /\ UNCHANGED <<forked, newChildren>>
        /\ UNCHANGED <<forkit, pipe, forkCounter, outstanding, late, unaccounted,
                       earlyTimeouts>>

PoolStep ==
    AddNewChild \/ SpawnTimeout \/ ForkitStarts \/ ForkitLoop \/ ForkitDies \/ KitDies
=============================================================================
