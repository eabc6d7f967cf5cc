------------------------- MODULE TileService_proofs --------------------------
(***************************************************************************)
(* Proofs about TileService: its types, that a session counts exactly the  *)
(* tiles it is subscribed to, that a cached tile is outdated only while    *)
(* every session has still to hear of the change, and that the screens     *)
(* show the document once nothing is under way.                            *)
(*                                                                         *)
(* The handlers of TileCache are functions of the broker's state, several  *)
(* of them loops.  What a handler does is a lemma of its own, and all that *)
(* the invariants need of it are relations between the broker before and   *)
(* the broker after: Serves for the first three, Answers and Registers for *)
(* the screens.                                                            *)
(***************************************************************************)
EXTENDS TileService, WellFoundedInduction, NaturalsInduction, FiniteSetTheorems, TLAPS

-----------------------------------------------------------------------------
(* Loops: functions that are defined by recursion up to a number.          *)

LEMMA LeastNumber ==
    ASSUME NEW T \in SUBSET Nat, T # {}
    PROVE  \E m \in T : \A n \in T : m <= n
  <1>1. IsWellFoundedOn(OpToRel(<, Nat), Nat)
    BY NatLessThanWellFounded
  <1>2. PICK m \in T : \A n \in T : ~ (<<n, m>> \in OpToRel(<, Nat))
    BY <1>1, WFMin
  <1>3. \A n \in T : ~(n < m)
    BY <1>2 DEF OpToRel
  <1> QED BY <1>3

\* What holds at 0 and is handed on from one turn to the next.
LEMMA TurnByTurn ==
    ASSUME NEW n \in Nat, NEW T, 0 \in T, \A i \in 1..n : i - 1 \in T => i \in T
    PROVE  0..n \subseteq T
  <1> DEFINE U == {i \in 0..n : i \notin T}
  <1> SUFFICES ASSUME U # {} PROVE FALSE
    OBVIOUS
  <1>1. PICK m \in U : \A i \in U : m <= i
    <2>1. U \in SUBSET Nat
      OBVIOUS
    <2> HIDE DEF U
    <2> QED BY <2>1, LeastNumber
  <1>2. m \in 1..n /\ m - 1 \in 0..n /\ m - 1 \notin U
    BY <1>1
  <1> QED BY <1>1, <1>2

\* The functions that start with a and take step[i] from i - 1 to i.
Iterations(n, S, a, step) ==
    {f \in [0..n -> S] : f[0] = a /\ \A i \in 1..n : f[i] = step[i][f[i - 1]]}

LEMMA IterationExists ==
    ASSUME NEW n \in Nat, NEW S, NEW a \in S, NEW step \in [1..n -> [S -> S]]
    PROVE  Iterations(n, S, a, step) # {}
  <1> DEFINE T == {k \in 0..n : Iterations(k, S, a, step) # {}}
  <1>1. 0 \in T
    <2> DEFINE z == [i \in 0..0 |-> a]
    <2>1. z \in [0..0 -> S] /\ z[0] = a /\ 1..0 = {}
      OBVIOUS
    <2>2. z \in Iterations(0, S, a, step)
      BY <2>1 DEF Iterations
    <2> QED BY <2>2
  <1>2. ASSUME NEW k \in 1..n, k - 1 \in T PROVE k \in T
    <2>1. PICK g : g \in Iterations(k - 1, S, a, step)
      BY <1>2
    <2> DEFINE h == [i \in 0..k |-> IF i = k THEN step[k][g[k - 1]] ELSE g[i]]
    <2>2. g[k - 1] \in S /\ step[k][g[k - 1]] \in S
      BY <2>1, k - 1 \in 0..(k - 1) DEF Iterations
    <2>3. h \in [0..k -> S]
      BY <2>1, <2>2 DEF Iterations
    <2>4. h[0] = a
      BY <2>1 DEF Iterations
    <2>5. ASSUME NEW i \in 1..k PROVE h[i] = step[i][h[i - 1]]
      BY <2>1 DEF Iterations
    <2>6. h \in Iterations(k, S, a, step)
      BY <2>3, <2>4, <2>5 DEF Iterations
    <2> QED BY <2>6
  <1> HIDE DEF T
  <1>3. n \in T
    BY <1>1, <1>2, TurnByTurn, n \in 0..n
  <1> QED BY <1>3 DEF T

-----------------------------------------------------------------------------
(* Sequences.                                                              *)

Elements(q) == {q[i] : i \in 1..Len(q)}

LEMMA ElementsAre ==
    ASSUME NEW X, NEW q \in Seq(X)
    PROVE  /\ Elements(q) \in SUBSET X
           /\ \A i \in 1..Len(q) : q[i] \in Elements(q)
           /\ \A x \in Elements(q) : \E i \in 1..Len(q) : x = q[i]
  BY DEF Elements

LEMMA ElementsAppend ==
    ASSUME NEW X, NEW q \in Seq(X), NEW x \in X
    PROVE  Append(q, x) \in Seq(X) /\ Elements(Append(q, x)) = Elements(q) \cup {x}
  <1> DEFINE r == Append(q, x)
  <1>1. /\ r \in Seq(X) /\ Len(r) = Len(q) + 1 /\ r[Len(q) + 1] = x
        /\ \A i \in 1..Len(q) : r[i] = q[i]
    OBVIOUS
  <1>2. 1..(Len(q) + 1) = 1..Len(q) \cup {Len(q) + 1}
    OBVIOUS
  <1> HIDE DEF r
  <1>3. Elements(r) = Elements(q) \cup {x}
    BY <1>1, <1>2 DEF Elements
  <1> QED BY <1>1, <1>3 DEF r

LEMMA ElementsConcat ==
    ASSUME NEW X, NEW q \in Seq(X), NEW r \in Seq(X)
    PROVE  q \o r \in Seq(X) /\ Elements(q \o r) = Elements(q) \cup Elements(r)
  <1> DEFINE c == q \o r
  <1>1. /\ c \in Seq(X) /\ Len(c) = Len(q) + Len(r)
        /\ \A i \in 1..Len(q) : c[i] = q[i]
        /\ \A i \in 1..Len(r) : c[Len(q) + i] = r[i]
    OBVIOUS
  <1>2. \A i \in 1..Len(c) : i \in 1..Len(q) \/ i - Len(q) \in 1..Len(r)
    BY <1>1
  <1>3. \A i \in 1..Len(r) : Len(q) + i \in 1..Len(c)
    BY <1>1
  <1>4. \A i \in 1..Len(q) : i \in 1..Len(c)
    BY <1>1
  <1> HIDE DEF c
  <1>5. ASSUME NEW x \in Elements(c) PROVE x \in Elements(q) \cup Elements(r)
    <2>1. PICK i \in 1..Len(c) : x = c[i]
      BY <1>5 DEF Elements
    <2>2. CASE i \in 1..Len(q)
      BY <1>1, <2>1, <2>2 DEF Elements
    <2>3. CASE i - Len(q) \in 1..Len(r)
      <3>1. Len(q) + (i - Len(q)) = i
        OBVIOUS
      <3>2. c[i] = r[i - Len(q)]
        BY <1>1, <2>3, <3>1
      <3> QED BY <2>1, <2>3, <3>2 DEF Elements
    <2> QED BY <1>2, <2>2, <2>3
  <1>6. ASSUME NEW x \in Elements(q) \cup Elements(r) PROVE x \in Elements(c)
    <2>1. CASE x \in Elements(q)
      BY <1>1, <1>4, <2>1 DEF Elements
    <2>2. CASE x \in Elements(r)
      BY <1>1, <1>3, <2>2 DEF Elements
    <2> QED BY <1>6, <2>1, <2>2
  <1>7. Elements(c) = Elements(q) \cup Elements(r)
    BY <1>5, <1>6
  <1> QED BY <1>1, <1>7 DEF c

LEMMA KeptIs ==
    ASSUME NEW X, NEW q \in Seq(X), NEW I
    PROVE  /\ Kept(q, I) \in Seq(X)
           /\ Elements(Kept(q, I)) = {q[i] : i \in 1..Len(q) \cap I}
  <1> DEFINE n == Len(q)
             step == [i \in 1..n |-> [x \in Seq(X) |-> IF i \in I THEN Append(x, q[i]) ELSE x]]
             Right(f) == f = [i \in 0..n |-> IF i = 0 THEN <<>>
                                             ELSE IF i \in I THEN Append(f[i - 1], q[i])
                                             ELSE f[i - 1]]
             k == CHOOSE f : Right(f)
             T == {i \in 0..n : /\ k[i] \in Seq(X)
                                /\ Elements(k[i]) = {q[j] : j \in 1..i \cap I}}
  <1>1. n \in Nat /\ \A i \in 1..n : q[i] \in X
    OBVIOUS
  <1>2. PICK f : f \in Iterations(n, Seq(X), <<>>, step)
    <2>1. step \in [1..n -> [Seq(X) -> Seq(X)]]
      OBVIOUS
    <2>2. <<>> \in Seq(X)
      OBVIOUS
    <2> HIDE DEF step
    <2> QED BY <1>1, <2>1, <2>2, IterationExists
  <1>3. Right(f)
    <2>1. /\ f \in [0..n -> Seq(X)] /\ f[0] = <<>>
          /\ \A i \in 1..n : f[i] = step[i][f[i - 1]]
      BY <1>2 DEF Iterations
    <2>2. ASSUME NEW i \in 1..n
          PROVE  f[i] = IF i \in I THEN Append(f[i - 1], q[i]) ELSE f[i - 1]
      <3>1. f[i - 1] \in Seq(X)
        BY <1>1, <2>1, i - 1 \in 0..n
      <3>2. step[i] = [x \in Seq(X) |-> IF i \in I THEN Append(x, q[i]) ELSE x]
        OBVIOUS
      <3>3. f[i] = step[i][f[i - 1]]
        BY <2>1
      <3>4. \A y \in Seq(X) : step[i][y] = IF i \in I THEN Append(y, q[i]) ELSE y
        BY <3>2
      <3> HIDE DEF step
      <3> QED BY <3>1, <3>3, <3>4, Zenon
    <2>3. \A i \in 0..n : i = 0 \/ i \in 1..n
      BY <1>1
    <2>4. ASSUME NEW i \in 0..n
          PROVE  f[i] = IF i = 0 THEN <<>> ELSE IF i \in I THEN Append(f[i - 1], q[i])
                                           ELSE f[i - 1]
      BY <2>1, <2>2, <2>3, Zenon
    <2> QED BY <2>1, <2>4, Zenon
  <1>4. Right(k)
    <2> HIDE DEF Right
    <2> QED BY <1>3
  <1>5. Kept(q, I) = k[n]
    BY DEF Kept
  <1>6. /\ k[0] = <<>>
        /\ \A i \in 1..n : k[i] = IF i \in I THEN Append(k[i - 1], q[i]) ELSE k[i - 1]
    <2> HIDE DEF k
    <2>1. k[0] = <<>>
      BY <1>1, <1>4, 0 \in 0..n
    <2>2. ASSUME NEW i \in 1..n
          PROVE  k[i] = IF i \in I THEN Append(k[i - 1], q[i]) ELSE k[i - 1]
      BY <1>1, <1>4, i \in 0..n, i # 0
    <2> QED BY <2>1, <2>2
  <1> HIDE DEF k
  <1>7. 0 \in T
    <2>1. <<>> \in Seq(X) /\ Len(<<>>) = 0 /\ 1..0 = {} /\ 0 \in 0..n
      BY <1>1
    <2>2. Elements(<<>>) = {} /\ {q[j] : j \in 1..0 \cap I} = {}
      BY <2>1 DEF Elements
    <2> QED BY <1>6, <2>1, <2>2
  <1>8. ASSUME NEW i \in 1..n, i - 1 \in T PROVE i \in T
    <2>1. 1..i = 1..(i - 1) \cup {i}
      OBVIOUS
    <2>2. CASE i \in I
      <3>1. k[i] = Append(k[i - 1], q[i])
        BY <1>6, <2>2
      <3>2. k[i] \in Seq(X) /\ Elements(k[i]) = Elements(k[i - 1]) \cup {q[i]}
        BY <1>1, <1>8, <3>1, ElementsAppend
      <3> QED BY <1>1, <1>8, <2>1, <2>2, <3>2
    <2>3. CASE i \notin I
      BY <1>1, <1>6, <1>8, <2>1, <2>3
    <2> QED BY <2>2, <2>3
  <1> HIDE DEF T
  <1>9. n \in T
    BY <1>1, <1>7, <1>8, TurnByTurn, n \in 0..n
  <1> QED BY <1>5, <1>9 DEF T

LEMMA ExceptIs ==
    ASSUME NEW X, NEW q \in Seq(X), NEW I
    PROVE  /\ Except(q, I) \in Seq(X)
           /\ Elements(Except(q, I)) = {q[i] : i \in (1..Len(q)) \ I}
  <1>1. 1..Len(q) \cap ((1..Len(q)) \ I) = (1..Len(q)) \ I
    OBVIOUS
  <1> QED BY <1>1, KeptIs DEF Except

-----------------------------------------------------------------------------
(* The kit's queue: what it takes, gives and forgets.                      *)

\* The tiles in the rectangles of the invalidations that wait.
Touched(q) == UNION {m.ts : m \in {x \in Elements(q) : x.k = "invalidate"}}

LEMMA TouchedIs ==
    ASSUME NEW q
    PROVE  \A t : t \in Touched(q) <=> \E m \in Elements(q) : m.k = "invalidate" /\ t \in m.ts
  BY DEF Touched

LEMMA MessageIs ==
    ASSUME NEW m \in KitMessages
    PROVE  /\ m.k \in {"tile", "invalidate", "activity"}
           /\ m.k = "tile" => m \in TileRequests
           /\ m.k = "invalidate" => m.ts \in SUBSET Tiles
           /\ m.k = "activity" => m.s \in Clients /\ m.on \in BOOLEAN
  BY DEF KitMessages, TileRequests

LEMMA RequestIs ==
    ASSUME NEW r \in TileRequests
    PROVE  r \in KitMessages /\ r.k = "tile" /\ r.t \in Tiles /\ r.ver \in Nat /\ r.old \in Nat
  BY DEF KitMessages, TileRequests

\* Messages that are no invalidations come and go without a trace.
LEMMA OnlyRectanglesTouch ==
    ASSUME NEW q, NEW r,
           \A m \in Elements(q) : m.k = "invalidate" => m \in Elements(r),
           \A m \in Elements(r) : m.k = "invalidate" => m \in Elements(q)
    PROVE  Touched(q) = Touched(r)
  BY DEF Touched

LEMMA RequestsAreMessages ==
    ASSUME NEW ms \in Seq(TileRequests)
    PROVE  ms \in Seq(KitMessages)
  <1>1. TileRequests \subseteq KitMessages
    BY DEF KitMessages
  <1> QED BY <1>1

LEMMA PutTilesIs ==
    ASSUME NEW q \in Seq(KitMessages), NEW ms \in Seq(TileRequests)
    PROVE  PutTiles(q, ms) \in Seq(KitMessages) /\ Touched(PutTiles(q, ms)) = Touched(q)
  <1> DEFINE same == {i \in 1..Len(q) : \E j \in 1..Len(ms) : SameRequest(ms[j], q[i])}
             e == Except(q, same)
             p == PutTiles(q, ms)
  <1>1. \A i \in same : q[i].k = "tile"
    BY DEF SameRequest, IsTile
  <1> HIDE DEF same
  <1>2. e \in Seq(KitMessages) /\ Elements(e) = {q[i] : i \in (1..Len(q)) \ same}
    BY ExceptIs
  <1>3. ms \in Seq(KitMessages)
    BY RequestsAreMessages
  <1>4. p \in Seq(KitMessages) /\ Elements(p) = Elements(e) \cup Elements(ms)
    <2>1. p = e \o ms
      BY DEF PutTiles, same
    <2> HIDE DEF e, p
    <2> QED BY <1>2, <1>3, <2>1, ElementsConcat
  <1> HIDE DEF e, p
  <1>5. ASSUME NEW m \in Elements(p), m.k = "invalidate" PROVE m \in Elements(q)
    <2>1. m \notin Elements(ms)
      <3>1. SUFFICES ASSUME m \in Elements(ms) PROVE FALSE
        OBVIOUS
      <3>2. m \in TileRequests
        BY <3>1, ElementsAre
      <3> QED BY <1>5, <3>2, RequestIs
    <2> QED BY <1>2, <1>4, <1>5, <2>1 DEF Elements
  <1>6. ASSUME NEW m \in Elements(q), m.k = "invalidate" PROVE m \in Elements(p)
    <2>1. PICK i \in 1..Len(q) : m = q[i]
      BY <1>6 DEF Elements
    <2>2. i \notin same
      BY <1>1, <1>6, <2>1
    <2> QED BY <1>2, <1>4, <2>1, <2>2
  <1>7. Touched(p) = Touched(q)
    BY <1>5, <1>6, OnlyRectanglesTouch
  <1> QED BY <1>4, <1>7 DEF p

LEMMA CancelTilesIs ==
    ASSUME NEW q \in Seq(KitMessages), NEW vers
    PROVE  /\ CancelTiles(q, vers) \in Seq(KitMessages)
           /\ Touched(CancelTiles(q, vers)) = Touched(q)
           /\ Elements(CancelTiles(q, vers)) = Elements(q)
  <1> DEFINE gone == {i \in 1..Len(q) : /\ ~ContainsId(q[i])
                                        /\ \E v \in vers : ContainsVersion(q[i], v)}
             p == CancelTiles(q, vers)
  <1>1. gone = {}
    BY DEF ContainsId, ContainsVersion
  <1>2. p = Except(q, gone)
    BY DEF CancelTiles
  <1> HIDE DEF gone, p
  <1>3. p \in Seq(KitMessages) /\ Elements(p) = Elements(q)
    <2>1. p \in Seq(KitMessages) /\ Elements(p) = {q[i] : i \in (1..Len(q)) \ gone}
      BY <1>2, ExceptIs
    <2>2. {q[i] : i \in (1..Len(q)) \ gone} = Elements(q)
      BY <1>1 DEF Elements
    <2> QED BY <2>1, <2>2
  <1> QED BY <1>3 DEF p, Touched

LEMMA PutInvalidationIs ==
    ASSUME NEW q \in Seq(KitMessages), NEW ts \in SUBSET Tiles, NEW r \in PutInvalidation(q, ts)
    PROVE  /\ r \in Seq(KitMessages) /\ Touched(r) = Touched(q) \cup ts
           /\ \A m \in KitMessages : m.k = "tile" => (m \in Elements(r) <=> m \in Elements(q))
  <1> DEFINE invalidations == {i \in 1..Len(q) : q[i].k = "invalidate"}
             all(joined) == ts \cup UNION {q[i].ts : i \in joined}
  <1>1. PICK joined \in SUBSET invalidations :
               r = Append(Except(q, joined), Invalidation(all(joined)))
    BY DEF PutInvalidation
  <1> DEFINE rest == Except(q, joined)
             new == Invalidation(all(joined))
  <1>2. \A i \in joined : i \in 1..Len(q) /\ q[i].k = "invalidate" /\ q[i].ts \in SUBSET Tiles
    BY MessageIs
  <1>3. rest \in Seq(KitMessages) /\ Elements(rest) = {q[i] : i \in (1..Len(q)) \ joined}
    BY ExceptIs
  <1>4. all(joined) \in SUBSET Tiles
    BY <1>2
  <1>5. new \in KitMessages /\ new.k = "invalidate" /\ new.ts = all(joined)
    BY <1>4 DEF Invalidation, KitMessages
  <1>6. r = Append(rest, new)
    BY <1>1
  <1> HIDE DEF rest, new
  <1>9. r \in Seq(KitMessages) /\ Elements(r) = Elements(rest) \cup {new}
    BY <1>3, <1>5, <1>6, ElementsAppend
  <1>7. ASSUME NEW t \in Touched(r) PROVE t \in Touched(q) \cup ts
    <2>1. PICK m \in Elements(r) : m.k = "invalidate" /\ t \in m.ts
      BY TouchedIs
    <2>2. CASE m \in Elements(rest)
      <3>1. m \in Elements(q)
        BY <1>3, <2>2 DEF Elements
      <3> QED BY <2>1, <3>1, TouchedIs
    <2>3. CASE m = new
      <3>1. CASE t \in ts
        BY <3>1
      <3>2. CASE t \notin ts
        <4>1. PICK i \in joined : t \in q[i].ts
          BY <1>5, <2>1, <2>3, <3>2
        <4>2. q[i] \in Elements(q)
          BY <1>2, <4>1 DEF Elements
        <4> QED BY <1>2, <4>1, <4>2, TouchedIs
      <3> QED BY <3>1, <3>2
    <2> QED BY <1>9, <2>1, <2>2, <2>3
  <1>8. ASSUME NEW t \in Touched(q) \cup ts PROVE t \in Touched(r)
    <2>1. CASE t \in all(joined)
      BY <1>5, <1>9, <2>1, TouchedIs
    <2>2. CASE t \notin all(joined)
      <3>1. PICK m \in Elements(q) : m.k = "invalidate" /\ t \in m.ts
        BY <1>8, <2>2, TouchedIs
      <3>2. PICK i \in 1..Len(q) : m = q[i]
        BY DEF Elements
      <3>3. i \notin joined
        BY <2>2, <3>1, <3>2
      <3> QED BY <1>3, <1>9, <3>1, <3>2, <3>3, TouchedIs
    <2> QED BY <2>1, <2>2
  <1>10. ASSUME NEW m \in KitMessages, m.k = "tile"
         PROVE  m \in Elements(r) <=> m \in Elements(q)
    <2>1. m \in Elements(r) <=> m \in Elements(rest)
      BY <1>5, <1>9, <1>10
    <2>2. m \in Elements(rest) <=> m \in Elements(q)
      BY <1>2, <1>3, <1>10 DEF Elements
    <2> QED BY <2>1, <2>2
  <1> QED BY <1>7, <1>8, <1>9, <1>10

LEMMA SequenceOf ==
    ASSUME NEW X, NEW Y, NEW q \in Seq(X), Elements(q) \subseteq Y
    PROVE  q \in Seq(Y)
  <1>1. \A i \in 1..Len(q) : q[i] \in Y
    BY ElementsAre
  <1> QED BY <1>1

LEMMA ElementsTail ==
    ASSUME NEW X, NEW q \in Seq(X), q # <<>>
    PROVE  /\ q[1] \in X /\ Head(q) = q[1]
           /\ Tail(q) \in Seq(X) /\ Len(Tail(q)) = Len(q) - 1
           /\ \A i \in 1..(Len(q) - 1) : Tail(q)[i] = q[i + 1]
           /\ Elements(q) = {q[1]} \cup Elements(Tail(q))
  <1> DEFINE r == Tail(q)
  <1>1. /\ Len(q) \in Nat /\ Len(q) >= 1 /\ q[1] \in X /\ Head(q) = q[1]
        /\ r \in Seq(X) /\ Len(r) = Len(q) - 1
        /\ \A i \in 1..(Len(q) - 1) : r[i] = q[i + 1]
    OBVIOUS
  <1> HIDE DEF r
  <1>2. ASSUME NEW x \in Elements(q) PROVE x \in {q[1]} \cup Elements(r)
    <2>1. PICK i \in 1..Len(q) : x = q[i]
      BY DEF Elements
    <2>2. CASE i # 1
      <3>1. i - 1 \in 1..Len(r) /\ (i - 1) + 1 = i /\ i - 1 \in 1..(Len(q) - 1)
        BY <1>1, <2>2
      <3>2. r[i - 1] = q[i]
        BY <1>1, <3>1
      <3> QED BY <2>1, <3>1, <3>2 DEF Elements
    <2> QED BY <2>1, <2>2
  <1>3. ASSUME NEW x \in {q[1]} \cup Elements(r) PROVE x \in Elements(q)
    <2>1. CASE x = q[1]
      BY <1>1, <2>1 DEF Elements
    <2>2. CASE x \in Elements(r)
      <3>1. PICK i \in 1..Len(r) : x = r[i]
        BY <2>2 DEF Elements
      <3>2. i + 1 \in 1..Len(q) /\ i \in 1..(Len(q) - 1)
        BY <1>1
      <3> QED BY <1>1, <3>1, <3>2 DEF Elements
    <2> QED BY <1>3, <2>1, <2>2
  <1>4. Elements(q) = {q[1]} \cup Elements(r)
    BY <1>2, <1>3
  <1> QED BY <1>1, <1>4 DEF r

LEMMA DeprioritizedIs ==
    ASSUME NEW q \in Seq(KitMessages)
    PROVE  /\ Deprioritized(q) \in Seq(KitMessages)
           /\ Elements(Deprioritized(q)) = Elements(q)
  <1> DEFINE front == {i \in 1..Len(q) : \A j \in 1..i : IsPreview(q[j])}
             e == Except(q, front)
             k == Kept(q, front)
  <1>1. front \subseteq 1..Len(q)
    OBVIOUS
  <1>2. Deprioritized(q) = e \o k
    BY DEF Deprioritized
  <1> HIDE DEF front
  <1>3. e \in Seq(KitMessages) /\ Elements(e) = {q[i] : i \in (1..Len(q)) \ front}
    BY ExceptIs
  <1>4. k \in Seq(KitMessages) /\ Elements(k) = {q[i] : i \in 1..Len(q) \cap front}
    BY KeptIs
  <1> HIDE DEF e, k
  <1>5. e \o k \in Seq(KitMessages) /\ Elements(e \o k) = Elements(e) \cup Elements(k)
    BY <1>3, <1>4, ElementsConcat
  <1>6. Elements(e) \cup Elements(k) = Elements(q)
    BY <1>1, <1>3, <1>4 DEF Elements
  <1> QED BY <1>2, <1>5, <1>6

\* What get() returns is tile requests, to be rendered together, or one message.
Taken(q, ms, rest) ==
    /\ ms \in Seq(KitMessages) /\ ms # <<>> /\ rest \in Seq(KitMessages)
    /\ \A m \in Elements(q) : m \in Elements(rest) \/ m \in Elements(ms)
    /\ \A m \in Elements(rest) : m \in Elements(q)
    /\ ms[1].k = "tile" => ms \in Seq(TileRequests) /\ Touched(rest) = Touched(q)
    /\ ms[1].k # "tile" => Elements(q) = Elements(rest) \cup {ms[1]}

LEMMA GetsOne ==
    ASSUME NEW m \in KitMessages
    PROVE  /\ <<m>> \in Seq(KitMessages) /\ <<m>> # <<>> /\ <<m>>[1] = m
           /\ m \in Elements(<<m>>)
           /\ m.k = "tile" => <<m>> \in Seq(TileRequests)
  BY MessageIs DEF Elements

LEMMA GetsIs ==
    ASSUME NEW q \in Seq(KitMessages), NEW got \in Gets(q)
    PROVE  Taken(q, got[1], got[2])
  <1>1. q # <<>>
    BY DEF Gets
  <1>2. /\ q[1] \in KitMessages /\ Tail(q) \in Seq(KitMessages)
        /\ Elements(q) = {q[1]} \cup Elements(Tail(q))
    BY <1>1, ElementsTail
  <1>3. CASE ~IsTile(q[1])
    <2>1. got = << <<q[1]>>, Tail(q) >>
      BY <1>1, <1>3 DEF Gets
    <2>2. PICK ms : ms = <<q[1]>>
      OBVIOUS
    <2>3. got[1] = ms /\ got[2] = Tail(q)
      BY <2>1, <2>2
    <2>4. ms \in Seq(KitMessages) /\ ms # <<>> /\ ms[1] = q[1] /\ q[1] \in Elements(ms)
      BY <1>2, <2>2, GetsOne
    <2> QED BY <1>2, <1>3, <2>3, <2>4 DEF Taken, IsTile
  <1>4. CASE IsTile(q[1]) /\ IsPreview(q[1])
    <2>1. got = << <<q[1]>>, Deprioritized(Tail(q)) >>
      BY <1>1, <1>4 DEF Gets
    <2> DEFINE rest == Deprioritized(Tail(q))
    <2>2. PICK ms : ms = <<q[1]>>
      OBVIOUS
    <2>7. got[1] = ms /\ got[2] = rest
      BY <2>1, <2>2
    <2>8. /\ ms \in Seq(KitMessages) /\ ms # <<>> /\ ms[1] = q[1] /\ q[1] \in Elements(ms)
          /\ ms \in Seq(TileRequests)
      BY <1>2, <1>4, <2>2, GetsOne DEF IsTile
    <2>3. rest \in Seq(KitMessages) /\ Elements(rest) = Elements(Tail(q))
      BY <1>2, DeprioritizedIs
    <2> HIDE DEF rest
    <2>4. \A m \in Elements(rest) : m \in Elements(q)
      BY <1>2, <2>3
    <2>5. \A m \in Elements(q) : m.k = "invalidate" => m \in Elements(rest)
      BY <1>2, <1>4, <2>3 DEF IsTile
    <2>6. Touched(rest) = Touched(q)
      BY <2>4, <2>5, OnlyRectanglesTouch
    <2>9. \A m \in Elements(q) : m \in Elements(rest) \/ m \in Elements(ms)
      BY <1>2, <2>3, <2>8
    <2> QED BY <1>4, <2>3, <2>4, <2>6, <2>7, <2>8, <2>9 DEF Taken, IsTile
  <1>5. CASE IsTile(q[1]) /\ ~IsPreview(q[1])
    <2> DEFINE along(i) == {j \in (1..Len(q)) \ {i} : CombinesWith(q[i], q[j])}
    <2>1. PICK i \in MayBeNext(q) :
            got = << <<q[i]>> \o Kept(q, along(i)), Except(q, along(i) \cup {i}) >>
      BY <1>1, <1>5 DEF Gets
    <2> DEFINE k == Kept(q, along(i))
               ms == <<q[i]>> \o k
               rest == Except(q, along(i) \cup {i})
    <2>2. got[1] = ms /\ got[2] = rest
      BY <2>1
    <2>3. i \in 1..Len(q) /\ q[i] \in KitMessages /\ q[i].k = "tile"
      BY DEF MayBeNext, IsPlainTile, IsTile
    <2>4. \A j \in along(i) : q[j].k = "tile"
      BY DEF CombinesWith, IsPlainTile, IsTile
    <2> HIDE DEF along
    <2>5. k \in Seq(KitMessages) /\ Elements(k) = {q[j] : j \in 1..Len(q) \cap along(i)}
      BY KeptIs
    <2>6. /\ rest \in Seq(KitMessages)
          /\ Elements(rest) = {q[j] : j \in (1..Len(q)) \ (along(i) \cup {i})}
      BY ExceptIs
    <2> HIDE DEF k, rest
    <2>7. k \in Seq(TileRequests)
      <3>1. Elements(k) \subseteq TileRequests
        BY <2>4, <2>5, MessageIs
      <3> QED BY <2>5, <3>1, SequenceOf
    <2>8. <<q[i]>> \in Seq(TileRequests)
      BY <2>3, GetsOne
    <2>9. ms \in Seq(TileRequests) /\ ms # <<>> /\ ms[1] = q[i]
      <3> DEFINE h == <<q[i]>>
      <3>1. h \in Seq(TileRequests) /\ Len(h) = 1 /\ h[1] = q[i]
        BY <2>8
      <3> HIDE DEF h
      <3>2. ASSUME NEW X, NEW x \in Seq(X), NEW y \in Seq(X), Len(x) = 1
            PROVE  x \o y \in Seq(X) /\ x \o y # <<>> /\ (x \o y)[1] = x[1]
        <4> DEFINE c == x \o y
        <4>1. /\ c \in Seq(X) /\ Len(c) = Len(x) + Len(y)
              /\ \A j \in 1..Len(x) : c[j] = x[j]
          OBVIOUS
        <4> HIDE DEF c
        <4>2. c # <<>> /\ c[1] = x[1]
          BY <3>2, <4>1, 1 \in 1..Len(x)
        <4> QED BY <4>1, <4>2 DEF c
      <3> QED BY <2>7, <3>1, <3>2 DEF h
    <2> HIDE DEF ms
    <2>10. ms \in Seq(KitMessages)
      BY <2>9, RequestsAreMessages
    <2>11. \A m \in Elements(rest) : m \in Elements(q)
      BY <2>6 DEF Elements
    <2>12. ASSUME NEW m \in Elements(q), m.k = "invalidate" PROVE m \in Elements(rest)
      <3>1. PICK j \in 1..Len(q) : m = q[j]
        BY DEF Elements
      <3>2. j \notin along(i) \cup {i}
        BY <2>3, <2>4, <2>12, <3>1
      <3> QED BY <2>6, <3>1, <3>2
    <2>13. Touched(rest) = Touched(q)
      BY <2>11, <2>12, OnlyRectanglesTouch
    <2>14. Elements(ms) = {q[i]} \cup Elements(k)
      <3>1. PICK h : h = <<q[i]>>
        OBVIOUS
      <3>2. h \in Seq(KitMessages) /\ Elements(h) = {q[i]} /\ ms = h \o k
        <4>1. Len(h) = 1 /\ h[1] = q[i] /\ h \in Seq(KitMessages)
          BY <2>3, <3>1
        <4> QED BY <3>1, <4>1 DEF Elements, ms
      <3>3. Elements(h \o k) = Elements(h) \cup Elements(k)
        BY <2>5, <3>2, ElementsConcat
      <3> QED BY <3>2, <3>3
    <2>15. ASSUME NEW m \in Elements(q) PROVE m \in Elements(rest) \/ m \in Elements(ms)
      <3>1. PICK j \in 1..Len(q) : m = q[j]
        BY DEF Elements
      <3> QED BY <2>5, <2>6, <2>14, <3>1
    <2> QED BY <2>2, <2>3, <2>6, <2>9, <2>10, <2>11, <2>13, <2>15 DEF Taken
  <1> QED BY <1>3, <1>4, <1>5

-----------------------------------------------------------------------------
(* The broker before and after a handler that serves requests.             *)

Counts(b) ==
    \A s \in Clients : b.client[s].rendering = {t \in Tiles \ Previews : Subscribed(b, s, t)}

\* The cache and the invalidations that wait are as before, and so is that the
\* sessions count their tiles.
Serves(b, c) ==
    /\ c \in BrokerStates
    /\ c.cache = b.cache
    /\ Touched(c.queue) = Touched(b.queue)
    /\ Counts(b) => Counts(c)

LEMMA ServesSelf == ASSUME NEW b \in BrokerStates PROVE Serves(b, b)
  BY DEF Serves

LEMMA ServesOn ==
    ASSUME NEW a, NEW b, NEW c, Serves(a, b), Serves(b, c)
    PROVE  Serves(a, c)
  BY DEF Serves

LEMMA BrokerIs ==
    ASSUME NEW b \in BrokerStates
    PROVE  /\ b = [ver |-> b.ver, cache |-> b.cache, tbr |-> b.tbr, client |-> b.client,
                   queue |-> b.queue]
           /\ b.ver \in Nat /\ b.cache \in [Tiles -> Nat]
           /\ b.tbr \in [Tiles -> TileStates] /\ b.client \in [Clients -> ClientStates]
           /\ b.queue \in Seq(KitMessages)
  BY DEF BrokerStates

LEMMA ClientIs ==
    ASSUME NEW c \in ClientStates
    PROVE  /\ c.requested \in Seq(TileRequests) /\ c.onFly \in Seq(Tiles)
           /\ c.rendering \in SUBSET Tiles /\ c.wids \in [Tiles -> Nat]
           /\ c.out \in Seq(TilesToSend)
  BY DEF ClientStates

LEMMA TileStateIs ==
    ASSUME NEW x \in TileStates
    PROVE  x.ver \in Nat /\ x.subs \in Seq(Clients)
  BY DEF TileStates

LEMMA SubscribedIs ==
    ASSUME NEW b, NEW s, NEW t
    PROVE  Subscribed(b, s, t) <=> s \in Elements(b.tbr[t].subs)
  BY DEF Subscribed, Elements

LEMMA CountsAlike ==
    ASSUME NEW b, NEW c,
           \A s \in Clients : c.client[s].rendering = b.client[s].rendering,
           \A t \in Tiles : Elements(c.tbr[t].subs) = Elements(b.tbr[t].subs)
    PROVE  Counts(b) => Counts(c)
  <1>1. \A s \in Clients, t \in Tiles : Subscribed(b, s, t) <=> Subscribed(c, s, t)
    BY SubscribedIs
  <1> QED BY <1>1 DEF Counts

LEMMA VersionBecomes ==
    ASSUME NEW b \in BrokerStates, NEW v \in Nat
    PROVE  Serves(b, [b EXCEPT !.ver = v])
  <1> DEFINE c == [b EXCEPT !.ver = v]
  <1>1. /\ c \in BrokerStates /\ c.cache = b.cache /\ c.tbr = b.tbr
        /\ c.client = b.client /\ c.queue = b.queue
    BY DEF BrokerStates
  <1> HIDE DEF c
  <1>2. Counts(b) => Counts(c)
    BY <1>1, CountsAlike
  <1>3. Serves(b, c)
    BY <1>1, <1>2 DEF Serves
  <1> QED BY <1>3 DEF c

LEMMA QueueBecomes ==
    ASSUME NEW b \in BrokerStates, NEW q \in Seq(KitMessages), Touched(q) = Touched(b.queue)
    PROVE  Serves(b, [b EXCEPT !.queue = q])
  <1> DEFINE c == [b EXCEPT !.queue = q]
  <1>1. /\ c \in BrokerStates /\ c.cache = b.cache /\ c.tbr = b.tbr
        /\ c.client = b.client /\ c.queue = q
    BY DEF BrokerStates
  <1> HIDE DEF c
  <1>2. Counts(b) => Counts(c)
    BY <1>1, CountsAlike
  <1>3. Serves(b, c)
    BY <1>1, <1>2 DEF Serves
  <1> QED BY <1>3 DEF c

LEMMA ClientBecomes ==
    ASSUME NEW b \in BrokerStates, NEW s \in Clients, NEW x \in ClientStates,
           x.rendering = b.client[s].rendering
    PROVE  Serves(b, [b EXCEPT !.client[s] = x])
  <1> DEFINE c == [b EXCEPT !.client[s] = x]
  <1>1. /\ c \in BrokerStates /\ c.cache = b.cache /\ c.tbr = b.tbr
        /\ c.client = [b.client EXCEPT ![s] = x] /\ c.queue = b.queue
    BY DEF BrokerStates
  <1> HIDE DEF c
  <1>2. \A r \in Clients : c.client[r].rendering = b.client[r].rendering
    BY <1>1, BrokerIs
  <1>3. Counts(b) => Counts(c)
    BY <1>1, <1>2, CountsAlike
  <1>4. Serves(b, c)
    BY <1>1, <1>3 DEF Serves
  <1> QED BY <1>4 DEF c

LEMMA RenderingBecomes ==
    ASSUME NEW b \in BrokerStates, NEW x \in [Tiles -> TileStates],
           \A t \in Tiles : Elements(x[t].subs) = Elements(b.tbr[t].subs)
    PROVE  Serves(b, [b EXCEPT !.tbr = x])
  <1> DEFINE c == [b EXCEPT !.tbr = x]
  <1>1. /\ c \in BrokerStates /\ c.cache = b.cache /\ c.tbr = x
        /\ c.client = b.client /\ c.queue = b.queue
    BY DEF BrokerStates
  <1> HIDE DEF c
  <1>2. Counts(b) => Counts(c)
    BY <1>1, CountsAlike
  <1>3. Serves(b, c)
    BY <1>1, <1>2 DEF Serves
  <1> QED BY <1>3 DEF c

-----------------------------------------------------------------------------
(* Sending a tile.                                                         *)

LEMMA EnqueueTileIs ==
    ASSUME NEW c \in ClientStates, NEW t \in Tiles, NEW image \in Nat, NEW wid \in Nat
    PROVE  /\ EnqueueTile(c, t, image, wid) \in ClientStates
           /\ EnqueueTile(c, t, image, wid).rendering = c.rendering
  <1> DEFINE tile == [t |-> t, content |-> image]
             waits == \E i \in 1..Len(c.out) : c.out[i].t = t
             out == Append(Deduplicated(c.out, t), tile)
             onFly == IF waits THEN c.onFly ELSE Append(c.onFly, t)
             wids == [c.wids EXCEPT ![t] = wid]
             sent == [requested |-> c.requested, onFly |-> onFly, rendering |-> c.rendering,
                      wids |-> wids, out |-> out]
  <1>1. out \in Seq(TilesToSend)
    <2>1. Deduplicated(c.out, t) \in Seq(TilesToSend)
      BY ClientIs, ExceptIs DEF Deduplicated
    <2>2. tile \in TilesToSend
      BY DEF TilesToSend
    <2> HIDE DEF tile
    <2> QED BY <2>1, <2>2
  <1>2. onFly \in Seq(Tiles)
    BY ClientIs
  <1>3. wids \in [Tiles -> Nat]
    BY ClientIs
  <1>4. EnqueueTile(c, t, image, wid) \in {c, sent}
    <2>1. CASE wid # 0 /\ c.wids[t] = wid
      BY <2>1 DEF EnqueueTile
    <2>2. CASE ~(wid # 0 /\ c.wids[t] = wid)
      <3>1. EnqueueTile(c, t, image, wid) = sent
        BY <2>2 DEF EnqueueTile, TraceTileBySend, ClientStates
      <3> QED BY <3>1
    <2> QED BY <2>1, <2>2
  <1> HIDE DEF out, onFly, wids
  <1>5. sent \in ClientStates /\ sent.rendering = c.rendering
    BY <1>1, <1>2, <1>3, ClientIs DEF ClientStates
  <1> HIDE DEF sent
  <1> QED BY <1>4, <1>5

LEMMA SendCachedServes ==
    ASSUME NEW b \in BrokerStates, NEW s \in Clients, NEW t \in Tiles
    PROVE  Serves(b, SendCached(b, s, t))
  <1> DEFINE x == EnqueueTile(b.client[s], t, b.cache[t], 0)
  <1>1. x \in ClientStates /\ x.rendering = b.client[s].rendering
    <2>1. b.client[s] \in ClientStates /\ b.cache[t] \in Nat /\ 0 \in Nat
      BY BrokerIs
    <2> QED BY <2>1, EnqueueTileIs
  <1>2. SendCached(b, s, t) = [b EXCEPT !.client[s] = x]
    BY BrokerIs DEF SendCached
  <1> HIDE DEF x
  <1> QED BY <1>1, <1>2, ClientBecomes

-----------------------------------------------------------------------------
(* Subscriptions.                                                          *)

LEMMA SubscribeServes ==
    ASSUME NEW b \in BrokerStates, NEW t \in Tiles, NEW ver \in Nat, NEW s \in Clients,
           NEW stalled
    PROVE  Serves(b, SubscribeToTileRendering(b, t, ver, s, stalled))
  <1> DEFINE c == SubscribeToTileRendering(b, t, ver, s, stalled)
  <1> SUFFICES Serves(b, c)
    OBVIOUS
  <1> HIDE DEF c
  <1>1. b.tbr[t] \in TileStates
    BY BrokerIs
  <1>2. CASE Subscribed(b, s, t)
    <2> DEFINE x == [b.tbr EXCEPT ![t].ver = ver]
    <2>1. c = [b EXCEPT !.tbr = x]
      BY <1>2, BrokerIs DEF c, SubscribeToTileRendering
    <2>2. x \in [Tiles -> TileStates] /\ \A u \in Tiles : x[u].subs = b.tbr[u].subs
      BY BrokerIs DEF TileStates
    <2> HIDE DEF x
    <2> QED BY <2>1, <2>2, RenderingBecomes
  <1>3. CASE ~Subscribed(b, s, t)
    <2> DEFINE v == IF BeingRendered(b, t) /\ t \notin stalled THEN b.tbr[t].ver ELSE ver
               subs == Append(b.tbr[t].subs, s)
               x == [ver |-> v, subs |-> subs]
               rendering == IF t \in Previews THEN b.client[s].rendering
                            ELSE b.client[s].rendering \cup {t}
               y == [b.client[s] EXCEPT !.rendering = rendering]
    <2>1. subs \in Seq(Clients) /\ Elements(subs) = Elements(b.tbr[t].subs) \cup {s}
      BY <1>1, TileStateIs, ElementsAppend
    <2>2. v \in Nat
      BY <1>1, TileStateIs
    <2>3. c = [b EXCEPT !.tbr[t] = x, !.client[s] = y]
      BY <1>3, BrokerIs, ClientIs DEF c, SubscribeToTileRendering
    <2>4. b.client[s] \in ClientStates /\ b.client[s].rendering \in SUBSET Tiles
      BY BrokerIs, ClientIs
    <2>5. y \in ClientStates /\ y.rendering = rendering
      BY <2>4 DEF ClientStates
    <2> HIDE DEF v, subs, y
    <2>6. x \in TileStates /\ x.subs = subs
      BY <2>1, <2>2 DEF TileStates
    <2> HIDE DEF x
    <2>7. /\ c \in BrokerStates /\ c.cache = b.cache /\ c.queue = b.queue
          /\ c.tbr = [b.tbr EXCEPT ![t] = x] /\ c.client = [b.client EXCEPT ![s] = y]
      BY <2>3, <2>5, <2>6 DEF BrokerStates
    <2>8. ASSUME Counts(b) PROVE Counts(c)
      <3> SUFFICES ASSUME NEW r \in Clients
                   PROVE  c.client[r].rendering = {u \in Tiles \ Previews : Subscribed(c, r, u)}
        BY DEF Counts
      <3>1. b.client[r].rendering = {u \in Tiles \ Previews : Subscribed(b, r, u)}
        BY <2>8 DEF Counts
      <3>2. \A u \in Tiles : c.tbr[u] = IF u = t THEN x ELSE b.tbr[u]
        BY <2>7, BrokerIs
      <3>3. \A u \in Tiles : Subscribed(c, r, u) <=> Subscribed(b, r, u) \/ (u = t /\ r = s)
        BY <2>1, <2>6, <3>2, SubscribedIs
      <3>4. c.client[r] = IF r = s THEN y ELSE b.client[r]
        BY <2>7, BrokerIs
      <3>5. CASE r = s
        BY <2>5, <3>1, <3>3, <3>4, <3>5
      <3>6. CASE r # s
        BY <3>1, <3>3, <3>4, <3>6
      <3> QED BY <3>5, <3>6
    <2> QED BY <2>7, <2>8 DEF Serves
  <1> QED BY <1>2, <1>3

LEMMA RegisterServes ==
    ASSUME NEW b \in BrokerStates, NEW ms \in Seq(TileRequests), NEW stalled
    PROVE  Serves(b, RegisterTilesBeingRendered(b, ms, stalled))
  <1> DEFINE Requested(t) == {i \in 1..Len(ms) : ms[i].t = t}
             x == [t \in Tiles |->
                     IF Requested(t) = {} \/ (BeingRendered(b, t) /\ t \notin stalled)
                     THEN b.tbr[t]
                     ELSE [b.tbr[t] EXCEPT !.ver = ms[CHOOSE i \in Requested(t) : TRUE].ver]]
  <1>1. RegisterTilesBeingRendered(b, ms, stalled) = [b EXCEPT !.tbr = x]
    BY BrokerIs DEF RegisterTilesBeingRendered
  <1>2. ASSUME NEW t \in Tiles PROVE x[t] \in TileStates /\ x[t].subs = b.tbr[t].subs
    <2>1. b.tbr[t] \in TileStates
      BY BrokerIs
    <2>2. CASE Requested(t) = {} \/ (BeingRendered(b, t) /\ t \notin stalled)
      BY <2>1, <2>2
    <2>3. CASE ~(Requested(t) = {} \/ (BeingRendered(b, t) /\ t \notin stalled))
      <3> DEFINE i == CHOOSE j \in Requested(t) : TRUE
      <3>1. x[t] = [b.tbr[t] EXCEPT !.ver = ms[i].ver]
        BY <2>3
      <3>2. i \in Requested(t)
        BY <2>3
      <3>3. ms[i] \in TileRequests
        BY <3>2
      <3> HIDE DEF i, x
      <3> QED BY <2>1, <3>1, <3>3, RequestIs DEF TileStates
    <2> QED BY <2>2, <2>3
  <1>3. x \in [Tiles -> TileStates]
    BY <1>2
  <1> HIDE DEF x
  <1> QED BY <1>1, <1>2, <1>3, RenderingBecomes

LEMMA SendToKitServes ==
    ASSUME NEW b \in BrokerStates, NEW ms \in Seq(TileRequests)
    PROVE  Serves(b, SendToKit(b, ms))
  <1> DEFINE q == PutTiles(b.queue, ms)
  <1>1. q \in Seq(KitMessages) /\ Touched(q) = Touched(b.queue)
    BY BrokerIs, PutTilesIs
  <1>2. SendToKit(b, ms) = [b EXCEPT !.queue = q]
    BY BrokerIs DEF SendToKit
  <1> HIDE DEF q
  <1> QED BY <1>1, <1>2, QueueBecomes

\* What the loops of the handlers go through.
Served(b) == {c \in BrokerStates : Serves(b, c)}

\* A loop is a sequence of turns.
LEMMA SubscribeAllTurns ==
    ASSUME NEW b \in BrokerStates, NEW t \in Tiles, NEW ver \in Nat, NEW subs \in Seq(Clients),
           NEW stalled
    PROVE  \E k : /\ SubscribeAll(b, t, ver, subs, stalled) = k[Len(subs)] /\ k[0] = b
                  /\ \A i \in 1..Len(subs) :
                       k[i] = SubscribeToTileRendering(k[i - 1], t, ver, subs[i], stalled)
  <1> DEFINE n == Len(subs)
             Turn(c, i) == SubscribeToTileRendering(c, t, ver, subs[i], stalled)
             step == [i \in 1..n |-> [c \in Served(b) |-> Turn(c, i)]]
             Right(f) == f = [i \in 0..n |-> IF i = 0 THEN b ELSE Turn(f[i - 1], i)]
             k == CHOOSE f : Right(f)
  <1>1. n \in Nat /\ \A i \in 1..n : subs[i] \in Clients
    OBVIOUS
  <1>2. ASSUME NEW i \in 1..n, NEW c \in Served(b) PROVE Turn(c, i) \in Served(b)
    <2>1. c \in BrokerStates /\ Serves(b, c)
      BY DEF Served
    <2>2. Serves(c, Turn(c, i))
      BY <1>1, <2>1, SubscribeServes
    <2> QED BY <2>1, <2>2, ServesOn DEF Served, Serves
  <1> HIDE DEF Turn
  <1>3. b \in Served(b)
    BY ServesSelf DEF Served
  <1>4. PICK f : f \in Iterations(n, Served(b), b, step)
    <2>1. step \in [1..n -> [Served(b) -> Served(b)]]
      BY <1>2
    <2> HIDE DEF step
    <2> QED BY <1>1, <1>3, <2>1, IterationExists
  <1>5. /\ f \in [0..n -> Served(b)] /\ f[0] = b
        /\ \A i \in 1..n : f[i] = step[i][f[i - 1]]
    BY <1>4 DEF Iterations
  <1>6. \A i \in 1..n : f[i] = Turn(f[i - 1], i)
    <2> TAKE i \in 1..n
    <2>1. f[i - 1] \in Served(b)
      BY <1>1, <1>5, i - 1 \in 0..n
    <2> QED BY <1>5, <2>1
  <1>7. Right(f)
    <2>1. \A i \in 0..n : i = 0 \/ i \in 1..n
      BY <1>1
    <2> QED BY <1>5, <1>6, <2>1, Zenon
  <1>8. Right(k)
    <2> HIDE DEF Right
    <2> QED BY <1>7
  <1>9. SubscribeAll(b, t, ver, subs, stalled) = k[n]
    BY DEF SubscribeAll, Turn
  <1> HIDE DEF k
  <1>10. k[0] = b /\ \A i \in 1..n : k[i] = Turn(k[i - 1], i)
    <2>1. k[0] = b
      BY <1>1, <1>8, 0 \in 0..n
    <2>2. ASSUME NEW i \in 1..n PROVE k[i] = Turn(k[i - 1], i)
      BY <1>1, <1>8, i \in 0..n, i # 0
    <2> QED BY <2>1, <2>2
  <1> QED BY <1>9, <1>10 DEF Turn

LEMMA SubscribeAllServes ==
    ASSUME NEW b \in BrokerStates, NEW t \in Tiles, NEW ver \in Nat, NEW subs \in Seq(Clients),
           NEW stalled
    PROVE  Serves(b, SubscribeAll(b, t, ver, subs, stalled))
  <1> DEFINE n == Len(subs)
  <1>1. PICK k : /\ SubscribeAll(b, t, ver, subs, stalled) = k[n] /\ k[0] = b
                 /\ \A i \in 1..n :
                      k[i] = SubscribeToTileRendering(k[i - 1], t, ver, subs[i], stalled)
    BY SubscribeAllTurns
  <1>2. n \in Nat /\ \A i \in 1..n : subs[i] \in Clients
    OBVIOUS
  <1> DEFINE T == {i \in 0..n : k[i] \in Served(b)}
  <1>3. 0 \in T
    BY <1>1, <1>2, ServesSelf DEF Served
  <1>4. ASSUME NEW i \in 1..n, i - 1 \in T PROVE i \in T
    <2>1. k[i - 1] \in BrokerStates /\ Serves(b, k[i - 1])
      BY <1>4 DEF Served
    <2>2. Serves(k[i - 1], k[i])
      BY <1>1, <1>2, <2>1, SubscribeServes
    <2>3. Serves(b, k[i])
      BY <2>1, <2>2, ServesOn
    <2> QED BY <2>3 DEF Served, Serves
  <1> HIDE DEF T
  <1>5. n \in T
    BY <1>2, <1>3, <1>4, TurnByTurn, n \in 0..n
  <1> QED BY <1>1, <1>5 DEF T, Served

-----------------------------------------------------------------------------
(* Requests.                                                               *)

LEMMA SetToSeqIs ==
    ASSUME NEW S, IsFiniteSet(S)
    PROVE  SetToSeq(S) \in Seq(S) /\ Elements(SetToSeq(S)) = S
  <1> DEFINE n == Cardinality(S)
             f == SetToSeq(S)
  <1>1. n \in Nat /\ ExistsBijection(1..n, S)
    BY FS_CardinalityType
  <1>2. PICK g \in [1..n -> S] : IsInjective(g)
    BY <1>1 DEF ExistsBijection, Bijection, Injection
  <1>3. f \in [1..n -> S] /\ IsInjective(f)
    BY <1>2 DEF SetToSeq
  <1> HIDE DEF f
  <1>4. f \in Surjection(1..n, S)
    <2>1. f \in Injection(1..n, S)
      BY <1>3 DEF Injection
    <2>2. Cardinality(1..n) = n
      BY <1>1, FS_Interval
    <2> QED BY <2>1, <2>2, FS_Injection
  <1>5. \A x \in S : \E i \in 1..n : f[i] = x
    BY <1>4 DEF Surjection
  <1>6. f \in Seq(S) /\ Len(f) = n
    BY <1>1, <1>3
  <1>7. Elements(f) = S
    BY <1>3, <1>5, <1>6 DEF Elements
  <1> QED BY <1>6, <1>7 DEF f

LEMMA TileRequestIs ==
    ASSUME NEW t \in Tiles, NEW ver \in Nat, NEW old \in Nat
    PROVE  TileRequest(t, ver, old) \in TileRequests
  BY DEF TileRequest, TileRequests

LEMMA HandleTileRequestServes ==
    ASSUME NEW b \in BrokerStates, NEW s \in Clients, NEW t \in Tiles,
           NEW broadcast \in BOOLEAN, NEW stalled
    PROVE  Serves(b, HandleTileRequest(b, s, t, broadcast, stalled))
  <1> DEFINE ver == b.ver + 1
             next == [b EXCEPT !.ver = ver]
             subs == IF broadcast THEN SetToSeq(Clients) ELSE <<s>>
             a == SubscribeAll(next, t, ver, subs, stalled)
             request == TileRequest(t, ver, 0)
  <1>1. ver \in Nat
    BY BrokerIs
  <1>2. next \in BrokerStates /\ Serves(b, next)
    <2> HIDE DEF ver
    <2>1. Serves(b, next)
      BY <1>1, VersionBecomes
    <2> QED BY <2>1 DEF Serves
  <1>3. subs \in Seq(Clients)
    BY ClientsAssumption, SetToSeqIs
  <1>4. CASE Cached(b, t)
    <2>1. HandleTileRequest(b, s, t, broadcast, stalled) = SendCached(next, s, t)
      BY <1>4 DEF HandleTileRequest
    <2> HIDE DEF next
    <2>2. Serves(next, SendCached(next, s, t))
      BY <1>2, SendCachedServes
    <2> QED BY <1>2, <2>1, <2>2, ServesOn
  <1>5. CASE ~Cached(b, t)
    <2>1. HandleTileRequest(b, s, t, broadcast, stalled) = SendToKit(a, <<request>>)
      BY <1>5 DEF HandleTileRequest
    <2>2. request \in TileRequests
      BY <1>1, TileRequestIs, 0 \in Nat
    <2> HIDE DEF next, ver, subs, request
    <2>3. Serves(next, a)
      BY <1>1, <1>2, <1>3, SubscribeAllServes
    <2>4. a \in BrokerStates
      BY <2>3 DEF Serves
    <2> HIDE DEF a
    <2>5. <<request>> \in Seq(TileRequests)
      BY <2>2
    <2>6. Serves(a, SendToKit(a, <<request>>))
      BY <2>4, <2>5, SendToKitServes
    <2> QED BY <1>2, <2>1, <2>3, <2>6, ServesOn
  <1> QED BY <1>4, <1>5

\* The loop of sendRequestedTiles: the broker, and what is needed, left over and
\* delayed.
Takings(b) ==
    [b : Served(b), needed : Seq(TileRequests), left : Seq(TileRequests),
     delayed : Seq(TileRequests)]

LEMMA TakingsAre ==
    ASSUME NEW b, NEW a \in Takings(b)
    PROVE  /\ a.b \in BrokerStates /\ Serves(b, a.b)
           /\ a.needed \in Seq(TileRequests) /\ a.left \in Seq(TileRequests)
           /\ a.delayed \in Seq(TileRequests)
  BY DEF Takings, Served

LEMMA TakingsWith ==
    ASSUME NEW b, NEW a \in Takings(b), NEW c \in Served(b)
    PROVE  [a EXCEPT !.b = c] \in Takings(b)
  BY DEF Takings

LEMMA TakingsKeep ==
    ASSUME NEW b, NEW a \in Takings(b), NEW r \in TileRequests
    PROVE  /\ [a EXCEPT !.left = Append(@, r)] \in Takings(b)
           /\ [a EXCEPT !.delayed = Append(@, r)] \in Takings(b)
  <1>1. Append(a.left, r) \in Seq(TileRequests) /\ Append(a.delayed, r) \in Seq(TileRequests)
    BY TakingsAre
  <1> QED BY <1>1 DEF Takings

LEMMA ServedOn ==
    ASSUME NEW b, NEW c, NEW d, c \in Served(b), Serves(c, d)
    PROVE  d \in Served(b)
  <1>1. Serves(b, d)
    BY ServesOn DEF Served
  <1> QED BY <1>1 DEF Served, Serves

LEMMA SendRequestedTileServes ==
    ASSUME NEW b, NEW a \in Takings(b), NEW r \in TileRequests, NEW s \in Clients, NEW stalled
    PROVE  SendRequestedTile(a, r, s, stalled) \in Takings(b)
  <1> DEFINE t == r.t
  <1>1. t \in Tiles /\ r.ver \in Nat
    BY RequestIs
  <1> HIDE DEF t
  <1>2. a.b \in Served(b) /\ a.b \in BrokerStates
    BY TakingsAre DEF Served
  <1>3. CASE Cached(a.b, t)
    <2> DEFINE c == SendCached(a.b, s, t)
    <2>1. SendRequestedTile(a, r, s, stalled) = [a EXCEPT !.b = c]
      BY <1>3 DEF SendRequestedTile, t
    <2>2. c \in Served(b)
      BY <1>1, <1>2, SendCachedServes, ServedOn
    <2> HIDE DEF c
    <2> QED BY <2>1, <2>2, TakingsWith
  <1>4. CASE ~Cached(a.b, t) /\ (~BeingRendered(a.b, t) \/ a.b.tbr[t].ver < r.ver)
    <2> DEFINE ver == a.b.ver + 1
               next == [a.b EXCEPT !.ver = ver]
               c == SubscribeToTileRendering(next, t, ver, s, stalled)
               again == [r EXCEPT !.ver = ver]
    <2>1. SendRequestedTile(a, r, s, stalled) = [a EXCEPT !.b = c, !.needed = Append(@, again)]
      BY <1>2, <1>4, BrokerIs DEF SendRequestedTile, t
    <2>2. ver \in Nat
      BY <1>2, BrokerIs
    <2> HIDE DEF ver
    <2>3. again \in TileRequests
      BY <2>2 DEF TileRequests
    <2>4. Serves(a.b, next)
      BY <1>2, <2>2, VersionBecomes
    <2>5. next \in Served(b) /\ next \in BrokerStates
      BY <1>2, <2>4, ServedOn DEF Serves
    <2> HIDE DEF next
    <2>6. c \in Served(b)
      BY <1>1, <2>2, <2>5, SubscribeServes, ServedOn
    <2> HIDE DEF c, again
    <2>7. Append(a.needed, again) \in Seq(TileRequests)
      BY <2>3, TakingsAre
    <2> QED BY <2>1, <2>6, <2>7 DEF Takings
  <1>5. CASE ~Cached(a.b, t) /\ ~(~BeingRendered(a.b, t) \/ a.b.tbr[t].ver < r.ver)
    <2> DEFINE c == SubscribeToTileRendering(a.b, t, r.ver, s, stalled)
    <2>1. SendRequestedTile(a, r, s, stalled) = [a EXCEPT !.b = c]
      BY <1>5 DEF SendRequestedTile, t
    <2>2. c \in Served(b)
      BY <1>1, <1>2, SubscribeServes, ServedOn
    <2> HIDE DEF c
    <2> QED BY <2>1, <2>2, TakingsWith
  <1> QED BY <1>3, <1>4, <1>5

LEMMA TakeRequestServes ==
    ASSUME NEW b, NEW a \in Takings(b), NEW r \in TileRequests, NEW s \in Clients, NEW stalled
    PROVE  TakeRequest(a, r, s, stalled) \in Takings(b)
  <1>1. CASE Busy(a.b.client[s])
    BY <1>1, TakingsKeep DEF TakeRequest
  <1>2. CASE ~Busy(a.b.client[s]) /\ Count(r.t, a.b.client[s].onFly) >= 2
    BY <1>2, TakingsKeep DEF TakeRequest
  <1>3. CASE ~Busy(a.b.client[s]) /\ ~(Count(r.t, a.b.client[s].onFly) >= 2)
    BY <1>3, SendRequestedTileServes DEF TakeRequest
  <1> QED BY <1>1, <1>2, <1>3

TakingTurns(k, b, ms, s, stalled) ==
    /\ TakeRequests(b, ms, s, stalled) = k[Len(ms)]
    /\ k[0] = [b |-> b, needed |-> <<>>, left |-> <<>>, delayed |-> <<>>]
    /\ \A i \in 1..Len(ms) : k[i] = TakeRequest(k[i - 1], ms[i], s, stalled)
    /\ \A i \in 0..Len(ms) : k[i] \in Takings(b)

LEMMA TakeRequestsTurns ==
    ASSUME NEW b \in BrokerStates, NEW ms \in Seq(TileRequests), NEW s \in Clients, NEW stalled
    PROVE  \E k : TakingTurns(k, b, ms, s, stalled)
  <1> DEFINE n == Len(ms)
             start == [b |-> b, needed |-> <<>>, left |-> <<>>, delayed |-> <<>>]
             Turn(a, i) == TakeRequest(a, ms[i], s, stalled)
             step == [i \in 1..n |-> [a \in Takings(b) |-> Turn(a, i)]]
             Right(f) == f = [i \in 0..n |-> IF i = 0 THEN start ELSE Turn(f[i - 1], i)]
             k == CHOOSE f : Right(f)
  <1>1. n \in Nat /\ \A i \in 1..n : ms[i] \in TileRequests
    OBVIOUS
  <1>2. ASSUME NEW i \in 1..n, NEW a \in Takings(b) PROVE Turn(a, i) \in Takings(b)
    BY <1>1, TakeRequestServes
  <1>3. start \in Takings(b)
    <2>1. b \in Served(b) /\ <<>> \in Seq(TileRequests)
      BY ServesSelf DEF Served
    <2> QED BY <2>1 DEF Takings
  <1>4. TakeRequests(b, ms, s, stalled) = k[n]
    BY DEF TakeRequests
  <1> HIDE DEF Turn, start
  <1>5. PICK f : f \in Iterations(n, Takings(b), start, step)
    <2>1. step \in [1..n -> [Takings(b) -> Takings(b)]]
      BY <1>2
    <2> HIDE DEF step
    <2> QED BY <1>1, <1>3, <2>1, IterationExists
  <1>6. /\ f \in [0..n -> Takings(b)] /\ f[0] = start
        /\ \A i \in 1..n : f[i] = step[i][f[i - 1]]
    BY <1>5 DEF Iterations
  <1>7. \A i \in 1..n : f[i] = Turn(f[i - 1], i)
    <2> TAKE i \in 1..n
    <2>1. f[i - 1] \in Takings(b)
      BY <1>1, <1>6, i - 1 \in 0..n
    <2> QED BY <1>6, <2>1
  <1>8. Right(f)
    <2>1. \A i \in 0..n : i = 0 \/ i \in 1..n
      BY <1>1
    <2> QED BY <1>6, <1>7, <2>1, Zenon
  <1>9. Right(k)
    <2> HIDE DEF Right
    <2> QED BY <1>8
  <1> HIDE DEF k
  <1>10. k[0] = start /\ \A i \in 1..n : k[i] = Turn(k[i - 1], i)
    <2>1. k[0] = start
      BY <1>1, <1>9, 0 \in 0..n
    <2>2. ASSUME NEW i \in 1..n PROVE k[i] = Turn(k[i - 1], i)
      BY <1>1, <1>9, i \in 0..n, i # 0
    <2> QED BY <2>1, <2>2
  <1> DEFINE T == {i \in 0..n : k[i] \in Takings(b)}
  <1>11. 0 \in T /\ \A i \in 1..n : i - 1 \in T => i \in T
    BY <1>1, <1>2, <1>3, <1>10
  <1> HIDE DEF T
  <1>12. 0..n \subseteq T
    BY <1>1, <1>11, TurnByTurn
  <1>13. \A i \in 0..n : k[i] \in Takings(b)
    BY <1>12 DEF T
  <1>14. TakingTurns(k, b, ms, s, stalled)
    BY <1>4, <1>10, <1>13, Zenon DEF TakingTurns, Turn, start, n
  <1> QED BY <1>14

LEMMA TakeRequestsServe ==
    ASSUME NEW b \in BrokerStates, NEW ms \in Seq(TileRequests), NEW s \in Clients, NEW stalled
    PROVE  TakeRequests(b, ms, s, stalled) \in Takings(b)
  <1>1. Len(ms) \in Nat /\ Len(ms) \in 0..Len(ms)
    OBVIOUS
  <1>2. PICK k : TakingTurns(k, b, ms, s, stalled)
    BY TakeRequestsTurns
  <1>3. TakeRequests(b, ms, s, stalled) = k[Len(ms)] /\ k[Len(ms)] \in Takings(b)
    BY <1>1, <1>2, Zenon DEF TakingTurns
  <1> QED BY <1>3, Zenon

LEMMA SendRequestedTilesServes ==
    ASSUME NEW b \in BrokerStates, NEW s \in Clients, NEW outdated, NEW stalled
    PROVE  Serves(b, SendRequestedTiles(b, s, outdated, stalled))
  <1> DEFINE onFly == Except(b.client[s].onFly, 1..outdated)
             x == [b.client[s] EXCEPT !.onFly = onFly]
             start == [b EXCEPT !.client[s] = x]
             done == TakeRequests(start, b.client[s].requested, s, stalled)
             y == [done.b.client[s] EXCEPT !.requested = done.left \o done.delayed]
             after == [done.b EXCEPT !.client[s] = y]
  <1>1. b.client[s] \in ClientStates
    BY BrokerIs
  <1>2. x \in ClientStates /\ x.rendering = b.client[s].rendering
    <2>1. onFly \in Seq(Tiles)
      BY <1>1, ClientIs, ExceptIs
    <2> HIDE DEF onFly
    <2> QED BY <1>1, <2>1 DEF ClientStates
  <1>3. SendRequestedTiles(b, s, outdated, stalled) = SendToKit(after, done.needed)
    <2>1. start = [b EXCEPT !.client[s].onFly = Except(@, 1..outdated)]
      BY BrokerIs
    <2>2. after = [done.b EXCEPT !.client[s].requested = done.left \o done.delayed]
      BY BrokerIs
    <2> HIDE DEF start
    <2> QED BY <2>1, <2>2 DEF SendRequestedTiles
  <1> HIDE DEF x
  <1>4. Serves(b, start) /\ start \in BrokerStates
    <2>1. Serves(b, start)
      BY <1>2, ClientBecomes
    <2> QED BY <2>1 DEF Serves
  <1> HIDE DEF start
  <1>5. done \in Takings(start)
    BY <1>1, <1>4, ClientIs, TakeRequestsServe
  <1> HIDE DEF done
  <1>6. /\ done.b \in BrokerStates /\ Serves(start, done.b)
        /\ done.needed \in Seq(TileRequests)
        /\ done.left \o done.delayed \in Seq(TileRequests)
    BY <1>5, TakingsAre
  <1>7. y \in ClientStates /\ y.rendering = done.b.client[s].rendering
    <2>1. done.b.client[s] \in ClientStates
      BY <1>6, BrokerIs
    <2> QED BY <1>6, <2>1 DEF ClientStates
  <1> HIDE DEF y
  <1>8. Serves(done.b, after) /\ after \in BrokerStates
    <2>1. Serves(done.b, after)
      BY <1>6, <1>7, ClientBecomes
    <2> QED BY <2>1 DEF Serves
  <1> HIDE DEF after
  <1>9. Serves(after, SendToKit(after, done.needed))
    BY <1>6, <1>8, SendToKitServes
  <1>10. Serves(b, after)
    BY <1>4, <1>6, <1>8, ServesOn
  <1> QED BY <1>3, <1>9, <1>10, ServesOn

LEMMA AccumulatedIs ==
    ASSUME NEW ms \in Seq(TileRequests), NEW new \in Seq(TileRequests)
    PROVE  Accumulated(ms, new) \in Seq(TileRequests)
  <1> DEFINE Known(t) == \E i \in 1..Len(ms) : ms[i].t = t
             Newer(r) == IF \E i \in 1..Len(new) : new[i].t = r.t
                         THEN new[CHOOSE i \in 1..Len(new) : new[i].t = r.t] ELSE r
             kept == [i \in 1..Len(ms) |-> Newer(ms[i])]
             added == Except(new, {i \in 1..Len(new) : Known(new[i].t)})
  <1>1. Accumulated(ms, new) = kept \o added
    BY DEF Accumulated
  <1>2. \A i \in 1..Len(ms) : Newer(ms[i]) \in TileRequests
    <2> TAKE i \in 1..Len(ms)
    <2>1. CASE \E j \in 1..Len(new) : new[j].t = ms[i].t
      <3> DEFINE j == CHOOSE l \in 1..Len(new) : new[l].t = ms[i].t
      <3>1. j \in 1..Len(new)
        BY <2>1
      <3>2. Newer(ms[i]) = new[j]
        BY <2>1
      <3> HIDE DEF j
      <3> QED BY <3>1, <3>2
    <2>2. CASE ~(\E j \in 1..Len(new) : new[j].t = ms[i].t)
      BY <2>2
    <2> QED BY <2>1, <2>2
  <1>3. kept \in Seq(TileRequests)
    <2> HIDE DEF Newer
    <2> QED BY <1>2
  <1>4. added \in Seq(TileRequests)
    BY ExceptIs
  <1> HIDE DEF kept, added
  <1> QED BY <1>1, <1>3, <1>4

LEMMA HandleTileCombinedRequestServes ==
    ASSUME NEW b \in BrokerStates, NEW s \in Clients, NEW tiles \in Seq(Tiles),
           NEW old \in [Tiles -> Nat], NEW outdated, NEW stalled
    PROVE  Serves(b, HandleTileCombinedRequest(b, s, tiles, old, outdated, stalled))
  <1> DEFINE new == [i \in 1..Len(tiles) |-> TileRequest(tiles[i], b.ver + i, old[tiles[i]])]
             needed == Except(new, {i \in 1..Len(new) : Cached(b, tiles[i])})
             ver == b.ver + Len(tiles)
             next == [b EXCEPT !.ver = ver]
             registered == RegisterTilesBeingRendered(next, needed, stalled)
             prerendered == SendToKit(registered, needed)
             x == [prerendered.client[s] EXCEPT
                     !.requested = Accumulated(prerendered.client[s].requested, new)]
             wanted == [prerendered EXCEPT !.client[s] = x]
  <1>1. HandleTileCombinedRequest(b, s, tiles, old, outdated, stalled)
          = SendRequestedTiles(wanted, s, outdated, stalled)
    <2>1. wanted = [prerendered EXCEPT !.client[s].requested = Accumulated(@, new)]
      BY BrokerIs
    <2>2. next = [b EXCEPT !.ver = @ + Len(tiles)]
      BY BrokerIs
    <2> HIDE DEF wanted, next
    <2> QED BY <2>1, <2>2 DEF HandleTileCombinedRequest
  <1>2. b.ver \in Nat /\ Len(tiles) \in Nat /\ ver \in Nat
    BY BrokerIs
  <1>3. new \in Seq(TileRequests)
    <2>1. \A i \in 1..Len(tiles) :
            tiles[i] \in Tiles /\ old[tiles[i]] \in Nat /\ b.ver + i \in Nat
      BY <1>2
    <2>2. \A i \in 1..Len(tiles) :
            TileRequest(tiles[i], b.ver + i, old[tiles[i]]) \in TileRequests
      BY <2>1, TileRequestIs
    <2> QED BY <1>2, <2>2
  <1> HIDE DEF ver, new
  <1>4. needed \in Seq(TileRequests)
    BY <1>3, ExceptIs
  <1> HIDE DEF needed
  <1>5. Serves(b, next) /\ next \in BrokerStates
    <2>1. Serves(b, next)
      BY <1>2, VersionBecomes
    <2> QED BY <2>1 DEF Serves
  <1> HIDE DEF next
  <1>6. Serves(next, registered) /\ registered \in BrokerStates
    <2>1. Serves(next, registered)
      BY <1>4, <1>5, RegisterServes
    <2> QED BY <2>1 DEF Serves
  <1> HIDE DEF registered
  <1>7. Serves(registered, prerendered) /\ prerendered \in BrokerStates
    <2>1. Serves(registered, prerendered)
      BY <1>4, <1>6, SendToKitServes
    <2> QED BY <2>1 DEF Serves
  <1> HIDE DEF prerendered
  <1>8. x \in ClientStates /\ x.rendering = prerendered.client[s].rendering
    <2>1. /\ prerendered.client[s] \in ClientStates
          /\ prerendered.client[s].requested \in Seq(TileRequests)
      BY <1>7, BrokerIs, ClientIs
    <2>2. Accumulated(prerendered.client[s].requested, new) \in Seq(TileRequests)
      BY <1>3, <2>1, AccumulatedIs
    <2> QED BY <2>1, <2>2 DEF ClientStates
  <1> HIDE DEF x
  <1>9. Serves(prerendered, wanted) /\ wanted \in BrokerStates
    <2>1. Serves(prerendered, wanted)
      BY <1>7, <1>8, ClientBecomes
    <2> QED BY <2>1 DEF Serves
  <1> HIDE DEF wanted
  <1>10. Serves(wanted, SendRequestedTiles(wanted, s, outdated, stalled))
    BY <1>9, SendRequestedTilesServes
  <1>11. Serves(b, wanted)
    BY <1>5, <1>6, <1>7, <1>9, ServesOn
  <1> QED BY <1>1, <1>10, <1>11, ServesOn

LEMMA TileProcessedServes ==
    ASSUME NEW b \in BrokerStates, NEW s \in Clients, NEW t, NEW outdated, NEW stalled
    PROVE  Serves(b, TileProcessed(b, s, t, outdated, stalled))
  <1> DEFINE fly == b.client[s].onFly
             first == {i \in 1..Len(fly) : fly[i] = t /\ \A j \in 1..(i - 1) : fly[j] # t}
             x == [b.client[s] EXCEPT !.onFly = Except(fly, first)]
             c == [b EXCEPT !.client[s] = x]
  <1>1. TileProcessed(b, s, t, outdated, stalled) = SendRequestedTiles(c, s, outdated, stalled)
    BY BrokerIs DEF TileProcessed
  <1>2. b.client[s] \in ClientStates
    BY BrokerIs
  <1> HIDE DEF first
  <1>3. x \in ClientStates /\ x.rendering = b.client[s].rendering
    <2>1. Except(fly, first) \in Seq(Tiles)
      BY <1>2, ClientIs, ExceptIs
    <2> QED BY <1>2, <2>1 DEF ClientStates
  <1> HIDE DEF x
  <1>4. Serves(b, c) /\ c \in BrokerStates
    <2>1. Serves(b, c)
      BY <1>3, ClientBecomes
    <2> QED BY <2>1 DEF Serves
  <1> HIDE DEF c
  <1>5. Serves(c, SendRequestedTiles(c, s, outdated, stalled))
    BY <1>4, SendRequestedTilesServes
  <1> QED BY <1>1, <1>4, <1>5, ServesOn

-----------------------------------------------------------------------------
(* Cancelling.                                                             *)

\* Without a session: the others go on being subscribed.
LEMMA WithoutIs ==
    ASSUME NEW subs \in Seq(Clients), NEW s
    PROVE  LET w == Except(subs, {i \in 1..Len(subs) : subs[i] = s})
           IN w \in Seq(Clients) /\ Elements(w) = Elements(subs) \ {s}
  <1> DEFINE w == Except(subs, {i \in 1..Len(subs) : subs[i] = s})
  <1>1. /\ w \in Seq(Clients)
        /\ Elements(w) = {subs[i] : i \in (1..Len(subs)) \ {i \in 1..Len(subs) : subs[i] = s}}
    BY ExceptIs
  <1> HIDE DEF w
  <1>2. Elements(w) = Elements(subs) \ {s}
    BY <1>1 DEF Elements
  <1> QED BY <1>1, <1>2 DEF w

LEMMA NoElements == Elements(<<>>) = {}
  BY Len(<<>>) = 0, 1..0 = {} DEF Elements

\* The others are served as before, and the session has nothing.
Cancels(b, c, s) ==
    /\ c.ver = b.ver /\ Elements(c.queue) = Elements(b.queue)
    /\ \A r \in Clients : r # s => c.client[r] = b.client[r]
    /\ c.client[s].out = b.client[s].out /\ \A t \in Tiles : c.client[s].wids[t] = 0
    /\ \A r \in Clients, t \in Tiles : r # s /\ Subscribed(b, r, t) => Subscribed(c, r, t)
    /\ \A t \in Tiles :
         BeingRendered(c, t) => BeingRendered(b, t) /\ c.tbr[t].ver = b.tbr[t].ver

LEMMA CancelTileRequestsServes ==
    ASSUME NEW b \in BrokerStates, NEW s \in Clients
    PROVE  LET c == CancelTileRequests(b, s)
           IN Serves(b, c) /\ Cancels(b, c, s)
  <1> DEFINE c == CancelTileRequests(b, s)
             x == [b.client[s] EXCEPT !.requested = <<>>, !.onFly = <<>>, !.rendering = {},
                                      !.wids = [t \in Tiles |-> 0]]
             a == [b EXCEPT !.client[s] = x]
             Without(subs) == Except(subs, {i \in 1..Len(subs) : subs[i] = s})
             mine == {t \in Tiles \ Previews : Subscribed(a, s, t)}
             alone == {t \in mine : Without(a.tbr[t].subs) = <<>>}
             tbr2 == [t \in Tiles |->
                        IF t \in alone THEN NotRendered
                        ELSE IF t \in mine THEN [a.tbr[t] EXCEPT !.subs = Without(a.tbr[t].subs)]
                        ELSE a.tbr[t]]
             queue2 == CancelTiles(a.queue, {a.tbr[t].ver : t \in alone})
  <1> SUFFICES Serves(b, c) /\ Cancels(b, c, s)
    OBVIOUS
  <1>1. /\ x \in ClientStates /\ x.rendering = {}
        /\ x.out = b.client[s].out /\ \A t \in Tiles : x.wids[t] = 0
    <2>1. b.client[s] \in ClientStates
      BY BrokerIs
    <2>2. <<>> \in Seq(TileRequests) /\ <<>> \in Seq(Tiles) /\ [t \in Tiles |-> 0] \in [Tiles -> Nat]
      OBVIOUS
    <2> QED BY <2>1, <2>2 DEF ClientStates
  <1>2. c = CancelSubscriptions(a, s)
    BY BrokerIs DEF CancelTileRequests
  <1> HIDE DEF x, c
  <1>3. /\ a \in BrokerStates /\ a.cache = b.cache /\ a.queue = b.queue /\ a.tbr = b.tbr
        /\ a.ver = b.ver
        /\ a.client = [b.client EXCEPT ![s] = x]
    BY <1>1 DEF BrokerStates
  <1> HIDE DEF a
  <1>4. c = [a EXCEPT !.tbr = tbr2, !.queue = queue2]
    BY <1>2, Zenon DEF CancelSubscriptions
  <1>5. /\ queue2 \in Seq(KitMessages) /\ Touched(queue2) = Touched(b.queue)
        /\ Elements(queue2) = Elements(b.queue)
    BY <1>3, BrokerIs, CancelTilesIs
  <1>6. ASSUME NEW t \in Tiles
        PROVE  /\ Without(a.tbr[t].subs) \in Seq(Clients)
               /\ Elements(Without(a.tbr[t].subs)) = Elements(b.tbr[t].subs) \ {s}
    <2>1. a.tbr[t].subs \in Seq(Clients)
      BY <1>3, BrokerIs, TileStateIs
    <2> QED BY <1>3, <2>1, WithoutIs
  <1>7. ASSUME NEW t \in Tiles
        PROVE  /\ tbr2[t] \in TileStates
               /\ t \in mine => Elements(tbr2[t].subs) = Elements(b.tbr[t].subs) \ {s}
               /\ t \notin mine => Elements(tbr2[t].subs) = Elements(b.tbr[t].subs)
               /\ tbr2[t] # NotRendered =>
                    b.tbr[t] # NotRendered /\ tbr2[t].ver = b.tbr[t].ver
    <2>1. a.tbr[t] \in TileStates
      BY <1>3, BrokerIs
    <2> HIDE DEF Without
    <2>2. CASE t \in alone
      <3>1. tbr2[t] = NotRendered
        BY <2>2
      <3>2. NotRendered \in TileStates /\ NotRendered.subs = <<>>
        BY DEF NotRendered, TileStates
      <3>3. Elements(b.tbr[t].subs) \ {s} = {}
        BY <1>6, <2>2, NoElements
      <3> QED BY <2>2, <3>1, <3>2, <3>3, NoElements
    <2>3. CASE t \notin alone /\ t \in mine
      <3>1. tbr2[t] = [a.tbr[t] EXCEPT !.subs = Without(a.tbr[t].subs)]
        BY <2>3
      <3>2. /\ tbr2[t] \in TileStates /\ tbr2[t].subs = Without(a.tbr[t].subs)
            /\ tbr2[t].ver = b.tbr[t].ver
        BY <1>3, <1>6, <2>1, <3>1 DEF TileStates
      <3>3. b.tbr[t] # NotRendered
        <4>1. s \in Elements(b.tbr[t].subs)
          BY <1>3, <2>3, SubscribedIs
        <4>2. NotRendered.subs = <<>>
          BY DEF NotRendered
        <4> QED BY <4>1, <4>2, NoElements
      <3> QED BY <1>6, <2>3, <3>2, <3>3
    <2>4. CASE t \notin mine
      BY <1>3, <2>1, <2>4
    <2> QED BY <2>2, <2>3, <2>4
  <1>8. tbr2 \in [Tiles -> TileStates]
    BY <1>7
  <1>9. \A t \in Tiles : t \in mine <=> t \notin Previews /\ Subscribed(b, s, t)
    BY <1>3, SubscribedIs
  <1> HIDE DEF tbr2, queue2, mine, alone
  <1>10. /\ c \in BrokerStates /\ c.cache = b.cache /\ c.queue = queue2 /\ c.ver = b.ver
         /\ c.tbr = tbr2 /\ c.client = [b.client EXCEPT ![s] = x]
    BY <1>3, <1>4, <1>5, <1>8 DEF BrokerStates
  <1>11. ASSUME Counts(b) PROVE Counts(c)
    <2> SUFFICES ASSUME NEW r \in Clients
                 PROVE  c.client[r].rendering = {u \in Tiles \ Previews : Subscribed(c, r, u)}
      BY DEF Counts
    <2>1. b.client[r].rendering = {u \in Tiles \ Previews : Subscribed(b, r, u)}
      BY <1>11 DEF Counts
    <2>2. \A u \in Tiles \ Previews : Subscribed(c, r, u) <=> Subscribed(b, r, u) /\ r # s
      BY <1>7, <1>9, <1>10, SubscribedIs
    <2>3. c.client[r] = IF r = s THEN x ELSE b.client[r]
      BY <1>10, BrokerIs
    <2>4. CASE r = s
      BY <1>1, <2>2, <2>3, <2>4
    <2>5. CASE r # s
      BY <2>1, <2>2, <2>3, <2>5
    <2> QED BY <2>4, <2>5
  <1>12. Serves(b, c)
    BY <1>5, <1>10, <1>11 DEF Serves
  <1>13. \A r \in Clients : c.client[r] = IF r = s THEN x ELSE b.client[r]
    BY <1>10, BrokerIs
  <1>14. ASSUME NEW r \in Clients, NEW t \in Tiles, r # s, Subscribed(b, r, t)
         PROVE  Subscribed(c, r, t)
    BY <1>7, <1>10, <1>14, SubscribedIs
  <1>15. \A t \in Tiles :
           BeingRendered(c, t) => BeingRendered(b, t) /\ c.tbr[t].ver = b.tbr[t].ver
    BY <1>7, <1>10 DEF BeingRendered
  <1>16. Cancels(b, c, s)
    BY <1>1, <1>5, <1>10, <1>13, <1>14, <1>15 DEF Cancels
  <1> QED BY <1>12, <1>16

-----------------------------------------------------------------------------
(* Images from the kit.                                                    *)

\* The queue is as before, and what is new in the cache is one of the images.
Saves(b, c, images) ==
    /\ c \in BrokerStates
    /\ c.queue = b.queue
    /\ Counts(b) => Counts(c)
    /\ \A t \in Tiles :
         \/ c.cache[t] = b.cache[t]
         \/ \E m \in images : m.t = t /\ c.cache[t] = m.content

LEMMA ForgetSaves ==
    ASSUME NEW b \in BrokerStates, NEW t \in Tiles
    PROVE  Saves(b, ForgetTileBeingRendered(b, t), {})
  <1> DEFINE c == ForgetTileBeingRendered(b, t)
             Left(s) == [b.client[s] EXCEPT !.rendering = b.client[s].rendering \ {t}]
             client2 == [s \in Clients |->
                           IF Subscribed(b, s, t) /\ t \notin Previews THEN Left(s)
                           ELSE b.client[s]]
             tbr2 == [b.tbr EXCEPT ![t] = NotRendered]
  <1> SUFFICES Saves(b, c, {})
    OBVIOUS
  <1>1. ASSUME NEW s \in Clients
        PROVE  /\ b.client[s] \in ClientStates
               /\ Left(s) \in ClientStates /\ Left(s).rendering = b.client[s].rendering \ {t}
    <2>1. b.client[s] \in ClientStates /\ b.client[s].rendering \in SUBSET Tiles
      BY BrokerIs, ClientIs
    <2> QED BY <2>1 DEF ClientStates
  <1>2. NotRendered \in TileStates /\ NotRendered.subs = <<>>
    BY DEF NotRendered, TileStates
  <1>3. tbr2 \in [Tiles -> TileStates]
    BY <1>2, BrokerIs
  <1>4. c = [b EXCEPT !.tbr = tbr2, !.client = client2]
    BY Zenon DEF ForgetTileBeingRendered
  <1> HIDE DEF Left, c
  <1>5. client2 \in [Clients -> ClientStates]
    BY <1>1
  <1>6. \A u \in Tiles : tbr2[u] = IF u = t THEN NotRendered ELSE b.tbr[u]
    BY BrokerIs
  <1>7. \A s \in Clients :
          client2[s] = IF Subscribed(b, s, t) /\ t \notin Previews THEN Left(s) ELSE b.client[s]
    OBVIOUS
  <1> HIDE DEF tbr2, client2
  <1>8. /\ c \in BrokerStates /\ c.cache = b.cache /\ c.queue = b.queue
        /\ c.tbr = tbr2 /\ c.client = client2
    BY <1>3, <1>4, <1>5 DEF BrokerStates
  <1>9. ASSUME Counts(b) PROVE Counts(c)
    <2> SUFFICES ASSUME NEW s \in Clients
                 PROVE  c.client[s].rendering = {u \in Tiles \ Previews : Subscribed(c, s, u)}
      BY DEF Counts
    <2>1. b.client[s].rendering = {u \in Tiles \ Previews : Subscribed(b, s, u)}
      BY <1>9 DEF Counts
    <2>2. \A u \in Tiles : Subscribed(c, s, u) <=> Subscribed(b, s, u) /\ u # t
      BY <1>2, <1>6, <1>8, SubscribedIs, NoElements
    <2>3. CASE Subscribed(b, s, t) /\ t \notin Previews
      BY <1>1, <1>7, <1>8, <2>1, <2>2, <2>3
    <2>4. CASE ~(Subscribed(b, s, t) /\ t \notin Previews)
      BY <1>7, <1>8, <2>1, <2>2, <2>4
    <2> QED BY <2>3, <2>4
  <1> QED BY <1>8, <1>9 DEF Saves

LEMMA SaveTileSaves ==
    ASSUME NEW b \in BrokerStates, NEW m \in [t : Tiles, ver : Nat, content : Nat]
    PROVE  Saves(b, SaveTileAndNotify(b, m), {m})
  <1> DEFINE t == m.t
             Told(s) == EnqueueTile(b.client[s], t, m.content, m.content)
             cache2 == [b.cache EXCEPT ![t] = IF Persistent THEN m.content ELSE b.cache[t]]
             client2 == [s \in Clients |-> IF Subscribed(b, s, t) THEN Told(s) ELSE b.client[s]]
             c == [b EXCEPT !.cache = cache2, !.client = client2]
  <1>1. t \in Tiles /\ m.content \in Nat
    OBVIOUS
  <1>2. SaveTileAndNotify(b, m) \in {c, ForgetTileBeingRendered(c, t)}
    <2>1. c = [b EXCEPT !.cache[t] = IF Persistent THEN m.content ELSE @,
                        !.client = [s \in Clients |->
                                      IF Subscribed(b, s, t)
                                      THEN EnqueueTile(@[s], t, m.content, m.content)
                                      ELSE @[s]]]
      BY BrokerIs
    <2> HIDE DEF c
    <2> QED BY <2>1 DEF SaveTileAndNotify
  <1> HIDE DEF t
  <1>3. ASSUME NEW s \in Clients
        PROVE  /\ client2[s] \in ClientStates
               /\ client2[s].rendering = b.client[s].rendering
    <2>1. b.client[s] \in ClientStates
      BY BrokerIs
    <2>2. Told(s) \in ClientStates /\ Told(s).rendering = b.client[s].rendering
      BY <1>1, <2>1, EnqueueTileIs
    <2> HIDE DEF Told
    <2> QED BY <2>1, <2>2
  <1>4. client2 \in [Clients -> ClientStates]
    BY <1>3
  <1>5. /\ cache2 \in [Tiles -> Nat]
        /\ \A u \in Tiles : cache2[u] = b.cache[u] \/ (u = t /\ cache2[u] = m.content)
    BY <1>1, BrokerIs
  <1> HIDE DEF cache2, client2
  <1>6. /\ c \in BrokerStates /\ c.cache = cache2 /\ c.queue = b.queue
        /\ c.tbr = b.tbr /\ c.client = client2
    BY <1>4, <1>5 DEF BrokerStates
  <1> HIDE DEF c
  <1>7. Counts(b) => Counts(c)
    BY <1>3, <1>6, CountsAlike
  <1>8. Saves(b, c, {m})
    BY <1>5, <1>6, <1>7 DEF Saves, t
  <1>9. Saves(c, ForgetTileBeingRendered(c, t), {})
    BY <1>1, <1>6, ForgetSaves
  <1>10. Saves(b, ForgetTileBeingRendered(c, t), {m})
    BY <1>8, <1>9 DEF Saves
  <1> QED BY <1>2, <1>8, <1>10

LEMMA SavesOn ==
    ASSUME NEW a, NEW b, NEW c, NEW x, NEW y, NEW z, Saves(a, b, x), Saves(b, c, y),
           x \subseteq z, y \subseteq z
    PROVE  Saves(a, c, z)
  BY DEF Saves

LEMMA SavesSelf == ASSUME NEW b \in BrokerStates, NEW x PROVE Saves(b, b, x)
  BY DEF Saves

LEMMA SaveTilesTurns ==
    ASSUME NEW b \in BrokerStates, NEW images \in Seq(Images)
    PROVE  \E k : /\ SaveTiles(b, images) = k[Len(images)] /\ k[0] = b
                  /\ \A i \in 1..Len(images) : k[i] = SaveTileAndNotify(k[i - 1], images[i])
                  /\ \A i \in 0..Len(images) : Saves(b, k[i], Elements(images))
  <1> DEFINE n == Len(images)
             S == {c \in BrokerStates : Saves(b, c, Elements(images))}
             Turn(c, i) == SaveTileAndNotify(c, images[i])
             step == [i \in 1..n |-> [c \in S |-> Turn(c, i)]]
             Right(f) == f = [i \in 0..n |-> IF i = 0 THEN b ELSE Turn(f[i - 1], i)]
             k == CHOOSE f : Right(f)
  <1>1. n \in Nat /\ \A i \in 1..n : images[i] \in Images
    OBVIOUS
  <1>2. ASSUME NEW i \in 1..n, NEW c \in S PROVE Turn(c, i) \in S
    <2>1. c \in BrokerStates /\ Saves(b, c, Elements(images))
      OBVIOUS
    <2>2. Saves(c, Turn(c, i), {images[i]})
      BY <1>1, <2>1, SaveTileSaves DEF Images
    <2>3. {images[i]} \subseteq Elements(images)
      BY ElementsAre
    <2>4. Saves(b, Turn(c, i), Elements(images))
      BY <2>1, <2>2, <2>3, SavesOn
    <2>5. Turn(c, i) \in BrokerStates
      BY <2>2 DEF Saves
    <2> QED BY <2>4, <2>5
  <1>3. b \in S
    BY SavesSelf
  <1>4. SaveTiles(b, images) = k[n]
    BY DEF SaveTiles
  <1> HIDE DEF Turn
  <1>5. PICK f : f \in Iterations(n, S, b, step)
    <2>1. step \in [1..n -> [S -> S]]
      BY <1>2
    <2> HIDE DEF step, S
    <2> QED BY <1>1, <1>3, <2>1, IterationExists
  <1>6. /\ f \in [0..n -> S] /\ f[0] = b
        /\ \A i \in 1..n : f[i] = step[i][f[i - 1]]
    BY <1>5 DEF Iterations
  <1> HIDE DEF S
  <1>7. \A i \in 1..n : f[i] = Turn(f[i - 1], i)
    <2> TAKE i \in 1..n
    <2>1. f[i - 1] \in S
      BY <1>1, <1>6, i - 1 \in 0..n
    <2> QED BY <1>6, <2>1
  <1>8. Right(f)
    <2>1. \A i \in 0..n : i = 0 \/ i \in 1..n
      BY <1>1
    <2> QED BY <1>6, <1>7, <2>1, Zenon
  <1>9. Right(k)
    <2> HIDE DEF Right
    <2> QED BY <1>8
  <1> HIDE DEF k
  <1>10. k[0] = b /\ \A i \in 1..n : k[i] = Turn(k[i - 1], i)
    <2>1. k[0] = b
      BY <1>1, <1>9, 0 \in 0..n
    <2>2. ASSUME NEW i \in 1..n PROVE k[i] = Turn(k[i - 1], i)
      BY <1>1, <1>9, i \in 0..n, i # 0
    <2> QED BY <2>1, <2>2
  <1> DEFINE T == {i \in 0..n : k[i] \in S}
  <1>11. 0 \in T /\ \A i \in 1..n : i - 1 \in T => i \in T
    BY <1>1, <1>2, <1>3, <1>10
  <1> HIDE DEF T
  <1>12. 0..n \subseteq T
    BY <1>1, <1>11, TurnByTurn
  <1>13. \A i \in 0..n : Saves(b, k[i], Elements(images))
    BY <1>12 DEF T, S
  <1> QED BY <1>4, <1>10, <1>13 DEF Turn

LEMMA SaveTilesSaves ==
    ASSUME NEW b \in BrokerStates, NEW images \in Seq(Images)
    PROVE  Saves(b, SaveTiles(b, images), Elements(images))
  <1>1. PICK k : /\ SaveTiles(b, images) = k[Len(images)]
                 /\ \A i \in 0..Len(images) : Saves(b, k[i], Elements(images))
    BY SaveTilesTurns
  <1>2. Len(images) \in 0..Len(images)
    OBVIOUS
  <1> QED BY <1>1, <1>2

-----------------------------------------------------------------------------
(* Invalidations from the kit.                                             *)

LEMMA InOrderIs == ASSUME NEW ts PROVE InOrder(ts) \in Seq(Tiles)
  <1> DEFINE all == [i \in 1..TileCount |-> i - 1]
  <1>1. all \in Seq(Tiles)
    BY TilesAssumption DEF Tiles
  <1> HIDE DEF all
  <1>2. InOrder(ts) = Kept(all, {t + 1 : t \in ts})
    BY DEF InOrder, all
  <1> QED BY <1>1, <1>2, KeptIs

LEMMA InvalidatedIs ==
    ASSUME NEW b \in BrokerStates, NEW ts
    PROVE  /\ Invalidated(b, ts) \in BrokerStates
           /\ Invalidated(b, ts).queue = b.queue
           /\ \A t \in Tiles : Invalidated(b, ts).cache[t] = IF t \in ts THEN NoTile ELSE b.cache[t]
           /\ \A s \in Clients : Invalidated(b, ts).client[s] = b.client[s]
           /\ Counts(b) => Counts(Invalidated(b, ts))
  <1> DEFINE cache2 == [t \in Tiles |-> IF t \in ts THEN NoTile ELSE b.cache[t]]
             c == [b EXCEPT !.cache = cache2]
  <1>1. Invalidated(b, ts) = c
    BY DEF Invalidated
  <1>2. cache2 \in [Tiles -> Nat]
    BY BrokerIs DEF NoTile
  <1>3. \A t \in Tiles : cache2[t] = IF t \in ts THEN NoTile ELSE b.cache[t]
    OBVIOUS
  <1> HIDE DEF cache2
  <1>4. /\ c \in BrokerStates /\ c.cache = cache2 /\ c.queue = b.queue
        /\ c.tbr = b.tbr /\ c.client = b.client
    BY <1>2 DEF BrokerStates
  <1> HIDE DEF c
  <1>5. Counts(b) => Counts(c)
    BY <1>4, CountsAlike
  <1> QED BY <1>1, <1>3, <1>4, <1>5

\* The tiles leave the cache, and asking for them again changes nothing more of it.
LEMMA HandleTileInvalidationIs ==
    ASSUME NEW b \in BrokerStates, NEW s \in Clients, NEW ts, NEW outdated, NEW stalled
    PROVE  LET c == HandleTileInvalidation(b, s, ts, outdated, stalled)
           IN /\ c \in BrokerStates
              /\ Touched(c.queue) = Touched(b.queue)
              /\ \A t \in Tiles : c.cache[t] = IF t \in ts THEN NoTile ELSE b.cache[t]
              /\ Counts(b) => Counts(c)
  <1> DEFINE c == HandleTileInvalidation(b, s, ts, outdated, stalled)
             a == Invalidated(b, ts)
             visible == InOrder(ts \ Previews)
             wids == b.client[s].wids
  <1>1. c \in {a, HandleTileCombinedRequest(a, s, visible, wids, outdated, stalled)}
    BY DEF HandleTileInvalidation
  <1>2. /\ a \in BrokerStates /\ a.queue = b.queue
        /\ \A t \in Tiles : a.cache[t] = IF t \in ts THEN NoTile ELSE b.cache[t]
        /\ Counts(b) => Counts(a)
    BY InvalidatedIs
  <1>3. visible \in Seq(Tiles) /\ wids \in [Tiles -> Nat]
    BY InOrderIs, BrokerIs, ClientIs
  <1> HIDE DEF c, a, visible, wids
  <1>4. Serves(a, c)
    <2>1. Serves(a, HandleTileCombinedRequest(a, s, visible, wids, outdated, stalled))
      BY <1>2, <1>3, HandleTileCombinedRequestServes
    <2> QED BY <1>1, <1>2, <2>1, ServesSelf
  <1>5. /\ c \in BrokerStates /\ Touched(c.queue) = Touched(b.queue)
        /\ \A t \in Tiles : c.cache[t] = IF t \in ts THEN NoTile ELSE b.cache[t]
        /\ Counts(b) => Counts(c)
    BY <1>2, <1>4 DEF Serves
  <1> QED BY <1>5 DEF c

-----------------------------------------------------------------------------
(* Steps that serve requests: of the clients.                              *)

LEMMA TypesAre ==
    ASSUME TypeOK
    PROVE  /\ Broker \in BrokerStates
           /\ Broker.ver = tileVersion /\ Broker.cache = cache /\ Broker.tbr = tbr
           /\ Broker.client = client /\ Broker.queue = queue
           /\ cache \in [Tiles -> Nat] /\ client \in [Clients -> ClientStates]
           /\ queue \in Seq(KitMessages)
           /\ content \in [Tiles -> Contents]
           /\ active \in SUBSET Clients /\ missed \in SUBSET Clients
           /\ skipped \in SUBSET TileRequests
           /\ fromKit \in Seq(FromKitMessages)
           /\ screen \in [Clients -> [Tiles -> Nat]]
           /\ acks \in [Clients -> Seq(Tiles)]
  <1>1. /\ Broker \in BrokerStates
        /\ Broker.ver = tileVersion /\ Broker.cache = cache /\ Broker.tbr = tbr
        /\ Broker.client = client /\ Broker.queue = queue
    BY DEF TypeOK, Broker
  <1>2. /\ cache \in [Tiles -> Nat] /\ client \in [Clients -> ClientStates]
        /\ queue \in Seq(KitMessages)
    BY <1>1, BrokerIs
  <1> QED BY <1>1, <1>2 DEF TypeOK

LEMMA BrokerBecomesIs ==
    ASSUME NEW c \in BrokerStates, BrokerBecomes(c)
    PROVE  /\ Broker' = c
           /\ cache' = c.cache /\ client' = c.client /\ queue' = c.queue
  BY BrokerIs DEF BrokerBecomes, Broker

LEMMA BrokerStays ==
    ASSUME TypeOK, UNCHANGED brokerVars, UNCHANGED queue
    PROVE  Broker' = Broker
  BY DEF brokerVars, Broker

ServeStep == Serves(Broker, Broker') /\ UNCHANGED <<content, missed, fromKit>>

LEMMA BrokerServes ==
    ASSUME NEW c, Serves(Broker, c), BrokerBecomes(c)
    PROVE  Broker' \in BrokerStates /\ Serves(Broker, Broker')
  <1>1. c \in BrokerStates
    BY DEF Serves
  <1> QED BY <1>1, BrokerBecomesIs

LEMMA ClientRequestIs ==
    ASSUME TypeOK, ClientRequest
    PROVE  /\ requests' \in 0..MaxRequests
           /\ UNCHANGED <<content, active, missed, skipped, fromKit, screen, acks, edits, cancelled>>
  BY BoundsAssumption DEF TypeOK, ClientRequest, kitVars, clientVars

\* What a request leaves to be shown.
LEMMA RequestServes ==
    ASSUME TypeOK, ClientRequest, Broker' \in BrokerStates, Serves(Broker, Broker')
    PROVE  TypeOK' /\ ServeStep
  BY ClientRequestIs DEF TypeOK, ServeStep

LEMMA ClientTileServes ==
    ASSUME TypeOK, NEW s \in Clients, NEW t \in Tiles, NEW broadcast \in BOOLEAN,
           ClientTile(s, t, broadcast)
    PROVE  TypeOK' /\ ServeStep
  <1>1. PICK stalled \in Stalled : BrokerBecomes(HandleTileRequest(Broker, s, t, broadcast, stalled))
    BY DEF ClientTile
  <1>2. PICK c : c = HandleTileRequest(Broker, s, t, broadcast, stalled)
    OBVIOUS
  <1>3. Serves(Broker, c)
    BY <1>2, TypesAre, HandleTileRequestServes
  <1>4. Broker' \in BrokerStates /\ Serves(Broker, Broker')
    BY <1>1, <1>2, <1>3, BrokerServes
  <1> QED BY <1>4, RequestServes DEF ClientTile

LEMMA ClientTileCombineServes ==
    ASSUME TypeOK, NEW s \in Clients, NEW ts, ClientTileCombine(s, ts)
    PROVE  TypeOK' /\ ServeStep
  <1> DEFINE none == [t \in Tiles |-> 0]
  <1>1. PICK outdated \in Outdated(s), stalled \in Stalled :
          BrokerBecomes(HandleTileCombinedRequest(Broker, s, InOrder(ts), none, outdated, stalled))
    BY DEF ClientTileCombine
  <1>2. PICK c : c = HandleTileCombinedRequest(Broker, s, InOrder(ts), none, outdated, stalled)
    OBVIOUS
  <1>3. none \in [Tiles -> Nat] /\ InOrder(ts) \in Seq(Tiles)
    BY InOrderIs
  <1> HIDE DEF none
  <1>4. Serves(Broker, c)
    BY <1>2, <1>3, TypesAre, HandleTileCombinedRequestServes
  <1>5. Broker' \in BrokerStates /\ Serves(Broker, Broker')
    BY <1>1, <1>2, <1>4, BrokerServes
  <1> QED BY <1>5, RequestServes DEF ClientTileCombine

LEMMA ClientCancelTilesServes ==
    ASSUME TypeOK, NEW s \in Clients, ClientCancelTiles(s)
    PROVE  TypeOK' /\ ServeStep
  <1>1. PICK c : c = CancelTileRequests(Broker, s)
    OBVIOUS
  <1>2. Serves(Broker, c)
    BY <1>1, TypesAre, CancelTileRequestsServes
  <1>3. Broker' \in BrokerStates /\ Serves(Broker, Broker')
    BY <1>1, <1>2, BrokerServes DEF ClientCancelTiles
  <1>4. /\ cancelled' \subseteq Cancellers
        /\ UNCHANGED <<content, active, missed, skipped, fromKit, screen, acks, edits, requests>>
    BY DEF TypeOK, ClientCancelTiles, kitVars, clientVars
  <1> QED BY <1>3, <1>4 DEF TypeOK, ServeStep

LEMMA ClientMovesServes ==
    ASSUME TypeOK, NEW s \in Clients, ClientMoves(s)
    PROVE  TypeOK' /\ ServeStep
  <1> DEFINE x == [client[s] EXCEPT !.wids = [t \in Tiles |-> 0]]
             c == [Broker EXCEPT !.client[s] = x]
  <1>1. client[s] \in ClientStates /\ x \in ClientStates /\ x.rendering = client[s].rendering
    <2>1. client[s] \in ClientStates /\ [t \in Tiles |-> 0] \in [Tiles -> Nat]
      BY TypesAre
    <2> QED BY <2>1 DEF ClientStates
  <1>2. client' = [client EXCEPT ![s] = x]
    BY DEF ClientMoves
  <1> HIDE DEF x
  <1>3. PICK d : d = c
    OBVIOUS
  <1>4. Broker' = d
    BY <1>2, <1>3 DEF ClientMoves, Broker
  <1>5. Serves(Broker, d)
    BY <1>1, <1>3, TypesAre, ClientBecomes
  <1>6. Broker' \in BrokerStates /\ Serves(Broker, Broker')
    BY <1>4, <1>5 DEF Serves
  <1> QED BY <1>6, RequestServes DEF ClientMoves

LEMMA ClientTurnsServes ==
    ASSUME TypeOK, NEW s \in Clients, NEW on \in BOOLEAN, ClientTurns(s, on)
    PROVE  TypeOK' /\ ServeStep
  <1> DEFINE m == Activity(s, on)
  <1>1. PICK q : q = Append(queue, m)
    OBVIOUS
  <1>2. m \in KitMessages /\ m.k = "activity"
    BY DEF Activity, KitMessages
  <1> HIDE DEF m
  <1>3. q \in Seq(KitMessages) /\ Elements(q) = Elements(queue) \cup {m}
    BY <1>1, <1>2, TypesAre, ElementsAppend
  <1>4. Touched(q) = Touched(queue)
    BY <1>2, <1>3, OnlyRectanglesTouch
  <1>5. PICK d : d = [Broker EXCEPT !.queue = q]
    OBVIOUS
  <1>6. Serves(Broker, d)
    BY <1>3, <1>4, <1>5, TypesAre, QueueBecomes
  <1>7. Broker' = d
    BY <1>1, <1>5 DEF ClientTurns, Broker, brokerVars, m
  <1>8. Broker' \in BrokerStates /\ Serves(Broker, Broker')
    BY <1>6, <1>7 DEF Serves
  <1> QED BY <1>8, RequestServes DEF ClientTurns

LEMMA ClientDrawsServes ==
    ASSUME TypeOK, NEW s \in Clients, ClientDraws(s)
    PROVE  TypeOK' /\ ServeStep
  <1> DEFINE out == client[s].out
             x == [client[s] EXCEPT !.out = Tail(out)]
             c == [Broker EXCEPT !.client[s] = x]
  <1>1. client[s] \in ClientStates /\ out \in Seq(TilesToSend) /\ out # <<>>
    BY TypesAre, ClientIs DEF ClientDraws
  <1>2. Head(out) \in TilesToSend /\ Tail(out) \in Seq(TilesToSend)
    BY <1>1, ElementsTail
  <1>3. Head(out).t \in Tiles /\ Head(out).content \in Nat
    BY <1>2 DEF TilesToSend
  <1>4. x \in ClientStates /\ x.rendering = client[s].rendering
    BY <1>1, <1>2 DEF ClientStates
  <1>5. client' = [client EXCEPT ![s] = x]
    BY DEF ClientDraws
  <1> HIDE DEF x
  <1>6. PICK d : d = c
    OBVIOUS
  <1>7. Broker' = d
    BY <1>5, <1>6 DEF ClientDraws, Broker
  <1>8. Serves(Broker, d)
    BY <1>4, <1>6, TypesAre, ClientBecomes
  <1>9. Broker' \in BrokerStates /\ Serves(Broker, Broker')
    BY <1>7, <1>8 DEF Serves
  <1>10. /\ screen' = [screen EXCEPT ![s][Head(out).t] = Head(out).content]
         /\ acks' = [acks EXCEPT ![s] = Append(@, Head(out).t)]
         /\ UNCHANGED <<content, active, missed, skipped, fromKit, edits, requests, cancelled>>
    BY DEF ClientDraws, kitVars, bounds
  <1> HIDE DEF out
  <1>11. screen' \in [Clients -> [Tiles -> Nat]] /\ acks' \in [Clients -> Seq(Tiles)]
    BY <1>3, <1>10, TypesAre
  <1> QED BY <1>9, <1>10, <1>11 DEF TypeOK, ServeStep

LEMMA ClientTileProcessedServes ==
    ASSUME TypeOK, NEW s \in Clients, ClientTileProcessed(s)
    PROVE  TypeOK' /\ ServeStep
  <1>1. PICK outdated \in Outdated(s), stalled \in Stalled :
          BrokerBecomes(TileProcessed(Broker, s, Head(acks[s]), outdated, stalled))
    BY DEF ClientTileProcessed
  <1>2. PICK c : c = TileProcessed(Broker, s, Head(acks[s]), outdated, stalled)
    OBVIOUS
  <1>3. Serves(Broker, c)
    BY <1>2, TypesAre, TileProcessedServes
  <1>4. Broker' \in BrokerStates /\ Serves(Broker, Broker')
    BY <1>1, <1>2, <1>3, BrokerServes
  <1>5. /\ acks' = [acks EXCEPT ![s] = Tail(@)] /\ acks[s] # <<>>
        /\ UNCHANGED <<content, active, missed, skipped, fromKit, screen, edits, requests, cancelled>>
    BY DEF ClientTileProcessed, kitVars, bounds
  <1>6. acks' \in [Clients -> Seq(Tiles)]
    <2>1. acks[s] \in Seq(Tiles)
      BY TypesAre
    <2>2. Tail(acks[s]) \in Seq(Tiles)
      BY <1>5, <2>1, ElementsTail
    <2> QED BY <1>5, <2>2, TypesAre
  <1> QED BY <1>4, <1>5, <1>6 DEF TypeOK, ServeStep

LEMMA ClientStepServes ==
    ASSUME TypeOK, NEW s \in Clients, ClientStep(s)
    PROVE  TypeOK' /\ ServeStep
  <1>1. CASE \E t \in Tiles, broadcast \in BOOLEAN : ClientTile(s, t, broadcast)
    BY <1>1, ClientTileServes
  <1>2. CASE \E ts \in SUBSET (Tiles \ Previews) \ {{}} : ClientTileCombine(s, ts)
    BY <1>2, ClientTileCombineServes
  <1>3. CASE \E on \in BOOLEAN : ClientTurns(s, on)
    BY <1>3, ClientTurnsServes
  <1>4. CASE ClientCancelTiles(s)
    BY <1>4, ClientCancelTilesServes
  <1>5. CASE ClientMoves(s)
    BY <1>5, ClientMovesServes
  <1>6. CASE ClientDraws(s)
    BY <1>6, ClientDrawsServes
  <1>7. CASE ClientTileProcessed(s)
    BY <1>7, ClientTileProcessedServes
  <1> QED BY <1>1, <1>2, <1>3, <1>4, <1>5, <1>6, <1>7 DEF ClientStep

-----------------------------------------------------------------------------
(* What is outdated is followed by the news of it.                         *)

\* s has still to hear that t has changed, in a message behind place i of the
\* kit's.
Pending(s, t, i) ==
    \/ s \in missed
    \/ t \in Touched(queue)
    \/ \E l \in 1..Len(fromKit) : /\ l > i
                                  /\ fromKit[l].k = "invalidatetiles"
                                  /\ fromKit[l].s = s /\ t \in fromKit[l].ts

\* An image on its way that is outdated is followed by an invalidation for each
\* session.
ImagesAreFollowed ==
    \A i \in 1..Len(fromKit) : fromKit[i].k = "tiles" =>
        \A m \in Elements(fromKit[i].tiles) : m.content # content[m.t] =>
            \A s \in Clients : Pending(s, m.t, i)

CachedAreFollowed ==
    \A t \in Tiles : cache[t] \notin {NoTile, content[t]} => \A s \in Clients : Pending(s, t, 0)

Followed == ImagesAreFollowed /\ CachedAreFollowed

LEMMA FromKitIs ==
    ASSUME NEW m \in FromKitMessages
    PROVE  /\ m.k \in {"tiles", "invalidatetiles"}
           /\ m.k = "tiles" => m.tiles \in Seq(Images)
           /\ m.k = "invalidatetiles" => m.s \in Clients /\ m.ts \in SUBSET Tiles
  BY DEF FromKitMessages

LEMMA ImageIs ==
    ASSUME NEW m \in Images
    PROVE  m.t \in Tiles /\ m.ver \in Nat /\ m.content \in Nat
  BY DEF Images

\* Requests that are served leave it so.
LEMMA FollowedWhenServed ==
    ASSUME TypeOK, Followed, ServeStep
    PROVE  Followed'
  <1>1. /\ UNCHANGED <<content, missed, fromKit>> /\ cache' = cache
        /\ Touched(queue') = Touched(queue)
    <2>1. Broker'.cache = cache' /\ Broker'.queue = queue'
      BY DEF Broker
    <2> QED BY <2>1, TypesAre DEF ServeStep, Serves
  <1>2. \A s, t, i : Pending(s, t, i)' <=> Pending(s, t, i)
    BY <1>1 DEF Pending
  <1>3. ImagesAreFollowed'
    BY <1>1, <1>2 DEF Followed, ImagesAreFollowed
  <1>4. CachedAreFollowed'
    BY <1>1, <1>2 DEF Followed, CachedAreFollowed
  <1> QED BY <1>3, <1>4 DEF Followed

LEMMA FollowedWhenUnchanged ==
    ASSUME Followed, UNCHANGED <<cache, queue, content, missed, fromKit>>
    PROVE  Followed'
  BY DEF Followed, ImagesAreFollowed, CachedAreFollowed, Pending

LEMMA PendingWhenSent ==
    ASSUME TypeOK, NEW more \in Seq(FromKitMessages), fromKit' = fromKit \o more,
           \A s \in Clients, t \in Tiles :
               s \in missed \/ t \in Touched(queue) =>
                   \/ s \in missed' \/ t \in Touched(queue')
                   \/ \E m \in Elements(more) :
                        m.k = "invalidatetiles" /\ m.s = s /\ t \in m.ts
    PROVE  \A s \in Clients, t \in Tiles, i \in 0..Len(fromKit) :
               Pending(s, t, i) => Pending(s, t, i)'
  <1> DEFINE n == Len(fromKit)
  <1>1. /\ n \in Nat /\ Len(more) \in Nat
        /\ Len(fromKit') = n + Len(more)
        /\ \A l \in 1..n : fromKit'[l] = fromKit[l]
        /\ \A l \in 1..Len(more) : fromKit'[n + l] = more[l]
    BY TypesAre
  <1> HIDE DEF n
  <1>2. ASSUME NEW s \in Clients, NEW t \in Tiles, NEW i \in 0..n, Pending(s, t, i)
        PROVE  Pending(s, t, i)'
    <2>1. CASE s \in missed \/ t \in Touched(queue)
      <3>1. CASE s \in missed' \/ t \in Touched(queue')
        BY <3>1 DEF Pending
      <3>2. CASE \E m \in Elements(more) : m.k = "invalidatetiles" /\ m.s = s /\ t \in m.ts
        <4>1. PICK l \in 1..Len(more) :
                more[l].k = "invalidatetiles" /\ more[l].s = s /\ t \in more[l].ts
          BY <3>2 DEF Elements
        <4>2. n + l \in 1..Len(fromKit') /\ n + l > i /\ fromKit'[n + l] = more[l]
          BY <1>1
        <4> QED BY <4>1, <4>2 DEF Pending
      <3> QED BY <2>1, <3>1, <3>2
    <2>2. CASE ~(s \in missed \/ t \in Touched(queue))
      <3>1. PICK l \in 1..n : /\ l > i /\ fromKit[l].k = "invalidatetiles"
                              /\ fromKit[l].s = s /\ t \in fromKit[l].ts
        BY <1>2, <2>2 DEF Pending, n
      <3>2. l \in 1..Len(fromKit') /\ fromKit'[l] = fromKit[l]
        BY <1>1
      <3> QED BY <3>1, <3>2 DEF Pending
    <2> QED BY <2>1, <2>2
  <1> QED BY <1>2 DEF n

\* The kit sends: images as the document is now, and what it hands on of the
\* invalidations goes to each session or is remembered for it.
LEMMA FollowedWhenSent ==
    ASSUME TypeOK, Followed, NEW more \in Seq(FromKitMessages), fromKit' = fromKit \o more,
           UNCHANGED <<cache, content>>,
           \A s \in Clients, t \in Tiles :
               s \in missed \/ t \in Touched(queue) =>
                   \/ s \in missed' \/ t \in Touched(queue')
                   \/ \E m \in Elements(more) :
                        m.k = "invalidatetiles" /\ m.s = s /\ t \in m.ts,
           \A m \in Elements(more) :
               m.k = "tiles" => \A r \in Elements(m.tiles) : r.content = content[r.t]
    PROVE  Followed'
  <1> DEFINE n == Len(fromKit)
  <1>1. /\ n \in Nat /\ Len(more) \in Nat
        /\ Len(fromKit') = n + Len(more)
        /\ \A l \in 1..n : fromKit'[l] = fromKit[l]
        /\ \A l \in 1..Len(more) : fromKit'[n + l] = more[l]
    BY TypesAre
  <1> HIDE DEF n
  <1>2. \A s \in Clients, t \in Tiles, i \in 0..n : Pending(s, t, i) => Pending(s, t, i)'
    BY PendingWhenSent DEF n
  <1>3. ImagesAreFollowed'
    <2> SUFFICES ASSUME NEW i \in 1..Len(fromKit'), fromKit'[i].k = "tiles",
                        NEW m \in Elements(fromKit'[i].tiles), m.content # content'[m.t],
                        NEW s \in Clients
                 PROVE  Pending(s, m.t, i)'
      BY DEF ImagesAreFollowed
    <2>1. i \in 1..n
      <3> SUFFICES ASSUME i \notin 1..n PROVE FALSE
        OBVIOUS
      <3>1. i - n \in 1..Len(more) /\ n + (i - n) = i
        BY <1>1
      <3>2. fromKit'[i] = more[i - n]
        BY <1>1, <3>1
      <3>3. fromKit'[i] \in Elements(more)
        BY <3>1, <3>2 DEF Elements
      <3> QED BY <3>3
    <2>2. fromKit'[i] = fromKit[i] /\ i \in 1..Len(fromKit)
      BY <1>1, <2>1 DEF n
    <2>3. m.t \in Tiles
      <3>1. fromKit[i].tiles \in Seq(Images)
        BY <2>2, TypesAre, FromKitIs
      <3>2. m \in Images
        BY <2>2, <3>1, ElementsAre
      <3> QED BY <3>2, ImageIs
    <2>4. Pending(s, m.t, i)
      BY <2>2 DEF Followed, ImagesAreFollowed
    <2> QED BY <1>1, <1>2, <2>1, <2>3, <2>4
  <1>4. CachedAreFollowed'
    <2> SUFFICES ASSUME NEW t \in Tiles, cache'[t] \notin {NoTile, content'[t]},
                        NEW s \in Clients
                 PROVE  Pending(s, t, 0)'
      BY DEF CachedAreFollowed
    <2>1. Pending(s, t, 0)
      BY DEF Followed, CachedAreFollowed
    <2> QED BY <1>1, <1>2, <2>1, 0 \in 0..n
  <1> QED BY <1>3, <1>4 DEF Followed

\* The first message of the kit goes.
LEMMA PendingBehindHead ==
    ASSUME TypeOK, fromKit # <<>>, fromKit' = Tail(fromKit), missed' = missed,
           Touched(queue') = Touched(queue)
    PROVE  /\ Len(fromKit') = Len(fromKit) - 1
           /\ \A i \in 1..Len(fromKit') : i + 1 \in 1..Len(fromKit) /\ fromKit'[i] = fromKit[i + 1]
           /\ \A i \in Nat : \A s, t : Pending(s, t, i + 1) => Pending(s, t, i)'
           /\ \A s, t : /\ Pending(s, t, 0)
                        /\ ~ (/\ fromKit[1].k = "invalidatetiles"
                              /\ fromKit[1].s = s /\ t \in fromKit[1].ts)
                        => Pending(s, t, 0)'
  <1>1. /\ Len(fromKit) \in Nat /\ Len(fromKit') = Len(fromKit) - 1
        /\ \A i \in 1..(Len(fromKit) - 1) : fromKit'[i] = fromKit[i + 1]
    BY TypesAre, ElementsTail
  <1>2. \A i \in 1..Len(fromKit') : i + 1 \in 1..Len(fromKit) /\ fromKit'[i] = fromKit[i + 1]
    BY <1>1
  <1>3. ASSUME NEW i \in Nat, NEW s, NEW t, Pending(s, t, i + 1)
        PROVE  Pending(s, t, i)'
    <2>1. CASE s \in missed \/ t \in Touched(queue)
      BY <2>1 DEF Pending
    <2>2. CASE ~(s \in missed \/ t \in Touched(queue))
      <3>1. PICK l \in 1..Len(fromKit) : /\ l > i + 1 /\ fromKit[l].k = "invalidatetiles"
                                         /\ fromKit[l].s = s /\ t \in fromKit[l].ts
        BY <1>3, <2>2 DEF Pending
      <3>2. l - 1 \in 1..Len(fromKit') /\ l - 1 > i /\ fromKit'[l - 1] = fromKit[l]
        BY <1>1, <3>1
      <3> QED BY <3>1, <3>2 DEF Pending
    <2> QED BY <2>1, <2>2
  <1>4. ASSUME NEW s, NEW t, Pending(s, t, 0),
               ~(fromKit[1].k = "invalidatetiles" /\ fromKit[1].s = s /\ t \in fromKit[1].ts)
        PROVE  Pending(s, t, 0)'
    <2>1. CASE s \in missed \/ t \in Touched(queue)
      BY <2>1 DEF Pending
    <2>2. CASE ~(s \in missed \/ t \in Touched(queue))
      <3>1. PICK l \in 1..Len(fromKit) : /\ fromKit[l].k = "invalidatetiles"
                                         /\ fromKit[l].s = s /\ t \in fromKit[l].ts
        BY <1>4, <2>2 DEF Pending
      <3>2. l # 1
        BY <1>4, <3>1
      <3>3. l - 1 \in 1..Len(fromKit') /\ l - 1 > 0 /\ fromKit'[l - 1] = fromKit[l]
        BY <1>1, <3>1, <3>2
      <3> QED BY <3>1, <3>3 DEF Pending
    <2> QED BY <2>1, <2>2
  <1> QED BY <1>1, <1>2, <1>3, <1>4

-----------------------------------------------------------------------------
(* Steps of the kit.                                                       *)

LEMMA KitInvalidatesFollowed ==
    ASSUME TypeOK, Followed, NEW t \in Tiles, NEW c \in Contents, KitInvalidates(t, c)
    PROVE  TypeOK' /\ Followed' /\ Broker'.client = client /\ Broker'.tbr = tbr
  <1>1. /\ queue' \in PutInvalidation(queue, {t})
        /\ content' = [content EXCEPT ![t] = c]
        /\ edits' = edits + 1 /\ edits < MaxEdits
        /\ UNCHANGED <<tileVersion, cache, tbr, client, active, missed, skipped, fromKit, screen, acks,
                       requests, cancelled>>
    BY DEF KitInvalidates, brokerVars, clientVars
  <1>2. queue' \in Seq(KitMessages) /\ Touched(queue') = Touched(queue) \cup {t}
    <2>1. PICK ts \in SUBSET Tiles : ts = {t}
      OBVIOUS
    <2>2. queue \in Seq(KitMessages) /\ queue' \in PutInvalidation(queue, ts)
      BY <1>1, <2>1, TypesAre
    <2>3. queue' \in Seq(KitMessages) /\ Touched(queue') = Touched(queue) \cup ts
      BY <2>2, PutInvalidationIs
    <2> QED BY <2>1, <2>3
  <1>3. TypeOK'
    <2>1. Broker' \in BrokerStates
      BY <1>1, <1>2, TypesAre DEF Broker, BrokerStates
    <2>2. content' \in [Tiles -> Contents]
      BY <1>1, TypesAre
    <2>3. edits' \in 0..MaxEdits
      BY <1>1, BoundsAssumption DEF TypeOK
    <2> QED BY <1>1, <2>1, <2>2, <2>3 DEF TypeOK
  <1>4. \A s, u, i : (Pending(s, u, i) \/ u = t) => Pending(s, u, i)'
    BY <1>1, <1>2 DEF Pending
  <1>5. \A u \in Tiles : u # t => content'[u] = content[u]
    BY <1>1, TypesAre
  <1>6. ImagesAreFollowed'
    <2> SUFFICES ASSUME NEW i \in 1..Len(fromKit'), fromKit'[i].k = "tiles",
                        NEW m \in Elements(fromKit'[i].tiles), m.content # content'[m.t],
                        NEW s \in Clients
                 PROVE  Pending(s, m.t, i)'
      BY DEF ImagesAreFollowed
    <2>1. i \in 1..Len(fromKit) /\ fromKit'[i] = fromKit[i]
      BY <1>1
    <2>2. m.t \in Tiles
      <3>1. fromKit[i].tiles \in Seq(Images)
        BY <2>1, TypesAre, FromKitIs
      <3>2. m \in Images
        BY <2>1, <3>1, ElementsAre
      <3> QED BY <3>2, ImageIs
    <2>3. CASE m.t # t
      BY <1>4, <1>5, <2>1, <2>2, <2>3 DEF Followed, ImagesAreFollowed
    <2> QED BY <1>4, <2>3
  <1>7. CachedAreFollowed'
    BY <1>1, <1>4, <1>5 DEF Followed, CachedAreFollowed
  <1> QED BY <1>1, <1>3, <1>6, <1>7 DEF Followed, Broker

\* "invalidatetiles:" goes to each of the sessions.
LEMMA InvalidateTilesIs ==
    ASSUME NEW ss \in SUBSET Clients, NEW ts \in SUBSET Tiles
    PROVE  /\ InvalidateTiles(ss, ts) \in Seq(FromKitMessages)
           /\ \A s \in ss : \E m \in Elements(InvalidateTiles(ss, ts)) :
                               m.k = "invalidatetiles" /\ m.s = s /\ m.ts = ts
           /\ \A m \in Elements(InvalidateTiles(ss, ts)) : m.k = "invalidatetiles"
  <1> DEFINE all == SetToSeq(ss)
             Message(s) == [k |-> "invalidatetiles", s |-> s, ts |-> ts]
             r == [i \in 1..Len(all) |-> Message(all[i])]
  <1>1. IsFiniteSet(ss)
    BY ClientsAssumption, FS_Subset
  <1>2. all \in Seq(ss) /\ Elements(all) = ss
    BY <1>1, SetToSeqIs
  <1>3. InvalidateTiles(ss, ts) = r
    BY DEF InvalidateTiles
  <1> HIDE DEF all
  <1>4. \A s \in ss : /\ Message(s) \in FromKitMessages
                      /\ Message(s).k = "invalidatetiles" /\ Message(s).s = s /\ Message(s).ts = ts
    BY DEF FromKitMessages
  <1> HIDE DEF Message
  <1>5. /\ r \in Seq(FromKitMessages) /\ Len(r) = Len(all)
        /\ \A i \in 1..Len(all) : r[i] = Message(all[i]) /\ all[i] \in ss
    BY <1>2, <1>4
  <1> HIDE DEF r
  <1>6. ASSUME NEW s \in ss
        PROVE  \E m \in Elements(r) : m.k = "invalidatetiles" /\ m.s = s /\ m.ts = ts
    <2>1. PICK i \in 1..Len(all) : s = all[i]
      BY <1>2 DEF Elements
    <2>2. r[i] \in Elements(r) /\ r[i] = Message(s)
      BY <1>5, <2>1 DEF Elements
    <2> QED BY <1>4, <2>2
  <1>7. \A m \in Elements(r) : m.k = "invalidatetiles"
    BY <1>4, <1>5 DEF Elements
  <1> QED BY <1>3, <1>5, <1>6, <1>7

\* What a step of the kit's thread does to what it sends.
KitSends(more) ==
    /\ fromKit' = fromKit \o more
    /\ active' \subseteq Clients /\ missed' \subseteq Clients /\ skipped' \subseteq TileRequests
    /\ skipped \subseteq skipped' /\ (active \cap missed = {} => active' \cap missed' = {})
    /\ \A s \in Clients, t \in Tiles :
         s \in missed \/ t \in Touched(queue) =>
             \/ s \in missed' \/ t \in Touched(queue')
             \/ \E m \in Elements(more) : m.k = "invalidatetiles" /\ m.s = s /\ t \in m.ts
    /\ \A m \in Elements(more) :
         m.k = "tiles" => \A r \in Elements(m.tiles) : r.content = content[r.t]

\* Each of the requests is answered by an image, or skipped as unchanged.
Renders(reqs, more) ==
    \A r \in Elements(reqs) :
        \/ r \in skipped' /\ Unchanged(r)
        \/ \E m \in Elements(more) :
             m.k = "tiles" /\ \E x \in Elements(m.tiles) : x.t = r.t /\ x.ver = r.ver

LEMMA RenderTilesSends ==
    ASSUME TypeOK, NEW reqs \in Seq(TileRequests), RenderTiles(reqs),
           UNCHANGED <<active, missed>>, Touched(queue') = Touched(queue)
    PROVE  \E more \in Seq(FromKitMessages) : KitSends(more) /\ Renders(reqs, more)
  <1> DEFINE changed == Except(reqs, {i \in 1..Len(reqs) : Unchanged(reqs[i])})
             Image(r) == [t |-> r.t, ver |-> r.ver, content |-> content[r.t]]
             images == [i \in 1..Len(changed) |-> Image(changed[i])]
             message == [k |-> "tiles", tiles |-> images]
  <1>1. /\ fromKit' = IF images = <<>> THEN fromKit ELSE Append(fromKit, message)
        /\ skipped' = skipped \cup {reqs[i] : i \in {j \in 1..Len(reqs) : Unchanged(reqs[j])}}
    BY DEF RenderTiles
  <1>2. /\ changed \in Seq(TileRequests)
        /\ \A r \in Elements(reqs) : (r \in skipped' /\ Unchanged(r)) \/ r \in Elements(changed)
    <2>1. /\ changed \in Seq(TileRequests)
          /\ Elements(changed) = {reqs[i] : i \in (1..Len(reqs))
                                             \ {i \in 1..Len(reqs) : Unchanged(reqs[i])}}
      BY ExceptIs
    <2> HIDE DEF changed
    <2> QED BY <1>1, <2>1 DEF Elements
  <1> HIDE DEF changed
  <1>3. \A r \in TileRequests : /\ Image(r) \in Images
                                /\ Image(r).content = content[Image(r).t]
                                /\ Image(r).t = r.t /\ Image(r).ver = r.ver
    <2> TAKE r \in TileRequests
    <2>1. r.t \in Tiles /\ r.ver \in Nat
      BY RequestIs
    <2>2. content[r.t] \in Nat
      BY <2>1, TypesAre, ContentsAssumption
    <2> QED BY <2>1, <2>2 DEF Images
  <1> HIDE DEF Image
  <1>4. /\ images \in Seq(Images) /\ \A m \in Elements(images) : m.content = content[m.t]
        /\ \A r \in Elements(changed) : \E x \in Elements(images) : x.t = r.t /\ x.ver = r.ver
    <2>1. /\ images \in Seq(Images) /\ Len(images) = Len(changed)
          /\ \A i \in 1..Len(changed) : images[i] = Image(changed[i]) /\ changed[i] \in TileRequests
      BY <1>2, <1>3
    <2> HIDE DEF images
    <2> QED BY <1>3, <2>1 DEF Elements
  <1> HIDE DEF images
  <1>5. /\ message \in FromKitMessages /\ message.k = "tiles" /\ message.tiles = images
    BY <1>4 DEF FromKitMessages
  <1> HIDE DEF message
  <1>6. /\ active' \subseteq Clients /\ missed' \subseteq Clients /\ skipped' \subseteq TileRequests
        /\ skipped \subseteq skipped' /\ active' = active /\ missed' = missed
        /\ \A s \in Clients, t \in Tiles :
             s \in missed \/ t \in Touched(queue) => s \in missed' \/ t \in Touched(queue')
    <2>1. \A i \in 1..Len(reqs) : reqs[i] \in TileRequests
      OBVIOUS
    <2> QED BY <1>1, <2>1, TypesAre
  <1>7. CASE images = <<>>
    <2>1. <<>> \in Seq(FromKitMessages) /\ fromKit' = fromKit \o <<>>
      BY <1>1, <1>7, TypesAre
    <2>2. KitSends(<<>>)
      BY <1>6, <2>1, NoElements DEF KitSends
    <2>3. Renders(reqs, <<>>)
      BY <1>2, <1>4, <1>7, NoElements DEF Renders
    <2> QED BY <2>1, <2>2, <2>3
  <1>8. CASE images # <<>>
    <2>1. <<message>> \in Seq(FromKitMessages) /\ fromKit' = fromKit \o <<message>>
      BY <1>1, <1>5, <1>8, TypesAre
    <2>2. Elements(<<message>>) = {message}
      BY Len(<<message>>) = 1, <<message>>[1] = message DEF Elements
    <2>3. PICK more : more = <<message>>
      OBVIOUS
    <2>4. KitSends(more)
      BY <1>4, <1>5, <1>6, <2>1, <2>2, <2>3 DEF KitSends
    <2>5. Renders(reqs, more)
      BY <1>2, <1>4, <1>5, <2>2, <2>3 DEF Renders
    <2> QED BY <2>1, <2>3, <2>4, <2>5
  <1> QED BY <1>7, <1>8

LEMMA SendInvalidationsSends ==
    ASSUME TypeOK, NEW ts \in SUBSET Tiles, SendInvalidations(ts), UNCHANGED <<active, skipped>>,
           Touched(queue) \subseteq Touched(queue') \cup ts
    PROVE  \E more \in Seq(FromKitMessages) : KitSends(more)
  <1>1. PICK more : more = InvalidateTiles(active, ts)
    OBVIOUS
  <1>2. /\ more \in Seq(FromKitMessages)
        /\ \A s \in active : \E m \in Elements(more) :
                                m.k = "invalidatetiles" /\ m.s = s /\ m.ts = ts
        /\ \A m \in Elements(more) : m.k = "invalidatetiles"
    <2>1. active \in SUBSET Clients
      BY TypesAre
    <2> QED BY <1>1, <2>1, InvalidateTilesIs
  <1>3. fromKit' = fromKit \o more /\ missed' = missed \cup (Clients \ active)
    BY <1>1 DEF SendInvalidations
  <1>4. /\ active' \subseteq Clients /\ missed' \subseteq Clients /\ skipped' \subseteq TileRequests
        /\ skipped' = skipped /\ (active \cap missed = {} => active' \cap missed' = {})
    BY <1>3, TypesAre
  <1>5. ASSUME NEW s \in Clients, NEW t \in Tiles, s \in missed \/ t \in Touched(queue)
        PROVE  \/ s \in missed' \/ t \in Touched(queue')
               \/ \E m \in Elements(more) : m.k = "invalidatetiles" /\ m.s = s /\ t \in m.ts
    <2>1. CASE s \in missed \/ s \notin active \/ t \in Touched(queue')
      BY <1>3, <2>1
    <2>2. CASE s \in active /\ t \in ts
      BY <1>2, <2>2
    <2> QED BY <1>5, <2>1, <2>2
  <1>6. KitSends(more)
    BY <1>2, <1>3, <1>4, <1>5 DEF KitSends
  <1> QED BY <1>2, <1>6

LEMMA BecomesActiveSends ==
    ASSUME TypeOK, NEW s \in Clients, BecomesActive(s), UNCHANGED skipped, Touched(queue') = Touched(queue)
    PROVE  \E more \in Seq(FromKitMessages) : KitSends(more)
  <1> DEFINE ss == missed \cap {s}
  <1>1. PICK more : more = InvalidateTiles(ss, Tiles)
    OBVIOUS
  <1>2. /\ more \in Seq(FromKitMessages)
        /\ \A r \in ss : \E m \in Elements(more) :
                            m.k = "invalidatetiles" /\ m.s = r /\ m.ts = Tiles
        /\ \A m \in Elements(more) : m.k = "invalidatetiles"
    <2>1. ss \in SUBSET Clients /\ Tiles \in SUBSET Tiles
      BY TypesAre
    <2> HIDE DEF ss
    <2> QED BY <1>1, <2>1, InvalidateTilesIs
  <1>3. /\ fromKit' = fromKit \o more /\ missed' = missed \ {s}
        /\ active' = active \cup {s}
    BY <1>1 DEF BecomesActive
  <1>4. /\ active' \subseteq Clients /\ missed' \subseteq Clients /\ skipped' \subseteq TileRequests
        /\ skipped' = skipped /\ (active \cap missed = {} => active' \cap missed' = {})
    BY <1>3, TypesAre
  <1>5. ASSUME NEW r \in Clients, NEW t \in Tiles, r \in missed \/ t \in Touched(queue)
        PROVE  \/ r \in missed' \/ t \in Touched(queue')
               \/ \E m \in Elements(more) : m.k = "invalidatetiles" /\ m.s = r /\ t \in m.ts
    BY <1>2, <1>3, <1>5
  <1>6. KitSends(more)
    BY <1>2, <1>3, <1>4, <1>5 DEF KitSends
  <1> QED BY <1>2, <1>6

LEMMA BecomesInactiveSends ==
    ASSUME TypeOK, NEW s \in Clients, BecomesInactive(s), UNCHANGED skipped, Touched(queue') = Touched(queue)
    PROVE  \E more \in Seq(FromKitMessages) : KitSends(more)
  <1>1. /\ <<>> \in Seq(FromKitMessages) /\ fromKit' = fromKit \o <<>>
        /\ missed' = missed /\ active' = active \ {s}
    BY TypesAre DEF BecomesInactive
  <1>2. /\ active' \subseteq Clients /\ missed' \subseteq Clients /\ skipped' \subseteq TileRequests
        /\ skipped' = skipped /\ (active \cap missed = {} => active' \cap missed' = {})
    BY <1>1, TypesAre
  <1>3. KitSends(<<>>)
    BY <1>1, <1>2, NoElements DEF KitSends
  <1> QED BY <1>1, <1>3

\* What a step of the kit's thread does: it takes messages and sends.
KitTakes(ms, more) ==
    /\ Taken(queue, ms, queue') /\ more \in Seq(FromKitMessages) /\ KitSends(more)
    /\ ms[1].k = "tile" => Renders(ms, more)

LEMMA KitRunsFollowed ==
    ASSUME TypeOK, Followed, KitRuns
    PROVE  /\ TypeOK' /\ Followed' /\ Broker'.client = client /\ Broker'.tbr = tbr
           /\ \E ms, more : KitTakes(ms, more)
  <1>1. PICK got \in Gets(queue) : queue' = got[2] /\ KitHandles(got[1])
    BY DEF KitRuns
  <1>2. UNCHANGED <<tileVersion, cache, tbr, client, content, screen, acks, edits, requests,
                    cancelled>>
    BY DEF KitRuns, brokerVars, clientVars, bounds
  <1>3. PICK ms, rest : ms = got[1] /\ rest = got[2]
    OBVIOUS
  <1>4. Taken(queue, ms, rest) /\ queue' = rest
    BY <1>1, <1>3, TypesAre, GetsIs
  <1>5. PICK m : m = ms[1]
    OBVIOUS
  <1>6. m \in KitMessages /\ queue' \in Seq(KitMessages)
    BY <1>4, <1>5, ElementsTail DEF Taken
  <1>7. \E more \in Seq(FromKitMessages) :
          KitSends(more) /\ (ms[1].k = "tile" => Renders(ms, more))
    <2>1. CASE IsTile(m) /\ RenderTiles(ms) /\ UNCHANGED <<active, missed>>
      <3>1. ms \in Seq(TileRequests) /\ Touched(queue') = Touched(queue)
        BY <1>4, <1>5, <2>1 DEF Taken, IsTile
      <3> QED BY <2>1, <3>1, RenderTilesSends
    <2>2. CASE m.k = "invalidate" /\ SendInvalidations(m.ts) /\ UNCHANGED <<active, skipped>>
      <3>1. Elements(queue) = Elements(queue') \cup {m}
        BY <1>4, <1>5, <2>2 DEF Taken
      <3>2. m.ts \in SUBSET Tiles /\ Touched(queue) \subseteq Touched(queue') \cup m.ts
        BY <1>6, <2>2, <3>1, MessageIs DEF Touched
      <3> QED BY <1>5, <2>2, <3>2, SendInvalidationsSends
    <2>3. CASE /\ m.k = "activity" /\ UNCHANGED skipped
               /\ IF m.on THEN BecomesActive(m.s) ELSE BecomesInactive(m.s)
      <3>1. Elements(queue) = Elements(queue') \cup {m}
        BY <1>4, <1>5, <2>3 DEF Taken
      <3>2. m.s \in Clients
        BY <1>6, <2>3, MessageIs
      <3>3. Touched(queue') = Touched(queue)
        BY <2>3, <3>1, OnlyRectanglesTouch
      <3>4. BecomesActive(m.s) \/ BecomesInactive(m.s)
        BY <2>3
      <3>5. \E more \in Seq(FromKitMessages) : KitSends(more)
        BY <2>3, <3>2, <3>3, <3>4, BecomesActiveSends, BecomesInactiveSends
      <3> QED BY <1>5, <2>3, <3>5
    <2> QED BY <1>1, <1>3, <1>5, <2>1, <2>2, <2>3 DEF KitHandles
  <1>8. PICK more \in Seq(FromKitMessages) :
          KitSends(more) /\ (ms[1].k = "tile" => Renders(ms, more))
    BY <1>7
  <1>9. fromKit' \in Seq(FromKitMessages)
    BY <1>8, TypesAre, ElementsConcat DEF KitSends
  <1>10. TypeOK'
    <2>1. Broker' \in BrokerStates
      BY <1>2, <1>6, TypesAre DEF Broker, BrokerStates
    <2> QED BY <1>2, <1>8, <1>9, <2>1 DEF TypeOK, KitSends
  <1>11. Followed'
    BY <1>2, <1>8, FollowedWhenSent DEF KitSends
  <1>12. KitTakes(ms, more)
    BY <1>4, <1>8 DEF KitTakes
  <1> QED BY <1>2, <1>10, <1>11, <1>12 DEF Broker

-----------------------------------------------------------------------------
(* Steps of the broker.                                                    *)

LEMMA HandleTileResponseFollowed ==
    ASSUME TypeOK, Followed, HandleTileResponse
    PROVE  TypeOK' /\ Followed' /\ (Counts(Broker) => Counts(Broker'))
  <1>1. /\ fromKit # <<>> /\ Head(fromKit).k = "tiles"
        /\ fromKit' = Tail(fromKit)
        /\ UNCHANGED <<content, active, missed, skipped, screen, acks, edits, requests, cancelled>>
    BY DEF HandleTileResponse, kitVars, clientVars, bounds
  <1>2. PICK images : images = Head(fromKit).tiles
    OBVIOUS
  <1>3. /\ Head(fromKit) = fromKit[1] /\ fromKit[1] \in FromKitMessages /\ 1 \in 1..Len(fromKit)
        /\ Tail(fromKit) \in Seq(FromKitMessages)
    BY <1>1, TypesAre, ElementsTail
  <1>4. images \in Seq(Images)
    BY <1>1, <1>2, <1>3, FromKitIs
  <1>5. PICK c : c = SaveTiles(Broker, images)
    OBVIOUS
  <1>6. Saves(Broker, c, Elements(images))
    BY <1>4, <1>5, TypesAre, SaveTilesSaves
  <1>7. c \in BrokerStates /\ Broker' = c /\ cache' = c.cache /\ queue' = c.queue
    <2>1. BrokerBecomes(c)
      BY <1>2, <1>5 DEF HandleTileResponse
    <2> QED BY <1>6, <2>1, BrokerBecomesIs DEF Saves
  <1>8. TypeOK'
    BY <1>1, <1>3, <1>7 DEF TypeOK
  <1>9. queue' = queue
    BY <1>6, <1>7, TypesAre DEF Saves
  <1>10. /\ \A i \in 1..Len(fromKit') : i + 1 \in 1..Len(fromKit) /\ fromKit'[i] = fromKit[i + 1]
         /\ \A i \in Nat : \A s, t : Pending(s, t, i + 1) => Pending(s, t, i)'
         /\ \A s, t : Pending(s, t, 0) => Pending(s, t, 0)'
    BY <1>1, <1>3, <1>9, PendingBehindHead
  <1>11. ImagesAreFollowed'
    <2> SUFFICES ASSUME NEW i \in 1..Len(fromKit'), fromKit'[i].k = "tiles",
                        NEW m \in Elements(fromKit'[i].tiles), m.content # content'[m.t],
                        NEW s \in Clients
                 PROVE  Pending(s, m.t, i)'
      BY DEF ImagesAreFollowed
    <2>1. Pending(s, m.t, i + 1)
      BY <1>1, <1>10 DEF Followed, ImagesAreFollowed
    <2> QED BY <1>10, <2>1
  <1>12. CachedAreFollowed'
    <2> SUFFICES ASSUME NEW t \in Tiles, cache'[t] \notin {NoTile, content'[t]},
                        NEW s \in Clients
                 PROVE  Pending(s, t, 0)'
      BY DEF CachedAreFollowed
    <2>1. CASE cache'[t] = cache[t]
      BY <1>1, <1>10, <2>1 DEF Followed, CachedAreFollowed
    <2>2. CASE cache'[t] # cache[t]
      <3>1. PICK m \in Elements(images) : m.t = t /\ cache'[t] = m.content
        BY <1>6, <1>7, <2>2, TypesAre DEF Saves
      <3>2. Pending(s, t, 1)
        BY <1>1, <1>2, <1>3, <3>1 DEF Followed, ImagesAreFollowed
      <3>3. Pending(s, t, 0 + 1)
        BY <3>2
      <3> QED BY <1>10, <3>3, 0 \in Nat
    <2> QED BY <2>1, <2>2
  <1>13. Counts(Broker) => Counts(Broker')
    BY <1>6, <1>7 DEF Saves
  <1> QED BY <1>8, <1>11, <1>12, <1>13 DEF Followed

LEMMA HandleInvalidateTilesFollowed ==
    ASSUME TypeOK, Followed, HandleInvalidateTiles
    PROVE  TypeOK' /\ Followed' /\ (Counts(Broker) => Counts(Broker'))
  <1>1. /\ fromKit # <<>> /\ Head(fromKit).k = "invalidatetiles"
        /\ fromKit' = Tail(fromKit)
        /\ UNCHANGED <<content, active, missed, skipped, screen, acks, edits, requests, cancelled>>
    BY DEF HandleInvalidateTiles, kitVars, clientVars, bounds
  <1>2. PICK m : m = Head(fromKit)
    OBVIOUS
  <1>3. /\ m = fromKit[1] /\ m \in FromKitMessages
        /\ Tail(fromKit) \in Seq(FromKitMessages)
    BY <1>1, <1>2, TypesAre, ElementsTail
  <1>4. m.s \in Clients
    BY <1>1, <1>2, <1>3, FromKitIs
  <1>5. PICK outdated, stalled :
          BrokerBecomes(HandleTileInvalidation(Broker, m.s, m.ts, outdated, stalled))
    BY <1>2 DEF HandleInvalidateTiles
  <1>6. PICK c : c = HandleTileInvalidation(Broker, m.s, m.ts, outdated, stalled)
    OBVIOUS
  <1>7. /\ c \in BrokerStates
        /\ Touched(c.queue) = Touched(queue)
        /\ \A t \in Tiles : c.cache[t] = IF t \in m.ts THEN NoTile ELSE cache[t]
        /\ Counts(Broker) => Counts(c)
    BY <1>4, <1>6, TypesAre, HandleTileInvalidationIs
  <1>8. Broker' = c /\ cache' = c.cache /\ queue' = c.queue
    BY <1>5, <1>6, <1>7, BrokerBecomesIs
  <1>9. TypeOK'
    BY <1>1, <1>3, <1>7, <1>8 DEF TypeOK
  <1>10. /\ \A i \in 1..Len(fromKit') : i + 1 \in 1..Len(fromKit) /\ fromKit'[i] = fromKit[i + 1]
         /\ \A i \in Nat : \A s, t : Pending(s, t, i + 1) => Pending(s, t, i)'
         /\ \A s, t : Pending(s, t, 0) /\ t \notin m.ts => Pending(s, t, 0)'
    BY <1>1, <1>3, <1>7, <1>8, PendingBehindHead
  <1>11. ImagesAreFollowed'
    <2> SUFFICES ASSUME NEW i \in 1..Len(fromKit'), fromKit'[i].k = "tiles",
                        NEW r \in Elements(fromKit'[i].tiles), r.content # content'[r.t],
                        NEW s \in Clients
                 PROVE  Pending(s, r.t, i)'
      BY DEF ImagesAreFollowed
    <2>1. Pending(s, r.t, i + 1)
      BY <1>1, <1>10 DEF Followed, ImagesAreFollowed
    <2> QED BY <1>10, <2>1
  <1>12. CachedAreFollowed'
    <2> SUFFICES ASSUME NEW t \in Tiles, cache'[t] \notin {NoTile, content'[t]},
                        NEW s \in Clients
                 PROVE  Pending(s, t, 0)'
      BY DEF CachedAreFollowed
    <2>1. t \notin m.ts /\ cache'[t] = cache[t]
      BY <1>7, <1>8
    <2> QED BY <1>1, <1>10, <2>1 DEF Followed, CachedAreFollowed
  <1>13. Counts(Broker) => Counts(Broker')
    BY <1>7, <1>8
  <1> QED BY <1>9, <1>11, <1>12, <1>13 DEF Followed

-----------------------------------------------------------------------------
(* What the broker owes its clients.                                       *)

\* The contents of t that wait to be sent.
Due(x, t) == {m.content : m \in {n \in Elements(x.out) : n.t = t}}

\* Nothing of t is sent, or what is sent last is one of Z.
Reaches(x, y, t, Z) ==
    \/ Due(y, t) = Due(x, t) /\ y.wids[t] = x.wids[t]
    \/ \E z \in Z : Due(y, t) = {z} /\ y.wids[t] \in {0, z}

\* One of Z is sent, or the client has it by its wire id.
Has(y, t, Z) == \E z \in Z : Due(y, t) = {z} \/ (y.wids[t] = z /\ z # 0)

Wants(x, t) == \E r \in Elements(x.requested) : r.t = t

Owes(b, s, t) == Subscribed(b, s, t) \/ Wants(b.client[s], t)

LEMMA ReachesOn ==
    ASSUME NEW x, NEW y, NEW w, NEW t, NEW Z, Reaches(x, y, t, Z), Reaches(y, w, t, Z)
    PROVE  Reaches(x, w, t, Z)
  BY DEF Reaches

LEMMA HasOn ==
    ASSUME NEW x, NEW y, NEW t, NEW Z, Has(x, t, Z), Reaches(x, y, t, Z)
    PROVE  Has(y, t, Z)
  BY DEF Reaches, Has

LEMMA WantsMore ==
    ASSUME NEW x, NEW y, NEW t, Wants(x, t), Elements(x.requested) \subseteq Elements(y.requested)
    PROVE  Wants(y, t)
  BY DEF Wants

LEMMA EnqueueTileReaches ==
    ASSUME NEW x \in ClientStates, NEW t \in Tiles, NEW image \in Nat, NEW wid \in Nat,
           wid \in {0, image}
    PROVE  LET y == EnqueueTile(x, t, image, wid)
           IN /\ y.requested = x.requested
              /\ \A u \in Tiles : Reaches(x, y, u, IF u = t THEN {image} ELSE {})
              /\ Has(y, t, {image})
  <1> DEFINE tile == [t |-> t, content |-> image]
             kept == Deduplicated(x.out, t)
             out == Append(kept, tile)
             y == EnqueueTile(x, t, image, wid)
  <1> SUFFICES /\ y.requested = x.requested
               /\ \A u \in Tiles : Reaches(x, y, u, IF u = t THEN {image} ELSE {})
               /\ Has(y, t, {image})
    OBVIOUS
  <1>1. CASE wid # 0 /\ x.wids[t] = wid
    <2>1. y = x
      BY <1>1 DEF EnqueueTile
    <2> HIDE DEF y
    <2>2. Has(x, t, {image})
      BY <1>1 DEF Has
    <2> QED BY <2>1, <2>2 DEF Reaches
  <1>2. CASE ~(wid # 0 /\ x.wids[t] = wid)
    <2>1. y.requested = x.requested /\ y.out = out /\ y.wids = [x.wids EXCEPT ![t] = wid]
      BY <1>2 DEF EnqueueTile, TraceTileBySend, ClientStates
    <2>10. PICK I : I = {i \in 1..Len(x.out) : x.out[i].t = t}
      OBVIOUS
    <2>2. /\ kept \in Seq(TilesToSend)
          /\ Elements(kept) = {x.out[i] : i \in (1..Len(x.out)) \ I}
      <3>1. kept = Except(x.out, I)
        BY <2>10 DEF Deduplicated
      <3> HIDE DEF kept
      <3> QED BY <3>1, ClientIs, ExceptIs
    <2>3. tile \in TilesToSend /\ tile.t = t /\ tile.content = image
      BY DEF TilesToSend
    <2> HIDE DEF kept, tile, y
    <2>4. Elements(y.out) = Elements(kept) \cup {tile}
      BY <2>1, <2>2, <2>3, ElementsAppend
    <2>5. \A m : m \in Elements(kept) <=> m \in Elements(x.out) /\ m.t # t
      BY <2>2, <2>10 DEF Elements
    <2>6. Due(y, t) = {image} /\ y.wids[t] = wid
      <3>1. \A m \in Elements(y.out) : m.t = t <=> m = tile
        BY <2>3, <2>4, <2>5
      <3>2. {n \in Elements(y.out) : n.t = t} = {tile}
        BY <2>4, <2>3, <3>1
      <3>3. Due(y, t) = {image}
        BY <2>3, <3>2 DEF Due
      <3> QED BY <2>1, <3>3, ClientIs
    <2>7. ASSUME NEW u \in Tiles, u # t PROVE Due(y, u) = Due(x, u) /\ y.wids[u] = x.wids[u]
      <3>1. {n \in Elements(y.out) : n.t = u} = {n \in Elements(x.out) : n.t = u}
        BY <2>3, <2>4, <2>5, <2>7
      <3>2. Due(y, u) = Due(x, u)
        BY <3>1 DEF Due
      <3> QED BY <2>1, <2>7, <3>2, ClientIs
    <2>8. Has(y, t, {image})
      BY <2>6 DEF Has
    <2>9. \A u \in Tiles : Reaches(x, y, u, IF u = t THEN {image} ELSE {})
      BY <2>6, <2>7 DEF Reaches
    <2> QED BY <2>1, <2>8, <2>9
  <1> QED BY <1>1, <1>2

\* What is requested stays so, who is subscribed stays so, and what is sent is
\* what the cache has.
Advances(b, c) ==
    /\ c.cache = b.cache
    /\ \A s \in Clients :
         /\ c.client[s].requested = b.client[s].requested
         /\ \A t \in Tiles : /\ Subscribed(b, s, t) => Subscribed(c, s, t)
                             /\ Reaches(b.client[s], c.client[s], t, {b.cache[t]})

LEMMA AdvancesOn ==
    ASSUME NEW a, NEW b, NEW c, Advances(a, b), Advances(b, c)
    PROVE  Advances(a, c)
  <1>1. c.cache = a.cache /\ b.cache = a.cache
    BY DEF Advances
  <1>2. ASSUME NEW s \in Clients, NEW t \in Tiles
        PROVE  Reaches(a.client[s], c.client[s], t, {a.cache[t]})
    <2>1. /\ Reaches(a.client[s], b.client[s], t, {a.cache[t]})
          /\ Reaches(b.client[s], c.client[s], t, {a.cache[t]})
      BY <1>1 DEF Advances
    <2> QED BY <2>1, ReachesOn
  <1> QED BY <1>1, <1>2 DEF Advances

\* All that counts of a client is as it was.
Alike(x, y) == y.requested = x.requested /\ y.out = x.out /\ y.wids = x.wids

LEMMA AlikeReaches ==
    ASSUME NEW x, NEW y, NEW t, NEW Z, Alike(x, y)
    PROVE  Reaches(x, y, t, Z)
  BY DEF Alike, Reaches, Due

LEMMA AlikeAdvances ==
    ASSUME NEW b, NEW c, c.cache = b.cache,
           \A s \in Clients : Alike(b.client[s], c.client[s]),
           \A s \in Clients, t \in Tiles : Subscribed(b, s, t) => Subscribed(c, s, t)
    PROVE  Advances(b, c)
  BY AlikeReaches DEF Advances, Alike

LEMMA AdvancesSelf == ASSUME NEW b PROVE Advances(b, b)
  BY AlikeAdvances DEF Alike

LEMMA SendCachedAdvances ==
    ASSUME NEW b \in BrokerStates, NEW s \in Clients, NEW t \in Tiles
    PROVE  LET c == SendCached(b, s, t)
           IN /\ Advances(b, c) /\ Has(c.client[s], t, {b.cache[t]})
              /\ c.ver = b.ver /\ c.queue = b.queue /\ c.tbr = b.tbr
  <1> DEFINE c == SendCached(b, s, t)
             x == b.client[s]
             y == EnqueueTile(x, t, b.cache[t], 0)
  <1>1. x \in ClientStates /\ b.cache[t] \in Nat /\ 0 \in Nat /\ 0 \in {0, b.cache[t]}
    BY BrokerIs
  <1>2. /\ y.requested = x.requested
        /\ \A u \in Tiles : Reaches(x, y, u, IF u = t THEN {b.cache[t]} ELSE {})
        /\ Has(y, t, {b.cache[t]})
    BY <1>1, EnqueueTileReaches
  <1>3. c = [b EXCEPT !.client[s] = y]
    BY BrokerIs DEF SendCached
  <1> HIDE DEF c, y
  <1>4. /\ c.cache = b.cache /\ c.tbr = b.tbr /\ c.ver = b.ver /\ c.queue = b.queue
        /\ \A r \in Clients : c.client[r] = IF r = s THEN y ELSE b.client[r]
    BY <1>3, BrokerIs
  <1>5. ASSUME NEW u \in Tiles PROVE Reaches(x, y, u, {b.cache[u]})
    <2>1. CASE u = t
      BY <1>2, <2>1
    <2>2. CASE u # t
      BY <1>2, <2>2 DEF Reaches
    <2> QED BY <2>1, <2>2
  <1>6. ASSUME NEW r \in Clients, NEW u \in Tiles
        PROVE  Reaches(b.client[r], c.client[r], u, {b.cache[u]})
    <2>1. CASE r = s
      BY <1>4, <1>5, <2>1
    <2>2. CASE r # s
      BY <1>4, <2>2, AlikeReaches DEF Alike
    <2> QED BY <2>1, <2>2
  <1>7. \A r \in Clients : c.client[r].requested = b.client[r].requested
    BY <1>2, <1>4
  <1>8. \A r \in Clients, u \in Tiles : Subscribed(b, r, u) => Subscribed(c, r, u)
    BY <1>4, SubscribedIs
  <1>9. Advances(b, c)
    BY <1>4, <1>6, <1>7, <1>8 DEF Advances
  <1>10. Has(c.client[s], t, {b.cache[t]})
    BY <1>2, <1>4
  <1> QED BY <1>4, <1>9, <1>10 DEF c

LEMMA SubscribeIs ==
    ASSUME NEW b \in BrokerStates, NEW t \in Tiles, NEW ver \in Nat, NEW s \in Clients,
           NEW stalled
    PROVE  LET c == SubscribeToTileRendering(b, t, ver, s, stalled)
           IN /\ Advances(b, c) /\ Subscribed(c, s, t)
              /\ c.ver = b.ver /\ c.queue = b.queue
              /\ \A u \in Tiles : u # t => c.tbr[u] = b.tbr[u]
              /\ c.tbr[t].ver = ver \/ (BeingRendered(b, t) /\ c.tbr[t].ver = b.tbr[t].ver)
  <1> DEFINE c == SubscribeToTileRendering(b, t, ver, s, stalled)
             Goal == /\ Advances(b, c) /\ Subscribed(c, s, t)
                     /\ c.ver = b.ver /\ c.queue = b.queue
                     /\ \A u \in Tiles : u # t => c.tbr[u] = b.tbr[u]
                     /\ c.tbr[t].ver = ver \/ (BeingRendered(b, t) /\ c.tbr[t].ver = b.tbr[t].ver)
  <1> SUFFICES Goal
    OBVIOUS
  <1> HIDE DEF c
  <1>1. b.tbr[t] \in TileStates
    BY BrokerIs
  <1>2. CASE Subscribed(b, s, t)
    <2> DEFINE x == [b.tbr[t] EXCEPT !.ver = ver]
    <2>1. c = [b EXCEPT !.tbr[t] = x]
      BY <1>2, BrokerIs DEF c, SubscribeToTileRendering
    <2>2. x.ver = ver /\ x.subs = b.tbr[t].subs
      BY <1>1 DEF TileStates
    <2> HIDE DEF x
    <2>3. /\ c.cache = b.cache /\ c.client = b.client /\ c.ver = b.ver /\ c.queue = b.queue
          /\ \A u \in Tiles : c.tbr[u] = IF u = t THEN x ELSE b.tbr[u]
      BY <2>1, BrokerIs
    <2>4. \A r \in Clients, u \in Tiles : Subscribed(b, r, u) => Subscribed(c, r, u)
      BY <2>2, <2>3, SubscribedIs
    <2>5. Advances(b, c)
      BY <2>3, <2>4, AlikeAdvances DEF Alike
    <2> QED BY <1>2, <2>2, <2>3, <2>4, <2>5
  <1>3. CASE ~Subscribed(b, s, t)
    <2> DEFINE v == IF BeingRendered(b, t) /\ t \notin stalled THEN b.tbr[t].ver ELSE ver
               subs == Append(b.tbr[t].subs, s)
               x == [ver |-> v, subs |-> subs]
               rendering == IF t \in Previews THEN b.client[s].rendering
                            ELSE b.client[s].rendering \cup {t}
               y == [b.client[s] EXCEPT !.rendering = rendering]
    <2>1. subs \in Seq(Clients) /\ Elements(subs) = Elements(b.tbr[t].subs) \cup {s}
      BY <1>1, TileStateIs, ElementsAppend
    <2>2. v = ver \/ (BeingRendered(b, t) /\ v = b.tbr[t].ver)
      OBVIOUS
    <2>3. c = [b EXCEPT !.tbr[t] = x, !.client[s] = y]
      BY <1>3, BrokerIs, ClientIs DEF c, SubscribeToTileRendering
    <2>4. Alike(b.client[s], y)
      BY BrokerIs DEF ClientStates, Alike
    <2> HIDE DEF v, subs, y
    <2>5. x.ver = v /\ x.subs = subs
      OBVIOUS
    <2> HIDE DEF x
    <2>6. /\ c.cache = b.cache /\ c.ver = b.ver /\ c.queue = b.queue
          /\ \A u \in Tiles : c.tbr[u] = IF u = t THEN x ELSE b.tbr[u]
          /\ \A r \in Clients : c.client[r] = IF r = s THEN y ELSE b.client[r]
      BY <2>3, BrokerIs
    <2>7. \A r \in Clients, u \in Tiles : Subscribed(b, r, u) => Subscribed(c, r, u)
      BY <2>1, <2>5, <2>6, SubscribedIs
    <2>8. \A r \in Clients : Alike(b.client[r], c.client[r])
      BY <2>4, <2>6 DEF Alike
    <2>9. Advances(b, c)
      BY <2>6, <2>7, <2>8, AlikeAdvances
    <2>10. Subscribed(c, s, t)
      BY <2>1, <2>5, <2>6, SubscribedIs
    <2> QED BY <2>2, <2>5, <2>6, <2>9, <2>10
  <1> QED BY <1>2, <1>3

-----------------------------------------------------------------------------
(* What is being rendered has been asked for.                              *)

Asked(q, t, v) == \E r \in Elements(q) : r.k = "tile" /\ r.t = t /\ r.ver >= v

InVersion(b) == \A r \in Elements(b.queue) : r.k = "tile" => r.ver <= b.ver

TilesInVersion(b) == \A t \in Tiles : BeingRendered(b, t) => b.tbr[t].ver <= b.ver

\* The tiles that are being rendered have been before, or are among those that
\* will be asked for.
Prepares(b, c, needed) ==
    /\ c.queue = b.queue /\ b.ver <= c.ver
    /\ \A r \in needed : b.ver <= r.ver /\ r.ver <= c.ver
    /\ \A t \in Tiles : BeingRendered(c, t) =>
         \/ \E r \in needed : r.t = t /\ r.ver >= c.tbr[t].ver
         \/ BeingRendered(b, t) /\ c.tbr[t].ver <= b.tbr[t].ver

\* The same, once they have been asked for.
Registers(b, c) ==
    b.ver <= c.ver /\ (InVersion(b) =>
        /\ InVersion(c)
        /\ \A t \in Tiles, v \in Nat : Asked(b.queue, t, v) => Asked(c.queue, t, v)
        /\ \A t \in Tiles : BeingRendered(c, t) =>
             \/ Asked(c.queue, t, c.tbr[t].ver)
             \/ BeingRendered(b, t) /\ c.tbr[t].ver <= b.tbr[t].ver)

LEMMA VersionsAre ==
    ASSUME NEW b \in BrokerStates, NEW t \in Tiles
    PROVE  b.ver \in Nat /\ b.tbr[t].ver \in Nat
  BY BrokerIs, TileStateIs

LEMMA PreparesOn ==
    ASSUME NEW a \in BrokerStates, NEW b \in BrokerStates, NEW c \in BrokerStates,
           NEW M \in SUBSET TileRequests, NEW N \in SUBSET TileRequests,
           Prepares(a, b, M), Prepares(b, c, N)
    PROVE  Prepares(a, c, M \cup N)
  <1>1. /\ c.queue = a.queue /\ a.ver <= b.ver /\ b.ver <= c.ver
        /\ a.ver \in Nat /\ b.ver \in Nat /\ c.ver \in Nat
    BY BrokerIs DEF Prepares
  <1>2. ASSUME NEW r \in M \cup N PROVE a.ver <= r.ver /\ r.ver <= c.ver
    <2>1. r.ver \in Nat
      BY RequestIs
    <2>2. CASE r \in M
      BY <1>1, <2>1, <2>2 DEF Prepares
    <2>3. CASE r \in N
      BY <1>1, <2>1, <2>3 DEF Prepares
    <2> QED BY <2>2, <2>3
  <1>3. ASSUME NEW t \in Tiles, BeingRendered(c, t)
        PROVE  \/ \E r \in M \cup N : r.t = t /\ r.ver >= c.tbr[t].ver
               \/ BeingRendered(a, t) /\ c.tbr[t].ver <= a.tbr[t].ver
    <2>1. a.tbr[t].ver \in Nat /\ b.tbr[t].ver \in Nat /\ c.tbr[t].ver \in Nat
      BY VersionsAre
    <2>2. CASE \E r \in N : r.t = t /\ r.ver >= c.tbr[t].ver
      BY <2>2
    <2>3. CASE BeingRendered(b, t) /\ c.tbr[t].ver <= b.tbr[t].ver
      <3>1. CASE \E r \in M : r.t = t /\ r.ver >= b.tbr[t].ver
        <4>1. PICK r \in M : r.t = t /\ r.ver >= b.tbr[t].ver
          BY <3>1
        <4>2. r.ver \in Nat
          BY RequestIs
        <4> QED BY <2>1, <2>3, <4>1, <4>2
      <3>2. CASE BeingRendered(a, t) /\ b.tbr[t].ver <= a.tbr[t].ver
        BY <2>1, <2>3, <3>2
      <3> QED BY <2>3, <3>1, <3>2 DEF Prepares
    <2> QED BY <1>3, <2>2, <2>3 DEF Prepares
  <1> QED BY <1>1, <1>2, <1>3 DEF Prepares

LEMMA PreparesSelf == ASSUME NEW b \in BrokerStates PROVE Prepares(b, b, {})
  BY VersionsAre, BrokerIs DEF Prepares

LEMMA AskedLess ==
    ASSUME NEW q \in Seq(KitMessages), NEW t, NEW v \in Nat, NEW w \in Nat, w <= v, Asked(q, t, v)
    PROVE  Asked(q, t, w)
  <1>1. PICK r \in Elements(q) : r.k = "tile" /\ r.t = t /\ r.ver >= v
    BY DEF Asked
  <1>2. r.ver \in Nat
    BY <1>1, ElementsAre, MessageIs, RequestIs
  <1> QED BY <1>1, <1>2 DEF Asked

LEMMA RegistersOn ==
    ASSUME NEW a \in BrokerStates, NEW b \in BrokerStates, NEW c \in BrokerStates,
           Registers(a, b), Registers(b, c)
    PROVE  Registers(a, c)
  <1> SUFFICES ASSUME InVersion(a)
               PROVE  /\ InVersion(c)
                      /\ \A t \in Tiles, v \in Nat : Asked(a.queue, t, v) => Asked(c.queue, t, v)
                      /\ \A t \in Tiles : BeingRendered(c, t) =>
                           \/ Asked(c.queue, t, c.tbr[t].ver)
                           \/ BeingRendered(a, t) /\ c.tbr[t].ver <= a.tbr[t].ver
    BY BrokerIs DEF Registers
  <1>1. InVersion(b) /\ InVersion(c)
    BY DEF Registers
  <1>2. \A t \in Tiles, v \in Nat : Asked(a.queue, t, v) => Asked(c.queue, t, v)
    BY <1>1 DEF Registers
  <1>3. ASSUME NEW t \in Tiles, BeingRendered(c, t)
        PROVE  \/ Asked(c.queue, t, c.tbr[t].ver)
               \/ BeingRendered(a, t) /\ c.tbr[t].ver <= a.tbr[t].ver
    <2>1. a.tbr[t].ver \in Nat /\ b.tbr[t].ver \in Nat /\ c.tbr[t].ver \in Nat
      BY VersionsAre
    <2>2. CASE BeingRendered(b, t) /\ c.tbr[t].ver <= b.tbr[t].ver
      <3>1. CASE Asked(b.queue, t, b.tbr[t].ver)
        <4>1. Asked(c.queue, t, b.tbr[t].ver)
          BY <1>1, <2>1, <3>1 DEF Registers
        <4> QED BY <2>1, <2>2, <4>1, AskedLess, BrokerIs
      <3>2. CASE BeingRendered(a, t) /\ b.tbr[t].ver <= a.tbr[t].ver
        BY <2>1, <2>2, <3>2
      <3> QED BY <2>2, <3>1, <3>2 DEF Registers
    <2> QED BY <1>1, <1>3, <2>2 DEF Registers
  <1> QED BY <1>1, <1>2, <1>3

LEMMA PutTilesAsks ==
    ASSUME NEW q \in Seq(KitMessages), NEW ms \in Seq(TileRequests)
    PROVE  /\ \A m \in Elements(PutTiles(q, ms)) : m \in Elements(q) \/ m \in Elements(ms)
           /\ \A m \in Elements(ms) : m \in Elements(PutTiles(q, ms))
           /\ \A m \in Elements(q) :
                m \in Elements(PutTiles(q, ms)) \/ \E r \in Elements(ms) : r.t = m.t
  <1> DEFINE same == {i \in 1..Len(q) : \E j \in 1..Len(ms) : SameRequest(ms[j], q[i])}
             e == Except(q, same)
             p == PutTiles(q, ms)
  <1>1. \A i \in same : \E j \in 1..Len(ms) : ms[j].t = q[i].t
    BY DEF SameRequest
  <1> HIDE DEF same
  <1>2. e \in Seq(KitMessages) /\ Elements(e) = {q[i] : i \in (1..Len(q)) \ same}
    BY ExceptIs
  <1>3. ms \in Seq(KitMessages)
    BY RequestsAreMessages
  <1>4. Elements(p) = Elements(e) \cup Elements(ms)
    <2>1. p = e \o ms
      BY DEF PutTiles, same
    <2> HIDE DEF e, p
    <2> QED BY <1>2, <1>3, <2>1, ElementsConcat
  <1> HIDE DEF e, p
  <1>5. ASSUME NEW m \in Elements(q)
        PROVE  m \in Elements(p) \/ \E r \in Elements(ms) : r.t = m.t
    <2>1. PICK i \in 1..Len(q) : m = q[i]
      BY DEF Elements
    <2>2. CASE i \in same
      <3>1. PICK j \in 1..Len(ms) : ms[j].t = q[i].t
        BY <1>1, <2>2
      <3> QED BY <2>1, <3>1 DEF Elements
    <2>3. CASE i \notin same
      BY <1>2, <1>4, <2>1, <2>3
    <2> QED BY <2>2, <2>3
  <1>6. \A m \in Elements(p) : m \in Elements(q) \/ m \in Elements(ms)
    BY <1>2, <1>4 DEF Elements
  <1> QED BY <1>4, <1>5, <1>6 DEF p

LEMMA SendToKitIs ==
    ASSUME NEW b \in BrokerStates, NEW ms
    PROVE  LET c == SendToKit(b, ms)
           IN /\ c.queue = PutTiles(b.queue, ms)
              /\ c.ver = b.ver /\ c.tbr = b.tbr /\ c.cache = b.cache /\ c.client = b.client
  <1> DEFINE q == PutTiles(b.queue, ms)
  <1>1. SendToKit(b, ms) = [b EXCEPT !.queue = q]
    BY BrokerIs DEF SendToKit
  <1> HIDE DEF q
  <1>2. PICK c : c = [b EXCEPT !.queue = q]
    OBVIOUS
  <1>3. /\ c.queue = q /\ c.ver = b.ver /\ c.tbr = b.tbr /\ c.cache = b.cache
        /\ c.client = b.client
    BY <1>2, BrokerIs
  <1> QED BY <1>1, <1>2, <1>3 DEF q

LEMMA SendToKitAdvances ==
    ASSUME NEW b \in BrokerStates, NEW ms
    PROVE  Advances(b, SendToKit(b, ms))
  <1>1. PICK c : c = SendToKit(b, ms)
    OBVIOUS
  <1>2. c.tbr = b.tbr /\ c.cache = b.cache /\ c.client = b.client
    BY <1>1, SendToKitIs
  <1>3. Advances(b, c)
    BY <1>2, AlikeAdvances DEF Alike, Subscribed
  <1> QED BY <1>1, <1>3

LEMMA SendToKitRegisters ==
    ASSUME NEW a \in BrokerStates, NEW b \in BrokerStates, NEW ms \in Seq(TileRequests),
           Prepares(a, b, Elements(ms))
    PROVE  Registers(a, SendToKit(b, ms))
  <1>1. PICK c : c = SendToKit(b, ms)
    OBVIOUS
  <1>2. c.queue = PutTiles(b.queue, ms) /\ c.ver = b.ver /\ c.tbr = b.tbr /\ b.queue = a.queue
    BY <1>1, SendToKitIs DEF Prepares
  <1>3. /\ \A m \in Elements(c.queue) : m \in Elements(a.queue) \/ m \in Elements(ms)
        /\ \A m \in Elements(ms) : m \in Elements(c.queue)
        /\ \A m \in Elements(a.queue) :
             m \in Elements(c.queue) \/ \E r \in Elements(ms) : r.t = m.t
    BY <1>2, BrokerIs, PutTilesAsks
  <1>4. \A r \in Elements(ms) : /\ r \in TileRequests /\ r.k = "tile" /\ r.ver \in Nat
                                /\ a.ver <= r.ver /\ r.ver <= b.ver
    BY ElementsAre, RequestIs DEF Prepares
  <1>5. a.ver \in Nat /\ b.ver \in Nat /\ a.ver <= b.ver
    BY BrokerIs DEF Prepares
  <1> SUFFICES ASSUME InVersion(a)
               PROVE  /\ InVersion(c)
                      /\ \A t \in Tiles, v \in Nat : Asked(a.queue, t, v) => Asked(c.queue, t, v)
                      /\ \A t \in Tiles : BeingRendered(c, t) =>
                           \/ Asked(c.queue, t, c.tbr[t].ver)
                           \/ BeingRendered(a, t) /\ c.tbr[t].ver <= a.tbr[t].ver
    BY <1>1, <1>2, <1>5 DEF Registers
  <1>6. \A r \in Elements(a.queue) : r.k = "tile" => r.ver \in Nat /\ r.ver <= a.ver
    <2>1. \A r \in Elements(a.queue) : r \in KitMessages
      BY BrokerIs, ElementsAre
    <2> QED BY <2>1, MessageIs, RequestIs DEF InVersion
  <1>7. InVersion(c)
    BY <1>2, <1>3, <1>4, <1>5, <1>6 DEF InVersion
  <1>8. ASSUME NEW t \in Tiles, NEW v \in Nat, Asked(a.queue, t, v)
        PROVE  Asked(c.queue, t, v)
    <2>1. PICK r \in Elements(a.queue) : r.k = "tile" /\ r.t = t /\ r.ver >= v
      BY <1>8 DEF Asked
    <2>2. CASE r \in Elements(c.queue)
      BY <2>1, <2>2 DEF Asked
    <2>3. CASE \E m \in Elements(ms) : m.t = r.t
      <3>1. PICK m \in Elements(ms) : m.t = r.t
        BY <2>3
      <3>2. m \in Elements(c.queue) /\ m.k = "tile" /\ m.t = t /\ m.ver >= v
        BY <1>3, <1>4, <1>5, <1>6, <2>1, <3>1
      <3> QED BY <3>2 DEF Asked
    <2> QED BY <1>3, <2>2, <2>3
  <1>9. ASSUME NEW t \in Tiles, BeingRendered(c, t)
        PROVE  \/ Asked(c.queue, t, c.tbr[t].ver)
               \/ BeingRendered(a, t) /\ c.tbr[t].ver <= a.tbr[t].ver
    <2>1. BeingRendered(b, t)
      BY <1>2, <1>9 DEF BeingRendered
    <2>2. CASE \E r \in Elements(ms) : r.t = t /\ r.ver >= b.tbr[t].ver
      BY <1>2, <1>3, <1>4, <2>2 DEF Asked
    <2> QED BY <1>2, <2>1, <2>2 DEF Prepares
  <1> QED BY <1>7, <1>8, <1>9

-----------------------------------------------------------------------------
(* The handlers answer what they are asked.                                *)

\* What each client wants is still owed to it, or has been sent; Z gives what
\* may be sent of each tile.
Answers(b, c, Z) ==
    \A s \in Clients, t \in Tiles :
        /\ Reaches(b.client[s], c.client[s], t, Z[t])
        /\ Owes(b, s, t) => Owes(c, s, t) \/ Has(c.client[s], t, Z[t])

Stock(b) == [t \in Tiles |-> {b.cache[t]}]

LEMMA AnswersOn ==
    ASSUME NEW a, NEW b, NEW c, NEW Z, Answers(a, b, Z), Answers(b, c, Z)
    PROVE  Answers(a, c, Z)
  <1> SUFFICES ASSUME NEW s \in Clients, NEW t \in Tiles
               PROVE  /\ Reaches(a.client[s], c.client[s], t, Z[t])
                      /\ Owes(a, s, t) => Owes(c, s, t) \/ Has(c.client[s], t, Z[t])
    BY DEF Answers
  <1>1. /\ Reaches(a.client[s], b.client[s], t, Z[t])
        /\ Owes(a, s, t) => Owes(b, s, t) \/ Has(b.client[s], t, Z[t])
        /\ Reaches(b.client[s], c.client[s], t, Z[t])
        /\ Owes(b, s, t) => Owes(c, s, t) \/ Has(c.client[s], t, Z[t])
    BY DEF Answers
  <1>2. Reaches(a.client[s], c.client[s], t, Z[t])
    BY <1>1, ReachesOn
  <1>3. Has(b.client[s], t, Z[t]) => Has(c.client[s], t, Z[t])
    BY <1>1, HasOn
  <1> QED BY <1>1, <1>2, <1>3

LEMMA AdvancesAnswers ==
    ASSUME NEW b, NEW c, Advances(b, c)
    PROVE  Answers(b, c, Stock(b))
  <1> SUFFICES ASSUME NEW s \in Clients, NEW t \in Tiles
               PROVE  /\ Reaches(b.client[s], c.client[s], t, Stock(b)[t])
                      /\ Owes(b, s, t) => Owes(c, s, t)
    BY DEF Answers
  <1>1. Stock(b)[t] = {b.cache[t]}
    BY DEF Stock
  <1> QED BY <1>1 DEF Advances, Owes, Wants

\* What a subscription does, but for who is subscribed.
Subscribes(b, c, t, ver) ==
    /\ Advances(b, c)
    /\ c.ver = b.ver /\ c.queue = b.queue
    /\ \A u \in Tiles : u # t => c.tbr[u] = b.tbr[u]
    /\ c.tbr[t].ver = ver \/ (BeingRendered(b, t) /\ c.tbr[t].ver = b.tbr[t].ver)

LEMMA SubscribeAllSubscribes ==
    ASSUME NEW b \in BrokerStates, NEW t \in Tiles, NEW ver \in Nat, NEW subs \in Seq(Clients),
           subs # <<>>, NEW stalled
    PROVE  Subscribes(b, SubscribeAll(b, t, ver, subs, stalled), t, ver)
  <1> DEFINE n == Len(subs)
  <1>1. PICK k : /\ SubscribeAll(b, t, ver, subs, stalled) = k[n] /\ k[0] = b
                 /\ \A i \in 1..n :
                      k[i] = SubscribeToTileRendering(k[i - 1], t, ver, subs[i], stalled)
    BY SubscribeAllTurns
  <1>2. n \in Nat /\ n # 0 /\ \A i \in 1..n : subs[i] \in Clients
    OBVIOUS
  <1> DEFINE T == {i \in 0..n : /\ k[i] \in BrokerStates
                                /\ i # 0 => Subscribes(b, k[i], t, ver)}
  <1>3. 0 \in T
    BY <1>1, <1>2
  <1>4. ASSUME NEW i \in 1..n, i - 1 \in T PROVE i \in T
    <2>1. PICK a : a = k[i - 1]
      OBVIOUS
    <2>2. PICK c : c = SubscribeToTileRendering(a, t, ver, subs[i], stalled)
      OBVIOUS
    <2>3. a \in BrokerStates /\ k[i] = c /\ subs[i] \in Clients
      BY <1>1, <1>2, <1>4, <2>1, <2>2
    <2>4. Subscribes(a, c, t, ver)
      BY <2>2, <2>3, SubscribeIs DEF Subscribes
    <2>5. c \in BrokerStates
      BY <2>2, <2>3, SubscribeServes DEF Serves
    <2>6. CASE i = 1
      <3>1. a = b
        BY <1>1, <2>1, <2>6
      <3> QED BY <2>3, <2>4, <2>5, <3>1
    <2>7. CASE i # 1
      <3>1. Subscribes(b, a, t, ver)
        BY <1>4, <2>1, <2>7
      <3>2. Advances(b, c)
        BY <2>4, <3>1, AdvancesOn DEF Subscribes
      <3>3. Subscribes(b, c, t, ver)
        BY <2>4, <3>1, <3>2 DEF Subscribes
      <3> QED BY <2>3, <2>5, <3>3
    <2> QED BY <2>6, <2>7
  <1> HIDE DEF T
  <1>5. n \in T
    BY <1>2, <1>3, <1>4, TurnByTurn, n \in 0..n
  <1> QED BY <1>1, <1>2, <1>5 DEF T

LEMMA SubscribesPrepares ==
    ASSUME NEW b \in BrokerStates, NEW c \in BrokerStates, NEW t \in Tiles, NEW r \in TileRequests,
           Subscribes(b, c, t, r.ver), r.t = t, r.ver = b.ver
    PROVE  Prepares(b, c, {r})
  <1>1. b.ver \in Nat /\ c.ver = b.ver /\ c.queue = b.queue
    BY BrokerIs DEF Subscribes
  <1>2. ASSUME NEW u \in Tiles, BeingRendered(c, u)
        PROVE  \/ u = t /\ r.ver >= c.tbr[u].ver
               \/ BeingRendered(b, u) /\ c.tbr[u].ver <= b.tbr[u].ver
    <2>1. b.tbr[u].ver \in Nat
      BY VersionsAre
    <2>2. CASE u = t
      BY <1>1, <2>1, <2>2 DEF Subscribes
    <2>3. CASE u # t
      BY <1>2, <2>1, <2>3 DEF Subscribes, BeingRendered
    <2> QED BY <2>2, <2>3
  <1> QED BY <1>1, <1>2 DEF Prepares

LEMMA VersionAdvances ==
    ASSUME NEW b \in BrokerStates, NEW v \in Nat
    PROVE  LET c == [b EXCEPT !.ver = v]
           IN /\ c.ver = v /\ c.tbr = b.tbr /\ c.cache = b.cache /\ c.client = b.client
              /\ c.queue = b.queue
              /\ Advances(b, c) /\ (b.ver <= v => Prepares(b, c, {}))
  <1>1. PICK c : c = [b EXCEPT !.ver = v]
    OBVIOUS
  <1>2. /\ c.ver = v /\ c.tbr = b.tbr /\ c.cache = b.cache /\ c.client = b.client
        /\ c.queue = b.queue
    BY <1>1, BrokerIs
  <1>3. Advances(b, c)
    BY <1>2, AlikeAdvances DEF Alike, Subscribed
  <1>4. b.ver <= v => Prepares(b, c, {})
    BY <1>2, VersionsAre DEF Prepares, BeingRendered
  <1> QED BY <1>1, <1>2, <1>3, <1>4

LEMMA UnchangedRegisters ==
    ASSUME NEW b \in BrokerStates, NEW c \in BrokerStates, c.queue = b.queue, c.tbr = b.tbr,
           b.ver <= c.ver
    PROVE  Registers(b, c)
  <1>1. b.ver \in Nat /\ c.ver \in Nat
    BY BrokerIs
  <1>2. ASSUME InVersion(b), NEW r \in Elements(c.queue), r.k = "tile" PROVE r.ver <= c.ver
    <2>1. r \in KitMessages
      BY BrokerIs, ElementsAre
    <2>2. r.ver \in Nat
      BY <1>2, <2>1, MessageIs, RequestIs
    <2> QED BY <1>1, <1>2, <2>2 DEF InVersion
  <1>3. \A t \in Tiles : b.tbr[t].ver <= b.tbr[t].ver
    BY VersionsAre
  <1> QED BY <1>2, <1>3 DEF Registers, InVersion, BeingRendered

LEMMA HandleTileRequestAnswers ==
    ASSUME NEW b \in BrokerStates, NEW s \in Clients, NEW t \in Tiles,
           NEW broadcast \in BOOLEAN, NEW stalled
    PROVE  LET c == HandleTileRequest(b, s, t, broadcast, stalled)
           IN Answers(b, c, Stock(b)) /\ Registers(b, c)
  <1> DEFINE c == HandleTileRequest(b, s, t, broadcast, stalled)
             ver == b.ver + 1
             next == [b EXCEPT !.ver = ver]
             subs == IF broadcast THEN SetToSeq(Clients) ELSE <<s>>
             a == SubscribeAll(next, t, ver, subs, stalled)
             request == TileRequest(t, ver, 0)
  <1>1. ver \in Nat /\ b.ver <= ver
    BY BrokerIs
  <1>2. /\ next \in BrokerStates /\ next.ver = ver /\ next.tbr = b.tbr /\ next.queue = b.queue
        /\ Advances(b, next) /\ Prepares(b, next, {})
    <2> HIDE DEF ver
    <2>1. next \in BrokerStates
      BY <1>1, VersionBecomes DEF Serves
    <2> QED BY <1>1, <2>1, VersionAdvances
  <1>3. subs \in Seq(Clients) /\ subs # <<>>
    <2>1. SetToSeq(Clients) \in Seq(Clients) /\ Elements(SetToSeq(Clients)) = Clients
      BY ClientsAssumption, SetToSeqIs
    <2>2. SetToSeq(Clients) # <<>>
      BY <2>1, NoElements
    <2> QED BY <2>1, <2>2
  <1>4. CASE Cached(b, t)
    <2>1. c = SendCached(next, s, t)
      BY <1>4 DEF HandleTileRequest
    <2> HIDE DEF next, c
    <2>2. /\ Advances(next, c) /\ c.ver = next.ver /\ c.tbr = next.tbr /\ c.queue = next.queue
      BY <1>2, <2>1, SendCachedAdvances
    <2>3. Advances(b, c)
      BY <1>2, <2>2, AdvancesOn
    <2>4. c \in BrokerStates
      BY <1>2, <2>1, SendCachedServes DEF Serves
    <2>5. Registers(b, c)
      BY <1>1, <1>2, <2>2, <2>4, UnchangedRegisters
    <2> QED BY <2>3, <2>5, AdvancesAnswers DEF c
  <1>5. CASE ~Cached(b, t)
    <2>1. PICK asked : asked = <<request>>
      OBVIOUS
    <2>2. c = SendToKit(a, asked)
      BY <1>5, <2>1 DEF HandleTileRequest
    <2>3. request \in TileRequests /\ request.t = t /\ request.ver = ver
      BY <1>1, TileRequestIs, 0 \in Nat DEF TileRequest
    <2> HIDE DEF next, ver, subs, request, c
    <2>4. a \in BrokerStates
      BY <1>1, <1>2, <1>3, SubscribeAllServes DEF Serves
    <2>5. Subscribes(next, a, t, ver)
      BY <1>1, <1>2, <1>3, SubscribeAllSubscribes
    <2> HIDE DEF a
    <2>6. asked \in Seq(TileRequests) /\ Elements(asked) = {request}
      <3>1. Len(asked) = 1 /\ asked[1] = request /\ asked \in Seq(TileRequests)
        BY <2>1, <2>3
      <3> QED BY <3>1 DEF Elements
    <2>7. Prepares(next, a, {request})
      BY <1>2, <2>3, <2>4, <2>5, SubscribesPrepares
    <2>8. Prepares(b, a, Elements(asked))
      <3>1. PICK M, N : M = {} /\ N = {request}
        OBVIOUS
      <3>2. M \in SUBSET TileRequests /\ N \in SUBSET TileRequests
        BY <2>3, <3>1
      <3>3. Prepares(b, next, M) /\ Prepares(next, a, N)
        BY <1>2, <2>7, <3>1
      <3>4. Prepares(b, a, M \cup N)
        BY <1>2, <2>4, <3>2, <3>3, PreparesOn
      <3>5. M \cup N = Elements(asked)
        BY <2>6, <3>1
      <3> QED BY <3>4, <3>5
    <2>9. Registers(b, c)
      BY <2>2, <2>4, <2>6, <2>8, SendToKitRegisters
    <2>10. Advances(b, c)
      <3>1. Advances(a, c)
        BY <2>2, <2>4, SendToKitAdvances
      <3>2. Advances(next, a)
        BY <2>5 DEF Subscribes
      <3> QED BY <1>2, <3>1, <3>2, AdvancesOn
    <2> QED BY <2>9, <2>10, AdvancesAnswers DEF c
  <1> QED BY <1>4, <1>5

\* One turn of the loop of sendRequestedTiles.
Takes(a, d, r, s) ==
    /\ Advances(a.b, d.b)
    /\ \E N \in SUBSET TileRequests :
         Prepares(a.b, d.b, N) /\ Elements(d.needed) = Elements(a.needed) \cup N
    /\ Elements(a.left) \subseteq Elements(d.left)
    /\ Elements(a.delayed) \subseteq Elements(d.delayed)
    /\ \/ r \in Elements(d.left) \/ r \in Elements(d.delayed)
       \/ Subscribed(d.b, s, r.t) \/ Has(d.b.client[s], r.t, {a.b.cache[r.t]})

LEMMA SendRequestedTileTakes ==
    ASSUME NEW b, NEW a \in Takings(b), NEW r \in TileRequests, NEW s \in Clients, NEW stalled
    PROVE  Takes(a, SendRequestedTile(a, r, s, stalled), r, s)
  <1> DEFINE t == r.t
  <1>1. t \in Tiles /\ r.ver \in Nat
    BY RequestIs
  <1> HIDE DEF t
  <1>2. a.b \in BrokerStates
    BY TakingsAre
  <1>9. PICK none \in SUBSET TileRequests : none = {}
    OBVIOUS
  <1>3. CASE Cached(a.b, t)
    <2> DEFINE c == SendCached(a.b, s, t)
    <2>1. SendRequestedTile(a, r, s, stalled) = [a EXCEPT !.b = c]
      BY <1>3 DEF SendRequestedTile, t
    <2>2. /\ Advances(a.b, c) /\ Has(c.client[s], t, {a.b.cache[t]})
          /\ c.ver = a.b.ver /\ c.queue = a.b.queue /\ c.tbr = a.b.tbr
      BY <1>1, <1>2, SendCachedAdvances
    <2> HIDE DEF c
    <2>3. Prepares(a.b, c, none)
      BY <1>2, <1>9, <2>2, PreparesSelf DEF Prepares, BeingRendered
    <2>4. PICK d : d = [a EXCEPT !.b = c]
      OBVIOUS
    <2>5. d.b = c /\ d.needed = a.needed /\ d.left = a.left /\ d.delayed = a.delayed
      BY <2>4 DEF Takings
    <2>6. Elements(d.needed) = Elements(a.needed) \cup none
      BY <1>9, <2>5
    <2>7. Takes(a, d, r, s)
      BY <2>2, <2>3, <2>5, <2>6 DEF Takes, t
    <2> QED BY <2>1, <2>4, <2>7
  <1>4. CASE ~Cached(a.b, t) /\ (~BeingRendered(a.b, t) \/ a.b.tbr[t].ver < r.ver)
    <2> DEFINE ver == a.b.ver + 1
               next == [a.b EXCEPT !.ver = ver]
               c == SubscribeToTileRendering(next, t, ver, s, stalled)
               again == [r EXCEPT !.ver = ver]
    <2>1. SendRequestedTile(a, r, s, stalled) = [a EXCEPT !.b = c, !.needed = Append(@, again)]
      BY <1>2, <1>4, BrokerIs DEF SendRequestedTile, t
    <2>2. ver \in Nat /\ a.b.ver <= ver
      BY <1>2, BrokerIs
    <2> HIDE DEF ver
    <2>3. again \in TileRequests /\ again.ver = ver /\ again.t = t
      BY <2>2 DEF TileRequests, t
    <2>4. next \in BrokerStates
      BY <1>2, <2>2, VersionBecomes DEF Serves
    <2>5. Advances(a.b, next) /\ Prepares(a.b, next, none) /\ next.ver = ver
      BY <1>2, <1>9, <2>2, VersionAdvances
    <2> HIDE DEF next, again
    <2>6. Subscribes(next, c, t, ver) /\ Subscribed(c, s, t)
      BY <1>1, <2>2, <2>4, SubscribeIs DEF Subscribes
    <2>7. c \in BrokerStates
      BY <1>1, <2>2, <2>4, SubscribeServes DEF Serves
    <2> HIDE DEF c
    <2>8. PICK N \in SUBSET TileRequests : N = {again}
      BY <2>3
    <2>9. Prepares(next, c, N)
      BY <1>1, <2>3, <2>4, <2>5, <2>6, <2>7, <2>8, SubscribesPrepares
    <2>10. Prepares(a.b, c, N)
      <3>1. Prepares(a.b, c, none \cup N)
        BY <1>2, <2>4, <2>5, <2>7, <2>9, PreparesOn
      <3>2. none \cup N = N
        BY <1>9
      <3> QED BY <3>1, <3>2
    <2>11. Advances(a.b, c)
      BY <2>5, <2>6, AdvancesOn DEF Subscribes
    <2>12. PICK more : more = Append(a.needed, again)
      OBVIOUS
    <2>13. Elements(more) = Elements(a.needed) \cup N
      BY <2>3, <2>8, <2>12, TakingsAre, ElementsAppend
    <2>14. PICK d : d = [a EXCEPT !.b = c, !.needed = more]
      OBVIOUS
    <2>15. d.b = c /\ d.needed = more /\ d.left = a.left /\ d.delayed = a.delayed
      BY <2>14 DEF Takings
    <2>16. Takes(a, d, r, s)
      BY <2>6, <2>10, <2>11, <2>13, <2>15 DEF Takes, t
    <2> QED BY <2>1, <2>12, <2>14, <2>16
  <1>5. CASE ~Cached(a.b, t) /\ ~(~BeingRendered(a.b, t) \/ a.b.tbr[t].ver < r.ver)
    <2> DEFINE c == SubscribeToTileRendering(a.b, t, r.ver, s, stalled)
    <2>1. SendRequestedTile(a, r, s, stalled) = [a EXCEPT !.b = c]
      BY <1>5 DEF SendRequestedTile, t
    <2>2. Subscribes(a.b, c, t, r.ver) /\ Subscribed(c, s, t)
      BY <1>1, <1>2, SubscribeIs DEF Subscribes
    <2> HIDE DEF c
    <2>3. ASSUME NEW u \in Tiles, BeingRendered(c, u)
          PROVE  BeingRendered(a.b, u) /\ c.tbr[u].ver <= a.b.tbr[u].ver
      <3>1. a.b.tbr[u].ver \in Nat
        BY <1>2, VersionsAre
      <3>2. CASE u = t
        BY <1>1, <1>5, <2>2, <3>1, <3>2 DEF Subscribes
      <3>3. CASE u # t
        BY <2>2, <2>3, <3>1, <3>3 DEF Subscribes, BeingRendered
      <3> QED BY <3>2, <3>3
    <2>4. Prepares(a.b, c, none)
      BY <1>2, <1>9, <2>2, <2>3, BrokerIs DEF Prepares, Subscribes
    <2>5. PICK d : d = [a EXCEPT !.b = c]
      OBVIOUS
    <2>6. d.b = c /\ d.needed = a.needed /\ d.left = a.left /\ d.delayed = a.delayed
      BY <2>5 DEF Takings
    <2>7. Elements(d.needed) = Elements(a.needed) \cup none
      BY <1>9, <2>6
    <2>8. Takes(a, d, r, s)
      BY <2>2, <2>4, <2>6, <2>7 DEF Takes, Subscribes, t
    <2> QED BY <2>1, <2>5, <2>8
  <1> QED BY <1>3, <1>4, <1>5

LEMMA TakeRequestTakes ==
    ASSUME NEW b, NEW a \in Takings(b), NEW r \in TileRequests, NEW s \in Clients, NEW stalled
    PROVE  Takes(a, TakeRequest(a, r, s, stalled), r, s)
  <1>1. a.b \in BrokerStates /\ a.left \in Seq(TileRequests) /\ a.delayed \in Seq(TileRequests)
    BY TakingsAre
  <1>2. PICK none \in SUBSET TileRequests : none = {}
    OBVIOUS
  <1>3. Advances(a.b, a.b) /\ Prepares(a.b, a.b, none)
    BY <1>1, <1>2, AdvancesSelf, PreparesSelf
  <1>4. CASE Busy(a.b.client[s])
    <2>1. PICK more : more = Append(a.left, r)
      OBVIOUS
    <2>2. Elements(more) = Elements(a.left) \cup {r}
      BY <1>1, <2>1, ElementsAppend
    <2>3. PICK d : d = [a EXCEPT !.left = more]
      OBVIOUS
    <2>4. d.b = a.b /\ d.needed = a.needed /\ d.left = more /\ d.delayed = a.delayed
      BY <2>3 DEF Takings
    <2>5. Elements(d.needed) = Elements(a.needed) \cup none
      BY <1>2, <2>4
    <2>6. Takes(a, d, r, s)
      BY <1>3, <2>2, <2>4, <2>5 DEF Takes
    <2>7. TakeRequest(a, r, s, stalled) = d
      BY <1>4, <2>1, <2>3 DEF TakeRequest
    <2> QED BY <2>6, <2>7
  <1>5. CASE ~Busy(a.b.client[s]) /\ Count(r.t, a.b.client[s].onFly) >= 2
    <2>1. PICK more : more = Append(a.delayed, r)
      OBVIOUS
    <2>2. Elements(more) = Elements(a.delayed) \cup {r}
      BY <1>1, <2>1, ElementsAppend
    <2>3. PICK d : d = [a EXCEPT !.delayed = more]
      OBVIOUS
    <2>4. d.b = a.b /\ d.needed = a.needed /\ d.left = a.left /\ d.delayed = more
      BY <2>3 DEF Takings
    <2>5. Elements(d.needed) = Elements(a.needed) \cup none
      BY <1>2, <2>4
    <2>6. Takes(a, d, r, s)
      BY <1>3, <2>2, <2>4, <2>5 DEF Takes
    <2>7. TakeRequest(a, r, s, stalled) = d
      BY <1>5, <2>1, <2>3 DEF TakeRequest
    <2> QED BY <2>6, <2>7
  <1>6. CASE ~Busy(a.b.client[s]) /\ ~(Count(r.t, a.b.client[s].onFly) >= 2)
    BY <1>6, SendRequestedTileTakes DEF TakeRequest
  <1> QED BY <1>4, <1>5, <1>6

\* What became of a request.
Treated(b, d, r, s) ==
    \/ r \in Elements(d.left) \/ r \in Elements(d.delayed)
    \/ Subscribed(d.b, s, r.t) \/ Has(d.b.client[s], r.t, {b.cache[r.t]})

LEMMA TreatedOn ==
    ASSUME NEW b, NEW a, NEW d, NEW s \in Clients, NEW r \in TileRequests, NEW m,
           Treated(b, a, r, s), Advances(b, a.b), Takes(a, d, m, s)
    PROVE  Treated(b, d, r, s)
  <1>1. r.t \in Tiles /\ a.b.cache = b.cache
    BY RequestIs DEF Advances
  <1>2. /\ Subscribed(a.b, s, r.t) => Subscribed(d.b, s, r.t)
        /\ Reaches(a.b.client[s], d.b.client[s], r.t, {b.cache[r.t]})
    BY <1>1 DEF Takes, Advances
  <1>3. Has(a.b.client[s], r.t, {b.cache[r.t]}) => Has(d.b.client[s], r.t, {b.cache[r.t]})
    BY <1>2, HasOn
  <1> QED BY <1>2, <1>3 DEF Treated, Takes

LEMMA TakeRequestsTreat ==
    ASSUME NEW b \in BrokerStates, NEW ms \in Seq(TileRequests), NEW s \in Clients, NEW stalled
    PROVE  LET d == TakeRequests(b, ms, s, stalled)
           IN /\ Advances(b, d.b) /\ Prepares(b, d.b, Elements(d.needed))
              /\ \A r \in Elements(ms) : Treated(b, d, r, s)
  <1> DEFINE n == Len(ms)
             start == [b |-> b, needed |-> <<>>, left |-> <<>>, delayed |-> <<>>]
  <1>1. PICK k : TakingTurns(k, b, ms, s, stalled)
    BY TakeRequestsTurns
  <1>2. TakeRequests(b, ms, s, stalled) = k[n] /\ k[0] = start
    BY <1>1, Zenon DEF TakingTurns
  <1>3. \A i \in 1..n : k[i] = TakeRequest(k[i - 1], ms[i], s, stalled)
    BY <1>1 DEF TakingTurns
  <1>4. \A i \in 0..n : k[i] \in Takings(b)
    BY <1>1, Zenon DEF TakingTurns
  <1>5. n \in Nat /\ \A i \in 1..n : ms[i] \in TileRequests
    OBVIOUS
  <1> DEFINE T == {i \in 0..n : /\ Advances(b, k[i].b)
                                /\ Prepares(b, k[i].b, Elements(k[i].needed))
                                /\ \A j \in 1..i : Treated(b, k[i], ms[j], s)}
  <1>6. 0 \in T
    <2>1. PICK none : none = <<>>
      OBVIOUS
    <2>2. k[0].b = b /\ k[0].needed = none
      BY <1>2, <2>1
    <2>3. Elements(none) = {}
      BY <2>1, NoElements
    <2>4. Advances(b, k[0].b) /\ Prepares(b, k[0].b, Elements(k[0].needed))
      BY <2>2, <2>3, AdvancesSelf, PreparesSelf
    <2> QED BY <1>5, <2>4
  <1>7. ASSUME NEW i \in 1..n, i - 1 \in T PROVE i \in T
    <2>1. PICK a : a = k[i - 1]
      OBVIOUS
    <2>2. PICK d : d = k[i]
      OBVIOUS
    <2>3. a \in Takings(b) /\ d \in Takings(b) /\ ms[i] \in TileRequests
      BY <1>4, <1>5, <2>1, <2>2, i - 1 \in 0..n, i \in 0..n
    <2>4. Takes(a, d, ms[i], s)
      BY <1>3, <2>1, <2>2, <2>3, TakeRequestTakes
    <2>5. /\ Advances(b, a.b) /\ Prepares(b, a.b, Elements(a.needed))
          /\ \A j \in 1..(i - 1) : Treated(b, a, ms[j], s)
      BY <1>7, <2>1
    <2>6. Advances(b, d.b)
      BY <2>4, <2>5, AdvancesOn DEF Takes
    <2>7. Prepares(b, d.b, Elements(d.needed))
      <3>1. PICK N \in SUBSET TileRequests :
              Prepares(a.b, d.b, N) /\ Elements(d.needed) = Elements(a.needed) \cup N
        BY <2>4 DEF Takes
      <3>2. /\ a.b \in BrokerStates /\ d.b \in BrokerStates
            /\ Elements(a.needed) \in SUBSET TileRequests
        BY <2>3, TakingsAre, ElementsAre
      <3>3. Prepares(b, d.b, Elements(a.needed) \cup N)
        BY <2>5, <3>1, <3>2, PreparesOn
      <3> QED BY <3>1, <3>3
    <2>8. ASSUME NEW j \in 1..i PROVE Treated(b, d, ms[j], s)
      <3>1. CASE j = i
        <4>1. a.b.cache = b.cache
          BY <2>5 DEF Advances
        <4> QED BY <2>4, <3>1, <4>1 DEF Takes, Treated
      <3>2. CASE j # i
        <4>1. j \in 1..(i - 1) /\ ms[j] \in TileRequests
          BY <1>5, <3>2
        <4> QED BY <2>4, <2>5, <4>1, TreatedOn
      <3> QED BY <3>1, <3>2
    <2> QED BY <2>2, <2>6, <2>7, <2>8, i \in 0..n
  <1> HIDE DEF T
  <1>8. n \in T
    BY <1>5, <1>6, <1>7, TurnByTurn, n \in 0..n
  <1>9. PICK d : d = TakeRequests(b, ms, s, stalled)
    OBVIOUS
  <1>10. d = k[n]
    BY <1>2, <1>9
  <1>11. /\ Advances(b, d.b) /\ Prepares(b, d.b, Elements(d.needed))
         /\ \A j \in 1..n : Treated(b, d, ms[j], s)
    BY <1>8, <1>10 DEF T
  <1>12. \A r \in Elements(ms) : Treated(b, d, r, s)
    BY <1>11 DEF Elements
  <1> QED BY <1>9, <1>11, <1>12

LEMMA SendRequestedTilesAnswers ==
    ASSUME NEW b \in BrokerStates, NEW s \in Clients, NEW outdated, NEW stalled
    PROVE  LET c == SendRequestedTiles(b, s, outdated, stalled)
           IN Answers(b, c, Stock(b)) /\ Registers(b, c)
  <1> DEFINE onFly == Except(b.client[s].onFly, 1..outdated)
             x == [b.client[s] EXCEPT !.onFly = onFly]
             start == [b EXCEPT !.client[s] = x]
             done == TakeRequests(start, b.client[s].requested, s, stalled)
             y == [done.b.client[s] EXCEPT !.requested = done.left \o done.delayed]
             after == [done.b EXCEPT !.client[s] = y]
             c == SendToKit(after, done.needed)
  <1>1. b.client[s] \in ClientStates /\ b.client[s].requested \in Seq(TileRequests)
    BY BrokerIs, ClientIs
  <1>2. x \in ClientStates /\ Alike(b.client[s], x) /\ x.rendering = b.client[s].rendering
    <2>1. onFly \in Seq(Tiles)
      BY <1>1, ClientIs, ExceptIs
    <2> HIDE DEF onFly
    <2> QED BY <1>1, <2>1 DEF ClientStates, Alike
  <1>3. SendRequestedTiles(b, s, outdated, stalled) = c
    <2>1. start = [b EXCEPT !.client[s].onFly = Except(@, 1..outdated)]
      BY BrokerIs
    <2>2. after = [done.b EXCEPT !.client[s].requested = done.left \o done.delayed]
      BY BrokerIs
    <2> HIDE DEF start
    <2> QED BY <2>1, <2>2 DEF SendRequestedTiles
  <1> HIDE DEF x
  <1>4. start \in BrokerStates
    BY <1>2, ClientBecomes DEF Serves
  <1>5. /\ start.ver = b.ver /\ start.tbr = b.tbr /\ start.cache = b.cache
        /\ start.queue = b.queue
        /\ \A r \in Clients : start.client[r] = IF r = s THEN x ELSE b.client[r]
    BY BrokerIs
  <1> HIDE DEF start
  <1>6. Advances(b, start)
    <2>1. \A r \in Clients : Alike(b.client[r], start.client[r])
      BY <1>2, <1>5 DEF Alike
    <2> QED BY <1>5, <2>1, AlikeAdvances DEF Subscribed
  <1>7. /\ Advances(start, done.b) /\ Prepares(start, done.b, Elements(done.needed))
        /\ \A r \in Elements(b.client[s].requested) : Treated(start, done, r, s)
    BY <1>1, <1>4, TakeRequestsTreat
  <1>8. done \in Takings(start)
    BY <1>1, <1>4, TakeRequestsServe
  <1> HIDE DEF done
  <1>9. /\ done.b \in BrokerStates /\ done.needed \in Seq(TileRequests)
        /\ done.left \in Seq(TileRequests) /\ done.delayed \in Seq(TileRequests)
    BY <1>8, TakingsAre
  <1>10. PICK rest : rest = done.left \o done.delayed
    OBVIOUS
  <1>11. rest \in Seq(TileRequests) /\ Elements(rest) = Elements(done.left) \cup Elements(done.delayed)
    BY <1>9, <1>10, ElementsConcat
  <1>12. /\ y \in ClientStates /\ y.requested = rest /\ y.rendering = done.b.client[s].rendering
         /\ y.out = done.b.client[s].out /\ y.wids = done.b.client[s].wids
    <2>1. done.b.client[s] \in ClientStates
      BY <1>9, BrokerIs
    <2> QED BY <1>10, <1>11, <2>1 DEF ClientStates
  <1> HIDE DEF y
  <1>13. after \in BrokerStates
    BY <1>9, <1>12, ClientBecomes DEF Serves
  <1>14. /\ after.ver = done.b.ver /\ after.tbr = done.b.tbr /\ after.cache = done.b.cache
         /\ after.queue = done.b.queue
         /\ \A r \in Clients : after.client[r] = IF r = s THEN y ELSE done.b.client[r]
    BY <1>9, BrokerIs
  <1> HIDE DEF after
  <1>15. Registers(b, c)
    <2>1. Prepares(b, after, Elements(done.needed))
      BY <1>5, <1>7, <1>14 DEF Prepares, BeingRendered
    <2> QED BY <1>9, <1>13, <2>1, SendToKitRegisters
  <1>16. c.client = after.client /\ c.tbr = after.tbr
    BY <1>13, SendToKitIs
  <1> HIDE DEF c
  <1>17. Advances(b, done.b)
    BY <1>6, <1>7, AdvancesOn
  <1>18. ASSUME NEW r \in Clients, NEW t \in Tiles
         PROVE  /\ Reaches(b.client[r], c.client[r], t, {b.cache[t]})
                /\ Owes(b, r, t) => Owes(c, r, t) \/ Has(c.client[r], t, {b.cache[t]})
    <2>1. /\ Reaches(b.client[r], done.b.client[r], t, {b.cache[t]})
          /\ Subscribed(b, r, t) => Subscribed(done.b, r, t)
          /\ done.b.client[r].requested = b.client[r].requested
      BY <1>17 DEF Advances
    <2>2. Subscribed(done.b, r, t) <=> Subscribed(c, r, t)
      BY <1>14, <1>16 DEF Subscribed
    <2>3. CASE r # s
      <3>1. c.client[r] = done.b.client[r]
        BY <1>14, <1>16, <2>3
      <3> QED BY <2>1, <2>2, <3>1 DEF Owes, Wants
    <2>4. CASE r = s
      <3>1. c.client[r] = y
        BY <1>14, <1>16, <2>4
      <3>2. Reaches(b.client[r], y, t, {b.cache[t]})
        BY <1>12, <2>1, <2>4 DEF Reaches, Due
      <3>3. ASSUME Wants(b.client[r], t)
            PROVE  Owes(c, r, t) \/ Has(y, t, {b.cache[t]})
        <4>1. PICK m \in Elements(b.client[s].requested) : m.t = t
          BY <2>4, <3>3 DEF Wants
        <4>2. Treated(start, done, m, s)
          BY <1>7, <4>1
        <4>3. CASE m \in Elements(done.left) \/ m \in Elements(done.delayed)
          <5>1. Wants(y, t)
            BY <1>11, <1>12, <4>1, <4>3 DEF Wants
          <5> QED BY <3>1, <5>1 DEF Owes
        <4>4. CASE Subscribed(done.b, s, m.t)
          BY <2>2, <2>4, <4>1, <4>4 DEF Owes
        <4>5. CASE Has(done.b.client[s], m.t, {start.cache[m.t]})
          <5>1. Has(done.b.client[s], t, {b.cache[t]})
            BY <1>5, <4>1, <4>5
          <5> QED BY <1>12, <5>1 DEF Has, Due
        <4> QED BY <4>2, <4>3, <4>4, <4>5 DEF Treated
      <3> QED BY <2>1, <2>2, <3>1, <3>2, <3>3 DEF Owes
    <2> QED BY <2>3, <2>4
  <1>19. Answers(b, c, Stock(b))
    <2>1. \A t \in Tiles : Stock(b)[t] = {b.cache[t]}
      BY DEF Stock
    <2> QED BY <1>18, <2>1 DEF Answers
  <1> QED BY <1>3, <1>15, <1>19 DEF c

LEMMA AccumulatedWants ==
    ASSUME NEW ms \in Seq(TileRequests), NEW new \in Seq(TileRequests), NEW m,
           m \in Elements(ms) \/ m \in Elements(new)
    PROVE  \E r \in Elements(Accumulated(ms, new)) : r.t = m.t
  <1> DEFINE Known(t) == \E i \in 1..Len(ms) : ms[i].t = t
             Newer(r) == IF \E i \in 1..Len(new) : new[i].t = r.t
                         THEN new[CHOOSE i \in 1..Len(new) : new[i].t = r.t] ELSE r
             kept == [i \in 1..Len(ms) |-> Newer(ms[i])]
             old == {i \in 1..Len(new) : Known(new[i].t)}
             added == Except(new, old)
  <1>1. PICK all : all = Accumulated(ms, new)
    OBVIOUS
  <1>2. all = kept \o added
    BY <1>1 DEF Accumulated
  <1>3. \A i \in 1..Len(ms) : Newer(ms[i]) \in TileRequests /\ Newer(ms[i]).t = ms[i].t
    <2> TAKE i \in 1..Len(ms)
    <2>1. CASE \E j \in 1..Len(new) : new[j].t = ms[i].t
      <3> DEFINE j == CHOOSE l \in 1..Len(new) : new[l].t = ms[i].t
      <3>1. j \in 1..Len(new) /\ new[j].t = ms[i].t
        BY <2>1
      <3>2. Newer(ms[i]) = new[j]
        BY <2>1
      <3> HIDE DEF j
      <3> QED BY <3>1, <3>2
    <2>2. CASE ~(\E j \in 1..Len(new) : new[j].t = ms[i].t)
      BY <2>2
    <2> QED BY <2>1, <2>2
  <1> HIDE DEF Newer
  <1>4. /\ kept \in Seq(TileRequests) /\ Len(kept) = Len(ms)
        /\ \A i \in 1..Len(ms) : kept[i].t = ms[i].t
    BY <1>3
  <1>5. \A i \in old : \E j \in 1..Len(ms) : ms[j].t = new[i].t
    OBVIOUS
  <1> HIDE DEF old
  <1>6. added \in Seq(TileRequests) /\ Elements(added) = {new[i] : i \in (1..Len(new)) \ old}
    BY ExceptIs
  <1> HIDE DEF kept, added
  <1>7. Elements(all) = Elements(kept) \cup Elements(added)
    BY <1>2, <1>4, <1>6, ElementsConcat
  <1>8. \A i \in 1..Len(ms) : \E r \in Elements(all) : r.t = ms[i].t
    BY <1>4, <1>7 DEF Elements
  <1>9. \A i \in 1..Len(new) : \E r \in Elements(all) : r.t = new[i].t
    BY <1>5, <1>6, <1>7, <1>8
  <1>10. \E r \in Elements(all) : r.t = m.t
    BY <1>8, <1>9 DEF Elements
  <1> QED BY <1>1, <1>10

LEMMA RegisterPrepares ==
    ASSUME NEW b \in BrokerStates, NEW ms \in Seq(TileRequests), NEW stalled
    PROVE  LET c == RegisterTilesBeingRendered(b, ms, stalled)
           IN /\ c.ver = b.ver /\ c.queue = b.queue /\ Advances(b, c)
              /\ \A t \in Tiles : \/ c.tbr[t] = b.tbr[t]
                                  \/ \E r \in Elements(ms) : r.t = t /\ r.ver = c.tbr[t].ver
  <1> DEFINE Requested(t) == {i \in 1..Len(ms) : ms[i].t = t}
             x == [t \in Tiles |->
                     IF Requested(t) = {} \/ (BeingRendered(b, t) /\ t \notin stalled)
                     THEN b.tbr[t]
                     ELSE [b.tbr[t] EXCEPT !.ver = ms[CHOOSE i \in Requested(t) : TRUE].ver]]
  <1>1. PICK c : c = RegisterTilesBeingRendered(b, ms, stalled)
    OBVIOUS
  <1>2. c = [b EXCEPT !.tbr = x]
    BY <1>1, BrokerIs DEF RegisterTilesBeingRendered
  <1>3. ASSUME NEW t \in Tiles
        PROVE  /\ x[t].subs = b.tbr[t].subs
               /\ x[t] = b.tbr[t] \/ \E r \in Elements(ms) : r.t = t /\ r.ver = x[t].ver
    <2>1. b.tbr[t] \in TileStates
      BY BrokerIs
    <2>2. CASE Requested(t) = {} \/ (BeingRendered(b, t) /\ t \notin stalled)
      BY <2>1, <2>2
    <2>3. CASE ~(Requested(t) = {} \/ (BeingRendered(b, t) /\ t \notin stalled))
      <3> DEFINE i == CHOOSE j \in Requested(t) : TRUE
      <3>1. x[t] = [b.tbr[t] EXCEPT !.ver = ms[i].ver]
        BY <2>3
      <3>2. i \in Requested(t)
        BY <2>3
      <3>3. ms[i] \in Elements(ms) /\ ms[i].t = t
        BY <3>2 DEF Elements
      <3> HIDE DEF i, x
      <3> QED BY <2>1, <3>1, <3>3 DEF TileStates
    <2> QED BY <2>2, <2>3
  <1> HIDE DEF x
  <1>4. /\ c.ver = b.ver /\ c.queue = b.queue /\ c.cache = b.cache /\ c.client = b.client
        /\ c.tbr = x
    BY <1>2, BrokerIs
  <1>5. \A s \in Clients, t \in Tiles : Subscribed(b, s, t) => Subscribed(c, s, t)
    BY <1>3, <1>4, SubscribedIs
  <1>6. Advances(b, c)
    BY <1>4, <1>5, AlikeAdvances DEF Alike
  <1> QED BY <1>1, <1>3, <1>4, <1>6

LEMMA HandleTileCombinedRequestAnswers ==
    ASSUME NEW b \in BrokerStates, NEW s \in Clients, NEW tiles \in Seq(Tiles),
           NEW old \in [Tiles -> Nat], NEW outdated, NEW stalled
    PROVE  LET c == HandleTileCombinedRequest(b, s, tiles, old, outdated, stalled)
           IN /\ Answers(b, c, Stock(b)) /\ Registers(b, c)
              /\ \A t \in Elements(tiles) : Owes(c, s, t) \/ Has(c.client[s], t, {b.cache[t]})
              /\ InVersion(b) /\ TilesInVersion(b) =>
                   \A t \in Elements(tiles) : ~Cached(b, t) /\ BeingRendered(c, t)
                                                => Asked(c.queue, t, c.tbr[t].ver)
  <1> DEFINE new == [i \in 1..Len(tiles) |-> TileRequest(tiles[i], b.ver + i, old[tiles[i]])]
             needed == Except(new, {i \in 1..Len(new) : Cached(b, tiles[i])})
             ver == b.ver + Len(tiles)
             next == [b EXCEPT !.ver = ver]
             registered == RegisterTilesBeingRendered(next, needed, stalled)
             prerendered == SendToKit(registered, needed)
             x == [prerendered.client[s] EXCEPT
                     !.requested = Accumulated(prerendered.client[s].requested, new)]
             wanted == [prerendered EXCEPT !.client[s] = x]
             c == SendRequestedTiles(wanted, s, outdated, stalled)
  <1>1. HandleTileCombinedRequest(b, s, tiles, old, outdated, stalled) = c
    <2>1. wanted = [prerendered EXCEPT !.client[s].requested = Accumulated(@, new)]
      BY BrokerIs
    <2>2. next = [b EXCEPT !.ver = @ + Len(tiles)]
      BY BrokerIs
    <2> HIDE DEF wanted, next
    <2> QED BY <2>1, <2>2 DEF HandleTileCombinedRequest
  <1>2. b.ver \in Nat /\ Len(tiles) \in Nat /\ ver \in Nat /\ b.ver <= ver
    BY BrokerIs
  <1>3. /\ new \in Seq(TileRequests) /\ Len(new) = Len(tiles)
        /\ \A i \in 1..Len(tiles) : new[i].t = tiles[i] /\ new[i].ver = b.ver + i
    <2>1. \A i \in 1..Len(tiles) :
            tiles[i] \in Tiles /\ old[tiles[i]] \in Nat /\ b.ver + i \in Nat
      BY <1>2
    <2>2. \A i \in 1..Len(tiles) :
            TileRequest(tiles[i], b.ver + i, old[tiles[i]]) \in TileRequests
      BY <2>1, TileRequestIs
    <2>3. new \in Seq(TileRequests)
      BY <1>2, <2>2
    <2> QED BY <1>2, <2>3 DEF TileRequest
  <1>4. \A r \in Elements(new) : b.ver <= r.ver /\ r.ver <= ver
    BY <1>2, <1>3 DEF Elements
  <1> HIDE DEF ver, new
  <1>5. /\ needed \in Seq(TileRequests) /\ \A r \in Elements(needed) : r \in Elements(new)
        /\ \A i \in 1..Len(new) : ~Cached(b, tiles[i]) => new[i] \in Elements(needed)
    <2>1. PICK I : I = {i \in 1..Len(new) : Cached(b, tiles[i])}
      OBVIOUS
    <2>2. needed = Except(new, I)
      BY <2>1
    <2> HIDE DEF needed
    <2>3. needed \in Seq(TileRequests) /\ Elements(needed) = {new[i] : i \in (1..Len(new)) \ I}
      BY <1>3, <2>2, ExceptIs
    <2>4. \A i \in 1..Len(new) : ~Cached(b, tiles[i]) => i \notin I
      BY <2>1
    <2>5. \A r \in Elements(needed) : r \in Elements(new)
      BY <2>3 DEF Elements
    <2>6. \A i \in 1..Len(new) : ~Cached(b, tiles[i]) => new[i] \in Elements(needed)
      BY <2>3, <2>4
    <2> QED BY <2>3, <2>5, <2>6
  <1> HIDE DEF needed
  <1>6. /\ next \in BrokerStates /\ next.ver = ver /\ next.tbr = b.tbr /\ next.queue = b.queue
        /\ Advances(b, next)
    <2>1. next \in BrokerStates
      BY <1>2, VersionBecomes DEF Serves
    <2> QED BY <1>2, <2>1, VersionAdvances
  <1> HIDE DEF next
  <1>7. /\ registered \in BrokerStates
        /\ registered.ver = ver /\ registered.queue = b.queue /\ Advances(b, registered)
        /\ \A t \in Tiles :
             \/ registered.tbr[t] = b.tbr[t]
             \/ \E r \in Elements(needed) : r.t = t /\ r.ver = registered.tbr[t].ver
    <2>1. registered \in BrokerStates
      BY <1>5, <1>6, RegisterServes DEF Serves
    <2>2. /\ registered.ver = next.ver /\ registered.queue = next.queue
          /\ Advances(next, registered)
          /\ \A t \in Tiles :
               \/ registered.tbr[t] = next.tbr[t]
               \/ \E r \in Elements(needed) : r.t = t /\ r.ver = registered.tbr[t].ver
      <3>1. next \in BrokerStates /\ needed \in Seq(TileRequests)
        BY <1>5, <1>6
      <3> QED BY <3>1, RegisterPrepares, SMTT(60)
    <2> HIDE DEF registered
    <2>3. Advances(b, registered)
      BY <1>6, <2>2, AdvancesOn
    <2> QED BY <1>6, <2>1, <2>2, <2>3
  <1> HIDE DEF registered
  <1>8. Prepares(b, registered, Elements(needed))
    <2>1. ASSUME NEW t \in Tiles, BeingRendered(registered, t)
          PROVE  \/ \E r \in Elements(needed) : r.t = t /\ r.ver >= registered.tbr[t].ver
                 \/ BeingRendered(b, t) /\ registered.tbr[t].ver <= b.tbr[t].ver
      <3>1. registered.tbr[t].ver \in Nat
        BY <1>7, VersionsAre
      <3> QED BY <1>7, <2>1, <3>1 DEF BeingRendered
    <2> QED BY <1>2, <1>4, <1>5, <1>7, <2>1 DEF Prepares
  <1>9. /\ prerendered \in BrokerStates /\ Registers(b, prerendered) /\ Advances(b, prerendered)
        /\ prerendered.tbr = registered.tbr
        /\ \A r \in Elements(needed) : r \in Elements(prerendered.queue)
    <2>1. prerendered \in BrokerStates
      BY <1>5, <1>7, SendToKitServes DEF Serves
    <2>2. Registers(b, prerendered)
      BY <1>5, <1>7, <1>8, SendToKitRegisters
    <2>3. Advances(b, prerendered)
      BY <1>7, SendToKitAdvances, AdvancesOn
    <2>4. prerendered.tbr = registered.tbr /\ prerendered.queue = PutTiles(registered.queue, needed)
      BY <1>7, SendToKitIs
    <2>5. registered.queue \in Seq(KitMessages)
      BY <1>7, BrokerIs
    <2>6. \A r \in Elements(needed) : r \in Elements(PutTiles(registered.queue, needed))
      BY <1>5, <2>5, PutTilesAsks
    <2> HIDE DEF prerendered
    <2> QED BY <2>1, <2>2, <2>3, <2>4, <2>6
  <1> HIDE DEF prerendered
  <1>10. PICK all : all = Accumulated(prerendered.client[s].requested, new)
    OBVIOUS
  <1>11. /\ all \in Seq(TileRequests)
         /\ \A t : Wants(prerendered.client[s], t) => \E r \in Elements(all) : r.t = t
         /\ \A r \in Elements(new) : \E m \in Elements(all) : m.t = r.t
    <2>1. prerendered.client[s].requested \in Seq(TileRequests)
      BY <1>9, BrokerIs, ClientIs
    <2>2. all \in Seq(TileRequests)
      BY <1>3, <1>10, <2>1, AccumulatedIs
    <2>3. \A m : m \in Elements(prerendered.client[s].requested) \/ m \in Elements(new)
                   => \E r \in Elements(all) : r.t = m.t
      BY <1>3, <1>10, <2>1, AccumulatedWants
    <2> QED BY <2>2, <2>3 DEF Wants
  <1>12. /\ x \in ClientStates /\ x.rendering = prerendered.client[s].rendering
         /\ x.requested = all /\ x.out = prerendered.client[s].out
         /\ x.wids = prerendered.client[s].wids
    <2>1. prerendered.client[s] \in ClientStates
      BY <1>9, BrokerIs
    <2> QED BY <1>10, <1>11, <2>1 DEF ClientStates
  <1> HIDE DEF x
  <1>13. wanted \in BrokerStates
    BY <1>9, <1>12, ClientBecomes DEF Serves
  <1>14. /\ wanted.ver = prerendered.ver /\ wanted.tbr = prerendered.tbr
         /\ wanted.cache = prerendered.cache /\ wanted.queue = prerendered.queue
         /\ \A r \in Clients : wanted.client[r] = IF r = s THEN x ELSE prerendered.client[r]
    BY <1>9, BrokerIs
  <1> HIDE DEF wanted
  <1>15. Stock(wanted) = Stock(b)
    BY <1>9, <1>14 DEF Stock, Advances
  <1>16. Answers(prerendered, wanted, Stock(b))
    <2> SUFFICES ASSUME NEW r \in Clients, NEW t \in Tiles
                 PROVE  /\ Reaches(prerendered.client[r], wanted.client[r], t, Stock(b)[t])
                        /\ Owes(prerendered, r, t) => Owes(wanted, r, t)
      BY DEF Answers
    <2>1. Reaches(prerendered.client[r], wanted.client[r], t, Stock(b)[t])
      BY <1>12, <1>14 DEF Reaches, Due
    <2>2. Wants(prerendered.client[r], t) => Wants(wanted.client[r], t)
      BY <1>11, <1>12, <1>14 DEF Wants
    <2>3. Subscribed(prerendered, r, t) => Subscribed(wanted, r, t)
      BY <1>14 DEF Subscribed
    <2> QED BY <2>1, <2>2, <2>3 DEF Owes
  <1>17. Answers(wanted, c, Stock(b)) /\ Registers(wanted, c) /\ c \in BrokerStates
    <2>1. Answers(wanted, c, Stock(wanted)) /\ Registers(wanted, c)
      BY <1>13, SendRequestedTilesAnswers
    <2>2. c \in BrokerStates
      BY <1>13, SendRequestedTilesServes DEF Serves
    <2> HIDE DEF c
    <2> QED BY <1>15, <2>1, <2>2
  <1> HIDE DEF c
  <1>18. Answers(b, c, Stock(b))
    <2>1. Answers(b, prerendered, Stock(b))
      BY <1>9, AdvancesAnswers
    <2> QED BY <1>16, <1>17, <2>1, AnswersOn
  <1>19. Registers(b, c)
    <2>1. Registers(prerendered, wanted)
      BY <1>9, <1>13, <1>14, UnchangedRegisters, BrokerIs
    <2>2. Registers(b, wanted)
      BY <1>9, <1>13, <2>1, RegistersOn
    <2> QED BY <1>13, <1>17, <2>2, RegistersOn
  <1>20. ASSUME NEW t \in Elements(tiles)
         PROVE  Owes(c, s, t) \/ Has(c.client[s], t, {b.cache[t]})
    <2>1. PICK i \in 1..Len(tiles) : t = tiles[i]
      BY DEF Elements
    <2>2. t \in Tiles /\ new[i] \in Elements(new) /\ new[i].t = t
      BY <1>3, <2>1 DEF Elements
    <2>3. Owes(wanted, s, t)
      BY <1>11, <1>12, <1>14, <2>2 DEF Owes, Wants
    <2>4. Stock(b)[t] = {b.cache[t]}
      BY <2>2 DEF Stock
    <2> QED BY <1>17, <2>2, <2>3, <2>4 DEF Answers
  <1>21. ASSUME InVersion(b), TilesInVersion(b),
                NEW t \in Elements(tiles), ~Cached(b, t), BeingRendered(c, t)
         PROVE  Asked(c.queue, t, c.tbr[t].ver)
    <2>1. PICK i \in 1..Len(tiles) : t = tiles[i]
      BY DEF Elements
    <2>2. PICK r : r = new[i]
      OBVIOUS
    <2>3. /\ t \in Tiles /\ r \in Elements(needed) /\ r.t = t /\ r.k = "tile" /\ r.ver \in Nat
          /\ b.ver <= r.ver
      <3>1. r \in Elements(needed) /\ r.t = t /\ r.ver = b.ver + i /\ r \in TileRequests
        BY <1>3, <1>5, <1>21, <2>1, <2>2
      <3> QED BY <1>2, <2>1, <3>1, RequestIs
    <2>4. Registers(prerendered, c)
      <3>1. Registers(prerendered, wanted)
        BY <1>9, <1>13, <1>14, UnchangedRegisters, BrokerIs
      <3> QED BY <1>9, <1>13, <1>17, <3>1, RegistersOn
    <2>5. InVersion(prerendered)
      BY <1>9, <1>21 DEF Registers
    <2>6. prerendered.tbr[t].ver \in Nat /\ c.tbr[t].ver \in Nat /\ b.tbr[t].ver \in Nat /\ b.ver \in Nat
      BY <1>9, <1>17, <2>3, VersionsAre
    <2>7. ASSUME NEW m \in Elements(needed), m.t = t, c.tbr[t].ver <= m.ver
          PROVE  Asked(c.queue, t, c.tbr[t].ver)
      <3>1. m \in TileRequests /\ m.k = "tile" /\ m.ver \in Nat
        BY <1>5, <2>7, ElementsAre, RequestIs
      <3>2. Asked(prerendered.queue, t, m.ver)
        BY <1>9, <2>7, <3>1 DEF Asked
      <3>3. Asked(c.queue, t, m.ver)
        BY <2>3, <2>4, <2>5, <3>1, <3>2 DEF Registers
      <3>4. c.queue \in Seq(KitMessages)
        BY <1>17, BrokerIs
      <3> QED BY <2>6, <2>7, <3>1, <3>3, <3>4, AskedLess
    <2>8. CASE BeingRendered(prerendered, t) /\ c.tbr[t].ver <= prerendered.tbr[t].ver
      <3>1. CASE registered.tbr[t] = b.tbr[t]
        <4>1. BeingRendered(b, t) /\ prerendered.tbr[t].ver = b.tbr[t].ver
          BY <1>9, <2>8, <3>1 DEF BeingRendered
        <4>2. b.tbr[t].ver <= b.ver
          BY <1>21, <2>3, <4>1 DEF TilesInVersion
        <4>3. c.tbr[t].ver <= r.ver
          BY <2>3, <2>6, <2>8, <4>1, <4>2
        <4> QED BY <2>3, <2>7, <4>3
      <3>2. CASE \E m \in Elements(needed) : m.t = t /\ m.ver = registered.tbr[t].ver
        BY <1>9, <2>7, <2>8, <3>2
      <3> QED BY <1>7, <2>3, <3>1, <3>2
    <2> QED BY <1>21, <2>3, <2>4, <2>5, <2>8 DEF Registers
  <1> QED BY <1>1, <1>18, <1>19, <1>20, <1>21 DEF c

LEMMA InOrderHas == ASSUME NEW ts \in SUBSET Tiles PROVE Elements(InOrder(ts)) = ts
  <1> DEFINE all == [i \in 1..TileCount |-> i - 1]
             I == {t + 1 : t \in ts}
  <1>1. all \in Seq(Tiles) /\ Len(all) = TileCount /\ \A i \in 1..TileCount : all[i] = i - 1
    BY TilesAssumption DEF Tiles
  <1>2. \A i \in 1..TileCount : i \in I <=> i - 1 \in ts
    BY TilesAssumption DEF Tiles
  <1>3. \A t \in ts : t + 1 \in 1..TileCount /\ (t + 1) - 1 = t
    BY TilesAssumption DEF Tiles
  <1> HIDE DEF all, I
  <1>4. InOrder(ts) = Kept(all, I)
    BY DEF InOrder, all, I
  <1>5. Elements(Kept(all, I)) = {all[i] : i \in 1..Len(all) \cap I}
    BY <1>1, KeptIs
  <1>6. ASSUME NEW t \in ts PROVE t \in {all[i] : i \in 1..Len(all) \cap I}
    <2>1. t + 1 \in 1..Len(all) \cap I /\ all[t + 1] = t
      BY <1>1, <1>2, <1>3
    <2> QED BY <2>1
  <1>7. ASSUME NEW i \in 1..Len(all) \cap I PROVE all[i] \in ts
    BY <1>1, <1>2
  <1> QED BY <1>4, <1>5, <1>6, <1>7

\* The tiles that leave the cache and are on the screen are owed to the session.
LEMMA HandleTileInvalidationAnswers ==
    ASSUME NEW b \in BrokerStates, NEW s \in Clients, NEW ts \in SUBSET Tiles, NEW outdated,
           NEW stalled
    PROVE  LET a == Invalidated(b, ts)
               c == HandleTileInvalidation(b, s, ts, outdated, stalled)
           IN /\ Answers(b, c, Stock(a)) /\ Registers(b, c)
              /\ \A t \in ts \ Previews : Owes(c, s, t) \/ Has(c.client[s], t, Stock(a)[t])
              /\ InVersion(b) /\ TilesInVersion(b) =>
                   \A t \in ts \ Previews : BeingRendered(c, t) => Asked(c.queue, t, c.tbr[t].ver)
  <1> DEFINE a == Invalidated(b, ts)
             visible == InOrder(ts \ Previews)
             wids == b.client[s].wids
  <1>1. PICK c : c = HandleTileInvalidation(b, s, ts, outdated, stalled)
    OBVIOUS
  <1>2. visible \in Seq(Tiles) /\ wids \in [Tiles -> Nat] /\ Elements(visible) = ts \ Previews
    <2>1. PICK us \in SUBSET Tiles : us = ts \ Previews
      OBVIOUS
    <2>2. InOrder(us) \in Seq(Tiles) /\ Elements(InOrder(us)) = us
      BY InOrderIs, InOrderHas
    <2>3. wids \in [Tiles -> Nat]
      BY BrokerIs, ClientIs
    <2> QED BY <2>1, <2>2, <2>3
  <1>3. /\ a \in BrokerStates /\ a.queue = b.queue /\ a.client = b.client /\ a.tbr = b.tbr
        /\ a.ver = b.ver /\ \A t \in ts : ~Cached(a, t)
    <2>1. a \in BrokerStates
      BY InvalidatedIs
    <2>2. PICK x : x = [t \in Tiles |-> IF t \in ts THEN NoTile ELSE b.cache[t]]
      OBVIOUS
    <2>3. a = [b EXCEPT !.cache = x]
      BY <2>2 DEF Invalidated
    <2> HIDE DEF a
    <2>4. a.cache = x
      BY <2>3, BrokerIs
    <2>5. \A t \in ts : ~Cached(a, t)
      BY <2>2, <2>4 DEF Cached
    <2>6. /\ a.queue = b.queue /\ a.client = b.client /\ a.tbr = b.tbr /\ a.ver = b.ver
      BY <2>3, BrokerIs
    <2> QED BY <2>1, <2>5, <2>6
  <1>4. c = IF visible = <<>> THEN a
            ELSE HandleTileCombinedRequest(a, s, visible, wids, outdated, stalled)
    BY <1>1 DEF HandleTileInvalidation
  <1> HIDE DEF a, visible, wids
  <1>5. Answers(b, a, Stock(a))
    BY <1>3, AlikeReaches DEF Answers, Alike, Owes, Subscribed
  <1>6. Registers(b, a)
    BY <1>3, UnchangedRegisters, BrokerIs
  <1>7. CASE visible = <<>>
    <2>1. c = a /\ ts \ Previews = {}
      BY <1>2, <1>4, <1>7, NoElements
    <2>2. /\ Answers(b, c, Stock(a)) /\ Registers(b, c)
          /\ \A t \in ts \ Previews : Owes(c, s, t) \/ Has(c.client[s], t, Stock(a)[t])
      BY <1>5, <1>6, <2>1
    <2> QED BY <1>1, <2>1, <2>2 DEF a
  <1>8. CASE visible # <<>>
    <2>1. c = HandleTileCombinedRequest(a, s, visible, wids, outdated, stalled)
      BY <1>4, <1>8
    <2>2. /\ Answers(a, c, Stock(a)) /\ Registers(a, c)
          /\ \A t \in Elements(visible) : Owes(c, s, t) \/ Has(c.client[s], t, {a.cache[t]})
          /\ InVersion(a) /\ TilesInVersion(a) =>
               \A t \in Elements(visible) : ~Cached(a, t) /\ BeingRendered(c, t)
                                              => Asked(c.queue, t, c.tbr[t].ver)
      BY <1>2, <1>3, <2>1, HandleTileCombinedRequestAnswers
    <2>3. c \in BrokerStates
      BY <1>2, <1>3, <2>1, HandleTileCombinedRequestServes DEF Serves
    <2>4. Registers(b, c)
      BY <1>3, <1>6, <2>2, <2>3, RegistersOn
    <2>5. Answers(b, c, Stock(a))
      BY <1>5, <2>2, AnswersOn
    <2>6. \A t \in ts \ Previews : Owes(c, s, t) \/ Has(c.client[s], t, Stock(a)[t])
      BY <1>2, <2>2 DEF Stock
    <2>7. ASSUME InVersion(b), TilesInVersion(b), NEW t \in ts \ Previews, BeingRendered(c, t)
          PROVE  Asked(c.queue, t, c.tbr[t].ver)
      <3>1. InVersion(a) /\ TilesInVersion(a)
        BY <1>3, <2>7 DEF InVersion, TilesInVersion, BeingRendered
      <3> QED BY <1>2, <1>3, <2>2, <2>7, <3>1
    <2> QED BY <1>1, <2>4, <2>5, <2>6, <2>7 DEF a
  <1> QED BY <1>7, <1>8

LEMMA TileProcessedAnswers ==
    ASSUME NEW b \in BrokerStates, NEW s \in Clients, NEW t, NEW outdated, NEW stalled
    PROVE  LET c == TileProcessed(b, s, t, outdated, stalled)
           IN Answers(b, c, Stock(b)) /\ Registers(b, c)
  <1> DEFINE fly == b.client[s].onFly
             first == {i \in 1..Len(fly) : fly[i] = t /\ \A j \in 1..(i - 1) : fly[j] # t}
             x == [b.client[s] EXCEPT !.onFly = Except(fly, first)]
             a == [b EXCEPT !.client[s] = x]
  <1>1. PICK c : c = TileProcessed(b, s, t, outdated, stalled)
    OBVIOUS
  <1>2. c = SendRequestedTiles(a, s, outdated, stalled)
    BY <1>1, BrokerIs DEF TileProcessed
  <1>3. b.client[s] \in ClientStates
    BY BrokerIs
  <1> HIDE DEF first
  <1>4. x \in ClientStates /\ x.rendering = b.client[s].rendering /\ Alike(b.client[s], x)
    <2>1. Except(fly, first) \in Seq(Tiles)
      BY <1>3, ClientIs, ExceptIs
    <2> QED BY <1>3, <2>1 DEF ClientStates, Alike
  <1> HIDE DEF x
  <1>5. a \in BrokerStates
    BY <1>4, ClientBecomes DEF Serves
  <1>6. /\ a.cache = b.cache /\ a.tbr = b.tbr /\ a.ver = b.ver /\ a.queue = b.queue
        /\ \A r \in Clients : a.client[r] = IF r = s THEN x ELSE b.client[r]
    BY BrokerIs
  <1> HIDE DEF a
  <1>7. Advances(b, a)
    <2>1. \A r \in Clients : Alike(b.client[r], a.client[r])
      BY <1>4, <1>6 DEF Alike
    <2> QED BY <1>6, <2>1, AlikeAdvances DEF Subscribed
  <1>8. Answers(a, c, Stock(a)) /\ Registers(a, c) /\ c \in BrokerStates
    <2>1. c \in BrokerStates
      BY <1>2, <1>5, SendRequestedTilesServes DEF Serves
    <2> QED BY <1>2, <1>5, <2>1, SendRequestedTilesAnswers
  <1>9. Stock(a) = Stock(b)
    BY <1>6 DEF Stock
  <1>10. Answers(b, c, Stock(b))
    BY <1>7, <1>8, <1>9, AdvancesAnswers, AnswersOn
  <1>11. Registers(b, c)
    <2>1. Registers(b, a)
      BY <1>5, <1>6, UnchangedRegisters, BrokerIs
    <2> QED BY <1>5, <1>8, <2>1, RegistersOn
  <1> QED BY <1>1, <1>10, <1>11

-----------------------------------------------------------------------------
(* Images are sent to whom they are owed.                                  *)

Shown(images) == [t \in Tiles |-> {m.content : m \in {n \in images : n.t = t}}]

\* What is sent is one of the images, and what goes on being rendered is newer.
Delivers(b, c, images) ==
    /\ Answers(b, c, Shown(images)) /\ c.ver = b.ver
    /\ \A t \in Tiles : BeingRendered(c, t) =>
         /\ BeingRendered(b, t) /\ c.tbr[t].ver = b.tbr[t].ver
         /\ \A m \in images : m.t = t => m.ver < b.tbr[t].ver

LEMMA AnswersMore ==
    ASSUME NEW b, NEW c, NEW Z, NEW Y, Answers(b, c, Z), \A t \in Tiles : Z[t] \subseteq Y[t]
    PROVE  Answers(b, c, Y)
  BY DEF Answers, Reaches, Has

LEMMA ForgetIs ==
    ASSUME NEW b \in BrokerStates, NEW t \in Tiles
    PROVE  LET c == ForgetTileBeingRendered(b, t)
           IN /\ c.ver = b.ver
              /\ \A u \in Tiles : c.tbr[u] = IF u = t THEN NotRendered ELSE b.tbr[u]
              /\ \A s \in Clients : Alike(b.client[s], c.client[s])
  <1> DEFINE Left(s) == [b.client[s] EXCEPT !.rendering = b.client[s].rendering \ {t}]
             client2 == [s \in Clients |->
                           IF Subscribed(b, s, t) /\ t \notin Previews THEN Left(s)
                           ELSE b.client[s]]
             tbr2 == [b.tbr EXCEPT ![t] = NotRendered]
  <1>1. PICK c : c = ForgetTileBeingRendered(b, t)
    OBVIOUS
  <1>2. ASSUME NEW s \in Clients PROVE Alike(b.client[s], Left(s))
    <2>1. b.client[s] \in ClientStates
      BY BrokerIs
    <2> QED BY <2>1 DEF ClientStates, Alike
  <1>3. c = [b EXCEPT !.tbr = tbr2, !.client = client2]
    BY <1>1, Zenon DEF ForgetTileBeingRendered
  <1> HIDE DEF Left
  <1>4. \A u \in Tiles : tbr2[u] = IF u = t THEN NotRendered ELSE b.tbr[u]
    BY BrokerIs
  <1>5. \A s \in Clients : client2[s] = b.client[s] \/ client2[s] = Left(s)
    OBVIOUS
  <1> HIDE DEF tbr2, client2
  <1>6. c.ver = b.ver /\ c.tbr = tbr2 /\ c.client = client2
    BY <1>3, BrokerIs
  <1>7. \A s \in Clients : Alike(b.client[s], c.client[s])
    BY <1>2, <1>5, <1>6 DEF Alike
  <1> QED BY <1>1, <1>4, <1>6, <1>7

LEMMA SaveTileDelivers ==
    ASSUME NEW b \in BrokerStates, NEW m \in Images
    PROVE  Delivers(b, SaveTileAndNotify(b, m), {m})
  <1> DEFINE t == m.t
             D == Shown({m})
             Told(s) == EnqueueTile(b.client[s], t, m.content, m.content)
             cache2 == [b.cache EXCEPT ![t] = IF Persistent THEN m.content ELSE b.cache[t]]
             client2 == [s \in Clients |-> IF Subscribed(b, s, t) THEN Told(s) ELSE b.client[s]]
             a == [b EXCEPT !.cache = cache2, !.client = client2]
             forgets == BeingRendered(b, t) /\ b.tbr[t].ver <= m.ver
  <1>1. PICK c : c = SaveTileAndNotify(b, m)
    OBVIOUS
  <1>2. t \in Tiles /\ m.content \in Nat /\ m.ver \in Nat
    BY ImageIs
  <1>3. D[t] = {m.content} /\ \A u \in Tiles : u # t => D[u] = {}
    BY <1>2 DEF Shown
  <1> HIDE DEF D
  <1>4. ASSUME NEW s \in Clients, Subscribed(b, s, t)
        PROVE  /\ Told(s) \in ClientStates
               /\ Told(s).requested = b.client[s].requested
               /\ \A u \in Tiles : Reaches(b.client[s], Told(s), u, D[u])
               /\ Has(Told(s), t, D[t])
    <2>1. b.client[s] \in ClientStates /\ m.content \in {0, m.content}
      BY BrokerIs
    <2>2. PICK x, z : x = b.client[s] /\ z = m.content
      OBVIOUS
    <2>3. PICK y : y = EnqueueTile(x, t, z, z)
      OBVIOUS
    <2>4. x \in ClientStates /\ z \in Nat /\ z \in {0, z}
      BY <1>2, <2>1, <2>2
    <2>5. y \in ClientStates
      BY <1>2, <2>3, <2>4, EnqueueTileIs
    <2>6. /\ y.requested = x.requested
          /\ \A u \in Tiles : Reaches(x, y, u, IF u = t THEN {z} ELSE {})
          /\ Has(y, t, {z})
      BY <1>2, <2>3, <2>4, EnqueueTileReaches
    <2>7. \A u \in Tiles : D[u] = IF u = t THEN {z} ELSE {}
      BY <1>3, <2>2
    <2>8. Told(s) = y
      BY <2>2, <2>3
    <2> HIDE DEF Told, t
    <2>9. \A u \in Tiles : Reaches(x, y, u, D[u])
      BY <2>6, <2>7
    <2>10. Has(y, t, D[t])
      BY <1>2, <2>6, <2>7
    <2> QED BY <2>2, <2>5, <2>6, <2>8, <2>9, <2>10
  <1> HIDE DEF Told
  <1>5. ASSUME NEW s \in Clients
        PROVE  /\ client2[s] \in ClientStates
               /\ client2[s].requested = b.client[s].requested
               /\ \A u \in Tiles : Reaches(b.client[s], client2[s], u, D[u])
               /\ Subscribed(b, s, t) => Has(client2[s], t, D[t])
    <2>1. b.client[s] \in ClientStates
      BY BrokerIs
    <2>2. CASE Subscribed(b, s, t)
      <3>1. client2[s] = Told(s)
        BY <2>2
      <3> HIDE DEF client2
      <3> QED BY <1>4, <2>2, <3>1
    <2>3. CASE ~Subscribed(b, s, t)
      <3>1. client2[s] = b.client[s]
        BY <2>3
      <3> HIDE DEF client2
      <3> QED BY <2>1, <2>3, <3>1 DEF Reaches
    <2> QED BY <2>2, <2>3
  <1>6. a = [b EXCEPT !.cache[t] = IF Persistent THEN m.content ELSE @,
                      !.client = [s \in Clients |->
                                    IF Subscribed(b, s, t)
                                    THEN EnqueueTile(@[s], t, m.content, m.content)
                                    ELSE @[s]]]
    BY BrokerIs DEF Told
  <1>7. client2 \in [Clients -> ClientStates] /\ cache2 \in [Tiles -> Nat]
    <2>1. cache2 \in [Tiles -> Nat]
      BY <1>2, BrokerIs
    <2>2. client2 \in [Clients -> ClientStates]
      BY <1>5
    <2> QED BY <2>1, <2>2
  <1> HIDE DEF client2, cache2
  <1>8. a.ver = b.ver /\ a.tbr = b.tbr /\ a.client = client2 /\ a \in BrokerStates
    BY <1>7 DEF BrokerStates
  <1> HIDE DEF a
  <1>9. c = IF forgets THEN ForgetTileBeingRendered(a, t) ELSE a
    <2>1. c = IF BeingRendered(b, t) /\ b.tbr[t].ver <= m.ver
              THEN ForgetTileBeingRendered(a, t) ELSE a
      BY <1>1, <1>6 DEF SaveTileAndNotify
    <2> QED BY <2>1
  <1>10. /\ c.ver = b.ver
         /\ \A u \in Tiles : c.tbr[u] = IF forgets /\ u = t THEN NotRendered ELSE b.tbr[u]
         /\ \A s \in Clients : Alike(client2[s], c.client[s])
    <2>1. CASE forgets
      <3>1. c = ForgetTileBeingRendered(a, t)
        BY <1>9, <2>1
      <3> QED BY <1>2, <1>8, <2>1, <3>1, ForgetIs
    <2>2. CASE ~forgets
      BY <1>8, <1>9, <2>2 DEF Alike
    <2> QED BY <2>1, <2>2
  <1>11. ASSUME NEW s \in Clients, NEW u \in Tiles
         PROVE  /\ Reaches(b.client[s], c.client[s], u, D[u])
                /\ Owes(b, s, u) => Owes(c, s, u) \/ Has(c.client[s], u, D[u])
    <2>1. Reaches(b.client[s], client2[s], u, D[u]) /\ Reaches(client2[s], c.client[s], u, D[u])
      BY <1>5, <1>10, AlikeReaches
    <2>2. Reaches(b.client[s], c.client[s], u, D[u])
      BY <2>1, ReachesOn
    <2>3. Wants(b.client[s], u) => Wants(c.client[s], u)
      BY <1>5, <1>10 DEF Wants, Alike
    <2>4. ASSUME Subscribed(b, s, u)
          PROVE  Subscribed(c, s, u) \/ Has(c.client[s], u, D[u])
      <3>1. CASE u = t
        <4>1. Has(client2[s], u, D[u])
          BY <1>5, <2>4, <3>1
        <4> QED BY <2>1, <4>1, HasOn
      <3>2. CASE u # t
        BY <1>10, <2>4, <3>2 DEF Subscribed
      <3> QED BY <3>1, <3>2
    <2> QED BY <2>2, <2>3, <2>4 DEF Owes
  <1>12. ASSUME NEW u \in Tiles, BeingRendered(c, u)
         PROVE  /\ BeingRendered(b, u) /\ c.tbr[u].ver = b.tbr[u].ver
                /\ m.t = u => m.ver < b.tbr[u].ver
    <2>1. b.tbr[u].ver \in Nat
      BY VersionsAre
    <2> QED BY <1>2, <1>10, <1>12, <2>1 DEF BeingRendered
  <1>13. Answers(b, c, D)
    BY <1>11 DEF Answers
  <1>14. Delivers(b, c, {m})
    BY <1>10, <1>12, <1>13 DEF Delivers, D
  <1> QED BY <1>1, <1>14

LEMMA DeliversOn ==
    ASSUME NEW a, NEW b, NEW c, NEW X, NEW Y, Delivers(a, b, X), Delivers(b, c, Y)
    PROVE  Delivers(a, c, X \cup Y)
  <1>1. \A t \in Tiles : /\ Shown(X)[t] \subseteq Shown(X \cup Y)[t]
                         /\ Shown(Y)[t] \subseteq Shown(X \cup Y)[t]
    BY DEF Shown
  <1>2. Answers(a, c, Shown(X \cup Y))
    <2>1. Answers(a, b, Shown(X)) /\ Answers(b, c, Shown(Y))
      BY DEF Delivers
    <2>2. Answers(a, b, Shown(X \cup Y))
      BY <1>1, <2>1, AnswersMore
    <2>3. Answers(b, c, Shown(X \cup Y))
      BY <1>1, <2>1, AnswersMore
    <2> QED BY <2>2, <2>3, AnswersOn
  <1>3. ASSUME NEW t \in Tiles, BeingRendered(c, t)
        PROVE  /\ BeingRendered(a, t) /\ c.tbr[t].ver = a.tbr[t].ver
               /\ \A m \in X \cup Y : m.t = t => m.ver < a.tbr[t].ver
    BY <1>3 DEF Delivers
  <1> QED BY <1>2, <1>3 DEF Delivers

LEMMA DeliversSelf == ASSUME NEW b PROVE Delivers(b, b, {})
  <1>1. \A s \in Clients : Alike(b.client[s], b.client[s])
    BY DEF Alike
  <1> QED BY <1>1, AlikeReaches DEF Delivers, Answers

LEMMA SaveTilesDelivers ==
    ASSUME NEW b \in BrokerStates, NEW images \in Seq(Images)
    PROVE  Delivers(b, SaveTiles(b, images), Elements(images))
  <1> DEFINE n == Len(images)
             First(i) == {images[j] : j \in 1..i}
  <1>1. n \in Nat
    OBVIOUS
  <1>2. PICK k : /\ SaveTiles(b, images) = k[n] /\ k[0] = b
                 /\ \A i \in 1..n : k[i] = SaveTileAndNotify(k[i - 1], images[i])
                 /\ \A i \in 0..n : Saves(b, k[i], Elements(images))
    BY SaveTilesTurns
  <1> DEFINE T == {i \in 0..n : Delivers(b, k[i], First(i))}
  <1>3. 0 \in T
    <2>1. First(0) = {} /\ 0 \in 0..n
      BY <1>1
    <2> HIDE DEF First
    <2>2. PICK e : e = First(0)
      OBVIOUS
    <2>3. Delivers(b, b, e)
      BY <2>1, <2>2, DeliversSelf
    <2> QED BY <1>2, <2>1, <2>2, <2>3
  <1>4. ASSUME NEW i \in 1..n, i - 1 \in T PROVE i \in T
    <2>1. i \in 0..n /\ i - 1 \in 0..n
      BY <1>1
    <2>2. k[i - 1] \in BrokerStates /\ images[i] \in Images
      BY <1>2, <2>1 DEF Saves
    <2>3. Delivers(b, k[i - 1], First(i - 1))
      BY <1>4
    <2>4. PICK m : m = images[i]
      OBVIOUS
    <2>5. Delivers(k[i - 1], SaveTileAndNotify(k[i - 1], m), {m})
      BY <2>2, <2>4, SaveTileDelivers
    <2>6. PICK x, y : x = k[i - 1] /\ y = k[i]
      OBVIOUS
    <2>7. y = SaveTileAndNotify(x, m)
      BY <1>2, <2>4, <2>6
    <2>8. First(i) = First(i - 1) \cup {m}
      <3>1. 1..i = 1..(i - 1) \cup {i}
        BY <1>1
      <3> QED BY <2>4, <3>1
    <2> HIDE DEF First
    <2>9. Delivers(x, y, {m}) /\ Delivers(b, x, First(i - 1))
      BY <2>3, <2>5, <2>6, <2>7
    <2>10. PICK X, Y : X = First(i - 1) /\ Y = {m}
      OBVIOUS
    <2>11. Delivers(b, y, X \cup Y)
      BY <2>9, <2>10, DeliversOn
    <2>12. Delivers(b, k[i], First(i))
      BY <2>6, <2>8, <2>10, <2>11
    <2> QED BY <2>1, <2>12
  <1>5. n \in T
    <2> HIDE DEF T, First, n
    <2>1. 0..n \subseteq T
      BY <1>1, <1>3, <1>4, TurnByTurn
    <2> QED BY <1>1, <2>1
  <1>6. First(n) = Elements(images)
    BY DEF Elements
  <1> HIDE DEF First, n
  <1> QED BY <1>2, <1>5, <1>6

-----------------------------------------------------------------------------
(* Screens.                                                                *)

\* The client with y on its screen shows one of Z, now or when it has drawn
\* what it is sent.
Shows(x, t, y, Z) == Due(x, t) \subseteq Z /\ (Due(x, t) = {} => y \in Z)

\* What the broker takes a client to have by its wire id, the client has.
HasItsWireId(x, t, y) == x.wids[t] # 0 => Shows(x, t, y, {x.wids[t]})

LEMMA WireIdReaches ==
    ASSUME NEW x, NEW y, NEW t, NEW Z, NEW v, Reaches(x, y, t, Z), HasItsWireId(x, t, v)
    PROVE  HasItsWireId(y, t, v)
  <1>1. CASE Due(y, t) = Due(x, t) /\ y.wids[t] = x.wids[t]
    BY <1>1 DEF HasItsWireId, Shows
  <1>2. CASE \E z \in Z : Due(y, t) = {z} /\ y.wids[t] \in {0, z}
    BY <1>2 DEF HasItsWireId, Shows
  <1> QED BY <1>1, <1>2 DEF Reaches

LEMMA HasShows ==
    ASSUME NEW y, NEW t, NEW Z, NEW v, NEW W, Has(y, t, Z), HasItsWireId(y, t, v), Z \subseteq W
    PROVE  Shows(y, t, v, W)
  <1>1. PICK z \in Z : Due(y, t) = {z} \/ (y.wids[t] = z /\ z # 0)
    BY DEF Has
  <1>2. CASE Due(y, t) = {z}
    BY <1>1, <1>2 DEF Shows
  <1>3. CASE y.wids[t] = z /\ z # 0
    <2>1. Shows(y, t, v, {z})
      BY <1>3 DEF HasItsWireId
    <2> QED BY <2>1 DEF Shows
  <1> QED BY <1>1, <1>2, <1>3

LEMMA ReachesShows ==
    ASSUME NEW x, NEW y, NEW t, NEW Z, NEW v, NEW W, Reaches(x, y, t, Z), Shows(x, t, v, W),
           Z \subseteq W
    PROVE  Shows(y, t, v, W)
  BY DEF Reaches, Shows

WireIdsAreRight ==
    \A s \in Clients, t \in Tiles : HasItsWireId(Broker.client[s], t, screen[s][t])

\* A client shows what the document looks like, or the tile is owed to it, or
\* it has still to hear of a change.
Settled(s, t) ==
    \/ Shows(Broker.client[s], t, screen[s][t], {NoTile, content[t]})
    \/ Owes(Broker, s, t)
    \/ Pending(s, t, 0)

ScreensSettle == \A s \in Clients \ cancelled, t \in Tiles \ Previews : Settled(s, t)

\* The broker may send Z: what the document looks like, or what each client has
\* to hear of.
LEMMA SettledWhenAnswered ==
    ASSUME WireIdsAreRight, ScreensSettle, NEW Z, Answers(Broker, Broker', Z),
           UNCHANGED <<screen, cancelled>>,
           \A s \in Clients, t \in Tiles : Pending(s, t, 0) =>
               \/ Pending(s, t, 0)' \/ t \in Previews
               \/ Owes(Broker', s, t) \/ Has(Broker'.client[s], t, Z[t]),
           \A s \in Clients, t \in Tiles :
               \/ Pending(s, t, 0)'
               \/ content'[t] = content[t] /\ Z[t] \subseteq {NoTile, content[t]}
    PROVE  WireIdsAreRight' /\ ScreensSettle'
  <1> DEFINE x(s) == Broker.client[s]
             y(s) == Broker'.client[s]
  <1>1. \A s \in Clients, t \in Tiles :
          /\ Reaches(x(s), y(s), t, Z[t])
          /\ Owes(Broker, s, t) => Owes(Broker', s, t) \/ Has(y(s), t, Z[t])
    BY DEF Answers
  <1> HIDE DEF x, y
  <1>2. \A s \in Clients, t \in Tiles : HasItsWireId(x(s), t, screen[s][t])
    BY DEF WireIdsAreRight, x
  <1>3. \A s \in Clients, t \in Tiles : HasItsWireId(y(s), t, screen[s][t])
    BY <1>1, <1>2, WireIdReaches
  <1>4. WireIdsAreRight'
    BY <1>3 DEF WireIdsAreRight, y
  <1>5. ASSUME NEW s \in Clients \ cancelled, NEW t \in Tiles \ Previews
        PROVE  Settled(s, t)'
    <2>1. CASE Pending(s, t, 0)'
      BY <2>1 DEF Settled
    <2>2. CASE ~Pending(s, t, 0)'
      <3>1. content'[t] = content[t] /\ Z[t] \subseteq {NoTile, content[t]}
        BY <2>2
      <3>2. Has(y(s), t, Z[t]) => Shows(y(s), t, screen[s][t], {NoTile, content[t]})
        BY <1>3, <3>1, HasShows
      <3>3. Shows(x(s), t, screen[s][t], {NoTile, content[t]})
              => Shows(y(s), t, screen[s][t], {NoTile, content[t]})
        BY <1>1, <3>1, ReachesShows
      <3>4. \/ Shows(x(s), t, screen[s][t], {NoTile, content[t]})
            \/ Owes(Broker, s, t) \/ Pending(s, t, 0)
        BY DEF ScreensSettle, Settled, x
      <3>5. Pending(s, t, 0) => Owes(Broker', s, t) \/ Has(y(s), t, Z[t])
        BY <2>2 DEF y
      <3>6. Shows(y(s), t, screen[s][t], {NoTile, content[t]}) \/ Owes(Broker', s, t)
        BY <1>1, <3>2, <3>3, <3>4, <3>5
      <3> QED BY <3>1, <3>6 DEF Settled, y
    <2> QED BY <2>1, <2>2
  <1>6. ScreensSettle'
    BY <1>5 DEF ScreensSettle
  <1> QED BY <1>4, <1>6

-----------------------------------------------------------------------------
(* What is being rendered comes.                                           *)

\* An image of t, in version v or newer, has left the kit, or was skipped being
\* what it is now.
Sent(t, v) ==
    \/ \E l \in 1..Len(fromKit) :
         /\ fromKit[l].k = "tiles"
         /\ \E x \in Elements(fromKit[l].tiles) : x.t = t /\ x.ver >= v
    \/ \E r \in skipped : r.t = t /\ r.ver >= v /\ r.old = content[t]

Comes(t, v) == Asked(Broker.queue, t, v) \/ Sent(t, v)

\* It comes, or it has changed and the session has still to hear of that.
Expected(s, t, v) == Comes(t, v) \/ Pending(s, t, 0)

RegisteredAreComing ==
    \A s \in Clients, t \in Tiles \ Previews :
        BeingRendered(Broker, t) => Expected(s, t, Broker.tbr[t].ver)

RenderingIsRight == InVersion(Broker) /\ TilesInVersion(Broker) /\ RegisteredAreComing

LEMMA SentLess ==
    ASSUME TypeOK, NEW t, NEW v \in Nat, NEW w \in Nat, w <= v, Sent(t, v)
    PROVE  Sent(t, w)
  <1>1. CASE \E r \in skipped : r.t = t /\ r.ver >= v /\ r.old = content[t]
    <2>1. PICK r \in skipped : r.t = t /\ r.ver >= v /\ r.old = content[t]
      BY <1>1
    <2>2. r.ver \in Nat
      BY TypesAre, RequestIs
    <2>3. r.ver >= w
      BY <2>1, <2>2
    <2> QED BY <2>1, <2>3 DEF Sent
  <1>2. CASE \E l \in 1..Len(fromKit) :
               /\ fromKit[l].k = "tiles"
               /\ \E x \in Elements(fromKit[l].tiles) : x.t = t /\ x.ver >= v
    <2>1. PICK l \in 1..Len(fromKit) :
            /\ fromKit[l].k = "tiles"
            /\ \E x \in Elements(fromKit[l].tiles) : x.t = t /\ x.ver >= v
      BY <1>2
    <2>2. PICK x \in Elements(fromKit[l].tiles) : x.t = t /\ x.ver >= v
      BY <2>1
    <2>3. fromKit[l] \in FromKitMessages
      BY TypesAre
    <2>4. fromKit[l].tiles \in Seq(Images)
      BY <2>1, <2>3, FromKitIs
    <2>5. x.ver \in Nat
      BY <2>2, <2>4, ElementsAre, ImageIs
    <2>6. x.ver >= w
      BY <2>2, <2>5
    <2> QED BY <2>1, <2>2, <2>6 DEF Sent
  <1> QED BY <1>1, <1>2 DEF Sent

LEMMA SentStays ==
    ASSUME UNCHANGED <<fromKit, skipped>>, NEW t, NEW v, content'[t] = content[t], Sent(t, v)
    PROVE  Sent(t, v)'
  BY DEF Sent

LEMMA RenderingWhenRegistered ==
    ASSUME TypeOK, TypeOK', RenderingIsRight, Registers(Broker, Broker'),
           \A s \in Clients, t \in Tiles \ Previews : Pending(s, t, 0) =>
               \/ Pending(s, t, 0)'
               \/ BeingRendered(Broker', t) => Asked(Broker'.queue, t, Broker'.tbr[t].ver),
           \A t \in Tiles, v \in Nat : Sent(t, v) => Sent(t, v)'
    PROVE  RenderingIsRight'
  <1>1. Broker \in BrokerStates /\ Broker' \in BrokerStates
    BY DEF TypeOK
  <1>2. PICK b, c : b = Broker /\ c = Broker'
    OBVIOUS
  <1>3. /\ b.ver <= c.ver /\ InVersion(c)
        /\ \A t \in Tiles, v \in Nat : Asked(b.queue, t, v) => Asked(c.queue, t, v)
        /\ \A t \in Tiles : BeingRendered(c, t) =>
             \/ Asked(c.queue, t, c.tbr[t].ver)
             \/ BeingRendered(b, t) /\ c.tbr[t].ver <= b.tbr[t].ver
    BY <1>2 DEF Registers, RenderingIsRight
  <1>4. ASSUME NEW s \in Clients, NEW t \in Tiles \ Previews, BeingRendered(c, t)
        PROVE  Expected(s, t, c.tbr[t].ver)'
    <2>1. b.tbr[t].ver \in Nat /\ c.tbr[t].ver \in Nat /\ c.queue \in Seq(KitMessages)
      BY <1>1, <1>2, VersionsAre, BrokerIs
    <2>2. CASE Asked(c.queue, t, c.tbr[t].ver)
      BY <1>2, <2>2 DEF Comes, Expected
    <2>3. CASE ~Asked(c.queue, t, c.tbr[t].ver)
      <3>1. BeingRendered(b, t) /\ c.tbr[t].ver <= b.tbr[t].ver
        BY <1>3, <1>4, <2>3
      <3>2. Comes(t, b.tbr[t].ver) \/ Pending(s, t, 0)
        BY <1>2, <3>1 DEF RenderingIsRight, RegisteredAreComing, Expected
      <3>3. ~Asked(b.queue, t, b.tbr[t].ver)
        <4> SUFFICES ASSUME Asked(b.queue, t, b.tbr[t].ver) PROVE FALSE
          OBVIOUS
        <4>1. Asked(c.queue, t, b.tbr[t].ver)
          BY <1>3, <2>1
        <4> QED BY <2>1, <2>3, <3>1, <4>1, AskedLess
      <3>4. CASE Sent(t, b.tbr[t].ver)
        <4>1. Sent(t, c.tbr[t].ver)
          BY <2>1, <3>1, <3>4, SentLess
        <4>2. PICK v \in Nat : v = c.tbr[t].ver
          BY <2>1
        <4>3. Sent(t, v)'
          BY <4>1, <4>2
        <4> QED BY <1>2, <4>2, <4>3 DEF Comes, Expected
      <3>5. CASE Pending(s, t, 0)
        <4>1. Pending(s, t, 0)'
          BY <1>2, <1>4, <2>3, <3>5
        <4> QED BY <4>1 DEF Expected
      <3> QED BY <1>2, <3>2, <3>3, <3>4, <3>5 DEF Comes
    <2> QED BY <2>2, <2>3
  <1>5. RegisteredAreComing'
    BY <1>2, <1>4 DEF RegisteredAreComing
  <1>6. ASSUME NEW t \in Tiles, BeingRendered(c, t) PROVE c.tbr[t].ver <= c.ver
    <2>1. /\ b.tbr[t].ver \in Nat /\ c.tbr[t].ver \in Nat /\ b.ver \in Nat /\ c.ver \in Nat
          /\ c.queue \in Seq(KitMessages)
      BY <1>1, <1>2, VersionsAre, BrokerIs
    <2>2. CASE Asked(c.queue, t, c.tbr[t].ver)
      <3>1. PICK r \in Elements(c.queue) : r.k = "tile" /\ r.t = t /\ r.ver >= c.tbr[t].ver
        BY <2>2 DEF Asked
      <3>2. r.ver \in Nat
        BY <2>1, <3>1, ElementsAre, MessageIs, RequestIs
      <3>3. r.ver <= c.ver
        BY <1>3, <3>1 DEF InVersion
      <3> QED BY <2>1, <3>1, <3>2, <3>3
    <2>3. CASE BeingRendered(b, t) /\ c.tbr[t].ver <= b.tbr[t].ver
      <3>1. b.tbr[t].ver <= b.ver
        BY <1>2, <2>3 DEF RenderingIsRight, TilesInVersion
      <3> QED BY <1>3, <2>1, <2>3, <3>1
    <2> QED BY <1>3, <1>6, <2>2, <2>3
  <1>7. TilesInVersion(c)
    BY <1>6 DEF TilesInVersion
  <1> QED BY <1>2, <1>3, <1>5, <1>7 DEF RenderingIsRight

\* What is being rendered was, in the same version, and what is expected stays so.
LEMMA RenderingWhenKept ==
    ASSUME TypeOK, RenderingIsRight, Broker'.ver = Broker.ver,
           \A r \in Elements(Broker'.queue) : r \in Elements(Broker.queue) \/ r.k # "tile",
           \A t \in Tiles : BeingRendered(Broker', t) =>
               BeingRendered(Broker, t) /\ Broker'.tbr[t].ver = Broker.tbr[t].ver,
           \A s \in Clients, t \in Tiles \ Previews : BeingRendered(Broker', t) =>
               \A v \in Nat : v = Broker.tbr[t].ver /\ Expected(s, t, v) => Expected(s, t, v)'
    PROVE  RenderingIsRight'
  <1>1. PICK b, c : b = Broker /\ c = Broker'
    OBVIOUS
  <1>2. InVersion(c)
    BY <1>1 DEF RenderingIsRight, InVersion
  <1>3. TilesInVersion(c)
    BY <1>1 DEF RenderingIsRight, TilesInVersion
  <1>4. ASSUME NEW s \in Clients, NEW t \in Tiles \ Previews, BeingRendered(c, t)
        PROVE  Expected(s, t, c.tbr[t].ver)'
    <2>1. PICK v : v = b.tbr[t].ver
      OBVIOUS
    <2>2. v \in Nat
      BY <1>1, <2>1, VersionsAre DEF TypeOK
    <2>3. BeingRendered(b, t) /\ c.tbr[t].ver = v /\ (Expected(s, t, v) => Expected(s, t, v)')
      BY <1>1, <1>4, <2>1, <2>2
    <2>4. Expected(s, t, v)
      BY <1>1, <2>1, <2>3 DEF RenderingIsRight, RegisteredAreComing
    <2> QED BY <2>3, <2>4 DEF Expected, Comes
  <1>5. RegisteredAreComing'
    BY <1>1, <1>4 DEF RegisteredAreComing
  <1> QED BY <1>1, <1>2, <1>3, <1>5 DEF RenderingIsRight

-----------------------------------------------------------------------------
(* Nothing is lost on the way: the steps of the clients.                   *)

DeliveryIsRight ==
    WireIdsAreRight /\ ScreensSettle /\ RenderingIsRight /\ active \cap missed = {}

\* Nothing that counts has changed but for what waits for the kit.
Rests(b, c) ==
    /\ \A s \in Clients : Alike(b.client[s], c.client[s])
    /\ \A s \in Clients, t \in Tiles : Subscribed(b, s, t) => Subscribed(c, s, t)

LEMMA RestsAnswers ==
    ASSUME NEW b, NEW c, Rests(b, c)
    PROVE  Answers(b, c, [t \in Tiles |-> {}])
  <1> DEFINE Z == [t \in Tiles |-> {}]
  <1>1. ASSUME NEW s \in Clients, NEW t \in Tiles
        PROVE  /\ Reaches(b.client[s], c.client[s], t, Z[t])
               /\ Owes(b, s, t) => Owes(c, s, t)
    <2>1. Alike(b.client[s], c.client[s])
      BY DEF Rests
    <2> HIDE DEF Z
    <2>2. Reaches(b.client[s], c.client[s], t, Z[t])
      BY <2>1, AlikeReaches
    <2>3. Owes(b, s, t) => Owes(c, s, t)
      BY <2>1 DEF Rests, Owes, Wants, Alike
    <2> QED BY <2>2, <2>3
  <1> HIDE DEF Z
  <1>2. Answers(b, c, Z)
    BY <1>1 DEF Answers
  <1> QED BY <1>2 DEF Z

LEMMA SettledWhenRested ==
    ASSUME WireIdsAreRight, ScreensSettle, Rests(Broker, Broker'), UNCHANGED <<screen, cancelled>>,
           \A s \in Clients, t \in Tiles : Pending(s, t, 0) => Pending(s, t, 0)',
           \A s \in Clients, t \in Tiles : Pending(s, t, 0)' \/ content'[t] = content[t]
    PROVE  WireIdsAreRight' /\ ScreensSettle'
  <1>1. PICK Z : Z = [t \in Tiles |-> {}]
    OBVIOUS
  <1>2. PICK b, c : b = Broker /\ c = Broker'
    OBVIOUS
  <1>3. Answers(b, c, Z)
    BY <1>1, <1>2, RestsAnswers
  <1>4. \A t \in Tiles : Z[t] = {}
    BY <1>1
  <1>5. Answers(Broker, Broker', Z)
    BY <1>2, <1>3
  <1>6. \A t \in Tiles : Z[t] \subseteq {NoTile, content[t]}
    BY <1>4
  <1> QED BY <1>5, <1>6, SettledWhenAnswered

LEMMA PendingWhenServed ==
    ASSUME TypeOK, ServeStep
    PROVE  \A s, t, i : Pending(s, t, i)' <=> Pending(s, t, i)
  <1>1. UNCHANGED <<missed, fromKit>> /\ Touched(queue') = Touched(queue)
    <2>1. Broker'.queue = queue'
      BY DEF Broker
    <2> QED BY <2>1, TypesAre DEF ServeStep, Serves
  <1> QED BY <1>1 DEF Pending

\* What the cache has is what the document looks like, or each client has to
\* hear of it.
LEMMA StockIs ==
    ASSUME TypeOK, Followed, NEW s \in Clients, NEW t \in Tiles
    PROVE  Pending(s, t, 0) \/ Stock(Broker)[t] \subseteq {NoTile, content[t]}
  BY TypesAre DEF Followed, CachedAreFollowed, Stock

\* Requests that are served.
LEMMA DeliveryWhenServed ==
    ASSUME TypeOK, TypeOK', Followed, DeliveryIsRight, ServeStep,
           Answers(Broker, Broker', Stock(Broker)), Registers(Broker, Broker'),
           UNCHANGED <<screen, cancelled, active, skipped>>
    PROVE  DeliveryIsRight'
  <1>1. UNCHANGED <<content, missed, fromKit>>
    BY DEF ServeStep
  <1>2. PICK Z : Z = Stock(Broker)
    OBVIOUS
  <1>3. Answers(Broker, Broker', Z)
    BY <1>2
  <1>4. \A s \in Clients, t \in Tiles : Pending(s, t, 0)' <=> Pending(s, t, 0)
    BY PendingWhenServed
  <1>5. \A s \in Clients, t \in Tiles : Pending(s, t, 0) \/ Z[t] \subseteq {NoTile, content[t]}
    BY <1>2, StockIs
  <1>6. WireIdsAreRight' /\ ScreensSettle'
    BY <1>1, <1>3, <1>4, <1>5, SettledWhenAnswered DEF DeliveryIsRight
  <1>7. RenderingIsRight'
    BY <1>1, <1>4, SentStays, RenderingWhenRegistered DEF DeliveryIsRight
  <1> QED BY <1>1, <1>6, <1>7 DEF DeliveryIsRight

LEMMA ClientTileDelivery ==
    ASSUME TypeOK, Followed, DeliveryIsRight, NEW s \in Clients, NEW t \in Tiles,
           NEW broadcast \in BOOLEAN, ClientTile(s, t, broadcast)
    PROVE  DeliveryIsRight'
  <1>1. TypeOK' /\ ServeStep
    BY ClientTileServes
  <1>2. PICK stalled : BrokerBecomes(HandleTileRequest(Broker, s, t, broadcast, stalled))
    BY DEF ClientTile
  <1>3. PICK c : c = HandleTileRequest(Broker, s, t, broadcast, stalled)
    OBVIOUS
  <1>4. Answers(Broker, c, Stock(Broker)) /\ Registers(Broker, c)
    BY <1>3, TypesAre, HandleTileRequestAnswers
  <1>5. c \in BrokerStates
    BY <1>3, TypesAre, HandleTileRequestServes DEF Serves
  <1>6. Broker' = c
    BY <1>2, <1>3, <1>5, BrokerBecomesIs
  <1>7. UNCHANGED <<screen, cancelled, active, skipped>>
    BY ClientRequestIs DEF ClientTile
  <1> QED BY <1>1, <1>4, <1>6, <1>7, DeliveryWhenServed

LEMMA ClientTileCombineDelivery ==
    ASSUME TypeOK, Followed, DeliveryIsRight, NEW s \in Clients, NEW ts,
           ClientTileCombine(s, ts)
    PROVE  DeliveryIsRight'
  <1>1. TypeOK' /\ ServeStep
    BY ClientTileCombineServes
  <1>2. PICK none \in [Tiles -> Nat] : none = [t \in Tiles |-> 0]
    OBVIOUS
  <1>3. PICK outdated, stalled :
          BrokerBecomes(HandleTileCombinedRequest(Broker, s, InOrder(ts), none, outdated, stalled))
    BY <1>2 DEF ClientTileCombine
  <1>4. PICK c : c = HandleTileCombinedRequest(Broker, s, InOrder(ts), none, outdated, stalled)
    OBVIOUS
  <1>5. InOrder(ts) \in Seq(Tiles)
    BY InOrderIs
  <1>6. Answers(Broker, c, Stock(Broker)) /\ Registers(Broker, c)
    BY <1>4, <1>5, TypesAre, HandleTileCombinedRequestAnswers
  <1>7. c \in BrokerStates
    BY <1>4, <1>5, TypesAre, HandleTileCombinedRequestServes DEF Serves
  <1>8. Broker' = c
    BY <1>3, <1>4, <1>7, BrokerBecomesIs
  <1>9. UNCHANGED <<screen, cancelled, active, skipped>>
    BY ClientRequestIs DEF ClientTileCombine
  <1> QED BY <1>1, <1>6, <1>8, <1>9, DeliveryWhenServed

LEMMA ClientTileProcessedDelivery ==
    ASSUME TypeOK, Followed, DeliveryIsRight, NEW s \in Clients, ClientTileProcessed(s)
    PROVE  DeliveryIsRight'
  <1>1. TypeOK' /\ ServeStep
    BY ClientTileProcessedServes
  <1>2. PICK t : t = Head(acks[s])
    OBVIOUS
  <1>3. PICK outdated, stalled : BrokerBecomes(TileProcessed(Broker, s, t, outdated, stalled))
    BY <1>2 DEF ClientTileProcessed
  <1>4. PICK c : c = TileProcessed(Broker, s, t, outdated, stalled)
    OBVIOUS
  <1>5. Answers(Broker, c, Stock(Broker)) /\ Registers(Broker, c)
    BY <1>4, TypesAre, TileProcessedAnswers
  <1>6. c \in BrokerStates
    BY <1>4, TypesAre, TileProcessedServes DEF Serves
  <1>7. Broker' = c
    BY <1>3, <1>4, <1>6, BrokerBecomesIs
  <1>8. UNCHANGED <<screen, cancelled, active, skipped>>
    BY DEF ClientTileProcessed, kitVars, bounds
  <1> QED BY <1>1, <1>5, <1>7, <1>8, DeliveryWhenServed

\* Steps in which the broker learns nothing of tiles.
LEMMA RenderingWhenRested ==
    ASSUME TypeOK, TypeOK', RenderingIsRight, Broker'.ver = Broker.ver, Broker'.tbr = Broker.tbr,
           \A r \in KitMessages : r.k = "tile" =>
               (r \in Elements(Broker'.queue) <=> r \in Elements(Broker.queue)),
           UNCHANGED <<fromKit, skipped>>,
           \A s \in Clients, t \in Tiles : Pending(s, t, 0) => Pending(s, t, 0)',
           \A s \in Clients, t \in Tiles : Pending(s, t, 0)' \/ content'[t] = content[t]
    PROVE  RenderingIsRight'
  <1>1. Elements(Broker.queue) \subseteq KitMessages /\ Elements(Broker'.queue) \subseteq KitMessages
    <2>1. Broker \in BrokerStates /\ Broker' \in BrokerStates
      BY DEF TypeOK
    <2>2. PICK b, c : b = Broker /\ c = Broker'
      OBVIOUS
    <2>3. b.queue \in Seq(KitMessages) /\ c.queue \in Seq(KitMessages)
      BY <2>1, <2>2, BrokerIs
    <2> QED BY <2>2, <2>3, ElementsAre
  <1>2. ASSUME NEW s \in Clients, NEW t \in Tiles \ Previews, NEW v \in Nat, Expected(s, t, v),
               ~Pending(s, t, 0)'
        PROVE  Comes(t, v)'
    <2>1. CASE Asked(Broker.queue, t, v)
      <3>1. Asked(Broker'.queue, t, v)
        BY <1>1, <2>1 DEF Asked
      <3> QED BY <3>1 DEF Comes
    <2>2. CASE Sent(t, v)
      BY <1>2, <2>2, SentStays DEF Comes
    <2> QED BY <1>2, <2>1, <2>2 DEF Comes, Expected
  <1>3. \A r \in Elements(Broker'.queue) : r \in Elements(Broker.queue) \/ r.k # "tile"
    BY <1>1
  <1>4. \A t \in Tiles : BeingRendered(Broker', t) => BeingRendered(Broker, t)
    BY DEF BeingRendered
  <1>5. ASSUME NEW s \in Clients, NEW t \in Tiles \ Previews, NEW v \in Nat, Expected(s, t, v)
        PROVE  Expected(s, t, v)'
    BY <1>2, <1>5 DEF Expected
  <1> QED BY <1>3, <1>4, <1>5, RenderingWhenKept

LEMMA ClientTurnsDelivery ==
    ASSUME TypeOK, DeliveryIsRight, NEW s \in Clients, NEW on \in BOOLEAN, ClientTurns(s, on)
    PROVE  DeliveryIsRight'
  <1>1. TypeOK' /\ ServeStep
    BY ClientTurnsServes
  <1>2. PICK m : m = Activity(s, on)
    OBVIOUS
  <1>3. m \in KitMessages /\ m.k = "activity"
    BY <1>2 DEF Activity, KitMessages
  <1>4. /\ queue' = Append(queue, m)
        /\ UNCHANGED <<tileVersion, cache, tbr, client>>
    BY <1>2 DEF ClientTurns, brokerVars
  <1>5. Elements(queue') = Elements(queue) \cup {m}
    BY <1>3, <1>4, TypesAre, ElementsAppend
  <1>6. UNCHANGED <<content, active, missed, skipped, fromKit, screen, cancelled>>
    BY ClientRequestIs DEF ClientTurns
  <1>7. /\ Broker'.ver = Broker.ver /\ Broker'.tbr = Broker.tbr
        /\ Broker'.client = Broker.client
        /\ Broker.queue = queue /\ Broker'.queue = queue'
    BY <1>4 DEF Broker
  <1>8. Rests(Broker, Broker')
    BY <1>7 DEF Rests, Alike, Subscribed
  <1>9. WireIdsAreRight' /\ ScreensSettle'
    BY <1>1, <1>6, <1>8, PendingWhenServed, SettledWhenRested DEF DeliveryIsRight
  <1>10. RenderingIsRight'
    BY <1>1, <1>3, <1>5, <1>6, <1>7, PendingWhenServed, RenderingWhenRested DEF DeliveryIsRight
  <1> QED BY <1>6, <1>9, <1>10 DEF DeliveryIsRight

\* Nothing waits for any client that did not before.
LEMMA ClientMovesDelivery ==
    ASSUME TypeOK, DeliveryIsRight, NEW s \in Clients, ClientMoves(s)
    PROVE  DeliveryIsRight'
  <1>1. TypeOK' /\ ServeStep
    BY ClientMovesServes
  <1>2. UNCHANGED <<content, active, missed, skipped, fromKit, screen, cancelled>>
    BY ClientRequestIs DEF ClientMoves
  <1>3. PICK none : none = [t \in Tiles |-> 0]
    OBVIOUS
  <1>4. PICK x : x = [client[s] EXCEPT !.wids = none]
    OBVIOUS
  <1>5. /\ UNCHANGED <<tileVersion, cache, tbr, queue>>
        /\ client' = [client EXCEPT ![s] = x]
    BY <1>3, <1>4 DEF ClientMoves
  <1>6. /\ x.requested = client[s].requested /\ x.out = client[s].out
        /\ \A t \in Tiles : x.wids[t] = 0
    <2>1. client[s] \in ClientStates
      BY TypesAre
    <2>2. x.requested = client[s].requested /\ x.out = client[s].out /\ x.wids = none
      BY <1>4, <2>1 DEF ClientStates
    <2> QED BY <1>3, <2>2
  <1>7. /\ Broker'.ver = Broker.ver /\ Broker'.tbr = Broker.tbr
        /\ Broker'.queue = Broker.queue
        /\ \A r \in Clients : /\ Broker.client[r] = client[r]
                              /\ Broker'.client[r] = IF r = s THEN x ELSE client[r]
    BY <1>5, TypesAre DEF Broker
  <1>8. \A t \in Tiles : Due(x, t) = Due(client[s], t)
    BY <1>6 DEF Due
  <1>9. ASSUME NEW r \in Clients, NEW t \in Tiles
        PROVE  /\ HasItsWireId(Broker'.client[r], t, screen[r][t])
               /\ Due(Broker'.client[r], t) = Due(Broker.client[r], t)
               /\ Wants(Broker.client[r], t) => Wants(Broker'.client[r], t)
    <2>1. CASE r = s
      BY <1>6, <1>7, <1>8, <2>1 DEF HasItsWireId, Wants
    <2>2. CASE r # s
      <3>1. HasItsWireId(Broker.client[r], t, screen[r][t])
        BY DEF DeliveryIsRight, WireIdsAreRight
      <3> QED BY <1>7, <2>2, <3>1
    <2> QED BY <2>1, <2>2
  <1>10. WireIdsAreRight'
    BY <1>2, <1>9 DEF WireIdsAreRight
  <1>11. ScreensSettle'
    <2> SUFFICES ASSUME NEW r \in Clients \ cancelled, NEW t \in Tiles \ Previews
                 PROVE  Settled(r, t)'
      BY <1>2 DEF ScreensSettle
    <2>1. Settled(r, t)
      BY DEF DeliveryIsRight, ScreensSettle
    <2>2. Pending(r, t, 0)' <=> Pending(r, t, 0)
      BY <1>1, PendingWhenServed
    <2>3. Owes(Broker, r, t) => Owes(Broker', r, t)
      BY <1>7, <1>9 DEF Owes, Subscribed
    <2>4. Shows(Broker.client[r], t, screen[r][t], {NoTile, content[t]})
            => Shows(Broker'.client[r], t, screen[r][t], {NoTile, content[t]})
      BY <1>9 DEF Shows
    <2> QED BY <1>2, <2>1, <2>2, <2>3, <2>4 DEF Settled
  <1>12. RenderingIsRight'
    BY <1>1, <1>2, <1>7, PendingWhenServed, RenderingWhenRested DEF DeliveryIsRight
  <1> QED BY <1>2, <1>10, <1>11, <1>12 DEF DeliveryIsRight

LEMMA ClientCancelTilesDelivery ==
    ASSUME TypeOK, DeliveryIsRight, NEW s \in Clients, ClientCancelTiles(s)
    PROVE  DeliveryIsRight'
  <1>1. TypeOK' /\ ServeStep
    BY ClientCancelTilesServes
  <1>2. PICK c : c = CancelTileRequests(Broker, s)
    OBVIOUS
  <1>3. c \in BrokerStates /\ Cancels(Broker, c, s)
    BY <1>2, TypesAre, CancelTileRequestsServes DEF Serves
  <1>4. /\ BrokerBecomes(c) /\ cancelled' = cancelled \cup {s}
        /\ UNCHANGED <<content, active, missed, skipped, fromKit, screen>>
    BY <1>2 DEF ClientCancelTiles, kitVars, clientVars
  <1>5. Broker' = c
    BY <1>3, <1>4, BrokerBecomesIs
  <1>6. Cancels(Broker, Broker', s)
    BY <1>3, <1>5
  <1>7. ASSUME NEW r \in Clients, NEW t \in Tiles
        PROVE  HasItsWireId(Broker'.client[r], t, screen[r][t])
    <2>1. CASE r = s
      BY <1>6, <2>1 DEF HasItsWireId, Cancels
    <2>2. CASE r # s
      <3>1. HasItsWireId(Broker.client[r], t, screen[r][t])
        BY DEF DeliveryIsRight, WireIdsAreRight
      <3> QED BY <1>6, <2>2, <3>1 DEF Cancels
    <2> QED BY <2>1, <2>2
  <1>8. WireIdsAreRight'
    BY <1>4, <1>7 DEF WireIdsAreRight
  <1>9. ScreensSettle'
    <2> SUFFICES ASSUME NEW r \in Clients \ cancelled, r # s, NEW t \in Tiles \ Previews
                 PROVE  Settled(r, t)'
      BY <1>4 DEF ScreensSettle
    <2>1. Settled(r, t)
      BY DEF DeliveryIsRight, ScreensSettle
    <2>2. Pending(r, t, 0)' <=> Pending(r, t, 0)
      BY <1>1, PendingWhenServed
    <2>3. Broker'.client[r] = Broker.client[r]
      BY <1>6 DEF Cancels
    <2>4. Owes(Broker, r, t) => Owes(Broker', r, t)
      BY <1>6, <2>3 DEF Owes, Cancels
    <2> QED BY <1>4, <2>1, <2>2, <2>3, <2>4 DEF Settled
  <1>10. ASSUME NEW t \in Tiles, NEW v \in Nat, Comes(t, v) PROVE Comes(t, v)'
    <2>1. CASE Asked(Broker.queue, t, v)
      <3>1. Asked(Broker'.queue, t, v)
        BY <1>6, <2>1 DEF Asked, Cancels
      <3> QED BY <3>1 DEF Comes
    <2>2. CASE Sent(t, v)
      BY <1>4, <2>2, SentStays DEF Comes
    <2> QED BY <1>10, <2>1, <2>2 DEF Comes
  <1>11. RenderingIsRight'
    <2>0. ASSUME NEW r \in Clients, NEW t \in Tiles, NEW v \in Nat, Expected(r, t, v)
          PROVE  Expected(r, t, v)'
      BY <1>1, <1>10, <2>0, PendingWhenServed DEF Expected
    <2>1. /\ Broker'.ver = Broker.ver /\ Elements(Broker'.queue) = Elements(Broker.queue)
          /\ \A t \in Tiles : BeingRendered(Broker', t) =>
               BeingRendered(Broker, t) /\ Broker'.tbr[t].ver = Broker.tbr[t].ver
      BY <1>6 DEF Cancels
    <2> QED BY <2>0, <2>1, RenderingWhenKept DEF DeliveryIsRight
  <1> QED BY <1>4, <1>8, <1>9, <1>11 DEF DeliveryIsRight

\* What was to come is on the screen.
LEMMA ClientDrawsDelivery ==
    ASSUME TypeOK, DeliveryIsRight, NEW s \in Clients, ClientDraws(s)
    PROVE  DeliveryIsRight'
  <1>1. TypeOK' /\ ServeStep
    BY ClientDrawsServes
  <1>2. PICK out : out = client[s].out
    OBVIOUS
  <1>3. PICK m : m = Head(out)
    OBVIOUS
  <1>4. PICK rest : rest = Tail(out)
    OBVIOUS
  <1>5. PICK x : x = [client[s] EXCEPT !.out = rest]
    OBVIOUS
  <1>6. out \in Seq(TilesToSend) /\ out # <<>> /\ client[s] \in ClientStates
    BY <1>2, TypesAre, ClientIs DEF ClientDraws
  <1>7. Elements(out) = {m} \cup Elements(rest) /\ m.t \in Tiles
    <2>1. Elements(out) = {m} \cup Elements(rest) /\ m \in TilesToSend
      BY <1>3, <1>4, <1>6, ElementsTail
    <2> QED BY <2>1 DEF TilesToSend
  <1>8. /\ UNCHANGED <<tileVersion, cache, tbr, queue, content, active, missed, skipped, fromKit,
                       cancelled>>
        /\ client' = [client EXCEPT ![s] = x]
        /\ screen' = [screen EXCEPT ![s][m.t] = m.content]
    BY <1>2, <1>3, <1>4, <1>5 DEF ClientDraws, kitVars, bounds
  <1>9. x.requested = client[s].requested /\ x.out = rest /\ x.wids = client[s].wids
    BY <1>5, <1>6 DEF ClientStates
  <1>10. /\ Broker'.ver = Broker.ver /\ Broker'.tbr = Broker.tbr
         /\ Broker'.queue = Broker.queue
         /\ \A r \in Clients : /\ Broker.client[r] = client[r]
                               /\ Broker'.client[r] = IF r = s THEN x ELSE client[r]
    BY <1>8, TypesAre DEF Broker
  <1>11. \A r \in Clients, t \in Tiles :
           screen'[r][t] = IF r = s /\ t = m.t THEN m.content ELSE screen[r][t]
    BY <1>8, <1>7, TypesAre
  <1>12. \A t \in Tiles :
           Due(client[s], t) = Due(x, t) \cup (IF t = m.t THEN {m.content} ELSE {})
    <2> TAKE t \in Tiles
    <2>1. {n \in Elements(out) : n.t = t} = {n \in Elements(rest) : n.t = t}
                                              \cup (IF t = m.t THEN {m} ELSE {})
      BY <1>7
    <2> QED BY <1>2, <1>9, <2>1 DEF Due
  <1>13. ASSUME NEW r \in Clients, NEW t \in Tiles, NEW W,
                Shows(Broker.client[r], t, screen[r][t], W)
         PROVE  Shows(Broker'.client[r], t, screen'[r][t], W)
    <2>1. CASE r = s
      <3>1. Broker.client[r] = client[s] /\ Broker'.client[r] = x
        BY <1>10, <2>1
      <3>2. Due(client[s], t) \subseteq W /\ (Due(client[s], t) = {} => screen[r][t] \in W)
        BY <1>13, <3>1 DEF Shows
      <3>3. Due(x, t) \subseteq W /\ (Due(x, t) = {} => screen'[r][t] \in W)
        BY <1>11, <1>12, <2>1, <3>2
      <3> QED BY <3>1, <3>3 DEF Shows
    <2>2. CASE r # s
      BY <1>10, <1>11, <1>13, <2>2
    <2> QED BY <2>1, <2>2
  <1>14. \A r \in Clients, t \in Tiles :
           /\ Broker'.client[r].wids[t] = Broker.client[r].wids[t]
           /\ Broker'.client[r].requested = Broker.client[r].requested
    BY <1>9, <1>10
  <1>15. WireIdsAreRight'
    BY <1>13, <1>14 DEF DeliveryIsRight, WireIdsAreRight, HasItsWireId
  <1>16. ScreensSettle'
    <2> SUFFICES ASSUME NEW r \in Clients \ cancelled, NEW t \in Tiles \ Previews
                 PROVE  Settled(r, t)'
      BY <1>8 DEF ScreensSettle
    <2>1. Settled(r, t)
      BY DEF DeliveryIsRight, ScreensSettle
    <2>2. Pending(r, t, 0)' <=> Pending(r, t, 0)
      BY <1>1, PendingWhenServed
    <2>3. Owes(Broker, r, t) => Owes(Broker', r, t)
      BY <1>10, <1>14 DEF Owes, Wants, Subscribed
    <2> QED BY <1>8, <1>13, <2>1, <2>2, <2>3 DEF Settled
  <1>17. RenderingIsRight'
    BY <1>1, <1>8, <1>10, PendingWhenServed, RenderingWhenRested DEF DeliveryIsRight
  <1> QED BY <1>8, <1>15, <1>16, <1>17 DEF DeliveryIsRight

LEMMA ClientStepDelivery ==
    ASSUME TypeOK, Followed, DeliveryIsRight, NEW s \in Clients, ClientStep(s)
    PROVE  DeliveryIsRight'
  <1>1. CASE \E t \in Tiles, broadcast \in BOOLEAN : ClientTile(s, t, broadcast)
    BY <1>1, ClientTileDelivery
  <1>2. CASE \E ts \in SUBSET (Tiles \ Previews) \ {{}} : ClientTileCombine(s, ts)
    BY <1>2, ClientTileCombineDelivery
  <1>3. CASE \E on \in BOOLEAN : ClientTurns(s, on)
    BY <1>3, ClientTurnsDelivery
  <1>4. CASE ClientCancelTiles(s)
    BY <1>4, ClientCancelTilesDelivery
  <1>5. CASE ClientMoves(s)
    BY <1>5, ClientMovesDelivery
  <1>6. CASE ClientDraws(s)
    BY <1>6, ClientDrawsDelivery
  <1>7. CASE ClientTileProcessed(s)
    BY <1>7, ClientTileProcessedDelivery
  <1> QED BY <1>1, <1>2, <1>3, <1>4, <1>5, <1>6, <1>7 DEF ClientStep

-----------------------------------------------------------------------------
(* Nothing is lost on the way: the steps of the broker and the kit.        *)

\* The images of the message have come: what goes on being rendered is newer.
LEMMA HandleTileResponseDelivery ==
    ASSUME TypeOK, Followed, DeliveryIsRight, HandleTileResponse
    PROVE  DeliveryIsRight'
  <1>1. /\ fromKit # <<>> /\ Head(fromKit).k = "tiles"
        /\ fromKit' = Tail(fromKit)
        /\ UNCHANGED <<content, active, missed, skipped, screen, cancelled>>
    BY DEF HandleTileResponse, kitVars, clientVars, bounds
  <1>2. PICK images : images = Head(fromKit).tiles
    OBVIOUS
  <1>3. /\ Head(fromKit) = fromKit[1] /\ fromKit[1] \in FromKitMessages /\ 1 \in 1..Len(fromKit)
    BY <1>1, TypesAre, ElementsTail
  <1>4. images \in Seq(Images)
    BY <1>1, <1>2, <1>3, FromKitIs
  <1>5. PICK c : c = SaveTiles(Broker, images)
    OBVIOUS
  <1>6. PICK M : M = Elements(images)
    OBVIOUS
  <1>7. Saves(Broker, c, M) /\ Delivers(Broker, c, M)
    BY <1>4, <1>5, <1>6, TypesAre, SaveTilesSaves, SaveTilesDelivers
  <1>8. Broker' = c /\ queue' = c.queue
    <2>1. BrokerBecomes(c)
      BY <1>2, <1>5 DEF HandleTileResponse
    <2> QED BY <1>7, <2>1, BrokerBecomesIs DEF Saves
  <1>9. Broker'.queue = Broker.queue /\ queue' = queue
    BY <1>7, <1>8, TypesAre DEF Saves
  <1>10. /\ Len(fromKit') = Len(fromKit) - 1
         /\ \A i \in 1..Len(fromKit') : i + 1 \in 1..Len(fromKit) /\ fromKit'[i] = fromKit[i + 1]
         /\ \A i \in Nat : \A s, t : Pending(s, t, i + 1) => Pending(s, t, i)'
         /\ \A s, t : Pending(s, t, 0) => Pending(s, t, 0)'
    BY <1>1, <1>3, <1>9, PendingBehindHead
  <1>11. PICK Z : Z = Shown(M)
    OBVIOUS
  <1>12. ASSUME NEW s \in Clients, NEW t \in Tiles
         PROVE  Pending(s, t, 0)' \/ Z[t] \subseteq {NoTile, content[t]}
    <2> SUFFICES ASSUME ~Pending(s, t, 0)', NEW z \in Z[t] PROVE z = content[t]
      OBVIOUS
    <2>1. PICK m \in M : m.t = t /\ z = m.content
      BY <1>11 DEF Shown
    <2> SUFFICES ASSUME m.content # content[m.t] PROVE FALSE
      BY <2>1
    <2>2. Pending(s, m.t, 1)
      BY <1>1, <1>2, <1>3, <1>6 DEF Followed, ImagesAreFollowed
    <2>3. Pending(s, t, 0 + 1)
      BY <2>1, <2>2
    <2> QED BY <1>10, <2>3, 0 \in Nat
  <1>13. Answers(Broker, Broker', Z)
    BY <1>7, <1>8, <1>11 DEF Delivers
  <1>14. WireIdsAreRight' /\ ScreensSettle'
    BY <1>1, <1>10, <1>12, <1>13, SettledWhenAnswered DEF DeliveryIsRight
  <1>15. ASSUME NEW t \in Tiles, BeingRendered(Broker', t)
         PROVE  /\ BeingRendered(Broker, t) /\ Broker'.tbr[t].ver = Broker.tbr[t].ver
                /\ \A v \in Nat : v = Broker.tbr[t].ver /\ Comes(t, v) => Comes(t, v)'
    <2>1. /\ BeingRendered(Broker, t) /\ Broker'.tbr[t].ver = Broker.tbr[t].ver
          /\ \A m \in M : m.t = t => m.ver < Broker.tbr[t].ver
      BY <1>7, <1>8, <1>15 DEF Delivers
    <2> SUFFICES ASSUME NEW v \in Nat, v = Broker.tbr[t].ver, Sent(t, v) PROVE Sent(t, v)'
      BY <1>9, <2>1 DEF Comes
    <2>2. CASE \E r \in skipped : r.t = t /\ r.ver >= v /\ r.old = content[t]
      BY <1>1, <2>2 DEF Sent
    <2>3. CASE \E l \in 1..Len(fromKit) :
                 /\ fromKit[l].k = "tiles"
                 /\ \E x \in Elements(fromKit[l].tiles) : x.t = t /\ x.ver >= v
      <3>1. PICK l \in 1..Len(fromKit) :
              /\ fromKit[l].k = "tiles"
              /\ \E x \in Elements(fromKit[l].tiles) : x.t = t /\ x.ver >= v
        BY <2>3
      <3>2. l # 1
        <4> SUFFICES ASSUME l = 1 PROVE FALSE
          OBVIOUS
        <4>1. PICK x \in M : x.t = t /\ x.ver >= v
          BY <1>2, <1>3, <1>6, <3>1
        <4>2. x.ver \in Nat
          BY <1>4, <1>6, ElementsAre, ImageIs
        <4>3. x.ver < v
          BY <2>1, <4>1
        <4> QED BY <4>1, <4>2, <4>3
      <3>3. Len(fromKit) \in Nat
        BY TypesAre
      <3>4. PICK i : i = l - 1
        OBVIOUS
      <3>5. i \in 1..Len(fromKit') /\ i + 1 = l
        BY <1>10, <3>2, <3>3, <3>4
      <3>6. fromKit'[i] = fromKit[l]
        BY <1>10, <3>5
      <3> QED BY <3>1, <3>5, <3>6 DEF Sent
    <2> QED BY <2>2, <2>3 DEF Sent
  <1>16. RenderingIsRight'
    <2>1. ASSUME NEW s \in Clients, NEW t \in Tiles, BeingRendered(Broker', t), NEW v \in Nat,
                 v = Broker.tbr[t].ver, Expected(s, t, v)
          PROVE  Expected(s, t, v)'
      BY <1>10, <1>15, <2>1 DEF Expected
    <2>2. /\ Broker'.ver = Broker.ver
          /\ \A r \in Elements(Broker'.queue) : r \in Elements(Broker.queue)
      BY <1>7, <1>8, <1>9 DEF Delivers
    <2> QED BY <1>15, <2>1, <2>2, RenderingWhenKept DEF DeliveryIsRight
  <1> QED BY <1>1, <1>14, <1>16 DEF DeliveryIsRight

\* The session has heard: what it shows is in the cache, or is owed to it.
LEMMA HandleInvalidateTilesDelivery ==
    ASSUME TypeOK, TypeOK', Followed, DeliveryIsRight, HandleInvalidateTiles
    PROVE  DeliveryIsRight'
  <1>1. /\ fromKit # <<>> /\ Head(fromKit).k = "invalidatetiles"
        /\ fromKit' = Tail(fromKit)
        /\ UNCHANGED <<content, active, missed, skipped, screen, cancelled>>
    BY DEF HandleInvalidateTiles, kitVars, clientVars, bounds
  <1>2. PICK m : m = Head(fromKit)
    OBVIOUS
  <1>3. m = fromKit[1] /\ m \in FromKitMessages
    BY <1>1, <1>2, TypesAre, ElementsTail
  <1>4. PICK s \in Clients : s = m.s
    BY <1>1, <1>2, <1>3, FromKitIs
  <1>5. PICK ts \in SUBSET Tiles : ts = m.ts
    BY <1>1, <1>2, <1>3, FromKitIs
  <1>6. PICK outdated, stalled :
          BrokerBecomes(HandleTileInvalidation(Broker, s, ts, outdated, stalled))
    BY <1>2, <1>4, <1>5 DEF HandleInvalidateTiles
  <1>7. PICK c : c = HandleTileInvalidation(Broker, s, ts, outdated, stalled)
    OBVIOUS
  <1>8. c \in BrokerStates /\ Touched(c.queue) = Touched(queue)
    BY <1>7, TypesAre, HandleTileInvalidationIs
  <1>9. Broker' = c /\ queue' = c.queue
    BY <1>6, <1>7, <1>8, BrokerBecomesIs
  <1>10. PICK Z : Z = Stock(Invalidated(Broker, ts))
    OBVIOUS
  <1>11. /\ Answers(Broker, c, Z) /\ Registers(Broker, c)
         /\ \A t \in ts \ Previews : Owes(c, s, t) \/ Has(c.client[s], t, Z[t])
         /\ InVersion(Broker) /\ TilesInVersion(Broker) =>
              \A t \in ts \ Previews : BeingRendered(c, t) => Asked(c.queue, t, c.tbr[t].ver)
    BY <1>7, <1>10, TypesAre, HandleTileInvalidationAnswers
  <1>12. \A t \in Tiles : Z[t] = {IF t \in ts THEN NoTile ELSE cache[t]}
    <2>1. PICK x : x = [t \in Tiles |-> IF t \in ts THEN NoTile ELSE cache[t]]
      OBVIOUS
    <2>2. Invalidated(Broker, ts) = [Broker EXCEPT !.cache = x]
      BY <2>1, TypesAre DEF Invalidated
    <2>3. Invalidated(Broker, ts).cache = x
      BY <2>2, TypesAre, BrokerIs
    <2> QED BY <1>10, <2>1, <2>3 DEF Stock
  <1>13. /\ Len(fromKit') = Len(fromKit) - 1
         /\ \A i \in 1..Len(fromKit') : i + 1 \in 1..Len(fromKit) /\ fromKit'[i] = fromKit[i + 1]
         /\ \A r, t : Pending(r, t, 0) /\ ~(r = s /\ t \in ts) => Pending(r, t, 0)'
    BY <1>1, <1>3, <1>4, <1>5, <1>8, <1>9, PendingBehindHead
  <1>14. ASSUME NEW r \in Clients, NEW t \in Tiles
         PROVE  Pending(r, t, 0)' \/ Z[t] \subseteq {NoTile, content[t]}
    <2>1. CASE t \in ts
      BY <1>12, <2>1
    <2>2. CASE t \notin ts
      BY <1>12, <1>13, <2>2 DEF Followed, CachedAreFollowed
    <2> QED BY <2>1, <2>2
  <1>15. WireIdsAreRight' /\ ScreensSettle'
    <2>1. Answers(Broker, Broker', Z)
      BY <1>9, <1>11
    <2>2. ASSUME NEW r \in Clients, NEW t \in Tiles, Pending(r, t, 0)
          PROVE  \/ Pending(r, t, 0)' \/ t \in Previews
                 \/ Owes(Broker', r, t) \/ Has(Broker'.client[r], t, Z[t])
      BY <1>9, <1>11, <1>13, <2>2
    <2> QED BY <1>1, <1>14, <2>1, <2>2, SettledWhenAnswered DEF DeliveryIsRight
  <1>16. ASSUME NEW t \in Tiles, NEW v \in Nat, Sent(t, v) PROVE Sent(t, v)'
    <2>1. CASE \E r \in skipped : r.t = t /\ r.ver >= v /\ r.old = content[t]
      BY <1>1, <2>1 DEF Sent
    <2>2. CASE \E l \in 1..Len(fromKit) :
                 /\ fromKit[l].k = "tiles"
                 /\ \E x \in Elements(fromKit[l].tiles) : x.t = t /\ x.ver >= v
      <3>1. PICK l \in 1..Len(fromKit) :
              /\ fromKit[l].k = "tiles"
              /\ \E x \in Elements(fromKit[l].tiles) : x.t = t /\ x.ver >= v
        BY <2>2
      <3>2. l # 1
        BY <1>1, <1>2, <1>3, <3>1
      <3>3. Len(fromKit) \in Nat
        BY TypesAre
      <3>4. PICK i : i = l - 1
        OBVIOUS
      <3>5. i \in 1..Len(fromKit') /\ i + 1 = l
        BY <1>13, <3>2, <3>3, <3>4
      <3>6. fromKit'[i] = fromKit[l]
        BY <1>13, <3>5
      <3> QED BY <3>1, <3>5, <3>6 DEF Sent
    <2> QED BY <1>16, <2>1, <2>2 DEF Sent
  <1>17. RenderingIsRight'
    <2>1. Registers(Broker, Broker')
      BY <1>9, <1>11
    <2>2. ASSUME NEW r \in Clients, NEW t \in Tiles \ Previews, Pending(r, t, 0), ~Pending(r, t, 0)',
                 BeingRendered(c, t)
          PROVE  Asked(c.queue, t, c.tbr[t].ver)
      BY <1>11, <1>13, <2>2 DEF DeliveryIsRight, RenderingIsRight
    <2>3. \A r \in Clients, t \in Tiles \ Previews : Pending(r, t, 0) =>
            \/ Pending(r, t, 0)'
            \/ BeingRendered(Broker', t) => Asked(Broker'.queue, t, Broker'.tbr[t].ver)
      BY <1>9, <2>2
    <2> QED BY <1>16, <2>1, <2>3, RenderingWhenRegistered DEF DeliveryIsRight
  <1> QED BY <1>1, <1>15, <1>17 DEF DeliveryIsRight

LEMMA KitInvalidatesDelivery ==
    ASSUME TypeOK, TypeOK', DeliveryIsRight, NEW t \in Tiles, NEW c \in Contents,
           KitInvalidates(t, c)
    PROVE  DeliveryIsRight'
  <1>1. /\ queue' \in PutInvalidation(queue, {t})
        /\ content' = [content EXCEPT ![t] = c]
        /\ UNCHANGED <<tileVersion, cache, tbr, client, active, missed, skipped, fromKit, screen,
                       cancelled>>
    BY DEF KitInvalidates, brokerVars, clientVars
  <1>2. /\ Touched(queue') = Touched(queue) \cup {t}
        /\ \A m \in KitMessages :
             m.k = "tile" => (m \in Elements(queue') <=> m \in Elements(queue))
    <2>1. PICK ts \in SUBSET Tiles : ts = {t}
      OBVIOUS
    <2>2. queue \in Seq(KitMessages) /\ queue' \in PutInvalidation(queue, ts)
      BY <1>1, <2>1, TypesAre
    <2>3. PICK q : q = queue'
      OBVIOUS
    <2>4. /\ Touched(q) = Touched(queue) \cup ts
          /\ \A m \in KitMessages : m.k = "tile" => (m \in Elements(q) <=> m \in Elements(queue))
      BY <2>2, <2>3, PutInvalidationIs
    <2> QED BY <2>1, <2>3, <2>4
  <1>3. \A s, u : (Pending(s, u, 0) \/ u = t) => Pending(s, u, 0)'
    BY <1>1, <1>2 DEF Pending
  <1>4. \A u \in Tiles : u # t => content'[u] = content[u]
    BY <1>1, TypesAre
  <1>5. /\ Broker'.ver = Broker.ver /\ Broker'.tbr = Broker.tbr
        /\ Broker'.client = Broker.client
        /\ Broker.queue = queue /\ Broker'.queue = queue'
    BY <1>1 DEF Broker
  <1>6. Rests(Broker, Broker')
    BY <1>5 DEF Rests, Alike, Subscribed
  <1>7. WireIdsAreRight' /\ ScreensSettle'
    BY <1>1, <1>3, <1>4, <1>6, SettledWhenRested DEF DeliveryIsRight
  <1>8. RenderingIsRight'
    BY <1>1, <1>2, <1>3, <1>4, <1>5, RenderingWhenRested DEF DeliveryIsRight
  <1> QED BY <1>1, <1>7, <1>8 DEF DeliveryIsRight

\* What has been asked for waits, or is sent, or is skipped.
LEMMA KitRunsDelivery ==
    ASSUME TypeOK, TypeOK', DeliveryIsRight, KitRuns, NEW ms, NEW more, KitTakes(ms, more)
    PROVE  DeliveryIsRight'
  <1>1. UNCHANGED <<tileVersion, cache, tbr, client, content, screen, cancelled>>
    BY DEF KitRuns, brokerVars, clientVars, bounds
  <1>2. /\ Taken(queue, ms, queue') /\ more \in Seq(FromKitMessages) /\ KitSends(more)
        /\ ms[1].k = "tile" => Renders(ms, more)
    BY DEF KitTakes
  <1>3. fromKit' = fromKit \o more /\ skipped \subseteq skipped' /\ active' \cap missed' = {}
    BY <1>2 DEF KitSends, DeliveryIsRight
  <1>4. \A s \in Clients, t \in Tiles : Pending(s, t, 0) => Pending(s, t, 0)'
    <2>1. \A s \in Clients, t \in Tiles, i \in 0..Len(fromKit) :
            Pending(s, t, i) => Pending(s, t, i)'
      BY <1>2, PendingWhenSent DEF KitSends
    <2>2. 0 \in 0..Len(fromKit)
      BY TypesAre
    <2> QED BY <2>1, <2>2
  <1>5. /\ Broker'.ver = Broker.ver /\ Broker'.tbr = Broker.tbr
        /\ Broker'.client = Broker.client
        /\ Broker.queue = queue /\ Broker'.queue = queue'
    BY <1>1 DEF Broker
  <1>6. Rests(Broker, Broker')
    BY <1>5 DEF Rests, Alike, Subscribed
  <1>7. WireIdsAreRight' /\ ScreensSettle'
    BY <1>1, <1>4, <1>6, SettledWhenRested DEF DeliveryIsRight
  <1>8. /\ Len(fromKit) \in Nat /\ Len(more) \in Nat
        /\ Len(fromKit') = Len(fromKit) + Len(more)
        /\ \A l \in 1..Len(fromKit) : fromKit'[l] = fromKit[l]
        /\ \A l \in 1..Len(more) : fromKit'[Len(fromKit) + l] = more[l]
    BY <1>2, <1>3, TypesAre
  <1>9. ASSUME NEW t \in Tiles, NEW v \in Nat, Sent(t, v) PROVE Sent(t, v)'
    <2>1. CASE \E r \in skipped : r.t = t /\ r.ver >= v /\ r.old = content[t]
      BY <1>1, <1>3, <2>1 DEF Sent
    <2>2. CASE \E l \in 1..Len(fromKit) :
                 /\ fromKit[l].k = "tiles"
                 /\ \E x \in Elements(fromKit[l].tiles) : x.t = t /\ x.ver >= v
      <3>1. PICK l \in 1..Len(fromKit) :
              /\ fromKit[l].k = "tiles"
              /\ \E x \in Elements(fromKit[l].tiles) : x.t = t /\ x.ver >= v
        BY <2>2
      <3>2. l \in 1..Len(fromKit') /\ fromKit'[l] = fromKit[l]
        BY <1>8
      <3> QED BY <3>1, <3>2 DEF Sent
    <2> QED BY <1>9, <2>1, <2>2 DEF Sent
  <1>10. ASSUME NEW t \in Tiles, NEW v \in Nat, Asked(queue, t, v)
         PROVE  Asked(queue', t, v) \/ Sent(t, v)'
    <2>1. PICK r \in Elements(queue) : r.k = "tile" /\ r.t = t /\ r.ver >= v
      BY <1>10 DEF Asked
    <2>2. CASE r \in Elements(queue')
      BY <2>1, <2>2 DEF Asked
    <2>3. CASE r \notin Elements(queue')
      <3>1. ms[1].k = "tile" /\ r \in Elements(ms)
        <4>1. r \in Elements(ms)
          BY <1>2, <2>3 DEF Taken
        <4>2. ms[1].k = "tile"
          BY <1>2, <2>1, <2>3 DEF Taken
        <4> QED BY <4>1, <4>2
      <3>2. \/ r \in skipped' /\ Unchanged(r)
            \/ \E m \in Elements(more) :
                 m.k = "tiles" /\ \E x \in Elements(m.tiles) : x.t = r.t /\ x.ver = r.ver
        BY <1>2, <3>1 DEF Renders
      <3>3. CASE r \in skipped' /\ Unchanged(r)
        BY <1>1, <2>1, <3>3 DEF Sent, Unchanged
      <3>4. CASE \E m \in Elements(more) :
                   m.k = "tiles" /\ \E x \in Elements(m.tiles) : x.t = r.t /\ x.ver = r.ver
        <4>1. PICK l \in 1..Len(more) :
                /\ more[l].k = "tiles"
                /\ \E x \in Elements(more[l].tiles) : x.t = r.t /\ x.ver = r.ver
          BY <3>4 DEF Elements
        <4>2. PICK i : i = Len(fromKit) + l
          OBVIOUS
        <4>3. i \in 1..Len(fromKit') /\ fromKit'[i] = more[l]
          BY <1>8, <4>2
        <4> QED BY <2>1, <4>1, <4>3 DEF Sent
      <3> QED BY <3>2, <3>3, <3>4
    <2> QED BY <2>2, <2>3
  <1>11. ASSUME NEW t \in Tiles, NEW v \in Nat, Comes(t, v) PROVE Comes(t, v)'
    BY <1>5, <1>9, <1>10, <1>11 DEF Comes
  <1>12. ASSUME NEW s \in Clients, NEW t \in Tiles, NEW v \in Nat, Expected(s, t, v)
         PROVE  Expected(s, t, v)'
    BY <1>4, <1>11, <1>12 DEF Expected
  <1>13. RenderingIsRight'
    <2>1. \A r \in Elements(Broker'.queue) : r \in Elements(Broker.queue)
      BY <1>2, <1>5 DEF Taken
    <2>2. \A t \in Tiles : BeingRendered(Broker', t) => BeingRendered(Broker, t)
      BY <1>5 DEF BeingRendered
    <2> QED BY <1>5, <1>12, <2>1, <2>2, RenderingWhenKept DEF DeliveryIsRight
  <1> QED BY <1>3, <1>7, <1>13 DEF DeliveryIsRight

LEMMA StutterDelivery ==
    ASSUME TypeOK, DeliveryIsRight, UNCHANGED vars
    PROVE  DeliveryIsRight'
  <1>1. UNCHANGED <<tileVersion, cache, tbr, client, queue, content, active, missed, skipped,
                    fromKit, screen, cancelled>>
    BY DEF vars, brokerVars, kitVars, clientVars, bounds
  <1>2. Broker' = Broker
    BY <1>1 DEF Broker
  <1>3. \A s, t : Pending(s, t, 0)' <=> Pending(s, t, 0)
    BY <1>1 DEF Pending
  <1>4. WireIdsAreRight'
    BY <1>1, <1>2 DEF DeliveryIsRight, WireIdsAreRight
  <1>5. ScreensSettle'
    BY <1>1, <1>2, <1>3 DEF DeliveryIsRight, ScreensSettle, Settled
  <1>6. \A t, v : Sent(t, v)' <=> Sent(t, v)
    BY <1>1 DEF Sent
  <1>7. RenderingIsRight'
    BY <1>2, <1>3, <1>6 DEF DeliveryIsRight, RenderingIsRight, RegisteredAreComing, Expected, Comes
  <1> QED BY <1>1, <1>4, <1>5, <1>7 DEF DeliveryIsRight

LEMMA DeliveryInit == Init => DeliveryIsRight
  <1> SUFFICES ASSUME Init PROVE DeliveryIsRight
    OBVIOUS
  <1>1. /\ tileVersion = 0 /\ tbr = [t \in Tiles |-> NotRendered]
        /\ client = [s \in Clients |-> NewClient]
        /\ queue = <<>> /\ active = Clients /\ missed = {}
        /\ screen = [s \in Clients |-> [t \in Tiles |-> NoTile]]
    BY DEF Init
  <1>2. Broker.client = client /\ Broker.tbr = tbr /\ Broker.queue = queue /\ Broker.ver = 0
    BY <1>1 DEF Broker
  <1>3. ASSUME NEW s \in Clients, NEW t \in Tiles
        PROVE  /\ Broker.client[s].wids[t] = 0 /\ Due(Broker.client[s], t) = {}
               /\ screen[s][t] = NoTile
    <2>1. Broker.client[s] = NewClient
      BY <1>1, <1>2
    <2>2. NewClient.out = <<>> /\ NewClient.wids[t] = 0
      BY DEF NewClient
    <2>3. Due(NewClient, t) = {}
      BY <2>2, NoElements DEF Due
    <2> QED BY <1>1, <2>1, <2>2, <2>3
  <1>4. WireIdsAreRight
    BY <1>3 DEF WireIdsAreRight, HasItsWireId
  <1>5. ScreensSettle
    BY <1>3 DEF ScreensSettle, Settled, Shows
  <1>6. RenderingIsRight
    <2>1. \A t \in Tiles : ~BeingRendered(Broker, t)
      BY <1>1, <1>2 DEF BeingRendered
    <2>2. Elements(Broker.queue) = {}
      BY <1>1, <1>2, NoElements
    <2> QED BY <2>1, <2>2 DEF RenderingIsRight, InVersion, TilesInVersion, RegisteredAreComing
  <1> QED BY <1>1, <1>4, <1>5, <1>6 DEF DeliveryIsRight

-----------------------------------------------------------------------------
(* The theorems.                                                           *)

\* TypeOK and SessionsCountTheirTiles are inductive together; CacheIsCurrent is
\* not: a tile that is cached is outdated only if it was on its way, so what is
\* on its way has to be followed too.
ServiceInv == TypeOK /\ SessionsCountTheirTiles /\ Followed

LEMMA CountsIs == SessionsCountTheirTiles <=> Counts(Broker)
  BY DEF SessionsCountTheirTiles, Counts, Broker

LEMMA CountsNext == Counts(Broker') => SessionsCountTheirTiles'
  BY DEF SessionsCountTheirTiles, Counts, Broker, Subscribed

LEMMA CountsOn ==
    ASSUME SessionsCountTheirTiles, Broker'.client = client, Broker'.tbr = tbr
    PROVE  SessionsCountTheirTiles'
  BY DEF SessionsCountTheirTiles, Broker, Subscribed

LEMMA ServiceInit == Init => ServiceInv
  <1> SUFFICES ASSUME Init PROVE ServiceInv
    OBVIOUS
  <1>1. /\ tileVersion = 0 /\ cache = [t \in Tiles |-> NoTile]
        /\ tbr = [t \in Tiles |-> NotRendered] /\ client = [s \in Clients |-> NewClient]
        /\ queue = <<>> /\ content = [t \in Tiles |-> 1]
        /\ active = Clients /\ missed = {} /\ skipped = {} /\ fromKit = <<>>
        /\ screen = [s \in Clients |-> [t \in Tiles |-> NoTile]]
        /\ acks = [s \in Clients |-> <<>>]
        /\ edits = 0 /\ requests = 0 /\ cancelled = {}
    BY DEF Init
  <1>2. NewClient \in ClientStates /\ NewClient.rendering = {}
    BY DEF NewClient, ClientStates
  <1>3. NotRendered \in TileStates /\ NotRendered.subs = <<>>
    BY DEF NotRendered, TileStates
  <1>4. Broker \in BrokerStates
    BY <1>1, <1>2, <1>3 DEF Broker, BrokerStates, NoTile
  <1>5. TypeOK
    BY <1>1, <1>4, ContentsAssumption, BoundsAssumption DEF TypeOK, NoTile
  <1>6. SessionsCountTheirTiles
    BY <1>1, <1>2, <1>3, NoElements, SubscribedIs DEF SessionsCountTheirTiles, Broker
  <1>7. Followed
    BY <1>1 DEF Followed, ImagesAreFollowed, CachedAreFollowed
  <1> QED BY <1>5, <1>6, <1>7 DEF ServiceInv

LEMMA ServiceNext == ServiceInv /\ [Next]_vars => ServiceInv'
  <1> SUFFICES ASSUME ServiceInv, [Next]_vars PROVE ServiceInv'
    OBVIOUS
  <1> USE DEF ServiceInv
  <1>1. CASE KitRuns
    BY <1>1, KitRunsFollowed, CountsOn
  <1>2. CASE \E t \in Tiles, c \in Contents : KitInvalidates(t, c)
    BY <1>2, KitInvalidatesFollowed, CountsOn
  <1>3. CASE HandleTileResponse
    BY <1>3, HandleTileResponseFollowed, CountsIs, CountsNext
  <1>4. CASE HandleInvalidateTiles
    BY <1>4, HandleInvalidateTilesFollowed, CountsIs, CountsNext
  <1>5. CASE \E s \in Clients : ClientStep(s)
    <2>1. TypeOK' /\ ServeStep
      BY <1>5, ClientStepServes
    <2>2. Counts(Broker) => Counts(Broker')
      BY <2>1 DEF ServeStep, Serves
    <2> QED BY <2>1, <2>2, CountsIs, CountsNext, FollowedWhenServed
  <1>6. CASE UNCHANGED vars
    <2>1. UNCHANGED <<tileVersion, cache, tbr, client, queue, content, active, missed, skipped, fromKit,
                      screen, acks, edits, requests, cancelled>>
      BY <1>6 DEF vars, brokerVars, kitVars, clientVars, bounds
    <2>2. Broker' = Broker
      BY <2>1 DEF Broker
    <2>3. TypeOK'
      BY <2>1, <2>2 DEF TypeOK
    <2> QED BY <2>1, <2>2, <2>3, CountsIs, CountsNext, FollowedWhenUnchanged
  <1> QED BY <1>1, <1>2, <1>3, <1>4, <1>5, <1>6 DEF Next, KitStep, Done

THEOREM ServiceInvariant == Spec => []ServiceInv
  BY ServiceInit, ServiceNext, PTL DEF Spec

\* The broker, the kit and the clients keep the types of their state, whatever
\* they handle in whatever order.
THEOREM ServiceTypes == Spec => []TypeOK
  <1>1. ServiceInv => TypeOK
    BY DEF ServiceInv
  <1> QED BY <1>1, ServiceInvariant, PTL

\* For any number of tiles and sessions and any limit: the tiles a session
\* counts against its limit are those it is subscribed to
\* (subscribeToTileRendering, forgetTileBeingRendered, cancelTiles).
THEOREM TilesAreCounted == Spec => []SessionsCountTheirTiles
  <1>1. ServiceInv => SessionsCountTheirTiles
    BY DEF ServiceInv
  <1> QED BY <1>1, ServiceInvariant, PTL

LEMMA FollowedIsCurrent == TypeOK /\ Followed => CacheIsCurrent
  <1> SUFFICES ASSUME TypeOK, Followed, NEW t \in Tiles, cache[t] \notin {NoTile, content[t]},
                      NEW s \in Clients
               PROVE  InvalidationPending(s, t)
    BY DEF CacheIsCurrent
  <1>1. Pending(s, t, 0)
    BY DEF Followed, CachedAreFollowed
  <1>2. CASE t \in Touched(queue)
    <2>1. PICK m \in Elements(queue) : m.k = "invalidate" /\ t \in m.ts
      BY <1>2, TouchedIs
    <2> QED BY <2>1 DEF Elements, InvalidationPending
  <1> QED BY <1>1, <1>2 DEF Pending, InvalidationPending

\* In the same generality, an outdated tile is in the cache only while each
\* session has still to hear of the change (saveTileAndNotify caches whatever
\* comes, handleTileInvalidation removes it).
THEOREM CacheStaysCurrent == Spec => []CacheIsCurrent
  <1>1. ServiceInv => CacheIsCurrent
    BY FollowedIsCurrent DEF ServiceInv
  <1> QED BY <1>1, ServiceInvariant, PTL

LEMMA DeliveryNext == ServiceInv /\ DeliveryIsRight /\ [Next]_vars => DeliveryIsRight'
  <1> SUFFICES ASSUME ServiceInv, DeliveryIsRight, [Next]_vars PROVE DeliveryIsRight'
    OBVIOUS
  <1>1. TypeOK /\ Followed /\ TypeOK'
    <2>1. ServiceInv'
      BY ServiceNext
    <2> QED BY <2>1 DEF ServiceInv
  <1>2. CASE KitRuns
    <2>1. PICK ms, more : KitTakes(ms, more)
      BY <1>1, <1>2, KitRunsFollowed
    <2> QED BY <1>1, <1>2, <2>1, KitRunsDelivery
  <1>3. CASE \E t \in Tiles, c \in Contents : KitInvalidates(t, c)
    BY <1>1, <1>3, KitInvalidatesDelivery
  <1>4. CASE HandleTileResponse
    BY <1>1, <1>4, HandleTileResponseDelivery
  <1>5. CASE HandleInvalidateTiles
    BY <1>1, <1>5, HandleInvalidateTilesDelivery
  <1>6. CASE \E s \in Clients : ClientStep(s)
    BY <1>1, <1>6, ClientStepDelivery
  <1>7. CASE UNCHANGED vars
    BY <1>1, <1>7, StutterDelivery
  <1> QED BY <1>2, <1>3, <1>4, <1>5, <1>6, <1>7 DEF Next, KitStep, Done

\* Once nothing is under way nothing is pending for an active session, and what
\* is owed to it has been skipped.
LEMMA DeliveredIsCurrent == TypeOK /\ DeliveryIsRight => ScreensAreCurrent
  <1> SUFFICES ASSUME TypeOK, DeliveryIsRight, NothingUnderWay,
                      NEW s \in active \ cancelled, NEW t \in Tiles \ Previews
               PROVE  \/ screen[s][t] \in {NoTile, content[t]}
                      \/ \E i \in 1..Len(client[s].requested) : client[s].requested[i].t = t
                      \/ WaitsForSkipped(s, t)
    BY DEF ScreensAreCurrent
  <1>1. s \in Clients \ cancelled
    BY TypesAre
  <1>2. queue = <<>> /\ fromKit = <<>> /\ client[s].out = <<>>
    BY <1>1 DEF NothingUnderWay
  <1>3. Elements(queue) = {} /\ Elements(client[s].out) = {} /\ Len(fromKit) = 0
    BY <1>2, NoElements
  <1>4. ~Pending(s, t, 0)
    <2>1. s \notin missed
      BY DEF DeliveryIsRight
    <2>2. t \notin Touched(queue)
      BY <1>3, TouchedIs
    <2> QED BY <1>3, <2>1, <2>2 DEF Pending
  <1>5. Broker.client = client /\ Broker.tbr = tbr /\ Broker.queue = queue
    BY TypesAre
  <1>6. Settled(s, t)
    BY <1>1 DEF DeliveryIsRight, ScreensSettle
  <1>7. CASE Shows(Broker.client[s], t, screen[s][t], {NoTile, content[t]})
    <2>1. Due(client[s], t) = {}
      BY <1>3 DEF Due
    <2> QED BY <1>5, <1>7, <2>1 DEF Shows
  <1>8. CASE Wants(Broker.client[s], t)
    <2>1. PICK r \in Elements(client[s].requested) : r.t = t
      BY <1>5, <1>8 DEF Wants
    <2> QED BY <2>1 DEF Elements
  <1>9. CASE Subscribed(Broker, s, t)
    <2>1. BeingRendered(Broker, t)
      <3>1. NotRendered.subs = <<>>
        BY DEF NotRendered
      <3> QED BY <1>9, <3>1, NoElements, SubscribedIs DEF BeingRendered
    <2>2. Comes(t, tbr[t].ver)
      BY <1>1, <1>4, <1>5, <2>1 DEF DeliveryIsRight, RenderingIsRight, RegisteredAreComing, Expected
    <2>3. ~Asked(Broker.queue, t, tbr[t].ver)
      BY <1>3, <1>5 DEF Asked
    <2>4. \E r \in skipped : r.t = t /\ r.ver >= tbr[t].ver /\ r.old = content[t]
      BY <1>3, <2>2, <2>3 DEF Comes, Sent
    <2> QED BY <1>9, <2>4 DEF WaitsForSkipped
  <1> QED BY <1>4, <1>6, <1>7, <1>8, <1>9 DEF Settled, Owes

\* ScreensAreCurrent speaks of the end; what holds on the way is that each tile
\* is shown, or owed, or has still to be heard of, and that what is owed comes.
ScreensInv == ServiceInv /\ DeliveryIsRight

\* For any number of tiles and sessions, any limit and any number of changes of
\* the document: once nothing is under way, what an active client that has not
\* cancelled shows of a tile is what the document looks like, or its request
\* waits, or the kit has skipped the tile as unchanged for another's request
\* (enqueueSendMessage, sendRequestedTiles, handleTileInvalidation,
\* saveTileAndNotify, renderCombinedTiles).
THEOREM ScreensStayCurrent == Spec => []ScreensAreCurrent
  <1>1. Init => ScreensInv
    BY ServiceInit, DeliveryInit DEF ScreensInv
  <1>2. ScreensInv /\ [Next]_vars => ScreensInv'
    BY ServiceNext, DeliveryNext DEF ScreensInv
  <1>3. ScreensInv => ScreensAreCurrent
    BY DeliveredIsCurrent DEF ScreensInv, ServiceInv
  <1> QED BY <1>1, <1>2, <1>3, PTL DEF Spec
=============================================================================
