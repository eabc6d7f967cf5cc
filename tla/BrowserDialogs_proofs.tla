------------------------- MODULE BrowserDialogs_proofs ------------------------
(***************************************************************************)
(* The dialogs of the kit and those on the page: for any windows, looks,   *)
(* size of the cache and number of messages under way, both become the     *)
(* same.                                                                   *)
(*                                                                         *)
(* The inductive invariant says, of each window of the kit, which message  *)
(* under way still brings the page to it where the page differs; and of    *)
(* the two lists of pictures, that the browser's will begin with the kit's *)
(* when the browser has read what is on its way.                           *)
(***************************************************************************)
EXTENDS BrowserDialogs, WellFoundedInduction, NaturalsInduction, FiniteSetTheorems,
        SequenceTheorems, TLAPS

-----------------------------------------------------------------------------
(* Dialogs: the inductive invariant.                                       *)

\* What the messages say.
Creates(m, w) == m[1] = "created" /\ m[2] = w
CreatesUnder(m, w, p) == Creates(m, w) /\ m[4] = p
Closes(m, w) == m[1] = "close" /\ m[2] = w
Paints(m, w) == m[1] = "windowpaint" /\ m[2] = w
Wakes(m, w) == m[1] \in {"invalidate", "size_changed"} /\ m[2] = w
Asks(m, w) == m[1] = "paintwindow" /\ m[2] = w

FromDesk ==
    ({"created"} \X Windows \X BOOLEAN \X AnyWindow)
    \cup ({"close", "invalidate", "size_changed"} \X Windows)
    \cup ({"cursor_visible"} \X Windows \X BOOLEAN)
    \cup ({"windowpaint"} \X Windows \X Looks \X BOOLEAN)
ToDesk == {"paintwindow", "close"} \X Windows

Wins == [open : BOOLEAN, titled : BOOLEAN, parent : AnyWindow, look : AnyLook]
Entries == [known : BOOLEAN, titled : BOOLEAN, child : AnyWindow, dom : BOOLEAN, shown : BOOLEAN,
            drawn : AnyLook, floating : AnyWindow, floatDrawn : AnyLook, caret : BOOLEAN]

Lists == {q \in Seq(Looks) : Len(q) <= CacheSize}
Desks == [wins : [Windows -> Wins], next : Nat, cache : Lists]
Shells == [dialogs : [Windows -> Entries], current : AnyWindow, pngs : Lists]

DialogsShape ==
    /\ desk \in Desks /\ shell \in Shells
    /\ deskOut \in Seq(FromDesk) /\ deskIn \in Seq(ToDesk)

\* The kit's windows: ids that have been given out, and one window at most hangs on a dialog.
IsTop(w) == desk.wins[w].open /\ desk.wins[w].parent = NoWindow
HangsOn(c, w) == w # NoWindow /\ desk.wins[c].open /\ desk.wins[c].parent = w

WindowsAreSound ==
    \A w \in Windows :
        /\ desk.wins[w].open => w < desk.next /\ desk.wins[w].look \in Looks
        /\ \A c \in Windows : HangsOn(c, w) => IsTop(w)
        /\ \A c, d \in Windows : HangsOn(c, w) /\ HangsOn(d, w) => c = d

\* Each window is announced once, before the windows that hang on it, and as what it is.
Announced ==
    \A i \in 1..Len(deskOut), w \in Windows : Creates(deskOut[i], w) =>
        /\ w < desk.next
        /\ \A j \in 1..Len(deskOut) : Creates(deskOut[j], w) => i = j
        /\ desk.wins[w].open => desk.wins[w].parent = deskOut[i][4]
        /\ deskOut[i][4] = NoWindow => \/ desk.wins[w].open
                                       \/ \E j \in i + 1..Len(deskOut) : Closes(deskOut[j], w)

AnnouncedUnder ==
    \A i \in 1..Len(deskOut), c, p \in Windows : CreatesUnder(deskOut[i], c, p) =>
        /\ p < desk.next /\ p # c
        /\ \A j \in 1..Len(deskOut) : Creates(deskOut[j], p) => j < i
        /\ \A d \in Windows : d # c /\ HangsOn(d, p) =>
              \E j \in i + 1..Len(deskOut) : CreatesUnder(deskOut[j], d, p)

\* A window that is said to be closed is, and one that is said to change its size is a dialog.
ClosedForGood ==
    \A i \in 1..Len(deskOut), w \in Windows :
        Closes(deskOut[i], w) => w < desk.next /\ ~desk.wins[w].open

ResizedIsTop ==
    \A i \in 1..Len(deskOut), w \in Windows :
        deskOut[i][1] = "size_changed" /\ deskOut[i][2] = w =>
            w < desk.next /\ (desk.wins[w].open => desk.wins[w].parent = NoWindow)

DeskInv == WindowsAreSound /\ Announced /\ AnnouncedUnder /\ ClosedForGood /\ ResizedIsTop

ComesClose(w) == \E i \in 1..Len(deskOut) : Closes(deskOut[i], w)
ComesCreated(w) == \E i \in 1..Len(deskOut) : Creates(deskOut[i], w)
GoesClose(w) == \E i \in 1..Len(deskIn) : Closes(deskIn[i], w)

\* The dialogs on the page are known, have been announced, and are the kit's.
PageIsKnown ==
    \A w \in Windows : shell.dialogs[w].dom =>
        shell.dialogs[w].known /\ w < desk.next /\ ~ComesCreated(w)

PageIsTheKits ==
    \A w \in Windows : shell.dialogs[w].dom =>
        /\ ParentIds(shell, w) = {}
        /\ desk.wins[w].open => desk.wins[w].parent = NoWindow
        /\ desk.wins[w].open \/ ComesClose(w)

\* A window is painted as it is, or will be, when everything is read.
WillBePainted(w) ==
    \/ \E i \in 1..Len(deskIn) : Asks(deskIn[i], w)
    \/ \E i \in 1..Len(deskOut) : Wakes(deskOut[i], w)
    \/ \E i \in 1..Len(deskOut) :
          /\ Paints(deskOut[i], w) /\ deskOut[i][3] = desk.wins[w].look
          /\ \A j \in i + 1..Len(deskOut) : ~Paints(deskOut[j], w)

PaintedOn(w, look) ==
    \/ WillBePainted(w)
    \/ look = desk.wins[w].look /\ \A i \in 1..Len(deskOut) : ~Paints(deskOut[i], w)

IsPainted(w) == PaintedOn(w, IF shell.dialogs[w].shown THEN shell.dialogs[w].drawn ELSE NoLook)

DialogsSettle ==
    \A w \in Windows : IsTop(w) =>
        ComesCreated(w) \/ GoesClose(w) \/ (IsOpen(shell, w) /\ IsPainted(w))

Attached(c, w) ==
    /\ IsOpen(shell, w)
    /\ shell.dialogs[w].child = c /\ shell.dialogs[w].floating = c
    /\ GetParentId(shell, c) = w
    /\ PaintedOn(c, shell.dialogs[w].floatDrawn)

ChildrenSettle ==
    \A c, w \in Windows : HangsOn(c, w) => ComesCreated(c) \/ GoesClose(w) \/ Attached(c, w)

DialogsInv ==
    /\ DialogsShape
    /\ DeskInv
    /\ PageIsKnown
    /\ "reused" \notin snags => PageIsTheKits /\ DialogsSettle
    /\ snags \cap {"reused", "relaunched"} = {} => ChildrenSettle

\* The kit's list of hashes is how the browser's list will begin once it has read what comes.
Begins(c, p) == Len(c) <= Len(p) /\ \A i \in 1..Len(c) : c[i] = p[i]

Follows(c, d, m) ==
    IF m[1] = "windowpaint"
    THEN d = MovedToFront(c, m[3]) /\ (~m[4] => Contains(c, m[3]))
    ELSE d = c

ListsAgree ==
    \E C \in [1..Len(deskOut) + 1 -> Lists] :
        /\ Begins(C[1], shell.pngs) /\ C[Len(deskOut) + 1] = desk.cache
        /\ \A i \in 1..Len(deskOut) : Follows(C[i], C[i + 1], deskOut[i])

\* What the messages are.
LEMMA FromDeskIs ==
    ASSUME NEW m \in FromDesk
    PROVE  /\ m[1] \in {"created", "close", "windowpaint", "invalidate", "size_changed",
                        "cursor_visible"}
           /\ m[2] \in Windows
           /\ m[1] = "created" => m[3] \in BOOLEAN /\ m[4] \in AnyWindow
           /\ m[1] = "windowpaint" => m[3] \in Looks /\ m[4] \in BOOLEAN
           /\ m[1] = "cursor_visible" => m[3] \in BOOLEAN
  BY DEF FromDesk

LEMMA ToDeskIs == ASSUME NEW m \in ToDesk PROVE m[1] \in {"paintwindow", "close"} /\ m[2] \in Windows
  BY DEF ToDesk

LEMMA NoWindowIs == NoWindow \notin Windows /\ NoWindow \in AnyWindow /\ Windows \subseteq AnyWindow
                    /\ Windows \subseteq Nat
  BY DialogsAssumption DEF NoWindow, AnyWindow

\* What a message that is appended, and one that is read, does to a queue.
Goes(q, r) == Len(q) <= Len(r) /\ \A i \in 1..Len(q) : r[i] = q[i]
Adds(q, r, m) == Len(r) = Len(q) + 1 /\ r[Len(r)] = m /\ Goes(q, r)
Moves(q, r) == Len(q) = Len(r) + 1 /\ \A i \in 1..Len(r) : r[i] = q[i + 1]

LEMMA AppendAdds ==
    ASSUME NEW X, NEW q \in Seq(X), NEW m \in X, NEW r, r = Append(q, m)
    PROVE  r \in Seq(X) /\ Adds(q, r, m)
  BY DEF Adds, Goes

LEMMA ConcatAdds ==
    ASSUME NEW X, NEW q \in Seq(X), NEW m \in X, NEW r, r = q \o <<m>>
    PROVE  r \in Seq(X) /\ Adds(q, r, m)
  BY DEF Adds, Goes

LEMMA TailMoves ==
    ASSUME NEW X, NEW q \in Seq(X), q # <<>>, NEW r, r = Tail(q)
    PROVE  r \in Seq(X) /\ Moves(q, r) /\ q[1] \in X /\ Head(q) = q[1] /\ Len(q) \in Nat \ {0}
  BY DEF Moves

-----------------------------------------------------------------------------
(* The kit's windows and what it says of them.                             *)

\* A message about a window that is there.
LEMMA SaysInv ==
    ASSUME DialogsShape, DeskInv, DialogsShape', NEW m \in FromDesk, Adds(deskOut, deskOut', m),
           m[1] \notin {"created", "close"},
           m[1] = "size_changed" => m[2] \in OpenDialogs,
           desk'.next = desk.next,
           \A w \in Windows : /\ desk'.wins[w].open = desk.wins[w].open
                              /\ desk'.wins[w].parent = desk.wins[w].parent
                              /\ desk'.wins[w].open => desk'.wins[w].look \in Looks
    PROVE  DeskInv'
<1>0. /\ Len(deskOut) \in Nat /\ Len(deskOut') = Len(deskOut) + 1 /\ deskOut'[Len(deskOut) + 1] = m
      /\ \A i \in 1..Len(deskOut) : deskOut'[i] = deskOut[i]
  BY DEF Adds, Goes, DialogsShape
<1>1. WindowsAreSound'
  BY DEF DeskInv, WindowsAreSound, HangsOn, IsTop
<1>2. \A i \in 1..Len(deskOut') : i # Len(deskOut) + 1 => i \in 1..Len(deskOut)
  BY <1>0
<1>3. Announced'
  <2> SUFFICES ASSUME NEW i \in 1..Len(deskOut'), NEW w \in Windows, Creates(deskOut'[i], w)
               PROVE  /\ w < desk'.next
                      /\ \A j \in 1..Len(deskOut') : Creates(deskOut'[j], w) => i = j
                      /\ desk'.wins[w].open => desk'.wins[w].parent = deskOut'[i][4]
                      /\ deskOut'[i][4] = NoWindow =>
                            \/ desk'.wins[w].open
                            \/ \E j \in i + 1..Len(deskOut') : Closes(deskOut'[j], w)
    BY DEF Announced, Creates, Closes
  <2>1. i \in 1..Len(deskOut) /\ deskOut'[i] = deskOut[i] /\ Creates(deskOut[i], w)
    BY <1>0, <1>2 DEF Creates
  <2>2. /\ w < desk.next
        /\ \A j \in 1..Len(deskOut) : Creates(deskOut[j], w) => i = j
        /\ desk.wins[w].open => desk.wins[w].parent = deskOut[i][4]
        /\ deskOut[i][4] = NoWindow =>
              \/ desk.wins[w].open
              \/ \E j \in i + 1..Len(deskOut) : Closes(deskOut[j], w)
    BY <2>1 DEF DeskInv, Announced
  <2>3. \A j \in 1..Len(deskOut') : Creates(deskOut'[j], w) => i = j
    BY <1>0, <1>2, <2>2 DEF Creates
  <2>4. ASSUME NEW j \in i + 1..Len(deskOut), Closes(deskOut[j], w)
        PROVE  \E k \in i + 1..Len(deskOut') : Closes(deskOut'[k], w)
    <3>1. j \in i + 1..Len(deskOut') /\ deskOut'[j] = deskOut[j]
      BY <1>0, <2>1
    <3> QED BY <2>4, <3>1
  <2> QED BY <2>1, <2>2, <2>3, <2>4
<1>4. AnnouncedUnder'
  <2> SUFFICES ASSUME NEW i \in 1..Len(deskOut'), NEW c \in Windows, NEW p \in Windows,
                      CreatesUnder(deskOut'[i], c, p)
               PROVE  /\ p < desk'.next /\ p # c
                      /\ \A j \in 1..Len(deskOut') : Creates(deskOut'[j], p) => j < i
                      /\ \A d \in Windows : d # c /\ HangsOn(d, p)' =>
                            \E j \in i + 1..Len(deskOut') : CreatesUnder(deskOut'[j], d, p)
    BY DEF AnnouncedUnder, CreatesUnder, Creates
  <2>1. i \in 1..Len(deskOut) /\ deskOut'[i] = deskOut[i] /\ CreatesUnder(deskOut[i], c, p)
    BY <1>0, <1>2 DEF Creates, CreatesUnder
  <2>2. /\ p < desk.next /\ p # c
        /\ \A j \in 1..Len(deskOut) : Creates(deskOut[j], p) => j < i
        /\ \A d \in Windows : d # c /\ HangsOn(d, p) =>
              \E j \in i + 1..Len(deskOut) : CreatesUnder(deskOut[j], d, p)
    BY <2>1 DEF DeskInv, AnnouncedUnder
  <2>3. \A j \in 1..Len(deskOut') : Creates(deskOut'[j], p) => j < i
    BY <1>0, <1>2, <2>2 DEF Creates
  <2>4. ASSUME NEW d \in Windows, d # c, HangsOn(d, p)'
        PROVE  \E j \in i + 1..Len(deskOut') : CreatesUnder(deskOut'[j], d, p)
    <3>1. HangsOn(d, p)
      BY <2>4 DEF HangsOn
    <3>2. PICK j \in i + 1..Len(deskOut) : CreatesUnder(deskOut[j], d, p)
      BY <2>2, <2>4, <3>1
    <3>3. j \in i + 1..Len(deskOut') /\ deskOut'[j] = deskOut[j]
      BY <1>0, <2>1
    <3> QED BY <3>2, <3>3
  <2> QED BY <2>2, <2>3, <2>4
<1>5. ClosedForGood'
  BY <1>0, <1>2 DEF DeskInv, ClosedForGood, Closes
<1>6. ResizedIsTop'
  <2> SUFFICES ASSUME NEW i \in 1..Len(deskOut'), NEW w \in Windows,
                      deskOut'[i][1] = "size_changed", deskOut'[i][2] = w
               PROVE  w < desk'.next /\ (desk'.wins[w].open => desk'.wins[w].parent = NoWindow)
    BY DEF ResizedIsTop
  <2>1. CASE i \in 1..Len(deskOut)
    BY <1>0, <2>1 DEF DeskInv, ResizedIsTop
  <2>2. CASE i = Len(deskOut) + 1
    BY <1>0, <2>2 DEF DeskInv, WindowsAreSound, OpenDialogs
  <2> QED BY <1>2, <2>1, <2>2
<1> QED BY <1>1, <1>3, <1>4, <1>5, <1>6 DEF DeskInv

\* A message is read.
LEMMA HearsInv ==
    ASSUME DialogsShape, DeskInv, Moves(deskOut, deskOut'), DialogsShape', desk' = desk
    PROVE  DeskInv'
<1>0. /\ Len(deskOut) \in Nat /\ Len(deskOut) = Len(deskOut') + 1 /\ Len(deskOut') \in Nat
      /\ \A i \in 1..Len(deskOut') : deskOut'[i] = deskOut[i + 1] /\ i + 1 \in 1..Len(deskOut)
  BY DEF Moves, DialogsShape
<1>1. WindowsAreSound'
  BY DEF DeskInv, WindowsAreSound, HangsOn, IsTop
<1>3. Announced'
  <2> SUFFICES ASSUME NEW i \in 1..Len(deskOut'), NEW w \in Windows, Creates(deskOut'[i], w)
               PROVE  /\ w < desk'.next
                      /\ \A j \in 1..Len(deskOut') : Creates(deskOut'[j], w) => i = j
                      /\ desk'.wins[w].open => desk'.wins[w].parent = deskOut'[i][4]
                      /\ deskOut'[i][4] = NoWindow =>
                            \/ desk'.wins[w].open
                            \/ \E j \in i + 1..Len(deskOut') : Closes(deskOut'[j], w)
    BY DEF Announced, Creates, Closes
  <2>2. /\ w < desk.next
        /\ \A j \in 1..Len(deskOut) : Creates(deskOut[j], w) => i + 1 = j
        /\ desk.wins[w].open => desk.wins[w].parent = deskOut[i + 1][4]
        /\ deskOut[i + 1][4] = NoWindow =>
              \/ desk.wins[w].open
              \/ \E j \in (i + 1) + 1..Len(deskOut) : Closes(deskOut[j], w)
    BY <1>0 DEF DeskInv, Announced
  <2>3. \A j \in 1..Len(deskOut') : Creates(deskOut'[j], w) => i = j
    BY <1>0, <2>2
  <2>4. ASSUME NEW j \in (i + 1) + 1..Len(deskOut), Closes(deskOut[j], w)
        PROVE  \E k \in i + 1..Len(deskOut') : Closes(deskOut'[k], w)
    <3>1. j - 1 \in i + 1..Len(deskOut') /\ deskOut'[j - 1] = deskOut[j]
      BY <1>0
    <3> QED BY <2>4, <3>1
  <2> QED BY <1>0, <2>2, <2>3, <2>4
<1>4. AnnouncedUnder'
  <2> SUFFICES ASSUME NEW i \in 1..Len(deskOut'), NEW c \in Windows, NEW p \in Windows,
                      CreatesUnder(deskOut'[i], c, p)
               PROVE  /\ p < desk'.next /\ p # c
                      /\ \A j \in 1..Len(deskOut') : Creates(deskOut'[j], p) => j < i
                      /\ \A d \in Windows : d # c /\ HangsOn(d, p)' =>
                            \E j \in i + 1..Len(deskOut') : CreatesUnder(deskOut'[j], d, p)
    BY DEF AnnouncedUnder, CreatesUnder, Creates
  <2>2. /\ p < desk.next /\ p # c
        /\ \A j \in 1..Len(deskOut) : Creates(deskOut[j], p) => j < i + 1
        /\ \A d \in Windows : d # c /\ HangsOn(d, p) =>
              \E j \in (i + 1) + 1..Len(deskOut) : CreatesUnder(deskOut[j], d, p)
    BY <1>0 DEF DeskInv, AnnouncedUnder
  <2>3. \A j \in 1..Len(deskOut') : Creates(deskOut'[j], p) => j < i
    BY <1>0, <2>2
  <2>4. ASSUME NEW d \in Windows, d # c, HangsOn(d, p)'
        PROVE  \E j \in i + 1..Len(deskOut') : CreatesUnder(deskOut'[j], d, p)
    <3>1. HangsOn(d, p)
      BY <2>4 DEF HangsOn
    <3>2. PICK j \in (i + 1) + 1..Len(deskOut) : CreatesUnder(deskOut[j], d, p)
      BY <2>2, <2>4, <3>1
    <3>3. j - 1 \in i + 1..Len(deskOut') /\ deskOut'[j - 1] = deskOut[j]
      BY <1>0
    <3> QED BY <3>2, <3>3
  <2> QED BY <2>2, <2>3, <2>4
<1>5. ClosedForGood'
  BY <1>0 DEF DeskInv, ClosedForGood
<1>6. ResizedIsTop'
  BY <1>0 DEF DeskInv, ResizedIsTop
<1> QED BY <1>1, <1>3, <1>4, <1>5, <1>6 DEF DeskInv

\* A window opens.
LEMMA OpensIs ==
    ASSUME DialogsShape, NEW titled \in BOOLEAN, NEW parent \in AnyWindow, NEW look \in Looks,
           KitOpens(titled, parent, look), NEW w, w = desk.next
    PROVE  /\ w \in Windows /\ DialogsShape'
           /\ desk'.next = w + 1 /\ desk'.cache = desk.cache
           /\ desk'.wins[w].open /\ desk'.wins[w].parent = parent /\ desk'.wins[w].look = look
           /\ \A v \in Windows : v # w => desk'.wins[v] = desk.wins[v]
           /\ parent # NoWindow => IsTop(parent) /\ \A c \in Windows : ~HangsOn(c, parent)
           /\ \E m \in FromDesk : /\ Adds(deskOut, deskOut', m)
                                  /\ Creates(m, w) /\ m[4] = parent
           /\ deskIn' = deskIn /\ shell' = shell /\ snags' = snags
<1>1. w \in Windows /\ parent # NoWindow => desk.wins[parent].open /\ desk.wins[parent].parent = NoWindow
  BY DEF KitOpens
<1>2. w \in Windows /\ (ChildrenOf(parent) = {} \/ parent = NoWindow)
  BY DEF KitOpens
<1>3. PICK r : r = [open |-> TRUE, titled |-> titled, parent |-> parent, look |-> look]
  OBVIOUS
<1>4. r \in Wins /\ r.open /\ r.parent = parent /\ r.look = look
  BY <1>3 DEF Wins, AnyLook
<1>5. desk' = [desk EXCEPT !.next = @ + 1, !.wins[w] = r]
  BY <1>3 DEF KitOpens
<1>6. /\ desk' \in Desks /\ desk'.next = w + 1 /\ desk'.cache = desk.cache
      /\ desk'.wins[w] = r /\ \A v \in Windows : v # w => desk'.wins[v] = desk.wins[v]
  <2>1. PICK x : x = [desk.wins EXCEPT ![w] = r]
    OBVIOUS
  <2>2. desk \in Desks /\ desk.wins \in [Windows -> Wins] /\ w \in Nat
    BY <1>2, NoWindowIs DEF DialogsShape, Desks
  <2>3. /\ x \in [Windows -> Wins] /\ x[w] = r
        /\ \A v \in Windows : v # w => x[v] = desk.wins[v]
    BY <1>2, <1>4, <2>1, <2>2
  <2>4. desk'.next = w + 1 /\ desk'.cache = desk.cache /\ desk'.wins = x
    BY <1>1, <1>2, <1>5, <2>1, <2>2 DEF Desks
  <2>5. desk' = [wins |-> x, next |-> w + 1, cache |-> desk.cache]
    BY <1>2, <1>5, <2>1, <2>2, <2>4 DEF Desks
  <2> QED BY <2>2, <2>3, <2>5 DEF Desks
<1>7. PICK m : m = <<"created", w, titled, parent>>
  OBVIOUS
<1>8. m \in FromDesk /\ Creates(m, w) /\ m[4] = parent
  BY <1>2, <1>7 DEF FromDesk, Creates
<1>9. deskOut' = Append(deskOut, m)
  BY <1>7, Zenon DEF KitOpens
<1>10. deskOut' \in Seq(FromDesk) /\ Adds(deskOut, deskOut', m)
  BY <1>8, <1>9, AppendAdds DEF DialogsShape
<1>11. deskIn' = deskIn /\ shell' = shell /\ snags' = snags
  BY DEF KitOpens
<1>12. \A c \in Windows : parent # NoWindow => ~HangsOn(c, parent)
  BY <1>2 DEF ChildrenOf, HangsOn
<1>13. DialogsShape'
  BY <1>6, <1>10, <1>11 DEF DialogsShape
<1>14. parent # NoWindow => IsTop(parent) /\ \A c \in Windows : ~HangsOn(c, parent)
  BY <1>1, <1>2, <1>12 DEF IsTop
<1> QED BY <1>2, <1>4, <1>6, <1>8, <1>10, <1>11, <1>13, <1>14

LEMMA OpensInv ==
    ASSUME DialogsShape, DeskInv, NEW titled \in BOOLEAN, NEW parent \in AnyWindow, NEW look \in Looks,
           KitOpens(titled, parent, look)
    PROVE  DeskInv'
<1>1. PICK w : w = desk.next
  OBVIOUS
<1>2. /\ w \in Windows /\ DialogsShape'
      /\ desk'.next = w + 1 /\ desk'.wins[w].open /\ desk'.wins[w].parent = parent
      /\ desk'.wins[w].look = look
      /\ \A v \in Windows : v # w => desk'.wins[v] = desk.wins[v]
      /\ parent # NoWindow => IsTop(parent) /\ \A c \in Windows : ~HangsOn(c, parent)
  BY <1>1, OpensIs
<1>3. PICK m \in FromDesk : Adds(deskOut, deskOut', m) /\ Creates(m, w) /\ m[4] = parent
  BY <1>1, OpensIs
<1>4. /\ Len(deskOut) \in Nat /\ Len(deskOut') = Len(deskOut) + 1 /\ deskOut'[Len(deskOut) + 1] = m
      /\ \A i \in 1..Len(deskOut) : deskOut'[i] = deskOut[i]
      /\ \A i \in 1..Len(deskOut') : i # Len(deskOut) + 1 => i \in 1..Len(deskOut)
  BY <1>3 DEF Adds, Goes, DialogsShape
<1>5. w \in Nat /\ w = desk.next /\ \A v \in Windows : v \in Nat /\ (v < w => v < w + 1 /\ v # w)
  BY <1>1, <1>2, NoWindowIs
<1>6. \A v \in Windows : desk.wins[v].open => v # w
  BY <1>5 DEF DeskInv, WindowsAreSound
<1>7. parent # NoWindow => parent \in Windows /\ parent # w
  BY <1>2, <1>6 DEF IsTop, AnyWindow
<1>8. \A c, p \in Windows :
        HangsOn(c, p)' => (c = w /\ p = parent) \/ (c # w /\ p # w /\ HangsOn(c, p))
  <2> SUFFICES ASSUME NEW c \in Windows, NEW p \in Windows, HangsOn(c, p)', c # w
               PROVE  p # w /\ HangsOn(c, p)
    BY <1>2 DEF HangsOn
  <2>1. HangsOn(c, p)
    BY <1>2 DEF HangsOn
  <2>2. IsTop(p)
    BY <2>1 DEF DeskInv, WindowsAreSound
  <2> QED BY <2>1, <2>2, <1>6 DEF IsTop
<1>9. WindowsAreSound'
  <2>1. ASSUME NEW v \in Windows
        PROVE  desk'.wins[v].open => v < desk'.next /\ desk'.wins[v].look \in Looks
    BY <1>2, <1>5 DEF DeskInv, WindowsAreSound
  <2>2. ASSUME NEW v \in Windows, NEW c \in Windows, HangsOn(c, v)' PROVE IsTop(v)'
    <3>1. CASE c = w /\ v = parent
      BY <1>2, <1>7, <2>2, <3>1 DEF IsTop, HangsOn
    <3>2. CASE c # w /\ v # w /\ HangsOn(c, v)
      BY <1>2, <3>2 DEF IsTop, DeskInv, WindowsAreSound
    <3> QED BY <1>8, <2>2, <3>1, <3>2
  <2>3. ASSUME NEW v \in Windows, NEW c \in Windows, NEW d \in Windows, HangsOn(c, v)', HangsOn(d, v)'
        PROVE  c = d
    <3>1. v # NoWindow
      BY NoWindowIs
    <3> QED BY <1>2, <1>8, <2>3, <3>1 DEF DeskInv, WindowsAreSound
  <2> QED BY <2>1, <2>2, <2>3 DEF WindowsAreSound
<1>10. \A i \in 1..Len(deskOut), v \in Windows : Creates(deskOut[i], v) => v < w /\ v # w
  BY <1>5 DEF DeskInv, Announced
<1>11. Announced'
  <2> SUFFICES ASSUME NEW i \in 1..Len(deskOut'), NEW v \in Windows, Creates(deskOut'[i], v)
               PROVE  /\ v < desk'.next
                      /\ \A j \in 1..Len(deskOut') : Creates(deskOut'[j], v) => i = j
                      /\ desk'.wins[v].open => desk'.wins[v].parent = deskOut'[i][4]
                      /\ deskOut'[i][4] = NoWindow =>
                            \/ desk'.wins[v].open
                            \/ \E j \in i + 1..Len(deskOut') : Closes(deskOut'[j], v)
    BY DEF Announced, Creates, Closes
  <2>1. CASE i = Len(deskOut) + 1
    <3>1. v = w
      BY <1>3, <1>4, <2>1 DEF Creates
    <3>2. \A j \in 1..Len(deskOut') : Creates(deskOut'[j], v) => i = j
      <4> SUFFICES ASSUME NEW j \in 1..Len(deskOut'), Creates(deskOut'[j], v), j # Len(deskOut) + 1
                   PROVE  FALSE
        BY <2>1
      <4>1. j \in 1..Len(deskOut) /\ Creates(deskOut[j], v)
        BY <1>4 DEF Creates
      <4> QED BY <1>10, <3>1, <4>1
    <3> QED BY <1>2, <1>3, <1>4, <1>5, <2>1, <3>1, <3>2
  <2>2. CASE i # Len(deskOut) + 1
    <3>1. i \in 1..Len(deskOut) /\ deskOut'[i] = deskOut[i] /\ Creates(deskOut[i], v)
      BY <1>4, <2>2 DEF Creates
    <3>2. /\ v < desk.next /\ v # w
          /\ \A j \in 1..Len(deskOut) : Creates(deskOut[j], v) => i = j
          /\ desk.wins[v].open => desk.wins[v].parent = deskOut[i][4]
          /\ deskOut[i][4] = NoWindow =>
                \/ desk.wins[v].open
                \/ \E j \in i + 1..Len(deskOut) : Closes(deskOut[j], v)
      BY <1>10, <3>1 DEF DeskInv, Announced
    <3>3. \A j \in 1..Len(deskOut') : Creates(deskOut'[j], v) => i = j
      BY <1>3, <1>4, <3>2 DEF Creates
    <3>4. ASSUME NEW j \in i + 1..Len(deskOut), Closes(deskOut[j], v)
          PROVE  \E k \in i + 1..Len(deskOut') : Closes(deskOut'[k], v)
      <4>1. j \in i + 1..Len(deskOut') /\ deskOut'[j] = deskOut[j]
        BY <1>4, <3>1
      <4> QED BY <3>4, <4>1
    <3>5. desk'.wins[v] = desk.wins[v] /\ v < desk'.next
      BY <1>2, <1>5, <3>2
    <3> QED BY <3>1, <3>2, <3>3, <3>4, <3>5
  <2> QED BY <2>1, <2>2
<1>12. AnnouncedUnder'
  <2> SUFFICES ASSUME NEW i \in 1..Len(deskOut'), NEW c \in Windows, NEW p \in Windows,
                      CreatesUnder(deskOut'[i], c, p)
               PROVE  /\ p < desk'.next /\ p # c
                      /\ \A j \in 1..Len(deskOut') : Creates(deskOut'[j], p) => j < i
                      /\ \A d \in Windows : d # c /\ HangsOn(d, p)' =>
                            \E j \in i + 1..Len(deskOut') : CreatesUnder(deskOut'[j], d, p)
    BY DEF AnnouncedUnder, CreatesUnder, Creates
  <2>1. CASE i = Len(deskOut) + 1
    <3>1. c = w /\ p = parent /\ p # NoWindow
      BY <1>3, <1>4, <2>1, NoWindowIs DEF Creates, CreatesUnder
    <3>2. p < w /\ p # w
      BY <1>2, <1>5, <1>7, <3>1 DEF IsTop, DeskInv, WindowsAreSound
    <3>3. \A j \in 1..Len(deskOut') : Creates(deskOut'[j], p) => j < i
      BY <1>3, <1>4, <2>1, <3>2 DEF Creates
    <3>4. \A d \in Windows : d # c => ~HangsOn(d, p)'
      BY <1>2, <1>8, <3>1
    <3> QED BY <1>2, <1>5, <3>1, <3>2, <3>3, <3>4
  <2>2. CASE i # Len(deskOut) + 1
    <3>1. i \in 1..Len(deskOut) /\ deskOut'[i] = deskOut[i] /\ CreatesUnder(deskOut[i], c, p)
      BY <1>4, <2>2 DEF Creates, CreatesUnder
    <3>2. /\ p < desk.next /\ p # c
          /\ \A j \in 1..Len(deskOut) : Creates(deskOut[j], p) => j < i
          /\ \A d \in Windows : d # c /\ HangsOn(d, p) =>
                \E j \in i + 1..Len(deskOut) : CreatesUnder(deskOut[j], d, p)
      BY <3>1 DEF DeskInv, AnnouncedUnder
    <3>3. \A j \in 1..Len(deskOut') : Creates(deskOut'[j], p) => j < i
      <4> SUFFICES ASSUME NEW j \in 1..Len(deskOut'), Creates(deskOut'[j], p) PROVE j < i
        OBVIOUS
      <4>1. j # Len(deskOut) + 1
        BY <1>3, <1>4, <1>5, <3>2 DEF Creates
      <4>2. j \in 1..Len(deskOut) /\ deskOut'[j] = deskOut[j]
        BY <1>4, <4>1
      <4> QED BY <3>2, <4>2
    <3>4. ASSUME NEW d \in Windows, d # c, HangsOn(d, p)'
          PROVE  \E j \in i + 1..Len(deskOut') : CreatesUnder(deskOut'[j], d, p)
      <4>1. CASE d = w /\ p = parent
        <5>1. CreatesUnder(deskOut'[Len(deskOut) + 1], d, p)
          BY <1>3, <1>4, <4>1 DEF Creates, CreatesUnder
        <5>2. Len(deskOut) + 1 \in i + 1..Len(deskOut')
          BY <1>4, <3>1
        <5> QED BY <5>1, <5>2
      <4>2. CASE HangsOn(d, p)
        <5>1. PICK j \in i + 1..Len(deskOut) : CreatesUnder(deskOut[j], d, p)
          BY <3>2, <3>4, <4>2
        <5>2. j \in i + 1..Len(deskOut') /\ deskOut'[j] = deskOut[j]
          BY <1>4, <3>1
        <5> QED BY <5>1, <5>2
      <4> QED BY <1>8, <3>4, <4>1, <4>2
    <3>5. p < desk'.next
      BY <1>2, <1>5, <3>2
    <3> QED BY <3>2, <3>3, <3>4, <3>5
  <2> QED BY <2>1, <2>2
<1>13. ClosedForGood'
  <2> SUFFICES ASSUME NEW i \in 1..Len(deskOut'), NEW v \in Windows, Closes(deskOut'[i], v)
               PROVE  v < desk'.next /\ ~desk'.wins[v].open
    BY DEF ClosedForGood, Closes
  <2>1. i # Len(deskOut) + 1
    BY <1>3, <1>4 DEF Creates, Closes
  <2>2. i \in 1..Len(deskOut) /\ Closes(deskOut[i], v)
    BY <1>4, <2>1 DEF Closes
  <2>3. v < desk.next /\ ~desk.wins[v].open
    BY <2>2 DEF DeskInv, ClosedForGood
  <2> QED BY <1>2, <1>5, <2>3
<1>14. ResizedIsTop'
  <2> SUFFICES ASSUME NEW i \in 1..Len(deskOut'), NEW v \in Windows,
                      deskOut'[i][1] = "size_changed", deskOut'[i][2] = v
               PROVE  v < desk'.next /\ (desk'.wins[v].open => desk'.wins[v].parent = NoWindow)
    BY DEF ResizedIsTop
  <2>1. i # Len(deskOut) + 1
    BY <1>3, <1>4 DEF Creates
  <2>2. i \in 1..Len(deskOut) /\ deskOut'[i] = deskOut[i]
    BY <1>4, <2>1
  <2>3. v < desk.next /\ (desk.wins[v].open => desk.wins[v].parent = NoWindow)
    BY <2>2 DEF DeskInv, ResizedIsTop
  <2> QED BY <1>2, <1>5, <2>3
<1> QED BY <1>9, <1>11, <1>12, <1>13, <1>14 DEF DeskInv

-----------------------------------------------------------------------------
\* A window closes, after the one that hangs on it.
Going(w) == {v \in Windows : v = w \/ HangsOn(v, w)}

\* Nothing but that windows of S close is added, and that each of them does.
AddsCloses(q, r, S) ==
    /\ Goes(q, r)
    /\ \A i \in Len(q) + 1..Len(r) : r[i][1] = "close" /\ r[i][2] \in S
    /\ \A v \in S : \E i \in Len(q) + 1..Len(r) : Closes(r[i], v)

LEMMA OneChild ==
    ASSUME NEW S, NEW x, S = {x}
    PROVE  SetToSeq(S) = <<x>>
<1>1. Cardinality(S) = 1
  BY FS_Singleton
<1>2. \A f : f \in [1..1 -> {x}] <=> f = <<x>>
  OBVIOUS
<1>3. IsInjective(<<x>>)
  BY DEF IsInjective
<1> QED BY <1>1, <1>2, <1>3 DEF SetToSeq

LEMMA NoChild == SetToSeq({}) = <<>>
<1>1. Cardinality({}) = 0
  BY FS_EmptySet
<1>2. \A f : f \in [1..0 -> {}] => f = <<>>
  <2> SUFFICES ASSUME NEW f \in [1..0 -> {}] PROVE f = <<>>
    OBVIOUS
  <2>1. f \in Seq({}) /\ Len(f) = 0
    OBVIOUS
  <2> QED BY <2>1, EmptySeq
<1>3. <<>> \in [1..0 -> {}] /\ IsInjective(<<>>)
  BY DEF IsInjective
<1> QED BY <1>1, <1>2, <1>3 DEF SetToSeq

LEMMA ClosingsIs ==
    ASSUME DialogsShape, DeskInv, NEW w \in Windows, NEW order,
           order = SetToSeq(ChildrenOf(w)) \o <<w>>
    PROVE  /\ order \in Seq(Windows) /\ DOMAIN order = 1..Len(order)
           /\ \A i \in 1..Len(order) : order[i] \in Going(w)
           /\ \A v \in Going(w) : \E i \in 1..Len(order) : order[i] = v
<1>0. w # NoWindow
  BY NoWindowIs
<1>1. Going(w) = {w} \cup ChildrenOf(w)
  BY <1>0 DEF Going, ChildrenOf, HangsOn
<1>2. PICK e : e = SetToSeq(ChildrenOf(w))
  OBVIOUS
<1>3. e \in Seq(Windows) /\ Len(e) \in Nat
      /\ (\A i \in 1..Len(e) : e[i] \in ChildrenOf(w))
      /\ \A v \in ChildrenOf(w) : \E i \in 1..Len(e) : e[i] = v
  <2>1. CASE ChildrenOf(w) = {}
    <3>1. e = <<>>
      BY <1>2, <2>1, NoChild
    <3> QED BY <2>1, <3>1
  <2>2. CASE ChildrenOf(w) # {}
    <3>1. PICK c \in Windows : HangsOn(c, w)
      BY <1>0, <2>2 DEF ChildrenOf, HangsOn
    <3>2. ChildrenOf(w) = {c}
      BY <1>0, <3>1 DEF ChildrenOf, HangsOn, DeskInv, WindowsAreSound
    <3>3. PICK C : C = ChildrenOf(w)
      OBVIOUS
    <3>4. SetToSeq(C) = <<c>>
      BY <3>2, <3>3, OneChild
    <3>5. e = <<c>>
      BY <1>2, <3>3, <3>4
    <3>6. e \in Seq(Windows) /\ Len(e) = 1 /\ e[1] = c
      BY <3>5
    <3> QED BY <3>2, <3>6
  <2> QED BY <2>1, <2>2
<1>4. order = e \o <<w>>
  BY <1>2
<1>5. order \in Seq(Windows) /\ Adds(e, order, w)
  BY <1>3, <1>4, ConcatAdds
<1>6. /\ Len(order) = Len(e) + 1 /\ order[Len(e) + 1] = w
      /\ \A i \in 1..Len(e) : order[i] = e[i] /\ i \in 1..Len(order)
      /\ \A i \in 1..Len(order) : i = Len(e) + 1 \/ i \in 1..Len(e)
  BY <1>3, <1>5 DEF Adds, Goes
<1>7. \A i \in 1..Len(order) : order[i] \in Going(w)
  BY <1>1, <1>3, <1>6
<1>8. \A v \in Going(w) : \E i \in 1..Len(order) : order[i] = v
  <2> SUFFICES ASSUME NEW v \in Going(w) PROVE \E i \in 1..Len(order) : order[i] = v
    OBVIOUS
  <2>1. CASE v = w
    BY <1>3, <1>6, <2>1
  <2>2. CASE v \in ChildrenOf(w)
    BY <1>3, <1>6, <2>2
  <2> QED BY <1>1, <2>1, <2>2
<1> QED BY <1>5, <1>7, <1>8

LEMMA ClosesIs ==
    ASSUME DialogsShape, DeskInv, NEW w \in Windows, KitCloses(w)
    PROVE  /\ desk' \in Desks /\ desk'.next = desk.next /\ desk'.cache = desk.cache
           /\ \A v \in Going(w) : ~desk'.wins[v].open
           /\ \A v \in Windows \ Going(w) : desk'.wins[v] = desk.wins[v]
           /\ deskOut' \in Seq(FromDesk) /\ AddsCloses(deskOut, deskOut', Going(w))
<1>0. w # NoWindow
  BY NoWindowIs
<1>1. Going(w) = {w} \cup ChildrenOf(w)
  BY <1>0 DEF Going, ChildrenOf, HangsOn
<1>2. PICK order : order = SetToSeq(ChildrenOf(w)) \o <<w>>
  OBVIOUS
<1>3. /\ order \in Seq(Windows) /\ DOMAIN order = 1..Len(order)
      /\ \A i \in 1..Len(order) : order[i] \in Going(w)
      /\ \A v \in Going(w) : \E i \in 1..Len(order) : order[i] = v
  BY <1>2, ClosingsIs
<1>4. PICK says : says = [i \in DOMAIN order |-> <<"close", order[i]>>]
  OBVIOUS
<1>5. /\ desk' = [desk EXCEPT !.wins = [v \in Windows |-> IF v \in Going(w) THEN Closed ELSE @[v]]]
      /\ deskOut' = deskOut \o says
  BY <1>1, <1>2, <1>4, Zenon DEF KitCloses
<1>6. Closed \in Wins /\ ~Closed.open
  BY NoWindowIs DEF Closed, Wins, AnyLook
<1>7. /\ desk' \in Desks /\ desk'.next = desk.next /\ desk'.cache = desk.cache
      /\ \A v \in Windows : desk'.wins[v] = IF v \in Going(w) THEN Closed ELSE desk.wins[v]
  BY <1>5, <1>6 DEF DialogsShape, Desks
<1>8. /\ says \in Seq(FromDesk) /\ Len(says) = Len(order)
      /\ \A i \in 1..Len(order) : says[i][1] = "close" /\ says[i][2] = order[i]
  <2>1. \A v \in Windows : <<"close", v>> \in FromDesk
    BY DEF FromDesk
  <2> QED BY <1>3, <1>4, <2>1
<1>9. /\ deskOut' \in Seq(FromDesk) /\ Len(deskOut') = Len(deskOut) + Len(says)
      /\ \A i \in 1..Len(deskOut) : deskOut'[i] = deskOut[i]
      /\ \A i \in 1..Len(says) : deskOut'[Len(deskOut) + i] = says[i]
      /\ Len(deskOut) \in Nat /\ Len(says) \in Nat
  <2>1. PICK q : q = deskOut
    OBVIOUS
  <2>2. q \in Seq(FromDesk) /\ deskOut' = q \o says /\ says \in Seq(FromDesk)
    BY <1>5, <1>8, <2>1 DEF DialogsShape
  <2>3. Len(q) \in Nat /\ Len(says) \in Nat /\ deskOut' \in Seq(FromDesk) /\ Len(deskOut') = Len(q) + Len(says)
    BY <2>2
  <2>4. \A i \in 1..Len(q) : deskOut'[i] = q[i]
    BY <2>2, <2>3
  <2>5. \A i \in 1..Len(says) : deskOut'[Len(q) + i] = says[i]
    BY <2>2, <2>3
  <2> QED BY <2>1, <2>3, <2>4, <2>5
<1>10. AddsCloses(deskOut, deskOut', Going(w))
  <2>1. Goes(deskOut, deskOut')
    BY <1>9 DEF Goes
  <2>2. ASSUME NEW i \in Len(deskOut) + 1..Len(deskOut')
        PROVE  deskOut'[i][1] = "close" /\ deskOut'[i][2] \in Going(w)
    <3>1. i - Len(deskOut) \in 1..Len(says) /\ deskOut'[i] = says[i - Len(deskOut)]
      BY <1>9
    <3> QED BY <1>3, <1>8, <3>1
  <2>3. ASSUME NEW v \in Going(w) PROVE \E i \in Len(deskOut) + 1..Len(deskOut') : Closes(deskOut'[i], v)
    <3>1. PICK k \in 1..Len(order) : order[k] = v
      BY <1>3
    <3>2. Len(deskOut) + k \in Len(deskOut) + 1..Len(deskOut') /\ deskOut'[Len(deskOut) + k] = says[k]
      BY <1>8, <1>9
    <3> QED BY <1>8, <3>1, <3>2 DEF Closes
  <2> QED BY <2>1, <2>2, <2>3 DEF AddsCloses
<1> QED BY <1>6, <1>7, <1>9, <1>10 DEF Going

LEMMA ClosesInv ==
    ASSUME DialogsShape, DeskInv, DialogsShape', NEW w \in Windows, desk.wins[w].open, KitCloses(w)
    PROVE  DeskInv'
<1>1. /\ desk'.next = desk.next
      /\ \A v \in Going(w) : ~desk'.wins[v].open
      /\ \A v \in Windows \ Going(w) : desk'.wins[v] = desk.wins[v]
      /\ AddsCloses(deskOut, deskOut', Going(w))
  BY ClosesIs
<1>2. /\ Len(deskOut) \in Nat /\ Len(deskOut') \in Nat /\ Len(deskOut) <= Len(deskOut')
      /\ \A i \in 1..Len(deskOut) : deskOut'[i] = deskOut[i]
      /\ \A i \in 1..Len(deskOut') : i \notin Len(deskOut) + 1..Len(deskOut') => i \in 1..Len(deskOut)
      /\ \A i \in Len(deskOut) + 1..Len(deskOut') : deskOut'[i][1] = "close" /\ deskOut'[i][2] \in Going(w)
      /\ \A v \in Going(w) : \E i \in Len(deskOut) + 1..Len(deskOut') : Closes(deskOut'[i], v)
  BY <1>1 DEF AddsCloses, Goes, DialogsShape
<1>3. \A i \in 1..Len(deskOut') : deskOut'[i][1] # "close" => i \in 1..Len(deskOut) /\ deskOut'[i] = deskOut[i]
  BY <1>2
<1>4. \A v \in Windows : desk'.wins[v].open => v \notin Going(w) /\ desk'.wins[v] = desk.wins[v]
  BY <1>1 DEF Going
<1>5. \A c, p \in Windows : HangsOn(c, p)' => HangsOn(c, p) /\ p \notin Going(w)
  <2> SUFFICES ASSUME NEW c \in Windows, NEW p \in Windows, HangsOn(c, p)'
               PROVE  HangsOn(c, p) /\ p \notin Going(w)
    OBVIOUS
  <2>1. HangsOn(c, p) /\ c \notin Going(w)
    BY <1>4 DEF HangsOn
  <2>2. IsTop(p) /\ p # w
    BY <2>1 DEF DeskInv, WindowsAreSound, Going
  <2>3. ~HangsOn(p, w)
    BY <2>2 DEF IsTop, HangsOn
  <2> QED BY <2>1, <2>2, <2>3 DEF Going
<1>6. WindowsAreSound'
  <2>1. ASSUME NEW v \in Windows
        PROVE  desk'.wins[v].open => v < desk'.next /\ desk'.wins[v].look \in Looks
    BY <1>1, <1>4 DEF DeskInv, WindowsAreSound
  <2>2. ASSUME NEW v \in Windows, NEW c \in Windows, HangsOn(c, v)' PROVE IsTop(v)'
    <3>1. IsTop(v) /\ v \notin Going(w)
      BY <1>5, <2>2 DEF DeskInv, WindowsAreSound
    <3> QED BY <1>1, <3>1 DEF IsTop
  <2>3. ASSUME NEW v \in Windows, NEW c \in Windows, NEW d \in Windows, HangsOn(c, v)', HangsOn(d, v)'
        PROVE  c = d
    BY <1>5, <2>3 DEF DeskInv, WindowsAreSound
  <2> QED BY <2>1, <2>2, <2>3 DEF WindowsAreSound
<1>7. Announced'
  <2> SUFFICES ASSUME NEW i \in 1..Len(deskOut'), NEW v \in Windows, Creates(deskOut'[i], v)
               PROVE  /\ v < desk'.next
                      /\ \A j \in 1..Len(deskOut') : Creates(deskOut'[j], v) => i = j
                      /\ desk'.wins[v].open => desk'.wins[v].parent = deskOut'[i][4]
                      /\ deskOut'[i][4] = NoWindow =>
                            \/ desk'.wins[v].open
                            \/ \E j \in i + 1..Len(deskOut') : Closes(deskOut'[j], v)
    BY DEF Announced, Creates, Closes
  <2>1. i \in 1..Len(deskOut) /\ deskOut'[i] = deskOut[i] /\ Creates(deskOut[i], v)
    BY <1>3 DEF Creates
  <2>2. /\ v < desk.next
        /\ \A j \in 1..Len(deskOut) : Creates(deskOut[j], v) => i = j
        /\ desk.wins[v].open => desk.wins[v].parent = deskOut[i][4]
        /\ deskOut[i][4] = NoWindow =>
              \/ desk.wins[v].open
              \/ \E j \in i + 1..Len(deskOut) : Closes(deskOut[j], v)
    BY <2>1 DEF DeskInv, Announced
  <2>3. \A j \in 1..Len(deskOut') : Creates(deskOut'[j], v) => i = j
    BY <1>3, <2>2 DEF Creates
  <2>4. ASSUME NEW j \in i + 1..Len(deskOut), Closes(deskOut[j], v)
        PROVE  \E k \in i + 1..Len(deskOut') : Closes(deskOut'[k], v)
    <3>1. j \in i + 1..Len(deskOut') /\ deskOut'[j] = deskOut[j]
      BY <1>2, <2>1
    <3> QED BY <2>4, <3>1
  <2>5. ASSUME v \in Going(w) PROVE \E k \in i + 1..Len(deskOut') : Closes(deskOut'[k], v)
    <3>1. PICK k \in Len(deskOut) + 1..Len(deskOut') : Closes(deskOut'[k], v)
      BY <1>2, <2>5
    <3>2. k \in i + 1..Len(deskOut')
      BY <1>2, <2>1
    <3> QED BY <3>1, <3>2
  <2>6. v \notin Going(w) => desk'.wins[v] = desk.wins[v]
    BY <1>1
  <2> QED BY <1>1, <2>1, <2>2, <2>3, <2>4, <2>5, <2>6
<1>8. AnnouncedUnder'
  <2> SUFFICES ASSUME NEW i \in 1..Len(deskOut'), NEW c \in Windows, NEW p \in Windows,
                      CreatesUnder(deskOut'[i], c, p)
               PROVE  /\ p < desk'.next /\ p # c
                      /\ \A j \in 1..Len(deskOut') : Creates(deskOut'[j], p) => j < i
                      /\ \A d \in Windows : d # c /\ HangsOn(d, p)' =>
                            \E j \in i + 1..Len(deskOut') : CreatesUnder(deskOut'[j], d, p)
    BY DEF AnnouncedUnder, CreatesUnder, Creates
  <2>1. i \in 1..Len(deskOut) /\ deskOut'[i] = deskOut[i] /\ CreatesUnder(deskOut[i], c, p)
    BY <1>3 DEF Creates, CreatesUnder
  <2>2. /\ p < desk.next /\ p # c
        /\ \A j \in 1..Len(deskOut) : Creates(deskOut[j], p) => j < i
        /\ \A d \in Windows : d # c /\ HangsOn(d, p) =>
              \E j \in i + 1..Len(deskOut) : CreatesUnder(deskOut[j], d, p)
    BY <2>1 DEF DeskInv, AnnouncedUnder
  <2>3. \A j \in 1..Len(deskOut') : Creates(deskOut'[j], p) => j < i
    BY <1>3, <2>2 DEF Creates
  <2>4. ASSUME NEW d \in Windows, d # c, HangsOn(d, p)'
        PROVE  \E j \in i + 1..Len(deskOut') : CreatesUnder(deskOut'[j], d, p)
    <3>1. HangsOn(d, p)
      BY <1>5, <2>4
    <3>2. PICK j \in i + 1..Len(deskOut) : CreatesUnder(deskOut[j], d, p)
      BY <2>2, <2>4, <3>1
    <3>3. j \in i + 1..Len(deskOut') /\ deskOut'[j] = deskOut[j]
      BY <1>2, <2>1
    <3> QED BY <3>2, <3>3
  <2> QED BY <1>1, <2>2, <2>3, <2>4
<1>9. ClosedForGood'
  <2> SUFFICES ASSUME NEW i \in 1..Len(deskOut'), NEW v \in Windows, Closes(deskOut'[i], v)
               PROVE  v < desk'.next /\ ~desk'.wins[v].open
    BY DEF ClosedForGood, Closes
  <2>1. CASE i \in 1..Len(deskOut)
    <3>1. v < desk.next /\ ~desk.wins[v].open
      BY <1>2, <2>1 DEF DeskInv, ClosedForGood, Closes
    <3> QED BY <1>1, <1>4, <3>1
  <2>2. CASE i \in Len(deskOut) + 1..Len(deskOut')
    <3>1. v \in Going(w)
      BY <1>2, <2>2 DEF Closes
    <3>2. v < desk.next
      BY <3>1 DEF DeskInv, WindowsAreSound, Going, HangsOn
    <3> QED BY <1>1, <3>1, <3>2
  <2> QED BY <1>2, <2>1, <2>2
<1>10. ResizedIsTop'
  <2> SUFFICES ASSUME NEW i \in 1..Len(deskOut'), NEW v \in Windows,
                      deskOut'[i][1] = "size_changed", deskOut'[i][2] = v
               PROVE  v < desk'.next /\ (desk'.wins[v].open => desk'.wins[v].parent = NoWindow)
    BY DEF ResizedIsTop
  <2>1. i \in 1..Len(deskOut) /\ deskOut'[i] = deskOut[i]
    BY <1>3
  <2>2. v < desk.next /\ (desk.wins[v].open => desk.wins[v].parent = NoWindow)
    BY <2>1 DEF DeskInv, ResizedIsTop
  <2> QED BY <1>1, <1>4, <2>2
<1> QED BY <1>6, <1>7, <1>8, <1>9, <1>10 DEF DeskInv

-----------------------------------------------------------------------------
(* The browser: whose child a window is.                                   *)

LEMMA LeastIs ==
    ASSUME NEW S \in SUBSET Nat, S # {}
    PROVE  Min(S) \in S /\ \A y \in S : Min(S) <= y
<1>1. IsWellFoundedOn(OpToRel(<, Nat), Nat)
  BY NatLessThanWellFounded
<1>2. PICK x \in S : \A y \in S : ~ (<<y, x>> \in OpToRel(<, Nat))
  BY <1>1, WFMin
<1>3. \A y \in S : ~(y < x)
  BY <1>2 DEF OpToRel
<1>4. x \in Nat /\ \A y \in S : y \in Nat /\ x <= y
  BY <1>3
<1>5. Min(S) \in S /\ \A y \in S : Min(S) <= y
  BY <1>4 DEF Min
<1> QED BY <1>5

LEMMA ParentIs ==
    ASSUME NEW s, NEW w
    PROVE  /\ ParentIds(s, w) \subseteq Windows
           /\ ParentIds(s, w) = {} => GetParentId(s, w) = NoWindow
           /\ ParentIds(s, w) # {} => /\ GetParentId(s, w) \in ParentIds(s, w)
                                      /\ GetParentId(s, w) \in Windows
                                      /\ GetParentId(s, w) # NoWindow
                                      /\ \A p \in ParentIds(s, w) : GetParentId(s, w) <= p
<1>1. ParentIds(s, w) \subseteq Windows /\ ParentIds(s, w) \in SUBSET Nat
  BY NoWindowIs DEF ParentIds
<1>2. ParentIds(s, w) # {} => /\ Min(ParentIds(s, w)) \in ParentIds(s, w)
                              /\ \A p \in ParentIds(s, w) : Min(ParentIds(s, w)) <= p
  BY <1>1, LeastIs
<1> QED BY <1>1, <1>2, NoWindowIs DEF GetParentId

\* When other entries go, the parent stays.
LEMMA ParentStays ==
    ASSUME NEW s, NEW r, NEW c, NEW p, p # NoWindow, GetParentId(s, c) = p, p \in ParentIds(r, c),
           ParentIds(r, c) \subseteq ParentIds(s, c)
    PROVE  GetParentId(r, c) = p
<1>1. ParentIds(s, c) # {} /\ ParentIds(r, c) # {}
  OBVIOUS
<1>2. GetParentId(r, c) \in ParentIds(r, c) /\ GetParentId(r, c) <= p /\ GetParentId(r, c) \in Windows
  BY <1>1, ParentIs
<1>3. p \in Windows /\ \A x \in ParentIds(s, c) : p <= x
  BY <1>1, ParentIs
<1>4. p <= GetParentId(r, c)
  BY <1>2, <1>3
<1>5. p \in Nat /\ GetParentId(r, c) \in Nat
  BY <1>2, <1>3, NoWindowIs
<1> QED BY <1>2, <1>4, <1>5

LEMMA ParentIdsShrink ==
    ASSUME NEW s \in Shells, NEW r \in Shells, NEW c \in Windows,
           \A v \in Windows : r.dialogs[v].child = c =>
              r.dialogs[v].known = s.dialogs[v].known /\ r.dialogs[v].child = s.dialogs[v].child
    PROVE  ParentIds(r, c) \subseteq ParentIds(s, c)
  BY DEF ParentIds

-----------------------------------------------------------------------------
(* The browser: what is on its way.                                        *)

\* What the kit adds.
LEMMA PaintedStays ==
    ASSUME DialogsShape, DialogsShape', NEW v \in Windows, NEW l,
           desk'.wins[v].look = desk.wins[v].look,
           (\E i \in 1..Len(deskIn) : Asks(deskIn[i], v)) =>
              \E i \in 1..Len(deskIn') : Asks(deskIn'[i], v),
           Goes(deskOut, deskOut'),
           \A i \in Len(deskOut) + 1..Len(deskOut') : ~Paints(deskOut'[i], v),
           PaintedOn(v, l)
    PROVE  PaintedOn(v, l)'
<1>1. /\ Len(deskOut) \in Nat /\ Len(deskOut') \in Nat /\ Len(deskOut) <= Len(deskOut')
      /\ \A i \in 1..Len(deskOut) : deskOut'[i] = deskOut[i] /\ i \in 1..Len(deskOut')
      /\ \A i \in 1..Len(deskOut') : i \in 1..Len(deskOut) \/ i \in Len(deskOut) + 1..Len(deskOut')
  BY DEF Goes, DialogsShape
<1>2. CASE \E i \in 1..Len(deskIn) : Asks(deskIn[i], v)
  BY <1>2 DEF PaintedOn, WillBePainted, Asks
<1>3. ASSUME NEW i \in 1..Len(deskOut), Wakes(deskOut[i], v) PROVE PaintedOn(v, l)'
  <2>1. i \in 1..Len(deskOut') /\ Wakes(deskOut'[i], v)
    BY <1>1, <1>3 DEF Wakes
  <2> QED BY <2>1 DEF PaintedOn, WillBePainted, Wakes
<1>4. ASSUME NEW i \in 1..Len(deskOut), Paints(deskOut[i], v), deskOut[i][3] = desk.wins[v].look,
             \A j \in i + 1..Len(deskOut) : ~Paints(deskOut[j], v)
      PROVE  PaintedOn(v, l)'
  <2>1. i \in 1..Len(deskOut') /\ Paints(deskOut'[i], v) /\ deskOut'[i][3] = desk'.wins[v].look
    BY <1>1, <1>4 DEF Paints
  <2>2. ASSUME NEW j \in i + 1..Len(deskOut') PROVE ~Paints(deskOut'[j], v)
    <3>1. j \in i + 1..Len(deskOut) \/ j \in Len(deskOut) + 1..Len(deskOut')
      BY <1>1
    <3>2. j \in i + 1..Len(deskOut) => deskOut'[j] = deskOut[j]
      BY <1>1
    <3> QED BY <1>4, <3>1, <3>2
  <2> QED BY <2>1, <2>2 DEF PaintedOn, WillBePainted, Paints
<1>5. CASE l = desk.wins[v].look /\ \A i \in 1..Len(deskOut) : ~Paints(deskOut[i], v)
  <2>1. \A i \in 1..Len(deskOut') : ~Paints(deskOut'[i], v)
    BY <1>1, <1>5
  <2> QED BY <1>5, <2>1 DEF PaintedOn, Paints
<1> QED BY <1>2, <1>3, <1>4, <1>5 DEF PaintedOn, WillBePainted

\* What the browser reads.
Reads(m) ==
    /\ DialogsShape /\ DialogsShape' /\ DeskInv /\ desk' = desk
    /\ m \in FromDesk /\ Len(deskOut) \in Nat \ {0} /\ m = deskOut[1] /\ Moves(deskOut, deskOut')
    /\ Goes(deskIn, deskIn')

LEMMA ReadsIs ==
    ASSUME NEW m, Reads(m)
    PROVE  /\ Len(deskOut) \in Nat \ {0} /\ Len(deskOut') = Len(deskOut) - 1 /\ deskOut[1] = m
           /\ \A i \in 1..Len(deskOut') : deskOut'[i] = deskOut[i + 1] /\ i + 1 \in 1..Len(deskOut)
           /\ \A i \in 1..Len(deskOut) : i = 1 \/ (i - 1 \in 1..Len(deskOut') /\ deskOut'[i - 1] = deskOut[i])
           /\ \A i \in 1..Len(deskIn) : deskIn'[i] = deskIn[i] /\ i \in 1..Len(deskIn')
<1>1. Len(deskOut) \in Nat \ {0} /\ Len(deskOut') \in Nat /\ Len(deskIn) \in Nat /\ Len(deskIn') \in Nat
  BY DEF Reads, DialogsShape
<1>2. /\ Len(deskOut') = Len(deskOut) - 1 /\ deskOut[1] = m
      /\ \A i \in 1..Len(deskOut') : deskOut'[i] = deskOut[i + 1]
  BY <1>1 DEF Reads, Moves
<1>3. \A i \in 1..Len(deskOut) : i = 1 \/ (i - 1 \in 1..Len(deskOut') /\ deskOut'[i - 1] = deskOut[i])
  BY <1>1, <1>2
<1>4. \A i \in 1..Len(deskIn) : deskIn'[i] = deskIn[i] /\ i \in 1..Len(deskIn')
  BY <1>1 DEF Reads, Goes
<1> QED BY <1>1, <1>2, <1>3, <1>4

LEMMA ComingRead ==
    ASSUME NEW m, Reads(m), NEW v \in Windows
    PROVE  /\ ComesClose(v) => Closes(m, v) \/ ComesClose(v)'
           /\ ComesCreated(v) => Creates(m, v) \/ ComesCreated(v)'
           /\ ComesCreated(v)' => ComesCreated(v)
           /\ GoesClose(v) => GoesClose(v)'
<1>1. ComesClose(v) => Closes(m, v) \/ ComesClose(v)'
  BY ReadsIs DEF ComesClose, Closes
<1>2. ComesCreated(v) => Creates(m, v) \/ ComesCreated(v)'
  BY ReadsIs DEF ComesCreated, Creates
<1>3. ComesCreated(v)' => ComesCreated(v)
  BY ReadsIs DEF ComesCreated, Creates
<1>4. GoesClose(v) => GoesClose(v)'
  BY ReadsIs DEF GoesClose, Closes
<1> QED BY <1>1, <1>2, <1>3, <1>4

\* It paints nothing over, and forgets nothing that is to be painted.
LEMMA PaintedRead ==
    ASSUME NEW m, Reads(m), NEW v \in Windows, NEW l, PaintedOn(v, l), ~Paints(m, v), ~Wakes(m, v)
    PROVE  PaintedOn(v, l)'
<1>1. CASE \E i \in 1..Len(deskIn) : Asks(deskIn[i], v)
  <2>1. PICK i \in 1..Len(deskIn) : Asks(deskIn[i], v)
    BY <1>1
  <2>2. i \in 1..Len(deskIn') /\ Asks(deskIn'[i], v)
    BY <2>1, ReadsIs DEF Asks
  <2> QED BY <2>2 DEF PaintedOn, WillBePainted, Asks
<1>2. ASSUME NEW i \in 1..Len(deskOut), Wakes(deskOut[i], v) PROVE PaintedOn(v, l)'
  <2>1. i - 1 \in 1..Len(deskOut') /\ Wakes(deskOut'[i - 1], v)
    BY <1>2, ReadsIs
  <2> QED BY <2>1 DEF PaintedOn, WillBePainted, Wakes
<1>3. ASSUME NEW i \in 1..Len(deskOut), Paints(deskOut[i], v), deskOut[i][3] = desk.wins[v].look,
             \A j \in i + 1..Len(deskOut) : ~Paints(deskOut[j], v)
      PROVE  PaintedOn(v, l)'
  <2>1. i - 1 \in 1..Len(deskOut') /\ deskOut'[i - 1] = deskOut[i]
    BY <1>3, ReadsIs
  <2>2. desk' = desk
    BY DEF Reads
  <2>3. ASSUME NEW j \in (i - 1) + 1..Len(deskOut') PROVE ~Paints(deskOut'[j], v)
    <3>1. j \in 1..Len(deskOut')
      BY <2>1, ReadsIs
    <3>2. j + 1 \in i + 1..Len(deskOut) /\ deskOut'[j] = deskOut[j + 1]
      BY <3>1, ReadsIs
    <3> QED BY <1>3, <3>2
  <2> QED BY <1>3, <2>1, <2>2, <2>3 DEF PaintedOn, WillBePainted, Paints
<1>4. CASE l = desk.wins[v].look /\ \A i \in 1..Len(deskOut) : ~Paints(deskOut[i], v)
  <2>1. \A i \in 1..Len(deskOut') : ~Paints(deskOut'[i], v)
    BY <1>4, ReadsIs
  <2>2. desk' = desk
    BY DEF Reads
  <2> QED BY <1>4, <2>1, <2>2 DEF PaintedOn, Paints
<1> QED BY <1>1, <1>2, <1>3, <1>4 DEF PaintedOn, WillBePainted

\* A picture is painted.
LEMMA PictureRead ==
    ASSUME NEW m, Reads(m), NEW v \in Windows, NEW l, PaintedOn(v, l), Paints(m, v)
    PROVE  PaintedOn(v, m[3])'
<1>0. desk' = desk /\ ~Wakes(m, v)
  BY DEF Reads, Paints, Wakes
<1>1. CASE \E i \in 1..Len(deskIn) : Asks(deskIn[i], v)
  <2>1. PICK i \in 1..Len(deskIn) : Asks(deskIn[i], v)
    BY <1>1
  <2>2. i \in 1..Len(deskIn') /\ Asks(deskIn'[i], v)
    BY <2>1, ReadsIs DEF Asks
  <2> QED BY <2>2 DEF PaintedOn, WillBePainted, Asks
<1>2. ASSUME NEW i \in 1..Len(deskOut), Wakes(deskOut[i], v) PROVE PaintedOn(v, m[3])'
  <2>1. i - 1 \in 1..Len(deskOut') /\ Wakes(deskOut'[i - 1], v)
    BY <1>0, <1>2, ReadsIs
  <2> QED BY <2>1 DEF PaintedOn, WillBePainted, Wakes
<1>3. ASSUME NEW i \in 1..Len(deskOut), Paints(deskOut[i], v), deskOut[i][3] = desk.wins[v].look,
             \A j \in i + 1..Len(deskOut) : ~Paints(deskOut[j], v)
      PROVE  PaintedOn(v, m[3])'
  <2>1. \A j \in 1..Len(deskOut') : j \in i..Len(deskOut') => ~Paints(deskOut'[j], v)
    <3> SUFFICES ASSUME NEW j \in 1..Len(deskOut'), j \in i..Len(deskOut') PROVE ~Paints(deskOut'[j], v)
      OBVIOUS
    <3>1. j + 1 \in i + 1..Len(deskOut) /\ deskOut'[j] = deskOut[j + 1]
      BY ReadsIs
    <3> QED BY <1>3, <3>1
  <2>2. CASE i = 1
    <3>1. m[3] = desk'.wins[v].look
      BY <1>0, <1>3, <2>2, ReadsIs
    <3>2. \A j \in 1..Len(deskOut') : ~Paints(deskOut'[j], v)
      BY <2>1, <2>2
    <3> QED BY <3>1, <3>2 DEF PaintedOn, Paints
  <2>3. CASE i # 1
    <3>1. i - 1 \in 1..Len(deskOut') /\ deskOut'[i - 1] = deskOut[i]
      BY <1>3, <2>3, ReadsIs
    <3>2. \A j \in (i - 1) + 1..Len(deskOut') : ~Paints(deskOut'[j], v)
      BY <2>1, <3>1, ReadsIs
    <3> QED BY <1>0, <1>3, <3>1, <3>2 DEF PaintedOn, WillBePainted, Paints
  <2> QED BY <2>2, <2>3
<1>4. CASE l = desk.wins[v].look /\ \A i \in 1..Len(deskOut) : ~Paints(deskOut[i], v)
  BY <1>4, ReadsIs
<1> QED BY <1>1, <1>2, <1>3, <1>4 DEF PaintedOn, WillBePainted

\* Who is asked for will be painted.
LEMMA AskedPaints ==
    ASSUME NEW v, NEW l, \E i \in 1..Len(deskIn') : Asks(deskIn'[i], v)
    PROVE  PaintedOn(v, l)'
  BY DEF PaintedOn, WillBePainted, Asks

-----------------------------------------------------------------------------
(* The browser's dialogs, when the kit acts.                               *)

PageInv ==
    /\ PageIsKnown
    /\ "reused" \notin snags => PageIsTheKits /\ DialogsSettle
    /\ snags \cap {"reused", "relaunched"} = {} => ChildrenSettle

\* What an entry shows.
Seen(e) == IF e.shown THEN e.drawn ELSE NoLook

LEMMA SeenIs ==
    ASSUME DialogsShape, NEW v \in Windows
    PROVE  /\ Seen(shell.dialogs[v]) \in AnyLook /\ shell.dialogs[v].floatDrawn \in AnyLook
           /\ IsPainted(v) <=> PaintedOn(v, Seen(shell.dialogs[v]))
<1>1. shell.dialogs[v] \in Entries
  BY DEF DialogsShape, Shells
<1>2. Seen(shell.dialogs[v]) \in AnyLook /\ shell.dialogs[v].floatDrawn \in AnyLook
  BY <1>1 DEF Entries, Seen, AnyLook
<1>3. IsPainted(v) <=> PaintedOn(v, Seen(shell.dialogs[v]))
  BY Zenon DEF IsPainted, Seen
<1> QED BY <1>2, <1>3

\* A step that leaves the page alone and of each window what is on its way for it.
LEMMA PageStays ==
    ASSUME DialogsInv, DialogsShape', shell' = shell, snags' = snags, desk.next <= desk'.next,
           desk'.next \in Nat,
           \A v \in Windows : v < desk.next => (ComesCreated(v)' <=> ComesCreated(v)),
           \A v \in Windows : ComesClose(v) => ComesClose(v)',
           \A v \in Windows : v < desk.next /\ desk'.wins[v].open =>
              desk.wins[v].open /\ desk'.wins[v].parent = desk.wins[v].parent,
           \A v \in Windows : v < desk.next /\ ~desk'.wins[v].open =>
              ~desk.wins[v].open \/ ComesClose(v)',
           \A v \in Windows : desk'.wins[v].open /\ ~(v < desk.next) => ComesCreated(v)',
           \A v \in Windows : desk'.wins[v].open /\ GoesClose(v) => GoesClose(v)',
           \A v \in Windows, l \in AnyLook : v < desk.next /\ desk'.wins[v].open /\ PaintedOn(v, l) =>
              PaintedOn(v, l)',
           \A c, p \in Windows : HangsOn(c, p)' => desk'.wins[p].open
    PROVE  PageInv'
<1>0. /\ desk.next \in Nat /\ \A v \in Windows : v \in Nat
      /\ \A v \in Windows : v < desk.next => v < desk'.next
  BY NoWindowIs DEF DialogsInv, DialogsShape, Desks
<1>1. PageIsKnown'
  BY <1>0 DEF DialogsInv, PageIsKnown
<1>2. ASSUME "reused" \notin snags PROVE PageIsTheKits'
  <2> SUFFICES ASSUME NEW w \in Windows, shell.dialogs[w].dom
               PROVE  /\ ParentIds(shell', w) = {}
                      /\ desk'.wins[w].open => desk'.wins[w].parent = NoWindow
                      /\ desk'.wins[w].open \/ ComesClose(w)'
    BY DEF PageIsTheKits
  <2>1. w < desk.next
    BY DEF DialogsInv, PageIsKnown
  <2>2. /\ ParentIds(shell, w) = {}
        /\ desk.wins[w].open => desk.wins[w].parent = NoWindow
        /\ desk.wins[w].open \/ ComesClose(w)
    BY <1>2 DEF DialogsInv, PageIsTheKits
  <2> QED BY <2>1, <2>2
<1>3. ASSUME "reused" \notin snags PROVE DialogsSettle'
  <2> SUFFICES ASSUME NEW w \in Windows, IsTop(w)'
               PROVE  ComesCreated(w)' \/ GoesClose(w)' \/ (IsOpen(shell', w) /\ IsPainted(w)')
    BY DEF DialogsSettle
  <2>1. desk'.wins[w].open
    BY DEF IsTop
  <2>2. CASE ~(w < desk.next)
    BY <2>1, <2>2
  <2>3. CASE w < desk.next
    <3>1. IsTop(w)
      BY <2>1, <2>3 DEF IsTop
    <3>2. ComesCreated(w) \/ GoesClose(w) \/ (IsOpen(shell, w) /\ IsPainted(w))
      BY <1>3, <3>1 DEF DialogsInv, DialogsSettle
    <3>3. IsPainted(w) => IsPainted(w)'
      <4>1. PICK l : l = Seen(shell.dialogs[w])
        OBVIOUS
      <4>2. l \in AnyLook /\ (IsPainted(w) <=> PaintedOn(w, l))
        BY <4>1, SeenIs DEF DialogsInv
      <4>3. PaintedOn(w, l) => PaintedOn(w, l)'
        BY <2>1, <2>3, <4>2
      <4>4. PaintedOn(w, l)' => IsPainted(w)'
        <5>1. l = IF shell'.dialogs[w].shown THEN shell'.dialogs[w].drawn ELSE NoLook
          BY <4>1 DEF Seen
        <5> QED BY <5>1, Zenon DEF IsPainted
      <4> QED BY <4>2, <4>3, <4>4
    <3> QED BY <2>1, <2>3, <3>2, <3>3
  <2> QED BY <2>2, <2>3
<1>4. ASSUME snags \cap {"reused", "relaunched"} = {} PROVE ChildrenSettle'
  <2> SUFFICES ASSUME NEW c \in Windows, NEW w \in Windows, HangsOn(c, w)'
               PROVE  ComesCreated(c)' \/ GoesClose(w)' \/ Attached(c, w)'
    BY DEF ChildrenSettle
  <2>1. desk'.wins[c].open /\ desk'.wins[w].open
    BY DEF HangsOn
  <2>2. CASE ~(c < desk.next)
    BY <2>1, <2>2
  <2>3. CASE c < desk.next
    <3>1. HangsOn(c, w)
      BY <2>1, <2>3 DEF HangsOn
    <3>2. ComesCreated(c) \/ GoesClose(w) \/ Attached(c, w)
      BY <1>4, <3>1 DEF DialogsInv, ChildrenSettle
    <3>3. Attached(c, w) => Attached(c, w)'
      <4>1. PICK l : l = shell.dialogs[w].floatDrawn
        OBVIOUS
      <4>2. l \in AnyLook
        BY <4>1, SeenIs DEF DialogsInv
      <4>3. PaintedOn(c, l) => PaintedOn(c, l)'
        BY <2>1, <2>3, <4>2
      <4>4. l = shell'.dialogs[w].floatDrawn
        BY <4>1
      <4> QED BY <4>1, <4>3, <4>4, Zenon DEF Attached
    <3> QED BY <2>1, <2>3, <3>2, <3>3
  <2> QED BY <2>2, <2>3
<1> QED BY <1>1, <1>2, <1>3, <1>4 DEF PageInv

LEMMA AddsIs ==
    ASSUME DialogsShape, DialogsShape', NEW m \in FromDesk, Adds(deskOut, deskOut', m)
    PROVE  /\ Len(deskOut) \in Nat /\ Len(deskOut') = Len(deskOut) + 1
           /\ deskOut'[Len(deskOut) + 1] = m
           /\ \A i \in 1..Len(deskOut) : deskOut'[i] = deskOut[i] /\ i \in 1..Len(deskOut')
           /\ \A i \in 1..Len(deskOut') : i = Len(deskOut) + 1 \/ i \in 1..Len(deskOut)
           /\ Goes(deskOut, deskOut')
           /\ \A i \in Len(deskOut) + 1..Len(deskOut') : deskOut'[i] = m
<1>1. /\ Len(deskOut) \in Nat /\ Len(deskOut') = Len(deskOut) + 1
      /\ deskOut'[Len(deskOut) + 1] = m /\ Goes(deskOut, deskOut')
      /\ \A i \in 1..Len(deskOut) : deskOut'[i] = deskOut[i]
  BY DEF Adds, Goes, DialogsShape
<1> QED BY <1>1

\* What a message adds to what is coming.
LEMMA ComingSaid ==
    ASSUME DialogsShape, DialogsShape', NEW m \in FromDesk, Adds(deskOut, deskOut', m), NEW v \in Windows
    PROVE  /\ ComesClose(v) => ComesClose(v)'
           /\ ComesCreated(v)' <=> ComesCreated(v) \/ Creates(m, v)
<1>1. ComesClose(v) => ComesClose(v)'
  BY AddsIs DEF ComesClose, Closes
<1>2. ASSUME NEW i \in 1..Len(deskOut'), Creates(deskOut'[i], v) PROVE ComesCreated(v) \/ Creates(m, v)
  BY <1>2, AddsIs DEF ComesCreated, Creates
<1>3. ComesCreated(v) => ComesCreated(v)'
  BY AddsIs DEF ComesCreated, Creates
<1>4. Creates(m, v) => ComesCreated(v)'
  <2>1. Len(deskOut) + 1 \in 1..Len(deskOut')
    BY AddsIs
  <2> QED BY <2>1, AddsIs DEF ComesCreated, Creates
<1>5. ComesCreated(v)' => ComesCreated(v) \/ Creates(m, v)
  BY <1>2 DEF ComesCreated, Creates
<1> QED BY <1>1, <1>3, <1>4, <1>5

LEMMA OpensPage ==
    ASSUME DialogsInv, NEW titled \in BOOLEAN, NEW parent \in AnyWindow, NEW look \in Looks,
           KitOpens(titled, parent, look)
    PROVE  DialogsShape' /\ DeskInv' /\ PageInv'
<1>0. DialogsShape /\ DeskInv
  BY DEF DialogsInv
<1>1. PICK w : w = desk.next
  OBVIOUS
<1>2. /\ w \in Windows /\ DialogsShape'
      /\ desk'.next = w + 1
      /\ \A v \in Windows : v # w => desk'.wins[v] = desk.wins[v]
      /\ deskIn' = deskIn /\ shell' = shell /\ snags' = snags
  BY <1>0, <1>1, OpensIs
<1>3. PICK m \in FromDesk : Adds(deskOut, deskOut', m) /\ Creates(m, w)
  BY <1>0, <1>1, OpensIs
<1>4. DeskInv'
  BY <1>0, OpensInv
<1>5. w \in Nat /\ w = desk.next /\ \A v \in Windows : v \in Nat /\ (v < w => v # w)
  BY <1>1, <1>2, NoWindowIs
<1>6. \A v \in Windows : v # w => ~Creates(m, v)
  BY <1>3 DEF Creates
<1>7. \A v \in Windows : /\ ComesClose(v) => ComesClose(v)'
                         /\ ComesCreated(v)' <=> ComesCreated(v) \/ Creates(m, v)
  BY <1>0, <1>2, <1>3, ComingSaid
<1>8. \A v \in Windows : GoesClose(v) => GoesClose(v)'
  BY <1>2 DEF GoesClose, Closes
<1>9. \A v \in Windows : desk'.wins[v].open /\ ~(v < desk.next) => v = w
  BY <1>2, <1>5 DEF DialogsInv, DeskInv, WindowsAreSound
<1>10. ASSUME NEW v \in Windows, NEW l \in AnyLook, v < desk.next, PaintedOn(v, l) PROVE PaintedOn(v, l)'
  <2>1. \A i \in Len(deskOut) + 1..Len(deskOut') : ~Paints(deskOut'[i], v)
    BY <1>0, <1>2, <1>3, AddsIs DEF Paints, Creates
  <2>2. Goes(deskOut, deskOut')
    BY <1>3 DEF Adds
  <2>3. desk'.wins[v].look = desk.wins[v].look
    BY <1>2, <1>5, <1>10
  <2>4. (\E i \in 1..Len(deskIn) : Asks(deskIn[i], v)) => \E i \in 1..Len(deskIn') : Asks(deskIn'[i], v)
    BY <1>2
  <2> QED BY <1>0, <1>2, <1>10, <2>1, <2>2, <2>3, <2>4, PaintedStays
<1>11. \A c, p \in Windows : HangsOn(c, p)' => desk'.wins[p].open
  BY <1>4 DEF DeskInv, WindowsAreSound, IsTop
<1>12. desk.next <= desk'.next /\ desk'.next \in Nat
  BY <1>2, <1>5
<1>13. /\ \A v \in Windows : v < desk.next => (ComesCreated(v)' <=> ComesCreated(v))
       /\ \A v \in Windows : desk'.wins[v].open /\ ~(v < desk.next) => ComesCreated(v)'
  BY <1>3, <1>5, <1>6, <1>7, <1>9
<1>14. PageInv'
  BY <1>2, <1>5, <1>7, <1>8, <1>10, <1>11, <1>12, <1>13, PageStays
<1> QED BY <1>2, <1>4, <1>14

\* A message about a window that is there, and what is asked for.
LEMMA SaysPage ==
    ASSUME DialogsInv, DialogsShape', NEW m \in FromDesk, Adds(deskOut, deskOut', m),
           m[1] \notin {"created", "close"},
           m[1] = "size_changed" => m[2] \in OpenDialogs,
           desk'.next = desk.next, shell' = shell, snags' = snags,
           \A w \in Windows : /\ desk'.wins[w].open = desk.wins[w].open
                              /\ desk'.wins[w].parent = desk.wins[w].parent
                              /\ desk'.wins[w].open => desk'.wins[w].look \in Looks,
           \A v \in Windows : GoesClose(v) => GoesClose(v)',
           \A v \in Windows, l \in AnyLook : PaintedOn(v, l) => PaintedOn(v, l)'
    PROVE  DeskInv' /\ PageInv'
<1>0. DialogsShape /\ DeskInv /\ desk.next \in Nat
  BY DEF DialogsInv, DialogsShape, Desks
<1>1. DeskInv'
  BY <1>0, SaysInv
<1>2. \A v \in Windows : ~Creates(m, v)
  BY DEF Creates
<1>3. \A v \in Windows : /\ ComesClose(v) => ComesClose(v)'
                         /\ ComesCreated(v)' <=> ComesCreated(v)
  BY <1>0, <1>2, ComingSaid
<1>4. \A c, p \in Windows : HangsOn(c, p)' => desk'.wins[p].open
  BY <1>1 DEF DeskInv, WindowsAreSound, IsTop
<1>5. \A v \in Windows : desk'.wins[v].open => v < desk.next
  BY <1>0 DEF DeskInv, WindowsAreSound
<1>6. PageInv'
  BY <1>0, <1>3, <1>4, <1>5, PageStays
<1> QED BY <1>1, <1>6

\* A message that is read, or none: the queue to the kit.
LEMMA InQueueHas ==
    ASSUME NEW m \in ToDesk, Moves(deskIn, deskIn'), Len(deskIn) \in Nat \ {0}, deskIn[1] = m,
           Len(deskIn') \in Nat, NEW v \in Windows
    PROVE  /\ GoesClose(v) => Closes(m, v) \/ GoesClose(v)'
           /\ (\E i \in 1..Len(deskIn) : Asks(deskIn[i], v)) =>
                 Asks(m, v) \/ \E i \in 1..Len(deskIn') : Asks(deskIn'[i], v)
<1>1. \A i \in 1..Len(deskIn) : i = 1 \/ (i - 1 \in 1..Len(deskIn') /\ deskIn'[i - 1] = deskIn[i])
  BY DEF Moves
<1>2. GoesClose(v) => Closes(m, v) \/ GoesClose(v)'
  BY <1>1 DEF GoesClose, Closes
<1> QED BY <1>1, <1>2

LEMMA RepaintsPage ==
    ASSUME DialogsInv, NEW w \in Windows, NEW look \in Looks, KitRepaints(w, look)
    PROVE  DialogsShape' /\ DeskInv' /\ PageInv'
<1>0. DialogsShape /\ DeskInv
  BY DEF DialogsInv
<1>1. desk.wins[w].open /\ desk' = [desk EXCEPT !.wins[w].look = look]
  BY DEF KitRepaints
<1>2. /\ desk' \in Desks /\ desk'.next = desk.next
      /\ \A v \in Windows : /\ desk'.wins[v].open = desk.wins[v].open
                            /\ desk'.wins[v].parent = desk.wins[v].parent
      /\ desk'.wins[w].look = look /\ \A v \in Windows : v # w => desk'.wins[v].look = desk.wins[v].look
  BY <1>0, <1>1 DEF DialogsShape, Desks, Wins, AnyLook
<1>3. deskIn' = deskIn /\ shell' = shell /\ snags' = snags
  BY DEF KitRepaints
<1>4. PICK what \in {"invalidate", "size_changed"} :
          (what = "size_changed" => w \in OpenDialogs) /\ deskOut' = Append(deskOut, <<what, w>>)
  BY DEF KitRepaints
<1>5. PICK m : m = <<what, w>>
  OBVIOUS
<1>6. m \in FromDesk /\ Wakes(m, w) /\ m[1] = what /\ m[2] = w
  BY <1>4, <1>5 DEF FromDesk, Wakes
<1>7. deskOut' \in Seq(FromDesk) /\ Adds(deskOut, deskOut', m)
  <2>1. deskOut' = Append(deskOut, m)
    BY <1>4, <1>5
  <2> QED BY <1>0, <1>6, <2>1, AppendAdds DEF DialogsShape
<1>8. DialogsShape'
  BY <1>0, <1>2, <1>3, <1>7 DEF DialogsShape
<1>9. ASSUME NEW v \in Windows, NEW l \in AnyLook, PaintedOn(v, l) PROVE PaintedOn(v, l)'
  <2>1. CASE v = w
    <3>1. Len(deskOut) + 1 \in 1..Len(deskOut') /\ Wakes(deskOut'[Len(deskOut) + 1], v)
      BY <1>0, <1>6, <1>7, <1>8, <2>1, AddsIs
    <3> QED BY <3>1 DEF PaintedOn, WillBePainted, Wakes
  <2>2. CASE v # w
    <3>1. \A i \in Len(deskOut) + 1..Len(deskOut') : ~Paints(deskOut'[i], v)
      BY <1>0, <1>6, <1>7, <1>8, AddsIs DEF Paints, Wakes
    <3>2. (\E i \in 1..Len(deskIn) : Asks(deskIn[i], v)) => \E i \in 1..Len(deskIn') : Asks(deskIn'[i], v)
      BY <1>3
    <3>3. Goes(deskOut, deskOut')
      BY <1>7 DEF Adds
    <3> QED BY <1>0, <1>2, <1>8, <1>9, <2>2, <3>1, <3>2, <3>3, PaintedStays
  <2> QED BY <2>1, <2>2
<1>10. \A v \in Windows : GoesClose(v) => GoesClose(v)'
  BY <1>3 DEF GoesClose, Closes
<1>11. \A v \in Windows : desk'.wins[v].open => desk'.wins[v].look \in Looks
  BY <1>0, <1>2 DEF DeskInv, WindowsAreSound
<1>12. m[1] \notin {"created", "close"} /\ (m[1] = "size_changed" => m[2] \in OpenDialogs)
  BY <1>4, <1>6
<1> QED BY <1>2, <1>3, <1>6, <1>7, <1>8, <1>9, <1>10, <1>11, <1>12, SaysPage

LEMMA CaretPage ==
    ASSUME DialogsInv, NEW w \in Windows, NEW on \in BOOLEAN, KitCaret(w, on)
    PROVE  DialogsShape' /\ DeskInv' /\ PageInv'
<1>0. DialogsShape /\ DeskInv
  BY DEF DialogsInv
<1>1. desk' = desk /\ deskIn' = deskIn /\ shell' = shell /\ snags' = snags
  BY DEF KitCaret
<1>2. PICK m : m = <<"cursor_visible", w, on>>
  OBVIOUS
<1>3. m \in FromDesk /\ m[1] = "cursor_visible"
  BY <1>2 DEF FromDesk
<1>4. deskOut' \in Seq(FromDesk) /\ Adds(deskOut, deskOut', m)
  <2>1. deskOut' = Append(deskOut, m)
    BY <1>2, Zenon DEF KitCaret
  <2> QED BY <1>0, <1>3, <2>1, AppendAdds DEF DialogsShape
<1>5. DialogsShape'
  BY <1>0, <1>1, <1>4 DEF DialogsShape
<1>6. ASSUME NEW v \in Windows, NEW l \in AnyLook, PaintedOn(v, l) PROVE PaintedOn(v, l)'
  <2>1. \A i \in Len(deskOut) + 1..Len(deskOut') : ~Paints(deskOut'[i], v)
    BY <1>0, <1>3, <1>4, <1>5, AddsIs DEF Paints
  <2>2. (\E i \in 1..Len(deskIn) : Asks(deskIn[i], v)) => \E i \in 1..Len(deskIn') : Asks(deskIn'[i], v)
    BY <1>1
  <2>3. Goes(deskOut, deskOut') /\ desk'.wins[v].look = desk.wins[v].look
    BY <1>1, <1>4 DEF Adds
  <2> QED BY <1>0, <1>5, <1>6, <2>1, <2>2, <2>3, PaintedStays
<1>7. \A v \in Windows : GoesClose(v) => GoesClose(v)'
  BY <1>1 DEF GoesClose, Closes
<1>8. \A v \in Windows : desk'.wins[v].open => desk'.wins[v].look \in Looks
  BY <1>0, <1>1 DEF DeskInv, WindowsAreSound
<1> QED BY <1>1, <1>3, <1>4, <1>5, <1>6, <1>7, <1>8, SaysPage

LEMMA DialogsInvIs == DialogsInv <=> DialogsShape /\ DeskInv /\ PageInv
  BY DEF DialogsInv, PageInv

\* A window is closed, and the queue to the kit may have been read.
LEMMA ClosesPage ==
    ASSUME DialogsInv, DialogsShape', NEW w \in Windows, desk.wins[w].open, KitCloses(w),
           shell' = shell, snags' = snags,
           \A v \in Windows : GoesClose(v) => v = w \/ GoesClose(v)',
           \A v \in Windows : (\E i \in 1..Len(deskIn) : Asks(deskIn[i], v)) =>
                                 \E i \in 1..Len(deskIn') : Asks(deskIn'[i], v)
    PROVE  DeskInv' /\ PageInv'
<1>0. DialogsShape /\ DeskInv /\ desk.next \in Nat
  BY DEF DialogsInv, DialogsShape, Desks
<1>1. /\ desk'.next = desk.next
      /\ \A v \in Going(w) : ~desk'.wins[v].open
      /\ \A v \in Windows \ Going(w) : desk'.wins[v] = desk.wins[v]
      /\ AddsCloses(deskOut, deskOut', Going(w))
  BY <1>0, ClosesIs
<1>2. DeskInv'
  BY <1>0, ClosesInv
<1>3. /\ Len(deskOut) \in Nat /\ Len(deskOut') \in Nat /\ Len(deskOut) <= Len(deskOut')
      /\ \A i \in 1..Len(deskOut) : deskOut'[i] = deskOut[i] /\ i \in 1..Len(deskOut')
      /\ \A i \in 1..Len(deskOut') : i \in 1..Len(deskOut) \/ i \in Len(deskOut) + 1..Len(deskOut')
      /\ \A i \in Len(deskOut) + 1..Len(deskOut') : i \in 1..Len(deskOut') /\ deskOut'[i][1] = "close"
      /\ \A v \in Going(w) : \E i \in Len(deskOut) + 1..Len(deskOut') : Closes(deskOut'[i], v)
  BY <1>0, <1>1 DEF AddsCloses, Goes, DialogsShape
<1>4. \A v \in Windows : desk'.wins[v].open => v \notin Going(w) /\ desk'.wins[v] = desk.wins[v] /\ v # w
  BY <1>1 DEF Going
<1>5. ASSUME NEW v \in Windows
      PROVE  /\ ComesCreated(v)' <=> ComesCreated(v)
             /\ ComesClose(v) => ComesClose(v)'
             /\ v \in Going(w) => ComesClose(v)'
  <2>1. ComesCreated(v)' => ComesCreated(v)
    BY <1>3 DEF ComesCreated, Creates
  <2>2. ComesCreated(v) => ComesCreated(v)'
    BY <1>3 DEF ComesCreated, Creates
  <2>3. ComesClose(v) => ComesClose(v)'
    BY <1>3 DEF ComesClose, Closes
  <2>4. v \in Going(w) => ComesClose(v)'
    BY <1>3 DEF ComesClose, Closes
  <2> QED BY <2>1, <2>2, <2>3, <2>4
<1>6. ASSUME NEW v \in Windows, NEW l \in AnyLook, desk'.wins[v].open, PaintedOn(v, l)
      PROVE  PaintedOn(v, l)'
  <2>1. \A i \in Len(deskOut) + 1..Len(deskOut') : ~Paints(deskOut'[i], v)
    BY <1>3 DEF Paints
  <2>2. Goes(deskOut, deskOut') /\ desk'.wins[v].look = desk.wins[v].look
    BY <1>1, <1>4, <1>6 DEF AddsCloses
  <2> QED BY <1>0, <1>6, <2>1, <2>2, PaintedStays
<1>7. \A c, p \in Windows : HangsOn(c, p)' => desk'.wins[p].open
  BY <1>2 DEF DeskInv, WindowsAreSound, IsTop
<1>8. \A v \in Windows : desk'.wins[v].open => v < desk.next
  BY <1>0, <1>4 DEF DeskInv, WindowsAreSound
<1>9. \A v \in Windows : desk'.wins[v].open /\ GoesClose(v) => GoesClose(v)'
  BY <1>4
<1>10. \A v \in Windows : ~desk'.wins[v].open => ~desk.wins[v].open \/ ComesClose(v)'
  BY <1>1, <1>5
<1>11. PageInv'
  BY <1>0, <1>1, <1>4, <1>5, <1>6, <1>7, <1>8, <1>9, <1>10, PageStays
<1> QED BY <1>2, <1>11

LEMMA ClosesByItselfPage ==
    ASSUME DialogsInv, NEW w \in Windows, KitClosesByItself(w)
    PROVE  DialogsShape' /\ DeskInv' /\ PageInv'
<1>0. DialogsShape /\ DeskInv
  BY DEF DialogsInv
<1>1. desk.wins[w].open /\ KitCloses(w) /\ deskIn' = deskIn /\ shell' = shell /\ snags' = snags
  BY DEF KitClosesByItself
<1>2. desk' \in Desks /\ deskOut' \in Seq(FromDesk)
  BY <1>0, <1>1, ClosesIs
<1>3. DialogsShape'
  BY <1>0, <1>1, <1>2 DEF DialogsShape
<1>4. /\ \A v \in Windows : GoesClose(v) => v = w \/ GoesClose(v)'
      /\ \A v \in Windows : (\E i \in 1..Len(deskIn) : Asks(deskIn[i], v)) =>
                               \E i \in 1..Len(deskIn') : Asks(deskIn'[i], v)
  BY <1>1 DEF GoesClose, Closes
<1> QED BY <1>1, <1>3, <1>4, ClosesPage

\* The lists of pictures: what is in them stays pictures.
LEMMA RemovedIs ==
    ASSUME NEW X, NEW q \in Seq(X), NEW i \in 1..Len(q), NEW r, r = RemoveAt(q, i)
    PROVE  /\ r \in Seq(X) /\ Len(r) = Len(q) - 1
           /\ \A k \in 1..Len(r) : r[k] = IF k < i THEN q[k] ELSE q[k + 1]
<1>1. PICK a : a = SubSeq(q, 1, i - 1)
  OBVIOUS
<1>2. PICK b : b = SubSeq(q, i + 1, Len(q))
  OBVIOUS
<1>3. r = a \o b
  BY <1>1, <1>2 DEF RemoveAt
<1>4. a \in Seq(X) /\ Len(a) = i - 1 /\ \A k \in 1..i - 1 : a[k] = q[k]
  BY <1>1
<1>5. b \in Seq(X) /\ Len(b) = Len(q) - i /\ \A k \in 1..Len(q) - i : b[k] = q[i + k]
  BY <1>2
<1>6. r \in Seq(X) /\ Len(r) = Len(q) - 1
  <2>1. a \o b \in Seq(X)
    BY <1>4, <1>5
  <2>2. Len(a \o b) = Len(a) + Len(b)
    BY <1>4, <1>5, ConcatProperties
  <2> QED BY <1>3, <1>4, <1>5, <2>1, <2>2
<1>7. ASSUME NEW k \in 1..Len(r) PROVE r[k] = IF k < i THEN q[k] ELSE q[k + 1]
  <2>1. CASE k < i
    <3>1. k \in 1..Len(a)
      BY <1>4, <1>6, <2>1
    <3>2. r[k] = a[k]
      BY <1>3, <1>4, <1>5, <3>1
    <3> QED BY <1>4, <2>1, <3>1, <3>2
  <2>2. CASE ~(k < i)
    <3>1. k \in Len(a) + 1..Len(a) + Len(b) /\ k - Len(a) \in 1..Len(q) - i
      BY <1>4, <1>5, <1>6, <2>2
    <3>2. r[k] = b[k - Len(a)]
      BY <1>3, <1>4, <1>5, <3>1
    <3>3. b[k - Len(a)] = q[i + (k - Len(a))] /\ i + (k - Len(a)) = k + 1
      BY <1>4, <1>5, <3>1
    <3> QED BY <2>2, <3>2, <3>3
  <2> QED BY <2>1, <2>2
<1> QED BY <1>6, <1>7

LEMMA FrontIs ==
    ASSUME NEW X, NEW q \in Seq(X), Len(q) > 0, NEW r, r = Front(q)
    PROVE  r \in Seq(X) /\ Len(r) = Len(q) - 1 /\ \A k \in 1..Len(r) : r[k] = q[k]
<1>1. PICK n : n = Len(q) - 1
  OBVIOUS
<1>2. r = SubSeq(q, 1, n)
  BY <1>1 DEF Front
<1>3. n \in Nat /\ n <= Len(q)
  BY <1>1
<1>4. r \in Seq(X)
  BY <1>2, <1>3
<1>5. Len(r) = n
  BY <1>2, <1>3
<1>6. \A k \in 1..n : r[k] = q[k]
  BY <1>2, <1>3
<1> QED BY <1>1, <1>4, <1>5, <1>6

LEMMA PushedIs ==
    ASSUME NEW X, NEW q \in Seq(X), NEW x \in X, NEW r, r = <<x>> \o q
    PROVE  /\ r \in Seq(X) /\ Len(r) = Len(q) + 1 /\ r[1] = x
           /\ \A k \in 1..Len(q) : r[k + 1] = q[k]
  OBVIOUS

\* Where a picture is in a list, 0 when it is not.
PlaceIn(q, l) == IF Contains(q, l) THEN Min({j \in DOMAIN q : q[j] = l}) ELSE 0

LEMMA AtIs ==
    ASSUME NEW X, NEW q \in Seq(X), NEW l
    PROVE  /\ PlaceIn(q, l) = 0 <=> ~Contains(q, l)
           /\ Contains(q, l) => /\ PlaceIn(q, l) \in 1..Len(q) /\ q[PlaceIn(q, l)] = l
                                /\ \A j \in 1..Len(q) : q[j] = l => PlaceIn(q, l) <= j
<1>1. CASE ~Contains(q, l)
  BY <1>1 DEF PlaceIn
<1>2. CASE Contains(q, l)
  <2>1. PICK S : S = {j \in DOMAIN q : q[j] = l}
    OBVIOUS
  <2>2. S = {j \in 1..Len(q) : q[j] = l} /\ S \in SUBSET Nat
    BY <2>1
  <2>3. S # {}
    BY <1>2, <2>2 DEF Contains
  <2>4. Min(S) \in S /\ \A y \in S : Min(S) <= y
    BY <2>2, <2>3, LeastIs
  <2>5. PlaceIn(q, l) = Min(S)
    BY <1>2, <2>1 DEF PlaceIn
  <2> QED BY <1>2, <2>2, <2>4, <2>5
<1> QED BY <1>1, <1>2

\* renderWindow moves a picture to the front, _onDialogPaintMsg does: the list with the picture
\* taken out, or shorter by one when it is full, behind the picture.
Rest(q, l) == IF PlaceIn(q, l) > 0 THEN RemoveAt(q, PlaceIn(q, l))
              ELSE IF Len(q) = CacheSize THEN Front(q) ELSE q

LEMMA RestIs ==
    ASSUME NEW q, q \in Lists, NEW l \in Looks
    PROVE  /\ Rest(q, l) \in Seq(Looks) /\ Len(Rest(q, l)) < CacheSize /\ Len(Rest(q, l)) \in Nat
           /\ \A k \in 1..Len(Rest(q, l)) :
                 /\ k \in 1..Len(q)
                 /\ PlaceIn(q, l) = 0 => Rest(q, l)[k] = q[k]
                 /\ PlaceIn(q, l) # 0 => /\ k + 1 \in 1..Len(q)
                                    /\ Rest(q, l)[k] = IF k < PlaceIn(q, l) THEN q[k] ELSE q[k + 1]
           /\ PlaceIn(q, l) # 0 => Len(Rest(q, l)) = Len(q) - 1
           /\ PlaceIn(q, l) = 0 => Len(Rest(q, l)) = IF Len(q) = CacheSize THEN Len(q) - 1 ELSE Len(q)
<1>0. q \in Seq(Looks) /\ Len(q) \in Nat /\ Len(q) <= CacheSize /\ CacheSize \in Nat \ {0}
  BY DialogsAssumption DEF Lists
<1>1. CASE PlaceIn(q, l) = 0 /\ Len(q) = CacheSize
  <2>1. PICK r : r = Front(q)
    OBVIOUS
  <2>2. r \in Seq(Looks) /\ Len(r) = Len(q) - 1 /\ \A k \in 1..Len(r) : r[k] = q[k]
    BY <1>0, <1>1, <2>1, FrontIs
  <2>3. Rest(q, l) = r
    BY <1>1, <2>1 DEF Rest
  <2> QED BY <1>0, <1>1, <2>2, <2>3
<1>2. CASE PlaceIn(q, l) = 0 /\ Len(q) # CacheSize
  <2>1. Rest(q, l) = q
    BY <1>2 DEF Rest
  <2> QED BY <1>0, <1>2, <2>1
<1>3. CASE PlaceIn(q, l) # 0
  <2>0. PlaceIn(q, l) \in 1..Len(q)
    BY <1>0, <1>3, AtIs
  <2>1. PICK i \in 1..Len(q) : i = PlaceIn(q, l)
    BY <2>0
  <2>2. PICK r : r = RemoveAt(q, i)
    OBVIOUS
  <2>3. /\ r \in Seq(Looks) /\ Len(r) = Len(q) - 1
        /\ \A k \in 1..Len(r) : r[k] = IF k < i THEN q[k] ELSE q[k + 1]
    BY <1>0, <2>2, RemovedIs
  <2>4. Rest(q, l) = r
    BY <2>0, <2>1, <2>2 DEF Rest
  <2>5. \A k \in 1..Len(r) : k \in 1..Len(q) /\ k + 1 \in 1..Len(q)
    BY <1>0, <2>3
  <2> QED BY <1>0, <1>3, <2>1, <2>3, <2>4, <2>5
<1> QED BY <1>1, <1>2, <1>3

LEMMA MovedIs ==
    ASSUME NEW q, q \in Lists, NEW l \in Looks, NEW r, r = MovedToFront(q, l)
    PROVE  /\ r \in Lists /\ Len(r) = Len(Rest(q, l)) + 1 /\ r[1] = l
           /\ \A k \in 1..Len(Rest(q, l)) : r[k + 1] = Rest(q, l)[k]
<1>1. PICK x : x = Rest(q, l)
  OBVIOUS
<1>2. x \in Seq(Looks) /\ Len(x) < CacheSize /\ Len(x) \in Nat
  BY <1>1, RestIs
<1>3. r = <<l>> \o x
  BY <1>1 DEF MovedToFront, Rest, PlaceIn
<1>4. r \in Seq(Looks) /\ Len(r) = Len(x) + 1 /\ r[1] = l /\ \A k \in 1..Len(x) : r[k + 1] = x[k]
  BY <1>2, <1>3, PushedIs
<1>5. Len(r) <= CacheSize
  BY <1>2, <1>4, DialogsAssumption
<1> QED BY <1>1, <1>4, <1>5 DEF Lists

LEMMA CachedIs ==
    ASSUME NEW q, q \in Lists, NEW l \in Looks
    PROVE  Cached(q, l) = MovedToFront(q, l)
<1>0. q \in Seq(Looks) /\ Len(q) \in Nat /\ Len(q) <= CacheSize /\ CacheSize \in Nat \ {0}
  BY DialogsAssumption DEF Lists
<1>1. CASE PlaceIn(q, l) > 0
  <2>0. PlaceIn(q, l) \in 1..Len(q)
    BY <1>0, <1>1, AtIs
  <2>1. PICK i \in 1..Len(q) : i = PlaceIn(q, l)
    BY <2>0
  <2>2. PICK r : r = RemoveAt(q, i)
    OBVIOUS
  <2>3. r \in Seq(Looks) /\ Len(r) = Len(q) - 1
    BY <1>0, <2>2, RemovedIs
  <2>4. Len(r) # CacheSize
    BY <1>0, <2>3
  <2>5. Cached(q, l) = <<l>> \o r
    BY <1>1, <2>1, <2>2, <2>4 DEF Cached, PlaceIn
  <2>6. MovedToFront(q, l) = <<l>> \o r
    BY <1>1, <2>1, <2>2 DEF MovedToFront, PlaceIn
  <2> QED BY <2>5, <2>6
<1>2. CASE ~(PlaceIn(q, l) > 0)
  BY <1>2 DEF Cached, MovedToFront, PlaceIn
<1> QED BY <1>1, <1>2

\* What is asked is not there any more.
LEMMA HeedsPage ==
    ASSUME DialogsInv, NEW m \in ToDesk, Moves(deskIn, deskIn'), Len(deskIn) \in Nat \ {0},
           deskIn[1] = m, deskIn' \in Seq(ToDesk), ~desk.wins[m[2]].open,
           desk' = desk, deskOut' = deskOut, shell' = shell, snags' = snags
    PROVE  DialogsShape' /\ DeskInv' /\ PageInv'
<1>0. DialogsShape /\ DeskInv /\ desk.next \in Nat
  BY DEF DialogsInv, DialogsShape, Desks
<1>1. DialogsShape'
  BY <1>0 DEF DialogsShape
<1>2. DeskInv'
  BY <1>0 DEF DeskInv, WindowsAreSound, Announced, AnnouncedUnder, ClosedForGood, ResizedIsTop, HangsOn,
              IsTop, Creates, CreatesUnder, Closes
<1>3. Len(deskIn') \in Nat
  BY <1>1 DEF DialogsShape
<1>4. ASSUME NEW v \in Windows, desk.wins[v].open
      PROVE  /\ GoesClose(v) => GoesClose(v)'
             /\ (\E i \in 1..Len(deskIn) : Asks(deskIn[i], v)) =>
                   \E i \in 1..Len(deskIn') : Asks(deskIn'[i], v)
  <2>1. ~Closes(m, v) /\ ~Asks(m, v)
    BY <1>4 DEF Closes, Asks
  <2> QED BY <1>3, <2>1, InQueueHas
<1>5. ASSUME NEW v \in Windows
      PROVE  /\ ComesCreated(v)' <=> ComesCreated(v)
             /\ ComesClose(v) => ComesClose(v)'
  BY DEF ComesCreated, ComesClose, Creates, Closes
<1>6. ASSUME NEW v \in Windows, NEW l \in AnyLook, desk'.wins[v].open, PaintedOn(v, l)
      PROVE  PaintedOn(v, l)'
  <2>1. Goes(deskOut, deskOut') /\ \A i \in Len(deskOut) + 1..Len(deskOut') : ~Paints(deskOut'[i], v)
    BY <1>0 DEF Goes, DialogsShape
  <2>2. /\ desk'.wins[v].look = desk.wins[v].look
        /\ (\E i \in 1..Len(deskIn) : Asks(deskIn[i], v)) =>
                   \E i \in 1..Len(deskIn') : Asks(deskIn'[i], v)
    BY <1>4, <1>6
  <2> QED BY <1>0, <1>1, <1>6, <2>1, <2>2, PaintedStays
<1>7. \A c, p \in Windows : HangsOn(c, p)' => desk'.wins[p].open
  BY <1>2 DEF DeskInv, WindowsAreSound, IsTop
<1>8. \A v \in Windows : desk'.wins[v].open => v < desk.next
  BY <1>0 DEF DeskInv, WindowsAreSound
<1>9. \A v \in Windows : desk'.wins[v].open /\ GoesClose(v) => GoesClose(v)'
  BY <1>4
<1>10. PageInv'
  BY <1>0, <1>1, <1>5, <1>6, <1>7, <1>8, <1>9, PageStays
<1> QED BY <1>1, <1>2, <1>10

\* A test is true or false.
LEMMA ContainsOrNot == ASSUME NEW q, NEW l PROVE \E b \in BOOLEAN : b = ~Contains(q, l)
<1>1. CASE Contains(q, l)
  <2>1. FALSE = ~Contains(q, l)
    BY <1>1 DEF Contains
  <2> QED BY <2>1
<1>2. CASE ~Contains(q, l)
  <2>1. TRUE = ~Contains(q, l)
    BY <1>2 DEF Contains
  <2> QED BY <2>1
<1> QED BY <1>1, <1>2

\* A window is painted.
LEMMA RendersPage ==
    ASSUME DialogsInv, NEW m \in ToDesk, Moves(deskIn, deskIn'), Len(deskIn) \in Nat \ {0},
           deskIn[1] = m, deskIn' \in Seq(ToDesk), m[1] = "paintwindow", desk.wins[m[2]].open,
           RenderWindow(m[2]), shell' = shell, snags' = snags
    PROVE  DialogsShape' /\ DeskInv' /\ PageInv'
<1>0. DialogsShape /\ DeskInv /\ desk \in Desks
  BY DEF DialogsInv, DialogsShape
<1>1. PICK w \in Windows : w = m[2]
  BY ToDeskIs
<1>2. PICK look : look = desk.wins[w].look
  OBVIOUS
<1>3. look \in Looks /\ desk.wins[w].open
  BY <1>0, <1>1, <1>2 DEF DeskInv, WindowsAreSound
<1>4. PICK x : x = MovedToFront(desk.cache, look)
  OBVIOUS
<1>5. x \in Lists
  <2>1. desk.cache \in Lists
    BY <1>0 DEF Desks
  <2> QED BY <1>3, <1>4, <2>1, MovedIs
<1>6. desk' = [desk EXCEPT !.cache = x]
  BY <1>1, <1>2, <1>3, <1>4, Zenon DEF RenderWindow
<1>7. desk' \in Desks /\ desk'.wins = desk.wins /\ desk'.next = desk.next
  BY <1>0, <1>5, <1>6 DEF Desks
<1>8. PICK png \in BOOLEAN : deskOut' = Append(deskOut, <<"windowpaint", w, look, png>>)
  <2>1. deskOut' = Append(deskOut, <<"windowpaint", w, look, ~Contains(desk.cache, look)>>)
    BY <1>1, <1>2, <1>3, Zenon DEF RenderWindow
  <2>2. PICK b \in BOOLEAN : b = ~Contains(desk.cache, look)
    BY ContainsOrNot
  <2>3. deskOut' = Append(deskOut, <<"windowpaint", w, look, b>>)
    BY <2>1, <2>2, Zenon
  <2> QED BY <2>3
<1>9. PICK s : s = <<"windowpaint", w, look, png>>
  OBVIOUS
<1>10. s \in FromDesk /\ Paints(s, w) /\ s[3] = look /\ s[1] = "windowpaint"
  BY <1>3, <1>9 DEF FromDesk, Paints
<1>11. deskOut' \in Seq(FromDesk) /\ Adds(deskOut, deskOut', s)
  <2>1. deskOut' = Append(deskOut, s)
    BY <1>8, <1>9
  <2> QED BY <1>0, <1>10, <2>1, AppendAdds DEF DialogsShape
<1>12. DialogsShape'
  BY <1>0, <1>7, <1>11 DEF DialogsShape
<1>13. ASSUME NEW v \in Windows
       PROVE  /\ GoesClose(v) => GoesClose(v)'
              /\ v # w /\ (\E i \in 1..Len(deskIn) : Asks(deskIn[i], v)) =>
                    \E i \in 1..Len(deskIn') : Asks(deskIn'[i], v)
  <2>1. ~Closes(m, v) /\ (v # w => ~Asks(m, v))
    BY <1>1 DEF Closes, Asks
  <2>2. Len(deskIn') \in Nat
    BY <1>12 DEF DialogsShape
  <2> QED BY <2>1, <2>2, InQueueHas
<1>14. ASSUME NEW v \in Windows, NEW l \in AnyLook, PaintedOn(v, l) PROVE PaintedOn(v, l)'
  <2>1. CASE v = w
    <3>1. /\ Len(deskOut) + 1 \in 1..Len(deskOut') /\ deskOut'[Len(deskOut) + 1] = s
          /\ \A j \in (Len(deskOut) + 1) + 1..Len(deskOut') : FALSE
      BY <1>0, <1>10, <1>11, <1>12, AddsIs
    <3>2. s[3] = desk'.wins[v].look
      BY <1>2, <1>7, <1>10, <2>1
    <3> QED BY <1>10, <2>1, <3>1, <3>2 DEF PaintedOn, WillBePainted, Paints
  <2>2. CASE v # w
    <3>1. \A i \in Len(deskOut) + 1..Len(deskOut') : ~Paints(deskOut'[i], v)
      BY <1>0, <1>10, <1>11, <1>12, <2>2, AddsIs DEF Paints
    <3>2. Goes(deskOut, deskOut') /\ desk'.wins[v].look = desk.wins[v].look
      BY <1>7, <1>11 DEF Adds
    <3> QED BY <1>0, <1>12, <1>13, <1>14, <2>2, <3>1, <3>2, PaintedStays
  <2> QED BY <2>1, <2>2
<1>15. \A v \in Windows : desk'.wins[v].open => desk'.wins[v].look \in Looks
  BY <1>0, <1>7 DEF DeskInv, WindowsAreSound
<1>16. m[1] \notin {"created", "close"} /\ s[1] \notin {"created", "close"} /\ s[1] # "size_changed"
  BY <1>10
<1>17. \A v \in Windows : GoesClose(v) => GoesClose(v)'
  BY <1>13
<1>18. \A v \in Windows : /\ desk'.wins[v].open = desk.wins[v].open
                          /\ desk'.wins[v].parent = desk.wins[v].parent
  BY <1>7
<1> QED BY <1>7, <1>10, <1>11, <1>12, <1>14, <1>15, <1>16, <1>17, <1>18, SaysPage

LEMMA AnswersPage ==
    ASSUME DialogsInv, DeskAnswers
    PROVE  DialogsShape' /\ DeskInv' /\ PageInv'
<1>0. DialogsShape /\ DeskInv
  BY DEF DialogsInv
<1>1. deskIn # <<>> /\ deskIn' = Tail(deskIn) /\ deskIn \in Seq(ToDesk)
  BY <1>0 DEF DeskAnswers, DialogsShape
<1>2. /\ deskIn' \in Seq(ToDesk) /\ Moves(deskIn, deskIn') /\ deskIn[1] \in ToDesk
      /\ Head(deskIn) = deskIn[1] /\ Len(deskIn) \in Nat \ {0}
  BY <1>1, TailMoves
<1>3. PICK m \in ToDesk : m = deskIn[1]
  BY <1>2
<1>4. /\ \/ m[1] = "paintwindow" /\ RenderWindow(m[2])
         \/ m[1] = "close" /\ desk.wins[m[2]].open /\ KitCloses(m[2])
         \/ m[1] = "close" /\ ~desk.wins[m[2]].open /\ UNCHANGED <<desk, deskOut>>
      /\ shell' = shell /\ snags' = snags
  BY <1>2, <1>3, Zenon DEF DeskAnswers
<1>5. m[2] \in Windows
  BY ToDeskIs
<1>6. CASE m[1] = "paintwindow" /\ RenderWindow(m[2]) /\ desk.wins[m[2]].open
  BY <1>2, <1>3, <1>4, <1>6, RendersPage
<1>7. CASE m[1] = "paintwindow" /\ RenderWindow(m[2]) /\ ~desk.wins[m[2]].open
  <2>1. desk' = desk /\ deskOut' = deskOut
    BY <1>7 DEF RenderWindow
  <2> QED BY <1>2, <1>3, <1>4, <1>7, <2>1, HeedsPage
<1>8. CASE m[1] = "close" /\ desk.wins[m[2]].open /\ KitCloses(m[2])
  <2>1. desk' \in Desks /\ deskOut' \in Seq(FromDesk)
    BY <1>0, <1>5, <1>8, ClosesIs
  <2>2. DialogsShape'
    BY <1>0, <1>2, <1>4, <2>1 DEF DialogsShape
  <2>3. Len(deskIn') \in Nat
    BY <2>2 DEF DialogsShape
  <2>4. ASSUME NEW v \in Windows
        PROVE  /\ GoesClose(v) => v = m[2] \/ GoesClose(v)'
               /\ (\E i \in 1..Len(deskIn) : Asks(deskIn[i], v)) =>
                     \E i \in 1..Len(deskIn') : Asks(deskIn'[i], v)
    <3>1. ~Asks(m, v) /\ (Closes(m, v) => v = m[2])
      BY <1>8 DEF Closes, Asks
    <3> QED BY <1>2, <1>3, <2>3, <3>1, InQueueHas
  <2> QED BY <1>4, <1>5, <1>8, <2>2, <2>4, ClosesPage
<1>9. CASE m[1] = "close" /\ ~desk.wins[m[2]].open /\ desk' = desk /\ deskOut' = deskOut
  BY <1>2, <1>3, <1>4, <1>9, HeedsPage
<1> QED BY <1>4, <1>6, <1>7, <1>8, <1>9

LEMMA LosesPage ==
    ASSUME DialogsInv, LoseDesk
    PROVE  DialogsShape' /\ DeskInv' /\ PageInv'
<1>0. DialogsShape /\ shell \in Shells
  BY DEF DialogsInv, DialogsShape
<1>1. PICK x : x = [w \in Windows |-> Closed]
  OBVIOUS
<1>2. x \in [Windows -> Wins] /\ \A w \in Windows : ~x[w].open
  BY <1>1, NoWindowIs DEF Closed, Wins, AnyLook
<1>3. PICK q : q = <<>>
  OBVIOUS
<1>4. q \in Lists /\ q \in Seq(FromDesk) /\ q \in Seq(ToDesk) /\ Len(q) = 0
  BY <1>3, DialogsAssumption DEF Lists
<1>5. desk' = [wins |-> x, next |-> 1, cache |-> q] /\ deskIn' = q /\ deskOut' = q
  BY <1>1, <1>3, Zenon DEF LoseDesk
<1>6. desk' \in Desks /\ desk'.wins = x
  BY <1>2, <1>4, <1>5 DEF Desks
<1>7. PICK y : y = [w \in Windows |->
                    [shell.dialogs[w] EXCEPT !.dom = FALSE, !.shown = FALSE, !.drawn = NoLook,
                                 !.floating = NoWindow, !.floatDrawn = NoLook]]
  OBVIOUS
<1>8. y \in [Windows -> Entries] /\ \A w \in Windows : ~y[w].dom
  <2>1. ASSUME NEW w \in Windows PROVE y[w] \in Entries /\ ~y[w].dom
    <3>1. shell.dialogs[w] \in Entries
      BY <1>0 DEF Shells
    <3>2. y[w] = [shell.dialogs[w] EXCEPT !.dom = FALSE, !.shown = FALSE, !.drawn = NoLook,
                                 !.floating = NoWindow, !.floatDrawn = NoLook]
      BY <1>7
    <3> QED BY <3>1, <3>2, NoWindowIs DEF Entries, AnyLook
  <2>2. y \in [Windows -> {y[w] : w \in Windows}]
    BY <1>7
  <2> QED BY <2>1, <2>2
<1>9. shell' = [shell EXCEPT !.dialogs = y]
  BY <1>7, Zenon DEF LoseDesk
<1>10. shell' \in Shells /\ shell'.dialogs = y
  BY <1>0, <1>8, <1>9 DEF Shells
<1>11. DialogsShape'
  BY <1>4, <1>5, <1>6, <1>10 DEF DialogsShape
<1>12. DeskInv'
  <2>1. WindowsAreSound'
    BY <1>2, <1>6 DEF WindowsAreSound, HangsOn, IsTop
  <2>2. \A i \in 1..Len(deskOut') : FALSE
    BY <1>4, <1>5
  <2> QED BY <2>1, <2>2 DEF DeskInv, Announced, AnnouncedUnder, ClosedForGood, ResizedIsTop
<1>13. PageInv'
  BY <1>2, <1>6, <1>8, <1>10 DEF PageInv, PageIsKnown, PageIsTheKits, DialogsSettle, ChildrenSettle, IsTop, HangsOn
<1> QED BY <1>11, <1>12, <1>13

-----------------------------------------------------------------------------
(* The browser's dialogs, when the browser reads.                          *)

\* What a handler has to show of each window.
LEMMA ReadsPage ==
    ASSUME DialogsInv, NEW m, Reads(m), snags \subseteq snags',
           \A v \in Windows : shell'.dialogs[v].dom =>
              /\ shell'.dialogs[v].known
              /\ shell.dialogs[v].dom \/ (Creates(m, v) /\ m[4] = NoWindow),
           "reused" \notin snags' => \A v \in Windows : shell'.dialogs[v].dom =>
              ParentIds(shell', v) = {} /\ ~Closes(m, v),
           "reused" \notin snags' => \A v \in Windows : IsTop(v) =>
              /\ Creates(m, v) => IsOpen(shell', v) /\ IsPainted(v)'
              /\ IsOpen(shell, v) /\ IsPainted(v) =>
                    GoesClose(v)' \/ (IsOpen(shell', v) /\ IsPainted(v)'),
           snags' \cap {"reused", "relaunched"} = {} => \A c, w \in Windows : HangsOn(c, w) =>
              /\ Creates(m, c) => GoesClose(w)' \/ Attached(c, w)'
              /\ Attached(c, w) => ComesCreated(c)' \/ GoesClose(w)' \/ Attached(c, w)'
    PROVE  DeskInv' /\ PageInv'
<1>0. /\ DialogsShape /\ DeskInv /\ DialogsShape' /\ desk' = desk /\ m \in FromDesk
      /\ Len(deskOut) \in Nat \ {0} /\ m = deskOut[1] /\ Moves(deskOut, deskOut')
  BY DEF DialogsInv, Reads
<1>1. DeskInv'
  BY <1>0, HearsInv
<1>2. 1 \in 1..Len(deskOut)
  BY <1>0
<1>3. ASSUME NEW v \in Windows, Creates(m, v)
      PROVE  /\ v < desk.next /\ ~ComesCreated(v)'
             /\ m[4] = NoWindow => /\ desk.wins[v].open => desk.wins[v].parent = NoWindow
                                   /\ desk.wins[v].open \/ ComesClose(v)'
  <2>1. Creates(deskOut[1], v)
    BY <1>0, <1>3
  <2>2. /\ v < desk.next
        /\ \A j \in 1..Len(deskOut) : Creates(deskOut[j], v) => 1 = j
        /\ desk.wins[v].open => desk.wins[v].parent = deskOut[1][4]
        /\ deskOut[1][4] = NoWindow => \/ desk.wins[v].open
                                       \/ \E j \in 1 + 1..Len(deskOut) : Closes(deskOut[j], v)
    BY <1>0, <1>2, <2>1 DEF DeskInv, Announced
  <2>3. ~ComesCreated(v)'
    <3> SUFFICES ASSUME NEW i \in 1..Len(deskOut'), Creates(deskOut'[i], v) PROVE FALSE
      BY DEF ComesCreated, Creates
    <3>1. deskOut'[i] = deskOut[i + 1] /\ i + 1 \in 1..Len(deskOut)
      BY ReadsIs
    <3> QED BY <2>2, <3>1
  <2>4. ASSUME NEW j \in 1 + 1..Len(deskOut), Closes(deskOut[j], v) PROVE ComesClose(v)'
    <3>1. j - 1 \in 1..Len(deskOut') /\ deskOut'[j - 1] = deskOut[j]
      BY <1>0, ReadsIs
    <3> QED BY <2>4, <3>1 DEF ComesClose, Closes
  <2> QED BY <1>0, <2>2, <2>3, <2>4
<1>4. ASSUME NEW v \in Windows, shell'.dialogs[v].dom
      PROVE  shell'.dialogs[v].known /\ v < desk'.next /\ ~ComesCreated(v)'
  <2>1. shell'.dialogs[v].known /\ (shell.dialogs[v].dom \/ Creates(m, v))
    BY <1>4
  <2>2. shell.dialogs[v].dom => v < desk'.next /\ ~ComesCreated(v)
    BY <1>0 DEF DialogsInv, PageIsKnown
  <2>3. ComesCreated(v)' => ComesCreated(v)
    BY ComingRead
  <2> QED BY <1>0, <1>3, <2>1, <2>2, <2>3
<1>5. PageIsKnown'
  BY <1>4 DEF PageIsKnown
<1>6. ASSUME "reused" \notin snags' PROVE PageIsTheKits'
  <2> SUFFICES ASSUME NEW v \in Windows, shell'.dialogs[v].dom
               PROVE  /\ ParentIds(shell', v) = {}
                      /\ desk'.wins[v].open => desk'.wins[v].parent = NoWindow
                      /\ desk'.wins[v].open \/ ComesClose(v)'
    BY DEF PageIsTheKits
  <2>1. ParentIds(shell', v) = {} /\ ~Closes(m, v)
    BY <1>6
  <2>2. CASE shell.dialogs[v].dom
    <3>1. /\ desk.wins[v].open => desk.wins[v].parent = NoWindow
          /\ desk.wins[v].open \/ ComesClose(v)
      BY <1>6, <2>2 DEF DialogsInv, PageIsTheKits
    <3>2. ComesClose(v) => ComesClose(v)'
      BY <2>1, ComingRead
    <3> QED BY <1>0, <2>1, <3>1, <3>2
  <2>3. CASE Creates(m, v) /\ m[4] = NoWindow
    BY <1>0, <1>3, <2>1, <2>3
  <2> QED BY <2>2, <2>3
<1>7. ASSUME "reused" \notin snags' PROVE DialogsSettle'
  <2> SUFFICES ASSUME NEW v \in Windows, IsTop(v)'
               PROVE  ComesCreated(v)' \/ GoesClose(v)' \/ (IsOpen(shell', v) /\ IsPainted(v)')
    BY DEF DialogsSettle
  <2>1. IsTop(v)
    BY <1>0 DEF IsTop
  <2>2. ComesCreated(v) \/ GoesClose(v) \/ (IsOpen(shell, v) /\ IsPainted(v))
    BY <1>7, <2>1 DEF DialogsInv, DialogsSettle
  <2>3. (ComesCreated(v) => Creates(m, v) \/ ComesCreated(v)') /\ (GoesClose(v) => GoesClose(v)')
    BY ComingRead
  <2> QED BY <1>7, <2>1, <2>2, <2>3
<1>8. ASSUME snags' \cap {"reused", "relaunched"} = {} PROVE ChildrenSettle'
  <2> SUFFICES ASSUME NEW c \in Windows, NEW w \in Windows, HangsOn(c, w)'
               PROVE  ComesCreated(c)' \/ GoesClose(w)' \/ Attached(c, w)'
    BY DEF ChildrenSettle
  <2>1. HangsOn(c, w)
    BY <1>0 DEF HangsOn
  <2>2. ComesCreated(c) \/ GoesClose(w) \/ Attached(c, w)
    BY <1>8, <2>1 DEF DialogsInv, ChildrenSettle
  <2>3. (ComesCreated(c) => Creates(m, c) \/ ComesCreated(c)') /\ (GoesClose(w) => GoesClose(w)')
    BY ComingRead
  <2> QED BY <1>8, <2>1, <2>2, <2>3
<1> QED BY <1>1, <1>5, <1>6, <1>7, <1>8 DEF PageInv

\* An entry that is not touched, and of a window for which nothing is read.
LEMMA EntryKept ==
    ASSUME DialogsInv, NEW m, Reads(m), NEW v \in Windows, ~Paints(m, v), ~Wakes(m, v),
           shell'.dialogs[v].known = shell.dialogs[v].known,
           shell'.dialogs[v].dom = shell.dialogs[v].dom,
           shell'.dialogs[v].shown = shell.dialogs[v].shown,
           shell'.dialogs[v].drawn = shell.dialogs[v].drawn
    PROVE  IsOpen(shell, v) /\ IsPainted(v) => IsOpen(shell', v) /\ IsPainted(v)'
<1>1. IsOpen(shell, v) => IsOpen(shell', v)
  BY DEF IsOpen
<1>2. PICK l : l = Seen(shell.dialogs[v])
  OBVIOUS
<1>3. IsPainted(v) => PaintedOn(v, l)
  BY <1>2, Zenon DEF IsPainted, Seen
<1>4. PaintedOn(v, l) => PaintedOn(v, l)'
  BY PaintedRead
<1>5. l = IF shell'.dialogs[v].shown THEN shell'.dialogs[v].drawn ELSE NoLook
  BY <1>2 DEF Seen
<1>6. PaintedOn(v, l)' => IsPainted(v)'
  BY <1>5, Zenon DEF IsPainted
<1> QED BY <1>1, <1>3, <1>4, <1>6

LEMMA ChildKept ==
    ASSUME DialogsInv, NEW m, Reads(m), NEW c \in Windows, NEW w \in Windows, Attached(c, w),
           ~Paints(m, c), ~Wakes(m, c),
           ParentIds(shell', c) \subseteq ParentIds(shell, c),
           shell'.dialogs[w].known = shell.dialogs[w].known,
           shell'.dialogs[w].dom = shell.dialogs[w].dom,
           shell'.dialogs[w].child = shell.dialogs[w].child,
           shell'.dialogs[w].floating = shell.dialogs[w].floating,
           shell'.dialogs[w].floatDrawn = shell.dialogs[w].floatDrawn
    PROVE  Attached(c, w)'
<1>1. IsOpen(shell', w) /\ shell'.dialogs[w].child = c /\ shell'.dialogs[w].floating = c
  BY DEF Attached, IsOpen
<1>2. w \in ParentIds(shell', c) /\ w # NoWindow
  BY <1>1, NoWindowIs DEF ParentIds, IsOpen
<1>3. GetParentId(shell', c) = w
  BY <1>2, ParentStays DEF Attached
<1>4. PICK l : l = shell.dialogs[w].floatDrawn
  OBVIOUS
<1>5. PaintedOn(c, l)
  BY <1>4, Zenon DEF Attached
<1>6. PaintedOn(c, l)'
  BY <1>5, PaintedRead
<1>7. l = shell'.dialogs[w].floatDrawn
  BY <1>4
<1> QED BY <1>1, <1>3, <1>6, <1>7, Zenon DEF Attached

\* An entry of the page.
WithEntry(s, w, e, k) == [s EXCEPT !.dialogs[w] = e, !.current = k]

LEMMA EntryIs ==
    ASSUME NEW s \in Shells, NEW w \in Windows, NEW e \in Entries, NEW k \in AnyWindow, NEW r,
           r = WithEntry(s, w, e, k)
    PROVE  /\ r \in Shells /\ r.dialogs[w] = e /\ r.current = k /\ r.pngs = s.pngs
           /\ \A v \in Windows : v # w => r.dialogs[v] = s.dialogs[v]
<1>1. PICK x : x = [s.dialogs EXCEPT ![w] = e]
  OBVIOUS
<1>2. s.dialogs \in [Windows -> Entries]
  BY DEF Shells
<1>3. /\ x \in [Windows -> Entries] /\ x[w] = e
      /\ \A v \in Windows : v # w => x[v] = s.dialogs[v]
  BY <1>1, <1>2
<1>4. r.dialogs = x /\ r.current = k /\ r.pngs = s.pngs
  BY <1>1 DEF Shells, WithEntry
<1>5. r = [dialogs |-> x, current |-> k, pngs |-> s.pngs]
  BY <1>1, <1>4 DEF Shells, WithEntry
<1> QED BY <1>3, <1>4, <1>5 DEF Shells

LEMMA NoDialogIs ==
    /\ NoDialog \in Entries /\ ~NoDialog.known /\ ~NoDialog.dom /\ NoDialog.child = NoWindow
    /\ NoDialog.floating = NoWindow /\ ~NoDialog.shown /\ ~NoDialog.titled
  BY NoWindowIs DEF NoDialog, Entries, AnyLook

\* A message has come.
Hears(m) ==
    /\ desk' = desk /\ Len(deskOut) \in Nat \ {0} /\ m = deskOut[1] /\ Moves(deskOut, deskOut')
    /\ deskOut' \in Seq(FromDesk)

LEMMA HearsIs ==
    ASSUME DialogsInv, NEW m \in FromDesk, Hears(m), shell' \in Shells, deskIn' \in Seq(ToDesk),
           Goes(deskIn, deskIn')
    PROVE  Reads(m) /\ DialogsShape'
  BY DEF DialogsInv, DialogsShape, Reads, Hears

\* A close that is read is of a window that is gone, a size that is read is of a dialog.
LEMMA HeardIs ==
    ASSUME DialogsInv, NEW m \in FromDesk, Hears(m), NEW v \in Windows
    PROVE  /\ Closes(m, v) => ~desk.wins[v].open
           /\ m[1] = "size_changed" /\ m[2] = v /\ desk.wins[v].open => desk.wins[v].parent = NoWindow
           /\ Creates(m, v) /\ desk.wins[v].open => desk.wins[v].parent = m[4]
           /\ Creates(m, v) => ComesCreated(v)
<1>1. 1 \in 1..Len(deskOut) /\ m = deskOut[1] /\ DeskInv
  BY DEF Hears, DialogsInv
<1>2. Closes(m, v) => ~desk.wins[v].open
  BY <1>1 DEF DeskInv, ClosedForGood
<1>3. m[1] = "size_changed" /\ m[2] = v /\ desk.wins[v].open => desk.wins[v].parent = NoWindow
  BY <1>1 DEF DeskInv, ResizedIsTop
<1>4. Creates(m, v) /\ desk.wins[v].open => desk.wins[v].parent = m[4]
  BY <1>1 DEF DeskInv, Announced
<1>5. Creates(m, v) => ComesCreated(v)
  BY <1>1 DEF ComesCreated
<1> QED BY <1>2, <1>3, <1>4, <1>5

\* What the browser sends.
LEMMA GoesOn ==
    ASSUME NEW q \in Seq(ToDesk), NEW r \in Seq(ToDesk), NEW t \in Seq(ToDesk), Goes(q, r), Goes(r, t)
    PROVE  Goes(q, t)
<1>1. Len(q) \in Nat /\ Len(r) \in Nat /\ Len(t) \in Nat
  OBVIOUS
<1> QED BY <1>1 DEF Goes

LEMMA AsksIs ==
    ASSUME NEW q \in Seq(ToDesk), NEW w \in Windows, NEW r, r = q \o PaintWindow(w)
    PROVE  r \in Seq(ToDesk) /\ Goes(q, r) /\ \E i \in 1..Len(r) : Asks(r[i], w)
<1>1. PICK m : m = <<"paintwindow", w>>
  OBVIOUS
<1>2. m \in ToDesk /\ Asks(m, w)
  BY <1>1 DEF ToDesk, Asks
<1>3. r = q \o <<m>>
  BY <1>1 DEF PaintWindow
<1>4. r \in Seq(ToDesk) /\ Adds(q, r, m)
  BY <1>2, <1>3, ConcatAdds
<1>5. Len(r) \in 1..Len(r) /\ r[Len(r)] = m
  BY <1>4 DEF Adds
<1> QED BY <1>2, <1>4, <1>5 DEF Adds

LEMMA ClosePopUpIs ==
    ASSUME NEW s \in Shells, NEW q \in Seq(ToDesk), NEW r, r = q \o SendClosePopUp(s)
    PROVE  /\ r \in Seq(ToDesk) /\ Goes(q, r)
           /\ IsPopUp(s) => s.current \in Windows /\ \E i \in 1..Len(r) : Closes(r[i], s.current)
<1>1. CASE IsPopUp(s)
  <2>1. s.current \in Windows
    BY <1>1 DEF IsPopUp, IsOpen
  <2>2. PICK m : m = <<"close", s.current>>
    OBVIOUS
  <2>3. m \in ToDesk /\ Closes(m, s.current)
    BY <2>1, <2>2 DEF ToDesk, Closes
  <2>4. r = q \o <<m>>
    BY <1>1, <2>2 DEF SendClosePopUp
  <2>5. r \in Seq(ToDesk) /\ Adds(q, r, m)
    BY <2>3, <2>4, ConcatAdds
  <2>6. Len(r) \in 1..Len(r) /\ r[Len(r)] = m
    BY <2>5 DEF Adds
  <2> QED BY <2>1, <2>3, <2>5, <2>6 DEF Adds
<1>2. CASE ~IsPopUp(s)
  <2>1. r = q
    BY <1>2 DEF SendClosePopUp
  <2> QED BY <1>2, <2>1 DEF Goes
<1> QED BY <1>1, <1>2

\* _launchDialog
LEMMA WithoutPopUpIs ==
    ASSUME NEW s \in Shells, NEW r, r = WithoutPopUp(s)
    PROVE  /\ r \in Shells /\ r.pngs = s.pngs
           /\ IsPopUp(s) => s.current \in Windows /\ r.current = NoWindow
           /\ \A v \in Windows : r.dialogs[v] = IF IsPopUp(s) /\ v = s.current THEN NoDialog ELSE s.dialogs[v]
<1>1. CASE IsPopUp(s)
  <2>1. PICK q : q = s.current
    OBVIOUS
  <2>2. q \in Windows
    BY <1>1, <2>1 DEF IsPopUp, IsOpen
  <2>3. r = WithEntry(s, q, NoDialog, NoWindow)
    BY <1>1, <2>1 DEF WithoutPopUp, OnDialogClose, WithEntry
  <2>4. /\ r \in Shells /\ r.dialogs[q] = NoDialog /\ r.pngs = s.pngs /\ r.current = NoWindow
        /\ \A v \in Windows : v # q => r.dialogs[v] = s.dialogs[v]
    BY <2>2, <2>3, NoDialogIs, NoWindowIs, EntryIs
  <2> QED BY <1>1, <2>1, <2>2, <2>4
<1>2. CASE ~IsPopUp(s)
  BY <1>2 DEF WithoutPopUp
<1> QED BY <1>1, <1>2

LEMMA LaunchIs ==
    ASSUME NEW s \in Shells, NEW w \in Windows, NEW titled \in BOOLEAN, NEW r,
           r = LaunchDialog(s, w, titled)
    PROVE  /\ r \in Shells /\ r.pngs = s.pngs /\ r.current = w
           /\ r.dialogs[w].known /\ r.dialogs[w].dom /\ r.dialogs[w].child = NoWindow
           /\ r.dialogs[w].titled = titled
           /\ \A v \in Windows : v # w =>
                 r.dialogs[v] = IF IsPopUp(s) /\ v = s.current THEN NoDialog ELSE s.dialogs[v]
<1>1. PICK t : t = WithoutPopUp(s)
  OBVIOUS
<1>2. /\ t \in Shells /\ t.pngs = s.pngs
      /\ \A v \in Windows : t.dialogs[v] = IF IsPopUp(s) /\ v = s.current THEN NoDialog ELSE s.dialogs[v]
  BY <1>1, WithoutPopUpIs
<1>3. PICK e : e = [NoDialog EXCEPT !.known = TRUE, !.titled = titled, !.dom = TRUE]
  OBVIOUS
<1>4. e \in Entries /\ e.known /\ e.dom /\ e.child = NoWindow /\ e.titled = titled
  BY <1>3, NoDialogIs DEF NoDialog, Entries
<1>5. r = WithEntry(t, w, e, w)
  BY <1>1, <1>3, Zenon DEF LaunchDialog, WithEntry
<1>6. /\ r \in Shells /\ r.dialogs[w] = e /\ r.pngs = t.pngs /\ r.current = w
      /\ \A v \in Windows : v # w => r.dialogs[v] = t.dialogs[v]
  BY <1>2, <1>4, <1>5, NoWindowIs, EntryIs
<1> QED BY <1>2, <1>4, <1>6

LEMMA LaunchedPage ==
    ASSUME DialogsInv, NEW m \in FromDesk, Hears(m), NEW w \in Windows, m[2] = w, snags \subseteq snags',
           NEW s \in Shells, s.current = shell.current,
           \A v \in Windows : v # w => s.dialogs[v] = shell.dialogs[v],
           NEW titled \in BOOLEAN, shell' = LaunchDialog(s, w, titled),
           deskIn' = (deskIn \o SendClosePopUp(s)) \o PaintWindow(w),
           \/ /\ m[1] = "created" /\ m[4] = NoWindow
              /\ "reused" \notin snags' => ParentIds(shell, w) = {}
           \/ /\ m[1] = "size_changed" /\ IsOpen(shell, w)
              /\ "relaunched" \notin snags' => shell.dialogs[w].floating = NoWindow
    PROVE  DialogsShape' /\ DeskInv' /\ PageInv'
<1>0. DialogsShape /\ DeskInv /\ shell \in Shells /\ deskIn \in Seq(ToDesk) /\ desk' = desk
  BY DEF DialogsInv, DialogsShape, Hears
<1>1. PICK q : q = deskIn \o SendClosePopUp(s)
  OBVIOUS
<1>2. /\ q \in Seq(ToDesk) /\ Goes(deskIn, q)
      /\ IsPopUp(s) => s.current \in Windows /\ \E i \in 1..Len(q) : Closes(q[i], s.current)
  BY <1>0, <1>1, ClosePopUpIs
<1>3. deskIn' = q \o PaintWindow(w)
  BY <1>1
<1>4. deskIn' \in Seq(ToDesk) /\ Goes(q, deskIn') /\ \E i \in 1..Len(deskIn') : Asks(deskIn'[i], w)
  BY <1>2, <1>3, AsksIs
<1>5. Goes(deskIn, deskIn')
  BY <1>0, <1>2, <1>4, GoesOn
<1>6. IsPopUp(s) => GoesClose(s.current)'
  <2> SUFFICES ASSUME IsPopUp(s) PROVE \E i \in 1..Len(deskIn') : Closes(deskIn'[i], s.current)
    BY DEF GoesClose, Closes
  <2>1. PICK i \in 1..Len(q) : Closes(q[i], s.current)
    BY <1>2
  <2>2. i \in 1..Len(deskIn') /\ deskIn'[i] = q[i]
    BY <1>2, <1>4 DEF Goes
  <2> QED BY <2>1, <2>2
<1>7. /\ shell' \in Shells
      /\ shell'.dialogs[w].known /\ shell'.dialogs[w].dom /\ shell'.dialogs[w].child = NoWindow
      /\ \A v \in Windows : v # w =>
            shell'.dialogs[v] = IF IsPopUp(s) /\ v = s.current THEN NoDialog ELSE s.dialogs[v]
  BY LaunchIs
<1>8. Reads(m) /\ DialogsShape'
  BY <1>4, <1>5, <1>7, HearsIs
<1>9. ASSUME NEW v \in Windows, v # w
      PROVE  \/ IsPopUp(s) /\ v = s.current /\ shell'.dialogs[v] = NoDialog /\ GoesClose(v)'
             \/ shell'.dialogs[v] = shell.dialogs[v]
  BY <1>6, <1>7, <1>9
<1>10. m[1] # "close" /\ m[1] # "windowpaint" /\ m[1] # "invalidate"
  OBVIOUS
<1>11. \A v \in Windows : ~Closes(m, v) /\ ~Paints(m, v) /\ (v # w => ~Wakes(m, v) /\ ~Creates(m, v))
  BY <1>10 DEF Closes, Paints, Wakes, Creates
<1>12. ~NoDialog.dom /\ ~NoDialog.known /\ NoDialog.child = NoWindow
  BY NoDialogIs
<1>13. ASSUME NEW v \in Windows, shell'.dialogs[v].dom
       PROVE  shell'.dialogs[v].known /\ (shell.dialogs[v].dom \/ (Creates(m, v) /\ m[4] = NoWindow))
  <2>1. CASE v = w
    <3>1. m[1] = "size_changed" => shell.dialogs[w].dom
      BY DEF IsOpen
    <3> QED BY <1>7, <2>1, <3>1 DEF Creates
  <2>2. CASE v # w
    <3>1. shell'.dialogs[v] = shell.dialogs[v]
      BY <1>9, <1>12, <1>13, <2>2
    <3> QED BY <1>13, <3>1 DEF DialogsInv, PageIsKnown
  <2> QED BY <2>1, <2>2
<1>14. ASSUME NEW v \in Windows PROVE ParentIds(shell', v) \subseteq ParentIds(shell, v)
  <2>1. \A u \in Windows : shell'.dialogs[u].child = v => shell'.dialogs[u] = shell.dialogs[u]
    BY <1>7, <1>9, <1>12, NoWindowIs
  <2> QED BY <1>0, <1>7, <2>1, ParentIdsShrink
<1>15. ASSUME "reused" \notin snags', NEW v \in Windows, shell'.dialogs[v].dom
       PROVE  ParentIds(shell', v) = {}
  <2>1. CASE shell.dialogs[v].dom
    <3>1. ParentIds(shell, v) = {}
      BY <1>15, <2>1 DEF DialogsInv, PageIsTheKits
    <3> QED BY <1>14, <3>1
  <2>2. CASE ~shell.dialogs[v].dom
    <3>1. Creates(m, v)
      BY <1>13, <1>15, <2>2
    <3>2. v = w /\ m[1] = "created"
      BY <1>11, <3>1 DEF Creates
    <3>3. ParentIds(shell, v) = {}
      BY <1>15, <3>2
    <3> QED BY <1>14, <3>3
  <2> QED BY <2>1, <2>2
<1>16. ASSUME NEW v \in Windows, IsTop(v)
       PROVE  /\ Creates(m, v) => IsOpen(shell', v) /\ IsPainted(v)'
              /\ IsOpen(shell, v) /\ IsPainted(v) =>
                    GoesClose(v)' \/ (IsOpen(shell', v) /\ IsPainted(v)')
  <2>1. CASE v = w
    <3>1. IsOpen(shell', v)
      BY <1>7, <2>1 DEF IsOpen
    <3>2. PICK l : l = IF shell'.dialogs[v].shown THEN shell'.dialogs[v].drawn ELSE NoLook
      OBVIOUS
    <3>3. PaintedOn(v, l)'
      BY <1>4, <2>1, AskedPaints
    <3>4. IsPainted(v)'
      BY <3>2, <3>3, Zenon DEF IsPainted
    <3> QED BY <3>1, <3>4
  <2>2. CASE v # w
    <3>1. ~Creates(m, v) /\ ~Paints(m, v) /\ ~Wakes(m, v)
      BY <1>11, <2>2
    <3>2. CASE shell'.dialogs[v] = shell.dialogs[v]
      BY <1>8, <3>1, <3>2, EntryKept
    <3> QED BY <1>9, <2>2, <3>1, <3>2
  <2> QED BY <2>1, <2>2
<1>17. ASSUME snags' \cap {"reused", "relaunched"} = {}, NEW c \in Windows, NEW p \in Windows, HangsOn(c, p)
       PROVE  /\ Creates(m, c) => GoesClose(p)' \/ Attached(c, p)'
              /\ Attached(c, p) => ComesCreated(c)' \/ GoesClose(p)' \/ Attached(c, p)'
  <2>0. desk.wins[c].open /\ desk.wins[c].parent # NoWindow
    BY <1>17 DEF HangsOn
  <2>1. ~Creates(m, c)
    <3>1. Creates(m, c) => m[4] = NoWindow
      BY DEF Creates
    <3> QED BY <2>0, <3>1, HeardIs
  <2>2. ~Wakes(m, c)
    <3>1. Wakes(m, c) => m[1] = "size_changed" /\ m[2] = c
      BY DEF Wakes
    <3> QED BY <2>0, <3>1, HeardIs
  <2>3. ASSUME Attached(c, p) PROVE GoesClose(p)' \/ Attached(c, p)'
    <3>1. p # w
      <4>1. m[1] = "size_changed" => p # w
        BY <1>17, <2>3, NoWindowIs DEF Attached
      <4>2. m[1] = "created" => p # w
        <5>1. m[1] = "created" => ComesCreated(w)
          BY HeardIs DEF Creates
        <5>2. shell.dialogs[p].dom
          BY <2>3 DEF Attached, IsOpen
        <5> QED BY <5>1, <5>2 DEF DialogsInv, PageIsKnown
      <4> QED BY <4>1, <4>2
    <3>2. CASE shell'.dialogs[p] = shell.dialogs[p]
      BY <1>8, <1>11, <1>14, <2>2, <2>3, <3>2, ChildKept
    <3> QED BY <1>9, <3>1, <3>2
  <2> QED BY <2>1, <2>3
<1>18. "reused" \notin snags' => \A v \in Windows : shell'.dialogs[v].dom =>
              ParentIds(shell', v) = {} /\ ~Closes(m, v)
  BY <1>11, <1>15
<1>19. DeskInv' /\ PageInv'
  BY <1>8, <1>13, <1>16, <1>17, <1>18, ReadsPage
<1> QED BY <1>8, <1>19

LEMMA CreatedDialogPage ==
    ASSUME DialogsInv, NEW m \in FromDesk, Hears(m), m[1] = "created", m[4] = NoWindow,
           OnCreatedDialog(m[2], m[3])
    PROVE  DialogsShape' /\ DeskInv' /\ PageInv'
<1>1. PICK w \in Windows : w = m[2]
  BY FromDeskIs
<1>2. PICK titled \in BOOLEAN : titled = m[3]
  BY FromDeskIs
<1>3. shell \in Shells /\ shell' = LaunchDialog(shell, w, titled)
  BY <1>1, <1>2 DEF OnCreatedDialog, DialogsInv, DialogsShape
<1>4. deskIn' = (deskIn \o SendClosePopUp(shell)) \o PaintWindow(w)
  BY <1>1 DEF OnCreatedDialog
<1>5. snags \subseteq snags' /\ ("reused" \notin snags' => GetParentId(shell, w) = NoWindow)
  BY <1>1 DEF OnCreatedDialog
<1>6. "reused" \notin snags' => ParentIds(shell, w) = {}
  BY <1>5, ParentIs
<1> QED BY <1>1, <1>3, <1>4, <1>5, <1>6, LaunchedPage

LEMMA SameShell ==
    ASSUME DialogsInv, NEW m \in FromDesk, Hears(m), shell' = shell, deskIn' = deskIn
    PROVE  Reads(m) /\ DialogsShape' /\ Goes(deskIn, deskIn')
<1>1. shell' \in Shells /\ deskIn' \in Seq(ToDesk) /\ Goes(deskIn, deskIn')
  BY DEF DialogsInv, DialogsShape, Goes
<1> QED BY <1>1, HearsIs

\* What is read about a window that is not on the page.
LEMMA UnheededPage ==
    ASSUME DialogsInv, NEW m \in FromDesk, Hears(m), shell' = shell, deskIn' = deskIn, snags' = snags,
           m[1] \in {"size_changed", "close", "cursor_visible"},
           m[1] = "close" => GetParentId(shell, m[2]) = NoWindow,
           m[1] \in {"size_changed", "close"} => ~IsOpen(shell, m[2])
    PROVE  DialogsShape' /\ DeskInv' /\ PageInv'
<1>1. Reads(m) /\ DialogsShape'
  BY SameShell
<1>2. ASSUME NEW v \in Windows, shell'.dialogs[v].dom
      PROVE  shell'.dialogs[v].known /\ shell.dialogs[v].dom
  BY <1>2 DEF DialogsInv, PageIsKnown
<1>3. ASSUME "reused" \notin snags', NEW v \in Windows, shell'.dialogs[v].dom
      PROVE  ParentIds(shell', v) = {} /\ ~Closes(m, v)
  <2>1. IsOpen(shell, v)
    BY <1>2, <1>3 DEF IsOpen
  <2>2. ~Closes(m, v)
    BY <2>1 DEF Closes
  <2> QED BY <1>3, <2>2 DEF DialogsInv, PageIsTheKits
<1>4. ASSUME NEW v \in Windows, desk.wins[v].open
      PROVE  ~Paints(m, v) /\ ~Creates(m, v)
  BY DEF Paints, Creates
<1>5. ASSUME NEW v \in Windows, IsTop(v), IsOpen(shell, v) /\ IsPainted(v)
      PROVE  IsOpen(shell', v) /\ IsPainted(v)'
  <2>1. ~Wakes(m, v) /\ ~Paints(m, v)
    BY <1>4, <1>5 DEF Wakes, IsTop
  <2> QED BY <1>1, <1>5, <2>1, EntryKept
<1>6. ASSUME NEW c \in Windows, NEW p \in Windows, HangsOn(c, p), Attached(c, p)
      PROVE  Attached(c, p)'
  <2>1. ~Paints(m, c) /\ desk.wins[c].open /\ desk.wins[c].parent # NoWindow
    BY <1>4, <1>6 DEF HangsOn
  <2>2. ~Wakes(m, c)
    <3>1. Wakes(m, c) => m[1] = "size_changed" /\ m[2] = c
      BY DEF Wakes
    <3> QED BY <2>1, <3>1, HeardIs
  <2> QED BY <1>1, <1>6, <2>1, <2>2, ChildKept
<1>7. ASSUME NEW v \in Windows, IsTop(v)
      PROVE  /\ Creates(m, v) => IsOpen(shell', v) /\ IsPainted(v)'
             /\ IsOpen(shell, v) /\ IsPainted(v) =>
                    GoesClose(v)' \/ (IsOpen(shell', v) /\ IsPainted(v)')
  BY <1>4, <1>5, <1>7 DEF IsTop
<1>8. ASSUME NEW c \in Windows, NEW w \in Windows, HangsOn(c, w)
      PROVE  /\ Creates(m, c) => GoesClose(w)' \/ Attached(c, w)'
             /\ Attached(c, w) => ComesCreated(c)' \/ GoesClose(w)' \/ Attached(c, w)'
  BY <1>4, <1>6, <1>8 DEF HangsOn
<1> QED BY <1>1, <1>2, <1>3, <1>7, <1>8, ReadsPage

LEMMA SizeChangedPage ==
    ASSUME DialogsInv, NEW m \in FromDesk, Hears(m), m[1] = "size_changed", OnSizeChanged(m[2])
    PROVE  DialogsShape' /\ DeskInv' /\ PageInv'
<1>1. PICK w \in Windows : w = m[2]
  BY FromDeskIs
<1>2. CASE ~IsOpen(shell, w) /\ UNCHANGED <<shell, deskIn, snags>>
  BY <1>1, <1>2, UnheededPage
<1>3. PICK titled : titled = shell.dialogs[w].titled
  OBVIOUS
<1>4. PICK e : e = [shell.dialogs[w] EXCEPT !.dom = FALSE]
  OBVIOUS
<1>5. shell \in Shells /\ shell.dialogs[w] \in Entries
  BY DEF DialogsInv, DialogsShape, Shells
<1>6. e \in Entries /\ titled \in BOOLEAN /\ shell.current \in AnyWindow
  BY <1>3, <1>4, <1>5 DEF Entries, Shells
<1>7. PICK down : down = [shell EXCEPT !.dialogs[w].dom = FALSE]
  OBVIOUS
<1>8. down = WithEntry(shell, w, e, shell.current)
  BY <1>4, <1>5, <1>7 DEF WithEntry, Shells
<1>9. down \in Shells /\ down.current = shell.current /\ \A v \in Windows : v # w => down.dialogs[v] = shell.dialogs[v]
  BY <1>5, <1>6, <1>8, EntryIs
<1>10. CASE /\ IsOpen(shell, w)
            /\ shell' = LaunchDialog(down, w, titled)
            /\ deskIn' = deskIn \o SendClosePopUp(down) \o PaintWindow(w)
            /\ snags' = snags \cup (IF shell.dialogs[w].floating # NoWindow THEN {"relaunched"} ELSE {})
  <2>1. deskIn' = (deskIn \o SendClosePopUp(down)) \o PaintWindow(w) /\ shell' = LaunchDialog(down, w, titled)
    BY <1>10
  <2>2. snags \subseteq snags' /\ ("relaunched" \notin snags' => shell.dialogs[w].floating = NoWindow)
    BY <1>10
  <2> QED BY <1>1, <1>6, <1>9, <1>10, <2>1, <2>2, LaunchedPage
<1> QED BY <1>1, <1>2, <1>3, <1>7, <1>10, Zenon DEF OnSizeChanged

LEMMA InvalidatePage ==
    ASSUME DialogsInv, NEW m \in FromDesk, Hears(m), m[1] = "invalidate", OnInvalidate(m[2])
    PROVE  DialogsShape' /\ DeskInv' /\ PageInv'
<1>1. PICK w \in Windows : w = m[2]
  BY FromDeskIs
<1>2. shell' = shell /\ snags' = snags /\ shell \in Shells /\ deskIn \in Seq(ToDesk)
  BY DEF OnInvalidate, DialogsInv, DialogsShape
<1>3. /\ deskIn' \in Seq(ToDesk) /\ Goes(deskIn, deskIn')
      /\ IsOpen(shell, w) \/ GetParentId(shell, w) # NoWindow =>
            \E i \in 1..Len(deskIn') : Asks(deskIn'[i], w)
  <2>1. CASE IsOpen(shell, w) \/ GetParentId(shell, w) # NoWindow
    <3>1. deskIn' = deskIn \o PaintWindow(w)
      BY <1>1, <2>1 DEF OnInvalidate
    <3> QED BY <1>2, <3>1, AsksIs
  <2>2. CASE ~(IsOpen(shell, w) \/ GetParentId(shell, w) # NoWindow)
    <3>1. deskIn' = deskIn
      BY <1>1, <2>2 DEF OnInvalidate
    <3> QED BY <1>2, <2>2, <3>1 DEF Goes
  <2> QED BY <2>1, <2>2
<1>4. Reads(m) /\ DialogsShape'
  BY <1>2, <1>3, HearsIs
<1>5. \A v \in Windows : ~Closes(m, v) /\ ~Creates(m, v) /\ ~Paints(m, v) /\ (v # w => ~Wakes(m, v))
  BY <1>1 DEF Closes, Creates, Paints, Wakes
<1>6. ASSUME NEW v \in Windows, shell'.dialogs[v].dom
      PROVE  shell'.dialogs[v].known /\ shell.dialogs[v].dom
  BY <1>2, <1>6 DEF DialogsInv, PageIsKnown
<1>7. ASSUME "reused" \notin snags', NEW v \in Windows, shell'.dialogs[v].dom
      PROVE  ParentIds(shell', v) = {} /\ ~Closes(m, v)
  BY <1>2, <1>5, <1>7 DEF DialogsInv, PageIsTheKits
<1>8. ASSUME NEW v \in Windows, IsOpen(shell, v) /\ IsPainted(v)
      PROVE  IsOpen(shell', v) /\ IsPainted(v)'
  <2>1. CASE v = w
    <3>1. IsOpen(shell', v)
      BY <1>2, <1>8 DEF IsOpen
    <3>2. PICK l : l = IF shell'.dialogs[v].shown THEN shell'.dialogs[v].drawn ELSE NoLook
      OBVIOUS
    <3>3. PaintedOn(v, l)'
      BY <1>3, <1>8, <2>1, AskedPaints
    <3>4. IsPainted(v)'
      BY <3>2, <3>3, Zenon DEF IsPainted
    <3> QED BY <3>1, <3>4
  <2>2. CASE v # w
    BY <1>2, <1>4, <1>5, <1>8, <2>2, EntryKept
  <2> QED BY <2>1, <2>2
<1>9. ASSUME NEW c \in Windows, NEW p \in Windows, HangsOn(c, p), Attached(c, p)
      PROVE  Attached(c, p)'
  <2>1. CASE c = w
    <3>1. /\ IsOpen(shell', p) /\ shell'.dialogs[p].child = c /\ shell'.dialogs[p].floating = c
          /\ GetParentId(shell', c) = p
      BY <1>2, <1>9 DEF Attached
    <3>2. GetParentId(shell, w) # NoWindow
      BY <1>9, <2>1, NoWindowIs DEF Attached
    <3>3. PICK l : l = shell'.dialogs[p].floatDrawn
      OBVIOUS
    <3>4. PaintedOn(c, l)'
      BY <1>3, <2>1, <3>2, AskedPaints
    <3> QED BY <3>1, <3>3, <3>4, Zenon DEF Attached
  <2>2. CASE c # w
    BY <1>2, <1>4, <1>5, <1>9, <2>2, ChildKept
  <2> QED BY <2>1, <2>2
<1>10. DeskInv' /\ PageInv'
  BY <1>2, <1>4, <1>5, <1>6, <1>7, <1>8, <1>9, ReadsPage
<1> QED BY <1>4, <1>10

LEMMA CursorVisiblePage ==
    ASSUME DialogsInv, NEW m \in FromDesk, Hears(m), m[1] = "cursor_visible", OnCursorVisible(m[2], m[3])
    PROVE  DialogsShape' /\ DeskInv' /\ PageInv'
<1>1. PICK w \in Windows : w = m[2]
  BY FromDeskIs
<1>2. PICK on \in BOOLEAN : on = m[3]
  BY FromDeskIs
<1>3. shell \in Shells /\ shell.dialogs[w] \in Entries /\ deskIn' = deskIn /\ snags' = snags
  BY DEF OnCursorVisible, DialogsInv, DialogsShape, Shells
<1>4. CASE ~IsOpen(shell, w)
  <2>1. shell' = shell
    BY <1>1, <1>4 DEF OnCursorVisible
  <2> QED BY <1>3, <2>1, UnheededPage
<1>5. CASE IsOpen(shell, w)
  <2>1. PICK e : e = [shell.dialogs[w] EXCEPT !.caret = on]
    OBVIOUS
  <2>2. /\ e \in Entries /\ e.known = shell.dialogs[w].known /\ e.dom = shell.dialogs[w].dom
        /\ e.shown = shell.dialogs[w].shown /\ e.drawn = shell.dialogs[w].drawn
        /\ e.child = shell.dialogs[w].child /\ e.floating = shell.dialogs[w].floating
        /\ e.floatDrawn = shell.dialogs[w].floatDrawn
    BY <1>3, <2>1 DEF Entries
  <2>3. shell' = [shell EXCEPT !.dialogs[w].caret = on]
    BY <1>1, <1>2, <1>5 DEF OnCursorVisible
  <2>4. shell' = WithEntry(shell, w, e, shell.current) /\ shell.current \in AnyWindow
    BY <1>3, <2>1, <2>3 DEF WithEntry, Shells
  <2>5. shell' \in Shells /\ shell'.dialogs[w] = e /\ \A v \in Windows : v # w => shell'.dialogs[v] = shell.dialogs[v]
    BY <1>3, <2>2, <2>4, EntryIs
  <2>6. \A v \in Windows : /\ shell'.dialogs[v].known = shell.dialogs[v].known
                           /\ shell'.dialogs[v].dom = shell.dialogs[v].dom
                           /\ shell'.dialogs[v].shown = shell.dialogs[v].shown
                           /\ shell'.dialogs[v].drawn = shell.dialogs[v].drawn
                           /\ shell'.dialogs[v].child = shell.dialogs[v].child
                           /\ shell'.dialogs[v].floating = shell.dialogs[v].floating
                           /\ shell'.dialogs[v].floatDrawn = shell.dialogs[v].floatDrawn
    BY <2>2, <2>5
  <2>7. deskIn' \in Seq(ToDesk) /\ Goes(deskIn, deskIn')
    BY <1>3 DEF DialogsInv, DialogsShape, Goes
  <2>8. Reads(m) /\ DialogsShape'
    BY <2>5, <2>7, HearsIs
  <2>9. \A v \in Windows : ~Closes(m, v) /\ ~Creates(m, v) /\ ~Paints(m, v) /\ ~Wakes(m, v)
    BY DEF Closes, Creates, Paints, Wakes
  <2>10. ASSUME NEW v \in Windows, shell'.dialogs[v].dom
         PROVE  shell'.dialogs[v].known /\ shell.dialogs[v].dom
    BY <2>6, <2>10 DEF DialogsInv, PageIsKnown
  <2>11. \A v \in Windows : ParentIds(shell', v) \subseteq ParentIds(shell, v)
    BY <1>3, <2>5, <2>6, ParentIdsShrink
  <2>12. ASSUME "reused" \notin snags', NEW v \in Windows, shell'.dialogs[v].dom
         PROVE  ParentIds(shell', v) = {} /\ ~Closes(m, v)
    <3>1. ParentIds(shell, v) = {}
      BY <1>3, <2>10, <2>12 DEF DialogsInv, PageIsTheKits
    <3> QED BY <2>9, <2>11, <3>1
  <2>13. ASSUME NEW v \in Windows, IsOpen(shell, v) /\ IsPainted(v)
         PROVE  IsOpen(shell', v) /\ IsPainted(v)'
    BY <2>6, <2>8, <2>9, <2>13, EntryKept
  <2>14. ASSUME NEW c \in Windows, NEW p \in Windows, Attached(c, p)
         PROVE  Attached(c, p)'
    BY <2>6, <2>8, <2>9, <2>11, <2>14, ChildKept
  <2>15. DeskInv' /\ PageInv'
    BY <1>3, <2>8, <2>9, <2>10, <2>12, <2>13, <2>14, ReadsPage
  <2> QED BY <2>8, <2>15
<1> QED BY <1>4, <1>5

\* The entries that a handler leaves as they are, but for what hangs on them.
SameRoots(s, r) ==
    \A v \in Windows : /\ r.dialogs[v].known = s.dialogs[v].known /\ r.dialogs[v].dom = s.dialogs[v].dom
                       /\ r.dialogs[v].shown = s.dialogs[v].shown /\ r.dialogs[v].drawn = s.dialogs[v].drawn

LEMMA CreatedChildPage ==
    ASSUME DialogsInv, NEW m \in FromDesk, Hears(m), m[1] = "created", m[4] # NoWindow,
           OnCreatedChild(m[2], m[4])
    PROVE  DialogsShape' /\ DeskInv' /\ PageInv'
<1>1. PICK w \in Windows : w = m[2]
  BY FromDeskIs
<1>2. PICK p \in Windows : p = m[4]
  BY FromDeskIs DEF AnyWindow
<1>3. shell \in Shells /\ deskIn \in Seq(ToDesk) /\ DeskInv
  BY DEF DialogsInv, DialogsShape
<1>4. /\ \A v \in Windows : ~Closes(m, v) /\ ~Paints(m, v) /\ ~Wakes(m, v) /\ (Creates(m, v) => v = w)
      /\ Creates(m, w) /\ CreatesUnder(m, w, p)
  BY <1>1, <1>2 DEF Closes, Creates, CreatesUnder, Paints, Wakes
<1>5. ASSUME NEW c \in Windows, NEW x \in Windows, HangsOn(c, x), Creates(m, c) PROVE c = w /\ x = p
  <2>1. desk.wins[c].open /\ desk.wins[c].parent = x
    BY <1>5 DEF HangsOn
  <2> QED BY <1>2, <1>4, <1>5, <2>1, HeardIs
<1>6. ASSUME NEW v \in Windows, IsTop(v) PROVE ~Creates(m, v)
  BY <1>6, HeardIs DEF IsTop
<1>7. CASE ~IsOpen(shell, p) /\ UNCHANGED <<shell, deskIn, snags>>
  <2>1. Reads(m) /\ DialogsShape'
    BY <1>7, SameShell
  <2>2. ASSUME NEW v \in Windows, shell'.dialogs[v].dom
        PROVE  shell'.dialogs[v].known /\ shell.dialogs[v].dom
    BY <1>7, <2>2 DEF DialogsInv, PageIsKnown
  <2>3. ASSUME "reused" \notin snags', NEW v \in Windows, shell'.dialogs[v].dom
        PROVE  ParentIds(shell', v) = {} /\ ~Closes(m, v)
    BY <1>4, <1>7, <2>3 DEF DialogsInv, PageIsTheKits
  <2>4. ASSUME NEW v \in Windows, IsOpen(shell, v) /\ IsPainted(v)
        PROVE  IsOpen(shell', v) /\ IsPainted(v)'
    BY <1>4, <1>7, <2>1, <2>4, EntryKept
  <2>5. ASSUME NEW c \in Windows, NEW x \in Windows, Attached(c, x)
        PROVE  Attached(c, x)'
    BY <1>4, <1>7, <2>1, <2>5, ChildKept
  <2>6. ASSUME "reused" \notin snags', NEW c \in Windows, NEW x \in Windows, HangsOn(c, x), Creates(m, c)
        PROVE  GoesClose(x)'
    <3>1. c = w /\ x = p
      BY <1>5, <2>6
    <3>2. IsTop(p)
      BY <1>3, <2>6, <3>1 DEF DeskInv, WindowsAreSound
    <3>3. ~ComesCreated(p)
      <4>1. 1 \in 1..Len(deskOut) /\ CreatesUnder(deskOut[1], w, p)
        BY <1>4 DEF Hears
      <4>2. \A j \in 1..Len(deskOut) : Creates(deskOut[j], p) => j < 1
        BY <1>3, <4>1 DEF DeskInv, AnnouncedUnder
      <4> QED BY <4>2 DEF ComesCreated
    <3>4. GoesClose(p)
      BY <1>7, <2>6, <3>2, <3>3 DEF DialogsInv, DialogsSettle
    <3> QED BY <2>1, <3>1, <3>4, ComingRead
  <2>7. DeskInv' /\ PageInv'
    BY <1>6, <1>7, <2>1, <2>2, <2>3, <2>4, <2>5, <2>6, ReadsPage
  <2> QED BY <2>1, <2>7
<1>8. CASE /\ IsOpen(shell, p)
           /\ shell' = [shell EXCEPT !.dialogs[p].child = w, !.dialogs[p].floating = w,
                                     !.dialogs[p].floatDrawn = NoLook]
           /\ deskIn' = deskIn \o PaintWindow(w)
           /\ snags' = snags \cup (IF GetParentId(shell', w) # p THEN {"reused"} ELSE {})
  <2>1. PICK e : e = [shell.dialogs[p] EXCEPT !.child = w, !.floating = w, !.floatDrawn = NoLook]
    OBVIOUS
  <2>2. shell.dialogs[p] \in Entries /\ shell.current \in AnyWindow
    BY <1>3 DEF Shells
  <2>3. /\ e \in Entries /\ e.known = shell.dialogs[p].known /\ e.dom = shell.dialogs[p].dom
        /\ e.shown = shell.dialogs[p].shown /\ e.drawn = shell.dialogs[p].drawn
        /\ e.child = w /\ e.floating = w /\ e.floatDrawn = NoLook
    BY <2>1, <2>2, NoWindowIs DEF Entries, AnyLook
  <2>4. shell' = WithEntry(shell, p, e, shell.current)
    BY <1>3, <1>8, <2>1, <2>2 DEF WithEntry, Shells
  <2>5. shell' \in Shells /\ shell'.dialogs[p] = e /\ \A v \in Windows : v # p => shell'.dialogs[v] = shell.dialogs[v]
    BY <1>3, <2>2, <2>3, <2>4, EntryIs
  <2>6. deskIn' \in Seq(ToDesk) /\ Goes(deskIn, deskIn') /\ \E i \in 1..Len(deskIn') : Asks(deskIn'[i], w)
    BY <1>3, <1>8, AsksIs
  <2>7. Reads(m) /\ DialogsShape'
    BY <2>5, <2>6, HearsIs
  <2>8. SameRoots(shell, shell')
    BY <2>3, <2>5 DEF SameRoots
  <2>9. ASSUME NEW v \in Windows, v # w PROVE ParentIds(shell', v) \subseteq ParentIds(shell, v)
    <3>1. \A u \in Windows : shell'.dialogs[u].child = v => shell'.dialogs[u] = shell.dialogs[u]
      BY <2>3, <2>5, <2>9
    <3> QED BY <1>3, <2>5, <3>1, ParentIdsShrink
  <2>10. ASSUME NEW v \in Windows, shell'.dialogs[v].dom
         PROVE  shell'.dialogs[v].known /\ shell.dialogs[v].dom /\ v # w
    <3>1. shell.dialogs[v].dom
      BY <2>8, <2>10 DEF SameRoots
    <3>2. shell.dialogs[v].known /\ ~ComesCreated(v)
      BY <3>1 DEF DialogsInv, PageIsKnown
    <3>3. ComesCreated(w)
      BY <1>4, HeardIs
    <3> QED BY <2>8, <3>1, <3>2, <3>3 DEF SameRoots
  <2>11. ASSUME "reused" \notin snags', NEW v \in Windows, shell'.dialogs[v].dom
         PROVE  ParentIds(shell', v) = {} /\ ~Closes(m, v)
    <3>1. v # w /\ shell.dialogs[v].dom
      BY <2>10, <2>11
    <3>2. "reused" \notin snags
      BY <1>8, <2>11
    <3>3. ParentIds(shell, v) = {}
      BY <3>1, <3>2 DEF DialogsInv, PageIsTheKits
    <3> QED BY <1>4, <2>9, <3>1, <3>3
  <2>12. ASSUME NEW v \in Windows, IsOpen(shell, v) /\ IsPainted(v)
         PROVE  IsOpen(shell', v) /\ IsPainted(v)'
    BY <1>4, <2>7, <2>8, <2>12, EntryKept DEF SameRoots
  <2>13. ASSUME "reused" \notin snags', NEW c \in Windows, NEW x \in Windows, HangsOn(c, x), Creates(m, c)
         PROVE  Attached(c, x)'
    <3>1. c = w /\ x = p
      BY <1>5, <2>13
    <3>2. GetParentId(shell', w) = p
      BY <1>8, <2>13
    <3>3. IsOpen(shell', p)
      BY <1>8, <2>8 DEF IsOpen, SameRoots
    <3>4. PICK l : l = shell'.dialogs[p].floatDrawn
      OBVIOUS
    <3>5. PaintedOn(w, l)'
      BY <2>6, AskedPaints
    <3>6. shell'.dialogs[p].child = w /\ shell'.dialogs[p].floating = w
      BY <2>3, <2>5
    <3> QED BY <3>1, <3>2, <3>3, <3>4, <3>5, <3>6, Zenon DEF Attached
  <2>14. ASSUME NEW c \in Windows, NEW x \in Windows, HangsOn(c, x), Attached(c, x), ~Creates(m, c)
         PROVE  ComesCreated(c)' \/ Attached(c, x)'
    <3>1. c # w
      BY <1>4, <2>14
    <3>2. CASE x = p
      <4>1. 1 \in 1..Len(deskOut) /\ CreatesUnder(deskOut[1], w, p)
        BY <1>4 DEF Hears
      <4>2. PICK j \in 1 + 1..Len(deskOut) : CreatesUnder(deskOut[j], c, p)
        BY <1>3, <2>14, <3>1, <3>2, <4>1 DEF DeskInv, AnnouncedUnder
      <4>3. j - 1 \in 1..Len(deskOut') /\ deskOut'[j - 1] = deskOut[j]
        BY <2>7, ReadsIs
      <4> QED BY <4>2, <4>3 DEF ComesCreated, CreatesUnder, Creates
    <3>3. CASE x # p
      BY <1>4, <2>5, <2>7, <2>9, <2>14, <3>1, <3>3, ChildKept
    <3> QED BY <3>2, <3>3
  <2>15. snags \subseteq snags'
    BY <1>8
  <2>16. snags' \cap {"reused", "relaunched"} = {} => \A c, x \in Windows : HangsOn(c, x) =>
              /\ Creates(m, c) => GoesClose(x)' \/ Attached(c, x)'
              /\ Attached(c, x) => ComesCreated(c)' \/ GoesClose(x)' \/ Attached(c, x)'
    BY <2>13, <2>14
  <2>17. DeskInv' /\ PageInv'
    BY <1>6, <2>7, <2>10, <2>11, <2>12, <2>15, <2>16, ReadsPage
  <2> QED BY <2>7, <2>17
<1> QED BY <1>1, <1>2, <1>7, <1>8, Zenon DEF OnCreatedChild

\* A child window is closed.
LEMMA ChildClosePage ==
    ASSUME DialogsInv, NEW m \in FromDesk, Hears(m), m[1] = "close",
           NEW p, p = GetParentId(shell, m[2]), p # NoWindow, OnDialogChildClose(p)
    PROVE  DialogsShape' /\ DeskInv' /\ PageInv'
<1>1. PICK w \in Windows : w = m[2]
  BY FromDeskIs
<1>2. p \in Windows /\ p \in ParentIds(shell, w) /\ shell.dialogs[p].child = w
  <2>1. p \in Windows /\ p \in ParentIds(shell, w)
    BY <1>1, ParentIs
  <2> QED BY <2>1 DEF ParentIds
<1>3. shell \in Shells /\ shell.dialogs[p] \in Entries /\ shell.current \in AnyWindow
  BY <1>2 DEF DialogsInv, DialogsShape, Shells
<1>4. deskIn' = deskIn /\ snags' = snags
  BY DEF OnDialogChildClose
<1>5. PICK e : e = [shell.dialogs[p] EXCEPT !.floating = NoWindow, !.floatDrawn = NoLook]
  OBVIOUS
<1>6. /\ e \in Entries /\ e.known = shell.dialogs[p].known /\ e.dom = shell.dialogs[p].dom
      /\ e.shown = shell.dialogs[p].shown /\ e.drawn = shell.dialogs[p].drawn
      /\ e.child = shell.dialogs[p].child
  BY <1>3, <1>5, NoWindowIs DEF Entries, AnyLook
<1>7. shell' = WithEntry(shell, p, e, shell.current)
  <2>1. shell' = [shell EXCEPT !.dialogs[p].floating = NoWindow, !.dialogs[p].floatDrawn = NoLook]
    BY DEF OnDialogChildClose
  <2> QED BY <1>2, <1>3, <1>5, <2>1 DEF WithEntry, Shells
<1>8. shell' \in Shells /\ shell'.dialogs[p] = e /\ \A v \in Windows : v # p => shell'.dialogs[v] = shell.dialogs[v]
  BY <1>2, <1>3, <1>6, <1>7, EntryIs
<1>9. deskIn' \in Seq(ToDesk) /\ Goes(deskIn, deskIn')
  BY <1>4 DEF DialogsInv, DialogsShape, Goes
<1>10. Reads(m) /\ DialogsShape'
  BY <1>8, <1>9, HearsIs
<1>11. SameRoots(shell, shell') /\ \A v \in Windows : shell'.dialogs[v].child = shell.dialogs[v].child
  BY <1>6, <1>8 DEF SameRoots
<1>12. \A v \in Windows : ParentIds(shell', v) \subseteq ParentIds(shell, v)
  BY <1>3, <1>8, <1>11, ParentIdsShrink DEF SameRoots
<1>13. \A v \in Windows : /\ ~Creates(m, v) /\ ~Paints(m, v) /\ ~Wakes(m, v)
                          /\ Closes(m, v) => v = w
  BY <1>1 DEF Creates, Paints, Wakes, Closes
<1>14. ASSUME NEW v \in Windows, shell'.dialogs[v].dom
       PROVE  shell'.dialogs[v].known /\ shell.dialogs[v].dom
  BY <1>11, <1>14 DEF DialogsInv, PageIsKnown, SameRoots
<1>15. ASSUME "reused" \notin snags', NEW v \in Windows, shell'.dialogs[v].dom
       PROVE  ParentIds(shell', v) = {} /\ ~Closes(m, v)
  <2>1. ParentIds(shell, v) = {}
    BY <1>4, <1>14, <1>15 DEF DialogsInv, PageIsTheKits
  <2> QED BY <1>2, <1>12, <1>13, <2>1
<1>16. ASSUME NEW v \in Windows, IsOpen(shell, v) /\ IsPainted(v)
       PROVE  IsOpen(shell', v) /\ IsPainted(v)'
  BY <1>10, <1>11, <1>13, <1>16, EntryKept DEF SameRoots
<1>17. ASSUME NEW c \in Windows, NEW x \in Windows, HangsOn(c, x), Attached(c, x)
       PROVE  Attached(c, x)'
  <2>1. desk.wins[c].open
    BY <1>17 DEF HangsOn
  <2>2. ~desk.wins[w].open
    BY <1>1, HeardIs DEF Closes
  <2>3. x # p
    BY <1>2, <1>17, <2>1, <2>2 DEF Attached
  <2> QED BY <1>8, <1>10, <1>12, <1>13, <1>17, <2>3, ChildKept
<1>18. DeskInv' /\ PageInv'
  BY <1>4, <1>10, <1>13, <1>14, <1>15, <1>16, <1>17, ReadsPage
<1> QED BY <1>10, <1>18

\* A dialog is closed.
LEMMA DialogClosePage ==
    ASSUME DialogsInv, NEW m \in FromDesk, Hears(m), m[1] = "close",
           NEW w \in Windows, w = m[2], shell' = OnDialogClose(shell, w), deskIn' = deskIn,
           snags \subseteq snags'
    PROVE  DialogsShape' /\ DeskInv' /\ PageInv'
<1>1. shell \in Shells
  BY DEF DialogsInv, DialogsShape
<1>2. shell' = WithEntry(shell, w, NoDialog, NoWindow)
  BY DEF WithEntry, OnDialogClose
<1>3. /\ shell' \in Shells /\ shell'.dialogs[w] = NoDialog
      /\ \A v \in Windows : v # w => shell'.dialogs[v] = shell.dialogs[v]
  BY <1>1, <1>2, NoDialogIs, NoWindowIs, EntryIs
<1>4. deskIn' \in Seq(ToDesk) /\ Goes(deskIn, deskIn')
  BY DEF DialogsInv, DialogsShape, Goes
<1>5. Reads(m) /\ DialogsShape'
  BY <1>3, <1>4, HearsIs
<1>6. ~desk.wins[w].open
  BY HeardIs DEF Closes
<1>7. ASSUME NEW v \in Windows PROVE ParentIds(shell', v) \subseteq ParentIds(shell, v)
  <2>1. \A u \in Windows : shell'.dialogs[u].child = v => shell'.dialogs[u] = shell.dialogs[u]
    BY <1>3, NoDialogIs, NoWindowIs
  <2> QED BY <1>1, <1>3, <2>1, ParentIdsShrink
<1>8. \A v \in Windows : /\ ~Creates(m, v) /\ ~Paints(m, v) /\ ~Wakes(m, v)
                         /\ Closes(m, v) => v = w
  BY DEF Creates, Paints, Wakes, Closes
<1>9. ASSUME NEW v \in Windows, shell'.dialogs[v].dom
      PROVE  v # w /\ shell'.dialogs[v].known /\ shell.dialogs[v].dom
  <2>1. v # w
    BY <1>3, <1>9, NoDialogIs
  <2> QED BY <1>3, <1>9, <2>1 DEF DialogsInv, PageIsKnown
<1>10. ASSUME "reused" \notin snags', NEW v \in Windows, shell'.dialogs[v].dom
       PROVE  ParentIds(shell', v) = {} /\ ~Closes(m, v)
  <2>1. ParentIds(shell, v) = {}
    BY <1>9, <1>10 DEF DialogsInv, PageIsTheKits
  <2> QED BY <1>7, <1>8, <1>9, <1>10, <2>1
<1>11. ASSUME NEW v \in Windows, IsTop(v), IsOpen(shell, v) /\ IsPainted(v)
       PROVE  IsOpen(shell', v) /\ IsPainted(v)'
  <2>1. v # w
    BY <1>6, <1>11 DEF IsTop
  <2> QED BY <1>3, <1>5, <1>8, <1>11, <2>1, EntryKept
<1>12. ASSUME NEW c \in Windows, NEW x \in Windows, HangsOn(c, x), Attached(c, x)
       PROVE  Attached(c, x)'
  <2>1. IsTop(x)
    BY <1>12 DEF DialogsInv, DeskInv, WindowsAreSound
  <2>2. x # w
    BY <1>6, <2>1 DEF IsTop
  <2> QED BY <1>3, <1>5, <1>7, <1>8, <1>12, <2>2, ChildKept
<1>13. DeskInv' /\ PageInv'
  BY <1>5, <1>8, <1>9, <1>10, <1>11, <1>12, ReadsPage
<1> QED BY <1>5, <1>13

LEMMA CloseMsgPage ==
    ASSUME DialogsInv, NEW m \in FromDesk, Hears(m), m[1] = "close", OnCloseMsg(m[2])
    PROVE  DialogsShape' /\ DeskInv' /\ PageInv'
<1>1. PICK w \in Windows : w = m[2]
  BY FromDeskIs
<1>2. PICK p : p = GetParentId(shell, w)
  OBVIOUS
<1>3. \/ p # NoWindow /\ OnDialogChildClose(p)
      \/ /\ p = NoWindow /\ IsOpen(shell, w)
         /\ shell' = OnDialogClose(shell, w)
         /\ snags' = snags \cup (IF Forgets(shell, w) THEN {"left"} ELSE {})
         /\ UNCHANGED deskIn
      \/ p = NoWindow /\ ~IsOpen(shell, w) /\ UNCHANGED <<shell, deskIn, snags>>
  BY <1>1, <1>2, Zenon DEF OnCloseMsg
<1>4. CASE p # NoWindow /\ OnDialogChildClose(p)
  BY <1>1, <1>2, <1>4, ChildClosePage
<1>5. CASE /\ shell' = OnDialogClose(shell, w)
           /\ snags' = snags \cup (IF Forgets(shell, w) THEN {"left"} ELSE {})
           /\ UNCHANGED deskIn
  <2>1. snags \subseteq snags'
    BY <1>5
  <2> QED BY <1>1, <1>5, <2>1, DialogClosePage
<1>6. CASE p = NoWindow /\ ~IsOpen(shell, w) /\ UNCHANGED <<shell, deskIn, snags>>
  BY <1>1, <1>2, <1>6, UnheededPage
<1> QED BY <1>3, <1>4, <1>5, <1>6

\* A picture comes.
LEMMA DialogPaintIs ==
    ASSUME shell \in Shells, NEW w \in Windows, NEW look \in Looks, NEW png, OnDialogPaint(w, look, png)
    PROVE  /\ shell' \in Shells /\ deskIn' = deskIn
           /\ shell'.pngs = MovedToFront(shell.pngs, look) /\ shell'.current = shell.current
           /\ \A v \in Windows :
                 /\ shell'.dialogs[v].known = shell.dialogs[v].known
                 /\ shell'.dialogs[v].dom = shell.dialogs[v].dom
                 /\ shell'.dialogs[v].titled = shell.dialogs[v].titled
                 /\ shell'.dialogs[v].child = shell.dialogs[v].child
                 /\ shell'.dialogs[v].floating = shell.dialogs[v].floating
           /\ \A v \in Windows :
                 IF GetParentId(shell, w) = NoWindow /\ v = w /\ IsOpen(shell, w)
                 THEN shell'.dialogs[v].shown /\ shell'.dialogs[v].drawn = look
                 ELSE /\ shell'.dialogs[v].shown = shell.dialogs[v].shown
                      /\ shell'.dialogs[v].drawn = shell.dialogs[v].drawn
           /\ \A v \in Windows :
                 IF v = GetParentId(shell, w) /\ shell.dialogs[v].floating # NoWindow
                 THEN shell'.dialogs[v].floatDrawn = look
                 ELSE shell'.dialogs[v].floatDrawn = shell.dialogs[v].floatDrawn
<1>1. PICK q : q = MovedToFront(shell.pngs, look)
  OBVIOUS
<1>2. q = Cached(shell.pngs, look) /\ q \in Lists
  <2>1. shell.pngs \in Lists
    BY DEF Shells
  <2> QED BY <1>1, <2>1, CachedIs, MovedIs
<1>3. PICK s : s = [shell EXCEPT !.pngs = q]
  OBVIOUS
<1>4. s \in Shells /\ s.dialogs = shell.dialogs /\ s.pngs = q /\ s.current = shell.current
  BY <1>2, <1>3 DEF Shells
<1>5. PICK p : p = GetParentId(shell, w)
  OBVIOUS
<1>6. /\ shell' = IF p # NoWindow THEN PaintDialogChild(s, p, look) ELSE PaintDialog(s, w, look)
      /\ deskIn' = deskIn
  BY <1>2, <1>3, <1>5, Zenon DEF OnDialogPaint
<1>7. s.current \in AnyWindow
  BY <1>4 DEF Shells
<1>8. p # NoWindow => p \in Windows
  BY <1>5, ParentIs
<1>9. CASE p # NoWindow /\ shell.dialogs[p].floating # NoWindow
  <2>1. PICK e : e = [shell.dialogs[p] EXCEPT !.floatDrawn = look]
    OBVIOUS
  <2>2. shell.dialogs[p] \in Entries
    BY <1>8, <1>9 DEF Shells
  <2>3. /\ e \in Entries /\ e.known = shell.dialogs[p].known /\ e.dom = shell.dialogs[p].dom
        /\ e.shown = shell.dialogs[p].shown /\ e.drawn = shell.dialogs[p].drawn
        /\ e.titled = shell.dialogs[p].titled
        /\ e.child = shell.dialogs[p].child /\ e.floating = shell.dialogs[p].floating
        /\ e.floatDrawn = look
    BY <2>1, <2>2 DEF Entries, AnyLook
  <2>4. shell' = [s EXCEPT !.dialogs[p].floatDrawn = look]
    BY <1>4, <1>6, <1>9 DEF PaintDialogChild
  <2>5. shell' = WithEntry(s, p, e, s.current)
    BY <1>4, <1>8, <1>9, <2>1, <2>2, <2>4 DEF WithEntry, Shells
  <2>6. /\ shell' \in Shells /\ shell'.dialogs[p] = e /\ shell'.pngs = s.pngs /\ shell'.current = s.current
        /\ \A v \in Windows : v # p => shell'.dialogs[v] = s.dialogs[v]
    BY <1>4, <1>7, <1>8, <1>9, <2>3, <2>5, EntryIs
  <2> QED BY <1>1, <1>4, <1>5, <1>6, <1>9, <2>3, <2>6
<1>10. CASE p # NoWindow /\ shell.dialogs[p].floating = NoWindow
  <2>1. shell' = s
    BY <1>4, <1>6, <1>10 DEF PaintDialogChild
  <2> QED BY <1>1, <1>4, <1>5, <1>6, <1>10, <2>1
<1>11. CASE p = NoWindow /\ ~IsOpen(shell, w)
  <2>1. ~IsOpen(s, w)
    BY <1>4, <1>11 DEF IsOpen
  <2>2. shell' = s
    BY <1>6, <1>11, <2>1 DEF PaintDialog
  <2> QED BY <1>1, <1>4, <1>5, <1>6, <1>11, <2>2, NoWindowIs
<1>12. CASE p = NoWindow /\ IsOpen(shell, w)
  <2>1. PICK e : e = [shell.dialogs[w] EXCEPT !.drawn = look, !.shown = TRUE]
    OBVIOUS
  <2>2. shell.dialogs[w] \in Entries
    BY DEF Shells
  <2>3. /\ e \in Entries /\ e.known = shell.dialogs[w].known /\ e.dom = shell.dialogs[w].dom
        /\ e.shown /\ e.drawn = look /\ e.titled = shell.dialogs[w].titled
        /\ e.child = shell.dialogs[w].child /\ e.floating = shell.dialogs[w].floating
        /\ e.floatDrawn = shell.dialogs[w].floatDrawn
    BY <2>1, <2>2 DEF Entries, AnyLook
  <2>4. IsOpen(s, w)
    BY <1>4, <1>12 DEF IsOpen
  <2>5. shell' = [s EXCEPT !.dialogs[w].drawn = look, !.dialogs[w].shown = TRUE]
    BY <1>6, <1>12, <2>4 DEF PaintDialog
  <2>6. shell' = WithEntry(s, w, e, s.current)
    BY <1>4, <2>1, <2>2, <2>5 DEF WithEntry, Shells
  <2>7. /\ shell' \in Shells /\ shell'.dialogs[w] = e /\ shell'.pngs = s.pngs /\ shell'.current = s.current
        /\ \A v \in Windows : v # w => shell'.dialogs[v] = s.dialogs[v]
    BY <1>4, <1>7, <2>3, <2>6, EntryIs
  <2> QED BY <1>1, <1>4, <1>5, <1>6, <1>12, <2>3, <2>7, NoWindowIs
<1> QED BY <1>9, <1>10, <1>11, <1>12

LEMMA DialogPaintPage ==
    ASSUME DialogsInv, NEW m \in FromDesk, Hears(m), m[1] = "windowpaint",
           OnDialogPaint(m[2], m[3], m[4])
    PROVE  DialogsShape' /\ DeskInv' /\ PageInv'
<1>1. PICK w \in Windows : w = m[2]
  BY FromDeskIs
<1>2. PICK look \in Looks : look = m[3]
  BY FromDeskIs
<1>3. PICK p : p = GetParentId(shell, w)
  OBVIOUS
<1>4. shell \in Shells
  BY DEF DialogsInv, DialogsShape
<1>5. OnDialogPaint(w, look, m[4])
  BY <1>1, <1>2
<1>6. /\ shell' \in Shells /\ deskIn' = deskIn
      /\ \A v \in Windows :
            /\ shell'.dialogs[v].known = shell.dialogs[v].known
            /\ shell'.dialogs[v].dom = shell.dialogs[v].dom
            /\ shell'.dialogs[v].child = shell.dialogs[v].child
            /\ shell'.dialogs[v].floating = shell.dialogs[v].floating
      /\ \A v \in Windows :
            IF p = NoWindow /\ v = w /\ IsOpen(shell, w)
            THEN shell'.dialogs[v].shown /\ shell'.dialogs[v].drawn = look
            ELSE /\ shell'.dialogs[v].shown = shell.dialogs[v].shown
                 /\ shell'.dialogs[v].drawn = shell.dialogs[v].drawn
      /\ \A v \in Windows :
            IF v = p /\ shell.dialogs[v].floating # NoWindow
            THEN shell'.dialogs[v].floatDrawn = look
            ELSE shell'.dialogs[v].floatDrawn = shell.dialogs[v].floatDrawn
  BY <1>3, <1>4, <1>5, DialogPaintIs
<1>7. snags \subseteq snags' /\ ("reused" \notin snags' => "reused" \notin snags)
  BY DEF OnDialogPaint
<1>8. deskIn' \in Seq(ToDesk) /\ Goes(deskIn, deskIn')
  BY <1>6 DEF DialogsInv, DialogsShape, Goes
<1>9. Reads(m) /\ DialogsShape'
  BY <1>6, <1>8, HearsIs
<1>10. \A v \in Windows : /\ ~Creates(m, v) /\ ~Closes(m, v) /\ ~Wakes(m, v)
                          /\ Paints(m, v) <=> v = w
  BY <1>1 DEF Creates, Paints, Wakes, Closes
<1>11. ASSUME NEW v \in Windows, shell'.dialogs[v].dom
       PROVE  shell'.dialogs[v].known /\ shell.dialogs[v].dom
  BY <1>6, <1>11 DEF DialogsInv, PageIsKnown
<1>12. \A v \in Windows : ParentIds(shell', v) \subseteq ParentIds(shell, v)
  BY <1>4, <1>6, ParentIdsShrink
<1>13. ASSUME "reused" \notin snags', NEW v \in Windows, shell'.dialogs[v].dom
       PROVE  ParentIds(shell', v) = {} /\ ~Closes(m, v)
  <2>1. ParentIds(shell, v) = {}
    BY <1>7, <1>11, <1>13 DEF DialogsInv, PageIsTheKits
  <2> QED BY <1>10, <1>12, <2>1
<1>14. ASSUME "reused" \notin snags', NEW v \in Windows, IsOpen(shell, v) /\ IsPainted(v)
       PROVE  IsOpen(shell', v) /\ IsPainted(v)'
  <2>1. CASE v # w
    BY <1>6, <1>9, <1>10, <1>14, <2>1, EntryKept
  <2>2. CASE v = w
    <3>1. ParentIds(shell, v) = {}
      BY <1>7, <1>14 DEF DialogsInv, PageIsTheKits, IsOpen
    <3>2. p = NoWindow
      BY <1>3, <2>2, <3>1, ParentIs
    <3>3. shell'.dialogs[v].shown /\ shell'.dialogs[v].drawn = look
      BY <1>6, <1>14, <2>2, <3>2
    <3>4. PICK l : l = Seen(shell.dialogs[v])
      OBVIOUS
    <3>5. PaintedOn(v, l)
      BY <1>14, <3>4, Zenon DEF IsPainted, Seen
    <3>6. PaintedOn(v, m[3])'
      BY <1>9, <1>10, <2>2, <3>5, PictureRead
    <3>7. m[3] = IF shell'.dialogs[v].shown THEN shell'.dialogs[v].drawn ELSE NoLook
      BY <1>2, <3>3
    <3>8. PICK k : k = m[3]
      OBVIOUS
    <3>9. PaintedOn(v, k)' /\ k = IF shell'.dialogs[v].shown THEN shell'.dialogs[v].drawn ELSE NoLook
      BY <3>6, <3>7, <3>8
    <3>10. IsPainted(v)'
      BY <3>9, Zenon DEF IsPainted
    <3>11. IsOpen(shell', v)
      BY <1>6, <1>14 DEF IsOpen
    <3> QED BY <3>10, <3>11
  <2> QED BY <2>1, <2>2
<1>15. ASSUME NEW c \in Windows, NEW x \in Windows, HangsOn(c, x), Attached(c, x)
       PROVE  Attached(c, x)'
  <2>1. /\ IsOpen(shell, x) /\ shell.dialogs[x].child = c /\ shell.dialogs[x].floating = c
        /\ GetParentId(shell, c) = x
    BY <1>15 DEF Attached
  <2>2. CASE c # w
    <3>1. x # p
      <4>1. p # NoWindow => p \in ParentIds(shell, w)
        BY <1>3, ParentIs
      <4>2. x = p => shell.dialogs[p].child = w
        BY <4>1, NoWindowIs DEF ParentIds
      <4> QED BY <2>1, <2>2, <4>2
    <3> QED BY <1>6, <1>9, <1>10, <1>12, <1>15, <2>2, <3>1, ChildKept
  <2>3. CASE c = w
    <3>1. x = p /\ x # NoWindow /\ c # NoWindow
      BY <1>3, <2>1, <2>3, NoWindowIs
    <3>2. /\ IsOpen(shell', x) /\ shell'.dialogs[x].child = c /\ shell'.dialogs[x].floating = c
          /\ shell'.dialogs[x].floatDrawn = look
      BY <1>6, <2>1, <3>1 DEF IsOpen
    <3>3. x \in ParentIds(shell', c)
      BY <3>2 DEF ParentIds, IsOpen
    <3>4. GetParentId(shell', c) = x
      BY <1>12, <2>1, <3>1, <3>3, ParentStays
    <3>5. PICK l : l = shell.dialogs[x].floatDrawn
      OBVIOUS
    <3>6. PaintedOn(c, l)
      BY <1>15, <3>5, Zenon DEF Attached
    <3>7. PaintedOn(c, m[3])'
      BY <1>9, <1>10, <2>3, <3>6, PictureRead
    <3>8. PICK k : k = m[3]
      OBVIOUS
    <3>9. PaintedOn(c, k)' /\ k = shell'.dialogs[x].floatDrawn
      BY <1>2, <3>2, <3>7, <3>8
    <3> QED BY <3>2, <3>4, <3>9, Zenon DEF Attached
  <2> QED BY <2>2, <2>3
<1>16. DeskInv' /\ PageInv'
  BY <1>7, <1>9, <1>10, <1>11, <1>13, <1>14, <1>15, ReadsPage
<1> QED BY <1>9, <1>16

\* What comes from the kit is read.
LEMMA ShellReceivesIs ==
    ASSUME DialogsInv, ShellReceives
    PROVE  \E m \in FromDesk :
              /\ Hears(m)
              /\ \/ m[1] = "created" /\ m[4] = NoWindow /\ OnCreatedDialog(m[2], m[3])
                 \/ m[1] = "created" /\ m[4] # NoWindow /\ OnCreatedChild(m[2], m[4])
                 \/ m[1] = "invalidate" /\ OnInvalidate(m[2])
                 \/ m[1] = "size_changed" /\ OnSizeChanged(m[2])
                 \/ m[1] = "cursor_visible" /\ OnCursorVisible(m[2], m[3])
                 \/ m[1] = "close" /\ OnCloseMsg(m[2])
                 \/ m[1] = "windowpaint" /\ OnDialogPaint(m[2], m[3], m[4])
<1>1. deskOut # <<>> /\ deskOut' = Tail(deskOut) /\ desk' = desk /\ deskOut \in Seq(FromDesk)
  BY DEF ShellReceives, DialogsInv, DialogsShape
<1>2. /\ deskOut' \in Seq(FromDesk) /\ Moves(deskOut, deskOut') /\ deskOut[1] \in FromDesk
      /\ Head(deskOut) = deskOut[1] /\ Len(deskOut) \in Nat \ {0}
  BY <1>1, TailMoves
<1>3. PICK m \in FromDesk : m = deskOut[1] /\ m = Head(deskOut)
  BY <1>2
<1>4. Hears(m)
  BY <1>1, <1>2, <1>3 DEF Hears
<1>5. \/ m[1] = "created" /\ m[4] = NoWindow /\ OnCreatedDialog(m[2], m[3])
      \/ m[1] = "created" /\ m[4] # NoWindow /\ OnCreatedChild(m[2], m[4])
      \/ m[1] = "invalidate" /\ OnInvalidate(m[2])
      \/ m[1] = "size_changed" /\ OnSizeChanged(m[2])
      \/ m[1] = "cursor_visible" /\ OnCursorVisible(m[2], m[3])
      \/ m[1] = "close" /\ OnCloseMsg(m[2])
      \/ m[1] = "windowpaint" /\ OnDialogPaint(m[2], m[3], m[4])
  BY <1>3, Zenon DEF ShellReceives
<1> QED BY <1>4, <1>5

LEMMA ReceivesPage ==
    ASSUME DialogsInv, ShellReceives
    PROVE  DialogsShape' /\ DeskInv' /\ PageInv'
<1>1. PICK m \in FromDesk :
              /\ Hears(m)
              /\ \/ m[1] = "created" /\ m[4] = NoWindow /\ OnCreatedDialog(m[2], m[3])
                 \/ m[1] = "created" /\ m[4] # NoWindow /\ OnCreatedChild(m[2], m[4])
                 \/ m[1] = "invalidate" /\ OnInvalidate(m[2])
                 \/ m[1] = "size_changed" /\ OnSizeChanged(m[2])
                 \/ m[1] = "cursor_visible" /\ OnCursorVisible(m[2], m[3])
                 \/ m[1] = "close" /\ OnCloseMsg(m[2])
                 \/ m[1] = "windowpaint" /\ OnDialogPaint(m[2], m[3], m[4])
  BY ShellReceivesIs
<1> QED BY <1>1, CreatedDialogPage, CreatedChildPage, InvalidatePage, SizeChangedPage, CursorVisiblePage,
           CloseMsgPage, DialogPaintPage

-----------------------------------------------------------------------------
(* The lists of pictures.                                                  *)

LEMMA RestBegins ==
    ASSUME NEW c \in Lists, NEW p \in Lists, NEW l \in Looks, Begins(c, p)
    PROVE  /\ Begins(Rest(c, l), Rest(p, l))
           /\ Contains(c, l) => Contains(p, l)
<1>0. /\ c \in Seq(Looks) /\ p \in Seq(Looks) /\ Len(c) \in Nat /\ Len(p) \in Nat
      /\ Len(c) <= Len(p) /\ Len(c) <= CacheSize /\ Len(p) <= CacheSize /\ CacheSize \in Nat \ {0}
      /\ \A i \in 1..Len(c) : c[i] = p[i] /\ i \in 1..Len(p)
  BY DialogsAssumption DEF Lists, Begins
<1>1. PICK x : x = Rest(c, l)
  OBVIOUS
<1>2. PICK y : y = Rest(p, l)
  OBVIOUS
<1>3. PICK i : i = PlaceIn(c, l)
  OBVIOUS
<1>4. PICK j : j = PlaceIn(p, l)
  OBVIOUS
<1>5. /\ x \in Seq(Looks) /\ Len(x) \in Nat
      /\ \A k \in 1..Len(x) :
            /\ k \in 1..Len(c)
            /\ i = 0 => x[k] = c[k]
            /\ i # 0 => /\ k + 1 \in 1..Len(c)
                        /\ x[k] = IF k < i THEN c[k] ELSE c[k + 1]
      /\ i # 0 => Len(x) = Len(c) - 1
      /\ i = 0 => Len(x) = IF Len(c) = CacheSize THEN Len(c) - 1 ELSE Len(c)
  BY <1>1, <1>3, RestIs
<1>6. /\ y \in Seq(Looks) /\ Len(y) \in Nat
      /\ \A k \in 1..Len(y) :
            /\ k \in 1..Len(p)
            /\ j = 0 => y[k] = p[k]
            /\ j # 0 => /\ k + 1 \in 1..Len(p)
                        /\ y[k] = IF k < j THEN p[k] ELSE p[k + 1]
      /\ j # 0 => Len(y) = Len(p) - 1
      /\ j = 0 => Len(y) = IF Len(p) = CacheSize THEN Len(p) - 1 ELSE Len(p)
  BY <1>2, <1>4, RestIs
<1>7. /\ i = 0 <=> ~Contains(c, l)
      /\ i # 0 => i \in 1..Len(c) /\ c[i] = l /\ \A k \in 1..Len(c) : c[k] = l => i <= k
  BY <1>0, <1>3, AtIs
<1>8. /\ j = 0 <=> ~Contains(p, l)
      /\ j # 0 => j \in 1..Len(p) /\ p[j] = l /\ \A k \in 1..Len(p) : p[k] = l => j <= k
  BY <1>0, <1>4, AtIs
<1>9. Contains(c, l) => Contains(p, l)
  BY <1>0 DEF Contains
<1>10. Begins(x, y)
  <2>1. CASE i # 0
    <3>1. j # 0 /\ j <= i
      BY <1>0, <1>7, <1>8, <1>9, <2>1
    <3>2. j \in 1..Len(c) /\ c[j] = l
      BY <1>0, <1>7, <1>8, <2>1, <3>1
    <3>3. i = j
      BY <1>7, <2>1, <3>1, <3>2
    <3>4. Len(x) <= Len(y)
      BY <1>0, <1>5, <1>6, <2>1, <3>1
    <3>5. ASSUME NEW k \in 1..Len(x) PROVE x[k] = y[k]
      <4>1. k \in 1..Len(y) /\ k \in 1..Len(c) /\ k + 1 \in 1..Len(c)
        BY <1>5, <1>6, <2>1, <3>4
      <4>2. x[k] = (IF k < i THEN c[k] ELSE c[k + 1]) /\ y[k] = IF k < i THEN p[k] ELSE p[k + 1]
        BY <1>5, <1>6, <2>1, <3>3, <4>1
      <4> QED BY <1>0, <4>1, <4>2
    <3> QED BY <3>4, <3>5 DEF Begins
  <2>2. CASE i = 0 /\ j # 0
    <3>1. j > Len(c)
      <4>1. ~(j \in 1..Len(c))
        BY <1>0, <1>7, <1>8, <2>2 DEF Contains
      <4> QED BY <1>0, <1>8, <2>2, <4>1
    <3>2. Len(c) < CacheSize /\ Len(x) = Len(c) /\ Len(x) <= Len(y)
      BY <1>0, <1>5, <1>6, <1>8, <2>2, <3>1
    <3>3. ASSUME NEW k \in 1..Len(x) PROVE x[k] = y[k]
      <4>1. k \in 1..Len(y) /\ k \in 1..Len(c) /\ k < j
        BY <1>0, <1>5, <1>6, <1>8, <2>2, <3>1, <3>2
      <4> QED BY <1>0, <1>5, <1>6, <2>2, <4>1
    <3> QED BY <3>2, <3>3 DEF Begins
  <2>3. CASE i = 0 /\ j = 0
    <3>1. Len(x) <= Len(y)
      BY <1>0, <1>5, <1>6, <2>3
    <3>2. ASSUME NEW k \in 1..Len(x) PROVE x[k] = y[k]
      <4>1. k \in 1..Len(y) /\ k \in 1..Len(c)
        BY <1>5, <1>6, <3>1
      <4> QED BY <1>0, <1>5, <1>6, <2>3, <4>1
    <3> QED BY <3>1, <3>2 DEF Begins
  <2> QED BY <2>1, <2>2, <2>3
<1> QED BY <1>1, <1>2, <1>9, <1>10

LEMMA MovedBegins ==
    ASSUME NEW c \in Lists, NEW p \in Lists, NEW l \in Looks, Begins(c, p)
    PROVE  Begins(MovedToFront(c, l), MovedToFront(p, l))
<1>1. PICK x : x = Rest(c, l)
  OBVIOUS
<1>2. PICK y : y = Rest(p, l)
  OBVIOUS
<1>3. PICK r : r = MovedToFront(c, l)
  OBVIOUS
<1>4. PICK t : t = MovedToFront(p, l)
  OBVIOUS
<1>5. Len(x) \in Nat /\ Len(y) \in Nat
  BY <1>1, <1>2, RestIs
<1>6. Len(x) <= Len(y) /\ \A k \in 1..Len(x) : x[k] = y[k]
  BY <1>1, <1>2, RestBegins DEF Begins
<1>7. Len(r) = Len(x) + 1 /\ r[1] = l /\ \A k \in 1..Len(x) : r[k + 1] = x[k]
  BY <1>1, <1>3, MovedIs
<1>8. Len(t) = Len(y) + 1 /\ t[1] = l /\ \A k \in 1..Len(y) : t[k + 1] = y[k]
  BY <1>2, <1>4, MovedIs
<1>9. ASSUME NEW k \in 1..Len(r) PROVE r[k] = t[k]
  <2>1. CASE k = 1
    BY <1>7, <1>8, <2>1
  <2>2. CASE k # 1
    <3>1. k - 1 \in 1..Len(x) /\ k - 1 \in 1..Len(y) /\ k = (k - 1) + 1
      BY <1>5, <1>6, <1>7, <2>2
    <3> QED BY <1>6, <1>7, <1>8, <3>1
  <2> QED BY <2>1, <2>2
<1>10. Begins(r, t)
  BY <1>5, <1>6, <1>7, <1>8, <1>9 DEF Begins
<1> QED BY <1>3, <1>4, <1>10

\* Nothing is painted.
LEMMA ListsGrow ==
    ASSUME DialogsShape, DialogsShape', ListsAgree, Goes(deskOut, deskOut'),
           \A i \in Len(deskOut) + 1..Len(deskOut') : deskOut'[i][1] # "windowpaint",
           desk'.cache = desk.cache, shell'.pngs = shell.pngs
    PROVE  ListsAgree'
<1>0. /\ Len(deskOut) \in Nat /\ Len(deskOut') \in Nat /\ Len(deskOut) <= Len(deskOut')
      /\ \A i \in 1..Len(deskOut) : deskOut'[i] = deskOut[i]
  BY DEF Goes, DialogsShape
<1>1. PICK n \in Nat : n = Len(deskOut)
  BY <1>0
<1>2. PICK C \in [1..Len(deskOut) + 1 -> Lists] :
        /\ Begins(C[1], shell.pngs) /\ C[Len(deskOut) + 1] = desk.cache
        /\ \A i \in 1..Len(deskOut) : Follows(C[i], C[i + 1], deskOut[i])
  BY DEF ListsAgree
<1>3. PICK D : D = [i \in 1..Len(deskOut') + 1 |-> IF i <= n THEN C[i] ELSE C[n + 1]]
  OBVIOUS
<1>4. D \in [1..Len(deskOut') + 1 -> Lists]
  BY <1>0, <1>1, <1>2, <1>3
<1>5. D[1] = C[1] /\ D[Len(deskOut') + 1] = C[n + 1]
  BY <1>0, <1>1, <1>3
<1>6. ASSUME NEW i \in 1..Len(deskOut') PROVE Follows(D[i], D[i + 1], deskOut'[i])
  <2>1. CASE i <= n
    <3>1. D[i] = C[i] /\ D[i + 1] = C[i + 1] /\ deskOut'[i] = deskOut[i] /\ i \in 1..Len(deskOut)
      BY <1>0, <1>1, <1>3, <2>1
    <3> QED BY <1>2, <3>1
  <2>2. CASE ~(i <= n)
    <3>1. D[i] = C[n + 1] /\ D[i + 1] = C[n + 1] /\ i \in Len(deskOut) + 1..Len(deskOut')
      BY <1>0, <1>1, <1>3, <2>2
    <3> QED BY <3>1 DEF Follows
  <2> QED BY <2>1, <2>2
<1> QED BY <1>1, <1>2, <1>4, <1>5, <1>6 DEF ListsAgree

\* A picture is painted, and not sent when the kit's list has it.
LEMMA ListsRendered ==
    ASSUME DialogsShape, DialogsShape', ListsAgree, NEW m \in FromDesk, Adds(deskOut, deskOut', m),
           m[1] = "windowpaint", desk'.cache = MovedToFront(desk.cache, m[3]),
           ~m[4] => Contains(desk.cache, m[3]), shell'.pngs = shell.pngs
    PROVE  ListsAgree'
<1>0. /\ Len(deskOut) \in Nat /\ Len(deskOut') = Len(deskOut) + 1 /\ deskOut'[Len(deskOut) + 1] = m
      /\ \A i \in 1..Len(deskOut) : deskOut'[i] = deskOut[i]
      /\ \A i \in 1..Len(deskOut') : i = Len(deskOut) + 1 \/ i \in 1..Len(deskOut)
  BY AddsIs
<1>1. PICK n \in Nat : n = Len(deskOut)
  BY <1>0
<1>2. PICK C \in [1..Len(deskOut) + 1 -> Lists] :
        /\ Begins(C[1], shell.pngs) /\ C[Len(deskOut) + 1] = desk.cache
        /\ \A i \in 1..Len(deskOut) : Follows(C[i], C[i + 1], deskOut[i])
  BY DEF ListsAgree
<1>3. PICK x : x = desk'.cache
  OBVIOUS
<1>4. x \in Lists
  BY <1>3 DEF DialogsShape, Desks
<1>5. PICK D : D = [i \in 1..Len(deskOut') + 1 |-> IF i <= n + 1 THEN C[i] ELSE x]
  OBVIOUS
<1>6. D \in [1..Len(deskOut') + 1 -> Lists]
  BY <1>0, <1>1, <1>2, <1>4, <1>5
<1>7. D[1] = C[1] /\ D[Len(deskOut') + 1] = x
  BY <1>0, <1>1, <1>5
<1>8. ASSUME NEW i \in 1..Len(deskOut') PROVE Follows(D[i], D[i + 1], deskOut'[i])
  <2>1. CASE i \in 1..Len(deskOut)
    <3>1. D[i] = C[i] /\ D[i + 1] = C[i + 1] /\ deskOut'[i] = deskOut[i]
      BY <1>0, <1>1, <1>5, <2>1
    <3> QED BY <1>2, <2>1, <3>1
  <2>2. CASE i = Len(deskOut) + 1
    <3>1. D[i] = desk.cache /\ D[i + 1] = x /\ deskOut'[i] = m
      BY <1>0, <1>1, <1>2, <1>5, <2>2
    <3>2. x = MovedToFront(desk.cache, m[3])
      BY <1>3
    <3>3. Follows(desk.cache, x, m)
      BY <3>2 DEF Follows
    <3> QED BY <3>1, <3>3
  <2> QED BY <1>0, <2>1, <2>2
<1> QED BY <1>2, <1>3, <1>6, <1>7, <1>8 DEF ListsAgree

\* What is read: the browser's list goes the way of the kit's.
LEMMA ListsRead ==
    ASSUME DialogsShape, DialogsShape', NEW m \in FromDesk, Hears(m), ListsAgree,
           shell'.pngs = IF m[1] = "windowpaint" THEN MovedToFront(shell.pngs, m[3]) ELSE shell.pngs
    PROVE  /\ ListsAgree'
           /\ m[1] = "windowpaint" /\ ~m[4] => Contains(shell.pngs, m[3])
<1>0. /\ Len(deskOut) \in Nat \ {0} /\ Len(deskOut') = Len(deskOut) - 1 /\ deskOut[1] = m
      /\ \A i \in 1..Len(deskOut') : deskOut'[i] = deskOut[i + 1] /\ i + 1 \in 1..Len(deskOut)
  <2>1. Len(deskOut) \in Nat \ {0} /\ Len(deskOut') \in Nat /\ Moves(deskOut, deskOut') /\ deskOut[1] = m
    BY DEF Hears, DialogsShape
  <2>2. /\ Len(deskOut') = Len(deskOut) - 1
        /\ \A i \in 1..Len(deskOut') : deskOut'[i] = deskOut[i + 1]
    BY <2>1 DEF Moves
  <2> QED BY <2>1, <2>2
<1>1. PICK C \in [1..Len(deskOut) + 1 -> Lists] :
        /\ Begins(C[1], shell.pngs) /\ C[Len(deskOut) + 1] = desk.cache
        /\ \A i \in 1..Len(deskOut) : Follows(C[i], C[i + 1], deskOut[i])
  BY DEF ListsAgree
<1>2. PICK D : D = [i \in 1..Len(deskOut') + 1 |-> C[i + 1]]
  OBVIOUS
<1>3. D \in [1..Len(deskOut') + 1 -> Lists]
  BY <1>0, <1>1, <1>2
<1>4. D[1] = C[2] /\ D[Len(deskOut') + 1] = C[Len(deskOut) + 1]
  BY <1>0, <1>2
<1>5. ASSUME NEW i \in 1..Len(deskOut') PROVE Follows(D[i], D[i + 1], deskOut'[i])
  <2>1. D[i] = C[i + 1] /\ D[i + 1] = C[(i + 1) + 1] /\ deskOut'[i] = deskOut[i + 1]
    BY <1>0, <1>2
  <2> QED BY <1>0, <1>1, <2>1
<1>6. Follows(C[1], C[2], m) /\ C[1] \in Lists /\ shell.pngs \in Lists /\ m \in FromDesk /\ desk' = desk
  <2>1. 1 \in 1..Len(deskOut)
    BY <1>0
  <2>2. Follows(C[1], C[1 + 1], deskOut[1])
    BY <1>1, <2>1
  <2>3. 1 + 1 = 2 /\ deskOut[1] = m /\ 1 \in 1..Len(deskOut) + 1
    BY <1>0
  <2>4. Follows(C[1], C[2], m)
    BY <2>2, <2>3
  <2>5. C[1] \in Lists
    BY <1>1, <2>3
  <2>6. shell.pngs \in Lists /\ m \in FromDesk /\ desk' = desk
    BY DEF Hears, DialogsShape, Shells
  <2> QED BY <2>4, <2>5, <2>6
<1>7. CASE m[1] = "windowpaint"
  <2>1. PICK l \in Looks : l = m[3]
    BY <1>6, <1>7, FromDeskIs
  <2>2. Begins(MovedToFront(C[1], l), MovedToFront(shell.pngs, l)) /\ (Contains(C[1], l) => Contains(shell.pngs, l))
    BY <1>1, <1>6, MovedBegins, RestBegins
  <2>3. C[2] = MovedToFront(C[1], l) /\ (~m[4] => Contains(C[1], l))
    BY <1>6, <1>7, <2>1 DEF Follows
  <2>4. shell'.pngs = MovedToFront(shell.pngs, l)
    BY <1>7, <2>1
  <2>5. Begins(D[1], shell'.pngs)
    BY <1>4, <2>2, <2>3, <2>4
  <2>6. ListsAgree'
    BY <1>1, <1>3, <1>4, <1>5, <1>6, <2>5 DEF ListsAgree
  <2> QED BY <2>1, <2>2, <2>3, <2>6
<1>8. CASE m[1] # "windowpaint"
  <2>1. C[2] = C[1]
    BY <1>6, <1>8 DEF Follows
  <2>2. Begins(D[1], shell'.pngs)
    BY <1>1, <1>4, <1>8, <2>1
  <2>3. ListsAgree'
    BY <1>1, <1>3, <1>4, <1>5, <1>6, <2>2 DEF ListsAgree
  <2> QED BY <1>8, <2>3
<1> QED BY <1>7, <1>8

\* A dialog is taken off the page, and the kit is told.
LEMMA TakenOffPage ==
    ASSUME DialogsInv, NEW w \in Windows, shell' = OnDialogClose(shell, w), desk' = desk, deskOut' = deskOut,
           NEW m, m = <<"close", w>>, deskIn' = Append(deskIn, m), snags \subseteq snags'
    PROVE  DialogsShape' /\ DeskInv' /\ PageInv'
<1>0. DialogsShape /\ DeskInv /\ shell \in Shells /\ deskIn \in Seq(ToDesk)
  BY DEF DialogsInv, DialogsShape
<1>1. shell' = WithEntry(shell, w, NoDialog, NoWindow)
  BY DEF WithEntry, OnDialogClose
<1>2. /\ shell' \in Shells /\ shell'.dialogs[w] = NoDialog
      /\ \A v \in Windows : v # w => shell'.dialogs[v] = shell.dialogs[v]
  BY <1>0, <1>1, NoDialogIs, NoWindowIs, EntryIs
<1>3. m \in ToDesk /\ Closes(m, w)
  BY DEF ToDesk, Closes
<1>4. deskIn' \in Seq(ToDesk) /\ Adds(deskIn, deskIn', m)
  BY <1>0, <1>3, AppendAdds
<1>5. DialogsShape'
  BY <1>0, <1>2, <1>4 DEF DialogsShape
<1>6. DeskInv'
  BY <1>0 DEF DeskInv, WindowsAreSound, Announced, AnnouncedUnder, ClosedForGood, ResizedIsTop, HangsOn,
              IsTop, Creates, CreatesUnder, Closes
<1>7. /\ Len(deskIn) \in Nat /\ Len(deskIn') = Len(deskIn) + 1 /\ deskIn'[Len(deskIn) + 1] = m
      /\ \A i \in 1..Len(deskIn) : deskIn'[i] = deskIn[i] /\ i \in 1..Len(deskIn')
  BY <1>0, <1>4 DEF Adds, Goes
<1>8. ASSUME NEW v \in Windows
      PROVE  /\ ComesCreated(v)' <=> ComesCreated(v)
             /\ ComesClose(v)' <=> ComesClose(v)
             /\ GoesClose(v) => GoesClose(v)'
             /\ (\E i \in 1..Len(deskIn) : Asks(deskIn[i], v)) =>
                   \E i \in 1..Len(deskIn') : Asks(deskIn'[i], v)
  <2>1. ComesCreated(v)' <=> ComesCreated(v)
    BY DEF ComesCreated, Creates
  <2>2. ComesClose(v)' <=> ComesClose(v)
    BY DEF ComesClose, Closes
  <2>3. GoesClose(v) => GoesClose(v)'
    BY <1>7 DEF GoesClose, Closes
  <2>4. (\E i \in 1..Len(deskIn) : Asks(deskIn[i], v)) => \E i \in 1..Len(deskIn') : Asks(deskIn'[i], v)
    BY <1>7
  <2> QED BY <2>1, <2>2, <2>3, <2>4
<1>9. GoesClose(w)'
  <2>1. Len(deskIn) + 1 \in 1..Len(deskIn')
    BY <1>7
  <2> QED BY <1>3, <1>7, <2>1 DEF GoesClose, Closes
<1>10. ASSUME NEW v \in Windows PROVE ParentIds(shell', v) \subseteq ParentIds(shell, v)
  <2>1. \A u \in Windows : shell'.dialogs[u].child = v => shell'.dialogs[u] = shell.dialogs[u]
    BY <1>2, NoDialogIs, NoWindowIs
  <2> QED BY <1>0, <1>2, <2>1, ParentIdsShrink
<1>11. ASSUME NEW v \in Windows, shell'.dialogs[v].dom PROVE v # w /\ shell.dialogs[v].dom
  <2>1. v # w
    BY <1>2, <1>11, NoDialogIs
  <2> QED BY <1>2, <1>11, <2>1
<1>12. PageIsKnown'
  <2> SUFFICES ASSUME NEW v \in Windows, shell'.dialogs[v].dom
               PROVE  shell'.dialogs[v].known /\ v < desk'.next /\ ~ComesCreated(v)'
    BY DEF PageIsKnown
  <2>1. v # w /\ shell.dialogs[v].dom
    BY <1>11
  <2> QED BY <1>2, <1>8, <2>1 DEF DialogsInv, PageIsKnown
<1>13. ASSUME "reused" \notin snags' PROVE PageIsTheKits'
  <2> SUFFICES ASSUME NEW v \in Windows, shell'.dialogs[v].dom
               PROVE  /\ ParentIds(shell', v) = {}
                      /\ desk'.wins[v].open => desk'.wins[v].parent = NoWindow
                      /\ desk'.wins[v].open \/ ComesClose(v)'
    BY DEF PageIsTheKits
  <2>1. shell.dialogs[v].dom
    BY <1>11
  <2>2. /\ ParentIds(shell, v) = {}
        /\ desk.wins[v].open => desk.wins[v].parent = NoWindow
        /\ desk.wins[v].open \/ ComesClose(v)
    BY <1>13, <2>1 DEF DialogsInv, PageIsTheKits
  <2> QED BY <1>8, <1>10, <2>2
<1>14. ASSUME NEW v \in Windows, NEW l, PaintedOn(v, l) PROVE PaintedOn(v, l)'
  <2>1. Goes(deskOut, deskOut') /\ \A i \in Len(deskOut) + 1..Len(deskOut') : ~Paints(deskOut'[i], v)
    BY <1>0 DEF Goes, DialogsShape
  <2> QED BY <1>0, <1>5, <1>8, <1>14, <2>1, PaintedStays
<1>15. ASSUME "reused" \notin snags' PROVE DialogsSettle'
  <2> SUFFICES ASSUME NEW v \in Windows, IsTop(v)'
               PROVE  ComesCreated(v)' \/ GoesClose(v)' \/ (IsOpen(shell', v) /\ IsPainted(v)')
    BY DEF DialogsSettle
  <2>1. IsTop(v)
    BY DEF IsTop
  <2>2. ComesCreated(v) \/ GoesClose(v) \/ (IsOpen(shell, v) /\ IsPainted(v))
    BY <1>15, <2>1 DEF DialogsInv, DialogsSettle
  <2>3. CASE v # w /\ IsOpen(shell, v) /\ IsPainted(v)
    <3>1. shell'.dialogs[v] = shell.dialogs[v]
      BY <1>2, <2>3
    <3>2. PICK l : l = IF shell.dialogs[v].shown THEN shell.dialogs[v].drawn ELSE NoLook
      OBVIOUS
    <3>3. PaintedOn(v, l)
      BY <2>3, <3>2, Zenon DEF IsPainted
    <3>4. PaintedOn(v, l)' /\ l = IF shell'.dialogs[v].shown THEN shell'.dialogs[v].drawn ELSE NoLook
      BY <1>14, <3>1, <3>2, <3>3
    <3>5. IsPainted(v)'
      BY <3>4, Zenon DEF IsPainted
    <3>6. IsOpen(shell', v)
      BY <2>3, <3>1 DEF IsOpen
    <3> QED BY <3>5, <3>6
  <2> QED BY <1>8, <1>9, <2>2, <2>3
<1>16. ASSUME snags' \cap {"reused", "relaunched"} = {} PROVE ChildrenSettle'
  <2> SUFFICES ASSUME NEW c \in Windows, NEW x \in Windows, HangsOn(c, x)'
               PROVE  ComesCreated(c)' \/ GoesClose(x)' \/ Attached(c, x)'
    BY DEF ChildrenSettle
  <2>1. HangsOn(c, x)
    BY DEF HangsOn
  <2>2. ComesCreated(c) \/ GoesClose(x) \/ Attached(c, x)
    BY <1>16, <2>1 DEF DialogsInv, ChildrenSettle
  <2>3. CASE x # w /\ Attached(c, x)
    <3>1. shell'.dialogs[x] = shell.dialogs[x]
      BY <1>2, <2>3
    <3>2. /\ IsOpen(shell', x) /\ shell'.dialogs[x].child = c /\ shell'.dialogs[x].floating = c
          /\ GetParentId(shell, c) = x
      BY <2>3, <3>1 DEF Attached, IsOpen
    <3>3. x \in ParentIds(shell', c) /\ x # NoWindow
      BY <3>2, NoWindowIs DEF ParentIds, IsOpen
    <3>4. GetParentId(shell', c) = x
      BY <1>10, <3>2, <3>3, ParentStays
    <3>5. PICK l : l = shell.dialogs[x].floatDrawn
      OBVIOUS
    <3>6. PaintedOn(c, l)
      BY <2>3, <3>5, Zenon DEF Attached
    <3>7. PaintedOn(c, l)' /\ l = shell'.dialogs[x].floatDrawn
      BY <1>14, <3>1, <3>5, <3>6
    <3> QED BY <3>2, <3>4, <3>7, Zenon DEF Attached
  <2> QED BY <1>8, <1>9, <2>2, <2>3
<1>17. PageInv'
  BY <1>12, <1>13, <1>15, <1>16 DEF PageInv
<1> QED BY <1>5, <1>6, <1>17

LEMMA UserClosesPage ==
    ASSUME DialogsInv, NEW w \in Windows, UserClosesDialog(w)
    PROVE  DialogsShape' /\ DeskInv' /\ PageInv'
<1>1. shell' = OnDialogClose(shell, w) /\ desk' = desk /\ deskOut' = deskOut
  BY DEF UserClosesDialog
<1>2. PICK m : m = <<"close", w>>
  OBVIOUS
<1>3. deskIn' = Append(deskIn, m)
  BY <1>2, Zenon DEF UserClosesDialog
<1>4. snags \subseteq snags'
  BY DEF UserClosesDialog
<1> QED BY <1>1, <1>2, <1>3, <1>4, TakenOffPage

LEMMA MouseUpPage ==
    ASSUME DialogsInv, MouseUp
    PROVE  DialogsShape' /\ DeskInv' /\ PageInv'
<1>1. IsPopUp(shell) /\ desk' = desk /\ deskOut' = deskOut /\ snags' = snags
  BY DEF MouseUp
<1>2. PICK w : w = shell.current
  OBVIOUS
<1>3. w \in Windows
  BY <1>1, <1>2 DEF IsPopUp, IsOpen
<1>4. shell' = OnDialogClose(shell, w)
  BY <1>1, <1>2 DEF MouseUp, WithoutPopUp
<1>5. PICK m : m = <<"close", w>>
  OBVIOUS
<1>6. deskIn' = deskIn \o <<m>> /\ deskIn \in Seq(ToDesk) /\ m \in ToDesk
  BY <1>1, <1>2, <1>3, <1>5 DEF MouseUp, SendClosePopUp, DialogsInv, DialogsShape, ToDesk
<1>7. deskIn' = Append(deskIn, m)
  BY <1>6
<1> QED BY <1>1, <1>3, <1>4, <1>5, <1>7, TakenOffPage

-----------------------------------------------------------------------------
(* Pop-ups and pictures.                                                   *)

PopUpsAreCurrent(s) ==
    \A w \in Windows : IsOpen(s, w) /\ ~s.dialogs[w].titled => s.current = w

\* What a handler does to the browser's pictures, to its pop-ups and to the holes that are named.
ShellKeeps(m) ==
    /\ shell'.pngs = IF m[1] = "windowpaint" THEN MovedToFront(shell.pngs, m[3]) ELSE shell.pngs
    /\ "left" \notin snags' => "left" \notin snags
    /\ "left" \notin snags' /\ PopUpsAreCurrent(shell) => PopUpsAreCurrent(shell')
    /\ \/ "nopng" \in snags' => "nopng" \in snags
       \/ m[1] = "windowpaint" /\ ~m[4] /\ ~Contains(shell.pngs, m[3])

LEMMA PopUpsLaunched ==
    ASSUME NEW s \in Shells, PopUpsAreCurrent(s), NEW w \in Windows, NEW titled \in BOOLEAN,
           NEW r, r = LaunchDialog(s, w, titled)
    PROVE  PopUpsAreCurrent(r)
<1> SUFFICES ASSUME NEW v \in Windows, IsOpen(r, v), ~r.dialogs[v].titled PROVE r.current = v
  BY DEF PopUpsAreCurrent
<1>1. /\ r.current = w
      /\ \A x \in Windows : x # w =>
            r.dialogs[x] = IF IsPopUp(s) /\ x = s.current THEN NoDialog ELSE s.dialogs[x]
  BY LaunchIs
<1>2. CASE v # w /\ r.dialogs[v] = s.dialogs[v]
  <2>1. IsOpen(s, v) /\ ~s.dialogs[v].titled
    BY <1>2 DEF IsOpen
  <2>2. s.current = v
    BY <2>1 DEF PopUpsAreCurrent
  <2>3. IsPopUp(s)
    BY <2>1, <2>2, NoWindowIs DEF IsPopUp
  <2>4. r.dialogs[v] = NoDialog
    BY <1>1, <1>2, <2>2, <2>3
  <2> QED BY <2>4, NoDialogIs DEF IsOpen
<1>3. CASE v # w /\ r.dialogs[v] = NoDialog
  BY <1>3, NoDialogIs DEF IsOpen
<1> QED BY <1>1, <1>2, <1>3

LEMMA PopUpsClosed ==
    ASSUME shell \in Shells, NEW w \in Windows, NEW r, r = OnDialogClose(shell, w), ~Forgets(shell, w)
    PROVE  PopUpsAreCurrent(r)
<1> SUFFICES ASSUME NEW v \in Windows, IsOpen(r, v), ~r.dialogs[v].titled PROVE r.current = v
  BY DEF PopUpsAreCurrent
<1>1. r = WithEntry(shell, w, NoDialog, NoWindow)
  BY DEF WithEntry, OnDialogClose
<1>2. /\ r.dialogs[w] = NoDialog
      /\ \A x \in Windows : x # w => r.dialogs[x] = shell.dialogs[x]
  BY <1>1, NoDialogIs, NoWindowIs, EntryIs
<1>3. v # w
  BY <1>2, NoDialogIs DEF IsOpen
<1>4. IsOpen(shell, v) /\ ~shell.dialogs[v].titled
  BY <1>2, <1>3 DEF IsOpen
<1> QED BY <1>3, <1>4 DEF Forgets

LEMMA PopUpsStay ==
    ASSUME NEW s \in Shells, NEW r \in Shells, PopUpsAreCurrent(s), r.current = s.current,
           \A v \in Windows : /\ r.dialogs[v].known => s.dialogs[v].known
                              /\ r.dialogs[v].dom => s.dialogs[v].dom
                              /\ r.dialogs[v].titled = s.dialogs[v].titled
    PROVE  PopUpsAreCurrent(r)
  BY DEF PopUpsAreCurrent, IsOpen

LEMMA ClosedPngs ==
    ASSUME NEW s \in Shells, NEW w \in Windows, NEW r, r = OnDialogClose(s, w)
    PROVE  r.pngs = s.pngs
  BY DEF OnDialogClose, Shells

LEMMA LaunchKeeps ==
    ASSUME NEW m \in FromDesk, m[1] # "windowpaint", NEW s \in Shells, s.pngs = shell.pngs,
           PopUpsAreCurrent(shell) => PopUpsAreCurrent(s),
           NEW w \in Windows, NEW titled \in BOOLEAN, shell' = LaunchDialog(s, w, titled),
           "left" \in snags' <=> "left" \in snags, "nopng" \in snags' <=> "nopng" \in snags
    PROVE  ShellKeeps(m)
<1>1. shell'.pngs = s.pngs
  BY LaunchIs
<1>2. PopUpsAreCurrent(s) => PopUpsAreCurrent(shell')
  BY PopUpsLaunched
<1> QED BY <1>1, <1>2 DEF ShellKeeps

LEMMA CreatedDialogKeeps ==
    ASSUME DialogsShape, NEW m \in FromDesk, m[1] = "created", OnCreatedDialog(m[2], m[3])
    PROVE  ShellKeeps(m)
<1>1. PICK w \in Windows : w = m[2]
  BY FromDeskIs
<1>2. PICK titled \in BOOLEAN : titled = m[3]
  BY FromDeskIs
<1>3. shell \in Shells /\ shell' = LaunchDialog(shell, w, titled)
  BY <1>1, <1>2 DEF OnCreatedDialog, DialogsShape
<1>4. ("left" \in snags' <=> "left" \in snags) /\ ("nopng" \in snags' <=> "nopng" \in snags)
  BY DEF OnCreatedDialog
<1> QED BY <1>3, <1>4, LaunchKeeps

LEMMA SizeChangedKeeps ==
    ASSUME DialogsShape, NEW m \in FromDesk, m[1] = "size_changed", OnSizeChanged(m[2])
    PROVE  ShellKeeps(m)
<1>1. PICK w \in Windows : w = m[2]
  BY FromDeskIs
<1>2. CASE shell' = shell /\ snags' = snags
  BY <1>2 DEF ShellKeeps
<1>3. PICK titled : titled = shell.dialogs[w].titled
  OBVIOUS
<1>4. PICK e : e = [shell.dialogs[w] EXCEPT !.dom = FALSE]
  OBVIOUS
<1>5. shell \in Shells /\ shell.dialogs[w] \in Entries
  BY DEF DialogsShape, Shells
<1>6. /\ e \in Entries /\ titled \in BOOLEAN /\ shell.current \in AnyWindow
      /\ ~e.dom /\ e.known = shell.dialogs[w].known /\ e.titled = shell.dialogs[w].titled
  BY <1>3, <1>4, <1>5 DEF Entries, Shells
<1>7. PICK down : down = [shell EXCEPT !.dialogs[w].dom = FALSE]
  OBVIOUS
<1>8. down = WithEntry(shell, w, e, shell.current)
  BY <1>4, <1>5, <1>7 DEF WithEntry, Shells
<1>9. /\ down \in Shells /\ down.current = shell.current /\ down.pngs = shell.pngs /\ down.dialogs[w] = e
      /\ \A v \in Windows : v # w => down.dialogs[v] = shell.dialogs[v]
  BY <1>5, <1>6, <1>8, EntryIs
<1>10. PopUpsAreCurrent(shell) => PopUpsAreCurrent(down)
  <2>1. \A v \in Windows : /\ down.dialogs[v].known => shell.dialogs[v].known
                           /\ down.dialogs[v].dom => shell.dialogs[v].dom
                           /\ down.dialogs[v].titled = shell.dialogs[v].titled
    BY <1>6, <1>9
  <2> QED BY <1>5, <1>9, <2>1, PopUpsStay
<1>11. CASE /\ shell' = LaunchDialog(down, w, titled)
            /\ snags' = snags \cup (IF shell.dialogs[w].floating # NoWindow THEN {"relaunched"} ELSE {})
  <2>1. ("left" \in snags' <=> "left" \in snags) /\ ("nopng" \in snags' <=> "nopng" \in snags)
    BY <1>11
  <2> QED BY <1>6, <1>9, <1>10, <1>11, <2>1, LaunchKeeps
<1> QED BY <1>1, <1>2, <1>3, <1>7, <1>11, Zenon DEF OnSizeChanged

\* A handler that opens nothing and closes nothing.
LEMMA StayKeeps ==
    ASSUME NEW m \in FromDesk, m[1] # "windowpaint", shell \in Shells, NEW w \in Windows, NEW e \in Entries,
           e.known = shell.dialogs[w].known, e.dom = shell.dialogs[w].dom,
           e.titled = shell.dialogs[w].titled, shell' = WithEntry(shell, w, e, shell.current),
           "left" \in snags' <=> "left" \in snags, "nopng" \in snags' <=> "nopng" \in snags
    PROVE  ShellKeeps(m) /\ shell' \in Shells
<1>1. shell.current \in AnyWindow
  BY DEF Shells
<1>2. /\ shell' \in Shells /\ shell'.dialogs[w] = e /\ shell'.current = shell.current /\ shell'.pngs = shell.pngs
      /\ \A v \in Windows : v # w => shell'.dialogs[v] = shell.dialogs[v]
  BY <1>1, EntryIs
<1>3. \A v \in Windows : /\ shell'.dialogs[v].known => shell.dialogs[v].known
                         /\ shell'.dialogs[v].dom => shell.dialogs[v].dom
                         /\ shell'.dialogs[v].titled = shell.dialogs[v].titled
  BY <1>2
<1>4. PopUpsAreCurrent(shell) => PopUpsAreCurrent(shell')
  BY <1>2, <1>3, PopUpsStay
<1> QED BY <1>2, <1>4 DEF ShellKeeps

LEMMA CreatedChildKeeps ==
    ASSUME DialogsShape, NEW m \in FromDesk, m[1] = "created", m[4] # NoWindow, OnCreatedChild(m[2], m[4])
    PROVE  ShellKeeps(m)
<1>1. PICK w \in Windows : w = m[2]
  BY FromDeskIs
<1>2. PICK p \in Windows : p = m[4]
  BY FromDeskIs DEF AnyWindow
<1>3. CASE shell' = shell /\ snags' = snags
  BY <1>3 DEF ShellKeeps
<1>4. CASE /\ shell' = [shell EXCEPT !.dialogs[p].child = w, !.dialogs[p].floating = w,
                                     !.dialogs[p].floatDrawn = NoLook]
           /\ snags' = snags \cup (IF GetParentId(shell', w) # p THEN {"reused"} ELSE {})
  <2>1. PICK e : e = [shell.dialogs[p] EXCEPT !.child = w, !.floating = w, !.floatDrawn = NoLook]
    OBVIOUS
  <2>2. shell \in Shells /\ shell.dialogs[p] \in Entries
    BY DEF DialogsShape, Shells
  <2>3. /\ e \in Entries /\ e.known = shell.dialogs[p].known /\ e.dom = shell.dialogs[p].dom
        /\ e.titled = shell.dialogs[p].titled
    BY <2>1, <2>2, NoWindowIs DEF Entries, AnyLook
  <2>4. shell' = WithEntry(shell, p, e, shell.current)
    BY <1>4, <2>1, <2>2 DEF WithEntry, Shells
  <2>5. ("left" \in snags' <=> "left" \in snags) /\ ("nopng" \in snags' <=> "nopng" \in snags)
    BY <1>4
  <2> QED BY <2>2, <2>3, <2>4, <2>5, StayKeeps
<1> QED BY <1>1, <1>2, <1>3, <1>4, Zenon DEF OnCreatedChild

LEMMA CursorVisibleKeeps ==
    ASSUME DialogsShape, NEW m \in FromDesk, m[1] = "cursor_visible", OnCursorVisible(m[2], m[3])
    PROVE  ShellKeeps(m)
<1>1. PICK w \in Windows : w = m[2]
  BY FromDeskIs
<1>2. PICK on \in BOOLEAN : on = m[3]
  BY FromDeskIs
<1>3. shell \in Shells /\ shell.dialogs[w] \in Entries /\ snags' = snags
  BY DEF OnCursorVisible, DialogsShape, Shells
<1>4. CASE shell' = shell
  BY <1>3, <1>4 DEF ShellKeeps
<1>5. CASE shell' = [shell EXCEPT !.dialogs[w].caret = on]
  <2>1. PICK e : e = [shell.dialogs[w] EXCEPT !.caret = on]
    OBVIOUS
  <2>2. /\ e \in Entries /\ e.known = shell.dialogs[w].known /\ e.dom = shell.dialogs[w].dom
        /\ e.titled = shell.dialogs[w].titled
    BY <1>3, <2>1 DEF Entries
  <2>3. shell' = WithEntry(shell, w, e, shell.current)
    BY <1>3, <1>5, <2>1 DEF WithEntry, Shells
  <2> QED BY <1>3, <2>2, <2>3, StayKeeps
<1> QED BY <1>1, <1>2, <1>4, <1>5, Zenon DEF OnCursorVisible

LEMMA CloseMsgKeeps ==
    ASSUME DialogsShape, NEW m \in FromDesk, m[1] = "close", OnCloseMsg(m[2])
    PROVE  ShellKeeps(m)
<1>1. PICK w \in Windows : w = m[2]
  BY FromDeskIs
<1>2. PICK p : p = GetParentId(shell, w)
  OBVIOUS
<1>3. shell \in Shells
  BY DEF DialogsShape
<1>4. \/ p # NoWindow /\ OnDialogChildClose(p)
      \/ /\ shell' = OnDialogClose(shell, w)
         /\ snags' = snags \cup (IF Forgets(shell, w) THEN {"left"} ELSE {})
      \/ shell' = shell /\ snags' = snags
  BY <1>1, <1>2, Zenon DEF OnCloseMsg
<1>5. CASE p # NoWindow /\ OnDialogChildClose(p)
  <2>1. p \in Windows
    BY <1>2, <1>5, ParentIs
  <2>2. shell.dialogs[p] \in Entries
    BY <1>3, <2>1 DEF Shells
  <2>3. PICK e : e = [shell.dialogs[p] EXCEPT !.floating = NoWindow, !.floatDrawn = NoLook]
    OBVIOUS
  <2>4. /\ e \in Entries /\ e.known = shell.dialogs[p].known /\ e.dom = shell.dialogs[p].dom
        /\ e.titled = shell.dialogs[p].titled
    BY <2>2, <2>3, NoWindowIs DEF Entries, AnyLook
  <2>5. /\ shell' = [shell EXCEPT !.dialogs[p].floating = NoWindow, !.dialogs[p].floatDrawn = NoLook]
        /\ snags' = snags
    BY <1>5 DEF OnDialogChildClose
  <2>6. shell' = WithEntry(shell, p, e, shell.current)
    BY <1>3, <2>1, <2>2, <2>3, <2>5 DEF WithEntry, Shells
  <2> QED BY <1>3, <2>1, <2>4, <2>5, <2>6, StayKeeps
<1>6. CASE /\ shell' = OnDialogClose(shell, w)
           /\ snags' = snags \cup (IF Forgets(shell, w) THEN {"left"} ELSE {})
  <2>1. shell'.pngs = shell.pngs
    BY <1>3, <1>6, ClosedPngs
  <2>2. "left" \notin snags' => ~Forgets(shell, w)
    BY <1>6
  <2>3. "left" \notin snags' => PopUpsAreCurrent(shell')
    BY <1>3, <1>6, <2>2, PopUpsClosed
  <2>4. ("left" \notin snags' => "left" \notin snags) /\ ("nopng" \in snags' => "nopng" \in snags)
    BY <1>6
  <2> QED BY <2>1, <2>3, <2>4 DEF ShellKeeps
<1>7. CASE shell' = shell /\ snags' = snags
  BY <1>7 DEF ShellKeeps
<1> QED BY <1>4, <1>5, <1>6, <1>7

LEMMA DialogPaintKeeps ==
    ASSUME DialogsShape, NEW m \in FromDesk, m[1] = "windowpaint", OnDialogPaint(m[2], m[3], m[4])
    PROVE  ShellKeeps(m)
<1>1. PICK w \in Windows : w = m[2]
  BY FromDeskIs
<1>2. PICK look \in Looks : look = m[3]
  BY FromDeskIs
<1>3. shell \in Shells /\ OnDialogPaint(w, look, m[4])
  BY <1>1, <1>2 DEF DialogsShape
<1>4. /\ shell' \in Shells
      /\ shell'.pngs = MovedToFront(shell.pngs, look) /\ shell'.current = shell.current
      /\ \A v \in Windows :
            /\ shell'.dialogs[v].known = shell.dialogs[v].known
            /\ shell'.dialogs[v].dom = shell.dialogs[v].dom
            /\ shell'.dialogs[v].titled = shell.dialogs[v].titled
  BY <1>3, DialogPaintIs
<1>5. PopUpsAreCurrent(shell) => PopUpsAreCurrent(shell')
  BY <1>3, <1>4, PopUpsStay
<1>6. snags' = snags \cup (IF ~m[4] /\ ~Contains(shell.pngs, look) THEN {"nopng"} ELSE {})
  BY <1>2, Zenon DEF OnDialogPaint
<1>7. /\ "left" \notin snags' => "left" \notin snags
      /\ ("nopng" \in snags' => "nopng" \in snags) \/ (~m[4] /\ ~Contains(shell.pngs, m[3]))
  BY <1>2, <1>6
<1> QED BY <1>2, <1>4, <1>5, <1>7 DEF ShellKeeps

LEMMA ReceivesKeeps ==
    ASSUME DialogsInv, ShellReceives
    PROVE  \E m \in FromDesk : Hears(m) /\ ShellKeeps(m)
<1>1. PICK m \in FromDesk :
              /\ Hears(m)
              /\ \/ m[1] = "created" /\ m[4] = NoWindow /\ OnCreatedDialog(m[2], m[3])
                 \/ m[1] = "created" /\ m[4] # NoWindow /\ OnCreatedChild(m[2], m[4])
                 \/ m[1] = "invalidate" /\ OnInvalidate(m[2])
                 \/ m[1] = "size_changed" /\ OnSizeChanged(m[2])
                 \/ m[1] = "cursor_visible" /\ OnCursorVisible(m[2], m[3])
                 \/ m[1] = "close" /\ OnCloseMsg(m[2])
                 \/ m[1] = "windowpaint" /\ OnDialogPaint(m[2], m[3], m[4])
  BY ShellReceivesIs
<1>2. DialogsShape
  BY DEF DialogsInv
<1>3. CASE m[1] = "invalidate" /\ OnInvalidate(m[2])
  <2>1. shell' = shell /\ snags' = snags /\ m[1] # "windowpaint"
    BY <1>3 DEF OnInvalidate
  <2> QED BY <1>1, <2>1 DEF ShellKeeps
<1> QED BY <1>1, <1>2, <1>3, CreatedDialogKeeps, CreatedChildKeeps, SizeChangedKeeps, CursorVisibleKeeps,
           CloseMsgKeeps, DialogPaintKeeps

-----------------------------------------------------------------------------
(* The dialogs are right.                                                  *)

DialogsAreSound == DialogsInv /\ ListsAgree /\ PictureIsKnown /\ PopUpCanBeClosed

\* What is kept when the browser does nothing.
LEMMA ShellIsLeft ==
    ASSUME PictureIsKnown, PopUpCanBeClosed, shell' = shell, snags' = snags
    PROVE  PictureIsKnown' /\ PopUpCanBeClosed'
  BY DEF PictureIsKnown, PopUpCanBeClosed, IsOpen

LEMMA ListsLonger ==
    ASSUME DialogsShape, DialogsShape', ListsAgree, NEW m \in FromDesk, deskOut' = Append(deskOut, m),
           m[1] # "windowpaint", desk'.cache = desk.cache, shell'.pngs = shell.pngs
    PROVE  ListsAgree'
<1>1. deskOut \in Seq(FromDesk)
  BY DEF DialogsShape
<1>2. Adds(deskOut, deskOut', m)
  BY <1>1, AppendAdds
<1>3. Goes(deskOut, deskOut') /\ \A i \in Len(deskOut) + 1..Len(deskOut') : deskOut'[i] = m
  BY <1>2, AddsIs
<1> QED BY <1>3, ListsGrow

LEMMA ListsSame ==
    ASSUME DialogsShape, DialogsShape', ListsAgree, deskOut' = deskOut, desk'.cache = desk.cache,
           shell'.pngs = shell.pngs
    PROVE  ListsAgree'
<1>1. Goes(deskOut, deskOut') /\ \A i \in Len(deskOut) + 1..Len(deskOut') : FALSE
  BY DEF Goes, DialogsShape
<1> QED BY <1>1, ListsGrow

LEMMA ListsClosed ==
    ASSUME DialogsShape, DialogsShape', DeskInv, ListsAgree, NEW w \in Windows, KitCloses(w),
           shell'.pngs = shell.pngs
    PROVE  ListsAgree'
<1>1. desk'.cache = desk.cache /\ AddsCloses(deskOut, deskOut', Going(w))
  BY ClosesIs
<1>2. Goes(deskOut, deskOut') /\ \A i \in Len(deskOut) + 1..Len(deskOut') : deskOut'[i][1] = "close"
  BY <1>1 DEF AddsCloses, DialogsShape
<1> QED BY <1>1, <1>2, ListsGrow

LEMMA SoundOpens ==
    ASSUME DialogsAreSound, NEW titled \in BOOLEAN, NEW parent \in AnyWindow, NEW look \in Looks,
           KitOpens(titled, parent, look)
    PROVE  DialogsAreSound'
<1>0. DialogsInv /\ DialogsShape /\ ListsAgree /\ PictureIsKnown /\ PopUpCanBeClosed
  BY DEF DialogsAreSound, DialogsInv
<1>1. DialogsShape' /\ DialogsInv'
  BY <1>0, OpensPage, DialogsInvIs DEF DialogsInv, PageInv
<1>2. PICK w : w = desk.next
  OBVIOUS
<1>3. desk'.cache = desk.cache /\ shell' = shell /\ snags' = snags
  BY <1>0, <1>2, OpensIs
<1>4. PICK m \in FromDesk : Adds(deskOut, deskOut', m) /\ Creates(m, w)
  BY <1>0, <1>2, OpensIs
<1>5. Goes(deskOut, deskOut') /\ \A i \in Len(deskOut) + 1..Len(deskOut') : deskOut'[i] = m
  BY <1>0, <1>1, <1>4, AddsIs
<1>6. ListsAgree'
  BY <1>0, <1>1, <1>3, <1>4, <1>5, ListsGrow DEF Creates
<1>7. PictureIsKnown' /\ PopUpCanBeClosed'
  BY <1>0, <1>3, ShellIsLeft
<1> QED BY <1>1, <1>6, <1>7 DEF DialogsAreSound

LEMMA SoundRepaints ==
    ASSUME DialogsAreSound, NEW w \in Windows, NEW look \in Looks, KitRepaints(w, look)
    PROVE  DialogsAreSound'
<1>0. DialogsInv /\ DialogsShape /\ ListsAgree /\ PictureIsKnown /\ PopUpCanBeClosed
  BY DEF DialogsAreSound, DialogsInv
<1>1. DialogsShape' /\ DialogsInv'
  BY <1>0, RepaintsPage DEF DialogsInv, PageInv
<1>2. shell' = shell /\ snags' = snags /\ desk'.cache = desk.cache
  BY <1>0 DEF KitRepaints, DialogsShape, Desks
<1>3. PICK what \in {"invalidate", "size_changed"} : deskOut' = Append(deskOut, <<what, w>>)
  BY DEF KitRepaints
<1>4. PICK m : m = <<what, w>>
  OBVIOUS
<1>5. m \in FromDesk /\ m[1] # "windowpaint" /\ deskOut' = Append(deskOut, m)
  BY <1>3, <1>4 DEF FromDesk
<1>6. ListsAgree'
  BY <1>0, <1>1, <1>2, <1>5, ListsLonger
<1>7. PictureIsKnown' /\ PopUpCanBeClosed'
  BY <1>0, <1>2, ShellIsLeft
<1> QED BY <1>1, <1>6, <1>7 DEF DialogsAreSound

LEMMA SoundCaret ==
    ASSUME DialogsAreSound, NEW w \in Windows, NEW on \in BOOLEAN, KitCaret(w, on)
    PROVE  DialogsAreSound'
<1>0. DialogsInv /\ DialogsShape /\ ListsAgree /\ PictureIsKnown /\ PopUpCanBeClosed
  BY DEF DialogsAreSound, DialogsInv
<1>1. DialogsShape' /\ DialogsInv'
  BY <1>0, CaretPage DEF DialogsInv, PageInv
<1>2. shell' = shell /\ snags' = snags /\ desk' = desk
  BY DEF KitCaret
<1>3. PICK m : m = <<"cursor_visible", w, on>>
  OBVIOUS
<1>4. m \in FromDesk /\ m[1] # "windowpaint"
  BY <1>3 DEF FromDesk
<1>5. deskOut' = Append(deskOut, m)
  BY <1>3, Zenon DEF KitCaret
<1>6. ListsAgree'
  BY <1>0, <1>1, <1>2, <1>4, <1>5, ListsLonger
<1>7. PictureIsKnown' /\ PopUpCanBeClosed'
  BY <1>0, <1>2, ShellIsLeft
<1> QED BY <1>1, <1>6, <1>7 DEF DialogsAreSound

LEMMA SoundClosesByItself ==
    ASSUME DialogsAreSound, NEW w \in Windows, KitClosesByItself(w)
    PROVE  DialogsAreSound'
<1>0. DialogsInv /\ DialogsShape /\ DeskInv /\ ListsAgree /\ PictureIsKnown /\ PopUpCanBeClosed
  BY DEF DialogsAreSound, DialogsInv
<1>1. DialogsShape' /\ DialogsInv'
  BY <1>0, ClosesByItselfPage DEF DialogsInv, PageInv
<1>2. shell' = shell /\ snags' = snags /\ KitCloses(w)
  BY DEF KitClosesByItself
<1>3. ListsAgree'
  BY <1>0, <1>1, <1>2, ListsClosed
<1>4. PictureIsKnown' /\ PopUpCanBeClosed'
  BY <1>0, <1>2, ShellIsLeft
<1> QED BY <1>1, <1>3, <1>4 DEF DialogsAreSound

LEMMA ListsPainted ==
    ASSUME DialogsInv, DialogsShape', ListsAgree, NEW w \in Windows, desk.wins[w].open, RenderWindow(w),
           shell' = shell
    PROVE  ListsAgree'
<1>0. DialogsShape /\ DeskInv /\ desk \in Desks /\ deskOut \in Seq(FromDesk)
  BY DEF DialogsInv, DialogsShape
<1>1. PICK look : look = desk.wins[w].look
  OBVIOUS
<1>2. look \in Looks
  BY <1>0, <1>1 DEF DeskInv, WindowsAreSound
<1>3. PICK x : x = MovedToFront(desk.cache, look)
  OBVIOUS
<1>4. desk' = [desk EXCEPT !.cache = x]
  BY <1>1, <1>3, Zenon DEF RenderWindow
<1>5. desk'.cache = x
  BY <1>0, <1>4 DEF Desks
<1>6. deskOut' = Append(deskOut, <<"windowpaint", w, look, ~Contains(desk.cache, look)>>)
  BY <1>1, Zenon DEF RenderWindow
<1>7. PICK b \in BOOLEAN : b = ~Contains(desk.cache, look)
  BY ContainsOrNot
<1>8. deskOut' = Append(deskOut, <<"windowpaint", w, look, b>>)
  BY <1>6, <1>7, Zenon
<1>9. PICK m : m = <<"windowpaint", w, look, b>>
  OBVIOUS
<1>10. m \in FromDesk /\ m[1] = "windowpaint" /\ m[3] = look /\ m[4] = b
  BY <1>2, <1>9 DEF FromDesk
<1>11. Adds(deskOut, deskOut', m)
  <2>1. deskOut' = Append(deskOut, m)
    BY <1>8, <1>9
  <2> QED BY <1>0, <1>10, <2>1, AppendAdds
<1>12. desk'.cache = MovedToFront(desk.cache, m[3])
  BY <1>3, <1>5, <1>10
<1>13. ~m[4] => Contains(desk.cache, m[3])
  <2>1. ~b => Contains(desk.cache, look)
    BY <1>7, Zenon
  <2> QED BY <1>10, <2>1
<1> QED BY <1>0, <1>10, <1>11, <1>12, <1>13, ListsRendered

LEMMA SoundAnswers ==
    ASSUME DialogsAreSound, DeskAnswers
    PROVE  DialogsAreSound'
<1>0. /\ DialogsInv /\ DialogsShape /\ DeskInv /\ ListsAgree /\ PictureIsKnown /\ PopUpCanBeClosed
      /\ deskIn \in Seq(ToDesk)
  BY DEF DialogsAreSound, DialogsInv, DialogsShape
<1>1. DialogsShape' /\ DialogsInv'
  BY <1>0, AnswersPage DEF DialogsInv, PageInv
<1>2. shell' = shell /\ snags' = snags /\ deskIn # <<>>
  BY DEF DeskAnswers
<1>3. PICK w : w = Head(deskIn)[2]
  OBVIOUS
<1>4. Head(deskIn) \in ToDesk
  BY <1>0, <1>2
<1>5. w \in Windows
  BY <1>3, <1>4, ToDeskIs
<1>6. RenderWindow(w) \/ KitCloses(w) \/ (desk' = desk /\ deskOut' = deskOut)
  BY <1>3, Zenon DEF DeskAnswers
<1>7. ASSUME RenderWindow(w), desk.wins[w].open PROVE ListsAgree'
  BY <1>0, <1>1, <1>2, <1>5, <1>7, ListsPainted
<1>8. ASSUME RenderWindow(w), ~desk.wins[w].open PROVE ListsAgree'
  <2>1. desk' = desk /\ deskOut' = deskOut
    BY <1>8 DEF RenderWindow
  <2> QED BY <1>0, <1>1, <1>2, <2>1, ListsSame
<1>9. ASSUME KitCloses(w) PROVE ListsAgree'
  BY <1>0, <1>1, <1>2, <1>5, <1>9, ListsClosed
<1>10. ASSUME desk' = desk, deskOut' = deskOut PROVE ListsAgree'
  BY <1>0, <1>1, <1>2, <1>10, ListsSame
<1>11. ListsAgree'
  BY <1>6, <1>7, <1>8, <1>9, <1>10
<1>12. PictureIsKnown' /\ PopUpCanBeClosed'
  BY <1>0, <1>2, ShellIsLeft
<1> QED BY <1>1, <1>11, <1>12 DEF DialogsAreSound

LEMMA PopUpIs == PopUpCanBeClosed <=> ("left" \notin snags => PopUpsAreCurrent(shell))
  BY DEF PopUpCanBeClosed, PopUpsAreCurrent

LEMMA SoundReceives ==
    ASSUME DialogsAreSound, ShellReceives
    PROVE  DialogsAreSound'
<1>0. DialogsInv /\ DialogsShape /\ ListsAgree /\ PictureIsKnown /\ PopUpCanBeClosed
  BY DEF DialogsAreSound, DialogsInv
<1>1. DialogsShape' /\ DialogsInv'
  BY <1>0, ReceivesPage DEF DialogsInv, PageInv
<1>2. PICK m \in FromDesk : Hears(m) /\ ShellKeeps(m)
  BY <1>0, ReceivesKeeps
<1>3. shell'.pngs = IF m[1] = "windowpaint" THEN MovedToFront(shell.pngs, m[3]) ELSE shell.pngs
  BY <1>2 DEF ShellKeeps
<1>4. ListsAgree' /\ (m[1] = "windowpaint" /\ ~m[4] => Contains(shell.pngs, m[3]))
  BY <1>0, <1>1, <1>2, <1>3, ListsRead
<1>5. PictureIsKnown'
  BY <1>0, <1>2, <1>4 DEF ShellKeeps, PictureIsKnown
<1>6. "left" \notin snags' => PopUpsAreCurrent(shell')
  BY <1>0, <1>2, PopUpIs DEF ShellKeeps
<1>7. PopUpCanBeClosed'
  BY <1>6 DEF PopUpCanBeClosed, PopUpsAreCurrent
<1> QED BY <1>1, <1>4, <1>5, <1>7 DEF DialogsAreSound

LEMMA SoundUserCloses ==
    ASSUME DialogsAreSound, NEW w \in Windows, UserClosesDialog(w)
    PROVE  DialogsAreSound'
<1>0. DialogsInv /\ DialogsShape /\ ListsAgree /\ PictureIsKnown /\ PopUpCanBeClosed /\ shell \in Shells
  BY DEF DialogsAreSound, DialogsInv, DialogsShape
<1>1. DialogsShape' /\ DialogsInv'
  BY <1>0, UserClosesPage DEF DialogsInv, PageInv
<1>2. /\ shell' = OnDialogClose(shell, w) /\ desk' = desk /\ deskOut' = deskOut
      /\ snags' = snags \cup (IF Forgets(shell, w) THEN {"left"} ELSE {})
  BY DEF UserClosesDialog
<1>3. shell'.pngs = shell.pngs
  BY <1>0, <1>2, ClosedPngs
<1>4. ListsAgree'
  BY <1>0, <1>1, <1>2, <1>3, ListsSame
<1>5. PictureIsKnown'
  BY <1>0, <1>2 DEF PictureIsKnown
<1>6. "left" \notin snags' => PopUpsAreCurrent(shell')
  BY <1>0, <1>2, PopUpsClosed
<1>7. PopUpCanBeClosed'
  BY <1>6 DEF PopUpCanBeClosed, PopUpsAreCurrent
<1> QED BY <1>1, <1>4, <1>5, <1>7 DEF DialogsAreSound

LEMMA SoundMouseUp ==
    ASSUME DialogsAreSound, MouseUp
    PROVE  DialogsAreSound'
<1>0. DialogsInv /\ DialogsShape /\ ListsAgree /\ PictureIsKnown /\ PopUpCanBeClosed /\ shell \in Shells
  BY DEF DialogsAreSound, DialogsInv, DialogsShape
<1>1. DialogsShape' /\ DialogsInv'
  BY <1>0, MouseUpPage DEF DialogsInv, PageInv
<1>2. IsPopUp(shell) /\ desk' = desk /\ deskOut' = deskOut /\ snags' = snags
  BY DEF MouseUp
<1>3. PICK w : w = shell.current
  OBVIOUS
<1>4. w \in Windows
  BY <1>2, <1>3 DEF IsPopUp, IsOpen
<1>5. shell' = OnDialogClose(shell, w)
  BY <1>2, <1>3 DEF MouseUp, WithoutPopUp
<1>6. shell'.pngs = shell.pngs
  BY <1>0, <1>4, <1>5, ClosedPngs
<1>7. ListsAgree'
  BY <1>0, <1>1, <1>2, <1>6, ListsSame
<1>8. PictureIsKnown'
  BY <1>0, <1>2 DEF PictureIsKnown
<1>9. ASSUME "left" \notin snags' PROVE PopUpsAreCurrent(shell')
  <2>1. PopUpsAreCurrent(shell)
    BY <1>0, <1>2, <1>9, PopUpIs
  <2>2. ~Forgets(shell, w)
    BY <1>3, <2>1 DEF Forgets, PopUpsAreCurrent
  <2> QED BY <1>0, <1>4, <1>5, <2>2, PopUpsClosed
<1>10. PopUpCanBeClosed'
  BY <1>9 DEF PopUpCanBeClosed, PopUpsAreCurrent
<1> QED BY <1>1, <1>7, <1>8, <1>10 DEF DialogsAreSound

\* A list that is empty begins any list.
LEMMA ListsEmpty ==
    ASSUME NEW o, Len(o) = 0, NEW x \in Lists, Len(x) = 0, NEW p \in Lists
    PROVE  \E C \in [1..Len(o) + 1 -> Lists] :
              /\ Begins(C[1], p) /\ C[Len(o) + 1] = x
              /\ \A i \in 1..Len(o) : Follows(C[i], C[i + 1], o[i])
<1>1. PICK C : C = [i \in 1..Len(o) + 1 |-> x]
  OBVIOUS
<1>2. C \in [1..Len(o) + 1 -> Lists] /\ C[1] = x /\ C[Len(o) + 1] = x
  BY <1>1
<1>3. Len(p) \in Nat
  BY DEF Lists
<1>4. Begins(x, p)
  BY <1>3 DEF Begins
<1>5. \A i \in 1..Len(o) : FALSE
  OBVIOUS
<1> QED BY <1>2, <1>4, <1>5

LEMMA SoundLoses ==
    ASSUME DialogsAreSound, LoseDesk
    PROVE  DialogsAreSound'
<1>0. DialogsInv /\ DialogsShape /\ PictureIsKnown /\ PopUpCanBeClosed /\ shell \in Shells
  BY DEF DialogsAreSound, DialogsInv, DialogsShape
<1>1. DialogsShape' /\ DialogsInv'
  BY <1>0, LosesPage DEF DialogsInv, PageInv
<1>2. desk'.cache = <<>> /\ deskOut' = <<>> /\ snags' = snags
  BY DEF LoseDesk
<1>3. Len(desk'.cache) = 0 /\ Len(deskOut') = 0
  BY <1>2
<1>4. ListsAgree'
  <2>1. desk'.cache \in Lists /\ shell'.pngs \in Lists
    BY <1>1 DEF DialogsShape, Desks, Shells
  <2> QED BY <1>3, <2>1, ListsEmpty DEF ListsAgree
<1>5. PictureIsKnown'
  BY <1>0, <1>2 DEF PictureIsKnown
<1>6. ASSUME NEW w \in Windows PROVE ~IsOpen(shell', w)
  <2>1. shell'.dialogs = [v \in Windows |->
                    [shell.dialogs[v] EXCEPT !.dom = FALSE, !.shown = FALSE, !.drawn = NoLook,
                                 !.floating = NoWindow, !.floatDrawn = NoLook]]
    BY <1>0 DEF LoseDesk, Shells
  <2>2. shell.dialogs[w] \in Entries
    BY <1>0 DEF Shells
  <2>3. ~shell'.dialogs[w].dom
    BY <2>1, <2>2 DEF Entries
  <2> QED BY <2>3 DEF IsOpen
<1>7. PopUpCanBeClosed'
  BY <1>6 DEF PopUpCanBeClosed
<1> QED BY <1>1, <1>4, <1>5, <1>7 DEF DialogsAreSound

LEMMA SoundInit == DialogsInit => DialogsAreSound
<1> SUFFICES ASSUME DialogsInit PROVE DialogsAreSound
  OBVIOUS
<1>1. PICK x : x = [w \in Windows |-> Closed]
  OBVIOUS
<1>2. x \in [Windows -> Wins] /\ \A w \in Windows : ~x[w].open
  BY <1>1, NoWindowIs DEF Closed, Wins, AnyLook
<1>3. PICK y : y = [w \in Windows |-> NoDialog]
  OBVIOUS
<1>4. y \in [Windows -> Entries] /\ \A w \in Windows : ~y[w].dom
  BY <1>3, NoDialogIs
<1>5. PICK q : q = <<>>
  OBVIOUS
<1>6. q \in Lists /\ q \in Seq(FromDesk) /\ q \in Seq(ToDesk) /\ Len(q) = 0
  BY <1>5, DialogsAssumption DEF Lists
<1>7. /\ desk = [wins |-> x, next |-> 1, cache |-> q] /\ deskIn = q /\ deskOut = q
      /\ shell = [dialogs |-> y, current |-> NoWindow, pngs |-> q]
      /\ snags = {}
  BY <1>1, <1>3, <1>5, Zenon DEF DialogsInit
<1>8. desk \in Desks /\ desk.wins = x /\ desk.cache = q
  BY <1>2, <1>6, <1>7 DEF Desks
<1>9. shell \in Shells /\ shell.dialogs = y
  BY <1>4, <1>6, <1>7, NoWindowIs DEF Shells
<1>10. DialogsShape
  BY <1>6, <1>7, <1>8, <1>9 DEF DialogsShape
<1>11. DeskInv
  <2>1. WindowsAreSound
    BY <1>2, <1>8 DEF WindowsAreSound, HangsOn, IsTop
  <2>2. \A i \in 1..Len(deskOut) : FALSE
    BY <1>6, <1>7
  <2> QED BY <2>1, <2>2 DEF DeskInv, Announced, AnnouncedUnder, ClosedForGood, ResizedIsTop
<1>12. PageInv
  BY <1>2, <1>4, <1>8, <1>9 DEF PageInv, PageIsKnown, PageIsTheKits, DialogsSettle, ChildrenSettle, IsTop, HangsOn
<1>13. ListsAgree
  <2>1. desk.cache \in Lists /\ shell.pngs \in Lists /\ Len(desk.cache) = 0 /\ Len(deskOut) = 0
    BY <1>6, <1>7, <1>8, <1>9 DEF Shells
  <2> QED BY <2>1, ListsEmpty DEF ListsAgree
<1>14. PictureIsKnown /\ PopUpCanBeClosed
  BY <1>4, <1>7, <1>9 DEF PictureIsKnown, PopUpCanBeClosed, IsOpen
<1> QED BY <1>10, <1>11, <1>12, <1>13, <1>14, DialogsInvIs DEF DialogsAreSound

LEMMA SoundStep ==
    ASSUME DialogsAreSound, [DialogsNext]_dialogsVars
    PROVE  DialogsAreSound'
<1>1. CASE UNCHANGED dialogsVars
  <2>0. /\ DialogsInv /\ DialogsShape /\ DeskInv /\ PageInv /\ ListsAgree /\ PictureIsKnown /\ PopUpCanBeClosed
        /\ desk' = desk /\ deskIn' = deskIn /\ deskOut' = deskOut /\ shell' = shell /\ snags' = snags
    BY <1>1, DialogsInvIs DEF dialogsVars, DialogsAreSound
  <2>1. DialogsShape'
    BY <2>0 DEF DialogsShape
  <2>2. DeskInv'
    BY <2>0 DEF DeskInv, WindowsAreSound, Announced, AnnouncedUnder, ClosedForGood, ResizedIsTop, HangsOn,
                IsTop, Creates, CreatesUnder, Closes
  <2>3. ASSUME NEW v \in Windows
        PROVE  /\ ComesCreated(v)' <=> ComesCreated(v)
               /\ ComesClose(v)' <=> ComesClose(v)
               /\ GoesClose(v)' <=> GoesClose(v)
               /\ IsTop(v)' <=> IsTop(v)
    BY <2>0 DEF ComesCreated, ComesClose, GoesClose, Creates, Closes, IsTop
  <2>4. ASSUME NEW v \in Windows, NEW l PROVE PaintedOn(v, l)' <=> PaintedOn(v, l)
    BY <2>0 DEF PaintedOn, WillBePainted, Asks, Wakes, Paints
  <2>5. ASSUME NEW v \in Windows, IsPainted(v) PROVE IsPainted(v)'
    BY <2>0, <2>4, <2>5, Zenon DEF IsPainted
  <2>6. ASSUME NEW c \in Windows, NEW w \in Windows, Attached(c, w) PROVE Attached(c, w)'
    BY <2>0, <2>4, <2>6, Zenon DEF Attached
  <2>7. PageInv'
    <3>1. PageIsKnown'
      BY <2>0, <2>3 DEF PageInv, PageIsKnown
    <3>2. "reused" \notin snags => PageIsTheKits'
      BY <2>0, <2>3 DEF PageInv, PageIsTheKits
    <3>3. "reused" \notin snags => DialogsSettle'
      BY <2>0, <2>3, <2>5 DEF PageInv, DialogsSettle
    <3>4. snags \cap {"reused", "relaunched"} = {} => ChildrenSettle'
      BY <2>0, <2>3, <2>6 DEF PageInv, ChildrenSettle, HangsOn
    <3> QED BY <2>0, <3>1, <3>2, <3>3, <3>4 DEF PageInv
  <2>8. ListsAgree'
    BY <2>0, <2>1, ListsSame
  <2>9. PictureIsKnown' /\ PopUpCanBeClosed'
    BY <2>0, ShellIsLeft
  <2> QED BY <2>1, <2>2, <2>7, <2>8, <2>9 DEF DialogsAreSound, DialogsInv, PageInv
<1>2. CASE DialogsNext
  BY <1>2, SoundOpens, SoundRepaints, SoundCaret, SoundClosesByItself, SoundUserCloses, SoundAnswers,
     SoundReceives, SoundMouseUp, SoundLoses DEF DialogsNext
<1> QED BY <1>1, <1>2

LEMMA SoundMatches == DialogsAreSound => DialogsMatch
<1> SUFFICES ASSUME DialogsAreSound, deskIn = <<>>, deskOut = <<>>, "reused" \notin snags
             PROVE  /\ OpenDialogs = {w \in Windows : IsOpen(shell, w)}
                    /\ \A w \in OpenDialogs :
                          /\ shell.dialogs[w].shown /\ shell.dialogs[w].drawn = desk.wins[w].look
                          /\ \/ "relaunched" \in snags
                             \/ \A c \in ChildrenOf(w) :
                                    /\ shell.dialogs[w].floating = c
                                    /\ shell.dialogs[w].floatDrawn = desk.wins[c].look
  BY DEF DialogsMatch, DialogsQuiet
<1>1. DialogsInv /\ DeskInv /\ PageIsTheKits /\ DialogsSettle
  BY DEF DialogsAreSound, DialogsInv
<1>2. /\ \A i \in 1..Len(deskIn) : FALSE
      /\ \A i \in 1..Len(deskOut) : FALSE
  OBVIOUS
<1>3. \A v \in Windows : ~ComesCreated(v) /\ ~ComesClose(v) /\ ~GoesClose(v)
  BY <1>2 DEF ComesCreated, ComesClose, GoesClose
<1>4. ASSUME NEW v \in Windows, NEW l, PaintedOn(v, l) PROVE l = desk.wins[v].look
  BY <1>2, <1>4 DEF PaintedOn, WillBePainted
<1>5. ASSUME NEW w \in Windows, IsTop(w)
      PROVE  IsOpen(shell, w) /\ shell.dialogs[w].shown /\ shell.dialogs[w].drawn = desk.wins[w].look
  <2>1. IsOpen(shell, w) /\ IsPainted(w)
    BY <1>1, <1>3, <1>5 DEF DialogsSettle
  <2>2. PICK l : l = IF shell.dialogs[w].shown THEN shell.dialogs[w].drawn ELSE NoLook
    OBVIOUS
  <2>3. PaintedOn(w, l)
    BY <2>1, <2>2, Zenon DEF IsPainted
  <2>4. l = desk.wins[w].look
    BY <1>4, <2>3
  <2>5. desk.wins[w].look \in Looks
    BY <1>1, <1>5 DEF DeskInv, WindowsAreSound, IsTop
  <2>6. l # NoLook
    BY <2>4, <2>5, DialogsAssumption DEF NoLook
  <2> QED BY <2>1, <2>2, <2>4, <2>6
<1>6. ASSUME NEW w \in Windows, IsOpen(shell, w) PROVE IsTop(w)
  BY <1>1, <1>3, <1>6 DEF PageIsTheKits, IsOpen, IsTop
<1>7. OpenDialogs = {w \in Windows : IsOpen(shell, w)}
  BY <1>5, <1>6 DEF OpenDialogs, IsTop
<1>8. ASSUME NEW w \in OpenDialogs, NEW c \in ChildrenOf(w), "relaunched" \notin snags
      PROVE  shell.dialogs[w].floating = c /\ shell.dialogs[w].floatDrawn = desk.wins[c].look
  <2>1. w \in Windows /\ c \in Windows /\ HangsOn(c, w)
    BY NoWindowIs DEF OpenDialogs, ChildrenOf, HangsOn
  <2>2. Attached(c, w)
    BY <1>3, <1>8, <2>1 DEF DialogsAreSound, DialogsInv, ChildrenSettle
  <2>3. PICK l : l = shell.dialogs[w].floatDrawn
    OBVIOUS
  <2>4. PaintedOn(c, l)
    BY <2>2, <2>3, Zenon DEF Attached
  <2>5. l = desk.wins[c].look
    BY <1>4, <2>1, <2>4
  <2> QED BY <2>2, <2>3, <2>5 DEF Attached
<1> QED BY <1>5, <1>7, <1>8 DEF OpenDialogs, IsTop

=============================================================================
