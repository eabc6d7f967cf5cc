------------------------ MODULE BrowserEditing_proofs -------------------------
(***************************************************************************)
(* What the user selects, copies and pastes, and where the browser shows   *)
(* the cell cursor, for any texts, cells, keys and number of messages.     *)
(***************************************************************************)
EXTENDS BrowserDocument, SequenceTheorems, TLAPS

-----------------------------------------------------------------------------
(* Queues: what is known once all of them has been read.                   *)

\* now, unless a message of one of the kinds K tells otherwise; the last one counts.
Final(q, K, now, x) ==
    \/ x = now /\ \A j \in 1..Len(q) : q[j][1] \notin K
    \/ \E i \in 1..Len(q) : /\ q[i][1] \in K /\ x = q[i][2]
                            /\ \A j \in 1..Len(q) : j > i => q[j][1] \notin K

LEMMA Appended ==
    ASSUME NEW M, NEW q \in Seq(M), NEW m \in M
    PROVE  /\ Append(q, m) \in Seq(M) /\ Len(Append(q, m)) = Len(q) + 1
           /\ \A i \in 1..Len(q) : Append(q, m)[i] = q[i] /\ i \in 1..Len(Append(q, m))
           /\ Append(q, m)[Len(q) + 1] = m /\ Len(q) + 1 \in 1..Len(Append(q, m))
           /\ \A i \in 1..Len(Append(q, m)) : i \in 1..Len(q) \/ i = Len(q) + 1
  OBVIOUS

LEMMA Behead ==
    ASSUME NEW M, NEW q \in Seq(M), q # <<>>
    PROVE  /\ Tail(q) \in Seq(M) /\ Head(q) \in M /\ Head(q) = q[1] /\ 1 \in 1..Len(q)
           /\ Len(q) \in Nat /\ Len(Tail(q)) = Len(q) - 1
           /\ \A i \in 1..Len(Tail(q)) : Tail(q)[i] = q[i + 1] /\ i + 1 \in 1..Len(q)
           /\ \A i \in 1..Len(q) : i = 1 \/ (i - 1 \in 1..Len(Tail(q)) /\ Tail(q)[i - 1] = q[i])
  OBVIOUS

LEMMA TwoAppended ==
    ASSUME NEW M, NEW q \in Seq(M), NEW m \in M, NEW n \in M
    PROVE  q \o <<m, n>> = Append(Append(q, m), n)
  <1> DEFINE r == q \o <<m, n>>
             p == Append(q, m)
             s == Append(p, n)
  <1>1. r \in Seq(M) /\ Len(r) = Len(q) + 2
        /\ r[Len(q) + 1] = m /\ r[Len(q) + 2] = n /\ \A i \in 1..Len(q) : r[i] = q[i]
    OBVIOUS
  <1>2. p \in Seq(M) /\ Len(p) = Len(q) + 1 /\ p[Len(q) + 1] = m /\ \A i \in 1..Len(q) : p[i] = q[i]
    OBVIOUS
  <1>3. s \in Seq(M) /\ Len(s) = Len(p) + 1 /\ s[Len(p) + 1] = n /\ \A i \in 1..Len(p) : s[i] = p[i]
    <2> HIDE DEF p
    <2> QED BY <1>2
  <1> HIDE DEF r, p, s
  <1>4. Len(s) = Len(r) /\ \A i \in 1..Len(r) : r[i] = s[i]
    BY <1>1, <1>2, <1>3
  <1>5. r = s
    BY <1>1, <1>3, <1>4
  <1> QED BY <1>5 DEF r, p, s

LEMMA FinalAppend ==
    ASSUME NEW M, NEW q \in Seq(M), NEW m \in M, NEW K, NEW now
    PROVE  /\ m[1] \in K => Final(Append(q, m), K, now, m[2])
           /\ m[1] \notin K => \A x : Final(q, K, now, x) => Final(Append(q, m), K, now, x)
  <1> DEFINE r == Append(q, m)
  <1>1. /\ Len(q) \in Nat /\ Len(r) = Len(q) + 1
        /\ \A i \in 1..Len(q) : r[i] = q[i] /\ i \in 1..Len(r)
        /\ r[Len(q) + 1] = m /\ Len(q) + 1 \in 1..Len(r)
        /\ \A i \in 1..Len(r) : i \in 1..Len(q) \/ i = Len(q) + 1
    BY Appended
  <1> HIDE DEF r
  <1>2. ASSUME m[1] \in K PROVE Final(r, K, now, m[2])
    <2>1. \A j \in 1..Len(r) : ~(j > Len(q) + 1)
      BY <1>1
    <2> QED BY <1>1, <1>2, <2>1 DEF Final
  <1>3. ASSUME m[1] \notin K, NEW x, Final(q, K, now, x) PROVE Final(r, K, now, x)
    <2>1. CASE x = now /\ \A j \in 1..Len(q) : q[j][1] \notin K
      BY <1>1, <1>3, <2>1 DEF Final
    <2>2. CASE \E i \in 1..Len(q) : /\ q[i][1] \in K /\ x = q[i][2]
                                    /\ \A j \in 1..Len(q) : j > i => q[j][1] \notin K
      BY <1>1, <1>3, <2>2 DEF Final
    <2> QED BY <1>3, <2>1, <2>2 DEF Final
  <1> QED BY <1>2, <1>3 DEF r

LEMMA FinalTail ==
    ASSUME NEW M, NEW q \in Seq(M), q # <<>>, NEW K, NEW now, NEW x, Final(q, K, now, x)
    PROVE  Final(Tail(q), K, IF Head(q)[1] \in K THEN Head(q)[2] ELSE now, x)
  <1> DEFINE r == Tail(q)
             h == Head(q)
  <1>1. /\ h = q[1] /\ Len(q) \in Nat /\ Len(r) = Len(q) - 1 /\ 1 \in 1..Len(q)
        /\ \A i \in 1..Len(r) : r[i] = q[i + 1] /\ i + 1 \in 1..Len(q)
        /\ \A i \in 1..Len(q) : i = 1 \/ (i - 1 \in 1..Len(r) /\ r[i - 1] = q[i])
    BY Behead
  <1> HIDE DEF r, h
  <1> SUFFICES Final(r, K, IF h[1] \in K THEN h[2] ELSE now, x)
    BY DEF r, h
  <1>2. CASE x = now /\ \A j \in 1..Len(q) : q[j][1] \notin K
    BY <1>1, <1>2 DEF Final
  <1>3. CASE \E i \in 1..Len(q) : /\ q[i][1] \in K /\ x = q[i][2]
                                  /\ \A j \in 1..Len(q) : j > i => q[j][1] \notin K
    <2>1. PICK i \in 1..Len(q) : /\ q[i][1] \in K /\ x = q[i][2]
                                 /\ \A j \in 1..Len(q) : j > i => q[j][1] \notin K
      BY <1>3
    <2>2. CASE i = 1
      <3>1. \A j \in 1..Len(r) : r[j][1] \notin K
        BY <1>1, <2>1, <2>2, SMTT(30)
      <3> QED BY <1>1, <2>1, <2>2, <3>1 DEF Final
    <2>3. CASE i # 1
      <3>1. i - 1 \in 1..Len(r) /\ r[i - 1] = q[i]
        BY <1>1, <2>3
      <3>2. \A j \in 1..Len(r) : j > i - 1 => r[j][1] \notin K
        BY <1>1, <2>1
      <3> QED BY <2>1, <3>1, <3>2 DEF Final
    <2> QED BY <2>2, <2>3
  <1> QED BY <1>2, <1>3 DEF Final

LEMMA FinalNow == ASSUME NEW K, NEW now, NEW x, Final(<<>>, K, now, x) PROVE x = now
  BY DEF Final
-----------------------------------------------------------------------------
(* The clipboard.                                                          *)

ClipToKit == {"gettextselection", "copy", "cut", "pasteinternal", "paste"} \X AnyText
ClipFromKit == {"textselection", "textselectioncontent", "cellformula"} \X AnyText

ClipTyped ==
    /\ toKit \in Seq(ClipToKit) /\ fromKit \in Seq(ClipFromKit)
    /\ kit \in [selected: AnyText, clipboard: AnyText, pasted: AnyText, wanted: AnyText]
    /\ copying \in [calc: {"unknown", "yes", "no"}, shown: AnyText, content: AnyText,
                    due: BOOLEAN, hash: AnyText]
    /\ clipboard \in [text: AnyText, ours: BOOLEAN]

Selections == {"textselection"}
ContentsOf == {"textselectioncontent", "cellformula"}

\* The browser hears what is selected, or that nothing is.
SelectionIsTold ==
    \E t \in {NoText, kit.selected} : Final(fromKit, Selections, copying.shown, t)

\* Unless nothing is selected, its text is here, or it is asked for, or will be.
ContentFollows ==
    \/ Final(fromKit, Selections, copying.shown, NoText)
    \/ copying.due
    \/ \E i \in 1..Len(fromKit) : fromKit[i][1] = "textselection" /\ fromKit[i][2] # NoText
    \/ \E i \in 1..Len(toKit) : toKit[i][1] = "gettextselection"
    \/ Final(fromKit, ContentsOf, copying.content, kit.selected)

\* What the kit k has on its clipboard when it has read n messages of q.  Nothing
\* else is selected while a copy is under way, but a cut takes the selection away.
Held(k, q, n) ==
    IF k.selected # NoText /\ \E j \in 1..n : q[j][1] \in {"copy", "cut"}
    THEN k.selected ELSE k.clipboard

\* The kit's clipboard is the copy that the paste was asked for, and the last
\* copy is what the browser takes it for.
PastesAreHeld ==
    slips = {} =>
        /\ \A i \in 1..Len(toKit) : toKit[i][1] = "pasteinternal" => toKit[i][2] = Held(kit, toKit, i - 1)
        /\ copying.hash # NoText => copying.hash = Held(kit, toKit, Len(toKit))

OursIsRecognised ==
    clipboard.ours =>
        /\ copying.calc # "unknown" /\ copying.hash # NoText
        /\ clipboard.text = copying.hash \/ (copying.calc = "yes" /\ copying.hash.blank)

ClipInv ==
    /\ ClipTyped
    /\ SelectionIsTold
    /\ ContentFollows
    /\ PastesAreHeld
    /\ PasteIsFromClipboard
    /\ OursIsRecognised

LEMMA ClipRight == ASSUME ClipInv PROVE ContentSettles /\ PasteIsFromClipboard /\ OwnCopyIsRecognised
  <1>1. ContentSettles
    <2> SUFFICES ASSUME ~copying.due, toKit = <<>>, fromKit = <<>>, copying.shown # NoText
                 PROVE  copying.content = copying.shown /\ copying.content = kit.selected
      BY DEF ContentSettles
    <2>1. Len(toKit) = 0 /\ Len(fromKit) = 0
      OBVIOUS
    <2>2. copying.shown = kit.selected
      BY FinalNow DEF ClipInv, SelectionIsTold
    <2>3. ~Final(fromKit, Selections, copying.shown, NoText)
      BY FinalNow
    <2>4. copying.content = kit.selected
      BY <2>1, <2>3, FinalNow DEF ClipInv, ContentFollows
    <2> QED BY <2>2, <2>4
  <1>2. OwnCopyIsRecognised
    BY DEF ClipInv, OursIsRecognised, OwnCopyIsRecognised, DataTransfer
  <1> QED BY <1>1, <1>2 DEF ClipInv

LEMMA ClipInitInv == ClipInit => ClipInv
  <1> SUFFICES ASSUME ClipInit PROVE ClipInv
    OBVIOUS
  <1> USE DEF ClipInit
  <1>1. NoText \in AnyText
    BY DEF AnyText
  <1>2. Final(fromKit, Selections, copying.shown, NoText)
    BY DEF Final
  <1>3. ClipTyped
    BY <1>1 DEF ClipTyped
  <1>4. SelectionIsTold /\ ContentFollows
    BY <1>2 DEF SelectionIsTold, ContentFollows
  <1>5. PastesAreHeld /\ PasteIsFromClipboard /\ OursIsRecognised
    BY DEF PastesAreHeld, PasteIsFromClipboard, OursIsRecognised
  <1> QED BY <1>3, <1>4, <1>5 DEF ClipInv

\* A message to the kit that is no paste of its own.
LEMMA PastesWhenSent ==
    ASSUME ClipTyped, NEW m \in ClipToKit, toKit' = Append(toKit, m), kit' = kit
    PROVE  /\ \A i \in 1..Len(toKit) : toKit'[i] = toKit[i] /\ Held(kit', toKit', i - 1) = Held(kit, toKit, i - 1)
           /\ Held(kit', toKit', Len(toKit)) = Held(kit, toKit, Len(toKit))
           /\ m[1] \notin {"copy", "cut"}
                => Held(kit', toKit', Len(toKit')) = Held(kit, toKit, Len(toKit))
           /\ m[1] \in {"copy", "cut"}
                => Held(kit', toKit', Len(toKit')) = IF kit.selected = NoText THEN kit.clipboard ELSE kit.selected
  <1>1. /\ Len(toKit) \in Nat /\ Len(toKit') = Len(toKit) + 1
        /\ \A i \in 1..Len(toKit) : toKit'[i] = toKit[i]
        /\ toKit'[Len(toKit) + 1] = m /\ 1..Len(toKit') = 1..Len(toKit) \cup {Len(toKit) + 1}
    <2>1. toKit \in Seq(ClipToKit)
      BY DEF ClipTyped
    <2> QED BY <2>1
  <1>2. ASSUME NEW n \in 0..Len(toKit) PROVE Held(kit', toKit', n) = Held(kit, toKit, n)
    <2>1. \A j \in 1..n : j \in 1..Len(toKit)
      BY <1>1
    <2> QED BY <1>1, <2>1 DEF Held
  <1>3. \A i \in 1..Len(toKit) : i - 1 \in 0..Len(toKit)
    BY <1>1
  <1>4. Len(toKit) \in 0..Len(toKit)
    BY <1>1
  <1>5. ASSUME m[1] \notin {"copy", "cut"}
        PROVE  Held(kit', toKit', Len(toKit')) = Held(kit, toKit, Len(toKit))
    BY <1>1, <1>5 DEF Held
  <1>6. ASSUME m[1] \in {"copy", "cut"}
        PROVE  Held(kit', toKit', Len(toKit')) = IF kit.selected = NoText THEN kit.clipboard ELSE kit.selected
    BY <1>1, <1>6 DEF Held
  <1> QED BY <1>1, <1>2, <1>3, <1>4, <1>5, <1>6

\* What the kit will hold is the same before it reads a message and after.
LEMMA PastesWhenRead ==
    ASSUME ClipTyped, toKit # <<>>, toKit' = Tail(toKit),
           \/ /\ Head(toKit)[1] \notin {"copy", "cut"}
              /\ kit'.selected = kit.selected /\ kit'.clipboard = kit.clipboard
           \/ /\ Head(toKit)[1] \in {"copy", "cut"} /\ kit.selected = NoText
              /\ kit'.selected = kit.selected /\ kit'.clipboard = kit.clipboard
           \/ /\ Head(toKit)[1] \in {"copy", "cut"} /\ kit.selected # NoText
              /\ kit'.selected \in {kit.selected, NoText} /\ kit'.clipboard = kit.selected
    PROVE  /\ \A n \in 0..Len(toKit') : Held(kit', toKit', n) = Held(kit, toKit, n + 1)
           /\ Len(toKit) = Len(toKit') + 1 /\ Len(toKit') \in Nat
           /\ \A i \in 1..Len(toKit') : toKit'[i] = toKit[i + 1] /\ i + 1 \in 1..Len(toKit)
  <1>1. /\ Len(toKit) \in Nat /\ Len(toKit') = Len(toKit) - 1 /\ 1 \in 1..Len(toKit) /\ Head(toKit) = toKit[1]
        /\ \A i \in 1..Len(toKit') : toKit'[i] = toKit[i + 1] /\ i + 1 \in 1..Len(toKit)
        /\ \A i \in 1..Len(toKit) : i = 1 \/ (i - 1 \in 1..Len(toKit') /\ toKit'[i - 1] = toKit[i])
    BY Behead DEF ClipTyped
  <1> DEFINE Takes(q, n) == \E j \in 1..n : q[j][1] \in {"copy", "cut"}
  <1>2. ASSUME NEW n \in 0..Len(toKit')
        PROVE  Takes(toKit, n + 1) <=> Head(toKit)[1] \in {"copy", "cut"} \/ Takes(toKit', n)
    <2>1. \A j \in 1..n : j \in 1..Len(toKit') /\ j + 1 \in 1..(n + 1)
      BY <1>1
    <2>2. \A j \in 1..(n + 1) : j = 1 \/ (j - 1 \in 1..n /\ j \in 1..Len(toKit))
      BY <1>1
    <2>3. 1 \in 1..(n + 1)
      BY <1>1
    <2> QED BY <1>1, <2>1, <2>2, <2>3
  <1>3. ASSUME NEW n \in 0..Len(toKit') PROVE Held(kit', toKit', n) = Held(kit, toKit, n + 1)
    <2> HIDE DEF Takes
    <2>1. /\ Held(kit', toKit', n) = IF kit'.selected # NoText /\ Takes(toKit', n) THEN kit'.selected ELSE kit'.clipboard
          /\ Held(kit, toKit, n + 1) = IF kit.selected # NoText /\ Takes(toKit, n + 1) THEN kit.selected ELSE kit.clipboard
      BY Zenon DEF Held, Takes
    <2> QED BY <1>2, <2>1
  <1> QED BY <1>1, <1>3

-----------------------------------------------------------------------------
(* The clipboard: the steps.                                               *)

LEMMA TextsAreTexts == NoText \in AnyText /\ Texts \subseteq AnyText
  BY DEF AnyText

\* The pastes are as they were when the kit and what is sent to it are.
LEMMA PastesStay ==
    ASSUME ClipInv, UNCHANGED <<kit, toKit, slips>>, copying'.hash = copying.hash
    PROVE  PastesAreHeld' /\ PasteIsFromClipboard'
  <1>1. PastesAreHeld'
    BY DEF ClipInv, PastesAreHeld, Held
  <1> QED BY <1>1 DEF ClipInv, PasteIsFromClipboard

LEMMA ClipOpenKeeps == ASSUME ClipInv, NEW c \in {"yes", "no"}, ClipOpen(c) PROVE ClipInv'
  <1> USE DEF ClipOpen
  <1>1. copying' = [copying EXCEPT !.calc = c] /\ copying.calc = "unknown"
    OBVIOUS
  <1>2. ClipTyped'
    BY DEF ClipInv, ClipTyped
  <1>3. copying'.shown = copying.shown /\ copying'.content = copying.content
        /\ copying'.due = copying.due /\ copying'.hash = copying.hash
    BY <1>1 DEF ClipInv, ClipTyped
  <1>4. SelectionIsTold' /\ ContentFollows'
    BY <1>3 DEF ClipInv, SelectionIsTold, ContentFollows
  <1>5. PastesAreHeld' /\ PasteIsFromClipboard'
    BY <1>3, PastesStay
  <1>6. OursIsRecognised'
    BY DEF ClipInv, OursIsRecognised
  <1> QED BY <1>2, <1>4, <1>5, <1>6 DEF ClipInv

\* The selection changes only while no key is under way.
LEMMA PastesWhenSelected ==
    ASSUME ClipInv, SelectionMayChange, UNCHANGED <<toKit, slips>>, copying' = copying,
           kit'.clipboard = kit.clipboard, kit'.pasted = kit.pasted, kit'.wanted = kit.wanted
    PROVE  PastesAreHeld' /\ PasteIsFromClipboard'
  <1>1. \A i \in 1..Len(toKit) : toKit[i][1] \notin {"copy", "cut", "pasteinternal"}
    BY DEF SelectionMayChange
  <1>2. Held(kit', toKit', Len(toKit')) = Held(kit, toKit, Len(toKit))
    BY <1>1 DEF Held
  <1>3. PastesAreHeld'
    BY <1>1, <1>2 DEF ClipInv, PastesAreHeld
  <1> QED BY <1>3 DEF ClipInv, PasteIsFromClipboard

LEMMA SelectTextKeeps == ASSUME ClipInv, NEW t \in AnyText, SelectText(t) PROVE ClipInv'
  <1> USE DEF SelectText
  <1> DEFINE m == <<"textselection", t>>
  <1>1. /\ SelectionMayChange /\ UNCHANGED <<toKit, copying, clipboard, slips>>
        /\ kit' = [kit EXCEPT !.selected = t] /\ fromKit' = Append(fromKit, m)
    OBVIOUS
  <1>2. m \in ClipFromKit /\ fromKit \in Seq(ClipFromKit) /\ m[1] = "textselection" /\ m[2] = t
    BY DEF ClipFromKit, ClipInv, ClipTyped
  <1>3. kit'.selected = t /\ kit'.clipboard = kit.clipboard /\ kit'.pasted = kit.pasted
        /\ kit'.wanted = kit.wanted
    BY <1>1 DEF ClipInv, ClipTyped
  <1>4. ClipTyped'
    <2>1. fromKit' \in Seq(ClipFromKit)
      <3> HIDE DEF m
      <3> QED BY <1>1, <1>2, SMTT(30)
    <2> QED BY <1>1, <2>1 DEF ClipInv, ClipTyped
  <1>5. Final(fromKit', Selections, copying'.shown, t)
    BY <1>1, <1>2, FinalAppend DEF Selections
  <1>6. \E i \in 1..Len(fromKit') : fromKit'[i] = m
    BY <1>1, <1>2, Appended
  <1>7. SelectionIsTold' /\ ContentFollows'
    BY <1>2, <1>3, <1>5, <1>6 DEF SelectionIsTold, ContentFollows
  <1>8. PastesAreHeld' /\ PasteIsFromClipboard'
    BY <1>1, <1>3, PastesWhenSelected
  <1>9. OursIsRecognised'
    BY <1>1 DEF ClipInv, OursIsRecognised
  <1> QED BY <1>4, <1>7, <1>8, <1>9 DEF ClipInv

LEMMA EnterCellKeeps == ASSUME ClipInv, NEW t \in Texts, EnterCell(t) PROVE ClipInv'
  <1> USE DEF EnterCell
  <1> DEFINE m == <<"textselection", NoText>>
             n == <<"cellformula", t>>
             q == Append(fromKit, m)
  <1>1. /\ SelectionMayChange /\ UNCHANGED <<toKit, copying, clipboard, slips>>
        /\ kit' = [kit EXCEPT !.selected = t] /\ fromKit' = fromKit \o <<m, n>>
    OBVIOUS
  <1>2. /\ m \in ClipFromKit /\ n \in ClipFromKit /\ fromKit \in Seq(ClipFromKit) /\ t \in AnyText
        /\ m[1] = "textselection" /\ m[2] = NoText /\ n[1] = "cellformula"
    BY TextsAreTexts DEF ClipFromKit, ClipInv, ClipTyped
  <1>3. kit'.selected = t /\ kit'.clipboard = kit.clipboard /\ kit'.pasted = kit.pasted
        /\ kit'.wanted = kit.wanted
    BY <1>1 DEF ClipInv, ClipTyped
  <1>4. q \in Seq(ClipFromKit) /\ fromKit' = Append(q, n) /\ fromKit' \in Seq(ClipFromKit)
    <2> HIDE DEF m, n
    <2>1. fromKit \o <<m, n>> = Append(Append(fromKit, m), n)
      BY <1>2, TwoAppended
    <2>2. q \in Seq(ClipFromKit)
      BY <1>2
    <2>3. fromKit' = Append(q, n)
      BY <1>1, <2>1
    <2>4. Append(q, n) \in Seq(ClipFromKit)
      <3> HIDE DEF q
      <3> QED BY <1>2, <2>2
    <2> QED BY <2>2, <2>3, <2>4
  <1>5. ClipTyped'
    BY <1>1, <1>2, <1>4 DEF ClipInv, ClipTyped
  <1>6. Final(q, Selections, copying'.shown, NoText)
    BY <1>1, <1>2, FinalAppend DEF Selections
  <1>7. Final(fromKit', Selections, copying'.shown, NoText)
    <2> HIDE DEF q, n
    <2>1. n \in ClipFromKit /\ n[1] \notin Selections
      BY <1>2 DEF Selections
    <2> QED BY <1>4, <1>6, <2>1, FinalAppend
  <1>8. SelectionIsTold' /\ ContentFollows'
    BY <1>7 DEF SelectionIsTold, ContentFollows
  <1>9. PastesAreHeld' /\ PasteIsFromClipboard'
    BY <1>1, <1>3, PastesWhenSelected
  <1>10. OursIsRecognised'
    BY <1>1 DEF ClipInv, OursIsRecognised
  <1> QED BY <1>5, <1>8, <1>9, <1>10 DEF ClipInv

LEMMA CopyElsewhereKeeps == ASSUME ClipInv, NEW t \in Texts, CopyElsewhere(t) PROVE ClipInv'
  <1> USE DEF CopyElsewhere
  <1>1. t \in AnyText
    BY TextsAreTexts
  <1>2. ClipTyped'
    BY <1>1 DEF ClipInv, ClipTyped
  <1>3. SelectionIsTold' /\ ContentFollows'
    BY DEF ClipInv, SelectionIsTold, ContentFollows
  <1>4. PastesAreHeld' /\ PasteIsFromClipboard'
    BY PastesStay
  <1>5. OursIsRecognised'
    BY DEF OursIsRecognised
  <1> QED BY <1>2, <1>3, <1>4, <1>5 DEF ClipInv

\* A message of the browser leaves the rest to be heard as it was.
LEMMA ContentWhenSent ==
    ASSUME ClipInv, NEW m \in ClipToKit, toKit' = Append(toKit, m),
           UNCHANGED <<kit, fromKit>>, copying'.shown = copying.shown,
           copying'.content = copying.content,
           copying'.due = copying.due
    PROVE  /\ toKit' \in Seq(ClipToKit)
           /\ SelectionIsTold' /\ ContentFollows'
  <1>1. toKit \in Seq(ClipToKit)
    BY DEF ClipInv, ClipTyped
  <1>2. /\ Append(toKit, m) \in Seq(ClipToKit)
        /\ \A i \in 1..Len(toKit) : toKit'[i] = toKit[i] /\ i \in 1..Len(toKit')
        /\ toKit'[Len(toKit) + 1] = m /\ Len(toKit) + 1 \in 1..Len(toKit')
    BY <1>1, Appended
  <1>3. SelectionIsTold'
    BY DEF ClipInv, SelectionIsTold
  <1>4. ContentFollows'
    BY <1>2 DEF ClipInv, ContentFollows
  <1> QED BY <1>2, <1>3, <1>4

\* No copy: the pastes are those that were under way, or one of the last copy.
LEMMA PastesAfter ==
    ASSUME ClipInv, NEW m \in ClipToKit, toKit' = Append(toKit, m), m[1] \notin {"copy", "cut"},
           m[1] = "pasteinternal" => m[2] = copying.hash /\ copying.hash # NoText,
           UNCHANGED <<kit, slips>>, copying'.hash = copying.hash
    PROVE  PastesAreHeld' /\ PasteIsFromClipboard'
  <1>1. ClipTyped
    BY DEF ClipInv
  <1>2. /\ \A i \in 1..Len(toKit) : toKit'[i] = toKit[i] /\ Held(kit', toKit', i - 1) = Held(kit, toKit, i - 1)
        /\ Held(kit', toKit', Len(toKit)) = Held(kit, toKit, Len(toKit))
        /\ Held(kit', toKit', Len(toKit')) = Held(kit, toKit, Len(toKit))
    BY <1>1, PastesWhenSent
  <1>3. /\ Len(toKit) \in Nat /\ Len(toKit') = Len(toKit) + 1 /\ toKit'[Len(toKit) + 1] = m
        /\ \A i \in 1..Len(toKit') : i \in 1..Len(toKit) \/ i = Len(toKit) + 1
    BY <1>1, Appended DEF ClipTyped
  <1>4. SUFFICES ASSUME slips = {} PROVE PastesAreHeld'
    BY DEF ClipInv, PasteIsFromClipboard, PastesAreHeld
  <1>5. copying'.hash # NoText => copying'.hash = Held(kit', toKit', Len(toKit'))
    BY <1>2, <1>4 DEF ClipInv, PastesAreHeld
  <1>6. ASSUME NEW i \in 1..Len(toKit'), toKit'[i][1] = "pasteinternal"
        PROVE  toKit'[i][2] = Held(kit', toKit', i - 1)
    <2>1. CASE i \in 1..Len(toKit)
      BY <1>2, <1>4, <1>6, <2>1 DEF ClipInv, PastesAreHeld
    <2>2. CASE i = Len(toKit) + 1
      <3>1. i - 1 = Len(toKit)
        BY <1>3, <2>2
      <3> QED BY <1>2, <1>3, <1>4, <1>6, <2>2, <3>1 DEF ClipInv, PastesAreHeld
    <2> QED BY <1>3, <2>1, <2>2
  <1> QED BY <1>5, <1>6 DEF PastesAreHeld

LEMMA RequestContentKeeps == ASSUME ClipInv, RequestContent PROVE ClipInv'
  <1> DEFINE m == <<"gettextselection", NoText>>
  <1>1. /\ copying' = [copying EXCEPT !.due = FALSE] /\ toKit' = Append(toKit, m)
        /\ UNCHANGED <<kit, fromKit, clipboard, slips>>
    BY DEF RequestContent
  <1>2. m \in ClipToKit /\ m[1] = "gettextselection"
    BY TextsAreTexts DEF ClipToKit
  <1>3. /\ copying'.shown = copying.shown /\ copying'.content = copying.content
        /\ copying'.hash = copying.hash /\ copying'.calc = copying.calc /\ copying'.due = FALSE
        /\ copying' \in [calc: {"unknown", "yes", "no"}, shown: AnyText, content: AnyText,
                         due: BOOLEAN, hash: AnyText]
    BY <1>1 DEF ClipInv, ClipTyped
  <1> HIDE DEF m
  <1>4. toKit' \in Seq(ClipToKit) /\ SelectionIsTold' /\ ContentFollows'
    <2>1. toKit' \in Seq(ClipToKit)
      BY <1>1, <1>2, Appended DEF ClipInv, ClipTyped
    <2>2. SelectionIsTold'
      BY <1>1, <1>3 DEF ClipInv, SelectionIsTold
    <2>3. toKit \in Seq(ClipToKit)
      BY DEF ClipInv, ClipTyped
    <2>4. toKit'[Len(toKit) + 1] = m /\ Len(toKit) + 1 \in 1..Len(toKit')
      BY <1>1, <1>2, <2>3
    <2> QED BY <1>2, <2>1, <2>2, <2>4 DEF ContentFollows
  <1>5. ClipTyped'
    BY <1>1, <1>3, <1>4 DEF ClipInv, ClipTyped
  <1>6. PastesAreHeld' /\ PasteIsFromClipboard'
    BY <1>1, <1>2, <1>3, PastesAfter DEF ClipInv
  <1>7. OursIsRecognised'
    BY <1>1, <1>3 DEF ClipInv, OursIsRecognised
  <1> QED BY <1>4, <1>5, <1>6, <1>7 DEF ClipInv

LEMMA PasteKeeps == ASSUME ClipInv, Paste PROVE ClipInv'
  <1> USE DEF Paste
  <1> DEFINE m == DataTransfer(clipboard.text)
  <1>1. /\ toKit' = Append(toKit, m) /\ UNCHANGED <<kit, fromKit, copying, clipboard, slips>>
    OBVIOUS
  <1>2. /\ m \in ClipToKit /\ m[1] \in {"pasteinternal", "paste"}
        /\ m[1] = "pasteinternal" => m[2] = copying.hash /\ copying.hash # NoText
    BY DEF DataTransfer, ClipToKit, ClipInv, ClipTyped
  <1> HIDE DEF m
  <1>3. toKit' \in Seq(ClipToKit) /\ SelectionIsTold' /\ ContentFollows'
    BY <1>1, <1>2, ContentWhenSent DEF ClipInv, ClipTyped
  <1>4. ClipTyped'
    BY <1>1, <1>3 DEF ClipInv, ClipTyped
  <1>5. PastesAreHeld' /\ PasteIsFromClipboard'
    BY <1>1, <1>2, PastesAfter DEF ClipInv
  <1>6. OursIsRecognised'
    BY <1>1 DEF ClipInv, OursIsRecognised
  <1> QED BY <1>3, <1>4, <1>5, <1>6 DEF ClipInv

LEMMA TrimmedIs ==
    ASSUME NEW t \in AnyText
    PROVE  Trimmed(t) \in AnyText /\ (Trimmed(t) = t \/ t.blank)
  <1>1. CASE t = NoText
    <2>1. NoText = [body |-> "", blank |-> FALSE] /\ NoText.blank = FALSE
      BY DEF NoText
    <2>2. DOMAIN NoText = {"body", "blank"} /\ NoText = [x \in DOMAIN NoText |-> NoText[x]]
      BY <2>1, Zenon
    <2>3. Trimmed(NoText) = [x \in DOMAIN NoText |-> IF x = "blank" THEN FALSE ELSE NoText[x]]
      BY <2>2, Zenon DEF Trimmed
    <2>4. Trimmed(NoText) = NoText
      BY <2>1, <2>2, <2>3, Zenon
    <2> QED BY <1>1, <2>4
  <1>2. CASE t \in Texts
    BY <1>2 DEF AnyText, Texts, Trimmed
  <1> QED BY <1>1, <1>2 DEF AnyText

LEMMA TakeKeeps ==
    ASSUME ClipInv, copying.calc # "unknown", NEW how \in {"copy", "cut"}, Take(how)
    PROVE  ClipInv'
  <1> DEFINE m == <<how, NoText>>
             c == copying.content
  <1>1. /\ clipboard' = IF c = NoText THEN clipboard ELSE ClipboardSet(c)
        /\ copying' = IF c = NoText THEN copying ELSE [copying EXCEPT !.hash = c]
        /\ toKit' = Append(toKit, m) /\ UNCHANGED <<kit, fromKit>>
        /\ slips \subseteq slips' /\ (slips' = {} => c = kit.selected)
    BY DEF Take, Slip
  <1>2. m \in ClipToKit /\ m[1] = how
    BY TextsAreTexts DEF ClipToKit
  <1>3. c \in AnyText /\ Trimmed(c) \in AnyText /\ (Trimmed(c) = c \/ c.blank)
    BY TrimmedIs DEF ClipInv, ClipTyped
  <1>4. /\ copying'.shown = copying.shown /\ copying'.content = c
        /\ copying'.due = copying.due /\ copying'.calc = copying.calc
        /\ copying'.hash = IF c = NoText THEN copying.hash ELSE c
        /\ copying' \in [calc: {"unknown", "yes", "no"}, shown: AnyText, content: AnyText,
                         due: BOOLEAN, hash: AnyText]
    BY <1>1, <1>3 DEF ClipInv, ClipTyped
  <1>5. clipboard' \in [text: AnyText, ours: BOOLEAN]
    BY <1>1, <1>3 DEF ClipInv, ClipTyped, ClipboardSet
  <1> HIDE DEF m
  <1>6. toKit' \in Seq(ClipToKit) /\ SelectionIsTold' /\ ContentFollows'
    BY <1>1, <1>2, <1>4, ContentWhenSent
  <1>7. ClipTyped'
    BY <1>1, <1>4, <1>5, <1>6 DEF ClipInv, ClipTyped
  <1>8. PastesAreHeld'
    <2>1. ClipTyped
      BY DEF ClipInv
    <2> SUFFICES ASSUME slips' = {} PROVE PastesAreHeld'
      BY DEF PastesAreHeld
    <2>2. slips = {} /\ c = kit.selected
      BY <1>1
    <2>3. /\ \A i \in 1..Len(toKit) : toKit'[i] = toKit[i] /\ Held(kit', toKit', i - 1) = Held(kit, toKit, i - 1)
          /\ Held(kit', toKit', Len(toKit')) = IF kit.selected = NoText THEN kit.clipboard ELSE kit.selected
      BY <1>1, <1>2, <2>1, PastesWhenSent
    <2>4. /\ Len(toKit) \in Nat /\ toKit'[Len(toKit) + 1] = m
          /\ \A i \in 1..Len(toKit') : i \in 1..Len(toKit) \/ i = Len(toKit) + 1
      <3>1. toKit \in Seq(ClipToKit)
        BY <2>1 DEF ClipTyped
      <3> QED BY <1>1, <1>2, <3>1
    <2>5. ASSUME NEW i \in 1..Len(toKit'), toKit'[i][1] = "pasteinternal"
          PROVE  toKit'[i][2] = Held(kit', toKit', i - 1)
      BY <1>2, <2>2, <2>3, <2>4, <2>5 DEF ClipInv, PastesAreHeld
    <2>6. ASSUME copying'.hash # NoText PROVE copying'.hash = Held(kit', toKit', Len(toKit'))
      <3>1. CASE c # NoText
        BY <1>4, <2>2, <2>3, <3>1
      <3>2. CASE c = NoText
        <4>1. copying.hash # NoText /\ copying'.hash = copying.hash
          BY <1>4, <2>6, <3>2
        <4>2. copying.hash = Held(kit, toKit, Len(toKit))
          BY <2>2, <4>1 DEF ClipInv, PastesAreHeld
        <4>3. Held(kit, toKit, Len(toKit)) = kit.clipboard
          BY <2>2, <3>2 DEF Held
        <4> QED BY <2>2, <2>3, <3>2, <4>1, <4>2, <4>3
      <3> QED BY <3>1, <3>2
    <2> QED BY <2>5, <2>6 DEF PastesAreHeld
  <1>9. PasteIsFromClipboard'
    BY <1>1 DEF ClipInv, PasteIsFromClipboard
  <1>10. OursIsRecognised'
    <2>1. CASE c = NoText
      BY <1>1, <1>4, <2>1 DEF ClipInv, OursIsRecognised
    <2>2. CASE c # NoText
      <3>1. clipboard' = [text |-> IF copying.calc = "yes" THEN Trimmed(c) ELSE c, ours |-> TRUE]
        BY <1>1, <2>2 DEF ClipboardSet
      <3> QED BY <1>3, <1>4, <2>2, <3>1 DEF OursIsRecognised
    <2> QED BY <2>1, <2>2
  <1> QED BY <1>6, <1>7, <1>8, <1>9, <1>10 DEF ClipInv

\* The message at the head of a queue is handled: of those behind it all remain.
LEMMA RemainsBehind ==
    ASSUME NEW M, NEW q \in Seq(M), q # <<>>, NEW i \in 1..Len(q), q[i] # Head(q)
    PROVE  \E j \in 1..Len(Tail(q)) : Tail(q)[j] = q[i]
  BY Behead

LEMMA ClipReceiveKeeps == ASSUME ClipInv, ClipReceive PROVE ClipInv'
  <1> USE DEF ClipReceive
  <1> DEFINE h == Head(fromKit)
  <1>1. fromKit # <<>> /\ fromKit' = Tail(fromKit) /\ UNCHANGED <<kit, toKit, clipboard, slips>>
    OBVIOUS
  <1>2. fromKit \in Seq(ClipFromKit) /\ h \in ClipFromKit /\ fromKit' \in Seq(ClipFromKit)
    BY <1>1, Behead DEF ClipInv, ClipTyped
  <1>3. /\ h[1] \in {"textselection", "textselectioncontent", "cellformula"} /\ h[2] \in AnyText
    BY <1>2 DEF ClipFromKit
  <1>4. /\ copying' \in [calc: {"unknown", "yes", "no"}, shown: AnyText, content: AnyText,
                         due: BOOLEAN, hash: AnyText]
        /\ copying'.calc = copying.calc /\ copying'.hash = copying.hash
        /\ copying'.shown = IF h[1] = "textselection" THEN h[2] ELSE copying.shown
        /\ copying'.content = IF h[1] = "textselection" THEN copying.content ELSE h[2]
        /\ copying'.due = (copying.due \/ (h[1] = "textselection" /\ h[2] # NoText))
    BY <1>3 DEF ClipInv, ClipTyped, TextSelection, TextSelectionContent, CellFormula
  <1> HIDE DEF h
  <1>5. ClipTyped'
    BY <1>1, <1>2, <1>4 DEF ClipInv, ClipTyped
  <1>6. /\ copying'.shown = IF h[1] \in Selections THEN h[2] ELSE copying.shown
        /\ copying'.content = IF h[1] \in ContentsOf THEN h[2] ELSE copying.content
    BY <1>3, <1>4 DEF Selections, ContentsOf
  <1>7. \A x : Final(fromKit, Selections, copying.shown, x) => Final(fromKit', Selections, copying'.shown, x)
    <2> SUFFICES ASSUME NEW x, Final(fromKit, Selections, copying.shown, x)
                 PROVE  Final(fromKit', Selections, copying'.shown, x)
      OBVIOUS
    <2>1. copying'.shown = IF Head(fromKit)[1] \in Selections THEN Head(fromKit)[2] ELSE copying.shown
      BY <1>6 DEF h
    <2>2. Final(Tail(fromKit), Selections, IF Head(fromKit)[1] \in Selections THEN Head(fromKit)[2] ELSE copying.shown, x)
      BY <1>1, <1>2, FinalTail
    <2> QED BY <1>1, <2>1, <2>2, Zenon
  <1>8. \A x : Final(fromKit, ContentsOf, copying.content, x) => Final(fromKit', ContentsOf, copying'.content, x)
    <2> SUFFICES ASSUME NEW x, Final(fromKit, ContentsOf, copying.content, x)
                 PROVE  Final(fromKit', ContentsOf, copying'.content, x)
      OBVIOUS
    <2>1. copying'.content = IF Head(fromKit)[1] \in ContentsOf THEN Head(fromKit)[2] ELSE copying.content
      BY <1>6 DEF h
    <2>2. Final(Tail(fromKit), ContentsOf, IF Head(fromKit)[1] \in ContentsOf THEN Head(fromKit)[2] ELSE copying.content, x)
      BY <1>1, <1>2, FinalTail
    <2> QED BY <1>1, <2>1, <2>2, Zenon
  <1>9. SelectionIsTold'
    BY <1>1, <1>7 DEF ClipInv, SelectionIsTold
  <1>10. ContentFollows'
    <2>1. CASE \E i \in 1..Len(fromKit) : fromKit[i][1] = "textselection" /\ fromKit[i][2] # NoText
      <3>1. PICK i \in 1..Len(fromKit) : fromKit[i][1] = "textselection" /\ fromKit[i][2] # NoText
        BY <2>1
      <3>2. CASE fromKit[i] = h
        BY <1>4, <3>1, <3>2 DEF ContentFollows
      <3>3. CASE fromKit[i] # h
        <4>1. PICK j \in 1..Len(fromKit') : fromKit'[j] = fromKit[i]
          BY <1>1, <1>2, <3>3, RemainsBehind DEF h
        <4> QED BY <3>1, <4>1 DEF ContentFollows
      <3> QED BY <3>2, <3>3
    <2>2. CASE copying.due
      BY <1>4, <2>2 DEF ContentFollows
    <2>3. CASE Final(fromKit, Selections, copying.shown, NoText)
               \/ (\E i \in 1..Len(toKit) : toKit[i][1] = "gettextselection")
               \/ Final(fromKit, ContentsOf, copying.content, kit.selected)
      BY <1>1, <1>7, <1>8, <2>3 DEF ContentFollows
    <2> QED BY <2>1, <2>2, <2>3 DEF ClipInv, ContentFollows
  <1>11. PastesAreHeld' /\ PasteIsFromClipboard'
    BY <1>1, <1>4, PastesStay
  <1>12. OursIsRecognised'
    BY <1>1, <1>4 DEF ClipInv, OursIsRecognised
  <1> QED BY <1>5, <1>9, <1>10, <1>11, <1>12 DEF ClipInv

\* What the kit makes of the message h.
KitMakes(h) ==
    /\ kit' \in [selected: AnyText, clipboard: AnyText, pasted: AnyText, wanted: AnyText]
    /\ h[1] \notin {"copy", "cut"} \/ kit.selected = NoText =>
         kit'.selected = kit.selected /\ kit'.clipboard = kit.clipboard
    /\ h[1] \in {"copy", "cut"} /\ kit.selected # NoText =>
         /\ kit'.clipboard = kit.selected
         /\ kit'.selected = IF h[1] = "cut" THEN NoText ELSE kit.selected
    /\ h[1] \notin {"paste", "pasteinternal"} =>
         kit'.pasted = kit.pasted /\ kit'.wanted = kit.wanted
    /\ h[1] \in {"paste", "pasteinternal"} =>
         /\ kit'.wanted = h[2]
         /\ kit'.pasted = IF h[1] = "paste" THEN h[2] ELSE kit.clipboard

LEMMA KitAnswersIs ==
    ASSUME ClipTyped, KitAnswers, NEW h, h = Head(toKit)
    PROVE  /\ toKit # <<>> /\ toKit' = Tail(toKit) /\ UNCHANGED <<copying, clipboard, slips>>
           /\ KitMakes(h)
           /\ \/ h[1] # "gettextselection" /\ kit'.selected = kit.selected /\ fromKit' = fromKit
              \/ h[1] = "gettextselection" /\ kit'.selected = kit.selected
                 /\ fromKit' = Append(fromKit, <<"textselectioncontent", kit.selected>>)
              \/ h[1] = "cut" /\ kit'.selected = NoText
                 /\ fromKit' = Append(fromKit, <<"textselection", NoText>>)
  <1>1. /\ toKit # <<>> /\ toKit' = Tail(toKit) /\ UNCHANGED <<copying, clipboard, slips>>
        /\ \/ /\ h[1] = "gettextselection" /\ UNCHANGED kit
              /\ fromKit' = Append(fromKit, <<"textselectioncontent", kit.selected>>)
           \/ /\ h[1] = "copy" /\ UNCHANGED fromKit
              /\ kit' = [kit EXCEPT !.clipboard = IF kit.selected = NoText THEN @ ELSE kit.selected]
           \/ /\ h[1] = "cut"
              /\ kit' = IF kit.selected = NoText THEN kit
                        ELSE [kit EXCEPT !.clipboard = kit.selected, !.selected = NoText]
              /\ fromKit' = IF kit.selected = NoText THEN fromKit
                            ELSE Append(fromKit, <<"textselection", NoText>>)
           \/ /\ h[1] = "pasteinternal" /\ UNCHANGED fromKit
              /\ kit' = [kit EXCEPT !.pasted = kit.clipboard, !.wanted = h[2]]
           \/ /\ h[1] = "paste" /\ UNCHANGED fromKit
              /\ kit' = [kit EXCEPT !.pasted = h[2], !.wanted = h[2]]
    BY DEF KitAnswers
  <1>2. h[2] \in AnyText
    <2>1. h \in ClipToKit
      BY <1>1, Behead DEF ClipTyped
    <2> QED BY <2>1 DEF ClipToKit
  <1>3. kit \in [selected: AnyText, clipboard: AnyText, pasted: AnyText, wanted: AnyText]
    BY DEF ClipTyped
  <1>4. CASE h[1] = "gettextselection"
    BY <1>1, <1>3, <1>4 DEF KitMakes
  <1>5. CASE h[1] = "copy"
    BY <1>1, <1>3, <1>5 DEF KitMakes
  <1>6. CASE h[1] = "cut"
    BY <1>1, <1>3, <1>6, TextsAreTexts DEF KitMakes
  <1>7. CASE h[1] = "pasteinternal"
    BY <1>1, <1>2, <1>3, <1>7 DEF KitMakes
  <1>8. CASE h[1] = "paste"
    BY <1>1, <1>2, <1>3, <1>8 DEF KitMakes
  <1> QED BY <1>1, <1>4, <1>5, <1>6, <1>7, <1>8

LEMMA KitAnswersKeeps == ASSUME ClipInv, KitAnswers PROVE ClipInv'
  <1>1. PICK h : h = Head(toKit)
    OBVIOUS
  <1>2. ClipTyped
    BY DEF ClipInv
  <1>3. /\ toKit # <<>> /\ toKit' = Tail(toKit) /\ UNCHANGED <<copying, clipboard, slips>>
        /\ KitMakes(h)
        /\ \/ h[1] # "gettextselection" /\ kit'.selected = kit.selected /\ fromKit' = fromKit
           \/ h[1] = "gettextselection" /\ kit'.selected = kit.selected
              /\ fromKit' = Append(fromKit, <<"textselectioncontent", kit.selected>>)
           \/ h[1] = "cut" /\ kit'.selected = NoText
              /\ fromKit' = Append(fromKit, <<"textselection", NoText>>)
    BY <1>1, <1>2, KitAnswersIs
  <1>4. /\ toKit \in Seq(ClipToKit) /\ toKit' \in Seq(ClipToKit) /\ h \in ClipToKit /\ h = toKit[1]
        /\ 1 \in 1..Len(toKit) /\ fromKit \in Seq(ClipFromKit)
    BY <1>1, <1>2, <1>3, Behead DEF ClipTyped
  <1>5. kit.selected \in AnyText
    BY <1>2 DEF ClipTyped
  <1>6. fromKit' \in Seq(ClipFromKit) /\ SelectionIsTold' /\ ContentFollows'
    <2>1. CASE h[1] # "gettextselection" /\ kit'.selected = kit.selected /\ fromKit' = fromKit
      <3>1. SelectionIsTold'
        BY <1>3, <2>1 DEF ClipInv, SelectionIsTold
      <3>2. ASSUME NEW i \in 1..Len(toKit), toKit[i][1] = "gettextselection"
            PROVE  \E j \in 1..Len(toKit') : toKit'[j][1] = "gettextselection"
        BY <1>1, <1>3, <1>4, <2>1, <3>2, RemainsBehind, SMTT(30)
      <3>3. ContentFollows'
        BY <1>3, <2>1, <3>2 DEF ClipInv, ContentFollows
      <3> QED BY <1>4, <2>1, <3>1, <3>3
    <2>2. CASE h[1] = "gettextselection" /\ kit'.selected = kit.selected
               /\ fromKit' = Append(fromKit, <<"textselectioncontent", kit.selected>>)
      <3>1. PICK m \in ClipFromKit : m = <<"textselectioncontent", kit.selected>>
        BY <1>5 DEF ClipFromKit
      <3>2. m[1] = "textselectioncontent" /\ m[2] = kit.selected /\ m[1] \in ContentsOf /\ m[1] \notin Selections
        BY <3>1 DEF ContentsOf, Selections
      <3>3. fromKit' = Append(fromKit, m)
        BY <2>2, <3>1
      <3>4. /\ fromKit' \in Seq(ClipFromKit)
            /\ Final(fromKit', ContentsOf, copying.content, kit.selected)
            /\ \A x : Final(fromKit, Selections, copying.shown, x) => Final(fromKit', Selections, copying.shown, x)
        BY <1>4, <3>2, <3>3, Appended, FinalAppend
      <3> QED BY <1>3, <2>2, <3>4 DEF ClipInv, SelectionIsTold, ContentFollows
    <2>3. CASE h[1] = "cut" /\ kit'.selected = NoText
               /\ fromKit' = Append(fromKit, <<"textselection", NoText>>)
      <3>1. PICK m \in ClipFromKit : m = <<"textselection", NoText>>
        BY TextsAreTexts DEF ClipFromKit
      <3>2. m[1] = "textselection" /\ m[2] = NoText /\ m[1] \in Selections
        BY <3>1 DEF Selections
      <3>3. fromKit' = Append(fromKit, m)
        BY <2>3, <3>1
      <3>4. fromKit' \in Seq(ClipFromKit) /\ Final(fromKit', Selections, copying.shown, NoText)
        BY <1>4, <3>2, <3>3, Appended, FinalAppend
      <3> QED BY <1>3, <3>4 DEF SelectionIsTold, ContentFollows
    <2> QED BY <1>3, <2>1, <2>2, <2>3
  <1>7. ClipTyped'
    BY <1>2, <1>3, <1>4, <1>6 DEF ClipTyped, KitMakes
  <1>8. /\ \A n \in 0..Len(toKit') : Held(kit', toKit', n) = Held(kit, toKit, n + 1)
        /\ Len(toKit) = Len(toKit') + 1 /\ Len(toKit') \in Nat
        /\ \A i \in 1..Len(toKit') : toKit'[i] = toKit[i + 1] /\ i + 1 \in 1..Len(toKit)
    BY <1>1, <1>2, <1>3, PastesWhenRead DEF KitMakes
  <1>9. PastesAreHeld'
    <2> SUFFICES ASSUME slips = {} PROVE PastesAreHeld'
      BY <1>3 DEF PastesAreHeld
    <2>1. ASSUME NEW i \in 1..Len(toKit'), toKit'[i][1] = "pasteinternal"
          PROVE  toKit'[i][2] = Held(kit', toKit', i - 1)
      <3>1. i + 1 \in 1..Len(toKit) /\ toKit'[i] = toKit[i + 1] /\ i - 1 \in 0..Len(toKit') /\ i \in Nat
        BY <1>8
      <3>2. toKit[i + 1][2] = Held(kit, toKit, (i + 1) - 1)
        BY <2>1, <3>1 DEF ClipInv, PastesAreHeld
      <3>3. (i + 1) - 1 = (i - 1) + 1
        BY <3>1
      <3> QED BY <1>8, <3>1, <3>2, <3>3
    <2>2. copying'.hash # NoText => copying'.hash = Held(kit', toKit', Len(toKit'))
      <3>1. Held(kit', toKit', Len(toKit')) = Held(kit, toKit, Len(toKit))
        BY <1>8
      <3> QED BY <1>3, <3>1 DEF ClipInv, PastesAreHeld
    <2> QED BY <2>1, <2>2 DEF PastesAreHeld
  <1>10. PasteIsFromClipboard'
    <2> SUFFICES ASSUME slips = {} PROVE kit'.pasted.body = kit'.wanted.body
      BY <1>3 DEF PasteIsFromClipboard
    <2>1. CASE h[1] = "pasteinternal"
      <3>1. h[2] = Held(kit, toKit, 0)
        BY <1>4, <2>1 DEF ClipInv, PastesAreHeld
      <3>2. Held(kit, toKit, 0) = kit.clipboard
        BY DEF Held
      <3> QED BY <1>3, <2>1, <3>1, <3>2 DEF KitMakes
    <2>2. CASE h[1] # "pasteinternal"
      BY <1>3, <2>2 DEF KitMakes, ClipInv, PasteIsFromClipboard
    <2> QED BY <2>1, <2>2
  <1>11. OursIsRecognised'
    BY <1>3 DEF ClipInv, OursIsRecognised
  <1> QED BY <1>6, <1>7, <1>9, <1>10, <1>11 DEF ClipInv

LEMMA ClipNextKeeps == ASSUME ClipInv, ClipNext PROVE ClipInv'
  <1>1. Texts \subseteq AnyText
    BY TextsAreTexts
  <1> QED BY <1>1, ClipOpenKeeps, SelectTextKeeps, EnterCellKeeps, CopyElsewhereKeeps, TakeKeeps,
             PasteKeeps, KitAnswersKeeps, ClipReceiveKeeps, RequestContentKeeps
          DEF ClipNext, Copy, Cut

LEMMA ClipStays == ASSUME ClipInv, UNCHANGED clipVars PROVE ClipInv'
  BY DEF clipVars, ClipInv, ClipTyped, SelectionIsTold, ContentFollows, PastesAreHeld, Held,
         PasteIsFromClipboard, OursIsRecognised

-----------------------------------------------------------------------------
(* The cell cursor.                                                        *)

Cursors == [edit: BOOLEAN, at: AnyRow, prev: AnyRow, xy: AnyRow, prevXY: AnyRow, pgUp: AnyRow,
            pgDn: AnyRow, drawn: AnyRow, valid: AnyRow, button: AnyRow, top: Tops,
            area: BOOLEAN, marks: BOOLEAN, visible: BOOLEAN, focused: BOOLEAN, zooming: BOOLEAN,
            filled: BOOLEAN, caret: BOOLEAN, timer: BOOLEAN]
Calcs == [tab: Tabs, row: [Tabs -> Rows], range: BOOLEAN]
ToCalc == ({"key"} \X {"up", "down", "pgup", "pgdn"}) \cup ({"tab"} \X Tabs)
            \cup {<<"range">>, <<"type">>}
FromCalc == ({"cell"} \X Rows) \cup ({"list"} \X Rows \X BOOLEAN)
              \cup ({"area", "marks"} \X BOOLEAN) \cup {<<"empty">>, <<"cursorvisible">>}

CellsTyped ==
    /\ calc \in Calcs /\ calcIn \in Seq(ToCalc) /\ calcOut \in Seq(FromCalc)
    /\ cur \in Cursors /\ looking \in BOOLEAN

\* The browser hears of the cell the kit is in, unless it has hidden the cursor.
CellIsTold ==
    \E row \in {NoRow, calc.row[calc.tab]} : Final(calcOut, {"cell"}, cur.at, row)

Appears(m) == m[1] = "list" /\ m[3] = TRUE
Disappears(m, row) == m[1] = "list" /\ m[2] = row /\ m[3] = FALSE

\* Where the button of a list will be when q has been read, if it is at v now.
\* Of a button that appears somewhere else the old place is forgotten, of one that
\* disappears nothing is heard if it has been forgotten.
ButtonSettles(q, v, row) ==
    \/ /\ \A j \in 1..Len(q) : ~Appears(q[j])
       /\ row = IF \E j \in 1..Len(q) : Disappears(q[j], v) THEN NoRow ELSE v
    \/ \E i \in 1..Len(q) :
         /\ Appears(q[i]) /\ \A j \in 1..Len(q) : j > i => ~Appears(q[j])
         /\ row = IF \E j \in 1..Len(q) : j > i /\ Disappears(q[j], q[i][2]) THEN NoRow ELSE q[i][2]

\* The row if it has a list.
ListAt(tab, row) == IF Listed(tab, row) THEN row ELSE NoRow

ListIsTold == ButtonSettles(calcOut, cur.valid, ListAt(calc.tab, calc.row[calc.tab]))

\* The button is drawn at the cursor.
ButtonAtCursor ==
    cur.at # NoRow => cur.xy = cur.at /\ cur.button = IF cur.valid = cur.at THEN cur.at ELSE NoRow

\* After the first i messages of q no area is selected when message j comes, if
\* area tells whether there is one after the first i.
AreaIsGone(q, i, j, area) ==
    \/ ~area /\ \A k \in 1..(j - 1) : k > i => q[k] # <<"area", TRUE>>
    \/ \E k \in 1..(j - 1) : /\ k > i /\ q[k] = <<"area", FALSE>>
                             /\ \A l \in 1..(j - 1) : l > k => q[l] # <<"area", TRUE>>

\* A message behind the first i takes the marks away.
MarksWillGo(q, i, area) ==
    \E j \in 1..Len(q) :
       j > i /\ (q[j] = <<"marks", FALSE>> \/ (q[j][1] \in {"cell", "empty"} /\ AreaIsGone(q, i, j, area)))

\* Whatever is marked is taken away when q has been read, in which no area comes.
MarksTold(q, area, marked) ==
    /\ marked => MarksWillGo(q, 0, area)
    /\ \A i \in 1..Len(q) : q[i] = <<"marks", TRUE>> => MarksWillGo(q, i, TRUE)

MarksAreTakenAway == ~calc.range => MarksTold(calcOut, cur.area, cur.marks)

CellsInv ==
    /\ CellsTyped
    /\ PageKeyIsFreed
    /\ CursorIsInWindow
    /\ CellIsTold
    /\ ListIsTold
    /\ ButtonAtCursor
    /\ MarksAreTakenAway
    /\ CaretIsRight

LEMMA FromCalcIs ==
    ASSUME NEW m \in FromCalc
    PROVE  /\ m[1] \in {"cell", "list", "area", "marks", "empty", "cursorvisible"}
           /\ m[1] \in {"cell", "list"} => m[2] \in Rows
           /\ m[1] \in {"area", "marks"} => m[2] \in BOOLEAN /\ m = <<m[1], m[2]>>
           /\ m[1] = "list" => m[3] \in BOOLEAN
  BY DEF FromCalc

LEMMA NoRowIsNoRow == NoRow \notin Rows /\ NoRow \in AnyRow /\ Rows \subseteq AnyRow /\ Rows \subseteq Nat
  BY CellsAssumption DEF NoRow, Rows, AnyRow

\* What is lost now may still be told.
LEMMA FinalLost ==
    ASSUME NEW q, NEW K, NEW now, NEW x, NEW other, Final(q, K, now, x)
    PROVE  Final(q, K, other, x) \/ Final(q, K, other, other)
  BY DEF Final

LEMMA ButtonAppears ==
    ASSUME NEW q \in Seq(FromCalc), NEW m \in FromCalc, Appears(m), NEW v
    PROVE  ButtonSettles(Append(q, m), v, m[2])
  <1> DEFINE r == Append(q, m)
  <1>1. /\ Len(q) \in Nat /\ Len(r) = Len(q) + 1 /\ r[Len(q) + 1] = m /\ Len(q) + 1 \in 1..Len(r)
    BY Appended
  <1> HIDE DEF r
  <1>2. \A j \in 1..Len(r) : ~(j > Len(q) + 1)
    BY <1>1
  <1>3. ButtonSettles(r, v, m[2])
    BY <1>1, <1>2 DEF ButtonSettles
  <1> QED BY <1>3 DEF r

LEMMA ButtonDisappears ==
    ASSUME NEW q \in Seq(FromCalc), NEW m \in FromCalc, m[1] = "list", m[3] = FALSE,
           NEW v, NEW row, ButtonSettles(q, v, row)
    PROVE  ButtonSettles(Append(q, m), v, IF row = m[2] THEN NoRow ELSE row)
  <1> DEFINE r == Append(q, m)
  <1>1. /\ Len(q) \in Nat /\ Len(r) = Len(q) + 1 /\ r[Len(q) + 1] = m /\ Len(q) + 1 \in 1..Len(r)
        /\ \A i \in 1..Len(q) : r[i] = q[i] /\ i \in 1..Len(r)
        /\ \A i \in 1..Len(r) : i \in 1..Len(q) \/ i = Len(q) + 1
    BY Appended
  <1>2. ~Appears(m) /\ \A x : Disappears(m, x) <=> x = m[2]
    BY DEF Appears, Disappears
  <1> HIDE DEF r
  <1>3. CASE /\ \A j \in 1..Len(q) : ~Appears(q[j])
             /\ row = IF \E j \in 1..Len(q) : Disappears(q[j], v) THEN NoRow ELSE v
    <2>1. \A j \in 1..Len(r) : ~Appears(r[j])
      BY <1>1, <1>2, <1>3
    <2>2. (\E j \in 1..Len(r) : Disappears(r[j], v)) <=> (\E j \in 1..Len(q) : Disappears(q[j], v)) \/ v = m[2]
      BY <1>1, <1>2
    <2>3. (IF row = m[2] THEN NoRow ELSE row) = IF \E j \in 1..Len(r) : Disappears(r[j], v) THEN NoRow ELSE v
      BY <1>3, <2>2
    <2> QED BY <2>1, <2>3 DEF ButtonSettles, r
  <1>4. CASE \E i \in 1..Len(q) :
               /\ Appears(q[i]) /\ \A j \in 1..Len(q) : j > i => ~Appears(q[j])
               /\ row = IF \E j \in 1..Len(q) : j > i /\ Disappears(q[j], q[i][2]) THEN NoRow ELSE q[i][2]
    <2>1. PICK i \in 1..Len(q) :
               /\ Appears(q[i]) /\ \A j \in 1..Len(q) : j > i => ~Appears(q[j])
               /\ row = IF \E j \in 1..Len(q) : j > i /\ Disappears(q[j], q[i][2]) THEN NoRow ELSE q[i][2]
      BY <1>4
    <2>2. i \in 1..Len(r) /\ r[i] = q[i] /\ Len(q) + 1 > i
      BY <1>1
    <2>3. \A j \in 1..Len(r) : j > i => ~Appears(r[j])
      BY <1>1, <1>2, <2>1
    <2>4. (\E j \in 1..Len(r) : j > i /\ Disappears(r[j], r[i][2]))
            <=> (\E j \in 1..Len(q) : j > i /\ Disappears(q[j], q[i][2])) \/ q[i][2] = m[2]
      BY <1>1, <1>2, <2>2
    <2>5. (IF row = m[2] THEN NoRow ELSE row)
            = IF \E j \in 1..Len(r) : j > i /\ Disappears(r[j], r[i][2]) THEN NoRow ELSE r[i][2]
      BY <2>1, <2>2, <2>4
    <2> QED BY <2>1, <2>2, <2>3, <2>5 DEF ButtonSettles, r
  <1> QED BY <1>3, <1>4 DEF ButtonSettles

LEMMA ButtonStays ==
    ASSUME NEW q \in Seq(FromCalc), NEW m \in FromCalc, m[1] # "list",
           NEW v, NEW row, ButtonSettles(q, v, row)
    PROVE  ButtonSettles(Append(q, m), v, row)
  <1> DEFINE r == Append(q, m)
  <1>1. /\ Len(q) \in Nat /\ Len(r) = Len(q) + 1 /\ r[Len(q) + 1] = m /\ Len(q) + 1 \in 1..Len(r)
        /\ \A i \in 1..Len(q) : r[i] = q[i] /\ i \in 1..Len(r)
        /\ \A i \in 1..Len(r) : i \in 1..Len(q) \/ i = Len(q) + 1
    BY Appended
  <1>2. ~Appears(m) /\ \A x : ~Disappears(m, x)
    BY DEF Appears, Disappears
  <1> HIDE DEF r
  <1>3. CASE /\ \A j \in 1..Len(q) : ~Appears(q[j])
             /\ row = IF \E j \in 1..Len(q) : Disappears(q[j], v) THEN NoRow ELSE v
    <2>1. \A j \in 1..Len(r) : ~Appears(r[j])
      BY <1>1, <1>2, <1>3
    <2>2. (\E j \in 1..Len(r) : Disappears(r[j], v)) <=> (\E j \in 1..Len(q) : Disappears(q[j], v))
      BY <1>1, <1>2
    <2> QED BY <1>3, <2>1, <2>2 DEF ButtonSettles, r
  <1>4. CASE \E i \in 1..Len(q) :
               /\ Appears(q[i]) /\ \A j \in 1..Len(q) : j > i => ~Appears(q[j])
               /\ row = IF \E j \in 1..Len(q) : j > i /\ Disappears(q[j], q[i][2]) THEN NoRow ELSE q[i][2]
    <2>1. PICK i \in 1..Len(q) :
               /\ Appears(q[i]) /\ \A j \in 1..Len(q) : j > i => ~Appears(q[j])
               /\ row = IF \E j \in 1..Len(q) : j > i /\ Disappears(q[j], q[i][2]) THEN NoRow ELSE q[i][2]
      BY <1>4
    <2>2. i \in 1..Len(r) /\ r[i] = q[i]
      BY <1>1
    <2>3. \A j \in 1..Len(r) : j > i => ~Appears(r[j])
      BY <1>1, <1>2, <2>1
    <2>4. (\E j \in 1..Len(r) : j > i /\ Disappears(r[j], r[i][2]))
            <=> (\E j \in 1..Len(q) : j > i /\ Disappears(q[j], q[i][2]))
      BY <1>1, <1>2, <2>2
    <2> QED BY <2>1, <2>2, <2>3, <2>4 DEF ButtonSettles, r
  <1> QED BY <1>3, <1>4 DEF ButtonSettles

\* What a message makes of the button's place.
ButtonAfter(v, m) ==
    IF Appears(m) THEN m[2] ELSE IF Disappears(m, v) THEN NoRow ELSE v

LEMMA ButtonHandled ==
    ASSUME NEW q \in Seq(FromCalc), q # <<>>, NEW v, NEW row, ButtonSettles(q, v, row)
    PROVE  ButtonSettles(Tail(q), ButtonAfter(v, Head(q)), row)
  <1> DEFINE r == Tail(q)
  <1> DEFINE h == Head(q)
  <1>1. /\ h \in FromCalc /\ h = q[1] /\ Len(q) \in Nat /\ Len(r) = Len(q) - 1 /\ 1 \in 1..Len(q)
        /\ \A i \in 1..Len(r) : r[i] = q[i + 1] /\ i + 1 \in 1..Len(q)
        /\ \A i \in 1..Len(q) : i = 1 \/ (i - 1 \in 1..Len(r) /\ r[i - 1] = q[i])
    BY Behead
  <1>2. ~Appears(h) \/ \A x : ~Disappears(h, x)
    BY DEF Appears, Disappears
  <1>3. \A x \in {NoRow} : \A m \in FromCalc : ~Disappears(m, x)
    BY FromCalcIs, NoRowIsNoRow DEF Disappears
  <1> HIDE DEF r, h
  <1> DEFINE w == ButtonAfter(v, h)
  <1>4. CASE /\ \A j \in 1..Len(q) : ~Appears(q[j])
             /\ row = IF \E j \in 1..Len(q) : Disappears(q[j], v) THEN NoRow ELSE v
    <2>1. \A j \in 1..Len(r) : ~Appears(r[j])
      BY <1>1, <1>4
    <2>2. \A j \in 1..Len(r) : ~Disappears(r[j], NoRow)
      <3>1. \A j \in 1..Len(r) : r[j] \in FromCalc
        BY <1>1
      <3> QED BY <1>3, <3>1
    <2>3. CASE Disappears(h, v)
      <3>1. w = NoRow /\ row = NoRow
        BY <1>1, <1>4, <2>3 DEF ButtonAfter
      <3> QED BY <2>1, <2>2, <3>1 DEF ButtonSettles, r, h
    <2>4. CASE ~Disappears(h, v)
      <3>1. w = v
        BY <1>1, <1>4, <2>4 DEF ButtonAfter
      <3>2. (\E j \in 1..Len(r) : Disappears(r[j], v)) <=> (\E j \in 1..Len(q) : Disappears(q[j], v))
        BY <1>1, <2>4
      <3> QED BY <1>4, <2>1, <3>1, <3>2 DEF ButtonSettles, r, h
    <2> QED BY <2>3, <2>4
  <1>5. CASE \E i \in 1..Len(q) :
               /\ Appears(q[i]) /\ \A j \in 1..Len(q) : j > i => ~Appears(q[j])
               /\ row = IF \E j \in 1..Len(q) : j > i /\ Disappears(q[j], q[i][2]) THEN NoRow ELSE q[i][2]
    <2>1. PICK i \in 1..Len(q) :
               /\ Appears(q[i]) /\ \A j \in 1..Len(q) : j > i => ~Appears(q[j])
               /\ row = IF \E j \in 1..Len(q) : j > i /\ Disappears(q[j], q[i][2]) THEN NoRow ELSE q[i][2]
      BY <1>5
    <2>2. CASE i = 1
      <3>1. w = q[i][2]
        BY <1>1, <2>1, <2>2 DEF ButtonAfter
      <3>2. \A j \in 1..Len(r) : ~Appears(r[j])
        BY <1>1, <2>1, <2>2
      <3>3. (\E j \in 1..Len(r) : Disappears(r[j], w)) <=> (\E j \in 1..Len(q) : j > i /\ Disappears(q[j], w))
        BY <1>1, <2>2
      <3> HIDE DEF w
      <3> QED BY <2>1, <3>1, <3>2, <3>3 DEF ButtonSettles, r, h, w
    <2>3. CASE i # 1
      <3> DEFINE k == i - 1
      <3>1. k \in 1..Len(r) /\ r[k] = q[i]
        BY <1>1, <2>3
      <3>2. \A j \in 1..Len(r) : j > k => ~Appears(r[j])
        BY <1>1, <2>1
      <3>3. (\E j \in 1..Len(r) : j > k /\ Disappears(r[j], q[i][2]))
              <=> (\E j \in 1..Len(q) : j > i /\ Disappears(q[j], q[i][2]))
        BY <1>1, <2>3
      <3> HIDE DEF k
      <3> QED BY <2>1, <3>1, <3>2, <3>3 DEF ButtonSettles, r, h
    <2> QED BY <2>2, <2>3
  <1> QED BY <1>4, <1>5 DEF ButtonSettles

\* A message behind the first i is still there when more messages come.
LEMMA MarksGoStill ==
    ASSUME NEW q \in Seq(FromCalc), NEW r \in Seq(FromCalc), Len(q) <= Len(r),
           \A i \in 1..Len(q) : r[i] = q[i], NEW i \in Nat, NEW area, MarksWillGo(q, i, area)
    PROVE  MarksWillGo(r, i, area)
  <1>1. PICK j \in 1..Len(q) :
          j > i /\ (q[j] = <<"marks", FALSE>> \/ (q[j][1] \in {"cell", "empty"} /\ AreaIsGone(q, i, j, area)))
    BY DEF MarksWillGo
  <1>2. j \in 1..Len(r) /\ r[j] = q[j] /\ Len(q) \in Nat
    BY <1>1
  <1>3. \A k \in 1..(j - 1) : k \in 1..Len(q) /\ r[k] = q[k]
    BY <1>1, <1>2
  <1>4. AreaIsGone(q, i, j, area) => AreaIsGone(r, i, j, area)
    BY <1>3 DEF AreaIsGone
  <1> QED BY <1>1, <1>2, <1>4 DEF MarksWillGo

\* When the first message has been read, the others are one place further on.
LEMMA MarksGoBehind ==
    ASSUME NEW q \in Seq(FromCalc), q # <<>>, NEW i \in 1..Len(q), NEW area,
           MarksWillGo(q, i, area)
    PROVE  MarksWillGo(Tail(q), i - 1, area)
  <1> DEFINE r == Tail(q)
  <1>1. /\ Len(q) \in Nat /\ Len(r) = Len(q) - 1
        /\ \A k \in 1..Len(q) : k = 1 \/ (k - 1 \in 1..Len(r) /\ r[k - 1] = q[k])
        /\ \A k \in 1..Len(r) : r[k] = q[k + 1] /\ k + 1 \in 1..Len(q)
    BY Behead
  <1> HIDE DEF r
  <1>2. PICK j \in 1..Len(q) :
          j > i /\ (q[j] = <<"marks", FALSE>> \/ (q[j][1] \in {"cell", "empty"} /\ AreaIsGone(q, i, j, area)))
    BY DEF MarksWillGo
  <1>3. j - 1 \in 1..Len(r) /\ r[j - 1] = q[j] /\ j - 1 > i - 1
    BY <1>1, <1>2
  <1>4. \A k \in 1..((j - 1) - 1) : k + 1 \in 1..(j - 1) /\ k \in 1..Len(r) /\ r[k] = q[k + 1]
    BY <1>1, <1>2
  <1>5. \A k \in 1..(j - 1) : k > i => k - 1 \in 1..((j - 1) - 1) /\ k - 1 > i - 1 /\ r[k - 1] = q[k]
    BY <1>1, <1>2
  <1>6. ASSUME AreaIsGone(q, i, j, area) PROVE AreaIsGone(r, i - 1, j - 1, area)
    <2>1. CASE ~area /\ \A k \in 1..(j - 1) : k > i => q[k] # <<"area", TRUE>>
      <3>1. ASSUME NEW k \in 1..((j - 1) - 1), k > i - 1 PROVE r[k] # <<"area", TRUE>>
        <4>1. k + 1 > i /\ k + 1 \in 1..(j - 1) /\ r[k] = q[k + 1]
          BY <1>4, <3>1
        <4> QED BY <2>1, <4>1
      <3> QED BY <2>1, <3>1 DEF AreaIsGone
    <2>2. CASE \E k \in 1..(j - 1) : /\ k > i /\ q[k] = <<"area", FALSE>>
                                     /\ \A l \in 1..(j - 1) : l > k => q[l] # <<"area", TRUE>>
      <3>1. PICK k \in 1..(j - 1) : /\ k > i /\ q[k] = <<"area", FALSE>>
                                    /\ \A l \in 1..(j - 1) : l > k => q[l] # <<"area", TRUE>>
        BY <2>2
      <3>2. ASSUME NEW l \in 1..((j - 1) - 1), l > k - 1 PROVE r[l] # <<"area", TRUE>>
        <4>1. l + 1 > k /\ l + 1 \in 1..(j - 1) /\ r[l] = q[l + 1]
          BY <1>4, <3>1, <3>2
        <4> QED BY <3>1, <4>1
      <3> QED BY <1>5, <3>1, <3>2 DEF AreaIsGone
    <2> QED BY <1>6, <2>1, <2>2 DEF AreaIsGone
  <1> QED BY <1>2, <1>3, <1>6 DEF MarksWillGo, r

\* What a message makes of the area; a reader has none.
AreaAfter(area, m) ==
    IF m[1] # "area" THEN {area} ELSE IF m[2] = TRUE THEN BOOLEAN ELSE {FALSE}

\* The message that is read takes the marks away, or another one will.
LEMMA MarksGoFirst ==
    ASSUME NEW q \in Seq(FromCalc), q # <<>>, NEW area \in BOOLEAN, MarksWillGo(q, 0, area),
           NEW after \in AreaAfter(area, Head(q))
    PROVE  \/ Head(q) = <<"marks", FALSE>>
           \/ Head(q)[1] \in {"cell", "empty"} /\ ~area
           \/ MarksWillGo(Tail(q), 0, after)
  <1> DEFINE r == Tail(q)
             h == Head(q)
  <1>1. /\ Len(q) \in Nat /\ Len(r) = Len(q) - 1 /\ h = q[1] /\ h \in FromCalc
        /\ \A k \in 1..Len(q) : k = 1 \/ (k - 1 \in 1..Len(r) /\ r[k - 1] = q[k])
        /\ \A k \in 1..Len(r) : r[k] = q[k + 1] /\ k + 1 \in 1..Len(q)
    BY Behead
  <1>2. after \in AreaAfter(area, h) /\ after \in BOOLEAN
    BY FromCalcIs DEF AreaAfter
  <1> HIDE DEF r, h
  <1> SUFFICES ASSUME h # <<"marks", FALSE>>, ~(h[1] \in {"cell", "empty"} /\ ~area)
               PROVE  MarksWillGo(r, 0, after)
    BY DEF r, h
  <1>3. PICK j \in 1..Len(q) :
          j > 0 /\ (q[j] = <<"marks", FALSE>> \/ (q[j][1] \in {"cell", "empty"} /\ AreaIsGone(q, 0, j, area)))
    BY DEF MarksWillGo
  <1>4. j # 1
    <2> SUFFICES ASSUME j = 1 PROVE FALSE
      OBVIOUS
    <2>1. h[1] \in {"cell", "empty"} /\ AreaIsGone(q, 0, 1, area)
      BY <1>1, <1>3
    <2>2. 1..(1 - 1) = {}
      OBVIOUS
    <2>3. ~area
      BY <2>1, <2>2 DEF AreaIsGone
    <2> QED BY <2>1, <2>3
  <1>5. j - 1 \in 1..Len(r) /\ r[j - 1] = q[j] /\ j - 1 > 0 /\ 1 \in 1..(j - 1)
    BY <1>1, <1>3, <1>4
  <1>6. ASSUME NEW k \in 1..((j - 1) - 1)
        PROVE  k + 1 \in 1..(j - 1) /\ k + 1 > 0 /\ r[k] = q[k + 1] /\ k > 0
    <2>1. k \in 1..Len(r) /\ k + 1 \in 1..(j - 1) /\ k > 0
      BY <1>1, <1>3
    <2> QED BY <1>1, <2>1
  <1>7. \A k \in 1..(j - 1) : k # 1 => k - 1 \in 1..((j - 1) - 1) /\ k - 1 > 0 /\ r[k - 1] = q[k]
    BY <1>1, <1>3
  <1>8. ASSUME AreaIsGone(q, 0, j, area) PROVE AreaIsGone(r, 0, j - 1, after)
    <2>1. CASE ~area /\ \A k \in 1..(j - 1) : k > 0 => q[k] # <<"area", TRUE>>
      <3>1. h # <<"area", TRUE>>
        <4>1. 1 \in 1..(j - 1) /\ 1 > 0
          BY <1>5
        <4> QED BY <1>1, <2>1, <4>1
      <3>2. ~after
        BY <1>1, <1>2, <2>1, <3>1, FromCalcIs DEF AreaAfter
      <3>3. \A k \in 1..((j - 1) - 1) : k > 0 => r[k] # <<"area", TRUE>>
        BY <1>6, <2>1
      <3> QED BY <3>2, <3>3 DEF AreaIsGone
    <2>2. CASE \E k \in 1..(j - 1) : /\ k > 0 /\ q[k] = <<"area", FALSE>>
                                     /\ \A l \in 1..(j - 1) : l > k => q[l] # <<"area", TRUE>>
      <3>1. PICK k \in 1..(j - 1) : /\ k > 0 /\ q[k] = <<"area", FALSE>>
                                    /\ \A l \in 1..(j - 1) : l > k => q[l] # <<"area", TRUE>>
        BY <2>2
      <3>2. CASE k = 1
        <4>1. h = <<"area", FALSE>>
          BY <1>1, <3>1, <3>2
        <4>2. h[1] = "area" /\ h[2] = FALSE
          BY <4>1
        <4>3. ~after
          BY <1>2, <4>2 DEF AreaAfter
        <4>4. \A l \in 1..((j - 1) - 1) : l + 1 > 1
          OBVIOUS
        <4>5. \A l \in 1..((j - 1) - 1) : l > 0 => r[l] # <<"area", TRUE>>
          BY <1>6, <3>1, <3>2, <4>4
        <4> QED BY <4>3, <4>5 DEF AreaIsGone
      <3>3. CASE k # 1
        <4>1. ASSUME NEW l \in 1..((j - 1) - 1), l > k - 1 PROVE r[l] # <<"area", TRUE>>
          <5>1. l + 1 > k /\ l + 1 \in 1..(j - 1) /\ r[l] = q[l + 1]
            BY <1>6, <3>1, <4>1
          <5> QED BY <3>1, <5>1
        <4> QED BY <1>7, <3>1, <3>3, <4>1 DEF AreaIsGone
      <3> QED BY <3>2, <3>3
    <2> QED BY <1>8, <2>1, <2>2 DEF AreaIsGone
  <1> QED BY <1>3, <1>5, <1>8 DEF MarksWillGo

-----------------------------------------------------------------------------
(* What the browser draws.                                                 *)

LEMMA ClampedIsTop == ASSUME NEW top \in Int PROVE Clamped(top) \in Tops
  BY CellsAssumption DEF Clamped, Tops, DocHeight, WindowHeight, RowHeight

\* The ends of the sheet are no reason not to see a row.
LEMMA ClampedShows ==
    ASSUME NEW row \in Rows, NEW top \in Int, InWindow(row, top)
    PROVE  InWindow(row, Clamped(top))
  BY CellsAssumption DEF Clamped, InWindow, DocHeight, WindowHeight, RowHeight, Rows

LEMMA ScrollsShow ==
    ASSUME NEW row \in Rows, NEW guard \in AnyRow, NEW top \in Tops
    PROVE  /\ PageScroll(row, guard, top) \in Int /\ InWindow(row, PageScroll(row, guard, top))
           /\ StepScroll(row, top) \in Int
           /\ ~InWindow(row, top) => InWindow(row, StepScroll(row, top))
  <1>1. /\ Page \in Nat /\ Page >= 2 /\ row \in Nat /\ guard \in Int /\ top \in Int
        /\ (Page * 4) \div 2 = Page * 2
    BY CellsAssumption DEF Tops, Rows, AnyRow, NoRow, DocHeight, WindowHeight, RowHeight
  <1>2. PageScroll(row, guard, top) \in Int /\ InWindow(row, PageScroll(row, guard, top))
    <2>1. CASE \/ row * 4 < top + (row - guard) * 4
               \/ (row + 1) * 4 > top + (row - guard) * 4 + Page * 4
      <3>1. PageScroll(row, guard, top) = row * 4 - Page * 2
        BY <1>1, <2>1 DEF PageScroll, WindowHeight, RowHeight
      <3> HIDE DEF PageScroll
      <3> QED BY <1>1, <3>1 DEF InWindow, WindowHeight, RowHeight
    <2>2. CASE ~(\/ row * 4 < top + (row - guard) * 4
                 \/ (row + 1) * 4 > top + (row - guard) * 4 + Page * 4)
      <3>1. PageScroll(row, guard, top) = top + (row - guard) * 4
        BY <1>1, <2>2 DEF PageScroll, WindowHeight, RowHeight
      <3> QED BY <1>1, <2>2, <3>1 DEF InWindow, WindowHeight, RowHeight
    <2> QED BY <2>1, <2>2
  <1>3. 4 \div 4 = 1
    OBVIOUS
  <1>4. StepScroll(row, top) = IF row * 4 < top THEN row * 4 - 1
                               ELSE IF (row + 1) * 4 > top + Page * 4 THEN (row + 1) * 4 - Page * 4 + 1
                               ELSE top
    BY <1>1, <1>3 DEF StepScroll, WindowHeight, RowHeight
  <1>5. StepScroll(row, top) \in Int /\ (~InWindow(row, top) => InWindow(row, StepScroll(row, top)))
    BY <1>1, <1>4 DEF InWindow, WindowHeight, RowHeight
  <1> QED BY <1>2, <1>5


\* The window when the cursor has been looked for.
LEMMA TopAfter ==
    ASSUME NEW c \in Cursors, c.at # NoRow, NEW moved \in BOOLEAN, NEW onPgUpDn \in BOOLEAN,
           NEW top, top = IF onPgUpDn THEN PageScroll(c.at, IF c.pgUp # NoRow THEN c.pgUp ELSE c.pgDn, c.top)
                          ELSE IF moved THEN StepScroll(c.at, c.top)
                          ELSE c.top
    PROVE  /\ Clamped(top) \in Tops
           /\ ~InWindow(c.at, c.top) /\ (moved \/ onPgUpDn) => InWindow(c.at, Clamped(top))
  <1>1. /\ c.at \in Rows /\ c.top \in Tops /\ c.top \in Int
        /\ (IF c.pgUp # NoRow THEN c.pgUp ELSE c.pgDn) \in AnyRow
    BY CellsAssumption DEF Cursors, AnyRow, Tops
  <1> DEFINE guard == IF c.pgUp # NoRow THEN c.pgUp ELSE c.pgDn
  <1> HIDE DEF guard
  <1>2. guard \in AnyRow /\ top = IF onPgUpDn THEN PageScroll(c.at, guard, c.top)
                                 ELSE IF moved THEN StepScroll(c.at, c.top) ELSE c.top
    BY <1>1 DEF guard
  <1>3. /\ PageScroll(c.at, guard, c.top) \in Int /\ InWindow(c.at, PageScroll(c.at, guard, c.top))
        /\ StepScroll(c.at, c.top) \in Int
        /\ ~InWindow(c.at, c.top) => InWindow(c.at, StepScroll(c.at, c.top))
    BY <1>1, <1>2, ScrollsShow
  <1>4. top \in Int /\ (~InWindow(c.at, c.top) /\ (moved \/ onPgUpDn) => InWindow(c.at, top))
    BY <1>1, <1>2, <1>3
  <1> QED BY <1>1, <1>4, ClampedIsTop, ClampedShows

\* _onUpdateCellCursor makes u of c.
Updated(c, moved, onPgUpDn, u) ==
    /\ u.edit = c.edit /\ u.at = c.at /\ u.prev = c.prev /\ u.xy = c.xy /\ u.valid = c.valid
    /\ u.area = c.area /\ u.marks = c.marks /\ u.visible = c.visible
    /\ u.focused = c.focused /\ u.zooming = c.zooming /\ u.filled = c.filled
    /\ u.caret = c.caret /\ u.timer = c.timer
    /\ c.at = NoRow => u.pgUp = c.pgUp /\ u.pgDn = c.pgDn
    /\ c.at # NoRow =>
         /\ u.pgUp = IF onPgUpDn THEN NoRow ELSE c.pgUp
         /\ u.pgDn = IF onPgUpDn THEN NoRow ELSE c.pgDn
         /\ u.button = IF c.valid # NoRow /\ c.valid = c.xy THEN c.at ELSE NoRow
         /\ InWindow(c.at, c.top) => u.top = c.top
         /\ ~InWindow(c.at, c.top) /\ c.xy # c.prevXY /\ (moved \/ onPgUpDn)
              => InWindow(c.at, u.top)

LEMMA UpdateKeeps ==
    ASSUME NEW c \in Cursors, NEW moved \in BOOLEAN, NEW onPgUpDn \in BOOLEAN,
           NEW u, u = UpdateCellCursor(c, moved, onPgUpDn)
    PROVE  u \in Cursors /\ Updated(c, moved, onPgUpDn, u)
  <1>1. NoRow \in AnyRow
    BY NoRowIsNoRow
  <1>2. CASE c.at = NoRow
    <2>1. u = RemoveDropDown([c EXCEPT !.drawn = NoRow])
      BY <1>2 DEF UpdateCellCursor
    <2>2. u = IF c.valid = NoRow THEN [c EXCEPT !.drawn = NoRow, !.button = NoRow] ELSE [c EXCEPT !.drawn = NoRow]
      BY <2>1 DEF RemoveDropDown, Cursors
    <2>3. PICK b \in AnyRow : u = [c EXCEPT !.drawn = NoRow, !.button = b]
      <3>1. [c EXCEPT !.drawn = NoRow] = [c EXCEPT !.drawn = NoRow, !.button = c.button] /\ c.button \in AnyRow
        BY DEF Cursors
      <3> QED BY <1>1, <2>2, <3>1, Zenon
    <2> QED BY <1>1, <1>2, <2>3 DEF Cursors, Updated
  <1>3. CASE c.at # NoRow
    <2> DEFINE away == ~InWindow(c.at, c.top) /\ c.xy # c.prevXY
               top == IF onPgUpDn THEN PageScroll(c.at, IF c.pgUp # NoRow THEN c.pgUp ELSE c.pgDn, c.top)
                      ELSE IF moved THEN StepScroll(c.at, c.top)
                      ELSE c.top
               seen == IF away THEN [c EXCEPT !.top = Clamped(top), !.prevXY = c.xy] ELSE c
               free == IF onPgUpDn THEN [seen EXCEPT !.pgUp = NoRow, !.pgDn = NoRow] ELSE seen
    <2>1. u = RemoveDropDown(AddDropDown([free EXCEPT !.drawn = c.at, !.button = NoRow]))
      BY <1>3 DEF UpdateCellCursor
    <2>2. /\ Clamped(top) \in Tops
          /\ ~InWindow(c.at, c.top) /\ (moved \/ onPgUpDn) => InWindow(c.at, Clamped(top))
      BY <1>3, TopAfter
    <2> HIDE DEF top
    <2>3. \E t \in Tops, p \in AnyRow :
            /\ seen = [c EXCEPT !.top = t, !.prevXY = p]
            /\ InWindow(c.at, c.top) => t = c.top
            /\ ~InWindow(c.at, c.top) /\ c.xy # c.prevXY /\ (moved \/ onPgUpDn) => InWindow(c.at, t)
      <3>1. CASE away
        BY <2>2, <3>1, Zenon DEF Cursors
      <3>2. CASE ~away
        <4>1. c = [c EXCEPT !.top = c.top, !.prevXY = c.prevXY] /\ c.top \in Tops /\ c.prevXY \in AnyRow
          BY DEF Cursors
        <4> QED BY <3>2, <4>1, Zenon
      <3> QED BY <3>1, <3>2, Zenon
    <2> HIDE DEF seen
    <2>4. PICK t \in Tops, p \in AnyRow :
            /\ seen = [c EXCEPT !.top = t, !.prevXY = p]
            /\ InWindow(c.at, c.top) => t = c.top
            /\ ~InWindow(c.at, c.top) /\ c.xy # c.prevXY /\ (moved \/ onPgUpDn) => InWindow(c.at, t)
      BY <2>3, Zenon
    <2> DEFINE upKey == IF onPgUpDn THEN NoRow ELSE c.pgUp
               downKey == IF onPgUpDn THEN NoRow ELSE c.pgDn
    <2>5. seen \in Cursors /\ seen.pgUp = c.pgUp /\ seen.pgDn = c.pgDn /\ upKey \in AnyRow /\ downKey \in AnyRow
      BY <1>1, <2>4 DEF Cursors
    <2>6. free = [seen EXCEPT !.pgUp = upKey, !.pgDn = downKey]
      BY <2>5 DEF Cursors
    <2> HIDE DEF free, upKey, downKey
    <2>7. free \in Cursors /\ free = [c EXCEPT !.top = t, !.prevXY = p, !.pgUp = upKey, !.pgDn = downKey]
      BY <2>4, <2>5, <2>6 DEF Cursors
    <2>8. /\ free.edit = c.edit /\ free.at = c.at /\ free.prev = c.prev /\ free.xy = c.xy
          /\ free.valid = c.valid /\ free.area = c.area /\ free.marks = c.marks
          /\ free.visible = c.visible /\ free.focused = c.focused /\ free.zooming = c.zooming
          /\ free.filled = c.filled /\ free.caret = c.caret /\ free.timer = c.timer
          /\ free.top = t /\ free.pgUp = upKey /\ free.pgDn = downKey
      BY <2>7 DEF Cursors
    <2> DEFINE g == [free EXCEPT !.drawn = c.at, !.button = NoRow]
    <2>9. /\ c.at \in AnyRow /\ c.valid \in AnyRow
          /\ g.valid = c.valid /\ g.xy = c.xy /\ g.at = c.at
          /\ [g EXCEPT !.button = g.at] = [free EXCEPT !.drawn = c.at, !.button = c.at]
          /\ [g EXCEPT !.button = NoRow] = [free EXCEPT !.drawn = c.at, !.button = NoRow]
      BY <1>1, <2>7, <2>8 DEF Cursors
    <2> HIDE DEF g
    <2>10. u = [free EXCEPT !.drawn = c.at, !.button = IF c.valid # NoRow /\ c.valid = c.xy THEN c.at ELSE NoRow]
      <3>1. u = RemoveDropDown(AddDropDown(g))
        BY <2>1 DEF g
      <3>2. CASE c.valid # NoRow /\ c.valid = c.xy
        <4>1. AddDropDown(g) = [free EXCEPT !.drawn = c.at, !.button = c.at]
          BY <2>9, <3>2 DEF AddDropDown
        <4>2. [free EXCEPT !.drawn = c.at, !.button = c.at].valid = c.valid
          BY <2>7, <2>8 DEF Cursors
        <4> QED BY <3>1, <3>2, <4>1, <4>2 DEF RemoveDropDown
      <3>3. CASE ~(c.valid # NoRow /\ c.valid = c.xy)
        <4>1. AddDropDown(g) = g
          BY <2>9, <3>3 DEF AddDropDown
        <4>2. RemoveDropDown(g) = [free EXCEPT !.drawn = c.at, !.button = NoRow]
          BY <2>9 DEF RemoveDropDown, g
        <4> QED BY <3>1, <3>3, <4>1, <4>2
      <3> QED BY <3>2, <3>3
    <2> DEFINE b == IF c.valid # NoRow /\ c.valid = c.xy THEN c.at ELSE NoRow
    <2>11. b \in AnyRow /\ u = [free EXCEPT !.drawn = c.at, !.button = b]
      BY <1>1, <2>9, <2>10
    <2> HIDE DEF b
    <2>12. free \in Cursors
      BY <2>7
    <2>13. /\ u \in Cursors
          /\ u.edit = free.edit /\ u.at = free.at /\ u.prev = free.prev /\ u.xy = free.xy
          /\ u.valid = free.valid /\ u.area = free.area /\ u.marks = free.marks
          /\ u.visible = free.visible /\ u.focused = free.focused /\ u.zooming = free.zooming
          /\ u.filled = free.filled /\ u.caret = free.caret /\ u.timer = free.timer
          /\ u.top = free.top /\ u.pgUp = free.pgUp /\ u.pgDn = free.pgDn /\ u.button = b
      BY <2>12, <2>9, <2>11, ZenonT(30) DEF Cursors
    <2> QED BY <1>3, <2>4, <2>8, <2>13 DEF b, upKey, downKey, Updated
  <1> QED BY <1>2, <1>3

-----------------------------------------------------------------------------
(* What the kit tells.                                                     *)

LEMMA ConcatAppends ==
    \A q, a, b \in Seq(FromCalc) : \A c \in FromCalc :
       q \o (<<c>> \o (a \o b)) = (Append(q, c) \o a) \o b
  <1> SUFFICES ASSUME NEW q \in Seq(FromCalc), NEW a \in Seq(FromCalc), NEW b \in Seq(FromCalc),
                      NEW c \in FromCalc
               PROVE  q \o (<<c>> \o (a \o b)) = (Append(q, c) \o a) \o b
    OBVIOUS
  <1>1. <<c>> \in Seq(FromCalc) /\ Append(q, c) = q \o <<c>>
    BY AppendIsConcat
  <1>2. a \o b \in Seq(FromCalc) /\ q \o <<c>> \in Seq(FromCalc)
    BY <1>1, ConcatProperties
  <1>3. q \o (<<c>> \o (a \o b)) = (q \o <<c>>) \o (a \o b)
    BY <1>1, <1>2, ConcatAssociative, SMTT(30)
  <1>4. (q \o <<c>>) \o (a \o b) = ((q \o <<c>>) \o a) \o b
    BY <1>2, ConcatAssociative, SMTT(30)
  <1> QED BY <1>1, <1>3, <1>4

\* A message that may be left out.
MayAppend(q, p, m) == IF p THEN Append(q, m) ELSE q

LEMMA ConcatMayAppend ==
    ASSUME NEW M, NEW q \in Seq(M), NEW m \in M, NEW p \in BOOLEAN
    PROVE  /\ q \o (IF p THEN <<m>> ELSE <<>>) = MayAppend(q, p, m)
           /\ (IF p THEN <<m>> ELSE <<>>) \in Seq(M)
  <1>1. q \o <<m>> = Append(q, m) /\ q \o <<>> = q /\ <<m>> \in Seq(M) /\ <<>> \in Seq(M)
    BY AppendIsConcat, ConcatEmptySeq
  <1> QED BY <1>1 DEF MayAppend

\* The messages of q come first in r, and what follows is not about the range.
Goes(q, r) ==
    /\ r \in Seq(FromCalc) /\ Len(q) <= Len(r)
    /\ \A i \in 1..Len(q) : r[i] = q[i]
    /\ \A i \in 1..Len(r) : i > Len(q) => r[i][1] \in {"cell", "list", "empty", "cursorvisible"}

LEMMA GoesOn ==
    ASSUME NEW q \in Seq(FromCalc), NEW r, Goes(q, r), NEW m \in FromCalc,
           m[1] \in {"cell", "list", "empty", "cursorvisible"}
    PROVE  Goes(q, Append(r, m))
  <1> DEFINE s == Append(r, m)
  <1>1. r \in Seq(FromCalc) /\ Len(q) \in Nat
    BY DEF Goes
  <1>2. /\ s \in Seq(FromCalc) /\ Len(r) \in Nat /\ Len(s) = Len(r) + 1 /\ s[Len(r) + 1] = m
        /\ \A i \in 1..Len(r) : s[i] = r[i] /\ i \in 1..Len(s)
        /\ \A i \in 1..Len(s) : i \in 1..Len(r) \/ i = Len(r) + 1
    BY <1>1, Appended
  <1> HIDE DEF s
  <1>3. Len(q) <= Len(s) /\ \A i \in 1..Len(q) : i \in 1..Len(r) /\ s[i] = q[i]
    BY <1>1, <1>2 DEF Goes
  <1>4. \A i \in 1..Len(s) : i > Len(q) => s[i][1] \in {"cell", "list", "empty", "cursorvisible"}
    BY <1>1, <1>2 DEF Goes
  <1> QED BY <1>2, <1>3, <1>4 DEF Goes, s

LEMMA GoesFrom == ASSUME NEW q \in Seq(FromCalc) PROVE Goes(q, q)
  BY DEF Goes

\* What the browser will believe of the cell and its button when q has been read.
Told(q, at, v, row, list) == Final(q, {"cell"}, at, row) /\ ButtonSettles(q, v, list)

LEMMA OtherTold ==
    ASSUME NEW q \in Seq(FromCalc), NEW m \in FromCalc, m[1] \notin {"cell", "list"},
           NEW at, NEW v, NEW row, NEW list, Told(q, at, v, row, list)
    PROVE  Told(Append(q, m), at, v, row, list)
  <1>1. Final(Append(q, m), {"cell"}, at, row)
    BY FinalAppend DEF Told
  <1>2. ButtonSettles(Append(q, m), v, list)
    BY ButtonStays DEF Told
  <1> QED BY <1>1, <1>2 DEF Told

\* A message about a button.
LEMMA ButtonTold ==
    ASSUME NEW q \in Seq(FromCalc), NEW p \in BOOLEAN, NEW b \in Rows, NEW shown \in BOOLEAN,
           NEW at, NEW v, NEW row, NEW list, Told(q, at, v, row, list),
           NEW new, new = IF ~p THEN list ELSE IF shown THEN b ELSE IF list = b THEN NoRow ELSE list
    PROVE  /\ MayAppend(q, p, <<"list", b, shown>>) \in Seq(FromCalc)
           /\ Told(MayAppend(q, p, <<"list", b, shown>>), at, v, row, new)
           /\ \A o : Goes(o, q) /\ o \in Seq(FromCalc) => Goes(o, MayAppend(q, p, <<"list", b, shown>>))
  <1>1. PICK m \in FromCalc : m = <<"list", b, shown>>
    BY DEF FromCalc
  <1>2. m[1] = "list" /\ m[2] = b /\ m[3] = shown
    BY <1>1
  <1>3. CASE ~p
    BY <1>3 DEF MayAppend
  <1>4. CASE p
    <2>1. Append(q, m) \in Seq(FromCalc)
      OBVIOUS
    <2>2. Final(Append(q, m), {"cell"}, at, row)
      BY <1>2, FinalAppend DEF Told
    <2>3. ButtonSettles(Append(q, m), v, new)
      <3>1. CASE shown
        <4>1. Appears(m) /\ new = m[2]
          BY <1>2, <1>4, <3>1 DEF Appears
        <4> QED BY <4>1, ButtonAppears
      <3>2. CASE ~shown
        <4>1. m[3] = FALSE /\ new = IF list = m[2] THEN NoRow ELSE list
          BY <1>2, <1>4, <3>2
        <4>2. ButtonSettles(q, v, list)
          BY DEF Told
        <4> QED BY <1>2, <4>1, <4>2, ButtonDisappears
      <3> QED BY <3>1, <3>2
    <2>4. \A o : Goes(o, q) /\ o \in Seq(FromCalc) => Goes(o, Append(q, m))
      BY <1>2, GoesOn
    <2> QED BY <1>1, <1>4, <2>1, <2>2, <2>3, <2>4 DEF MayAppend, Told
  <1> QED BY <1>3, <1>4

AfterMoves(q, tab, row, newTab, newRow, showFirst) == q \o Moves(tab, row, newTab, newRow, showFirst)

\* The first message in r behind q.
CellFirst(q, r, row) == Len(q) + 1 \in 1..Len(r) /\ r[Len(q) + 1] = <<"cell", row>>

\* The cursor goes from one cell to another.
LEMMA MovesTold ==
    ASSUME NEW q \in Seq(FromCalc), NEW at, NEW v, NEW was,
           NEW tab \in Tabs, NEW row \in Rows, NEW newTab \in Tabs, NEW newRow \in Rows,
           tab # newTab \/ row # newRow, NEW showFirst \in BOOLEAN,
           Told(q, at, v, was, ListAt(tab, row)),
           NEW r, r = AfterMoves(q, tab, row, newTab, newRow, showFirst)
    PROVE  /\ Told(r, at, v, newRow, ListAt(newTab, newRow))
           /\ Goes(q, r) /\ CellFirst(q, r, newRow)
  <1>1. PICK c \in FromCalc : c = <<"cell", newRow>>
    BY DEF FromCalc
  <1>2. PICK h \in FromCalc : h = <<"list", row, FALSE>>
    BY DEF FromCalc
  <1>3. PICK s \in FromCalc : s = <<"list", newRow, TRUE>>
    BY DEF FromCalc
  <1>4. c[1] = "cell" /\ c[2] = newRow
    BY <1>1
  <1> DEFINE p == Append(q, c)
             hides == Listed(tab, row)
             shows == Listed(newTab, newRow)
             first == showFirst /\ tab = newTab
  <1>5. p \in Seq(FromCalc) /\ Len(p) = Len(q) + 1 /\ p[Len(q) + 1] = c /\ Len(q) \in Nat
    BY Appended
  <1>6. Told(p, at, v, newRow, ListAt(tab, row)) /\ Goes(q, p)
    <2>1. Final(p, {"cell"}, at, newRow)
      BY <1>4, FinalAppend
    <2>2. ButtonSettles(p, v, ListAt(tab, row))
      BY <1>4, ButtonStays DEF Told
    <2>3. Goes(q, p)
      BY <1>4, GoesOn, GoesFrom
    <2> QED BY <2>1, <2>2, <2>3 DEF Told
  <1>7. hides \in BOOLEAN /\ shows \in BOOLEAN /\ first \in BOOLEAN
    BY DEF Listed
  <1> DEFINE H == IF hides THEN <<h>> ELSE <<>>
             S == IF shows THEN <<s>> ELSE <<>>
  <1>8. r = q \o (<<c>> \o (IF first THEN S \o H ELSE H \o S))
    BY <1>1, <1>2, <1>3 DEF AfterMoves, Moves
  <1>9. \A a, b \in Seq(FromCalc) : q \o (<<c>> \o (a \o b)) = (p \o a) \o b
    BY ConcatAppends, SMTT(30)
  <1> HIDE DEF p, hides, shows, first
  <1>10. H \in Seq(FromCalc) /\ S \in Seq(FromCalc)
    BY <1>7, ConcatMayAppend
  <1>11. Goes(p, p)
    BY <1>5, GoesFrom
  <1>12. ASSUME NEW t, Told(t, at, v, newRow, ListAt(newTab, newRow)), Goes(q, t), Goes(p, t), r = t
         PROVE  /\ Told(r, at, v, newRow, ListAt(newTab, newRow))
                /\ Goes(q, r) /\ CellFirst(q, r, newRow)
    BY <1>1, <1>5, <1>12 DEF Goes, CellFirst
  <1>13. CASE first
    <2> DEFINE a == MayAppend(p, shows, s)
               t == MayAppend(a, hides, h)
               mid == IF shows THEN newRow ELSE ListAt(tab, row)
    <2>1. tab = newTab /\ row # newRow
      BY <1>13 DEF first
    <2>2. a \in Seq(FromCalc) /\ Told(a, at, v, newRow, mid) /\ Goes(q, a) /\ Goes(p, a)
      BY <1>3, <1>5, <1>6, <1>7, <1>11, ButtonTold
    <2> HIDE DEF mid
    <2>3. ListAt(newTab, newRow) = IF ~hides THEN mid ELSE IF mid = row THEN NoRow ELSE mid
      BY <2>1, NoRowIsNoRow DEF mid, ListAt, hides, shows
    <2> HIDE DEF a
    <2>4. Told(t, at, v, newRow, ListAt(newTab, newRow)) /\ Goes(q, t) /\ Goes(p, t)
      BY <1>2, <1>5, <1>7, <2>2, <2>3, ButtonTold
    <2>5. r = (p \o S) \o H
      <3> HIDE DEF S, H
      <3>1. r = q \o (<<c>> \o (S \o H))
        BY <1>8, <1>13
      <3>2. q \o (<<c>> \o (S \o H)) = (p \o S) \o H
        BY <1>9, <1>10
      <3> QED BY <3>1, <3>2
    <2>6. p \o S = a
      BY <1>5, <1>7, ConcatMayAppend DEF a
    <2>7. a \o H = t
      BY <1>7, <2>2, ConcatMayAppend
    <2>8. r = t
      BY <2>5, <2>6, <2>7
    <2> HIDE DEF t
    <2> QED BY <1>12, <2>4, <2>8
  <1>14. CASE ~first
    <2> DEFINE a == MayAppend(p, hides, h)
               t == MayAppend(a, shows, s)
               mid == IF hides THEN NoRow ELSE ListAt(tab, row)
    <2>1. mid = NoRow /\ mid = IF ~hides THEN ListAt(tab, row)
                              ELSE IF ListAt(tab, row) = row THEN NoRow ELSE ListAt(tab, row)
      BY DEF ListAt, hides
    <2> HIDE DEF mid
    <2>2. a \in Seq(FromCalc) /\ Told(a, at, v, newRow, mid) /\ Goes(q, a) /\ Goes(p, a)
      BY <1>2, <1>5, <1>6, <1>7, <1>11, <2>1, ButtonTold
    <2>3. ListAt(newTab, newRow) = IF ~shows THEN mid ELSE newRow
      BY <2>1 DEF ListAt, shows
    <2> HIDE DEF a
    <2>4. Told(t, at, v, newRow, ListAt(newTab, newRow)) /\ Goes(q, t) /\ Goes(p, t)
      BY <1>3, <1>5, <1>7, <2>2, <2>3, ButtonTold
    <2>5. r = (p \o H) \o S
      <3> HIDE DEF S, H
      <3>1. r = q \o (<<c>> \o (H \o S))
        BY <1>8, <1>14
      <3>2. q \o (<<c>> \o (H \o S)) = (p \o H) \o S
        BY <1>9, <1>10
      <3> QED BY <3>1, <3>2
    <2>6. p \o H = a
      BY <1>5, <1>7, ConcatMayAppend DEF a
    <2>7. a \o S = t
      BY <1>7, <2>2, ConcatMayAppend
    <2>8. r = t
      BY <2>5, <2>6, <2>7
    <2> HIDE DEF t
    <2> QED BY <1>12, <2>4, <2>8
  <1> QED BY <1>13, <1>14

\* The marks are still taken away when more messages come that mark nothing.
LEMMA MarksStillTold ==
    ASSUME NEW q \in Seq(FromCalc), NEW r \in Seq(FromCalc), Len(q) <= Len(r),
           \A i \in 1..Len(q) : r[i] = q[i],
           \A i \in 1..Len(r) : i > Len(q) => r[i] # <<"marks", TRUE>>,
           NEW area, NEW marked, MarksTold(q, area, marked)
    PROVE  MarksTold(r, area, marked)
  <1>1. \A i \in Nat : \A a : MarksWillGo(q, i, a) => MarksWillGo(r, i, a)
    BY MarksGoStill
  <1>2. marked => MarksWillGo(r, 0, area)
    BY <1>1 DEF MarksTold
  <1>3. ASSUME NEW i \in 1..Len(r), r[i] = <<"marks", TRUE>> PROVE MarksWillGo(r, i, TRUE)
    <2>1. ~(i > Len(q))
      BY <1>3, Zenon
    <2>2. i \in 1..Len(q) /\ i \in Nat
      BY <2>1
    <2>3. q[i] = <<"marks", TRUE>>
      BY <1>3, <2>2
    <2>4. MarksWillGo(q, i, TRUE)
      BY <2>2, <2>3 DEF MarksTold
    <2> QED BY <1>1, <2>2, <2>4
  <1> QED BY <1>2, <1>3 DEF MarksTold

\* The range has ended and the cursor has moved.
LEMMA RangeIsGone ==
    ASSUME NEW q \in Seq(FromCalc), NEW s \in Seq(FromCalc), \A i \in 1..Len(q) : s[i] = q[i],
           NEW a \in 1..Len(s), a = Len(q) + 1, s[a] = <<"area", FALSE>>,
           NEW j \in 1..Len(s), j > a, s[j][1] = "cell",
           \A i \in 1..Len(s) : i > a => s[i] # <<"area", TRUE>> /\ s[i] # <<"marks", TRUE>>,
           NEW area, NEW marked
    PROVE  MarksTold(s, area, marked)
  <1>1. Len(q) \in Nat /\ Len(s) \in Nat
    OBVIOUS
  <1>2. ASSUME NEW i \in Nat, i <= Len(q), NEW b PROVE MarksWillGo(s, i, b)
    <2>1. a \in 1..(j - 1) /\ a > i /\ j > i
      BY <1>1, <1>2
    <2>2. ASSUME NEW l \in 1..(j - 1), l > a PROVE s[l] # <<"area", TRUE>>
      <3>1. l \in 1..Len(s)
        BY <1>1
      <3> QED BY <2>2, <3>1
    <2>3. AreaIsGone(s, i, j, b)
      BY <2>1, <2>2 DEF AreaIsGone
    <2> QED BY <2>1, <2>3 DEF MarksWillGo
  <1>3. ASSUME NEW i \in 1..Len(s), s[i] = <<"marks", TRUE>> PROVE MarksWillGo(s, i, TRUE)
    <2>1. i # a
      BY <1>3
    <2>2. ~(i > a)
      BY <1>3
    <2>3. i <= Len(q) /\ i \in Nat
      BY <1>1, <2>1, <2>2
    <2> QED BY <1>2, <2>3
  <1>4. MarksWillGo(s, 0, area)
    BY <1>1, <1>2
  <1> QED BY <1>3, <1>4 DEF MarksTold

LEMMA RangeEndsTold ==
    ASSUME calcOut \in Seq(FromCalc), NEW marksToo \in BOOLEAN, NEW r, r = calcOut \o RangeEnds(marksToo)
    PROVE  /\ r \in Seq(FromCalc) /\ Len(calcOut) <= Len(r)
           /\ \A i \in 1..Len(calcOut) : r[i] = calcOut[i]
           /\ \A i \in 1..Len(r) : i > Len(calcOut) => r[i] \in {<<"area", FALSE>>, <<"marks", FALSE>>}
           /\ ~calc.range => r = calcOut
           /\ calc.range => Len(calcOut) + 1 \in 1..Len(r) /\ r[Len(calcOut) + 1] = <<"area", FALSE>>
           /\ \A at, v, row, list : Told(calcOut, at, v, row, list) => Told(r, at, v, row, list)
  <1>1. PICK a \in FromCalc : a = <<"area", FALSE>>
    BY DEF FromCalc
  <1>2. PICK m \in FromCalc : m = <<"marks", FALSE>>
    BY DEF FromCalc
  <1>3. a[1] = "area" /\ m[1] = "marks"
    BY <1>1, <1>2
  <1> DEFINE p == Append(calcOut, a)
             s == Append(p, m)
  <1>4. calcOut \o <<>> = calcOut /\ calcOut \o <<a>> = p /\ calcOut \o <<a, m>> = s
    BY ConcatEmptySeq, AppendIsConcat, TwoAppended
  <1>5. r = IF ~calc.range THEN calcOut ELSE IF marksToo THEN s ELSE p
    BY <1>1, <1>2, <1>4 DEF RangeEnds
  <1>6. /\ p \in Seq(FromCalc) /\ Len(p) = Len(calcOut) + 1 /\ p[Len(calcOut) + 1] = a /\ Len(calcOut) \in Nat
        /\ \A i \in 1..Len(calcOut) : p[i] = calcOut[i]
        /\ \A at, v, row, list : Told(calcOut, at, v, row, list) => Told(p, at, v, row, list)
    BY <1>3, OtherTold
  <1> HIDE DEF p
  <1>7. /\ s \in Seq(FromCalc) /\ Len(s) = Len(p) + 1 /\ s[Len(p) + 1] = m
        /\ \A i \in 1..Len(p) : s[i] = p[i]
        /\ \A at, v, row, list : Told(p, at, v, row, list) => Told(s, at, v, row, list)
    BY <1>3, <1>6, OtherTold, SMTT(30)
  <1> HIDE DEF s
  <1>8. CASE r = calcOut /\ ~calc.range
    <2>1. \A i \in 1..Len(calcOut) : ~(i > Len(calcOut))
      BY <1>6
    <2>2. Len(calcOut) <= Len(r) /\ r \in Seq(FromCalc)
      BY <1>6, <1>8
    <2>3. \A i \in 1..Len(r) : i > Len(calcOut) => r[i] \in {<<"area", FALSE>>, <<"marks", FALSE>>}
      BY <1>8, <2>1, Zenon
    <2> QED BY <1>8, <2>2, <2>3, Zenon
  <1>9. CASE r = p /\ calc.range
    <2>1. \A i \in 1..Len(p) : i > Len(calcOut) => i = Len(calcOut) + 1
      BY <1>6
    <2>2. Len(calcOut) + 1 \in 1..Len(p) /\ Len(calcOut) <= Len(p)
      BY <1>6
    <2> QED BY <1>1, <1>6, <1>9, <2>1, <2>2
  <1>10. CASE r = s /\ calc.range
    <2>1. \A i \in 1..Len(s) : i > Len(calcOut) => i = Len(p) \/ i = Len(p) + 1
      BY <1>6, <1>7
    <2>2. \A i \in 1..Len(s) : i > Len(calcOut) => s[i] \in {a, m}
      BY <1>6, <1>7, <2>1
    <2>3. s[Len(calcOut) + 1] = a /\ \A i \in 1..Len(calcOut) : s[i] = calcOut[i]
      BY <1>6, <1>7
    <2>4. Len(calcOut) + 1 \in 1..Len(s) /\ Len(calcOut) <= Len(s)
      BY <1>6, <1>7
    <2> QED BY <1>1, <1>2, <1>6, <1>7, <1>10, <2>2, <2>3, <2>4
  <1> QED BY <1>5, <1>8, <1>9, <1>10

\* What depends on the browser only.
LEMMA CursorStays ==
    ASSUME CellsInv, UNCHANGED <<cur, looking, lapses>>
    PROVE  PageKeyIsFreed' /\ CursorIsInWindow' /\ ButtonAtCursor' /\ CaretIsRight'
  BY DEF CellsInv, PageKeyIsFreed, CursorIsInWindow, ButtonAtCursor, CaretIsRight

LEMMA GoesNotOfRange ==
    ASSUME NEW q, NEW r, Goes(q, r), NEW i \in 1..Len(r), i > Len(q)
    PROVE  r[i] # <<"area", TRUE>> /\ r[i] # <<"marks", TRUE>>
  <1>1. r[i][1] \in {"cell", "list", "empty", "cursorvisible"}
    BY Zenon DEF Goes
  <1>2. r[i] = <<"area", TRUE>> => r[i][1] = "area"
    OBVIOUS
  <1>3. r[i] = <<"marks", TRUE>> => r[i][1] = "marks"
    OBVIOUS
  <1> QED BY <1>1, <1>2, <1>3

LEMMA MoveIsTold ==
    ASSUME CellsInv, UNCHANGED cur, NEW marksToo \in BOOLEAN, NEW first \in BOOLEAN,
           NEW newTab \in Tabs, NEW newRow \in Rows,
           calc.tab # newTab \/ calc.row[calc.tab] # newRow,
           calcOut' = calcOut \o RangeEnds(marksToo)
                              \o Moves(calc.tab, calc.row[calc.tab], newTab, newRow, first),
           calc'.tab = newTab, calc'.row[newTab] = newRow
    PROVE  calcOut' \in Seq(FromCalc) /\ CellIsTold' /\ ListIsTold' /\ MarksAreTakenAway'
  <1>1. PICK ended : ended = calcOut \o RangeEnds(marksToo)
    OBVIOUS
  <1>2. PICK oldTab \in Tabs, oldRow \in Rows : oldTab = calc.tab /\ oldRow = calc.row[calc.tab]
    BY DEF CellsInv, CellsTyped, Calcs
  <1>3. /\ oldTab \in Tabs /\ oldRow \in Rows /\ calcOut \in Seq(FromCalc) /\ calc.range \in BOOLEAN
        /\ cur.area \in BOOLEAN /\ cur.marks \in BOOLEAN
    BY DEF CellsInv, CellsTyped, Calcs, Cursors
  <1>4. PICK was : Told(calcOut, cur.at, cur.valid, was, ListAt(oldTab, oldRow))
    BY <1>2 DEF CellsInv, CellIsTold, ListIsTold, Told
  <1>5. /\ ended \in Seq(FromCalc) /\ Len(calcOut) <= Len(ended)
        /\ \A i \in 1..Len(calcOut) : ended[i] = calcOut[i]
        /\ \A i \in 1..Len(ended) : i > Len(calcOut) => ended[i] \in {<<"area", FALSE>>, <<"marks", FALSE>>}
        /\ ~calc.range => ended = calcOut
        /\ calc.range => Len(calcOut) + 1 \in 1..Len(ended) /\ ended[Len(calcOut) + 1] = <<"area", FALSE>>
        /\ Told(ended, cur.at, cur.valid, was, ListAt(oldTab, oldRow))
    BY <1>3, <1>4, <1>1, RangeEndsTold, ZenonT(30)
  <1>6. PICK r : r = calcOut' /\ r = ended \o Moves(oldTab, oldRow, newTab, newRow, first)
    BY <1>2, <1>1
  <1>7. oldTab # newTab \/ oldRow # newRow
    BY <1>2
  <1>8. /\ Told(r, cur.at, cur.valid, newRow, ListAt(newTab, newRow))
        /\ Goes(ended, r) /\ Len(ended) + 1 \in 1..Len(r) /\ r[Len(ended) + 1] = <<"cell", newRow>>
    <2>1. Told(ended, cur.at, cur.valid, was, ListAt(oldTab, oldRow)) /\ ended \in Seq(FromCalc)
      BY <1>5
    <2>2. oldTab \in Tabs /\ oldRow \in Rows
      BY <1>3
    <2>3. r = AfterMoves(ended, oldTab, oldRow, newTab, newRow, first)
      BY <1>6 DEF AfterMoves
    <2>4. Told(r, cur.at, cur.valid, newRow, ListAt(newTab, newRow)) /\ Goes(ended, r) /\ CellFirst(ended, r, newRow)
      BY <1>7, <2>1, <2>2, <2>3, MovesTold
    <2> QED BY <2>4 DEF CellFirst
  <1>9. r \in Seq(FromCalc)
    BY <1>8 DEF Goes
  <1>10. CellIsTold'
    BY <1>6, <1>8 DEF CellIsTold, Told
  <1>11. ListIsTold'
    BY <1>6, <1>8 DEF ListIsTold, Told
  <1>12. /\ Len(ended) \in Nat /\ Len(r) \in Nat /\ Len(calcOut) \in Nat /\ Len(ended) <= Len(r)
         /\ \A i \in 1..Len(ended) : r[i] = ended[i]
    BY <1>3, <1>5, <1>9, <1>8 DEF Goes
  <1>13. \A i \in 1..Len(r) : i > Len(ended) => r[i] # <<"area", TRUE>> /\ r[i] # <<"marks", TRUE>>
    BY <1>8, GoesNotOfRange
  <1>14. \A i \in 1..Len(ended) : i > Len(calcOut) => ended[i] # <<"area", TRUE>> /\ ended[i] # <<"marks", TRUE>>
    <2>1. \A i \in 1..Len(ended) : i > Len(calcOut) => ended[i] \in {<<"area", FALSE>>, <<"marks", FALSE>>}
      BY <1>5
    <2>2. /\ <<"area", FALSE>> # <<"area", TRUE>> /\ <<"area", FALSE>> # <<"marks", TRUE>>
          /\ <<"marks", FALSE>> # <<"area", TRUE>> /\ <<"marks", FALSE>> # <<"marks", TRUE>>
      OBVIOUS
    <2> QED BY <2>1, <2>2, Zenon
  <1>15. ASSUME NEW i \in 1..Len(r), i > Len(calcOut) PROVE r[i] # <<"area", TRUE>> /\ r[i] # <<"marks", TRUE>>
    <2>1. CASE i \in 1..Len(ended)
      BY <1>12, <1>14, <1>15, <2>1
    <2>2. CASE i > Len(ended)
      BY <1>13, <2>2, Zenon
    <2>3. i \in 1..Len(ended) \/ i > Len(ended)
      BY <1>12
    <2> QED BY <2>1, <2>2, <2>3, Zenon
  <1>16. Len(calcOut) <= Len(r) /\ \A i \in 1..Len(calcOut) : r[i] = calcOut[i]
    <2>1. \A i \in 1..Len(calcOut) : i \in 1..Len(ended)
      BY <1>5, <1>12
    <2> QED BY <1>5, <1>12, <2>1
  <1>17. MarksAreTakenAway'
    <2>1. CASE calc.range
      <3> DEFINE a == Len(calcOut) + 1
                 j == Len(ended) + 1
      <3>1. a \in 1..Len(ended) /\ ended[a] = <<"area", FALSE>>
        BY <1>5, <2>1
      <3>2. a \in 1..Len(r) /\ r[a] = <<"area", FALSE>>
        <4>1. r[a] = ended[a]
          BY <1>12, <3>1, Zenon
        <4>2. a \in 1..Len(r)
          BY <1>12, <3>1
        <4> QED BY <3>1, <4>1, <4>2, Zenon
      <3>3. j \in 1..Len(r) /\ j > a /\ r[j][1] = "cell"
        BY <1>8, <1>12, <3>1
      <3>4. \A i \in 1..Len(r) : i > a => r[i] # <<"area", TRUE>> /\ r[i] # <<"marks", TRUE>>
        <4>1. \A i \in 1..Len(r) : i > a => i > Len(calcOut)
          BY <1>12
        <4> QED BY <1>15, <4>1, Zenon
      <3>5. a = Len(calcOut) + 1
        OBVIOUS
      <3> HIDE DEF a, j
      <3>6. \A area, marked : MarksTold(r, area, marked)
        BY <1>3, <1>9, <1>16, <3>2, <3>3, <3>4, <3>5, RangeIsGone
      <3> QED BY <1>6, <3>6 DEF MarksAreTakenAway
    <2>2. CASE ~calc.range
      <3>1. MarksTold(calcOut, cur.area, cur.marks)
        BY <2>2 DEF CellsInv, MarksAreTakenAway
      <3>2. \A i \in 1..Len(r) : i > Len(calcOut) => r[i] # <<"marks", TRUE>>
        BY <1>15
      <3>3. MarksTold(r, cur.area, cur.marks)
        BY <1>3, <1>9, <1>16, <3>1, <3>2, MarksStillTold
      <3> QED BY <1>6, <3>3 DEF MarksAreTakenAway
    <2> QED BY <2>1, <2>2
  <1> QED BY <1>6, <1>9, <1>10, <1>11, <1>17

LEMMA GoalIsRow ==
    ASSUME NEW key \in {"up", "down", "pgup", "pgdn"}, NEW row \in Rows
    PROVE  Goal(key, row) \in Rows
  BY CellsAssumption DEF Goal, Rows

LEMMA GoesTold ==
    ASSUME NEW q \in Seq(FromCalc), NEW r, Goes(q, r), NEW area, NEW marked, MarksTold(q, area, marked)
    PROVE  MarksTold(r, area, marked)
  <1>1. \A i \in 1..Len(r) : i > Len(q) => r[i] # <<"marks", TRUE>>
    BY GoesNotOfRange
  <1>2. r \in Seq(FromCalc) /\ Len(q) <= Len(r) /\ \A i \in 1..Len(q) : r[i] = q[i]
    BY DEF Goes
  <1> QED BY <1>1, <1>2, MarksStillTold

LEMMA CalcAnswersKeeps ==
    ASSUME CellsInv, NEW first \in BOOLEAN, NEW marksToo \in BOOLEAN, CalcAnswers(first, marksToo)
    PROVE  CellsInv'
  <1> DEFINE m == Head(calcIn)
             row == calc.row[calc.tab]
  <1>1. /\ calcIn # <<>> /\ calcIn' = Tail(calcIn)
        /\ \/ /\ m[1] = "key" /\ Goal(m[2], row) # row
              /\ calc' = [calc EXCEPT !.row[calc.tab] = Goal(m[2], row), !.range = FALSE]
              /\ calcOut' = calcOut \o RangeEnds(marksToo)
                                    \o Moves(calc.tab, row, calc.tab, Goal(m[2], row), first)
           \/ UNCHANGED <<calc, calcOut>>
           \/ /\ calc' = [calc EXCEPT !.range = TRUE]
              /\ calcOut' = calcOut \o <<<<"area", TRUE>>, <<"marks", TRUE>>>>
           \/ /\ UNCHANGED calc
              /\ calcOut' = calcOut \o <<<<"empty">>, <<"cursorvisible">>>>
           \/ /\ m[1] = "tab" /\ m[2] # calc.tab
              /\ calc' = [calc EXCEPT !.tab = m[2], !.range = FALSE]
              /\ calcOut' = calcOut \o RangeEnds(marksToo)
                                    \o Moves(calc.tab, row, m[2], calc.row[m[2]], FALSE)
        /\ UNCHANGED <<cur, looking, lapses>>
    BY Zenon DEF CalcAnswers
  <1>2. /\ calc \in Calcs /\ calcIn \in Seq(ToCalc) /\ calcOut \in Seq(FromCalc)
        /\ cur \in Cursors /\ looking \in BOOLEAN /\ calc.tab \in Tabs /\ row \in Rows
    BY DEF CellsInv, CellsTyped, Calcs
  <1>3. PICK was \in {NoRow, row} : Told(calcOut, cur.at, cur.valid, was, ListAt(calc.tab, row))
    BY SMTT(30) DEF CellsInv, CellIsTold, ListIsTold, Told
  <1>4. calcIn' \in Seq(ToCalc) /\ m \in ToCalc
    BY <1>1, <1>2, Behead, Zenon
  <1>5. m[1] = "key" => m[2] \in {"up", "down", "pgup", "pgdn"}
    BY <1>4 DEF ToCalc
  <1>6. m[1] = "tab" => m[2] \in Tabs
    BY <1>4, SMTT(30) DEF ToCalc
  <1> HIDE DEF m
  <1>7. PageKeyIsFreed' /\ CursorIsInWindow' /\ ButtonAtCursor' /\ CaretIsRight'
    BY <1>1, CursorStays, ZenonT(30)
  <1>8. calc' \in Calcs /\ calcOut' \in Seq(FromCalc) /\ CellIsTold' /\ ListIsTold' /\ MarksAreTakenAway'
    <2>1. CASE /\ m[1] = "key" /\ Goal(m[2], row) # row
               /\ calc' = [calc EXCEPT !.row[calc.tab] = Goal(m[2], row), !.range = FALSE]
               /\ calcOut' = calcOut \o RangeEnds(marksToo)
                                     \o Moves(calc.tab, row, calc.tab, Goal(m[2], row), first)
      <3> DEFINE new == Goal(m[2], row)
      <3>1. new \in Rows
        BY <1>2, <1>5, <2>1, GoalIsRow
      <3> HIDE DEF new
      <3>2. calc' \in Calcs /\ calc'.tab = calc.tab /\ calc'.row[calc.tab] = new
        BY <1>2, <2>1, <3>1, Zenon DEF Calcs, new
      <3>3. calcOut' \in Seq(FromCalc) /\ CellIsTold' /\ ListIsTold' /\ MarksAreTakenAway'
        BY <1>1, <1>2, <2>1, <3>1, <3>2, MoveIsTold, Zenon DEF new
      <3> QED BY <3>2, <3>3
    <2>2. CASE UNCHANGED <<calc, calcOut>>
      BY <1>1, <1>2, <2>2 DEF CellsInv, CellIsTold, ListIsTold, MarksAreTakenAway
    <2>3. CASE /\ calc' = [calc EXCEPT !.range = TRUE]
               /\ calcOut' = calcOut \o <<<<"area", TRUE>>, <<"marks", TRUE>>>>
      <3>1. calc' \in Calcs /\ calc'.tab = calc.tab /\ calc'.row = calc.row /\ calc'.range = TRUE
        BY <1>2, <2>3 DEF Calcs
      <3>2. PICK a \in FromCalc : a = <<"area", TRUE>>
        BY DEF FromCalc
      <3>3. PICK n \in FromCalc : n = <<"marks", TRUE>>
        BY DEF FromCalc
      <3>4. a[1] \notin {"cell", "list"} /\ n[1] \notin {"cell", "list"}
        BY <3>2, <3>3
      <3> DEFINE p == Append(calcOut, a)
      <3>5. calcOut' = Append(p, n)
        <4>1. calcOut \o <<a, n>> = Append(p, n)
          BY <1>2, TwoAppended
        <4> QED BY <2>3, <3>2, <3>3, <4>1
      <3>6. p \in Seq(FromCalc) /\ Told(p, cur.at, cur.valid, was, ListAt(calc.tab, row))
        BY <1>2, <1>3, <3>4, OtherTold
      <3> HIDE DEF p
      <3>7. calcOut' \in Seq(FromCalc) /\ Told(calcOut', cur.at, cur.valid, was, ListAt(calc.tab, row))
        <4>1. Append(p, n) \in Seq(FromCalc) /\ Told(Append(p, n), cur.at, cur.valid, was, ListAt(calc.tab, row))
          BY <3>4, <3>6, OtherTold, SMTT(30)
        <4> QED BY <3>5, <4>1
      <3>8. CellIsTold' /\ ListIsTold'
        BY <1>1, <3>1, <3>7 DEF CellIsTold, ListIsTold, Told
      <3>9. MarksAreTakenAway'
        BY <3>1 DEF MarksAreTakenAway
      <3> QED BY <3>1, <3>7, <3>8, <3>9
    <2>4. CASE /\ UNCHANGED calc
               /\ calcOut' = calcOut \o <<<<"empty">>, <<"cursorvisible">>>>
      <3>1. PICK a \in FromCalc : a = <<"empty">>
        BY DEF FromCalc
      <3>2. PICK n \in FromCalc : n = <<"cursorvisible">>
        BY DEF FromCalc
      <3>3. a[1] = "empty" /\ n[1] = "cursorvisible"
        BY <3>1, <3>2
      <3> DEFINE p == Append(calcOut, a)
      <3>4. calcOut' = Append(p, n)
        <4>1. calcOut \o <<a, n>> = Append(p, n)
          BY <1>2, TwoAppended
        <4> QED BY <2>4, <3>1, <3>2, <4>1
      <3>5. p \in Seq(FromCalc) /\ Told(p, cur.at, cur.valid, was, ListAt(calc.tab, row)) /\ Goes(calcOut, p)
        BY <1>2, <1>3, <3>3, OtherTold, GoesOn, GoesFrom
      <3> HIDE DEF p
      <3>6. /\ calcOut' \in Seq(FromCalc) /\ Told(calcOut', cur.at, cur.valid, was, ListAt(calc.tab, row))
            /\ Goes(calcOut, calcOut')
        <4>1. /\ Append(p, n) \in Seq(FromCalc) /\ Goes(calcOut, Append(p, n))
              /\ Told(Append(p, n), cur.at, cur.valid, was, ListAt(calc.tab, row))
          BY <1>2, <3>3, <3>5, OtherTold, GoesOn
        <4> QED BY <3>4, <4>1
      <3>7. CellIsTold' /\ ListIsTold'
        BY <1>1, <2>4, <3>6 DEF CellIsTold, ListIsTold, Told
      <3>8. MarksAreTakenAway'
        BY <1>1, <1>2, <2>4, <3>6, GoesTold DEF CellsInv, MarksAreTakenAway
      <3> QED BY <1>2, <2>4, <3>6, <3>7, <3>8
    <2>5. CASE /\ m[1] = "tab" /\ m[2] # calc.tab
               /\ calc' = [calc EXCEPT !.tab = m[2], !.range = FALSE]
               /\ calcOut' = calcOut \o RangeEnds(marksToo)
                                     \o Moves(calc.tab, row, m[2], calc.row[m[2]], FALSE)
      <3>1. m[2] \in Tabs
        BY <1>6, <2>5
      <3>2. /\ calc' \in Calcs /\ calc'.tab = m[2] /\ calc'.row[m[2]] = calc.row[m[2]] /\ calc.row[m[2]] \in Rows
        BY <1>2, <2>5, <3>1, Zenon DEF Calcs
      <3>3. calcOut' \in Seq(FromCalc) /\ CellIsTold' /\ ListIsTold' /\ MarksAreTakenAway'
        BY <1>1, <1>2, <2>5, <3>1, <3>2, MoveIsTold, Zenon
      <3> QED BY <3>2, <3>3
    <2> QED BY <1>1, <2>1, <2>2, <2>3, <2>4, <2>5, Zenon
  <1> QED BY <1>1, <1>2, <1>4, <1>7, <1>8, ZenonT(30) DEF CellsInv, CellsTyped

-----------------------------------------------------------------------------
(* The cursor message.                                                     *)

\* Of c the marks are taken away, or there were none, or an area is selected.
MarksLeft(c, d, marked) == d = [c EXCEPT !.marks = marked] /\ (marked => c.marks /\ c.area)

LEMMA UnmarkedIs ==
    ASSUME NEW c \in Cursors
    PROVE  \E marked \in BOOLEAN : MarksLeft(c, Unmarked(c), marked)
  <1>1. CASE ~c.area
    <2>1. MarksLeft(c, Unmarked(c), FALSE)
      BY <1>1 DEF Unmarked, MarksLeft
    <2> QED BY <2>1
  <1>2. CASE c.area
    <2>1. Unmarked(c) = [c EXCEPT !.marks = c.marks] /\ c.marks \in BOOLEAN
      BY <1>2 DEF Unmarked, Cursors
    <2>2. MarksLeft(c, Unmarked(c), c.marks)
      BY <1>2, <2>1 DEF MarksLeft
    <2> QED BY <2>1, <2>2
  <1> QED BY <1>1, <1>2

\* The cursor in h is that of c, but does not blink.
Hidden(c, h, v, k) == h = [c EXCEPT !.visible = v, !.caret = k] /\ ~v /\ (k => c.caret /\ ~c.visible)

LEMMA HidingDraws ==
    ASSUME NEW c \in Cursors, NEW h, h = HideCursorIfVisible(c)
    PROVE  \E v, k \in BOOLEAN : Hidden(c, h, v, k)
  <1>1. CASE c.visible
    <2>1. h = Caret([c EXCEPT !.visible = FALSE])
      BY <1>1 DEF HideCursorIfVisible
    <2>2. Blinks([c EXCEPT !.visible = FALSE]) = FALSE
      BY DEF Blinks, Cursors
    <2>3. h = [[c EXCEPT !.visible = FALSE] EXCEPT !.caret = FALSE]
      BY <2>1, <2>2 DEF Caret
    <2>4. h = [c EXCEPT !.visible = FALSE, !.caret = FALSE]
      BY <2>3 DEF Cursors
    <2> QED BY <2>4, Zenon DEF Hidden
  <1>2. CASE ~c.visible
    <2>1. h = c
      BY <1>2 DEF HideCursorIfVisible
    <2>2. c = [c EXCEPT !.visible = FALSE, !.caret = c.caret] /\ c.caret \in BOOLEAN
      BY <1>2 DEF Cursors
    <2> QED BY <1>2, <2>1, <2>2, Zenon DEF Hidden
  <1> QED BY <1>1, <1>2

\* _onCellCursorMsg: where the cursor is, and what is kept.
LEMMA CursorMsgMoves ==
    ASSUME cur \in Cursors, looking \in BOOLEAN, NEW row \in AnyRow, CellCursorMsg(row),
           PageKeyIsFreed, CursorIsInWindow, CaretIsRight,
           NEW at, at = IF cur.edit THEN row ELSE NoRow
    PROVE  /\ cur' \in Cursors /\ looking' \in BOOLEAN
           /\ cur'.at = at /\ cur'.xy = at /\ cur'.valid = cur.valid /\ cur'.area = cur.area
           /\ cur'.marks => cur.marks /\ cur.area
           /\ at # NoRow => cur'.button = IF cur.valid # NoRow /\ cur.valid = at THEN at ELSE NoRow
           /\ PageKeyIsFreed' /\ CursorIsInWindow' /\ CaretIsRight'
  <1>1. at \in AnyRow /\ NoRow \in AnyRow
    BY NoRowIsNoRow
  <1>2. PICK f \in BOOLEAN : f = (cur.filled \/ at # NoRow)
    BY DEF Cursors
  <1>3. PICK c : c = [cur EXCEPT !.at = at, !.xy = at, !.filled = f]
    OBVIOUS
  <1>4. PICK h : h = IF at # NoRow THEN HideCursorIfVisible(c) ELSE c
    OBVIOUS
  <1>5. /\ c \in Cursors /\ c.at = at /\ c.xy = at /\ c.prev = cur.prev /\ c.prevXY = cur.prevXY
        /\ c.valid = cur.valid /\ c.area = cur.area /\ c.marks = cur.marks /\ c.top = cur.top
        /\ c.pgUp = cur.pgUp /\ c.pgDn = cur.pgDn /\ c.edit = cur.edit /\ c.visible = cur.visible
        /\ c.focused = cur.focused /\ c.zooming = cur.zooming /\ c.filled = f /\ c.caret = cur.caret
        /\ c.timer = cur.timer
    BY <1>1, <1>3, ZenonT(30) DEF Cursors
  <1>6. PICK v \in BOOLEAN, k \in BOOLEAN :
             /\ h = [c EXCEPT !.visible = v, !.caret = k]
             /\ at # NoRow => ~v /\ (k => cur.caret /\ ~cur.visible)
             /\ at = NoRow => v = cur.visible /\ k = cur.caret
    <2>1. CASE at # NoRow
      <3>1. h = HideCursorIfVisible(c)
        BY <1>4, <2>1
      <3>2. PICK v \in BOOLEAN, k \in BOOLEAN : Hidden(c, h, v, k)
        BY <1>5, <3>1, HidingDraws
      <3> QED BY <1>5, <2>1, <3>2, Zenon DEF Hidden
    <2>2. CASE at = NoRow
      <3>1. h = c /\ c = [c EXCEPT !.visible = cur.visible, !.caret = cur.caret]
        BY <1>4, <1>5, <2>2 DEF Cursors
      <3>2. cur.visible \in BOOLEAN /\ cur.caret \in BOOLEAN
        BY DEF Cursors
      <3> QED BY <2>2, <3>1, <3>2, Zenon
    <2> QED BY <2>1, <2>2, Zenon
  <1>7. h = [c EXCEPT !.visible = v, !.caret = k] /\ c \in Cursors
    BY <1>5, <1>6
  <1>8. /\ h \in Cursors /\ h.at = c.at /\ h.xy = c.xy /\ h.prev = c.prev /\ h.prevXY = c.prevXY
        /\ h.valid = c.valid /\ h.area = c.area /\ h.marks = c.marks /\ h.top = c.top
        /\ h.pgUp = c.pgUp /\ h.pgDn = c.pgDn /\ h.edit = c.edit /\ h.visible = v
        /\ h.focused = c.focused /\ h.zooming = c.zooming /\ h.filled = c.filled /\ h.caret = k
        /\ h.timer = c.timer
    BY <1>7 DEF Cursors
  <1>9. PICK moved \in BOOLEAN : moved = (at # NoRow /\ (IF h.prev # NoRow THEN h.prev # at ELSE at # 0))
    OBVIOUS
  <1>10. PICK page \in BOOLEAN : page = OnPageKey(h)
    BY DEF OnPageKey
  <1>11. page <=> /\ at # NoRow /\ cur.prev # at
                 /\ cur.prev # NoRow /\ (cur.pgUp = cur.prev \/ cur.pgDn = cur.prev)
    BY <1>5, <1>8, <1>10 DEF OnPageKey
  <1>12. PICK p : p = IF at # NoRow /\ h.prev # at THEN [h EXCEPT !.prev = at] ELSE h
    OBVIOUS
  <1>13. PICK u : u = UpdateCellCursor(p, moved, page)
    OBVIOUS
  <1>14. /\ cur' = Unmarked(u)
         /\ looking' = (at # NoRow /\ (looking \/ cur.drawn # at))
         /\ lapses \subseteq lapses'
         /\ at # NoRow /\ ~InWindow(at, cur.top) /\ cur.prevXY = at => "again" \in lapses'
         /\ at # NoRow /\ ~InWindow(at, cur.top) /\ ~moved => "still" \in lapses'
    BY <1>2, <1>3, <1>4, <1>9, <1>10, <1>12, <1>13, Zenon DEF CellCursorMsg
  <1>15. PICK new \in AnyRow :
             /\ p = [h EXCEPT !.prev = new] /\ (at # NoRow => new = at)
             /\ at = NoRow => new = cur.prev
    <2>1. CASE at # NoRow /\ h.prev # at
      BY <1>1, <1>12, <2>1
    <2>2. CASE ~(at # NoRow /\ h.prev # at)
      <3>1. p = h /\ h = [h EXCEPT !.prev = h.prev] /\ h.prev \in AnyRow
        BY <1>8, <1>12, <2>2 DEF Cursors
      <3> QED BY <1>5, <1>8, <2>2, <3>1
    <2> QED BY <2>1, <2>2
  <1>16. p = [h EXCEPT !.prev = new] /\ h \in Cursors
    BY <1>8, <1>15
  <1>17. /\ p \in Cursors /\ p.at = h.at /\ p.xy = h.xy /\ p.prev = new /\ p.prevXY = h.prevXY
         /\ p.valid = h.valid /\ p.area = h.area /\ p.marks = h.marks /\ p.top = h.top
         /\ p.pgUp = h.pgUp /\ p.pgDn = h.pgDn /\ p.edit = h.edit /\ p.visible = h.visible
         /\ p.focused = h.focused /\ p.zooming = h.zooming /\ p.filled = h.filled
         /\ p.caret = h.caret /\ p.timer = h.timer
    BY <1>16 DEF Cursors
  <1>18. /\ u \in Cursors /\ u.edit = p.edit /\ u.at = p.at /\ u.prev = p.prev /\ u.xy = p.xy
         /\ u.valid = p.valid /\ u.area = p.area /\ u.marks = p.marks /\ u.visible = p.visible
         /\ u.focused = p.focused /\ u.zooming = p.zooming /\ u.filled = p.filled
         /\ u.caret = p.caret /\ u.timer = p.timer
         /\ p.at = NoRow => u.pgUp = p.pgUp /\ u.pgDn = p.pgDn
         /\ p.at # NoRow =>
              /\ u.pgUp = IF page THEN NoRow ELSE p.pgUp
              /\ u.pgDn = IF page THEN NoRow ELSE p.pgDn
              /\ u.button = IF p.valid # NoRow /\ p.valid = p.xy THEN p.at ELSE NoRow
              /\ InWindow(p.at, p.top) => u.top = p.top
              /\ ~InWindow(p.at, p.top) /\ p.xy # p.prevXY /\ (moved \/ page) => InWindow(p.at, u.top)
    <2>1. u \in Cursors /\ Updated(p, moved, page, u)
      BY <1>13, <1>17, UpdateKeeps
    <2> QED BY <2>1 DEF Updated
  <1>19. PICK marked \in BOOLEAN : Unmarked(u) = [u EXCEPT !.marks = marked] /\ (marked => u.marks /\ u.area)
    <2>1. \E marked \in BOOLEAN : MarksLeft(u, Unmarked(u), marked)
      BY <1>18, UnmarkedIs
    <2> QED BY <2>1 DEF MarksLeft
  <1>20. cur' = [u EXCEPT !.marks = marked]
    BY <1>19, <1>14
  <1>21. /\ cur' \in Cursors /\ cur'.marks = marked /\ cur'.edit = u.edit /\ cur'.at = u.at
         /\ cur'.prev = u.prev /\ cur'.xy = u.xy /\ cur'.valid = u.valid /\ cur'.area = u.area
         /\ cur'.visible = u.visible /\ cur'.focused = u.focused /\ cur'.zooming = u.zooming
         /\ cur'.filled = u.filled /\ cur'.caret = u.caret /\ cur'.timer = u.timer
         /\ cur'.pgUp = u.pgUp /\ cur'.pgDn = u.pgDn /\ cur'.button = u.button /\ cur'.top = u.top
    BY <1>18, <1>20 DEF Cursors
  <1>22. PageKeyIsFreed'
    <2>1. cur'.pgUp \in {NoRow, cur'.prev} /\ cur'.pgDn \in {NoRow, cur'.prev}
      <3>1. CASE at = NoRow
        BY <1>5, <1>8, <1>18, <1>21, <1>15, <1>17, <3>1 DEF PageKeyIsFreed
      <3>2. CASE at # NoRow
        BY <1>5, <1>8, <1>18, <1>21, <1>11, <1>15, <1>17, <3>2 DEF PageKeyIsFreed
      <3> QED BY <3>1, <3>2
    <2> QED BY <2>1 DEF PageKeyIsFreed
  <1>23. CursorIsInWindow'
    <2> SUFFICES ASSUME at # NoRow PROVE InWindow(at, cur'.top) \/ lapses' \cap {"again", "still"} # {}
      BY <1>5, <1>8, <1>17, <1>18, <1>21 DEF CursorIsInWindow
    <2>1. CASE InWindow(at, cur.top)
      BY <1>5, <1>8, <1>17, <1>18, <1>21, <2>1
    <2>2. CASE ~InWindow(at, cur.top)
      <3>1. cur.prevXY = at \/ ~moved => lapses' \cap {"again", "still"} # {}
        BY <1>14, <2>2
      <3>2. cur.prevXY # at /\ moved => InWindow(at, cur'.top)
        BY <1>5, <1>8, <1>17, <1>18, <1>21, <2>2
      <3> QED BY <3>1, <3>2
    <2> QED BY <2>1, <2>2
  <1>24. CaretIsRight'
    <2>1. CASE at = NoRow
      BY <1>2, <1>5, <1>6, <1>14, <1>8, <1>17, <1>18, <1>21, <2>1 DEF CaretIsRight, Blinks, Cursors
    <2>2. CASE at # NoRow
      BY <1>5, <1>6, <1>14, <1>8, <1>17, <1>18, <1>21, <2>2 DEF CaretIsRight, Blinks
    <2> QED BY <2>1, <2>2
  <1>25. looking' \in BOOLEAN
    BY <1>14
  <1> QED BY <1>5, <1>8, <1>17, <1>18, <1>19, <1>21, <1>22, <1>23, <1>24, <1>25

\* Whatever the area is, marks are taken away that are taken away if it is there.
LEMMA MarksGoAnyway ==
    ASSUME NEW q, NEW i, MarksWillGo(q, i, TRUE), NEW area
    PROVE  MarksWillGo(q, i, area)
  <1>1. \A j : AreaIsGone(q, i, j, TRUE) => AreaIsGone(q, i, j, area)
    BY DEF AreaIsGone
  <1> QED BY <1>1 DEF MarksWillGo

LEMMA MarksBehead ==
    ASSUME NEW q \in Seq(FromCalc), q # <<>>,
           \A i \in 1..Len(q) : q[i] = <<"marks", TRUE>> => MarksWillGo(q, i, TRUE)
    PROVE  /\ \A i \in 1..Len(Tail(q)) : Tail(q)[i] = <<"marks", TRUE>> => MarksWillGo(Tail(q), i, TRUE)
           /\ Head(q) = <<"marks", TRUE>> => MarksWillGo(Tail(q), 0, TRUE)
  <1>1. PICK r : r = Tail(q)
    OBVIOUS
  <1>2. /\ r \in Seq(FromCalc) /\ Len(q) \in Nat /\ Len(r) = Len(q) - 1 /\ Head(q) = q[1] /\ 1 \in 1..Len(q)
        /\ \A i \in 1..Len(r) : r[i] = q[i + 1] /\ i + 1 \in 1..Len(q)
    BY <1>1, Behead
  <1>3. \A i \in 1..Len(q) : MarksWillGo(q, i, TRUE) => MarksWillGo(r, i - 1, TRUE)
    BY <1>1, MarksGoBehind
  <1>4. ASSUME NEW i \in 1..Len(r), r[i] = <<"marks", TRUE>> PROVE MarksWillGo(r, i, TRUE)
    <2>1. i + 1 \in 1..Len(q) /\ (i + 1) - 1 = i
      BY <1>2
    <2>2. q[i + 1] = r[i]
      BY <1>2
    <2>3. MarksWillGo(q, i + 1, TRUE)
      BY <1>4, <2>1, <2>2, Zenon
    <2>4. MarksWillGo(r, (i + 1) - 1, TRUE)
      BY <1>3, <2>1, <2>3, Zenon
    <2> QED BY <2>1, <2>4
  <1>5. ASSUME Head(q) = <<"marks", TRUE>> PROVE MarksWillGo(r, 0, TRUE)
    <2>1. MarksWillGo(q, 1, TRUE)
      BY <1>2, <1>5, Zenon
    <2>2. MarksWillGo(r, 1 - 1, TRUE)
      BY <1>2, <1>3, <2>1, Zenon
    <2>3. 1 - 1 = 0
      OBVIOUS
    <2> QED BY <2>2, <2>3
  <1> QED BY <1>1, <1>4, <1>5, Zenon

\* What is still told when a message has been read.
LEMMA ReadTold ==
    ASSUME CellsInv, calcOut # <<>>, calcOut' = Tail(calcOut), UNCHANGED calc,
           NEW m, m = Head(calcOut),
           cur'.at \in {IF m[1] = "cell" THEN m[2] ELSE cur.at, NoRow},
           cur'.valid = ButtonAfter(cur.valid, m),
           cur'.area \in AreaAfter(cur.area, m),
           cur'.marks => \/ m[1] = "marks" /\ m[2] = TRUE
                         \/ cur.marks /\ m[1] # "marks" /\ (m[1] \in {"cell", "empty"} => cur.area)
    PROVE  calcOut' \in Seq(FromCalc) /\ CellIsTold' /\ ListIsTold' /\ MarksAreTakenAway'
  <1>1. calcOut \in Seq(FromCalc) /\ cur.area \in BOOLEAN
    BY DEF CellsInv, CellsTyped, Cursors
  <1>2. calcOut' \in Seq(FromCalc) /\ m \in FromCalc
    BY <1>1, Behead
  <1>3. CellIsTold'
    <2>1. PICK row \in {NoRow, calc.row[calc.tab]} : Final(calcOut, {"cell"}, cur.at, row)
      BY DEF CellsInv, CellIsTold
    <2>2. Final(Tail(calcOut), {"cell"}, IF m[1] = "cell" THEN m[2] ELSE cur.at, row)
      <3>1. Final(Tail(calcOut), {"cell"}, IF Head(calcOut)[1] \in {"cell"} THEN Head(calcOut)[2] ELSE cur.at, row)
        BY <1>1, <2>1, FinalTail
      <3> QED BY <3>1
    <2>3. Final(Tail(calcOut), {"cell"}, NoRow, row) \/ Final(Tail(calcOut), {"cell"}, NoRow, NoRow)
      BY <2>2, FinalLost
    <2> QED BY <2>1, <2>2, <2>3 DEF CellIsTold
  <1>4. ListIsTold'
    <2>1. ButtonSettles(Tail(calcOut), ButtonAfter(cur.valid, Head(calcOut)), ListAt(calc.tab, calc.row[calc.tab]))
      BY <1>1, ButtonHandled DEF CellsInv, ListIsTold
    <2> QED BY <2>1 DEF ListIsTold
  <1>5. MarksAreTakenAway'
    <2> SUFFICES ASSUME ~calc.range PROVE MarksTold(Tail(calcOut), cur'.area, cur'.marks)
      BY DEF MarksAreTakenAway
    <2>1. /\ cur.marks => MarksWillGo(calcOut, 0, cur.area)
          /\ \A i \in 1..Len(calcOut) : calcOut[i] = <<"marks", TRUE>> => MarksWillGo(calcOut, i, TRUE)
      BY DEF CellsInv, MarksAreTakenAway, MarksTold
    <2>2. /\ \A i \in 1..Len(Tail(calcOut)) : Tail(calcOut)[i] = <<"marks", TRUE>> => MarksWillGo(Tail(calcOut), i, TRUE)
          /\ Head(calcOut) = <<"marks", TRUE>> => MarksWillGo(Tail(calcOut), 0, TRUE)
      BY <1>1, <2>1, MarksBehead, Zenon
    <2>3. ASSUME cur'.marks PROVE MarksWillGo(Tail(calcOut), 0, cur'.area)
      <3>1. CASE m[1] = "marks" /\ m[2] = TRUE
        <4>1. m = <<m[1], m[2]>>
          BY <1>2, <3>1, FromCalcIs
        <4>2. Head(calcOut) = <<"marks", TRUE>>
          BY <3>1, <4>1, Zenon
        <4>3. MarksWillGo(Tail(calcOut), 0, TRUE)
          BY <2>2, <4>2, Zenon
        <4> QED BY <4>3, MarksGoAnyway
      <3>2. CASE cur.marks /\ m[1] # "marks" /\ (m[1] \in {"cell", "empty"} => cur.area)
        <4>1. MarksWillGo(calcOut, 0, cur.area)
          BY <2>1, <3>2
        <4>2. PICK after : after = cur'.area /\ after \in AreaAfter(cur.area, Head(calcOut))
          OBVIOUS
        <4>3. \/ Head(calcOut) = <<"marks", FALSE>>
              \/ Head(calcOut)[1] \in {"cell", "empty"} /\ ~cur.area
              \/ MarksWillGo(Tail(calcOut), 0, after)
          BY <1>1, <4>1, <4>2, MarksGoFirst, Zenon
        <4>4. Head(calcOut) # <<"marks", FALSE>>
          <5>1. <<"marks", FALSE>>[1] = "marks"
            OBVIOUS
          <5>2. m # <<"marks", FALSE>>
            BY <3>2, <5>1, Zenon
          <5> QED BY <5>2
        <4> QED BY <3>2, <4>2, <4>3, <4>4
      <3> QED BY <2>3, <3>1, <3>2
    <2> QED BY <2>2, <2>3, Zenon DEF MarksTold
  <1> QED BY <1>2, <1>3, <1>4, <1>5

\* _updateCursorAndOverlay makes u of c.
CaretKept(c, u) ==
    /\ u.edit = c.edit /\ u.at = c.at /\ u.prev = c.prev /\ u.xy = c.xy /\ u.valid = c.valid
    /\ u.area = c.area /\ u.marks = c.marks /\ u.visible = c.visible /\ u.button = c.button
    /\ u.focused = c.focused /\ u.zooming = c.zooming /\ u.filled = c.filled
    /\ u.timer = c.timer /\ u.pgUp = c.pgUp /\ u.pgDn = c.pgDn /\ u.top = c.top
    /\ u.prevXY = c.prevXY /\ u.drawn = c.drawn
    /\ u.caret = Blinks(u)

LEMMA CaretKeeps ==
    ASSUME NEW c \in Cursors, NEW u, u = Caret(c)
    PROVE  u \in Cursors /\ CaretKept(c, u)
  <1>1. PICK b \in BOOLEAN : b = Blinks(c)
    BY DEF Blinks, Cursors
  <1>2. u = [c EXCEPT !.caret = b]
    BY <1>1 DEF Caret
  <1>3. /\ u \in Cursors /\ u.edit = c.edit /\ u.at = c.at /\ u.prev = c.prev /\ u.xy = c.xy
        /\ u.valid = c.valid /\ u.area = c.area /\ u.marks = c.marks /\ u.visible = c.visible
        /\ u.button = c.button /\ u.focused = c.focused /\ u.zooming = c.zooming
        /\ u.filled = c.filled /\ u.timer = c.timer /\ u.pgUp = c.pgUp /\ u.pgDn = c.pgDn
        /\ u.top = c.top /\ u.prevXY = c.prevXY /\ u.drawn = c.drawn /\ u.caret = b
    BY <1>2 DEF Cursors
  <1>4. Blinks(u) = Blinks(c)
    BY <1>3, SMTT(30) DEF Blinks
  <1> QED BY <1>1, <1>3, <1>4 DEF CaretKept

\* A button appears, or goes.
LEMMA ListButtonKeeps ==
    ASSUME cur \in Cursors, ButtonAtCursor, NEW m \in FromCalc, m[1] = "list",
           NEW c, c = ValidityListButton(m[2], m[3])
    PROVE  \E valid, button \in AnyRow :
             /\ c = [cur EXCEPT !.valid = valid, !.button = button]
             /\ valid = ButtonAfter(cur.valid, m)
             /\ cur.at # NoRow => button = IF valid = cur.at THEN cur.at ELSE NoRow
  <1>1. /\ m[2] \in Rows /\ m[3] \in BOOLEAN /\ NoRow \in AnyRow /\ m[2] \in AnyRow /\ m[2] # NoRow
        /\ cur.at \in AnyRow /\ cur.xy \in AnyRow /\ cur.valid \in AnyRow /\ cur.button \in AnyRow
    BY FromCalcIs, NoRowIsNoRow DEF Cursors
  <1>2. cur.at # NoRow => cur.xy = cur.at /\ cur.button = IF cur.valid = cur.at THEN cur.at ELSE NoRow
    BY DEF ButtonAtCursor
  <1>3. CASE m[3] = TRUE
    <2> DEFINE b == IF cur.valid \notin {NoRow, m[2]} THEN NoRow ELSE cur.button
    <2>1. b \in AnyRow /\ c = AddDropDown([cur EXCEPT !.valid = m[2], !.button = b])
      BY <1>1, <1>3 DEF ValidityListButton
    <2>2. cur.at # NoRow /\ cur.valid # m[2] => b = NoRow \/ cur.valid = cur.at
      BY <1>2
    <2>3. cur.at # NoRow /\ cur.at # m[2] => b = NoRow
      BY <1>1, <1>2
    <2> HIDE DEF b
    <2>4. ButtonAfter(cur.valid, m) = m[2]
      BY <1>3 DEF ButtonAfter, Appears
    <2>5. PICK d \in Cursors : d = [cur EXCEPT !.valid = m[2], !.button = b]
      BY <1>1, <2>1 DEF Cursors
    <2>6. d.valid = m[2] /\ d.xy = cur.xy /\ d.at = cur.at
      BY <2>5 DEF Cursors
    <2>7. CASE m[2] = cur.xy
      <3>1. c = [d EXCEPT !.button = cur.at]
        BY <1>1, <2>1, <2>5, <2>6, <2>7 DEF AddDropDown
      <3>2. c = [cur EXCEPT !.valid = m[2], !.button = cur.at]
        BY <2>5, <3>1 DEF Cursors
      <3>3. cur.at # NoRow => cur.at = IF m[2] = cur.at THEN cur.at ELSE NoRow
        BY <1>2, <2>7
      <3> QED BY <1>1, <2>4, <3>2, <3>3, Zenon
    <2>8. CASE m[2] # cur.xy
      <3>1. c = [cur EXCEPT !.valid = m[2], !.button = b]
        BY <2>1, <2>5, <2>6, <2>8 DEF AddDropDown
      <3>2. cur.at # NoRow => b = IF m[2] = cur.at THEN cur.at ELSE NoRow
        BY <1>2, <2>3, <2>8
      <3> QED BY <1>1, <2>1, <2>4, <3>1, <3>2, Zenon
    <2> QED BY <2>7, <2>8, Zenon
  <1>4. CASE m[3] = FALSE /\ cur.valid = m[2]
    <2>1. c = RemoveDropDown([cur EXCEPT !.valid = NoRow])
      BY <1>4 DEF ValidityListButton
    <2>2. c = [cur EXCEPT !.valid = NoRow, !.button = NoRow]
      BY <1>1, <2>1 DEF RemoveDropDown, Cursors
    <2>3. ButtonAfter(cur.valid, m) = NoRow
      BY <1>4 DEF ButtonAfter, Appears, Disappears
    <2> QED BY <1>1, <2>2, <2>3, Zenon
  <1>5. CASE m[3] = FALSE /\ cur.valid # m[2]
    <2>1. c = cur /\ cur = [cur EXCEPT !.valid = cur.valid, !.button = cur.button]
      BY <1>5 DEF ValidityListButton, Cursors
    <2>2. ButtonAfter(cur.valid, m) = cur.valid
      BY <1>5 DEF ButtonAfter, Appears, Disappears
    <2> QED BY <1>1, <1>2, <2>1, <2>2, Zenon
  <1> QED BY <1>1, <1>3, <1>4, <1>5, Zenon

\* The browser has read a message that is not about the cursor.
LEMMA OtherReadKeeps ==
    ASSUME CellsInv, calcOut # <<>>, calcOut' = Tail(calcOut), UNCHANGED <<calc, calcIn, looking, lapses>>,
           NEW m, m = Head(calcOut), m[1] \notin {"cell", "empty"},
           cur' = CASE m[1] = "list" -> ValidityListButton(m[2], m[3])
                    [] m[1] = "area" -> SelectionArea(m[2])
                    [] m[1] = "marks" -> SelectionMarks(m[2])
                    [] m[1] = "cursorvisible" -> CursorVisible
    PROVE  CellsInv'
  <1>1. calcOut \in Seq(FromCalc) /\ cur \in Cursors /\ cur.edit \in BOOLEAN /\ cur.at \in AnyRow
    BY DEF CellsInv, CellsTyped, Cursors
  <1>2. m \in FromCalc /\ m[1] \in {"list", "area", "marks", "cursorvisible"}
    BY <1>1, Behead, FromCalcIs
  <1>3. ButtonAtCursor
    BY DEF CellsInv
  <1>4. m[1] # "list" => ButtonAfter(cur.valid, m) = cur.valid
    BY DEF ButtonAfter, Appears, Disappears
  <1>5. ASSUME NEW c \in Cursors, cur' = c,
               c.at = cur.at, c.prev = cur.prev, c.pgUp = cur.pgUp, c.pgDn = cur.pgDn, c.top = cur.top,
               c.valid = ButtonAfter(cur.valid, m), c.area \in AreaAfter(cur.area, m),
               c.marks => \/ m[1] = "marks" /\ m[2] = TRUE
                          \/ cur.marks /\ m[1] # "marks",
               c.at # NoRow => c.xy = c.at /\ c.button = IF c.valid = c.at THEN c.at ELSE NoRow,
               ~c.zooming /\ ~c.timer => /\ c.caret => Blinks(c)
                                         /\ Blinks(c) => c.caret \/ "edit" \in lapses
        PROVE  CellsInv'
    <2>1. calcOut' \in Seq(FromCalc) /\ CellIsTold' /\ ListIsTold' /\ MarksAreTakenAway'
      <3>1. /\ cur'.at \in {IF m[1] = "cell" THEN m[2] ELSE cur.at, NoRow}
            /\ cur'.valid = ButtonAfter(cur.valid, m) /\ cur'.area \in AreaAfter(cur.area, m)
            /\ cur'.marks => \/ m[1] = "marks" /\ m[2] = TRUE
                             \/ cur.marks /\ m[1] # "marks" /\ (m[1] \in {"cell", "empty"} => cur.area)
        BY <1>2, <1>5
      <3> QED BY <3>1, ReadTold
    <2>2. PageKeyIsFreed' /\ CursorIsInWindow' /\ ButtonAtCursor' /\ CaretIsRight'
      BY <1>5 DEF CellsInv, PageKeyIsFreed, CursorIsInWindow, ButtonAtCursor, CaretIsRight
    <2> QED BY <1>5, <2>1, <2>2 DEF CellsInv, CellsTyped
  <1>6. ~cur.zooming /\ ~cur.timer => /\ cur.caret => Blinks(cur)
                                      /\ Blinks(cur) => cur.caret \/ "edit" \in lapses
    BY DEF CellsInv, CaretIsRight
  <1>7. CASE m[1] = "list"
    <2>1. cur' = ValidityListButton(m[2], m[3])
      BY <1>7, SMTT(30)
    <2>2. PICK valid \in AnyRow, button \in AnyRow :
             /\ cur' = [cur EXCEPT !.valid = valid, !.button = button]
             /\ valid = ButtonAfter(cur.valid, m)
             /\ cur.at # NoRow => button = IF valid = cur.at THEN cur.at ELSE NoRow
      BY <1>1, <1>2, <1>3, <1>7, <2>1, ListButtonKeeps, Zenon
    <2>3. PICK c : c = [cur EXCEPT !.valid = valid, !.button = button]
      OBVIOUS
    <2>4. /\ c \in Cursors /\ c.at = cur.at /\ c.prev = cur.prev /\ c.pgUp = cur.pgUp /\ c.pgDn = cur.pgDn
          /\ c.top = cur.top /\ c.valid = valid /\ c.area = cur.area /\ c.marks = cur.marks
          /\ c.xy = cur.xy /\ c.button = button /\ c.zooming = cur.zooming /\ c.timer = cur.timer
          /\ c.caret = cur.caret /\ c.edit = cur.edit /\ c.visible = cur.visible
          /\ c.focused = cur.focused /\ c.filled = cur.filled
      BY <1>1, <2>3 DEF Cursors
    <2>5. Blinks(c) = Blinks(cur)
      BY <2>4 DEF Blinks
    <2>6. cur.area \in AreaAfter(cur.area, m)
      BY <1>7 DEF AreaAfter
    <2>7. /\ cur' = c /\ valid = ButtonAfter(cur.valid, m)
          /\ c.at # NoRow => c.xy = c.at /\ c.button = IF c.valid = c.at THEN c.at ELSE NoRow
      <3>1. cur' = c
        BY <2>2, <2>3, Zenon
      <3>2. valid = ButtonAfter(cur.valid, m) /\ (cur.at # NoRow => button = IF valid = cur.at THEN cur.at ELSE NoRow)
        BY <2>2
      <3> QED BY <1>3, <2>4, <3>1, <3>2 DEF ButtonAtCursor
    <2>8. ~c.zooming /\ ~c.timer => /\ c.caret => Blinks(c)
                                    /\ Blinks(c) => c.caret \/ "edit" \in lapses
      BY <1>6, <2>4, <2>5
    <2> QED BY <1>5, <1>7, <2>4, <2>6, <2>7, <2>8
  <1>8. CASE m[1] = "area"
    <2>1. PICK area \in BOOLEAN : area = (m[2] /\ cur.edit)
      OBVIOUS
    <2>2. PICK c : c = [cur EXCEPT !.area = area] /\ cur' = c
      BY <1>8, <2>1 DEF SelectionArea
    <2>3. /\ c \in Cursors /\ c.at = cur.at /\ c.prev = cur.prev /\ c.pgUp = cur.pgUp /\ c.pgDn = cur.pgDn
          /\ c.top = cur.top /\ c.valid = cur.valid /\ c.area = area /\ c.marks = cur.marks
          /\ c.xy = cur.xy /\ c.button = cur.button /\ c.zooming = cur.zooming /\ c.timer = cur.timer
          /\ c.caret = cur.caret /\ c.edit = cur.edit /\ c.visible = cur.visible
          /\ c.focused = cur.focused /\ c.filled = cur.filled
      BY <1>1, <2>2 DEF Cursors
    <2>4. Blinks(c) = Blinks(cur)
      BY <2>3 DEF Blinks
    <2>5. area \in AreaAfter(cur.area, m)
      BY <1>2, <1>8, <2>1, FromCalcIs DEF AreaAfter
    <2>6. /\ cur' = c
          /\ c.at # NoRow => c.xy = c.at /\ c.button = IF c.valid = c.at THEN c.at ELSE NoRow
      <3>1. cur' = c
        BY <2>2
      <3> QED BY <1>3, <2>3, <3>1 DEF ButtonAtCursor
    <2>7. ~c.zooming /\ ~c.timer => /\ c.caret => Blinks(c)
                                    /\ Blinks(c) => c.caret \/ "edit" \in lapses
      BY <1>6, <2>3, <2>4
    <2>8. c.marks => \/ m[1] = "marks" /\ m[2] = TRUE
                     \/ cur.marks /\ m[1] # "marks"
      BY <1>8, <2>3
    <2> QED BY <1>4, <1>5, <1>8, <2>3, <2>5, <2>6, <2>7, <2>8
  <1>9. CASE m[1] = "marks"
    <2>1. m[2] \in BOOLEAN
      BY <1>2, <1>9, FromCalcIs
    <2>2. PICK c : c = [cur EXCEPT !.marks = m[2]] /\ cur' = c
      BY <1>9 DEF SelectionMarks
    <2>3. /\ c \in Cursors /\ c.at = cur.at /\ c.prev = cur.prev /\ c.pgUp = cur.pgUp /\ c.pgDn = cur.pgDn
          /\ c.top = cur.top /\ c.valid = cur.valid /\ c.area = cur.area /\ c.marks = m[2]
          /\ c.xy = cur.xy /\ c.button = cur.button /\ c.zooming = cur.zooming /\ c.timer = cur.timer
          /\ c.caret = cur.caret /\ c.edit = cur.edit /\ c.visible = cur.visible
          /\ c.focused = cur.focused /\ c.filled = cur.filled
      BY <1>1, <2>1, <2>2 DEF Cursors
    <2>4. Blinks(c) = Blinks(cur)
      BY <2>3 DEF Blinks
    <2>5. cur.area \in AreaAfter(cur.area, m)
      BY <1>9 DEF AreaAfter
    <2>6. /\ cur' = c
          /\ c.at # NoRow => c.xy = c.at /\ c.button = IF c.valid = c.at THEN c.at ELSE NoRow
      <3>1. cur' = c
        BY <2>2
      <3> QED BY <1>3, <2>3, <3>1 DEF ButtonAtCursor
    <2>7. ~c.zooming /\ ~c.timer => /\ c.caret => Blinks(c)
                                    /\ Blinks(c) => c.caret \/ "edit" \in lapses
      BY <1>6, <2>3, <2>4
    <2>8. c.marks => \/ m[1] = "marks" /\ m[2] = TRUE
                     \/ cur.marks /\ m[1] # "marks"
      BY <1>9, <2>1, <2>3
    <2> QED BY <1>4, <1>5, <1>9, <2>3, <2>5, <2>6, <2>7, <2>8
  <1>10. CASE m[1] = "cursorvisible"
    <2>1. PICK d : d = [cur EXCEPT !.visible = TRUE]
      OBVIOUS
    <2>2. /\ d \in Cursors /\ d.at = cur.at /\ d.prev = cur.prev /\ d.pgUp = cur.pgUp /\ d.pgDn = cur.pgDn
          /\ d.top = cur.top /\ d.valid = cur.valid /\ d.area = cur.area /\ d.marks = cur.marks
          /\ d.xy = cur.xy /\ d.button = cur.button
      BY <1>1, <2>1 DEF Cursors
    <2>3. PICK c : c = Caret(d) /\ cur' = c
      BY <1>10, <2>1 DEF CursorVisible
    <2>4. /\ c \in Cursors /\ c.at = d.at /\ c.prev = d.prev /\ c.pgUp = d.pgUp /\ c.pgDn = d.pgDn
          /\ c.top = d.top /\ c.valid = d.valid /\ c.area = d.area /\ c.marks = d.marks
          /\ c.xy = d.xy /\ c.button = d.button /\ c.caret = Blinks(c)
      BY <2>2, <2>3, CaretKeeps DEF CaretKept
    <2>5. cur.area \in AreaAfter(cur.area, m)
      BY <1>10 DEF AreaAfter
    <2>6. /\ c.at = cur.at /\ c.prev = cur.prev /\ c.pgUp = cur.pgUp /\ c.pgDn = cur.pgDn /\ c.top = cur.top
          /\ c.valid = cur.valid /\ c.area = cur.area /\ c.marks = cur.marks
      BY <2>2, <2>4
    <2>7. c.at # NoRow => c.xy = c.at /\ c.button = IF c.valid = c.at THEN c.at ELSE NoRow
      BY <1>3, <2>2, <2>4 DEF ButtonAtCursor
    <2> QED BY <1>4, <1>5, <1>10, <2>3, <2>4, <2>5, <2>6, <2>7
  <1> QED BY <1>2, <1>7, <1>8, <1>9, <1>10

LEMMA CellsReceiveKeeps == ASSUME CellsInv, CellsReceive PROVE CellsInv'
  <1>1. PICK m : m = Head(calcOut)
    OBVIOUS
  <1>2. calcOut # <<>> /\ calcOut' = Tail(calcOut) /\ UNCHANGED <<calc, calcIn>>
    BY DEF CellsReceive
  <1>3. /\ calcOut \in Seq(FromCalc) /\ cur \in Cursors /\ looking \in BOOLEAN /\ calcIn \in Seq(ToCalc)
        /\ calc \in Calcs
    BY DEF CellsInv, CellsTyped
  <1>4. m \in FromCalc
    BY <1>1, <1>2, <1>3, Behead
  <1>5. ASSUME m[1] \in {"cell", "empty"},
               NEW row \in AnyRow, row = IF m[1] = "cell" THEN m[2] ELSE NoRow, CellCursorMsg(row)
        PROVE  CellsInv'
    <2>1. PICK at \in AnyRow : at = IF cur.edit THEN row ELSE NoRow
      BY NoRowIsNoRow
    <2>2. PageKeyIsFreed /\ CursorIsInWindow /\ CaretIsRight
      BY DEF CellsInv
    <2>3. /\ cur' \in Cursors /\ looking' \in BOOLEAN
          /\ cur'.at = at /\ cur'.xy = at /\ cur'.valid = cur.valid /\ cur'.area = cur.area
          /\ cur'.marks => cur.marks /\ cur.area
          /\ at # NoRow => cur'.button = IF cur.valid # NoRow /\ cur.valid = at THEN at ELSE NoRow
          /\ PageKeyIsFreed' /\ CursorIsInWindow' /\ CaretIsRight'
      BY <1>3, <1>5, <2>1, <2>2, CursorMsgMoves
    <2>4. ButtonAtCursor'
      BY <2>3 DEF ButtonAtCursor
    <2>5. cur.valid = ButtonAfter(cur.valid, m) /\ cur.area \in AreaAfter(cur.area, m)
      BY <1>5 DEF ButtonAfter, Appears, Disappears, AreaAfter
    <2>6. cur'.at \in {IF m[1] = "cell" THEN m[2] ELSE cur.at, NoRow}
      BY <1>5, <2>1, <2>3
    <2>7. cur'.marks => \/ m[1] = "marks" /\ m[2] = TRUE
                        \/ cur.marks /\ m[1] # "marks" /\ (m[1] \in {"cell", "empty"} => cur.area)
      BY <1>5, <2>3
    <2>8. cur'.valid = ButtonAfter(cur.valid, m) /\ cur'.area \in AreaAfter(cur.area, m)
      BY <2>3, <2>5
    <2>9. calcOut' \in Seq(FromCalc) /\ CellIsTold' /\ ListIsTold' /\ MarksAreTakenAway'
      BY <1>1, <1>2, <2>6, <2>7, <2>8, ReadTold
    <2> QED BY <1>2, <1>3, <2>3, <2>4, <2>9 DEF CellsInv, CellsTyped
  <1>6. CASE m[1] = "cell" /\ CellCursorMsg(m[2])
    <2>1. m[2] \in AnyRow /\ m[2] = IF m[1] = "cell" THEN m[2] ELSE NoRow
      BY <1>4, <1>6, FromCalcIs, NoRowIsNoRow
    <2> QED BY <1>5, <1>6, <2>1
  <1>7. CASE m[1] = "empty" /\ CellCursorMsg(NoRow)
    BY <1>5, <1>7, NoRowIsNoRow
  <1>8. CASE /\ m[1] \notin {"cell", "empty"}
             /\ cur' = CASE m[1] = "list" -> ValidityListButton(m[2], m[3])
                         [] m[1] = "area" -> SelectionArea(m[2])
                         [] m[1] = "marks" -> SelectionMarks(m[2])
                         [] m[1] = "cursorvisible" -> CursorVisible
             /\ UNCHANGED <<looking, lapses>>
    BY <1>1, <1>2, <1>8, OtherReadKeeps
  <1> QED BY <1>1, <1>6, <1>7, <1>8 DEF CellsReceive

-----------------------------------------------------------------------------
(* The user.                                                               *)

\* The browser forgets or hides something, nothing is read.
LEMMA BrowserStepKeeps ==
    ASSUME CellsInv, UNCHANGED <<calc, calcOut>>, calcIn' \in Seq(ToCalc), looking' \in BOOLEAN,
           NEW c \in Cursors, cur' = c,
           c.at \in {cur.at, NoRow}, c.at # NoRow => c.xy = cur.xy /\ c.button = cur.button,
           c.prev = cur.prev, c.pgUp \in {NoRow, cur.pgUp, cur.prev}, c.pgDn \in {NoRow, cur.pgDn, cur.prev},
           c.valid = cur.valid, c.area = cur.area, c.marks => cur.marks,
           looking' /\ c.at # NoRow => looking /\ c.top = cur.top, lapses \subseteq lapses',
           ~c.zooming /\ ~c.timer => /\ c.caret => Blinks(c)
                                     /\ Blinks(c) => c.caret \/ "edit" \in lapses'
    PROVE  CellsInv'
  <1>1. CellIsTold'
    <2>1. PICK row \in {NoRow, calc.row[calc.tab]} : Final(calcOut, {"cell"}, cur.at, row)
      BY DEF CellsInv, CellIsTold
    <2>2. \/ Final(calcOut, {"cell"}, NoRow, row)
          \/ Final(calcOut, {"cell"}, NoRow, NoRow)
      BY <2>1, FinalLost
    <2> QED BY <2>1, <2>2 DEF CellIsTold
  <1>2. ListIsTold'
    BY DEF CellsInv, ListIsTold
  <1>3. MarksAreTakenAway'
    BY DEF CellsInv, MarksAreTakenAway, MarksTold
  <1>4. PageKeyIsFreed'
    BY DEF CellsInv, PageKeyIsFreed
  <1>5. CursorIsInWindow'
    BY DEF CellsInv, CursorIsInWindow
  <1>6. ButtonAtCursor'
    BY DEF CellsInv, ButtonAtCursor
  <1>7. CaretIsRight'
    BY DEF CaretIsRight
  <1>8. CellsTyped'
    BY DEF CellsInv, CellsTyped
  <1> QED BY <1>1, <1>2, <1>3, <1>4, <1>5, <1>6, <1>7, <1>8 DEF CellsInv

LEMMA ClearSelectionsKeeps ==
    ASSUME NEW c \in Cursors, NEW u, u = ClearSelections(c)
    PROVE  /\ u \in Cursors /\ u.at = NoRow /\ u.marks = FALSE
           /\ u.prev = c.prev /\ u.pgUp = c.pgUp /\ u.pgDn = c.pgDn /\ u.valid = c.valid
           /\ u.area = c.area /\ u.caret = Blinks(u)
  <1>1. PICK d : d = Caret(c)
    OBVIOUS
  <1>2. d \in Cursors /\ CaretKept(c, d)
    BY <1>1, CaretKeeps
  <1>3. PICK e : e = [d EXCEPT !.marks = FALSE, !.at = NoRow]
    OBVIOUS
  <1>4. /\ e \in Cursors /\ e.at = NoRow /\ e.marks = FALSE /\ e.prev = d.prev /\ e.pgUp = d.pgUp
        /\ e.pgDn = d.pgDn /\ e.valid = d.valid /\ e.area = d.area /\ e.caret = d.caret
        /\ e.edit = d.edit /\ e.visible = d.visible /\ e.focused = d.focused
        /\ e.zooming = d.zooming /\ e.filled = d.filled
    BY <1>2, <1>3, NoRowIsNoRow DEF Cursors
  <1>5. u = UpdateCellCursor(e, FALSE, FALSE)
    BY <1>1, <1>3 DEF ClearSelections
  <1>6. u \in Cursors /\ Updated(e, FALSE, FALSE, u)
    BY <1>4, <1>5, UpdateKeeps
  <1>7. Blinks(u) = Blinks(d)
    BY <1>4, <1>6 DEF Blinks, Updated
  <1> QED BY <1>2, <1>4, <1>6, <1>7 DEF Updated, CaretKept

LEMMA ToCalcIs ==
    /\ \A key \in {"up", "down", "pgup", "pgdn"} : <<"key", key>> \in ToCalc
    /\ \A tab \in Tabs : <<"tab", tab>> \in ToCalc
    /\ <<"range">> \in ToCalc /\ <<"type">> \in ToCalc
  BY DEF ToCalc

\* What is known before a step of the user.
LEMMA UserKnows ==
    ASSUME CellsInv
    PROVE  /\ calcIn \in Seq(ToCalc) /\ cur \in Cursors /\ looking \in BOOLEAN
           /\ ~cur.zooming /\ ~cur.timer => /\ cur.caret => Blinks(cur)
                                            /\ Blinks(cur) => cur.caret \/ "edit" \in lapses
  BY DEF CellsInv, CellsTyped, CaretIsRight

\* Nothing of what the invariant tells of is changed.
LEMMA CellsStay == ASSUME CellsInv, UNCHANGED <<calc, calcIn, calcOut, cur, looking, lapses>> PROVE CellsInv'
  <1>1. PageKeyIsFreed' /\ CursorIsInWindow' /\ ButtonAtCursor' /\ CaretIsRight'
    BY CursorStays
  <1>2. CellIsTold' /\ ListIsTold' /\ MarksAreTakenAway'
    BY DEF CellsInv, CellIsTold, ListIsTold, MarksAreTakenAway
  <1> QED BY <1>1, <1>2 DEF CellsInv, CellsTyped

LEMMA PressKeyKeeps ==
    ASSUME CellsInv, NEW key \in {"up", "down", "pgup", "pgdn"}, PressKey(key) PROVE CellsInv'
  <1>1. /\ calcIn \in Seq(ToCalc) /\ cur \in Cursors /\ looking \in BOOLEAN
        /\ (~cur.zooming /\ ~cur.timer
              => (cur.caret => Blinks(cur)) /\ (Blinks(cur) => cur.caret \/ "edit" \in lapses))
    BY UserKnows
  <1>2. CASE UNCHANGED <<cur, calcIn>>
    <2>1. UNCHANGED <<calc, calcIn, calcOut, cur, looking, lapses>>
      BY <1>2 DEF PressKey
    <2> QED BY <2>1, CellsStay
  <1>3. CASE /\ cur' = [cur EXCEPT !.pgUp = IF key = "pgup" THEN cur.prev ELSE @,
                                   !.pgDn = IF key = "pgdn" THEN cur.prev ELSE @]
             /\ calcIn' = Append(calcIn, <<"key", key>>)
    <2>1. PICK upKey \in AnyRow : upKey = IF key = "pgup" THEN cur.prev ELSE cur.pgUp
      BY <1>1 DEF Cursors
    <2>2. PICK downKey \in AnyRow : downKey = IF key = "pgdn" THEN cur.prev ELSE cur.pgDn
      BY <1>1 DEF Cursors
    <2>3. PICK c : c = [cur EXCEPT !.pgUp = upKey, !.pgDn = downKey] /\ cur' = c
      BY <1>3, <2>1, <2>2
    <2>4. /\ c \in Cursors /\ c.edit = cur.edit /\ c.at = cur.at /\ c.prev = cur.prev
          /\ c.xy = cur.xy /\ c.prevXY = cur.prevXY /\ c.pgUp = upKey /\ c.pgDn = downKey
          /\ c.drawn = cur.drawn /\ c.valid = cur.valid /\ c.button = cur.button
          /\ c.top = cur.top /\ c.area = cur.area /\ c.marks = cur.marks
          /\ c.visible = cur.visible /\ c.focused = cur.focused /\ c.zooming = cur.zooming
          /\ c.filled = cur.filled /\ c.caret = cur.caret /\ c.timer = cur.timer
      BY <1>1, <2>3 DEF Cursors
    <2>5. Blinks(c) = Blinks(cur)
      BY <2>4 DEF Blinks
    <2>6. calcIn' \in Seq(ToCalc)
      <3>1. PICK m \in ToCalc : m = <<"key", key>>
        BY ToCalcIs
      <3> QED BY <1>1, <1>3, <3>1
    <2>7. UNCHANGED <<calc, calcOut, looking, lapses>>
      BY DEF PressKey
    <2>8. c.pgUp \in {NoRow, cur.pgUp, cur.prev} /\ c.pgDn \in {NoRow, cur.pgDn, cur.prev}
      BY <2>1, <2>2, <2>4
    <2>9. cur' = c
      BY <2>3
    <2> QED BY <1>1, <2>4, <2>5, <2>6, <2>7, <2>8, <2>9, BrowserStepKeeps
  <1> QED BY <1>2, <1>3 DEF PressKey

LEMMA PostsKeeps ==
    ASSUME CellsInv, NEW m \in {<<"range">>, <<"type">>}, Posts(m) PROVE CellsInv'
  <1>1. /\ calcIn \in Seq(ToCalc) /\ cur \in Cursors /\ looking \in BOOLEAN
        /\ (~cur.zooming /\ ~cur.timer
              => (cur.caret => Blinks(cur)) /\ (Blinks(cur) => cur.caret \/ "edit" \in lapses))
    BY UserKnows
  <1>2. calcIn' \in Seq(ToCalc)
    BY <1>1, ToCalcIs DEF Posts
  <1>3. UNCHANGED <<calc, calcOut, cur, looking, lapses>>
    BY DEF Posts
  <1> QED BY <1>1, <1>2, <1>3, BrowserStepKeeps

LEMMA DoubleClickKeeps == ASSUME CellsInv, DoubleClick PROVE CellsInv'
  <1>1. /\ calcIn \in Seq(ToCalc) /\ cur \in Cursors /\ looking \in BOOLEAN
        /\ (~cur.zooming /\ ~cur.timer
              => (cur.caret => Blinks(cur)) /\ (Blinks(cur) => cur.caret \/ "edit" \in lapses))
    BY UserKnows
  <1>2. PICK c : c = [cur EXCEPT !.at = NoRow, !.xy = NoRow]
    OBVIOUS
  <1>3. /\ c \in Cursors /\ c.edit = cur.edit /\ c.at = NoRow /\ c.prev = cur.prev
        /\ c.xy = NoRow /\ c.prevXY = cur.prevXY /\ c.pgUp = cur.pgUp /\ c.pgDn = cur.pgDn
        /\ c.drawn = cur.drawn /\ c.valid = cur.valid /\ c.button = cur.button
        /\ c.top = cur.top /\ c.area = cur.area /\ c.marks = cur.marks
        /\ c.visible = cur.visible /\ c.focused = cur.focused /\ c.zooming = cur.zooming
        /\ c.filled = cur.filled /\ c.caret = cur.caret /\ c.timer = cur.timer
    BY <1>1, <1>2, NoRowIsNoRow DEF Cursors
  <1>4. PICK u : u = UpdateCellCursor(c, FALSE, FALSE)
    OBVIOUS
  <1>5. u \in Cursors /\ Updated(c, FALSE, FALSE, u)
    BY <1>3, <1>4, UpdateKeeps
  <1>6. PICK marked \in BOOLEAN : Unmarked(u) = [u EXCEPT !.marks = marked] /\ (marked => u.marks /\ u.area)
    <2>1. \E marked \in BOOLEAN : MarksLeft(u, Unmarked(u), marked)
      BY <1>5, UnmarkedIs
    <2> QED BY <2>1 DEF MarksLeft
  <1>7. PICK d : d = [u EXCEPT !.marks = marked]
    OBVIOUS
  <1>8. /\ d \in Cursors /\ d.edit = u.edit /\ d.at = u.at /\ d.prev = u.prev
        /\ d.xy = u.xy /\ d.prevXY = u.prevXY /\ d.pgUp = u.pgUp /\ d.pgDn = u.pgDn
        /\ d.drawn = u.drawn /\ d.valid = u.valid /\ d.button = u.button /\ d.top = u.top
        /\ d.area = u.area /\ d.marks = marked /\ d.visible = u.visible
        /\ d.focused = u.focused /\ d.zooming = u.zooming /\ d.filled = u.filled
        /\ d.caret = u.caret /\ d.timer = u.timer
    BY <1>5, <1>7 DEF Cursors
  <1>9. PICK e : e = [d EXCEPT !.visible = TRUE]
    OBVIOUS
  <1>10. /\ e \in Cursors /\ e.edit = d.edit /\ e.at = d.at /\ e.prev = d.prev
         /\ e.xy = d.xy /\ e.prevXY = d.prevXY /\ e.pgUp = d.pgUp /\ e.pgDn = d.pgDn
         /\ e.drawn = d.drawn /\ e.valid = d.valid /\ e.button = d.button /\ e.top = d.top
         /\ e.area = d.area /\ e.marks = d.marks /\ e.visible = TRUE
         /\ e.focused = d.focused /\ e.zooming = d.zooming /\ e.filled = d.filled
         /\ e.caret = d.caret /\ e.timer = d.timer
    BY <1>8, <1>9 DEF Cursors
  <1>11. PICK f : f = Caret(e) /\ cur' = f
    BY <1>2, <1>4, <1>6, <1>7, <1>9, Zenon DEF DoubleClick
  <1>12. f \in Cursors /\ CaretKept(e, f)
    BY <1>10, <1>11, CaretKeeps
  <1>13. /\ f.at = NoRow /\ f.prev = cur.prev /\ f.pgUp = cur.pgUp /\ f.pgDn = cur.pgDn /\ f.valid = cur.valid
         /\ f.area = cur.area /\ (f.marks => cur.marks)
    BY <1>3, <1>5, <1>6, <1>8, <1>10, <1>12 DEF Updated, CaretKept
  <1>14. f.caret = Blinks(f)
    BY <1>12 DEF CaretKept
  <1>15. UNCHANGED <<calc, calcIn, calcOut, looking, lapses>> /\ cur' = f
    BY <1>11 DEF DoubleClick
  <1>16. f.at \in {cur.at, NoRow} /\ ~(f.at # NoRow) /\ lapses \subseteq lapses' /\ calcIn' \in Seq(ToCalc)
         /\ f.pgUp \in {NoRow, cur.pgUp, cur.prev} /\ f.pgDn \in {NoRow, cur.pgDn, cur.prev}
         /\ looking' \in BOOLEAN
    BY <1>1, <1>13, <1>15
  <1> QED BY <1>12, <1>13, <1>14, <1>15, <1>16, BrowserStepKeeps

LEMMA ScrollToKeeps ==
    ASSUME CellsInv, NEW top \in {0, DocHeight - WindowHeight}, ScrollTo(top) PROVE CellsInv'
  <1>1. /\ calcIn \in Seq(ToCalc) /\ cur \in Cursors /\ looking \in BOOLEAN
        /\ (~cur.zooming /\ ~cur.timer
              => (cur.caret => Blinks(cur)) /\ (Blinks(cur) => cur.caret \/ "edit" \in lapses))
    BY UserKnows
  <1>2. top \in Tops
    BY CellsAssumption DEF Tops, DocHeight, WindowHeight, RowHeight
  <1>3. PICK c : c = [cur EXCEPT !.top = top] /\ cur' = c
    BY DEF ScrollTo
  <1>4. /\ c \in Cursors /\ c.edit = cur.edit /\ c.at = cur.at /\ c.prev = cur.prev
        /\ c.xy = cur.xy /\ c.prevXY = cur.prevXY /\ c.pgUp = cur.pgUp
        /\ c.pgDn = cur.pgDn /\ c.drawn = cur.drawn /\ c.valid = cur.valid
        /\ c.button = cur.button /\ c.top = top /\ c.area = cur.area
        /\ c.marks = cur.marks /\ c.visible = cur.visible /\ c.focused = cur.focused
        /\ c.zooming = cur.zooming /\ c.filled = cur.filled /\ c.caret = cur.caret
        /\ c.timer = cur.timer
    BY <1>1, <1>2, <1>3 DEF Cursors
  <1>5. Blinks(c) = Blinks(cur)
    BY <1>4 DEF Blinks
  <1>6. UNCHANGED <<calc, calcIn, calcOut, lapses>> /\ looking' = FALSE /\ cur' = c
    BY <1>3 DEF ScrollTo
  <1> QED BY <1>1, <1>4, <1>5, <1>6, BrowserStepKeeps

LEMMA SelectTabKeeps == ASSUME CellsInv, NEW tab \in Tabs, SelectTab(tab) PROVE CellsInv'
  <1>1. /\ calcIn \in Seq(ToCalc) /\ cur \in Cursors /\ looking \in BOOLEAN
        /\ (~cur.zooming /\ ~cur.timer
              => (cur.caret => Blinks(cur)) /\ (Blinks(cur) => cur.caret \/ "edit" \in lapses))
    BY UserKnows
  <1>2. 0 \in Tops
    BY CellsAssumption DEF Tops, DocHeight, WindowHeight, RowHeight
  <1>3. PICK c : c = [cur EXCEPT !.top = 0]
    OBVIOUS
  <1>4. /\ c \in Cursors /\ c.prev = cur.prev /\ c.pgUp = cur.pgUp /\ c.pgDn = cur.pgDn
        /\ c.valid = cur.valid /\ c.area = cur.area
    BY <1>1, <1>2, <1>3 DEF Cursors
  <1>5. PICK u : u = ClearSelections(c) /\ cur' = u
    BY <1>3 DEF SelectTab
  <1>6. /\ u \in Cursors /\ u.at = NoRow /\ u.marks = FALSE
        /\ u.prev = c.prev /\ u.pgUp = c.pgUp /\ u.pgDn = c.pgDn /\ u.valid = c.valid
        /\ u.area = c.area /\ u.caret = Blinks(u)
    BY <1>4, <1>5, ClearSelectionsKeeps
  <1>7. calcIn' \in Seq(ToCalc)
    BY <1>1, ToCalcIs DEF SelectTab
  <1>8. UNCHANGED <<calc, calcOut, lapses>> /\ looking' = FALSE /\ cur' = u
    BY <1>5 DEF SelectTab
  <1> QED BY <1>1, <1>4, <1>6, <1>7, <1>8, BrowserStepKeeps

LEMMA CellsReadOnlyKeeps == ASSUME CellsInv, CellsReadOnly PROVE CellsInv'
  <1>1. /\ calcIn \in Seq(ToCalc) /\ cur \in Cursors /\ looking \in BOOLEAN
        /\ (~cur.zooming /\ ~cur.timer
              => (cur.caret => Blinks(cur)) /\ (Blinks(cur) => cur.caret \/ "edit" \in lapses))
    BY UserKnows
  <1>2. PICK c : c = [cur EXCEPT !.edit = FALSE]
    OBVIOUS
  <1>3. /\ c \in Cursors /\ c.prev = cur.prev /\ c.pgUp = cur.pgUp /\ c.pgDn = cur.pgDn
        /\ c.valid = cur.valid /\ c.area = cur.area
    BY <1>1, <1>2 DEF Cursors
  <1>4. PICK u : u = ClearSelections(c) /\ cur' = u
    BY <1>2 DEF CellsReadOnly
  <1>5. /\ u \in Cursors /\ u.at = NoRow /\ u.marks = FALSE
        /\ u.prev = c.prev /\ u.pgUp = c.pgUp /\ u.pgDn = c.pgDn /\ u.valid = c.valid
        /\ u.area = c.area /\ u.caret = Blinks(u)
    BY <1>3, <1>4, ClearSelectionsKeeps
  <1>6. UNCHANGED <<calc, calcIn, calcOut, looking, lapses>> /\ cur' = u
    BY <1>4 DEF CellsReadOnly
  <1> QED BY <1>1, <1>3, <1>5, <1>6, BrowserStepKeeps

LEMMA LoseFocusKeeps == ASSUME CellsInv, LoseFocus PROVE CellsInv'
  <1>1. /\ calcIn \in Seq(ToCalc) /\ cur \in Cursors /\ looking \in BOOLEAN
        /\ (~cur.zooming /\ ~cur.timer
              => (cur.caret => Blinks(cur)) /\ (Blinks(cur) => cur.caret \/ "edit" \in lapses))
    BY UserKnows
  <1>2. PICK c : c = [cur EXCEPT !.focused = FALSE]
    OBVIOUS
  <1>3. /\ c \in Cursors /\ c.edit = cur.edit /\ c.at = cur.at /\ c.prev = cur.prev
        /\ c.xy = cur.xy /\ c.prevXY = cur.prevXY /\ c.pgUp = cur.pgUp
        /\ c.pgDn = cur.pgDn /\ c.drawn = cur.drawn /\ c.valid = cur.valid
        /\ c.button = cur.button /\ c.top = cur.top /\ c.area = cur.area
        /\ c.marks = cur.marks /\ c.visible = cur.visible /\ c.focused = FALSE
        /\ c.zooming = cur.zooming /\ c.filled = cur.filled /\ c.caret = cur.caret
        /\ c.timer = cur.timer
    BY <1>1, <1>2 DEF Cursors
  <1>4. PICK u : u = Caret(c) /\ cur' = u
    BY <1>2 DEF LoseFocus
  <1>5. u \in Cursors /\ CaretKept(c, u)
    BY <1>3, <1>4, CaretKeeps
  <1>6. UNCHANGED <<calc, calcIn, calcOut, looking, lapses>> /\ cur' = u
    BY <1>4 DEF LoseFocus
  <1>7. /\ u.at = cur.at /\ u.xy = cur.xy /\ u.button = cur.button /\ u.prev = cur.prev
        /\ u.pgUp = cur.pgUp /\ u.pgDn = cur.pgDn /\ u.valid = cur.valid /\ u.area = cur.area
        /\ u.marks = cur.marks /\ u.top = cur.top /\ u.caret = Blinks(u)
    BY <1>3, <1>5 DEF CaretKept
  <1> QED BY <1>1, <1>5, <1>6, <1>7, BrowserStepKeeps

LEMMA FocusAppliedKeeps == ASSUME CellsInv, FocusApplied PROVE CellsInv'
  <1>1. /\ calcIn \in Seq(ToCalc) /\ cur \in Cursors /\ looking \in BOOLEAN
        /\ (~cur.zooming /\ ~cur.timer
              => (cur.caret => Blinks(cur)) /\ (Blinks(cur) => cur.caret \/ "edit" \in lapses))
    BY UserKnows
  <1>2. PICK c : c = [cur EXCEPT !.timer = FALSE]
    OBVIOUS
  <1>3. /\ c \in Cursors /\ c.edit = cur.edit /\ c.at = cur.at /\ c.prev = cur.prev
        /\ c.xy = cur.xy /\ c.prevXY = cur.prevXY /\ c.pgUp = cur.pgUp
        /\ c.pgDn = cur.pgDn /\ c.drawn = cur.drawn /\ c.valid = cur.valid
        /\ c.button = cur.button /\ c.top = cur.top /\ c.area = cur.area
        /\ c.marks = cur.marks /\ c.visible = cur.visible /\ c.focused = cur.focused
        /\ c.zooming = cur.zooming /\ c.filled = cur.filled /\ c.caret = cur.caret
        /\ c.timer = FALSE
    BY <1>1, <1>2 DEF Cursors
  <1>4. PICK u : u = Caret(c) /\ cur' = u
    BY <1>2 DEF FocusApplied
  <1>5. u \in Cursors /\ CaretKept(c, u)
    BY <1>3, <1>4, CaretKeeps
  <1>6. UNCHANGED <<calc, calcIn, calcOut, looking, lapses>> /\ cur' = u
    BY <1>4 DEF FocusApplied
  <1>7. /\ u.at = cur.at /\ u.xy = cur.xy /\ u.button = cur.button /\ u.prev = cur.prev
        /\ u.pgUp = cur.pgUp /\ u.pgDn = cur.pgDn /\ u.valid = cur.valid /\ u.area = cur.area
        /\ u.marks = cur.marks /\ u.top = cur.top /\ u.caret = Blinks(u)
    BY <1>3, <1>5 DEF CaretKept
  <1> QED BY <1>1, <1>5, <1>6, <1>7, BrowserStepKeeps

LEMMA CellsZoomedKeeps == ASSUME CellsInv, CellsZoomed PROVE CellsInv'
  <1>1. /\ calcIn \in Seq(ToCalc) /\ cur \in Cursors /\ looking \in BOOLEAN
        /\ (~cur.zooming /\ ~cur.timer
              => (cur.caret => Blinks(cur)) /\ (Blinks(cur) => cur.caret \/ "edit" \in lapses))
    BY UserKnows
  <1>2. PICK c : c = [cur EXCEPT !.zooming = FALSE]
    OBVIOUS
  <1>3. /\ c \in Cursors /\ c.edit = cur.edit /\ c.at = cur.at /\ c.prev = cur.prev
        /\ c.xy = cur.xy /\ c.prevXY = cur.prevXY /\ c.pgUp = cur.pgUp
        /\ c.pgDn = cur.pgDn /\ c.drawn = cur.drawn /\ c.valid = cur.valid
        /\ c.button = cur.button /\ c.top = cur.top /\ c.area = cur.area
        /\ c.marks = cur.marks /\ c.visible = cur.visible /\ c.focused = cur.focused
        /\ c.zooming = FALSE /\ c.filled = cur.filled /\ c.caret = cur.caret
        /\ c.timer = cur.timer
    BY <1>1, <1>2 DEF Cursors
  <1>4. PICK u : u = Caret(c) /\ cur' = u
    BY <1>2 DEF CellsZoomed
  <1>5. u \in Cursors /\ CaretKept(c, u)
    BY <1>3, <1>4, CaretKeeps
  <1>6. UNCHANGED <<calc, calcIn, calcOut, looking, lapses>> /\ cur' = u
    BY <1>4 DEF CellsZoomed
  <1>7. /\ u.at = cur.at /\ u.xy = cur.xy /\ u.button = cur.button /\ u.prev = cur.prev
        /\ u.pgUp = cur.pgUp /\ u.pgDn = cur.pgDn /\ u.valid = cur.valid /\ u.area = cur.area
        /\ u.marks = cur.marks /\ u.top = cur.top /\ u.caret = Blinks(u)
    BY <1>3, <1>5 DEF CaretKept
  <1> QED BY <1>1, <1>5, <1>6, <1>7, BrowserStepKeeps

LEMMA GetFocusKeeps == ASSUME CellsInv, GetFocus PROVE CellsInv'
  <1>1. /\ calcIn \in Seq(ToCalc) /\ cur \in Cursors /\ looking \in BOOLEAN
        /\ (~cur.zooming /\ ~cur.timer
              => (cur.caret => Blinks(cur)) /\ (Blinks(cur) => cur.caret \/ "edit" \in lapses))
    BY UserKnows
  <1>2. PICK c : c = [cur EXCEPT !.focused = TRUE, !.timer = TRUE] /\ cur' = c
    BY DEF GetFocus
  <1>3. /\ c \in Cursors /\ c.edit = cur.edit /\ c.at = cur.at /\ c.prev = cur.prev
        /\ c.xy = cur.xy /\ c.prevXY = cur.prevXY /\ c.pgUp = cur.pgUp
        /\ c.pgDn = cur.pgDn /\ c.drawn = cur.drawn /\ c.valid = cur.valid
        /\ c.button = cur.button /\ c.top = cur.top /\ c.area = cur.area
        /\ c.marks = cur.marks /\ c.visible = cur.visible /\ c.focused = TRUE
        /\ c.zooming = cur.zooming /\ c.filled = cur.filled /\ c.caret = cur.caret
        /\ c.timer = TRUE
    BY <1>1, <1>2 DEF Cursors
  <1>4. UNCHANGED <<calc, calcIn, calcOut, looking, lapses>> /\ cur' = c
    BY <1>2 DEF GetFocus
  <1> QED BY <1>1, <1>3, <1>4, BrowserStepKeeps

LEMMA CellsZoomKeeps == ASSUME CellsInv, CellsZoom PROVE CellsInv'
  <1>1. /\ calcIn \in Seq(ToCalc) /\ cur \in Cursors /\ looking \in BOOLEAN
        /\ (~cur.zooming /\ ~cur.timer
              => (cur.caret => Blinks(cur)) /\ (Blinks(cur) => cur.caret \/ "edit" \in lapses))
    BY UserKnows
  <1>2. PICK c : c = [cur EXCEPT !.zooming = TRUE] /\ cur' = c
    BY DEF CellsZoom
  <1>3. /\ c \in Cursors /\ c.edit = cur.edit /\ c.at = cur.at /\ c.prev = cur.prev
        /\ c.xy = cur.xy /\ c.prevXY = cur.prevXY /\ c.pgUp = cur.pgUp
        /\ c.pgDn = cur.pgDn /\ c.drawn = cur.drawn /\ c.valid = cur.valid
        /\ c.button = cur.button /\ c.top = cur.top /\ c.area = cur.area
        /\ c.marks = cur.marks /\ c.visible = cur.visible /\ c.focused = cur.focused
        /\ c.zooming = TRUE /\ c.filled = cur.filled /\ c.caret = cur.caret
        /\ c.timer = cur.timer
    BY <1>1, <1>2 DEF Cursors
  <1>4. UNCHANGED <<calc, calcIn, calcOut, looking, lapses>> /\ cur' = c
    BY <1>2 DEF CellsZoom
  <1> QED BY <1>1, <1>3, <1>4, BrowserStepKeeps

LEMMA CellsEditKeeps == ASSUME CellsInv, CellsEdit PROVE CellsInv'
  <1>1. /\ calcIn \in Seq(ToCalc) /\ cur \in Cursors /\ looking \in BOOLEAN
        /\ (~cur.zooming /\ ~cur.timer
              => (cur.caret => Blinks(cur)) /\ (Blinks(cur) => cur.caret \/ "edit" \in lapses))
    BY UserKnows
  <1>2. PICK c : c = [cur EXCEPT !.edit = TRUE] /\ cur' = c
    BY DEF CellsEdit
  <1>3. /\ c \in Cursors /\ c.edit = TRUE /\ c.at = cur.at /\ c.prev = cur.prev
        /\ c.xy = cur.xy /\ c.prevXY = cur.prevXY /\ c.pgUp = cur.pgUp
        /\ c.pgDn = cur.pgDn /\ c.drawn = cur.drawn /\ c.valid = cur.valid
        /\ c.button = cur.button /\ c.top = cur.top /\ c.area = cur.area
        /\ c.marks = cur.marks /\ c.visible = cur.visible /\ c.focused = cur.focused
        /\ c.zooming = cur.zooming /\ c.filled = cur.filled /\ c.caret = cur.caret
        /\ c.timer = cur.timer
    BY <1>1, <1>2 DEF Cursors
  <1>4. UNCHANGED <<calc, calcIn, calcOut, looking>> /\ cur' = c /\ lapses' = lapses \cup {"edit"} /\ ~cur.edit
    BY <1>2 DEF CellsEdit
  <1>5. ~c.zooming /\ ~c.timer => ~c.caret
    BY <1>1, <1>3, <1>4 DEF Blinks
  <1> QED BY <1>1, <1>3, <1>4, <1>5, BrowserStepKeeps

LEMMA CellsInitInv == ASSUME CellsInit PROVE CellsInv
  <1>1. 0 \in Rows /\ 0 \in Tops /\ NoRow \in AnyRow /\ NoRow # 0
    BY CellsAssumption DEF Rows, AnyRow, NoRow, Tops, DocHeight, WindowHeight, RowHeight
  <1>2. calc \in Calcs /\ calc.tab = 0 /\ calc.row[0] = 0 /\ calc.range = FALSE
    BY <1>1 DEF CellsInit, Calcs, Tabs
  <1>3. cur \in Cursors
    BY <1>1 DEF CellsInit, Cursors
  <1>4. /\ cur.at = NoRow /\ cur.prev = NoRow /\ cur.pgUp = NoRow /\ cur.pgDn = NoRow /\ cur.valid = NoRow
        /\ cur.marks = FALSE /\ cur.caret = FALSE /\ cur.visible = FALSE
    BY DEF CellsInit
  <1>5. PICK c \in FromCalc : c = <<"cell", 0>>
    BY <1>1 DEF FromCalc
  <1>6. PICK l \in FromCalc : l = <<"list", 0, TRUE>>
    BY <1>1 DEF FromCalc
  <1>7. c[1] = "cell" /\ c[2] = 0 /\ l[1] = "list" /\ l[2] = 0 /\ l[3] = TRUE
    BY <1>5, <1>6
  <1>8. PICK p \in BOOLEAN : p = Listed(0, 0)
    <2>1. Listed(0, 0) \in BOOLEAN
      BY DEF Listed
    <2> QED BY <2>1
  <1>9. PICK q : q = Append(<<>>, c)
    OBVIOUS
  <1>10. q = <<c>> /\ q \in Seq(FromCalc)
    BY <1>9
  <1>11. calcOut = MayAppend(q, p, <<"list", 0, TRUE>>)
    <2>1. PICK s : s = IF p THEN <<l>> ELSE <<>>
      OBVIOUS
    <2>2. calcOut = <<c>> \o s
      BY <1>5, <1>6, <1>8, <2>1, Zenon DEF CellsInit, Listed
    <2>3. q \in Seq(FromCalc) /\ l \in FromCalc /\ p \in BOOLEAN
      BY <1>10
    <2>4. q \o s = MayAppend(q, p, l)
      BY <2>1, <2>3, ConcatMayAppend
    <2>5. calcOut = MayAppend(q, p, l)
      BY <1>10, <2>2, <2>4
    <2> QED BY <1>6, <2>5
  <1>12. Told(q, NoRow, NoRow, 0, NoRow)
    <2>1. <<>> \in Seq(FromCalc)
      OBVIOUS
    <2>2. Final(q, {"cell"}, NoRow, 0)
      <3>1. c[1] \in {"cell"}
        BY <1>7
      <3>2. Final(q, {"cell"}, NoRow, c[2])
        BY <1>9, <2>1, <3>1, FinalAppend
      <3> QED BY <1>7, <3>2
    <2>3. ButtonSettles(<<>>, NoRow, NoRow)
      BY DEF ButtonSettles
    <2>4. c[1] # "list"
      BY <1>7
    <2>5. ButtonSettles(q, NoRow, NoRow)
      BY <1>9, <2>1, <2>3, <2>4, ButtonStays
    <2> QED BY <2>2, <2>5 DEF Told
  <1>13. /\ calcOut \in Seq(FromCalc) /\ Told(calcOut, NoRow, NoRow, 0, ListAt(0, 0))
         /\ Goes(<<>>, calcOut)
    <2>1. ListAt(0, 0) = IF ~p THEN NoRow ELSE 0
      BY <1>8 DEF ListAt
    <2>2. <<>> \in Seq(FromCalc)
      OBVIOUS
    <2>3. Goes(<<>>, <<>>) /\ c[1] \in {"cell", "list", "empty", "cursorvisible"}
      BY <1>7, <2>2, GoesFrom
    <2>4. Goes(<<>>, q)
      BY <1>9, <2>2, <2>3, GoesOn
    <2> QED BY <1>1, <1>10, <1>11, <1>12, <2>1, <2>4, <2>2, ButtonTold
  <1>14. CellIsTold /\ ListIsTold
    BY <1>2, <1>4, <1>13 DEF CellIsTold, ListIsTold, Told
  <1>15. MarksAreTakenAway
    <2>1. MarksTold(<<>>, cur.area, cur.marks)
      BY <1>4 DEF MarksTold
    <2>2. <<>> \in Seq(FromCalc)
      OBVIOUS
    <2>3. MarksTold(calcOut, cur.area, cur.marks)
      BY <1>13, <2>1, <2>2, GoesTold
    <2> QED BY <2>3 DEF MarksAreTakenAway
  <1>16. PageKeyIsFreed /\ ButtonAtCursor /\ CaretIsRight
    BY <1>4 DEF PageKeyIsFreed, ButtonAtCursor, CaretIsRight, Blinks
  <1>17. CursorIsInWindow
    BY <1>4 DEF CursorIsInWindow
  <1>18. calcIn \in Seq(ToCalc) /\ looking \in BOOLEAN
    <2>1. calcIn = <<>> /\ looking = FALSE
      BY DEF CellsInit
    <2>2. <<>> \in Seq(ToCalc)
      OBVIOUS
    <2> QED BY <2>1, <2>2, Zenon
  <1>19. CellsTyped
    BY <1>2, <1>3, <1>13, <1>18 DEF CellsTyped
  <1> QED BY <1>14, <1>15, <1>16, <1>17, <1>19 DEF CellsInv

LEMMA CellsNextKeeps == ASSUME CellsInv, CellsNext PROVE CellsInv'
  BY CalcAnswersKeeps, CellsReceiveKeeps, PressKeyKeeps, PostsKeeps, DoubleClickKeeps, ScrollToKeeps,
     SelectTabKeeps, LoseFocusKeeps, GetFocusKeeps, FocusAppliedKeeps, CellsZoomKeeps,
     CellsZoomedKeeps, CellsReadOnlyKeeps, CellsEditKeeps DEF CellsNext

\* When all is answered, the invariant is what the user sees.
LEMMA CellsRight ==
    ASSUME CellsInv
    PROVE  PageKeyIsFreed /\ CursorIsInWindow /\ ListButtonIsRight /\ MarksFollowRange /\ CaretIsRight
  <1>1. ListButtonIsRight
    <2> SUFFICES ASSUME CellsQuiet, cur.at # NoRow
                 PROVE  cur.button = IF Listed(calc.tab, cur.at) THEN cur.at ELSE NoRow
      BY DEF ListButtonIsRight
    <2>1. calcOut = <<>>
      BY DEF CellsQuiet
    <2>2. cur.at = calc.row[calc.tab]
      BY <2>1, FinalNow DEF CellsInv, CellIsTold
    <2>3. cur.valid = ListAt(calc.tab, calc.row[calc.tab])
      BY <2>1 DEF CellsInv, ListIsTold, ButtonSettles
    <2> QED BY <2>2, <2>3 DEF CellsInv, ButtonAtCursor, ListAt
  <1>2. MarksFollowRange
    <2> SUFFICES ASSUME CellsQuiet, cur.marks, ~calc.range PROVE FALSE
      BY DEF MarksFollowRange
    <2>1. MarksWillGo(<<>>, 0, cur.area)
      BY DEF CellsQuiet, CellsInv, MarksAreTakenAway, MarksTold
    <2> QED BY <2>1 DEF MarksWillGo
  <1> QED BY <1>1, <1>2 DEF CellsInv

LEMMA CellsKept == ASSUME CellsInv, UNCHANGED cellsVars PROVE CellsInv'
  <1>1. UNCHANGED <<calc, calcIn, calcOut, cur, looking, lapses>>
    BY DEF cellsVars
  <1> QED BY <1>1, CellsStay

\* In a behaviour about the clipboard the copy of the user is recognised, what is pasted is of
\* the clipboard, and what is copied is what is selected; in one about the cells the page keys
\* are freed, the window shows the cursor, and the button of a list, the marks and the blinking
\* cursor are where the kit put the cell (Map.js:844, TileLayer.js:2597, 1058, 2707, 2784, 1069).
THEOREM EditingIsAlwaysRight == DocumentSpec => []EditingIsRight
  <1> DEFINE Inv == (shownPart = "clipboard" => ClipInv) /\ (shownPart = "cells" => CellsInv)
  <1>1. DocumentInit => Inv
    BY ClipInitInv, CellsInitInv DEF DocumentInit
  <1>2. Inv /\ [DocumentNext]_documentVars => Inv'
    <2> SUFFICES ASSUME Inv, [DocumentNext]_documentVars PROVE Inv'
      OBVIOUS
    <2>1. ASSUME shownPart' = "clipboard" PROVE ClipInv'
      <3>1. CASE DocumentNext
        <4>1. shownPart = "clipboard" /\ ClipNext
          BY <2>1, <3>1 DEF DocumentNext
        <4> QED BY <4>1, ClipNextKeeps
      <3>2. CASE UNCHANGED documentVars
        <4>1. shownPart = "clipboard" /\ UNCHANGED clipVars
          BY <2>1, <3>2 DEF documentVars
        <4> QED BY <4>1, ClipStays
      <3> QED BY <3>1, <3>2
    <2>2. ASSUME shownPart' = "cells" PROVE CellsInv'
      <3>1. CASE DocumentNext
        <4>1. shownPart = "cells" /\ CellsNext
          BY <2>2, <3>1 DEF DocumentNext
        <4> QED BY <4>1, CellsNextKeeps
      <3>2. CASE UNCHANGED documentVars
        <4>1. shownPart = "cells" /\ UNCHANGED cellsVars
          BY <2>2, <3>2 DEF documentVars
        <4> QED BY <4>1, CellsKept
      <3> QED BY <3>1, <3>2
    <2> QED BY <2>1, <2>2
  <1>3. Inv => EditingIsRight
    BY ClipRight, CellsRight DEF EditingIsRight
  <1> QED BY <1>1, <1>2, <1>3, PTL DEF DocumentSpec
=============================================================================
