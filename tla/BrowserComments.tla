-------------------------- MODULE BrowserComments --------------------------
(***************************************************************************)
(* The comments beside a text document: the list the browser keeps of      *)
(* them, the thread that is selected, and the comment that is written or   *)
(* changed while other users do the same.                                  *)
(***************************************************************************)
EXTENDS Integers, Sequences, SequencesExt, FiniteSetsExt

CONSTANTS Anchors,      \* places of the text that have comments, as numbers
          MaxNoteTurns  \* bound: what this user and the others do

VARIABLES
    paper,      \* the kit: the thread of each place, and the next id
    paperIn,    \* messages to the kit
    paperOut,   \* messages from the kit
    notes,      \* the browser, see NotesTypeOK
    noteTurns,  \* how much of the bound is used up
    losses      \* history: the named holes that have been met

notesVars == <<paper, paperIn, paperOut, notes, noteTurns, losses>>

New == 0                    \* the id 'new'
None == 0 - 1
Blank == "blank" Mine == "mine" Theirs == "theirs" Old == "old"
Wordings == {Blank, Mine, Theirs, Old}
Ids == 0..(MaxNoteTurns + 2)

Note == [id: Ids, parent: Ids \cup {None}, at: Anchors, text: Wordings,
         area: Wordings, dirty: BOOLEAN, mode: {"shown", "edit", "reply"}]

\* The values the variables take.
NotesTypeOK ==
    /\ paper.threads \in [Anchors -> Seq([id: Ids, text: Wordings])]
    /\ notes.items \in Seq(Note)
    /\ notes.selected \in Ids \cup {None}
    /\ notes.focus \in Ids \cup {None}
    /\ notes.field \in {"edit", "reply"}
    /\ notes.typed \in BOOLEAN /\ notes.timer \in BOOLEAN
    /\ losses \subseteq {"root", "filled", "stale", "unwanted"}

-----------------------------------------------------------------------------
(* The kit.  In a thread the parent of a comment is the one before it.     *)

Comment(a, i, thread) ==
    [id |-> thread[i].id, parent |-> IF i = 1 THEN None ELSE thread[i - 1].id,
     at |-> a, text |-> thread[i].text]

Listing(threads) ==
    FoldLeft(LAMBDA all, a : all \o [i \in DOMAIN threads[a] |-> Comment(a, i, threads[a])],
             <<>>, SetToSortSeq(Anchors, <))

PaperIds == UNION {{paper.threads[a][i].id : i \in DOMAIN paper.threads[a]} : a \in Anchors}
PlaceOf(id) == CHOOSE a \in Anchors : \E i \in DOMAIN paper.threads[a] : paper.threads[a][i].id = id
IndexIn(thread, id) == CHOOSE i \in DOMAIN thread : thread[i].id = id

KitAdds(a, i, text) ==
    LET thread == InsertAt(paper.threads[a], i, [id |-> paper.next, text |-> text])
    IN /\ paper' = [paper EXCEPT !.threads[a] = thread, !.next = @ + 1]
       /\ paperOut' = Append(paperOut, <<"Add", Comment(a, i, thread)>>)

KitReplies(id, text) ==
    LET a == PlaceOf(id)
    IN id \in PaperIds /\ KitAdds(a, IndexIn(paper.threads[a], id) + 1, text)

KitRemoves(id) ==
    LET a == PlaceOf(id)
    IN /\ id \in PaperIds
       /\ paper' = [paper EXCEPT !.threads[a] = RemoveAt(@, IndexIn(@, id))]
       /\ paperOut' = Append(paperOut, <<"Remove", id>>)

KitChanges(id, text) ==
    LET a == PlaceOf(id)
    IN /\ id \in PaperIds
       /\ paper' = [paper EXCEPT !.threads[a][IndexIn(paper.threads[a], id)].text = text]
       /\ paperOut' = Append(paperOut, <<"Modify", id, text>>)

PaperAnswers ==
    LET m == Head(paperIn)
    IN /\ paperIn # <<>> /\ paperIn' = Tail(paperIn)
       /\ \/ /\ m[1] = "view"
             /\ paperOut' = Append(paperOut, <<"fill", Listing(paper.threads)>>) /\ UNCHANGED paper
          \/ m[1] = "InsertAnnotation" /\ KitAdds(m[2], Len(paper.threads[m[2]]) + 1, m[3])
          \/ m[1] = "ReplyComment" /\ KitReplies(m[2], m[3])
          \/ m[1] = "DeleteComment" /\ KitRemoves(m[2])
          \/ m[1] = "EditAnnotation" /\ KitChanges(m[2], m[3])
          \/ /\ m[1] \in {"ReplyComment", "DeleteComment", "EditAnnotation"} /\ m[2] \notin PaperIds
             /\ UNCHANGED <<paper, paperOut>>
       /\ UNCHANGED <<notes, noteTurns, losses>>

NoteTurn == noteTurns < MaxNoteTurns /\ noteTurns' = noteTurns + 1

OthersComment(a) ==
    /\ NoteTurn
    /\ \/ paper.threads[a] = <<>> /\ KitAdds(a, 1, Theirs)
       \/ \E id \in PaperIds : PlaceOf(id) = a /\ (KitReplies(id, Theirs) \/ KitRemoves(id)
                                                   \/ KitChanges(id, Theirs))
    /\ UNCHANGED <<paperIn, notes, losses>>

-----------------------------------------------------------------------------
(* The list.                                                               *)

GetIndexOf(items, id) ==
    IF \E i \in DOMAIN items : items[i].id = id
    THEN Min({i \in DOMAIN items : items[i].id = id}) ELSE 0

Chained(items, i) == items[i + 1].parent = items[i].id

\* The first of the thread that holds the comment, and the last.
GetRootIndexOf(items, id) ==
    LET index == GetIndexOf(items, id)
    IN Min({i \in 1..index : \A j \in i..(index - 1) : Chained(items, j)} \cup {index})

GetLastChildIndexOf(items, id) ==
    LET index == GetIndexOf(items, id)
    IN Max({i \in index..Len(items) : \A j \in index..(i - 1) : Chained(items, j)} \cup {index})

\* update, layout: the comments are placed a quarter of a second later.
Update(n) == [n EXCEPT !.timer = TRUE]

Unselect(n) == IF n.selected = None THEN n ELSE Update([n EXCEPT !.selected = None])

Select(n, id) == Update([n EXCEPT !.selected = n.items[GetRootIndexOf(n.items, id)].id])

\* layoutUp and layoutDown, for each comment of a thread
LayoutDown(note) == [note EXCEPT !.mode = "shown"]

\* With a slip: the selected thread is shown like the others, even when it is written to.
DoLayoutAll(n) ==
    [n EXCEPT !.timer = FALSE,
              !.items = [i \in DOMAIN @ |-> LayoutDown(@[i])]]

\* doLayout: every comment outside the selected thread is shown, and its fields are hidden.
DoLayout(n) ==
    LET selected == IF n.selected = None THEN {}
                    ELSE GetRootIndexOf(n.items, n.selected)..GetLastChildIndexOf(n.items, n.selected)
    IN [n EXCEPT !.timer = FALSE,
                 !.items = [i \in DOMAIN @ |-> IF i \in selected THEN @[i] ELSE LayoutDown(@[i])]]

\* The sort is stable: comments of one place stay in their order.
InTextOrder(items) ==
    FoldLeft(LAMBDA all, a : all \o SelectSeq(items, LAMBDA x : x.at = a), <<>>, SetToSortSeq(Anchors, <))

Annotation(comment, mode) ==
    [id |-> comment.id, parent |-> comment.parent, at |-> comment.at, text |-> comment.text,
     area |-> comment.text, dirty |-> FALSE, mode |-> mode]

\* A comment with a parent goes behind it, any other to the end, before the sort.
Add(items, comment) ==
    LET note == Annotation(comment, "shown")
        parent == GetIndexOf(items, comment.parent)
    IN InTextOrder(IF comment.parent # None THEN InsertAt(items, parent + 1, note)
               ELSE Append(items, note))

\* With a slip: the comment that followed its parent keeps it.
AdjustParentAddNot(items, comment) == items

AdjustParentAdd(items, comment) ==
    LET i == GetIndexOf(items, comment.parent)
    IN IF comment.parent # None /\ i > 0 /\ i < Len(items) /\ Chained(items, i)
       THEN [items EXCEPT ![i + 1].parent = comment.id] ELSE items

\* The comment that follows the one removed gets its parent, if that is still there.
AdjustParentRemove(items, id) ==
    LET i == GetIndexOf(items, id)
        parent == IF GetIndexOf(items, items[i].parent) > 0 THEN items[i].parent ELSE None
    IN IF i < Len(items) /\ Chained(items, i)
       THEN [items EXCEPT ![i + 1].parent = parent] ELSE items

RemoveItem(items, id) == RemoveAt(items, GetIndexOf(items, id))

NoteOf(n, id) == n.items[GetIndexOf(n.items, id)]
IsListed(n, id) == GetIndexOf(n.items, id) > 0

-----------------------------------------------------------------------------
(* Messages.                                                               *)

\* A field that goes loses the focus.
Unfocused(n) == IF n.focus # None /\ ~IsListed(n, n.focus) THEN [n EXCEPT !.focus = None] ELSE n

\* fill: the draft of a new comment goes as well.
Fill(comments) ==
    /\ notes' = Unfocused([notes EXCEPT !.items = [i \in DOMAIN comments |-> Annotation(comments[i], "shown")],
                                        !.selected = None, !.focus = None,
                                        !.timer = @ \/ comments # <<>>])
    /\ losses' = losses \cup (IF notes.focus # None THEN {"filled"} ELSE {})

OnAdd(comment) ==
    /\ notes' = Update([notes EXCEPT !.items = Add(AdjustParentAdd(@, comment), comment)])
    /\ UNCHANGED losses

\* With a slip: the selection stays when the comment that has it goes.
OnRemoveKeeping(id) ==
    /\ notes' = IF ~IsListed(notes, id) THEN notes
                ELSE Unfocused(Update([notes EXCEPT !.items = RemoveItem(AdjustParentRemove(@, id), id)]))
    /\ UNCHANGED losses

\* When the root of a thread goes, nothing of the thread is selected any more.
OnRemove(id) ==
    LET n == [notes EXCEPT !.items = RemoveItem(AdjustParentRemove(@, id), id)]
    IN /\ notes' = IF ~IsListed(notes, id) THEN notes
                   ELSE Unfocused(IF notes.selected = id THEN Unselect(n) ELSE Update(n))
       /\ losses' = losses \cup (IF notes.selected = id /\ notes.focus \notin {None, id}
                                 THEN {"root"} ELSE {})

\* The field that holds the text follows it, unless it has been written to.
UpdateContent(note, text) ==
    [note EXCEPT !.text = text, !.area = IF note.dirty THEN @ ELSE text]

OnModify(id, text) ==
    LET i == GetIndexOf(notes.items, id)
    IN /\ notes' = IF i = 0 THEN notes ELSE Update([notes EXCEPT !.items[i] = UpdateContent(@, text)])
       /\ losses' = losses \cup (IF i > 0 /\ notes.items[i].dirty /\ notes.items[i].area # text
                                 THEN {"stale"} ELSE {})

\* onACKComment, and _onCommandValuesMsg for the list
NotesReceive ==
    LET m == Head(paperOut)
    IN /\ paperOut # <<>> /\ paperOut' = Tail(paperOut)
       /\ \/ m[1] = "fill" /\ Fill(m[2])
          \/ m[1] = "Add" /\ OnAdd(m[2])
          \/ m[1] = "Remove" /\ OnRemove(m[2])
          \/ m[1] = "Modify" /\ OnModify(m[2], m[3])
       /\ UNCHANGED <<paper, paperIn, noteTurns>>

LayoutTimer ==
    /\ notes.timer /\ notes' = DoLayout(notes)
    /\ UNCHANGED <<paper, paperIn, paperOut, noteTurns, losses>>

-----------------------------------------------------------------------------
(* The user.                                                               *)

NotesUser == UNCHANGED <<paper, paperOut>>

SetMode(n, id, mode) == [n EXCEPT !.items[GetIndexOf(n.items, id)].mode = mode]

\* insertComment and newAnnotation: a comment with the id 'new', open for writing.
InsertComment(a) ==
    LET draft == [id |-> New, parent |-> None, at |-> a, text |-> Blank]
        n == [notes EXCEPT !.items = Add(@, draft)]
    IN /\ NoteTurn /\ notes.focus = None /\ ~IsListed(notes, New)
       /\ notes' = [Select(SetMode(n, New, "edit"), New) EXCEPT !.focus = New, !.field = "edit",
                                                            !.typed = FALSE]
       /\ NotesUser /\ UNCHANGED <<paperIn, losses>>

\* modify and reply
OpenComment(id, mode) ==
    /\ NoteTurn /\ notes.focus = None /\ id # New
    /\ notes' = [Select(SetMode(notes, id, mode), id) EXCEPT !.focus = id, !.field = mode,
                                                              !.typed = FALSE]
    /\ NotesUser /\ UNCHANGED <<paperIn, losses>>

Type ==
    LET i == GetIndexOf(notes.items, notes.focus)
    IN /\ notes.focus # None /\ ~notes.typed
       /\ notes' = [notes EXCEPT !.typed = TRUE,
                                 !.items[i].area = IF notes.field = "edit" THEN Mine ELSE @,
                                 !.items[i].dirty = @ \/ notes.field = "edit"]
       /\ NotesUser /\ UNCHANGED <<paperIn, noteTurns, losses>>

\* A draft goes: the kit will tell of the comment that is made of it.
OnAnnotationSave(n, note) ==
    \/ /\ note.id = New
       /\ paperIn' = Append(paperIn, <<"InsertAnnotation", note.at, note.area>>)
       /\ notes' = Unselect([n EXCEPT !.items = RemoveItem(@, New)])
    \/ /\ note.id # New
       /\ paperIn' = Append(paperIn, <<"EditAnnotation", note.id, note.area>>)
       /\ notes' = Unselect(n)

OnSaveComment(id) ==
    LET note == NoteOf(notes, id)
        saved == [notes EXCEPT !.items[GetIndexOf(notes.items, id)].text = note.area, !.focus = None]
    IN /\ OnAnnotationSave(SetMode(saved, id, "shown"), note)
       /\ losses' = losses \cup (IF notes.typed \/ "stale" \in losses THEN {} ELSE {"unwanted"})

OnAnnotationCancel(n, id) ==
    LET gone == IF id = New THEN [n EXCEPT !.items = RemoveItem(@, New)] ELSE n
    IN IF n.selected = id THEN Unselect(gone) ELSE Update(gone)

\* The field is written to.
OnCancelClick(id) ==
    LET i == GetIndexOf(notes.items, id)
        n == [notes EXCEPT !.items[i].area = notes.items[i].text,
                           !.items[i].dirty = TRUE, !.focus = None]
    IN /\ notes' = OnAnnotationCancel(SetMode(n, id, "shown"), id)
       /\ UNCHANGED <<paperIn, losses>>

OnAnnotationReply(n, id) ==
    /\ paperIn' = Append(paperIn, <<"ReplyComment", id, IF notes.typed THEN Mine ELSE Blank>>)
    /\ notes' = Unselect(n)

OnReplyClick(id) ==
    /\ OnAnnotationReply(SetMode([notes EXCEPT !.focus = None], id, "shown"), id)
    /\ UNCHANGED losses

\* With a slip: whatever the field holds is saved.
OnLostFocusAlways(id) ==
    \/ NoteOf(notes, id).area # Blank /\ OnSaveComment(id)
    \/ NoteOf(notes, id).area = Blank /\ OnCancelClick(id)

\* A text that was changed is saved, an empty one is given up, any other stays open.
OnLostFocus(id) ==
    LET note == NoteOf(notes, id)
    IN \/ note.text # note.area /\ OnSaveComment(id)
       \/ note.text = note.area /\ note.area = Blank /\ OnCancelClick(id)
       \/ /\ note.text = note.area /\ note.area # Blank
          /\ notes' = [notes EXCEPT !.focus = None] /\ UNCHANGED <<paperIn, losses>>

OnLostFocusReply(id) ==
    \/ notes.typed /\ OnReplyClick(id)
    \/ ~notes.typed /\ notes' = [notes EXCEPT !.focus = None] /\ UNCHANGED <<paperIn, losses>>

LeaveField ==
    LET id == notes.focus
    IN /\ id # None
       /\ \/ notes.field = "edit" /\ OnLostFocus(id)
          \/ notes.field = "reply" /\ OnLostFocusReply(id)
       /\ NotesUser /\ UNCHANGED noteTurns

\* The buttons of the field
PressButton ==
    LET id == notes.focus
    IN /\ id # None
       /\ \/ NoteOf(notes, id).mode = "edit" /\ notes.typed /\ OnSaveComment(id)
          \/ NoteOf(notes, id).mode = "reply" /\ OnReplyClick(id)
          \/ NoteOf(notes, id).mode # "shown" /\ OnCancelClick(id)
       /\ NotesUser /\ UNCHANGED noteTurns

\* _onAnnotationClick
ClickComment(id) ==
    /\ NoteTurn /\ notes.focus = None /\ notes' = Select(notes, id)
    /\ NotesUser /\ UNCHANGED <<paperIn, losses>>

\* remove
RemoveComment(id) ==
    /\ NoteTurn /\ notes.focus = None /\ id # New
    /\ paperIn' = Append(paperIn, <<"DeleteComment", id>>)
    /\ notes' = Unselect(notes)
    /\ NotesUser /\ UNCHANGED losses

\* _onAnnotationZoom
ZoomComments ==
    /\ NoteTurn
    /\ notes' = [DoLayout(notes) EXCEPT !.timer = notes.timer]
    /\ NotesUser /\ UNCHANGED <<paperIn, losses>>

-----------------------------------------------------------------------------
\* Two comments in one thread.  The list is asked for twice, by sendInitUNOCommands and by
\* the layer's onAdd; the second answer is still to come.
NotesInit ==
    LET thread == <<[id |-> 1, text |-> Old], [id |-> 2, text |-> Old]>>
        threads == [a \in Anchors |-> IF a = Min(Anchors) THEN thread ELSE <<>>]
    IN /\ paper = [threads |-> threads, next |-> 3]
       /\ paperIn = <<<<"view">>>> /\ paperOut = <<>>
       /\ notes = [items |-> [i \in DOMAIN Listing(threads) |-> Annotation(Listing(threads)[i], "shown")],
                   selected |-> None, focus |-> None, field |-> "edit", typed |-> FALSE, timer |-> FALSE]
       /\ noteTurns = 0 /\ losses = {}

NotesNext ==
    \/ PaperAnswers
    \/ \E a \in Anchors : OthersComment(a) \/ InsertComment(a)
    \/ NotesReceive
    \/ LayoutTimer
    \/ \E i \in DOMAIN notes.items :
          \/ \E mode \in {"edit", "reply"} : OpenComment(notes.items[i].id, mode)
          \/ ClickComment(notes.items[i].id)
          \/ RemoveComment(notes.items[i].id)
    \/ Type
    \/ LeaveField
    \/ PressButton
    \/ ZoomComments

NotesSpec == NotesInit /\ [][NotesNext]_notesVars

-----------------------------------------------------------------------------
(* Properties.                                                             *)

\* Once browser and kit have heard each other out, the browser lists the comments of the
\* document in their order, each with its text and under the comment it answers: replies,
\* removals and changes of several users are put together by onACKComment.
CommentsMatch ==
    paperIn = <<>> /\ paperOut = <<>> =>
        Listing(paper.threads) =
            LET saved == SelectSeq(notes.items, LAMBDA x : x.id # New)
            IN [i \in DOMAIN saved |-> [id |-> saved[i].id, parent |-> saved[i].parent,
                                        at |-> saved[i].at, text |-> saved[i].text]]

\* What is selected is the first comment of a thread that is listed: doLayout counts from there,
\* and stops at once, each time it is called, if there is no such comment.
SelectionIsARoot ==
    notes.selected # None =>
        /\ IsListed(notes, notes.selected)
        /\ GetRootIndexOf(notes.items, notes.selected) = GetIndexOf(notes.items, notes.selected)

\* A comment that is being written stays open for it: no message about another comment, and
\* no layout, closes the field.  (It does when the root of its thread is removed: "root".)
WritingIsNotInterrupted ==
    notes.focus # None /\ "root" \notin losses => NoteOf(notes, notes.focus).mode # "shown"

\* No text is sent that the user has not typed, unless the field was out of date ("stale").
NothingIsSentUnwanted == "unwanted" \notin losses

=============================================================================
