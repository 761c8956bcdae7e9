-------------------------------- MODULE Tui --------------------------------
(***************************************************************************)
(* The key tree of the TUI (tui.cpp, build_rows and delete_landing of      *)
(* tui_edit.cpp) against a store that other clients change: selection,     *)
(* folding, filter, reveal, add, edit and delete.  A handler that makes    *)
(* several calls is several steps, one per call, because other clients are *)
(* served between them; which key starts which handler is in TuiInput.     *)
(*                                                                         *)
(* A key is the sequence of its segments, so <<"d", "a">> is d/a; no       *)
(* segment begins with another one, so that a row's id begins with         *)
(* another's only if that one is a folder above it.                        *)
(***************************************************************************)
EXTENDS Naturals, Sequences, FiniteSets, SequencesExt

CONSTANTS
    KeyOrder,     \* all keys that may exist, as std::sort puts them
    Matching,     \* those that contain the filter text
    MaxChanges,   \* changes other clients make
    MaxQueued,    \* requests of the TUI left in the daemon's queue
    None          \* no key, no row

Keys == Range(KeyOrder)
Prefix(path, i) == SubSeq(path, 1, i)
Folders == UNION {{Prefix(k, i) : i \in 1..(Len(k) - 1)} : k \in Keys}
Row(path, dir) == [id |-> path, dir |-> dir]
Rows == {Row(k, FALSE) : k \in Keys} \cup {Row(f, TRUE) : f \in Folders}

ASSUME TuiAssumption ==
    /\ KeyOrder \in Seq(Seq(STRING) \ {<<>>})
    /\ \A i, j \in DOMAIN KeyOrder : KeyOrder[i] = KeyOrder[j] => i = j
    /\ Matching \subseteq Keys
    /\ None \notin Keys /\ None \notin Rows
    /\ MaxChanges \in Nat /\ MaxQueued \in Nat

InFolder(key, f) == Len(f) < Len(key) /\ Prefix(key, Len(f)) = f

\* std::sort leaves the keys of a folder together.
ASSUME SortAssumption ==
    \A f \in Folders, i, k \in DOMAIN KeyOrder :
        InFolder(KeyOrder[i], f) /\ InFolder(KeyOrder[k], f)
        => \A j \in i..k : InFolder(KeyOrder[j], f)

VARIABLES
    db,          \* the keys in the store
    queued,      \* requests the TUI gave up on and the daemon has yet to read
    changes,     \* how many changes other clients have made
    keys,        \* the keys of the last list
    rows,        \* the visible rows
    filter,      \* whether a filter is set
    collapsed,   \* folded folders
    selected,    \* index of the selected row, from 1
    selection,   \* selection_id: row the reveal belongs to, or None
    revealed,    \* key whose value is shown, or None
    mode,        \* "Normal", "Add", "Edit" or one of the two questions
    step,        \* which call the running handler is in, or "idle"
    target,      \* key the running handler, or the overwrite question, is about
    landing,     \* rows to select after a delete, best first
    opened,      \* history: key the form or the question was opened on
    listed,      \* history: whether the last list succeeded
    fresh        \* history: keys added by others while a handler is about to set

store == <<db, queued, changes>>
tree == <<keys, rows, filter, collapsed, selected>>
vars == <<store, tree, selection, revealed, mode, step, target, landing,
          opened, listed, fresh>>

Modes == {"Normal", "Add", "Edit", "ConfirmOverwrite", "ConfirmDelete"}
Steps == {"idle", "reveal", "copy", "edit", "gone", "reload", "check", "save",
          "saved", "remove", "removed"}

-----------------------------------------------------------------------------
(* Rows.                                                                   *)

is_folded(f, c, folder) == ~f /\ folder \in c

Hidden(f, c, path) == \E i \in 1..(Len(path) - 1) : is_folded(f, c, Prefix(path, i))

Shown(ks, f) ==
    {i \in DOMAIN KeyOrder : KeyOrder[i] \in ks /\ (f => KeyOrder[i] \in Matching)}

\* The shown key before the i-th one.
Before(shown, i) ==
    LET earlier == {j \in shown : j < i} IN
    IF earlier = {} THEN <<>> ELSE KeyOrder[Max(earlier)]

\* Mutant of Shared: a folder is opened again for every key.
SharedNever(previous, key) == 0

\* How many folders on the way to a key are on the way to the one before it.
Shared(previous, key) ==
    Max({0} \cup {m \in 1..(Len(key) - 1) :
                     m < Len(previous) /\ Prefix(previous, m) = Prefix(key, m)})

\* How far down the way to a key is open: to its first folded folder, if any.
Open(f, c, key) ==
    Min({Len(key)} \cup {m \in 1..(Len(key) - 1) : is_folded(f, c, Prefix(key, m))})

RowOn(key, m) == Row(Prefix(key, m), m < Len(key))

NewRows(previous, key, f, c) ==
    LET shared == Shared(previous, key) IN
    [m \in 1..(Open(f, c, key) - shared) |-> RowOn(key, shared + m)]

build_rows(ks, f, c) ==
    LET shown == Shown(ks, f) IN
    FlattenSeq([i \in DOMAIN KeyOrder |->
                   IF i \in shown THEN NewRows(Before(shown, i), KeyOrder[i], f, c)
                   ELSE <<>>])

Depth(row) == Len(row.id)

IndexIn(row, rs) == {i \in DOMAIN rs : rs[i] = row}

Clamped(index, rs) ==
    IF rs = <<>> THEN 1 ELSE IF index > Len(rs) THEN Len(rs) ELSE index

\* The index rebuild_rows leaves selected: that of the row asked for if it is
\* there, else the old one, within bounds.
Reselect(row, rs) ==
    IF IndexIn(row, rs) # {} THEN CHOOSE i \in IndexIn(row, rs) : TRUE
    ELSE Clamped(selected, rs)

selected_row == IF rows = <<>> THEN None ELSE rows[selected]
current_key == IF selected_row = None \/ selected_row.dir THEN None ELSE selected_row.id

expand_to(c, path) == {f \in c : ~InFolder(path, f)}

\* Mutant of delete_landing: only the folders around the deleted row.
LandingAbove(rs, i) ==
    [m \in 1..(Len(rs[i].id) - 1) |-> Row(Prefix(rs[i].id, Len(rs[i].id) - m), TRUE)]

\* The rows next to the deleted one in the same folder, the folders around
\* it, and the row above all of them.
delete_landing(rs, i) ==
    LET gone == rs[i]
        Level(j) == Depth(rs[j]) = Depth(gone)
        After == {j \in (i + 1)..Len(rs) : Level(j) /\
                    \A m \in (i + 1)..(j - 1) : Depth(rs[m]) > Depth(gone)}
        Above == {j \in 1..(i - 1) : Level(j) /\
                    \A m \in (j + 1)..(i - 1) : Depth(rs[m]) > Depth(gone)}
        Around == [m \in 1..(Len(gone.id) - 1) |->
                      Row(Prefix(gone.id, Len(gone.id) - m), TRUE)]
        Other == {j \in 1..(i - 1) :
                    /\ ~IsPrefix(rs[j].id, gone.id)
                    /\ \A m \in (j + 1)..(i - 1) : IsPrefix(rs[m].id, gone.id)}
        At(js) == IF js = {} THEN <<>> ELSE <<rs[Min(js)]>>
    IN  At(After) \o At(Above) \o Around \o At(Other)

-----------------------------------------------------------------------------

TypeOK ==
    /\ db \subseteq Keys /\ keys \subseteq Keys
    /\ queued \in Seq([op : {"set", "delete"}, key : Keys, asked : BOOLEAN])
    /\ changes \in 0..MaxChanges
    /\ rows \in Seq(Rows)
    /\ filter \in BOOLEAN
    /\ collapsed \subseteq Folders
    /\ selected \in 1..(IF rows = <<>> THEN 1 ELSE Len(rows))
    /\ selection \in Rows \cup {None}
    /\ revealed \in Keys \cup {None}
    /\ mode \in Modes /\ step \in Steps
    /\ target \in Keys \cup {None} /\ opened \in Keys \cup {None}
    /\ landing \in Seq(Rows)
    /\ listed \in BOOLEAN /\ fresh \subseteq Keys

\* run_ui lists the keys before its first event; if that fails it starts with
\* none.
Init ==
    /\ db \in SUBSET Keys
    /\ queued = <<>> /\ changes = 0
    /\ \/ keys = db /\ listed = TRUE
       \/ keys = {} /\ listed = FALSE
    /\ rows = build_rows(keys, FALSE, {})
    /\ filter = FALSE /\ collapsed = {} /\ selected = 1
    /\ selection = None /\ revealed = None
    /\ mode = "Normal" /\ step = "idle"
    /\ target = None /\ landing = <<>> /\ opened = None
    /\ fresh = {}

-----------------------------------------------------------------------------
(* Calls.                                                                  *)

\* The daemon reads what was queued before (Service, HandledInOrder), so a
\* call that is answered finds the queue empty.
Answered == queued = <<>>

refresh(row, next) ==
    /\ step' = next
    /\ revealed' = None
    /\ \/ /\ Answered
          /\ keys' = db
          /\ rows' = build_rows(db, filter, collapsed)
          /\ selected' = Reselect(row, rows')
          /\ listed' = TRUE
       \/ /\ listed' = FALSE
          /\ UNCHANGED <<keys, rows, selected>>
    /\ UNCHANGED <<store, filter, collapsed>>

\* A call without an answer: the request was never sent, or is queued (asked:
\* whether the user was asked about replacing the key, or could not have been).
Unanswered(op, asked) ==
    /\ \/ UNCHANGED queued
       \/ /\ Len(queued) < MaxQueued
          /\ queued' = Append(queued, [op |-> op, key |-> target, asked |-> asked])
    /\ UNCHANGED <<db, changes>>

-----------------------------------------------------------------------------
(* Events in the tree.                                                     *)

\* Mutant of sync_selection: the reveal stays when the row changes.
SyncUnmasked ==
    /\ selection' = selected_row
    /\ UNCHANGED revealed

\* What every event and every frame begins with.
sync_selection ==
    /\ selection' = selected_row
    /\ revealed' = IF selection = selected_row THEN revealed ELSE None

Idle(m) == step = "idle" /\ mode = m

Frame ==
    /\ step = "idle"
    /\ selection # selected_row
    /\ sync_selection
    /\ UNCHANGED <<store, tree, mode, step, target, landing, opened, listed>>

\* The menu, g and G, h and l move to another row.
Move ==
    /\ Idle("Normal")
    /\ \E i \in DOMAIN rows : i # selected /\ selected' = i
    /\ sync_selection
    /\ UNCHANGED <<store, keys, rows, filter, collapsed, mode, step, target,
                   landing, opened, listed>>

fold ==
    /\ Idle("Normal")
    /\ rows # <<>> /\ rows[selected].dir /\ ~filter
    /\ LET id == rows[selected].id IN
          collapsed' = IF id \in collapsed THEN collapsed \ {id} ELSE collapsed \cup {id}
    /\ rows' = build_rows(keys, filter, collapsed')
    /\ selected' = Reselect(selected_row, rows')
    /\ sync_selection
    /\ UNCHANGED <<store, keys, filter, mode, step, target, landing, opened, listed>>

\* A key typed into the filter, or the filter erased: the selected row stays
\* if it still matches, else the first secret is selected.
apply_filter ==
    /\ Idle("Normal")
    /\ filter' \in BOOLEAN
    /\ rows' = build_rows(keys, filter', collapsed)
    /\ LET Secrets == {i \in DOMAIN rows' : ~rows'[i].dir} IN
       selected' = IF IndexIn(selected_row, rows') # {} \/ Secrets = {}
                   THEN Reselect(selected_row, rows')
                   ELSE CHOOSE i \in Secrets : \A j \in Secrets : i <= j
    /\ sync_selection
    /\ UNCHANGED <<store, keys, collapsed, mode, step, target, landing, opened, listed>>

clear_filter ==
    /\ Idle("Normal") /\ filter
    /\ filter' = FALSE
    /\ collapsed' = IF selected_row = None THEN collapsed
                    ELSE expand_to(collapsed, selected_row.id)
    /\ rows' = build_rows(keys, FALSE, collapsed')
    /\ selected' = Reselect(selected_row, rows')
    /\ sync_selection
    /\ UNCHANGED <<store, keys, mode, step, target, landing, opened, listed>>

\* The handler goes on with a call about the selected key.
Calls(next) ==
    /\ Idle("Normal")
    /\ current_key # None
    /\ step' = next /\ target' = current_key
    /\ selection' = selected_row
    /\ UNCHANGED <<store, tree, mode, landing, opened, listed>>

\* r hides the value if it is the selected row's, else fetches it.
toggle_reveal ==
    IF selection = selected_row /\ revealed # None
    THEN /\ Idle("Normal")
         /\ revealed' = None
         /\ UNCHANGED <<store, tree, selection, mode, step, target, landing,
                        opened, listed>>
    ELSE Calls("reveal") /\ revealed' = None

copy_value == Calls("copy") /\ revealed' = IF selection = selected_row THEN revealed ELSE None

start_edit == Calls("edit") /\ revealed' = None

\* fetch_value of the three: done, not found, or no answer.
Fetch ==
    /\ step \in {"reveal", "copy", "edit"}
    /\ \/ /\ Answered /\ target \in db
          /\ step' = "idle"
          /\ revealed' = IF step = "reveal" THEN target ELSE revealed
          /\ mode' = IF step = "edit" THEN "Edit" ELSE mode
          /\ opened' = IF step = "edit" THEN target ELSE None
          /\ target' = None
       \/ /\ Answered /\ target \notin db
          /\ step' = "gone"
          /\ UNCHANGED <<revealed, mode, opened, target>>
       \/ /\ step' = "idle" /\ target' = None
          /\ UNCHANGED <<revealed, mode, opened>>
    /\ UNCHANGED <<store, tree, selection, landing, listed>>

\* fail: a key removed elsewhere reloads the list.
fail ==
    /\ step = "gone"
    /\ refresh(Row(target, FALSE), "idle")
    /\ target' = None
    /\ UNCHANGED <<selection, mode, landing, opened>>

reload ==
    \/ /\ Idle("Normal")
       /\ step' = "reload"
       /\ sync_selection
       /\ UNCHANGED <<store, tree, mode, target, landing, opened, listed>>
    \/ /\ step = "reload"
       /\ refresh(selected_row, "idle")
       /\ UNCHANGED <<selection, mode, target, landing, opened>>

\* The tick re-masks a value that was shown for kRevealFor.
expire ==
    /\ step = "idle" /\ revealed # None
    /\ revealed' = None
    /\ UNCHANGED <<store, tree, selection, mode, step, target, landing, opened, listed>>

-----------------------------------------------------------------------------
(* Forms and questions.                                                    *)

start_add ==
    /\ Idle("Normal")
    /\ mode' = "Add"
    /\ selection' = selected_row /\ revealed' = None
    /\ UNCHANGED <<store, tree, step, target, landing, opened, listed>>

cancel_form ==
    /\ step = "idle" /\ mode \in {"Add", "Edit"}
    /\ mode' = "Normal" /\ opened' = None
    /\ sync_selection
    /\ UNCHANGED <<store, tree, step, target, landing, listed>>

\* Mutant of submit_form: the list is read again before an edit is saved too.
SubmitRefreshesEdit ==
    /\ step = "idle" /\ mode \in {"Add", "Edit"}
    /\ IF mode = "Edit"
       THEN /\ refresh(selected_row, "idle")
            /\ UNCHANGED <<selection, mode, target, landing, opened>>
       ELSE /\ step' = "check" /\ target' \in Keys
            /\ sync_selection
            /\ UNCHANGED <<store, tree, mode, landing, opened, listed>>

\* Edit saves at once, under the key of the selected row; add asks for the
\* list first.
submit_form ==
    /\ step = "idle" /\ mode \in {"Add", "Edit"}
    /\ IF mode = "Edit" THEN step' = "save" /\ target' = current_key
                        ELSE step' = "check" /\ target' \in Keys
    /\ sync_selection
    /\ UNCHANGED <<store, tree, mode, landing, opened, listed>>

\* Mutant of CheckName: the list on the screen is good enough.
CheckNameStale ==
    /\ step = "check"
    /\ IF target \in keys THEN step' = "idle" /\ mode' = "ConfirmOverwrite"
                          ELSE step' = "save" /\ mode' = "Add"
    /\ UNCHANGED <<store, tree, revealed, selection, target, landing, opened, listed>>

CheckName ==
    /\ step = "check"
    /\ \E next \in {"idle", "save"} :
          /\ refresh(selected_row, next)
          /\ next = "save" <=> (listed' /\ target \notin keys')
          /\ mode' = IF listed' /\ next = "idle" THEN "ConfirmOverwrite" ELSE "Add"
          /\ target' = IF listed' THEN target ELSE None
    /\ UNCHANGED <<selection, landing, opened>>

ConfirmOverwrite(yes) ==
    /\ Idle("ConfirmOverwrite")
    /\ IF yes THEN step' = "save" /\ UNCHANGED <<mode, target>>
              ELSE step' = "idle" /\ mode' = "Add" /\ target' = None
    /\ sync_selection
    /\ UNCHANGED <<store, tree, landing, opened, listed>>

save_form ==
    /\ step = "save"
    /\ \/ /\ Answered
          /\ db' = db \cup {target}
          /\ mode' = "Normal" /\ opened' = None /\ step' = "saved"
          /\ collapsed' = expand_to(collapsed, target)
          /\ filter' = (filter /\ target \in Matching)
          /\ UNCHANGED <<queued, changes, target>>
       \/ /\ Unanswered("set", mode # "Add" \/ target \in fresh)
          /\ mode' = IF mode = "Edit" THEN "Edit" ELSE "Add"
          /\ step' = "idle" /\ target' = None
          /\ UNCHANGED <<filter, collapsed, opened>>
    /\ UNCHANGED <<keys, rows, selected, selection, revealed, landing, listed>>

\* The list after a save, with the saved key selected.
ShowSaved ==
    /\ step = "saved"
    /\ refresh(Row(target, FALSE), "idle")
    /\ target' = None
    /\ UNCHANGED <<selection, mode, landing, opened>>

AskDelete ==
    /\ Idle("Normal")
    /\ current_key # None
    /\ mode' = "ConfirmDelete" /\ opened' = current_key
    /\ sync_selection
    /\ UNCHANGED <<store, tree, step, target, landing, listed>>

ConfirmDelete(yes) ==
    /\ Idle("ConfirmDelete")
    /\ mode' = "Normal" /\ opened' = None
    /\ IF yes THEN /\ step' = "remove" /\ target' = current_key
                   /\ landing' = delete_landing(rows, selected)
              ELSE UNCHANGED <<step, target, landing>>
    /\ sync_selection
    /\ UNCHANGED <<store, tree, listed>>

do_delete ==
    /\ step = "remove"
    /\ \/ /\ Answered /\ target \in db
          /\ db' = db \ {target}
          /\ step' = "removed"
          /\ UNCHANGED <<queued, changes, target, landing>>
       \/ /\ Answered /\ target \notin db
          /\ step' = "gone" /\ landing' = <<>>
          /\ UNCHANGED <<store, target>>
       \/ /\ Unanswered("delete", TRUE)
          /\ step' = "idle" /\ target' = None /\ landing' = <<>>
    /\ UNCHANGED <<tree, selection, revealed, mode, opened, listed>>

\* The list after a delete; the first row of landing that is there is
\* selected.
ShowDeleted ==
    /\ step = "removed"
    /\ step' = "idle" /\ target' = None /\ landing' = <<>>
    /\ revealed' = None
    /\ \/ /\ Answered
          /\ keys' = db
          /\ rows' = build_rows(db, filter, collapsed)
          /\ LET there == {i \in DOMAIN landing : IndexIn(landing[i], rows') # {}} IN
             selected' = Reselect(IF there = {} THEN None ELSE landing[Min(there)], rows')
          /\ listed' = TRUE
       \/ /\ listed' = FALSE
          /\ UNCHANGED <<keys, rows, selected>>
    /\ UNCHANGED <<store, filter, collapsed, selection, mode, opened>>

-----------------------------------------------------------------------------
(* The store.                                                              *)

\* Another client sets or deletes a key.  What the TUI gave up on is queued
\* behind it: the user could not have been asked about a key that comes so late.
Elsewhere ==
    /\ changes < MaxChanges
    /\ changes' = changes + 1
    /\ \E k \in Keys : db' \in {db \cup {k}, db \ {k}}
    /\ db' # db
    /\ queued' = [i \in DOMAIN queued |->
                     LET request == queued[i] IN
                     [op |-> request.op, key |-> request.key,
                      asked |-> request.asked \/ request.key \in db' \ db]]
    /\ UNCHANGED <<tree, selection, revealed, mode, step, target,
                   landing, opened, listed>>

\* The daemon comes to a request the TUI gave up on, or dies with them all.
Drain ==
    /\ queued # <<>>
    /\ \/ /\ queued' = Tail(queued)
          /\ db' = IF Head(queued).op = "set" THEN db \cup {Head(queued).key}
                   ELSE db \ {Head(queued).key}
       \/ queued' = <<>> /\ UNCHANGED db
    /\ UNCHANGED <<changes, tree, selection, revealed, mode, step, target,
                   landing, opened, listed>>

Handle ==
    \/ Frame \/ Move \/ fold \/ apply_filter \/ clear_filter
    \/ toggle_reveal \/ copy_value \/ start_edit \/ Fetch \/ fail \/ reload \/ expire
    \/ start_add \/ cancel_form \/ submit_form \/ CheckName
    \/ \E yes \in BOOLEAN : ConfirmOverwrite(yes) \/ ConfirmDelete(yes)
    \/ save_form \/ ShowSaved \/ AskDelete \/ do_delete \/ ShowDeleted

\* Keys that no list an add made could have shown.
NoteFresh == fresh' = IF step' = "save" THEN fresh \cup (db' \ db) ELSE {}

Next == (Handle \/ Elsewhere \/ Drain) /\ NoteFresh

Spec == Init /\ [][Next]_vars

-----------------------------------------------------------------------------
(* Properties.                                                             *)

\* The tree has one row for every key and every folder that no folded folder
\* hides; a folder's row stands before the rows in it, and nothing else stands
\* between them.
TreeIsComplete ==
    LET rs == build_rows(keys, filter, collapsed)
        ks == {k \in keys : filter => k \in Matching}
        fs == {f \in Folders : \E k \in ks : InFolder(k, f)}
    IN  /\ {rs[i] : i \in DOMAIN rs}
              = {Row(k, FALSE) : k \in {p \in ks : ~Hidden(filter, collapsed, p)}}
                \cup {Row(f, TRUE) : f \in {p \in fs : ~Hidden(filter, collapsed, p)}}
        /\ \A i, j \in DOMAIN rs :
              /\ rs[i] = rs[j] => i = j
              /\ rs[i].dir /\ InFolder(rs[j].id, rs[i].id) =>
                    i < j /\ \A m \in (i + 1)..j : InFolder(rs[m].id, rs[i].id)

\* A value on the screen is the value of the selected key: whatever moved the
\* selection or the rows, the frame drawn next does not show it elsewhere.
ShownIsSelected ==
    revealed # None /\ selection = selected_row => current_key = revealed

\* An edit is saved, and a delete carried out, for the key it was opened on,
\* whatever other clients did to the list meanwhile.
ActsOnTheKeyShown ==
    step = "idle" /\ mode \in {"Edit", "ConfirmDelete"} => current_key = opened

\* An add replaces an existing key only after the question was answered with
\* yes, unless somebody added the key after the list that the add itself asked
\* for; an old list on the screen is no excuse.  The same holds for a set that
\* was queued and is applied late.
AddAsks ==
    [][/\ step = "save" /\ step' = "saved" /\ target \in db
             => mode # "Add" \/ target \in fresh
       /\ queued # <<>> /\ queued' = Tail(queued) /\ db' = db \cup {Head(queued).key}
             /\ Head(queued).op = "set" /\ Head(queued).key \in db
             => Head(queued).asked]_vars

Parent(row) == Prefix(row.id, Len(row.id) - 1)

\* The selection, on which the next key acts, lands where the user expects it.
\* After a save it is on the saved key, its folders open and no filter hiding
\* it, unless somebody removed it first.  After a delete it stays in the folder
\* of the deleted key as long as that has other rows, nobody else changed the
\* keys and the rows were up to date: those that stand after a save whose list
\* failed do not show what the save unfolded.
UpToDate == rows = build_rows(keys, filter, collapsed)
SelectionLands ==
    [][step' = "idle" /\ listed' =>
          /\ step = "saved" /\ target \in keys' =>
                rows' # <<>> /\ rows'[selected'] = Row(target, FALSE)
          /\ /\ step = "removed" /\ keys' = keys \ {target} /\ UpToDate
             /\ \E i \in DOMAIN rows' : Parent(rows'[i]) = Parent(Row(target, FALSE))
             => Parent(rows'[selected']) = Parent(Row(target, FALSE))]_vars
=============================================================================
