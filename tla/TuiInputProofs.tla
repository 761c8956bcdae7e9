--------------------------- MODULE TuiInputProofs ---------------------------
(***************************************************************************)
(* Proofs about TuiInput, for any length of texts.                         *)
(*                                                                         *)
(* A key is settled and acted on by functions of the state, so each of     *)
(* them gets a lemma: what is Tidy stays so (or the loop ends), nothing is *)
(* held after settle, and a key in the quiet time changes nothing.  During *)
(* a run of text keys the held key is young, the form's value has the      *)
(* focus and no paste or quiet time is on (Running), so that each key adds *)
(* its mark to what the value and the held key already hold.               *)
(***************************************************************************)
EXTENDS TuiInput, SequenceTheorems, TLAPS

\* A state of run_ui with texts of any length, and no text where none belongs.
AnyUis == [mode : Modes, field : {0, 1}, value : Seq(Marks),
           held : {"none", "Return", "Tab"}, late : BOOLEAN, quiet : BOOLEAN,
           pasting : BOOLEAN, buffer : Seq(Marks), shown : {"no", "yes", "due"}]

Empty(u) ==
    /\ u.mode \notin Form \cup {"ConfirmOverwrite"} => u.value = <<>>
    /\ ~u.pasting => u.buffer = <<>>
Holding(u) == u.held # "none" => u.mode \in Form /\ ~u.quiet
Tidy(u) == u \in AnyUis /\ Empty(u) /\ Holding(u)

\* The loop ends with everything cleared.
AtExit == ui.mode = "Exit" => ui = [Start EXCEPT !.mode = "Exit"]

Runs == [mode : Modes, field : {0, 1}, value : Seq(Marks), keys : Seq(Marks)]
HeldMarks(u) == IF u.held = "none" THEN <<>> ELSE <<Mark(u.held)>>
Running ==
    /\ typed \in Runs
    /\ typed # NoRun =>
          /\ ui.mode = typed.mode /\ ui.mode \in Form /\ ui.field = 1
          /\ ~ui.quiet /\ ~ui.pasting /\ (ui.held # "none" => ~ui.late)
          /\ ui.value \o HeldMarks(ui) = typed.value \o typed.keys

Quieted == settled \in BOOLEAN /\ (~settled => ui.quiet \/ ui.mode = "Exit")

Inv == Tidy(ui) /\ AtExit /\ Running /\ Quieted

-----------------------------------------------------------------------------
(* The lambdas of run_ui. *)

LEMMA MarkType == \A k \in Text : Mark(k) \in Marks
BY DEF Mark, Text, Chars, Marks

LEMMA InsertTidy ==
    ASSUME NEW u, Tidy(u), u.mode \in Form, NEW marks \in Seq(Marks)
    PROVE  Tidy(insert_into_value(u, marks))
<1>1. u.value \o marks \in Seq(Marks)
    BY ConcatProperties DEF Tidy, AnyUis
<1> QED BY <1>1 DEF Tidy, AnyUis, Empty, Holding, insert_into_value, Form

LEMMA RemaskTidy ==
    ASSUME NEW u, Tidy(u)
    PROVE  \A v \in {remask(u), expire(u)} :
               /\ Tidy(v)
               /\ \E s \in {"no", "yes", "due"} : v = [u EXCEPT !.shown = s]
<1>1. \A s \in {"no", "yes", "due"} : Tidy([u EXCEPT !.shown = s])
    BY DEF Tidy, AnyUis, Empty, Holding
<1>2. remask(u) = [u EXCEPT !.shown = "no"]
    BY DEF remask
<1>3. expire(u) \in {u, remask(u)} /\ u = [u EXCEPT !.shown = u.shown] /\ u.shown \in {"no", "yes", "due"}
    BY DEF expire, Tidy, AnyUis
<1> QED BY <1>1, <1>2, <1>3

\* A form is closed, saved or opened without leaving text behind.
Done(v) == Tidy(v) /\ v.held = "none"

LEMMA CloseTidy ==
    ASSUME NEW u, Done(u)
    PROVE  Done(remask(u)) /\ Done(close_form(u))
<1>1. Done(remask(u))
    BY DEF Done, remask, Tidy, AnyUis, Empty, Holding
<1>2. Done(close_form(u))
    <2>1. <<>> \in Seq(Marks) /\ "Normal" \in Modes
        BY DEF Modes
    <2> QED BY <2>1 DEF Done, close_form, Tidy, AnyUis, Empty, Holding
<1> QED BY <1>1, <1>2

LEMMA OpenTidy ==
    ASSUME NEW u, Done(u)
    PROVE  Done(start_add(u)) /\ \A v \in start_edit(u) : Done(v)
<1> DEFINE c == close_form(remask(u))
<1>1. Done(c)
    BY CloseTidy
<1>2. start_add(u) = [c EXCEPT !.mode = "Add"]
    BY DEF start_add
<1>3. start_edit(u) = {c} \cup {[c EXCEPT !.mode = "Edit", !.field = 1, !.value = x] : x \in {<<"char">>}}
    BY DEF start_edit
<1> HIDE DEF c
<1>4. Done([c EXCEPT !.mode = "Add"])
    BY <1>1 DEF Done, Tidy, AnyUis, Empty, Holding, Modes, Form
<1>5. Done([c EXCEPT !.mode = "Edit", !.field = 1, !.value = <<"char">>])
    <2>1. <<"char">> \in Seq(Marks)
        BY DEF Marks
    <2> QED BY <1>1, <2>1 DEF Done, Tidy, AnyUis, Empty, Holding, Modes, Form
<1> QED BY <1>1, <1>2, <1>3, <1>4, <1>5

LEMMA SubmitTidy ==
    ASSUME NEW u, Done(u), u.mode \in Form, NEW v \in submit_form(u)
    PROVE  Done(v) /\ v.mode # "Exit"
<1>1. Done(remask(u)) /\ Done(close_form(remask(u))) /\ Done(close_form(remask(remask(u))))
    BY CloseTidy
<1>2. Done([remask(u) EXCEPT !.mode = "ConfirmOverwrite"])
    BY <1>1 DEF Done, remask, Tidy, AnyUis, Empty, Holding, Modes
<1>3. v \in {u, remask(u), [remask(u) EXCEPT !.mode = "ConfirmOverwrite"],
             close_form(remask(u)), close_form(remask(remask(u)))}
    BY DEF submit_form, save_form
<1>4. v.mode \in {u.mode, "ConfirmOverwrite", "Normal"}
    BY <1>3 DEF remask, close_form, Done, Tidy, AnyUis
<1> QED BY <1>1, <1>2, <1>3, <1>4 DEF Form

\* A held Enter submits, and begins the quiet time; a held Tab moves the focus.
LEMMA ReleaseTidy ==
    ASSUME NEW u, Tidy(u), u.held # "none", NEW v \in release_held_key(u)
    PROVE  Done(v) /\ v.mode # "Exit" /\ (u.held = "Return" => v.quiet)
<1> DEFINE free == [u EXCEPT !.held = "none", !.late = FALSE]
<1>1. Done(free) /\ free.mode \in Form
    BY DEF Done, Tidy, AnyUis, Empty, Holding
<1>2. CASE u.held = "Tab"
    <2>1. Done([free EXCEPT !.field = 0])
        BY <1>1 DEF Done, Tidy, AnyUis, Empty, Holding
    <2>2. v \in {free, [free EXCEPT !.field = 0]}
        BY <1>2 DEF release_held_key
    <2> QED BY <1>1, <1>2, <2>1, <2>2 DEF Done, Tidy, AnyUis, Form
<1>3. CASE u.held = "Return"
    <2>1. PICK w \in submit_form(free) : v = [w EXCEPT !.quiet = TRUE]
        BY <1>1, <1>3 DEF release_held_key
    <2>2. Done(w) /\ w.mode # "Exit"
        BY <1>1, SubmitTidy
    <2> QED BY <2>1, <2>2 DEF Done, Tidy, AnyUis, Empty, Holding
<1> QED BY <1>2, <1>3 DEF Tidy, AnyUis

\* A key that is no longer held has been carried out, or is part of the value.
LEMMA SettleTidy ==
    ASSUME NEW u, Tidy(u), NEW k \in Keys, NEW v \in settle(u, k)
    PROVE  Done(v)
<1>1. CASE u.held = "none"
    BY <1>1 DEF settle, Done
<1>2. CASE u.held # "none" /\ ~u.late /\ k \in Text
    <2> DEFINE free == [u EXCEPT !.held = "none"]
    <2>1. v = insert_into_value(free, <<Mark(u.held)>>)
        BY <1>2 DEF settle
    <2>2. Done(free) /\ free.mode \in Form
        BY <1>2 DEF Done, Tidy, AnyUis, Empty, Holding
    <2>3. <<Mark(u.held)>> \in Seq(Marks)
        BY <1>2, MarkType DEF Tidy, AnyUis, Text
    <2> QED BY <2>1, <2>2, <2>3, InsertTidy DEF Done, insert_into_value, Tidy, AnyUis
<1>3. CASE u.held # "none" /\ ~(~u.late /\ k \in Text)
    <2>1. v \in release_held_key(u)
        BY <1>3 DEF settle
    <2> QED BY <1>3, <2>1, ReleaseTidy
<1> QED BY <1>1, <1>2, <1>3

-----------------------------------------------------------------------------
(* The handler, mode by mode.                                              *)

LEMMA PasteTidy ==
    ASSUME NEW u, Done(u), u.pasting, NEW k \in Keys
    PROVE  Done(PasteKey(u, k))
<1>0. <<>> \in Seq(Marks)
    OBVIOUS
<1>1. CASE k = "PasteEnd"
    <2> DEFINE w == [u EXCEPT !.pasting = FALSE]
    <2>1. PasteKey(u, k) = finish_paste(w)
        BY <1>1 DEF PasteKey, Text, Chars
    <2>2. Pasted(u.buffer) \in Seq(Marks)
        <3>1. u.buffer \in Seq(Marks)
            BY DEF Done, Tidy, AnyUis
        <3>2. u.buffer # <<>> => Front(u.buffer) \in Seq(Marks)
            BY <3>1 DEF Front
        <3> QED BY <3>1, <3>2 DEF Pasted
    <2>3. u.value \o Pasted(u.buffer) \in Seq(Marks)
        BY <2>2, ConcatProperties DEF Done, Tidy, AnyUis
    <2>4. ASSUME NEW x \in Seq(Marks), u.mode \in Form \/ x = u.value
          PROVE  Done([u EXCEPT !.pasting = FALSE, !.value = x, !.buffer = <<>>])
        BY <1>0, <2>4 DEF Done, Tidy, AnyUis, Empty, Holding
    <2>5. CASE u.mode \in Form /\ u.field = 1
        <3>1. finish_paste(w) = [u EXCEPT !.pasting = FALSE, !.value = u.value \o Pasted(u.buffer), !.buffer = <<>>]
            BY <2>5 DEF finish_paste, insert_into_value, Done, Tidy, AnyUis
        <3> QED BY <2>1, <2>3, <2>4, <2>5, <3>1
    <2>6. CASE ~(u.mode \in Form /\ u.field = 1)
        <3>1. finish_paste(w) = [u EXCEPT !.pasting = FALSE, !.value = u.value, !.buffer = <<>>]
            BY <2>6 DEF finish_paste, Done, Tidy, AnyUis
        <3>2. u.value \in Seq(Marks)
            BY DEF Done, Tidy, AnyUis
        <3> QED BY <2>1, <2>4, <3>1, <3>2
    <2> QED BY <2>5, <2>6
<1>2. CASE k = "Escape"
    BY <1>0, <1>2 DEF PasteKey, Text, Chars, Done, Tidy, AnyUis, Empty, Holding
<1>3. CASE k \in Text
    <2>1. PasteKey(u, k) = [u EXCEPT !.buffer = Append(u.buffer, Mark(k))]
        BY <1>3 DEF PasteKey, Text, Chars, Done, Tidy, AnyUis
    <2>2. Append(u.buffer, Mark(k)) \in Seq(Marks)
        BY <1>3, MarkType DEF Done, Tidy, AnyUis
    <2> QED BY <2>1, <2>2 DEF Done, Tidy, AnyUis, Empty, Holding
<1>4. CASE k \notin Text \cup {"PasteEnd", "Escape"}
    BY <1>4 DEF PasteKey
<1> QED BY <1>1, <1>2, <1>3, <1>4

LEMMA HelpTidy ==
    ASSUME NEW u, Done(u), u.mode = "Help", NEW k \in Keys, NEW v \in HelpKey(u, k)
    PROVE  Done(v)
<1>1. Done([u EXCEPT !.mode = "Normal"])
    BY DEF Done, Tidy, AnyUis, Empty, Holding, Form, Modes
<1> QED BY <1>1 DEF HelpKey

LEMMA FilterTidy ==
    ASSUME NEW u, Done(u), u.mode = "Filter", NEW k \in Keys, NEW v \in FilterKey(u, k)
    PROVE  Done(v)
<1>1. Done([u EXCEPT !.mode = "Normal"]) /\ Done([u EXCEPT !.mode = "Normal", !.quiet = TRUE])
    BY DEF Done, Tidy, AnyUis, Empty, Holding, Form, Modes
<1>2. v \in {u, remask(u), [u EXCEPT !.mode = "Normal"], [u EXCEPT !.mode = "Normal", !.quiet = TRUE]}
    BY DEF FilterKey
<1> QED BY <1>1, <1>2, CloseTidy

\* All is empty in the list, so that what a key opens starts empty.
LEMMA NormalTidy ==
    ASSUME NEW u, Done(u), u.mode = "Normal", NEW k \in Keys, NEW v \in NormalKey(u, k)
    PROVE  v.mode = "Exit" \/ Done(v)
<1>1. \A m \in {"Help", "Filter", "ConfirmDelete"} : Done([u EXCEPT !.mode = m])
    BY DEF Done, Tidy, AnyUis, Empty, Holding, Form, Modes
<1>2. ASSUME v \in toggle_reveal(u) PROVE Done(v)
    <2>1. Done([u EXCEPT !.shown = "yes"])
        BY DEF Done, Tidy, AnyUis, Empty, Holding
    <2>2. v \in {u, remask(u), [u EXCEPT !.shown = "yes"]}
        BY <1>2 DEF toggle_reveal
    <2> QED BY <2>1, <2>2, CloseTidy
<1>3. [u EXCEPT !.mode = "Exit"].mode = "Exit"
    BY DEF Done, Tidy, AnyUis
<1>4. CASE k = "c"
    <2>1. \/ v \in {u, remask(u), start_add(u), [u EXCEPT !.mode = "Exit"]}
          \/ \E m \in {"Help", "Filter", "ConfirmDelete"} : v = [u EXCEPT !.mode = m]
          \/ v \in start_edit(u) \cup toggle_reveal(u)
        BY <1>4 DEF NormalKey
    <2> QED BY <1>1, <1>2, <1>3, <2>1, CloseTidy, OpenTidy
<1>5. CASE k # "c"
    <2>1. v \in {u, remask(u), [u EXCEPT !.mode = "Help"]} \cup toggle_reveal(u)
        BY <1>5 DEF NormalKey
    <2> QED BY <1>1, <1>2, <2>1, CloseTidy
<1> QED BY <1>4, <1>5

\* Enter and Tab are held in a form only, outside the quiet time.
LEMMA FormTidy ==
    ASSUME NEW u, Done(u), u.mode \in Form, ~u.quiet, NEW k \in Keys, NEW v \in FormKey(u, k)
    PROVE  Tidy(v)
<1>1. Tidy(hold(u, "Return")) /\ Tidy(hold(u, "Tab")) /\ Tidy([u EXCEPT !.field = 1])
    BY DEF hold, Done, Tidy, AnyUis, Empty, Holding
<1>2. CASE k \in {"Escape", "Return", "Tab"}
    <2>1. v \in {close_form(u), [u EXCEPT !.field = 1], hold(u, "Return"), hold(u, "Tab")}
        BY <1>2 DEF FormKey, Chars
    <2> QED BY <1>1, <2>1, CloseTidy DEF Done
<1>3. CASE k \in Chars
    <2>1. v \in {u, insert_into_value(u, <<Mark(k)>>)}
        BY <1>3 DEF FormKey, Chars
    <2>2. <<Mark(k)>> \in Seq(Marks)
        BY <1>3, MarkType DEF Text
    <2> QED BY <2>1, <2>2, InsertTidy DEF Done
<1>4. CASE k = "Special"
    <2>1. v \in Erased(u) \cup Focused(u)
        BY <1>4 DEF FormKey, Chars
    <2>2. CASE v \in Erased(u)
        <3>1. PICK n \in 0..Len(u.value) : v = [u EXCEPT !.value = SubSeq(u.value, 1, n)]
            BY <2>2 DEF Erased, Done, Tidy, AnyUis
        <3>2. SubSeq(u.value, 1, n) \in Seq(Marks)
            BY SubSeqProperties DEF Done, Tidy, AnyUis
        <3> QED BY <3>1, <3>2 DEF Done, Tidy, AnyUis, Empty, Holding
    <2>3. CASE v \in Focused(u)
        BY <2>3 DEF Focused, Done, Tidy, AnyUis, Empty, Holding
    <2> QED BY <2>1, <2>2, <2>3
<1>5. CASE k \in {"CtrlC", "PasteStart", "PasteEnd"}
    BY <1>5 DEF FormKey, Chars, Done
<1> QED BY <1>2, <1>3, <1>4, <1>5 DEF Keys, Text

LEMMA ConfirmTidy ==
    ASSUME NEW u, Done(u), u.mode \in {"ConfirmOverwrite", "ConfirmDelete", "Exit"},
           NEW k \in Keys, NEW v \in ConfirmKey(u, k)
    PROVE  Done(v)
<1>1. CASE u.mode = "ConfirmOverwrite"
    <2>1. Done([u EXCEPT !.mode = "Add"])
        BY <1>1 DEF Done, Tidy, AnyUis, Empty, Holding, Form, Modes
    <2>2. v \in {[u EXCEPT !.mode = "Add"], close_form(remask(u))}
        BY <1>1 DEF ConfirmKey
    <2> QED BY <2>1, <2>2, CloseTidy
<1>2. CASE u.mode \in {"ConfirmDelete", "Exit"}
    <2>1. Done([u EXCEPT !.mode = "Normal"])
        BY <1>2 DEF Done, Tidy, AnyUis, Empty, Holding, Form, Modes
    <2>2. v \in {remask([u EXCEPT !.mode = "Normal"]), [u EXCEPT !.mode = "Normal"]}
        BY <1>2 DEF ConfirmKey, do_delete
    <2> QED BY <2>1, <2>2, CloseTidy
<1> QED BY <1>1, <1>2

\* A key in the quiet time does nothing, and Ctrl-C always quits.
LEMMA QuietKey ==
    ASSUME NEW u, u.quiet, NEW k \in Keys, NEW v \in act(u, k)
    PROVE  v = u \/ (k = "CtrlC" /\ v = [u EXCEPT !.mode = "Exit"])
<1>1. CASE k = "CtrlC"
    BY <1>1 DEF act
<1>2. CASE k # "CtrlC"
    BY <1>2 DEF act
<1> QED BY <1>1, <1>2

LEMMA ActTidy ==
    ASSUME NEW u, Done(u), NEW k \in Keys, NEW v \in act(u, k)
    PROVE  v.mode = "Exit" \/ Tidy(v)
<1>1. CASE k = "CtrlC"
    <2>1. v = [u EXCEPT !.mode = "Exit"]
        BY <1>1 DEF act
    <2> QED BY <2>1 DEF Done, Tidy, AnyUis
<1>2. CASE k # "CtrlC" /\ u.quiet
    BY <1>2, QuietKey DEF Done
<1>3. CASE k = "PasteStart" /\ ~u.quiet
    <2>1. v = [u EXCEPT !.pasting = TRUE, !.buffer = <<>>]
        BY <1>3 DEF act
    <2>2. <<>> \in Seq(Marks)
        OBVIOUS
    <2> QED BY <2>1, <2>2 DEF Done, Tidy, AnyUis, Empty, Holding
<1>4. CASE k \notin {"CtrlC", "PasteStart"} /\ ~u.quiet
    <2>1. v \in IF u.pasting THEN {PasteKey(u, k)}
                ELSE CASE u.mode = "Help"   -> HelpKey(u, k)
                       [] u.mode = "Filter" -> FilterKey(u, k)
                       [] u.mode = "Normal" -> NormalKey(u, k)
                       [] u.mode \in Form   -> FormKey(u, k)
                       [] OTHER             -> ConfirmKey(u, k)
        BY <1>4 DEF act
    <2>2. CASE u.pasting
        BY <2>1, <2>2, PasteTidy DEF Done
    <2>3. CASE ~u.pasting /\ u.mode = "Help"
        BY <2>1, <2>3, HelpTidy DEF Done, Form
    <2>4. CASE ~u.pasting /\ u.mode = "Filter"
        BY <2>1, <2>4, FilterTidy DEF Done, Form
    <2>5. CASE ~u.pasting /\ u.mode = "Normal"
        BY <2>1, <2>5, NormalTidy DEF Done, Form
    <2>6. CASE ~u.pasting /\ u.mode \in Form
        BY <1>4, <2>1, <2>6, FormTidy DEF Done, Form
    <2>7. CASE ~u.pasting /\ u.mode \in {"ConfirmOverwrite", "ConfirmDelete", "Exit"}
        BY <2>1, <2>7, ConfirmTidy DEF Done, Form
    <2> QED BY <2>2, <2>3, <2>4, <2>5, <2>6, <2>7 DEF Done, Tidy, AnyUis, Modes, Form
<1> QED BY <1>1, <1>2, <1>3, <1>4

-----------------------------------------------------------------------------
(* The steps. *)

LEMMA ClearedTidy ==
    ASSUME NEW v, v.mode = "Exit" \/ Tidy(v)
    PROVE  Tidy(Cleared(v)) /\ (Cleared(v).mode = "Exit" => Cleared(v) = [Start EXCEPT !.mode = "Exit"])
<1>1. Tidy([Start EXCEPT !.mode = "Exit"])
    <2>1. <<>> \in Seq(Marks)
        OBVIOUS
    <2> QED BY <2>1 DEF Start, Tidy, AnyUis, Empty, Holding, Modes, Form
<1> QED BY <1>1 DEF Cleared

LEMMA TidyNext == Tidy(ui) /\ AtExit /\ [Next]_vars => Tidy(ui)' /\ AtExit'
<1> SUFFICES ASSUME Tidy(ui), AtExit, [Next]_vars PROVE Tidy(ui') /\ AtExit'
    BY DEF Tidy, Empty, Holding
<1>1. ASSUME NEW k \in Keys, HandleKey(k) PROVE Tidy(ui') /\ AtExit'
    <2>1. PICK u \in settle(expire(ui), k) : ui' \in {Cleared(v) : v \in act(u, k)}
        BY <1>1 DEF HandleKey
    <2>2. PICK v \in act(u, k) : ui' = Cleared(v)
        BY <2>1
    <2>3. Done(u)
        BY <2>1, RemaskTidy, SettleTidy
    <2>4. v.mode = "Exit" \/ Tidy(v)
        BY <2>2, <2>3, ActTidy
    <2> QED BY <2>2, <2>4, ClearedTidy DEF AtExit
<1>2. CASE HandleMouse
    <2>1. \A u \in {expire(ui), remask(ui)} : Tidy(u) /\ u.mode = ui.mode
        <3> SUFFICES ASSUME NEW u \in {expire(ui), remask(ui)} PROVE Tidy(u) /\ u.mode = ui.mode
            OBVIOUS
        <3>1. Tidy(u) /\ \E s \in {"no", "yes", "due"} : u = [ui EXCEPT !.shown = s]
            BY RemaskTidy
        <3>2. ui \in AnyUis
            BY DEF Tidy
        <3> QED BY <3>1, <3>2 DEF AnyUis
    <2>2. ASSUME NEW u, Tidy(u), NEW v \in Focused(u) PROVE Tidy(v) /\ v.mode = u.mode
        <3>1. \A f \in {0, 1} : Tidy([u EXCEPT !.field = f]) /\ [u EXCEPT !.field = f].mode = u.mode
            BY <2>2 DEF Tidy, AnyUis, Empty, Holding
        <3> QED BY <2>2, <3>1 DEF Focused
    <2>3. Tidy(ui') /\ ui'.mode = ui.mode
        <3>1. ui' \in Focused(expire(ui)) \cup {expire(ui), remask(ui)}
            BY <1>2 DEF HandleMouse
        <3> QED BY <2>1, <2>2, <3>1
    <2> QED BY <1>2, <2>3 DEF HandleMouse, AtExit, Form
<1>3. CASE HandleTick
    <2>1. PICK u : Tidy(u) /\ u.mode # "Exit" /\ ui' = expire(u)
        BY <1>3, ReleaseTidy DEF HandleTick, Done
    <2>2. Tidy(ui') /\ \E s \in {"no", "yes", "due"} : ui' = [u EXCEPT !.shown = s]
        BY <2>1, RemaskTidy
    <2>3. ui'.mode = u.mode
        BY <2>1, <2>2 DEF Tidy, AnyUis
    <2> QED BY <2>1, <2>2, <2>3 DEF AtExit
<1>4. CASE Silence
    BY <1>4 DEF Silence, Tidy, AnyUis, Empty, Holding, AtExit
<1>5. CASE Minute
    <2>1. ui.mode # "Exit"
        BY <1>5 DEF Minute, AtExit, Start
    <2> QED BY <1>5, <2>1 DEF Minute, Tidy, AnyUis, Empty, Holding, AtExit
<1>6. CASE UNCHANGED ui
    BY <1>6 DEF AtExit
<1> QED BY <1>1, <1>2, <1>3, <1>4, <1>5, <1>6 DEF Next, TickerWakes, TickerPosts, Left, vars

\* In a run of text keys each key ends up in the value or is held.
LEMMA RunKey ==
    ASSUME NEW u, Tidy(u), u.mode \in Form, u.field = 1, ~u.quiet, ~u.pasting,
           u.held # "none" => ~u.late,
           NEW k \in Text, NEW w \in settle(u, k), NEW v \in act(w, k)
    PROVE  /\ v.mode = u.mode /\ v.field = 1 /\ ~v.quiet /\ ~v.pasting
           /\ v.held # "none" => ~v.late
           /\ v.value \o HeldMarks(v) = (u.value \o HeldMarks(u)) \o <<Mark(k)>>
<1>1. /\ w.mode = u.mode /\ w.field = 1 /\ ~w.quiet /\ ~w.pasting /\ w.held = "none"
      /\ w.value = u.value \o HeldMarks(u) /\ w \in AnyUis
    <2>1. CASE u.held = "none"
        <3>1. w = u
            BY <2>1 DEF settle
        <3>2. u.value \o <<>> = u.value
            BY ConcatEmptySeq DEF Tidy, AnyUis
        <3> QED BY <2>1, <3>1, <3>2 DEF HeldMarks, Tidy
    <2>2. CASE u.held # "none"
        <3>1. w = insert_into_value([u EXCEPT !.held = "none"], <<Mark(u.held)>>)
            BY <2>2 DEF settle
        <3>2. u.value \o <<Mark(u.held)>> \in Seq(Marks)
            BY <2>2, MarkType, ConcatProperties DEF Tidy, AnyUis, Text
        <3> QED BY <2>2, <3>1, <3>2 DEF HeldMarks, insert_into_value, Tidy, AnyUis
    <2> QED BY <2>1, <2>2
<1>2. v \in FormKey(w, k)
    <2>1. k \notin {"CtrlC", "PasteStart"}
        BY DEF Text, Chars
    <2>2. v \in CASE w.mode = "Help"   -> HelpKey(w, k)
                  [] w.mode = "Filter" -> FilterKey(w, k)
                  [] w.mode = "Normal" -> NormalKey(w, k)
                  [] w.mode \in Form   -> FormKey(w, k)
                  [] OTHER             -> ConfirmKey(w, k)
        BY <1>1, <2>1 DEF act
    <2> QED BY <1>1, <2>2 DEF Form
<1>3. CASE k \in {"Return", "Tab"}
    <2>1. v = hold(w, k)
        BY <1>1, <1>2, <1>3 DEF FormKey, Chars
    <2> QED BY <1>1, <1>3, <2>1 DEF hold, HeldMarks, AnyUis
<1>4. CASE k \in Chars
    <2>1. v = insert_into_value(w, <<Mark(k)>>)
        BY <1>1, <1>2, <1>4 DEF FormKey, Chars
    <2>2. /\ v.value = w.value \o <<Mark(k)>> /\ v.held = "none" /\ v.mode = w.mode
          /\ v.field = 1 /\ ~v.quiet /\ ~v.pasting
        BY <1>1, <2>1 DEF insert_into_value, AnyUis
    <2>3. <<Mark(k)>> \in Seq(Marks) /\ w.value \in Seq(Marks)
        <3>1. Mark(k) \in Marks
            BY MarkType
        <3>2. w \in AnyUis
            BY <1>1
        <3> QED BY <3>1, <3>2 DEF AnyUis
    <2>4. v.value \o <<>> = v.value
        BY <2>2, <2>3, ConcatProperties, ConcatEmptySeq
    <2> QED BY <1>1, <2>2, <2>4 DEF HeldMarks
<1> QED BY <1>3, <1>4 DEF Text

LEMMA RunningNext == Tidy(ui) /\ Running /\ [Next]_vars => Running'
<1> SUFFICES ASSUME Tidy(ui), Running, [Next]_vars PROVE Running'
    OBVIOUS
<1>0. NoRun \in Runs
    <2>1. <<>> \in Seq(Marks)
        OBVIOUS
    <2> QED BY <2>1 DEF NoRun, Runs, Modes
<1>1. ASSUME typed' = NoRun PROVE Running'
    BY <1>0, <1>1 DEF Running
<1>2. ASSUME NEW k \in Keys, HandleKey(k), typed' # NoRun PROVE Running'
    <2> DEFINE run == IF typed # NoRun THEN typed
                      ELSE [mode |-> ui.mode, field |-> ui.field, value |-> ui.value, keys |-> <<>>]
    <2>1. k \in Text /\ typed' = Noted(k)
        BY <1>2 DEF HandleKey, Noted
    <2>2. Mark(k) \in Marks /\ <<Mark(k)>> \in Seq(Marks) /\ <<>> \in Seq(Marks)
        BY <2>1, MarkType
    <2>3. ui.value \in Seq(Marks) /\ ui.field \in {0, 1} /\ ui.mode \in Modes
        BY DEF Tidy, AnyUis
    <2>4. /\ run \in Runs /\ run.mode = ui.mode
          /\ ui.mode \in Form /\ ui.field = 1 /\ ~ui.quiet /\ ~ui.pasting /\ (ui.held # "none" => ~ui.late)
          /\ ui.value \o HeldMarks(ui) = run.value \o run.keys
        <3>1. CASE typed # NoRun
            BY <3>1 DEF Running
        <3>2. CASE typed = NoRun
            <4>1. ui.held = "none" /\ ~ui.quiet /\ ~ui.pasting /\ ui.mode \in Form /\ ui.field = 1
                BY <1>2, <2>1, <3>2 DEF Noted
            <4>2. run \in Runs /\ run.mode = ui.mode /\ run.value = ui.value /\ run.keys = <<>>
                BY <2>2, <2>3, <3>2 DEF Runs
            <4> QED BY <4>1, <4>2 DEF HeldMarks
        <3> QED BY <3>1, <3>2
    <2>5. /\ typed' \in Runs /\ typed'.mode = run.mode /\ typed'.value = run.value
          /\ typed'.keys = run.keys \o <<Mark(k)>>
        <3>1. CASE typed # NoRun
            <4>1. typed' = [typed EXCEPT !.keys = Append(typed.keys, Mark(k))] /\ run = typed
                BY <2>1, <3>1 DEF Noted
            <4>2. typed \in Runs /\ typed.keys \in Seq(Marks)
                BY DEF Running, Runs
            <4>3. /\ Append(typed.keys, Mark(k)) = typed.keys \o <<Mark(k)>>
                  /\ Append(typed.keys, Mark(k)) \in Seq(Marks)
                BY <2>2, <4>2, AppendIsConcat
            <4> HIDE DEF run
            <4> QED BY <4>1, <4>2, <4>3 DEF Runs
        <3>2. CASE typed = NoRun
            <4>1. /\ run = [mode |-> ui.mode, field |-> ui.field, value |-> ui.value, keys |-> <<>>]
                  /\ typed' = [mode |-> ui.mode, field |-> ui.field, value |-> ui.value, keys |-> <<Mark(k)>>]
                BY <1>2, <2>1, <3>2 DEF Noted
            <4>2. <<>> \o <<Mark(k)>> = <<Mark(k)>>
                BY <2>2, ConcatEmptySeq
            <4> HIDE DEF run
            <4> QED BY <2>2, <2>3, <4>1, <4>2 DEF Runs
        <3> QED BY <3>1, <3>2
    <2> HIDE DEF run
    <2>6. PICK w \in settle(expire(ui), k) : \E v \in act(w, k) : ui' = Cleared(v)
        BY <1>2 DEF HandleKey
    <2>7. PICK v \in act(w, k) : ui' = Cleared(v)
        BY <2>6
    <2>8. /\ v.mode = ui.mode /\ v.field = 1 /\ ~v.quiet /\ ~v.pasting
          /\ v.held # "none" => ~v.late
          /\ v.value \o HeldMarks(v) = (ui.value \o HeldMarks(ui)) \o <<Mark(k)>>
        <3> DEFINE u == expire(ui)
        <3>1. Tidy(u) /\ \E s \in {"no", "yes", "due"} : u = [ui EXCEPT !.shown = s]
            BY RemaskTidy
        <3>2. /\ u.mode = ui.mode /\ u.field = ui.field /\ u.value = ui.value /\ u.held = ui.held
              /\ u.late = ui.late /\ u.quiet = ui.quiet /\ u.pasting = ui.pasting
            BY <3>1 DEF Tidy, AnyUis
        <3>3. HeldMarks(u) = HeldMarks(ui)
            BY <3>2 DEF HeldMarks
        <3>4. w \in settle(u, k)
            OBVIOUS
        <3> HIDE DEF u
        <3>5. u.mode \in Form /\ u.field = 1 /\ ~u.quiet /\ ~u.pasting /\ (u.held # "none" => ~u.late)
            BY <2>4, <3>2
        <3>6. /\ v.mode = u.mode /\ v.field = 1 /\ ~v.quiet /\ ~v.pasting
              /\ v.held # "none" => ~v.late
              /\ v.value \o HeldMarks(v) = (u.value \o HeldMarks(u)) \o <<Mark(k)>>
            BY <2>1, <3>1, <3>4, <3>5, RunKey
        <3> QED BY <3>2, <3>3, <3>6
    <2>9. ui' = v
        BY <2>4, <2>7, <2>8 DEF Cleared, Form
    <2>10. ui'.value \o HeldMarks(ui)' = typed'.value \o typed'.keys
        <3>1. run.value \in Seq(Marks) /\ run.keys \in Seq(Marks)
            BY <2>4 DEF Runs
        <3>2. (run.value \o run.keys) \o <<Mark(k)>> = run.value \o (run.keys \o <<Mark(k)>>)
            <4>1. \A x, y, z \in Seq(Marks) : (x \o y) \o z = x \o (y \o z)
                BY ConcatAssociative
            <4> QED BY <2>2, <3>1, <4>1
        <3>3. HeldMarks(ui)' = HeldMarks(v)
            BY <2>9 DEF HeldMarks
        <3> QED BY <2>4, <2>5, <2>8, <2>9, <3>2, <3>3
    <2> QED BY <2>4, <2>5, <2>8, <2>9, <2>10 DEF Running
<1>3. CASE HandleTick
    <2>1. typed' = typed
        BY <1>3 DEF HandleTick
    <2>2. CASE typed # NoRun
        <3>1. ui' = expire(ui)
            BY <1>3, <2>2 DEF HandleTick, Running
        <3>2. \E s \in {"no", "yes", "due"} : ui' = [ui EXCEPT !.shown = s]
            BY <3>1, RemaskTidy
        <3>3. /\ ui'.mode = ui.mode /\ ui'.field = ui.field /\ ui'.value = ui.value
              /\ ui'.held = ui.held /\ ui'.late = ui.late /\ ui'.quiet = ui.quiet
              /\ ui'.pasting = ui.pasting
            BY <3>2 DEF Tidy, AnyUis
        <3>4. HeldMarks(ui)' = HeldMarks(ui)
            BY <3>3 DEF HeldMarks
        <3> QED BY <2>1, <3>3, <3>4 DEF Running
    <2> QED BY <1>1, <2>1, <2>2
<1>4. CASE UNCHANGED <<ui, typed>>
    <2>1. HeldMarks(ui)' = HeldMarks(ui)
        BY <1>4 DEF HeldMarks
    <2> QED BY <1>4, <2>1 DEF Running
<1> QED BY <1>1, <1>2, <1>3, <1>4
        DEF Next, HandleMouse, TickerWakes, TickerPosts, Silence, Minute, Left, vars

\* A key in the quiet time changes nothing but what the clock shows.
LEMMA QuietStep ==
    ASSUME Tidy(ui), ui.quiet, NEW k \in Keys, HandleKey(k)
    PROVE  ui'.mode = "Exit" \/ (ui'.quiet /\ ui'.mode = ui.mode /\ ui'.value = ui.value)
<1>0. PICK w \in settle(expire(ui), k) : \E v \in act(w, k) : ui' = Cleared(v)
    BY DEF HandleKey
<1>1. PICK v \in act(w, k) : ui' = Cleared(v)
    BY <1>0
<1>2. \E s \in {"no", "yes", "due"} : expire(ui) = [ui EXCEPT !.shown = s]
    BY RemaskTidy
<1>3. /\ expire(ui).held = "none" /\ expire(ui).quiet
      /\ expire(ui).mode = ui.mode /\ expire(ui).value = ui.value
    BY <1>2 DEF Tidy, AnyUis, Holding
<1>4. w = expire(ui)
    BY <1>0, <1>3 DEF settle
<1>5. v = w \/ v = [w EXCEPT !.mode = "Exit"]
    BY <1>1, <1>3, <1>4, QuietKey
<1>6. w \in AnyUis
    BY <1>4, RemaskTidy DEF Tidy
<1>7. CASE v = w
    BY <1>1, <1>3, <1>4, <1>7 DEF Cleared, Start
<1>8. CASE v = [w EXCEPT !.mode = "Exit"]
    <2>1. v.mode = "Exit"
        BY <1>6, <1>8 DEF AnyUis
    <2> QED BY <1>1, <2>1 DEF Cleared, Start
<1> QED BY <1>5, <1>7, <1>8

LEMMA QuietedNext == Tidy(ui) /\ Quieted /\ [Next]_vars => Quieted'
<1> SUFFICES ASSUME Tidy(ui), Quieted, [Next]_vars PROVE Quieted'
    OBVIOUS
<1>1. ASSUME NEW k \in Keys, HandleKey(k) PROVE Quieted'
    <2>1. settled' = (settled /\ ~Ends(k)) /\ ui.mode # "Exit"
        BY <1>1 DEF HandleKey
    <2>2. CASE ~settled
        <3>1. ui.quiet
            BY <2>1, <2>2 DEF Quieted
        <3> QED BY <1>1, <2>1, <3>1, QuietStep DEF Quieted
    <2>3. CASE Ends(k)
        <3>1. PICK w \in settle(expire(ui), k) : \E v \in act(w, k) : ui' = Cleared(v)
            BY <1>1 DEF HandleKey
        <3>2. PICK v \in act(w, k) : ui' = Cleared(v)
            BY <3>1
        <3> DEFINE u == expire(ui)
        <3>3. Tidy(u) /\ \E s \in {"no", "yes", "due"} : u = [ui EXCEPT !.shown = s]
            BY RemaskTidy
        <3>4. /\ u.mode = ui.mode /\ u.held = ui.held /\ u.late = ui.late
              /\ u.quiet = ui.quiet /\ u.pasting = ui.pasting
            BY <3>3 DEF Tidy, AnyUis
        <3>5. w \in settle(u, k)
            OBVIOUS
        <3> HIDE DEF u
        <3>6. CASE ui.held = "Return" /\ (ui.late \/ k \notin Text)
            <4>1. w \in release_held_key(u)
                BY <3>4, <3>5, <3>6 DEF settle
            <4>2. w.quiet /\ Done(w)
                BY <3>3, <3>4, <3>6, <4>1, ReleaseTidy
            <4>3. v = w \/ v = [w EXCEPT !.mode = "Exit"]
                BY <4>2, <3>2, QuietKey
            <4>4. v.quiet \/ v.mode = "Exit"
                BY <4>2, <4>3 DEF Done, Tidy, AnyUis
            <4>5. ui'.quiet \/ ui'.mode = "Exit"
                BY <3>2, <4>4 DEF Cleared, Start
            <4> QED BY <2>1, <2>3, <4>5 DEF Quieted
        <3>7. CASE ui.mode = "Filter" /\ k = "Return" /\ ~ui.quiet /\ ~ui.pasting
            <4>1. u.held = "none"
                BY <3>3, <3>4, <3>7 DEF Tidy, Holding, Form
            <4>2. w = u
                BY <3>5, <4>1 DEF settle
            <4>3. v \in FilterKey(u, k)
                BY <3>2, <3>4, <3>7, <4>2 DEF act, Form
            <4>4. v = [u EXCEPT !.mode = "Normal", !.quiet = TRUE]
                BY <3>7, <4>3 DEF FilterKey
            <4>5. v.quiet /\ v.mode = "Normal"
                BY <3>3, <4>4 DEF Tidy, AnyUis
            <4>6. ui'.quiet
                BY <3>2, <4>5 DEF Cleared
            <4> QED BY <2>1, <2>3, <4>6 DEF Quieted
        <3> QED BY <2>3, <3>6, <3>7 DEF Ends
    <2>4. CASE settled /\ ~Ends(k)
        BY <2>1, <2>4 DEF Quieted
    <2> QED BY <2>2, <2>3, <2>4 DEF Quieted
<1>2. CASE HandleMouse
    <2>1. settled' = settled /\ ui.mode # "Exit"
        BY <1>2 DEF HandleMouse, Form
    <2>2. ui'.quiet = ui.quiet
        <3>1. \A u \in {expire(ui), remask(ui)} : u \in AnyUis /\ u.quiet = ui.quiet
            <4> SUFFICES ASSUME NEW u \in {expire(ui), remask(ui)}
                         PROVE  u \in AnyUis /\ u.quiet = ui.quiet
                OBVIOUS
            <4>1. Tidy(u) /\ \E s \in {"no", "yes", "due"} : u = [ui EXCEPT !.shown = s]
                BY RemaskTidy
            <4> QED BY <4>1 DEF Tidy, AnyUis
        <3>2. ASSUME NEW u \in AnyUis, NEW v \in Focused(u) PROVE v.quiet = u.quiet
            BY <3>2 DEF Focused, AnyUis
        <3>3. ui' \in Focused(expire(ui)) \cup {expire(ui), remask(ui)}
            BY <1>2 DEF HandleMouse
        <3> QED BY <3>1, <3>2, <3>3
    <2> QED BY <2>1, <2>2 DEF Quieted
<1>3. CASE HandleTick
    <2>1. /\ settled' = (settled /\ ~(ui.held = "Return" /\ ui.late))
          /\ ui.mode # "Exit"
        BY <1>3 DEF HandleTick
    <2>2. PICK u \in IF ui.held # "none" /\ ui.late THEN release_held_key(ui) ELSE {ui} : ui' = expire(u)
        BY <1>3 DEF HandleTick
    <2>3. Tidy(u) /\ (ui.held = "Return" /\ ui.late => u.quiet) /\ (ui.quiet => u.quiet)
        <3>1. CASE ui.held # "none" /\ ui.late
            BY <2>2, <3>1, ReleaseTidy DEF Done, Tidy, Holding
        <3>2. CASE ~(ui.held # "none" /\ ui.late)
            BY <2>2, <3>2
        <3> QED BY <3>1, <3>2
    <2>4. ui'.quiet = u.quiet
        <3>1. u \in AnyUis /\ \E s \in {"no", "yes", "due"} : ui' = [u EXCEPT !.shown = s]
            BY <2>2, <2>3, RemaskTidy DEF Tidy
        <3> QED BY <3>1 DEF AnyUis
    <2> QED BY <2>1, <2>3, <2>4 DEF Quieted
<1>4. CASE Silence \/ Minute
    BY <1>4 DEF Silence, Minute, Quieted
<1>5. CASE UNCHANGED <<ui, settled>>
    BY <1>5 DEF Quieted
<1> QED BY <1>1, <1>2, <1>3, <1>4, <1>5 DEF Next, TickerWakes, TickerPosts, Left, vars

-----------------------------------------------------------------------------
\* Where text may be, and how old a held key is, in every state of run_ui.
THEOREM Inductive == Spec => []Inv
<1>1. Init => Inv
    <2>1. <<>> \in Seq(Marks)
        OBVIOUS
    <2>2. Init => Tidy(ui) /\ AtExit /\ Quieted
        BY <2>1 DEF Init, Start, Tidy, AnyUis, Empty, Holding, AtExit, Quieted, Modes, Form
    <2>3. Init => Running
        BY <2>1 DEF Init, NoRun, Running, Runs, Modes
    <2> QED BY <2>2, <2>3 DEF Inv
<1>2. Inv /\ [Next]_vars => Inv'
    BY TidyNext, RunningNext, QuietedNext DEF Inv
<1> QED BY <1>1, <1>2, PTL DEF Spec

\* A paste that comes as single keys ends up in the value it was pasted into,
\* newlines and tabs included, however long it is.
THEOREM PasteStays == Spec => []PasteStaysPut
<1>1. Inv => PasteStaysPut
    <2>1. HeldMarks(ui) = IF ui.held = "none" THEN <<>> ELSE <<Mark(ui.held)>>
        BY DEF HeldMarks
    <2> QED BY <2>1 DEF Inv, Running, PasteStaysPut
<1> QED BY <1>1, Inductive, PTL

\* Secrets are wiped on every way out of a form and of a paste.
THEOREM AllIsWiped == Spec => []NothingLeftBehind
<1>1. Inv => NothingLeftBehind
    BY DEF Inv, Tidy, Empty, AtExit, Start, NothingLeftBehind, Form
<1> QED BY <1>1, Inductive, PTL

\* What follows a submit, or the Enter that ends the filter, without a pause
\* runs no command and opens, closes or changes no form.
THEOREM RestDropped == Spec => RestIsDropped
<1>1. Inv /\ [Next]_vars => [~settled /\ ~settled' /\ ui'.mode # "Exit" =>
                                ui'.mode = ui.mode /\ ui'.value = ui.value]_vars
    <2> SUFFICES ASSUME Inv, [Next]_vars, ~settled, ~settled', ui'.mode # "Exit"
                 PROVE  ui'.mode = ui.mode /\ ui'.value = ui.value
        OBVIOUS
    <2>1. Tidy(ui) /\ (ui.quiet \/ ui.mode = "Exit")
        BY DEF Inv, Quieted
    <2>2. ASSUME NEW k \in Keys, HandleKey(k) PROVE ui'.mode = ui.mode /\ ui'.value = ui.value
        BY <2>1, <2>2, QuietStep DEF HandleKey
    <2>3. CASE HandleMouse
        <3>1. \A u \in {expire(ui), remask(ui)} :
                 u \in AnyUis /\ u.mode = ui.mode /\ u.value = ui.value
            <4> SUFFICES ASSUME NEW u \in {expire(ui), remask(ui)}
                         PROVE  u \in AnyUis /\ u.mode = ui.mode /\ u.value = ui.value
                OBVIOUS
            <4>1. Tidy(u) /\ \E s \in {"no", "yes", "due"} : u = [ui EXCEPT !.shown = s]
                BY <2>1, RemaskTidy
            <4> QED BY <2>1, <4>1 DEF Tidy, AnyUis
        <3>2. ASSUME NEW u \in AnyUis, NEW v \in Focused(u) PROVE v.mode = u.mode /\ v.value = u.value
            BY <3>2 DEF Focused, AnyUis
        <3>3. ui' \in Focused(expire(ui)) \cup {expire(ui), remask(ui)}
            BY <2>3 DEF HandleMouse
        <3> QED BY <3>1, <3>2, <3>3
    <2>4. CASE HandleTick
        <3>1. ui.held = "none" /\ ui' = expire(ui)
            BY <2>1, <2>4 DEF HandleTick, Tidy, Holding
        <3>2. \E s \in {"no", "yes", "due"} : ui' = [ui EXCEPT !.shown = s]
            BY <2>1, <3>1, RemaskTidy
        <3> QED BY <2>1, <3>2 DEF Tidy, AnyUis
    <2>5. CASE Silence \/ Minute
        BY <2>5 DEF Silence, Minute
    <2>6. CASE UNCHANGED ui
        BY <2>6
    <2> QED BY <2>2, <2>3, <2>4, <2>5, <2>6 DEF Next, TickerWakes, TickerPosts, Left, vars
<1> QED BY <1>1, Inductive, PTL DEF Spec, RestIsDropped
=============================================================================
