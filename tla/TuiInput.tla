------------------------------ MODULE TuiInput ------------------------------
(***************************************************************************)
(* The event handler of tui.cpp (run_ui) as far as it decides what a key   *)
(* does: the modes, the Enter or Tab that is held back because it may be   *)
(* part of a paste, the quiet time after a submit, bracketed paste, the    *)
(* ticker thread and the timed re-masking.  What the keys do to the tree   *)
(* and to the store is in module Tui; here a daemon call just has one of   *)
(* its outcomes.                                                           *)
(*                                                                         *)
(* Time is two events: Silence, after which kPasteBurst and                *)
(* kAfterSubmitQuiet have passed, and Minute, after which kRevealFor has.  *)
(* Keys without a Silence between them arrive within kPasteBurst, as the   *)
(* keys of an unbracketed paste do.                                        *)
(***************************************************************************)
EXTENDS Naturals, Sequences, SequencesExt

CONSTANT MaxText      \* length up to which a form value or a paste grows

ASSUME MaxTextAssumption == MaxText \in Nat \ {0}

VARIABLES
    ui,         \* the state of run_ui, see Uis
    requested,  \* quick_tick_requested
    ticker,     \* "second" or "burst": which wait the ticker thread is in
    posted,     \* an Event::Custom is in the event queue
    typed,      \* history: the run of text keys in a form since the last Silence
    settled     \* history: no Silence is due after a submit or a filter's Enter

vars == <<ui, requested, ticker, posted, typed, settled>>

Modes == {"Normal", "Help", "Filter", "Add", "Edit",
          "ConfirmOverwrite", "ConfirmDelete", "Exit"}
Form == {"Add", "Edit"}
Chars == {"y", "c"}                        \* what Event::is_character covers
Text == Chars \cup {"Return", "Tab"}       \* what an unbracketed paste sends
Keys == Text \cup {"Escape", "CtrlC", "Special", "PasteStart", "PasteEnd"}
Marks == {"char", "newline", "tab"}        \* what a form value is made of
Mark(k) == [Return |-> "newline", Tab |-> "tab", y |-> "char", c |-> "char"][k]

Texts == UNION {[1..n -> Marks] : n \in 0..MaxText}

\* field: 0 is the name, 1 the value; late: the held key is older than
\* kPasteBurst; quiet: now is before ignore_keys_until; shown: whether a
\* value is revealed, and for longer than kRevealFor.
Uis == [mode : Modes, field : {0, 1}, value : Texts,
        held : {"none", "Return", "Tab"}, late : BOOLEAN, quiet : BOOLEAN,
        pasting : BOOLEAN, buffer : Texts, shown : {"no", "yes", "due"}]

TypeOK ==
    /\ ui \in Uis
    /\ requested \in BOOLEAN /\ posted \in BOOLEAN /\ settled \in BOOLEAN
    /\ ticker \in {"second", "burst"}
    /\ ui.held # "none" => ui.mode \in Form

Start == [mode |-> "Normal", field |-> 0, value |-> <<>>, held |-> "none",
          late |-> FALSE, quiet |-> FALSE, pasting |-> FALSE,
          buffer |-> <<>>, shown |-> "no"]

\* No run of text keys in the value of a form.
NoRun == [mode |-> "Normal", field |-> 0, value |-> <<>>, keys |-> <<>>]

Init ==
    /\ ui = Start
    /\ requested = FALSE /\ ticker = "second" /\ posted = FALSE
    /\ typed = NoRun
    /\ settled = TRUE

-----------------------------------------------------------------------------
(* What the lambdas of run_ui do to the state: each gives the set of       *)
(* states it may lead to.                                                  *)

remask(u) == [u EXCEPT !.shown = "no"]

expire(u) == IF u.shown = "due" THEN remask(u) ELSE u

\* Mutant of close_form: the value stays in its buffer.
CloseFormUnwiped(u) == [u EXCEPT !.mode = "Normal", !.field = 0]

close_form(u) == [u EXCEPT !.value = <<>>, !.mode = "Normal", !.field = 0]

start_add(u) == [close_form(remask(u)) EXCEPT !.mode = "Add"]

\* Edit opens on the value with the name closed; the value may not be fetched.
start_edit(u) ==
    {close_form(remask(u))} \cup
    {[close_form(remask(u)) EXCEPT !.mode = "Edit", !.field = 1, !.value = v] :
        v \in {<<"char">>}}

\* The set fails and the form stays open, or the form is closed.
save_form(u) == {u, close_form(remask(u))}

submit_form(u) ==
    IF u.value = <<>> THEN {u}
    ELSE IF u.mode = "Edit" THEN save_form(u)
    ELSE {remask(u), [remask(u) EXCEPT !.mode = "ConfirmOverwrite"]}
            \cup save_form(remask(u))

do_delete(u) == {remask([u EXCEPT !.mode = "Normal"]), [u EXCEPT !.mode = "Normal"]}

insert_into_value(u, marks) == [u EXCEPT !.value = @ \o marks]

\* One trailing newline of a paste is dropped.
Pasted(buffer) ==
    IF buffer # <<>> /\ Last(buffer) = "newline" THEN Front(buffer) ELSE buffer

finish_paste(u) ==
    IF u.mode \in Form /\ u.field = 1
    THEN [insert_into_value(u, Pasted(u.buffer)) EXCEPT !.buffer = <<>>]
    ELSE [u EXCEPT !.buffer = <<>>]

release_held_key(u) ==
    LET free == [u EXCEPT !.held = "none", !.late = FALSE] IN
    IF u.held = "Tab"
    THEN {IF u.mode = "Add" THEN [free EXCEPT !.field = 0] ELSE free}
    ELSE {[v EXCEPT !.quiet = TRUE] :
             v \in IF u.mode \in Form THEN submit_form(free) ELSE {free}}

\* Mutant of settle: only a character shows that it was a paste.
SettleCharsOnly(u, k) ==
    CASE u.held = "none" -> {u}
      [] u.held # "none" /\ ~u.late /\ k \in Chars ->
            {insert_into_value([u EXCEPT !.held = "none"], <<Mark(u.held)>>)}
      [] OTHER -> release_held_key(u)

\* The first thing a key does is to settle the one held before it.
settle(u, k) ==
    CASE u.held = "none" -> {u}
      [] u.held # "none" /\ ~u.late /\ k \in Text ->
            {insert_into_value([u EXCEPT !.held = "none"], <<Mark(u.held)>>)}
      [] OTHER -> release_held_key(u)

-----------------------------------------------------------------------------
(* The handler, mode by mode.                                              *)

PasteKey(u, k) ==
    CASE k = "PasteEnd" -> finish_paste([u EXCEPT !.pasting = FALSE])
      [] k = "Escape"   -> [u EXCEPT !.pasting = FALSE, !.buffer = <<>>]
      [] k \in Text     -> [u EXCEPT !.buffer = Append(@, Mark(k))]
      [] OTHER          -> u

HelpKey(u, k) ==
    IF k \in {"c", "Special"} THEN {u, [u EXCEPT !.mode = "Normal"]}   \* j and k scroll
    ELSE {[u EXCEPT !.mode = "Normal"]}

\* Mutant of FilterKey: the Enter that keeps the filter starts no quiet time.
FilterNotQuiet(u, k) ==
    IF k \in {"Return", "Escape"} THEN {[u EXCEPT !.mode = "Normal"]} ELSE {u}

\* Other keys change the filter or the row, which may re-mask.
FilterKey(u, k) ==
    CASE k = "Return" -> {[u EXCEPT !.mode = "Normal", !.quiet = TRUE]}
      [] k = "Escape" -> {[u EXCEPT !.mode = "Normal"]}
      [] OTHER        -> {u, remask(u)}

\* reveal fails, or the value is shown; the same key hides it.
toggle_reveal(u) ==
    IF u.shown # "no" THEN {remask(u)} ELSE {u, [u EXCEPT !.shown = "yes"]}

\* A letter may be any of the commands, or none; moving re-masks, and a Tab
\* reaches the menu, which may move as well.
NormalKey(u, k) ==
    CASE k = "c" -> {u, remask(u), start_add(u), [u EXCEPT !.mode = "Help"],
                     [u EXCEPT !.mode = "Filter"],
                     [u EXCEPT !.mode = "ConfirmDelete"],
                     [u EXCEPT !.mode = "Exit"]}
                        \cup start_edit(u) \cup toggle_reveal(u)
      [] k = "Return"  -> {u} \cup toggle_reveal(u)
      [] k = "Special" -> {u, remask(u), [u EXCEPT !.mode = "Help"]}
      [] k = "Tab"     -> {u, remask(u)}
      [] OTHER         -> {u}

hold(u, k) == [u EXCEPT !.held = k, !.late = FALSE]

\* Backspace, Ctrl-U and Ctrl-W; the cursor is at the end of the value.
Erased(u) ==
    {[u EXCEPT !.value = SubSeq(@, 1, n)] :
        n \in IF u.field = 1 THEN 0..Len(u.value) ELSE {Len(u.value)}}

\* Arrows and clicks move between the inputs of an add form.
Focused(u) == IF u.mode = "Add" THEN {[u EXCEPT !.field = f] : f \in {0, 1}} ELSE {u}

FormKey(u, k) ==
    CASE k = "Escape" -> {close_form(u)}
      [] k = "Return" -> {IF u.mode = "Add" /\ u.field = 0
                          THEN [u EXCEPT !.field = 1] ELSE hold(u, k)}
      [] k = "Tab"    -> {IF u.field = 1 THEN hold(u, k) ELSE [u EXCEPT !.field = 1]}
      [] k \in Chars /\ u.field = 1 -> {insert_into_value(u, <<Mark(k)>>)}
      [] k = "Special" -> Erased(u) \cup Focused(u)
      [] OTHER -> {u}

ConfirmKey(u, k) ==
    IF u.mode = "ConfirmOverwrite"
    THEN {[u EXCEPT !.mode = "Add"]} \cup (IF k = "y" THEN {close_form(remask(u))} ELSE {})
    ELSE IF k = "y" THEN do_delete(u) ELSE {[u EXCEPT !.mode = "Normal"]}

act(u, k) ==
    CASE k = "CtrlC"      -> {[u EXCEPT !.mode = "Exit"]}
      [] k # "CtrlC" /\ u.quiet -> {u}                 \* ignored, and quiet again
      [] k = "PasteStart" /\ ~u.quiet -> {[u EXCEPT !.pasting = TRUE, !.buffer = <<>>]}
      [] k \notin {"CtrlC", "PasteStart"} /\ ~u.quiet ->
            IF u.pasting THEN {PasteKey(u, k)}
            ELSE CASE u.mode = "Help"   -> HelpKey(u, k)
                   [] u.mode = "Filter" -> FilterKey(u, k)
                   [] u.mode = "Normal" -> NormalKey(u, k)
                   [] u.mode \in Form   -> FormKey(u, k)
                   [] OTHER             -> ConfirmKey(u, k)

\* The loop has ended: what run_ui clears on its way out.
Cleared(u) == IF u.mode = "Exit" THEN [Start EXCEPT !.mode = "Exit"] ELSE u

-----------------------------------------------------------------------------

\* A run of text keys goes on, or begins if no key is held.
Noted(k) ==
    CASE k \notin Text -> NoRun
      [] k \in Text /\ typed # NoRun -> [typed EXCEPT !.keys = Append(@, Mark(k))]
      [] k \in Text /\ typed = NoRun ->
            IF /\ ui.held = "none" /\ ~ui.quiet /\ ~ui.pasting
               /\ ui.mode \in Form /\ ui.field = 1
            THEN [mode |-> ui.mode, field |-> ui.field, value |-> ui.value,
                  keys |-> <<Mark(k)>>]
            ELSE NoRun

\* This key settles a held Enter as a submit, or ends the filter.
Ends(k) ==
    \/ ui.held = "Return" /\ (ui.late \/ k \notin Text)
    \/ ui.mode = "Filter" /\ k = "Return" /\ ~ui.quiet /\ ~ui.pasting

\* The bound of the model: no value or paste grows longer.
Fits(u) == Len(u.value) <= MaxText /\ Len(u.buffer) <= MaxText

HandleKey(k) ==
    /\ ui.mode # "Exit"
    /\ \E u \in settle(expire(ui), k) : ui' \in {Cleared(v) : v \in act(u, k)}
    /\ Fits(ui') /\ Len(typed.keys) <= MaxText
    /\ requested' = (requested \/ (ui'.held # "none" /\ k \in {"Return", "Tab"}))
    /\ typed' = Noted(k)
    /\ settled' = (settled /\ ~Ends(k))
    /\ UNCHANGED <<ticker, posted>>

\* A click moves the focus of a form, or the selection; it settles nothing and
\* no quiet time keeps it out.
HandleMouse ==
    /\ ui.mode \in {"Normal", "Filter"} \cup Form
    /\ ~ui.pasting
    /\ ui' \in IF ui.mode \in Form THEN Focused(expire(ui))
               ELSE {expire(ui), remask(ui)}
    /\ typed' = NoRun
    /\ UNCHANGED <<requested, ticker, posted, settled>>

\* Mutant of HandleTick: only a key looks at the clock.
TickUnseen ==
    /\ posted /\ ui.mode # "Exit"
    /\ posted' = FALSE
    /\ UNCHANGED <<ui, requested, ticker, typed, settled>>

\* Event::Custom.
HandleTick ==
    /\ posted /\ ui.mode # "Exit"
    /\ posted' = FALSE
    /\ \E u \in IF ui.held # "none" /\ ui.late THEN release_held_key(ui) ELSE {ui} :
          ui' = expire(u)
    /\ settled' = (settled /\ ~(ui.held = "Return" /\ ui.late))
    /\ UNCHANGED typed
    /\ UNCHANGED <<requested, ticker>>

TickerWakes ==
    /\ ticker = "second" /\ requested
    /\ ticker' = "burst" /\ requested' = FALSE
    /\ UNCHANGED <<ui, posted, typed, settled>>

TickerPosts ==
    /\ ui.mode # "Exit"
    /\ ticker = "burst" \/ ~requested
    /\ ticker' = "second" /\ posted' = TRUE
    /\ UNCHANGED <<ui, requested, typed, settled>>

\* Nothing is typed for longer than kPasteBurst and kAfterSubmitQuiet.
Silence ==
    /\ ui.mode # "Exit"
    /\ ui' = [ui EXCEPT !.late = (ui.held # "none"), !.quiet = FALSE]
    /\ typed' = NoRun /\ settled' = TRUE
    /\ UNCHANGED <<requested, ticker, posted>>

\* kRevealFor passes.
Minute ==
    /\ ui.shown = "yes"
    /\ ui' = [ui EXCEPT !.shown = "due", !.late = (ui.held # "none"), !.quiet = FALSE]
    /\ typed' = NoRun /\ settled' = TRUE
    /\ UNCHANGED <<requested, ticker, posted>>

Left == ui.mode = "Exit" /\ UNCHANGED vars

Next ==
    \/ \E k \in Keys : HandleKey(k)
    \/ HandleMouse \/ HandleTick \/ TickerWakes \/ TickerPosts
    \/ Silence \/ Minute \/ Left

Spec == Init /\ [][Next]_vars

\* The ticker and the event loop run on, and time passes.
LiveSpec ==
    /\ Spec
    /\ WF_vars(HandleTick) /\ WF_vars(TickerWakes) /\ WF_vars(TickerPosts)
    /\ WF_vars(Silence) /\ WF_vars(Minute)

-----------------------------------------------------------------------------
(* Properties.                                                             *)

\* A run of keys that comes as fast as a paste and starts in the value of a
\* form ends up in that value, newlines and tabs and all, with the form still
\* open and the focus where it was; only a last Enter or Tab is still held.
PasteStaysPut ==
    typed # NoRun =>
        /\ ui.mode = typed.mode /\ ui.field = 1
        /\ ui.value \o (IF ui.held = "none" THEN <<>> ELSE <<Mark(ui.held)>>)
              = typed.value \o typed.keys

\* The value of a form and a paste are gone from their buffers on every way
\* out of the form and of the paste.
NothingLeftBehind ==
    /\ ui.mode \notin {"Add", "Edit", "ConfirmOverwrite"} => ui.value = <<>>
    /\ ~ui.pasting => ui.buffer = <<>>
    /\ ui.mode = "Exit" => ui.shown = "no"

\* After a submit, and after the Enter that ends the filter, the rest of a
\* paste does nothing: it runs no command, answers no question and opens or
\* closes no form.  Only Ctrl-C quits.
RestIsDropped ==
    [][~settled /\ ~settled' /\ ui'.mode # "Exit" =>
          ui'.mode = ui.mode /\ ui'.value = ui.value]_vars

\* What waits for the clock comes about although nothing is typed: a held key
\* that no other key followed is settled, and a value that has been shown for
\* kRevealFor is hidden.
TimersFire ==
    /\ ui.held # "none" /\ ui.late ~> ui.held = "none" \/ ~ui.late
    /\ ui.shown = "due" ~> ui.shown # "due"
=============================================================================
