------------------------------- MODULE Input -------------------------------
(***************************************************************************)
(* What becomes of a key or a click (input.rs): the screenshot overlay,    *)
(* the widgets of tomoe.ui, shell surfaces, Lua pointer grabs and the      *)
(* button hooks each may take it before the seat and a client see it.      *)
(* Lua runs in the middle of most handlers and may open, close and reload  *)
(* what the handler looked at.                                             *)
(*                                                                         *)
(* ui is what these handlers share: the widget registry, the callbacks the *)
(* VM keeps for it, the overlay, the grab and whether the session is       *)
(* locked.  The handlers of state.rs and ui/widgets.rs are functions of it.*)
(***************************************************************************)
EXTENDS Queues, SequencesExt

CONSTANTS Buttons, Left,   \* pointer buttons; the left one
          WidgetIds        \* widgets that may be open at once

ASSUME InputAssumption == Left \in Buttons /\ IsFiniteSet(WidgetIds)

VARIABLES ui,        \* see Ui
          held,      \* buttons that are down
          consumed,  \* consumed_buttons: releases to swallow
          seat,      \* the seat's pressed buttons, as clients see them
          orphans,   \* buttons whose release reached the seat without a press
          spoiled    \* buttons whose click met an overlay, a modal or a grab

buttonVars == <<held, consumed, seat, orphans, spoiled>>
inputVars == <<ui, buttonVars>>

-----------------------------------------------------------------------------
(* The widget registry.                                                    *)

Kind == {"confirm", "menu", "sheet", "toast"}
Tag == {"none", "ExitDialog", "HotkeyOverlay", "ConfigError"}

\* handler Lua: its callbacks are in the VM; builtin: an action, or none.
Widget == [id : WidgetIds, kind : Kind, handler : {"Lua", "builtin"}, tag : Tag]

Ui == [widgets : Seq(Widget), callbacks : SUBSET WidgetIds,
       overlay : {"closed", "open", "dragging"}, grab : BOOLEAN, locked : BOOLEAN]

Modal(w) == w.kind \in {"confirm", "menu"}
Dismissable(w) == w.kind = "sheet"

Widgets(u) == ToSet(u.widgets)
WithId(u, id) == {w \in Widgets(u) : w.id = id}
OpenIds(u) == {w.id : w \in Widgets(u)}

HasModal(u) == \E w \in Widgets(u) : Modal(w)
TopModal(u) ==
    LET is == {i \in DOMAIN u.widgets : Modal(u.widgets[i])}
    IN  u.widgets[CHOOSE i \in is : \A j \in is : j <= i]

\* Vec::retain, of all but those that are gone.
Lacking(u, gone) == [u EXCEPT !.widgets = Retain(u.widgets, Widgets(u) \ gone)]

CloseTag(u, tag) == Lacking(u, {w \in Widgets(u) : w.tag = tag})
TagOpen(u, tag) == \E w \in Widgets(u) : w.tag = tag

Open(u, id, kind, handler, tag) ==
    [u EXCEPT !.widgets = Append(@, [id |-> id, kind |-> kind, handler |-> handler, tag |-> tag]),
              !.callbacks = IF handler = "Lua" /\ kind \in {"confirm", "menu"}
                            THEN @ \cup {id} ELSE @]

\* close_widget: with its callbacks, if it is still open.
CloseWidget(u, id) ==
    IF id \notin OpenIds(u) THEN u
    ELSE [Lacking(u, WithId(u, id)) EXCEPT !.callbacks = @ \ {id}]

DismissSheets(u, ids) ==
    [Lacking(u, {w \in Widgets(u) : w.id \in ids}) EXCEPT !.callbacks = @ \ (ids \cap OpenIds(u))]

SheetIds(u) == {w.id : w \in {v \in Widgets(u) : Dismissable(v)}}

-----------------------------------------------------------------------------
(* A Lua run, and the built-in actions.                                    *)

\* Fault: a reload keeps the widgets whose callbacks die with the VM.
ReloadKeepsWidgets(u) ==
    [CloseTag(CloseTag(u, "ConfigError"), "HotkeyOverlay") EXCEPT
        !.callbacks = {}, !.grab = FALSE]

\* reload_config and apply_binds: what Lua owned is gone, the overlay stays.
ReloadConfig(u) ==
    [Lacking(CloseTag(CloseTag(u, "ConfigError"), "HotkeyOverlay"),
             {w \in Widgets(u) : w.handler = "Lua"}) EXCEPT !.callbacks = {}, !.grab = FALSE]

\* What one run does: nothing, a tomoe.ui declaration, a grab, or an action.
\* alloc_id never gives an id twice: no widget that is open, was so before this
\* step, or left callbacks has a fresh one.
LuaRuns(u) ==
    LET fresh == WidgetIds \ (OpenIds(u) \cup u.callbacks \cup OpenIds(ui))
    IN  {u, [u EXCEPT !.grab = TRUE], [u EXCEPT !.grab = FALSE], ReloadConfig(u)}
        \cup {Open(u, id, kind, "Lua", "none") : id \in fresh, kind \in Kind}
        \cup {CloseWidget(u, w.id) : w \in {v \in Widgets(u) : v.handler = "Lua"}}
        \cup IF TagOpen(u, "ExitDialog") THEN {}
             ELSE {Open(u, id, "confirm", "builtin", "ExitDialog") : id \in fresh}
        \cup IF TagOpen(u, "HotkeyOverlay") THEN {CloseTag(u, "HotkeyOverlay")}
             ELSE {Open(u, id, "sheet", "builtin", "HotkeyOverlay") : id \in fresh}
        \cup {Open(CloseTag(u, "ConfigError"), id, "toast", "builtin", "ConfigError") : id \in fresh}
        \cup IF u.locked THEN {} ELSE {[u EXCEPT !.overlay = "open"]}

\* ui_widget_event: the widget closes, and its handler runs; a widget that was
\* closed meanwhile is nobody's.  Confirming the exit dialog ends the session.
UiWidgetEvents(u, id) ==
    IF id \notin OpenIds(u) THEN {u}
    ELSE LET w == CHOOSE v \in Widgets(u) : v.id = id
             c == Lacking(u, WithId(u, id))
         IN  IF w.handler = "Lua" THEN LuaRuns([c EXCEPT !.callbacks = @ \ {id}]) ELSE {c}

-----------------------------------------------------------------------------
InputInit ==
    /\ ui = [widgets |-> <<>>, callbacks |-> {}, overlay |-> "closed",
             grab |-> FALSE, locked |-> FALSE]
    /\ held = {} /\ consumed = {} /\ seat = {} /\ orphans = {} /\ spoiled = {}

Obstructed(u) == u.overlay # "closed" \/ HasModal(u)

\* Who is spoiled: buttons down under an obstruction, and those whose trace is
\* not gone yet; more: those this step spoils.
Spoil(more) ==
    spoiled' = {b \in spoiled \cup more \cup (IF Obstructed(ui') THEN held \cup held' ELSE {}) :
                    b \in held' \cup seat' \cup consumed' \cup orphans'}

UiStep(u) == ui' = u /\ UNCHANGED <<held, consumed, seat, orphans>> /\ Spoil({})

\* A timer, an IPC request, a window event or a client's move request runs Lua.
LuaEnters == \E u \in LuaRuns(ui) : UiStep(u)

\* Rendering culls the toasts whose time is over.
ToastExpires ==
    \E i \in DOMAIN ui.widgets :
        ui.widgets[i].kind = "toast" /\ UiStep(CloseWidget(ui, ui.widgets[i].id))

-----------------------------------------------------------------------------
(* Keys.                                                                   *)

Key == {"enter", "escape", "other", "bind"}

\* modal_widget_key, the key pressed: what the widget makes of it.
ModalEvent(w, key) ==
    \/ w.kind = "confirm"
    \/ w.kind = "menu" /\ key \in {"enter", "escape"}

\* The filter of keyboard.input decides on an action; the shell's keyboard
\* subscriber runs before it does; sheets that were up go last.
KeyPress(key) ==
    LET sheets == SheetIds(ui)
        Dismiss(u) == DismissSheets(u, sheets)
        Activity == LuaRuns(ui)
    IN  \E u \in
            IF ui.locked THEN {ui}
            ELSE IF ui.overlay # "closed"
            THEN LET close == [ui EXCEPT !.overlay = "closed"]
                 IN  IF key = "escape" THEN LuaRuns(close)
                     ELSE IF key = "enter" THEN {[a EXCEPT !.overlay = "closed"] : a \in Activity}
                     ELSE Activity
            ELSE IF HasModal(ui)
            THEN IF ModalEvent(TopModal(ui), key)
                 THEN UNION {UiWidgetEvents(a, TopModal(ui).id) : a \in Activity}
                 ELSE Activity
            ELSE IF key = "bind" THEN UNION {LuaRuns(a) : a \in Activity}
            ELSE Activity : UiStep(Dismiss(u))

-----------------------------------------------------------------------------
(* Buttons.                                                                *)

\* Where the pointer is when it matters.
Spot == {"row", "menu", "shell", "elsewhere"}

\* pointer.button: the seat's accounting, and what clients see of it.
Forward(b) ==
    /\ seat' = IF b \in held' THEN seat \cup {b} ELSE seat \ {b}
    /\ orphans' = IF b \in held' \/ b \in seat THEN orphans \ {b} ELSE orphans \cup {b}

Hide == UNCHANGED <<seat, orphans>>

\* The overlay takes a press: the left button drags, if its output is there.
PressOnOverlay(u, b) ==
    /\ ui' \in {u} \cup IF b = Left THEN {[u EXCEPT !.overlay = "dragging"]} ELSE {}
    /\ UNCHANGED consumed /\ Hide

\* A modal takes a press: a row selects, the rest of a menu ignores it, anything
\* else cancels.
PressOnModal(u, b, spot) ==
    /\ consumed' = consumed \cup {b}
    /\ IF b = Left /\ spot = "menu" /\ TopModal(u).kind = "menu" THEN ui' = u
       ELSE ui' \in UiWidgetEvents(u, TopModal(u).id)
    /\ Hide

PressOnShell(u, b) ==
    /\ consumed' = consumed \cup {b}
    /\ IF b = Left THEN ui' \in LuaRuns(u) ELSE ui' = u
    /\ Hide

PressInGrab(u) == ui' = u /\ UNCHANGED consumed /\ Hide

\* on_pointer_button, then click-to-focus with its hook, then the seat.
PressThrough(u, b) ==
    \/ /\ ~u.locked /\ ui' \in LuaRuns(u)
       /\ consumed' = consumed \cup {b} /\ Hide
    \/ /\ ui' \in IF u.locked THEN {u} ELSE UNION {LuaRuns(v) : v \in LuaRuns(u)}
       /\ UNCHANGED consumed /\ Forward(b)

Press(b, spot) ==
    LET u == DismissSheets(ui, SheetIds(ui))
    IN  /\ b \notin held /\ held' = held \cup {b}
        /\ IF u.overlay # "closed" THEN spot = "elsewhere" /\ PressOnOverlay(u, b)
           ELSE IF HasModal(u) THEN spot # "shell" /\ PressOnModal(u, b, spot)
           ELSE IF spot = "shell" THEN PressOnShell(u, b)
           ELSE spot = "elsewhere" /\ IF u.grab THEN PressInGrab(u) ELSE PressThrough(u, b)
        /\ Spoil(IF Obstructed(u) \/ u.grab THEN {b} ELSE {})

ReleaseOnOverlay(b) ==
    /\ ui' = IF b = Left THEN [ui EXCEPT !.overlay = "open"] ELSE ui
    /\ UNCHANGED consumed /\ Hide

ReleaseOnModal == UNCHANGED <<ui, consumed>> /\ Hide

\* Fault: the release of a press a hook consumed ends the grab and goes on.
ReleaseInGrabForwards(b) ==
    /\ ui' \in LuaRuns([ui EXCEPT !.grab = FALSE])
    /\ consumed' = consumed \ {b}
    /\ Forward(b)

\* A Lua grab ends on any release, which the seat sees if it saw the press.
ReleaseInGrab(b) ==
    /\ ui' \in LuaRuns([ui EXCEPT !.grab = FALSE])
    /\ consumed' = consumed \ {b}
    /\ IF b \in consumed THEN Hide ELSE Forward(b)

ReleaseConsumed(b) == consumed' = consumed \ {b} /\ UNCHANGED ui /\ Hide

\* A hook may eat a release whose press it let through.
ReleaseThrough(b) ==
    /\ UNCHANGED consumed
    /\ ui' \in IF ui.locked THEN {ui} ELSE LuaRuns(ui)
    /\ \/ Forward(b)
       \/ ~ui.locked /\ Hide

Release(b) ==
    /\ b \in held /\ held' = held \ {b}
    /\ IF ui.overlay # "closed" THEN ReleaseOnOverlay(b)
       ELSE IF HasModal(ui) THEN ReleaseOnModal
       ELSE IF ui.grab THEN ReleaseInGrab(b)
       ELSE IF b \in consumed THEN ReleaseConsumed(b)
       ELSE ReleaseThrough(b)
    /\ Spoil(IF Obstructed(ui) \/ (seat' = seat /\ b \in seat) THEN {b} ELSE {})

\* pointer_moved: to the overlay, to the grab, or to hover and focus hooks.
Motion ==
    /\ ui.overlay = "closed" /\ ~ui.locked
    /\ \E u \in LuaRuns(ui) : UiStep(u)

-----------------------------------------------------------------------------
(* The lock.                                                               *)

\* begin_locked_session: ending the grab runs Lua before the session is locked.
Lock ==
    /\ ~ui.locked
    /\ LET u == [ui EXCEPT !.overlay = "closed", !.widgets = <<>>,
                           !.callbacks = @ \ OpenIds(ui)]
       IN  \E v \in IF ui.grab THEN LuaRuns([u EXCEPT !.grab = FALSE]) ELSE {u} :
              UiStep([v EXCEPT !.locked = TRUE])

Unlock ==
    /\ ui.locked
    /\ \E u \in LuaRuns([ui EXCEPT !.locked = FALSE]) : UiStep(u)

InputNext ==
    \/ LuaEnters \/ ToastExpires \/ Motion \/ Lock \/ Unlock
    \/ \E key \in Key : KeyPress(key)
    \/ \E b \in Buttons : Release(b) \/ \E spot \in Spot : Press(b, spot)

InputSpec == InputInit /\ [][InputNext]_inputVars

-----------------------------------------------------------------------------
(* Properties.                                                             *)

\* The types, and that no two widgets share an id or a tag: the compositor opens
\* one exit dialog, one overlay and one banner at a time.
InputTypeOK ==
    /\ ui \in Ui
    /\ \A i, j \in DOMAIN ui.widgets : i # j =>
          /\ ui.widgets[i].id # ui.widgets[j].id
          /\ ui.widgets[i].tag = ui.widgets[j].tag => ui.widgets[i].tag = "none"
    /\ held \subseteq Buttons /\ consumed \subseteq Buttons /\ seat \subseteq Buttons
    /\ orphans \subseteq Buttons /\ spoiled \subseteq Buttons

\* The callbacks the running VM keeps are those of the open modals it declared:
\* no widget that is closed by a key, a click, the lock or a reload leaks its
\* callbacks, and none is open whose callbacks are gone.
CallbacksHaveWidgets ==
    ui.callbacks = {w.id : w \in {v \in Widgets(ui) : v.handler = "Lua" /\ Modal(v)}}

\* A drag of the screenshot overlay goes on only while the left button is down,
\* whatever opens, closes or locks meanwhile.
DragIsHeld == ui.overlay = "dragging" => Left \in held

\* All of these.
InputInv == InputTypeOK /\ CallbacksHaveWidgets /\ DragIsHeld

\* A click that met no overlay, modal or grab, and whose release no hook ate, is
\* seen by clients whole or not at all: nothing of it is left once it is up.
WholeClicks ==
    \A b \in Buttons \ spoiled :
        b \notin held => b \notin seat \cup consumed \cup orphans
=============================================================================
