---------------------------- MODULE WindowManager ----------------------------
(***************************************************************************)
(* BotDesk as the window manager of an X display (apps/botdesk): the table *)
(* of managed windows, the focus, the title-bar drag, the command palette  *)
(* and the programs it starts.                                             *)
(*                                                                         *)
(* Three actors interleave.  Programs create, show, hide and destroy their *)
(* windows; the user presses keys and buttons; BotDesk handles, one at a   *)
(* time, the events the X server queued for it, each of which may speak of *)
(* a window that is gone by then.  The X server itself (what becomes of    *)
(* children of a destroyed window, of the focus and of a pointer grab) is  *)
(* modelled from the requests BotDesk makes.                               *)
(*                                                                         *)
(* A frame is named by the client it was made for: a client is put into a  *)
(* frame once, and dies with it.  Sizes are left to the module Toolkit.    *)
(***************************************************************************)
EXTENDS Integers, Sequences, FiniteSets

CONSTANTS
    Client,         \* programs, each with one window
    NoClient,
    Palette, Desktop, PointerRoot,  \* other holders of the keyboard
    MaxWindows,     \* WM_MAX_WINDOWS
    MaxRows,        \* PALETTE_MAX_ROWS
    MaxQueue        \* bound on the events that wait in the queue

ASSUME WindowManagerAssumption ==
    /\ MaxWindows \in Nat \ {0}
    /\ MaxRows \in Nat /\ MaxQueue \in Nat
    /\ {NoClient, Palette, Desktop, PointerRoot} \cap Client = {}
    /\ Cardinality({NoClient, Palette, Desktop, PointerRoot}) = 4

Slot == 0 .. MaxWindows - 1

VARIABLES
    app,        \* each program: its process and its window
    framed,     \* the clients whose window lies in a frame of BotDesk
    xfocus,     \* what the X server sends key presses to
    held,       \* the frame that holds the pointer grab, or NoClient
    wmq,        \* events queued for BotDesk's connection
    slot,       \* wm_windows[].client, NoClient when not used
    focused,    \* the used slots whose focused flag is set
    count,      \* wm_window_count
    mapping,    \* the client whose MapRequest is being handled
    drag,       \* wm_drag_frame while wm_dragging is set
    sizing,     \* wm_resize_frame while wm_resizing is set
    palette,    \* palette_active, palette_selected, palette_match_count
    running     \* BotDesk has not quit

server == <<app, framed, xfocus, held>>
table  == <<slot, focused, count>>
pull   == <<drag, sizing>>
wmVars == <<server, wmq, table, mapping, pull, palette, running>>

(* off: not started; up: its window is not shown yet; asked: the request   *)
(* to show it waits for BotDesk; shown; hidden by itself; gone: destroyed. *)
AppState == {"off", "up", "asked", "shown", "hidden", "gone"}

Exists(c) == app[c] \in {"up", "asked", "shown", "hidden"}

UserEvent == {"title", "close", "grip", "motion", "release",
              "tab", "backtab", "space", "escape", "enter", "text", "arrow"}

WMEvent == [type : {"map", "unmap", "destroy"} \cup UserEvent, c : Client \cup {NoClient}]

Ev(t, c) == [type |-> t, c |-> c]

Closed == [active |-> FALSE, selected |-> 0, matches |-> 0]

Used == {i \in Slot : slot[i] # NoClient}

Managed == {slot[i] : i \in Used}

SlotOf(c) == CHOOSE i \in Slot : slot[i] = c

WMInit ==
    /\ app = [c \in Client |-> "off"]
    /\ framed = {} /\ xfocus = Desktop /\ held = NoClient
    /\ wmq = <<>>
    /\ slot = [i \in Slot |-> NoClient] /\ focused = {} /\ count = 0
    /\ mapping = NoClient /\ drag = NoClient /\ sizing = NoClient
    /\ palette = Closed
    /\ running = TRUE

Room == Len(wmq) < MaxQueue

-----------------------------------------------------------------------------
(***************************************************************************)
(* Programs.                                                               *)
(***************************************************************************)

(* bot_window_show: the map is redirected to BotDesk unless the window     *)
(* already lies in a frame.  A second call before the answer asks again.   *)
Show(c) ==
    /\ app[c] \in {"up", "asked", "hidden"} /\ running
    /\ IF c \in framed
       THEN app' = [app EXCEPT ![c] = "shown"] /\ UNCHANGED wmq
       ELSE /\ Room
            /\ Cardinality({i \in DOMAIN wmq : wmq[i] = Ev("map", c)}) < 2
            /\ app' = [app EXCEPT ![c] = "asked"]
            /\ wmq' = Append(wmq, Ev("map", c))
    /\ UNCHANGED <<framed, xfocus, held, table, mapping, pull, palette, running>>

(* The keyboard goes to whatever is under the pointer when its holder is   *)
(* no longer viewable.                                                     *)
FocusWithout(gone) == IF xfocus \in gone THEN PointerRoot ELSE xfocus

(* bot_window_hide: a managed window is reported relative to its frame.    *)
Hide(c) ==
    /\ app[c] = "shown" /\ Room
    /\ app' = [app EXCEPT ![c] = "hidden"]
    /\ xfocus' = FocusWithout({c})
    /\ wmq' = IF c \in framed THEN Append(wmq, Ev("unmap", c)) ELSE wmq
    /\ UNCHANGED <<framed, held, table, mapping, pull, palette, running>>

(* bot_window_destroy, or the end of the process, for whatever reason.     *)
Die(c) ==
    /\ Exists(c) /\ Room
    /\ app' = [app EXCEPT ![c] = "gone"]
    /\ xfocus' = FocusWithout({c})
    /\ wmq' = wmq \o (IF c \in framed /\ app[c] = "shown" THEN <<Ev("unmap", c)>> ELSE <<>>)
                  \o <<Ev("destroy", c)>>
    /\ UNCHANGED <<framed, held, table, mapping, pull, palette, running>>

(* The program can be started again once nothing speaks of its old window  *)
(* (window names are not used twice).                                      *)
reap_children(c) ==
    /\ app[c] = "gone"
    /\ c \notin framed \cup Managed \cup {mapping, drag, sizing, held}
    /\ \A i \in DOMAIN wmq : wmq[i].c # c
    /\ app' = [app EXCEPT ![c] = "off"]
    /\ UNCHANGED <<framed, xfocus, held, wmq, table, mapping, pull, palette, running>>

-----------------------------------------------------------------------------
(***************************************************************************)
(* The user.                                                               *)
(***************************************************************************)

Queue(e) ==
    /\ running /\ Room
    /\ wmq' = Append(wmq, e)

(* A press on a frame grabs the pointer until the release.  Any button and *)
(* the wheel start the same.                                               *)
Press(c, zone) ==
    /\ held = NoClient /\ c \in framed
    /\ Queue(Ev(zone, c))
    /\ held' = c
    /\ UNCHANGED <<app, framed, xfocus, table, mapping, pull, palette, running>>

Release ==
    /\ held # NoClient
    /\ Queue(Ev("release", held))
    /\ held' = NoClient
    /\ UNCHANGED <<app, framed, xfocus, table, mapping, pull, palette, running>>

(* The pointer moves over a frame, or anywhere while one holds the grab.   *)
Motion(c) ==
    /\ c \in framed /\ held \in {c, NoClient}
    /\ Queue(Ev("motion", c))
    /\ UNCHANGED <<server, table, mapping, pull, palette, running>>

(* Ctrl+Shift+S takes a screenshot (module Notify), or is a letter to an   *)
(* open palette.                                                           *)
Grabbed == {"tab", "backtab", "space", "text"}

(* BotDesk gets the keys it grabbed, and every key that no program takes   *)
(* on its way to the root window.                                          *)
Key(k) ==
    /\ k \in Grabbed \/ xfocus \in {Palette, PointerRoot}
    /\ Queue(Ev(k, NoClient))
    /\ UNCHANGED <<server, table, mapping, pull, palette, running>>

-----------------------------------------------------------------------------
(***************************************************************************)
(* BotDesk.                                                                *)
(***************************************************************************)

(* XSetInputFocus fails, and changes nothing, when the window is gone.     *)
Viewable(c) == app[c] = "shown" \/ (c = mapping /\ Exists(c))

SetFocus(i, c) ==
    /\ focused' = {i}
    /\ xfocus' = IF Viewable(c) THEN c ELSE xfocus

wm_set_focus(i) == SetFocus(i, slot[i])

First(S) == CHOOSE i \in S : \A j \in S : i <= j

(* Destroying the frame destroys the window in it.  The focus is handed to *)
(* the first window of the table.                                          *)
wm_remove_managed(i) ==
    LET c == slot[i] rest == Used \ {i} IN
    /\ slot' = [slot EXCEPT ![i] = NoClient]
    /\ count' = IF count > 0 THEN count - 1 ELSE 0
    /\ framed' = framed \ {c}
    /\ held' = IF held = c THEN NoClient ELSE held
    /\ app' = IF Exists(c) /\ c \in framed THEN [app EXCEPT ![c] = "gone"] ELSE app
    /\ IF i \in focused /\ rest # {}
       THEN /\ focused' = {First(rest)}
            /\ xfocus' = IF Viewable(slot[First(rest)]) THEN slot[First(rest)]
                                                        ELSE FocusWithout({c})
       ELSE focused' = focused \ {i} /\ xfocus' = FocusWithout({c})

Reading(t) == running /\ mapping = NoClient /\ wmq # <<>> /\ Head(wmq).type \in t

Who == Head(wmq).c

Pop == wmq' = Tail(wmq)

(* Mutant of wm_handle_map_request: with all slots taken the request is    *)
(* dropped.                                                                *)
MapRefused ==
    /\ Reading({"map"}) /\ Pop
    /\ mapping' = IF Who \notin Managed /\ count < MaxWindows /\ Exists(Who) THEN Who ELSE NoClient
    /\ app' = IF Who \in Managed /\ app[Who] \in {"asked", "hidden"}
              THEN [app EXCEPT ![Who] = "shown"] ELSE app
    /\ UNCHANGED <<framed, xfocus, held, table, pull, palette, running>>

(* A MapRequest, up to the round trip of XGetWindowAttributes.  A window   *)
(* that is managed already, or for which there is no slot, is just shown.  *)
wm_handle_map_request ==
    /\ Reading({"map"}) /\ Pop
    /\ IF Who \in Managed \/ count >= MaxWindows
       THEN /\ app' = IF app[Who] \in {"asked", "hidden"} THEN [app EXCEPT ![Who] = "shown"] ELSE app
            /\ UNCHANGED mapping
       ELSE /\ mapping' = IF Exists(Who) THEN Who ELSE NoClient
            /\ UNCHANGED app
    /\ UNCHANGED <<framed, xfocus, held, table, pull, palette, running>>

(* The rest of it: the window is put into a new frame and a free slot, and *)
(* takes the focus, even when it has been destroyed since the round trip.  *)
Manage ==
    /\ running /\ mapping # NoClient
    /\ LET free == Slot \ Used
           i == First(free) IN
       /\ slot' = [slot EXCEPT ![i] = mapping]
       /\ count' = count + 1
       /\ framed' = framed \cup {mapping}
       /\ app' = IF Exists(mapping) THEN [app EXCEPT ![mapping] = "shown"] ELSE app
       /\ SetFocus(i, mapping)
    /\ mapping' = NoClient
    /\ UNCHANGED <<held, wmq, pull, palette, running>>

(* UnmapNotify relative to the frame, and DestroyNotify.                   *)
wm_handle_unmap_destroy ==
    /\ Reading({"unmap", "destroy"}) /\ Pop
    /\ IF Who \in Managed
       THEN wm_remove_managed(SlotOf(Who))
       ELSE UNCHANGED <<server, table>>
    /\ UNCHANGED <<mapping, pull, palette, running>>

(* A press on the close box sends WM_DELETE_WINDOW to the client, which is *)
(* free to act on it (Die) or not; one on the title bar starts a drag, one *)
(* on the grip in the corner a resize.                                     *)
wm_handle_button_press ==
    /\ Reading({"title", "close", "grip"}) /\ Pop
    /\ IF Who \in Managed
       THEN /\ wm_set_focus(SlotOf(Who))
            /\ drag' = IF Head(wmq).type = "title" THEN Who ELSE drag
            /\ sizing' = IF Head(wmq).type = "grip" THEN Who ELSE sizing
       ELSE UNCHANGED <<focused, xfocus, pull>>
    /\ UNCHANGED <<app, framed, held, slot, count, mapping, palette, running>>

(* The frame that is resized, or else the one that is dragged, follows the *)
(* pointer; when it is gone this ends here.                                *)
wm_handle_motion ==
    /\ Reading({"motion"}) /\ Pop
    /\ IF sizing # NoClient
       THEN sizing' = (IF sizing \in Managed THEN sizing ELSE NoClient) /\ UNCHANGED drag
       ELSE drag' = (IF drag \in Managed THEN drag ELSE NoClient) /\ UNCHANGED sizing
    /\ UNCHANGED <<server, table, mapping, palette, running>>

wm_handle_button_release ==
    /\ Reading({"release"}) /\ Pop
    /\ drag' = NoClient /\ sizing' = NoClient
    /\ UNCHANGED <<server, table, mapping, palette, running>>

(* Alt+Tab: the next used slot after the focused one, in either direction. *)
wm_cycle_focus(forward) ==
    LET cur == IF focused = {} THEN -1 ELSE First(focused)
        At(s) == IF forward THEN (cur + s) % MaxWindows
                            ELSE (cur - s + MaxWindows) % MaxWindows
        steps == {s \in 1 .. MaxWindows : At(s) \in Used \ {cur}}
    IN IF steps = {} THEN UNCHANGED <<focused, xfocus>>
                     ELSE wm_set_focus(At(First(steps)))

Tab ==
    /\ Reading({"tab", "backtab"}) /\ Pop
    /\ IF palette.active
       THEN UNCHANGED <<focused, xfocus>>
       ELSE wm_cycle_focus(Head(wmq).type = "tab")
    /\ UNCHANGED <<app, framed, held, slot, count, mapping, pull, palette, running>>

(* Ctrl+Space: opens the palette with every program listed; in an open     *)
(* palette it is a space typed into the query.                             *)
Space ==
    /\ Reading({"space"}) /\ Pop
    /\ IF palette.active
       THEN /\ \/ UNCHANGED palette
               \/ \E n \in 0 .. MaxRows : palette' = [palette EXCEPT !.selected = 0, !.matches = n]
            /\ UNCHANGED xfocus
       ELSE /\ palette' = [active |-> TRUE, selected |-> 0, matches |-> MaxRows]
            /\ xfocus' = Palette
    /\ UNCHANGED <<app, framed, held, table, mapping, pull, running>>

(* A letter or a backspace in the palette changes the query and so which   *)
(* programs match (a letter that does not fit changes neither); Up and     *)
(* Down move the selection.                                                *)
PaletteEdit ==
    /\ Reading({"text", "arrow"}) /\ Pop
    /\ IF ~palette.active THEN UNCHANGED palette
       ELSE IF Head(wmq).type = "text"
       THEN \/ UNCHANGED palette
            \/ \E n \in 0 .. MaxRows : palette' = [palette EXCEPT !.selected = 0, !.matches = n]
       ELSE \E s \in {palette.selected - 1, palette.selected + 1} :
              palette' = [palette EXCEPT !.selected = IF s \in 0 .. palette.matches - 1 THEN s ELSE @]
    /\ UNCHANGED <<server, table, mapping, pull, running>>

(* Mutant of palette_close: the keyboard goes to the desktop. *)
CloseToDesktop == palette' = Closed /\ xfocus' = Desktop

(* The keyboard goes back to the focused window, or to the desktop.  The   *)
(* query and the matches are made anew at the next opening.                *)
palette_close ==
    /\ palette' = Closed
    /\ xfocus' = IF focused = {} THEN Desktop
                 ELSE LET c == slot[First(focused)] IN
                      IF Viewable(c) THEN c ELSE FocusWithout({Palette})

(* launch_app forks; the program may not be there, or fail to start.       *)
launch_app ==
    \/ UNCHANGED app
    \/ \E c \in Client : app[c] = "off" /\ app' = [app EXCEPT ![c] = "up"]

(* Escape and Return, which starts the selected program, if any.           *)
PaletteDone ==
    /\ Reading({"escape", "enter"}) /\ Pop
    /\ IF palette.active
       THEN /\ palette_close
            /\ IF Head(wmq).type = "enter" /\ palette.matches > 0
               THEN launch_app
               ELSE UNCHANGED app
       ELSE UNCHANGED <<palette, xfocus, app>>
    /\ UNCHANGED <<framed, held, table, mapping, pull, running>>

(* A click on a button of the taskbar, which arrives on the connection of  *)
(* the desktop's own window.                                               *)
TaskbarClick(i) ==
    /\ running /\ mapping = NoClient /\ held = NoClient
    /\ i \in Used
    /\ wm_set_focus(i)
    /\ UNCHANGED <<app, framed, held, wmq, slot, count, mapping, pull, palette, running>>

(* The second of two quick clicks on an icon starts its program.           *)
IconClick ==
    /\ running /\ mapping = NoClient /\ held = NoClient
    /\ launch_app
    /\ UNCHANGED <<framed, xfocus, held, wmq, table, mapping, pull, palette, running>>

(* Escape or Ctrl+Q while the desktop has the keyboard ends BotDesk; its   *)
(* frames go, and the windows in them with them.                           *)
Quit ==
    /\ running /\ mapping = NoClient /\ xfocus = Desktop
    /\ running' = FALSE
    /\ app' = [c \in Client |-> IF c \in framed /\ Exists(c) THEN "gone" ELSE app[c]]
    /\ framed' = {} /\ held' = NoClient
    /\ UNCHANGED <<xfocus, wmq, table, mapping, pull, palette>>

(* wm_pump_events                                                          *)
WMStep ==
    \/ wm_handle_map_request \/ Manage \/ wm_handle_unmap_destroy
    \/ wm_handle_button_press \/ wm_handle_motion \/ wm_handle_button_release
    \/ Tab \/ Space \/ PaletteEdit \/ PaletteDone

Programs == \E c \in Client : Show(c) \/ Hide(c) \/ Die(c) \/ reap_children(c)

User ==
    \/ \E c \in Client : Motion(c) \/ \E zone \in {"title", "close", "grip"} : Press(c, zone)
    \/ Release
    \/ \E k \in Grabbed \cup {"escape", "enter", "arrow"} : Key(k)
    \/ \E i \in Slot : TaskbarClick(i)
    \/ IconClick
    \/ Quit

WMNext == Programs \/ User \/ WMStep

WMSpec == WMInit /\ [][WMNext]_wmVars

-----------------------------------------------------------------------------
WMTypeOK ==
    /\ app \in [Client -> AppState]
    /\ framed \subseteq Client
    /\ xfocus \in Client \cup {Palette, Desktop, PointerRoot}
    /\ held \in Client \cup {NoClient}
    /\ wmq \in Seq(WMEvent)
    /\ slot \in [Slot -> Client \cup {NoClient}]
    /\ focused \subseteq Slot
    /\ count \in Nat
    /\ mapping \in Client \cup {NoClient}
    /\ {drag, sizing} \subseteq Client \cup {NoClient}
    /\ palette \in [active : BOOLEAN, selected : 0 .. MaxRows, matches : 0 .. MaxRows]
    /\ palette.matches > 0 => palette.selected < palette.matches
    /\ running \in BOOLEAN

(***************************************************************************)
(* The table of managed windows is in order: every used slot is counted    *)
(* once, holds another client, owns a frame, and as soon as one window is  *)
(* managed exactly one is marked focused.  Removing a window hands the     *)
(* focus on, and a slot is free whenever a window is about to be managed,  *)
(* although its client may die, hide or ask again at any moment.           *)
(***************************************************************************)
TableInv ==
    /\ count = Cardinality(Used)
    /\ \A i, j \in Used : slot[i] = slot[j] => i = j
    /\ running => framed = Managed
    /\ focused \subseteq Used
    /\ Used # {} => \E i \in Slot : focused = {i}
    /\ mapping # NoClient => mapping \notin Managed /\ count < MaxWindows

CaughtUp == running /\ mapping = NoClient /\ wmq = <<>>

(***************************************************************************)
(* Once BotDesk has caught up with the X server, no request is left        *)
(* waiting, also when all slots were taken or when it was made twice: the  *)
(* window is shown, or it was destroyed.  That a program need not do       *)
(* itself: one that hides and asks again before BotDesk has seen it hide   *)
(* loses its window with the frame (wm_handle_unmap_notify).  And no       *)
(* window whose client died or hid, even between its request and its       *)
(* frame, stays in the table.                                              *)
(***************************************************************************)
RequestsAnswered ==
    CaughtUp => \A c \in Client : /\ app[c] # "asked"
                                  /\ c \in Managed => app[c] = "shown"

(***************************************************************************)
(* Then, and with the palette closed, the keys go to the window that is    *)
(* drawn as focused, whatever took the focus away in between: a new        *)
(* window, a dead one, the palette.                                        *)
(***************************************************************************)
KeyboardFollows ==
    CaughtUp /\ ~palette.active /\ Used # {} => \E i \in focused : xfocus = slot[i]

(***************************************************************************)
(* A window follows the pointer, or is resized by it, only while it is     *)
(* held itself, or the release is still in the queue; a window that dies   *)
(* meanwhile leaves no other window hanging on the pointer.                *)
(***************************************************************************)
DragOwned ==
    \A c \in {drag, sizing} \cap framed :
        held = c \/ \E i \in DOMAIN wmq : wmq[i] = Ev("release", c)

(* The window manager is in order whatever its clients do meanwhile.       *)
WMInv == WMTypeOK /\ TableInv /\ RequestsAnswered

(* The keys and the pointer act on the window that shows it.               *)
InputOwned == KeyboardFollows /\ DragOwned
-----------------------------------------------------------------------------
(***************************************************************************)
(* The inductive invariant: what the events that are still queued owe to   *)
(* the table, and to the pointer.                                          *)
(***************************************************************************)
Events == {wmq[k] : k \in DOMAIN wmq}

Leaving(c) == Ev("unmap", c) \in Events \/ Ev("destroy", c) \in Events

(* Only keys come from no program; a window that was not shown yet is not  *)
(* spoken of.                                                              *)
EventsNameClients ==
    /\ \A e \in Events : e.c \in Client \/ e.type \notin {"map", "unmap", "destroy", "title", "close", "grip"}
    /\ \A c \in Client : app[c] \in {"off", "up"} =>
          /\ \A e \in Events : e.c # c
          /\ c \notin Managed \cup {mapping, drag, sizing}

(* A request is queued or being handled; a managed window that is not      *)
(* shown, or whose program died during the request, is reported.           *)
ReportsQueued ==
    /\ \A c \in Client : app[c] = "asked" => mapping = c \/ Ev("map", c) \in Events
    /\ running => \A c \in Managed : app[c] = "shown" \/ (app[c] \in {"hidden", "gone"} /\ Leaving(c))
    /\ \A c \in Client : mapping = c => running /\ (app[c] = "gone" => Leaving(c))

(* The keyboard is with the focused window, or will be handed on.          *)
KeyboardOwed ==
    running /\ ~palette.active /\ Used # {} =>
        \E c \in {slot[i] : i \in focused} : xfocus = c \/ Leaving(c)

(* A window whose frame is gone is gone for good.                          *)
Buried(c) == running => app[c] = "gone" /\ c \notin framed /\ mapping # c

Presses == {"title", "close", "grip"}

(* Program c is held, or its release is queued behind event k.             *)
Owed(c, k) ==
    Buried(c) \/ held = c \/ \E l \in DOMAIN wmq : k < l /\ wmq[l] = Ev("release", c)

(* Every press will meet its release.                                      *)
ReleaseOwed ==
    /\ ~running => framed = {}
    /\ held # NoClient => held \in framed
    /\ \A c \in Client :
          /\ c \in {drag, sizing} => Owed(c, 0)
          /\ \A k \in DOMAIN wmq : wmq[k].type \in Presses /\ wmq[k].c = c => Owed(c, k)

WMIInv == WMTypeOK /\ TableInv /\ EventsNameClients /\ ReportsQueued /\ KeyboardOwed /\ ReleaseOwed
=============================================================================
