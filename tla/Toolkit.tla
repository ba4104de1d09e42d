------------------------------ MODULE Toolkit ------------------------------
(***************************************************************************)
(* One application on BotUI with the X11 backend (sdk/botui): the event    *)
(* queue, the window with its framebuffer, and the main loop every         *)
(* application has, or bot_event_loop.  Around it the X server keeps the   *)
(* true size of the window and the events the application has not read,    *)
(* the user clicks and types, and BotDesk resizes the window by the grip   *)
(* of its frame.                                                           *)
(*                                                                         *)
(* A size stands for a width and a height; a framebuffer of size s has     *)
(* room for a canvas of at most s.  An allocation may find no memory.      *)
(***************************************************************************)
EXTENDS Integers, Sequences

CONSTANTS
    Screen,         \* sizes are 1 .. Screen; a maximized window has Screen
    QueueSize,      \* EVENT_QUEUE_SIZE
    MaxPending,     \* bound on what the user does while the program is busy
    MaxResizes,     \* bound on resizes by the frame's grip
    MaxInputs       \* bound on keys and clicks

ASSUME ToolkitAssumption ==
    /\ Screen \in Nat \ {0} /\ QueueSize \in Nat \ {0}
    /\ MaxPending \in Nat /\ MaxResizes \in Nat /\ MaxInputs \in Nat

Size == 1 .. Screen

VARIABLES
    size,       \* the window's size at the X server
    grip,       \* the size the frame last gave it
    xq,         \* X events not read yet
    evq,        \* g_event_queue
    lost,       \* types of events that were dropped from a full queue
    win,        \* the bot_window_t: framebuffer, orig size, is_maximized, should_close;
                \* and whether its last resize was short of memory
    canvas,     \* g_width, g_height and the application's canvas
    loop,       \* "own" main loop, or "library": bot_event_loop
    quit,       \* g_quit_requested
    pc,         \* where the main loop is
    overlapped, \* the window was resized while an earlier resize was under way
    inputs, resizes

uiVars == <<size, grip, xq, evq, lost, win, canvas, loop, quit, pc, overlapped, inputs, resizes>>

XEvent == [type : {"input", "escape", "maximize", "close", "delete"}, size : {0}]
            \cup [type : {"configure"}, size : Size]

BotEvent == [type : {"INPUT", "ESCAPE", "CLOSE"}, size : {0}] \cup [type : {"RESIZE"}, size : Size]

E(t) == [type |-> t, size |-> 0]

Resized(s) == [type |-> "RESIZE", size |-> s]

ToolkitInit ==
    /\ size = 1 /\ grip = 1 /\ xq = <<>>
    /\ evq = <<>> /\ lost = {}
    /\ win = [size |-> 1, orig |-> 1, maximized |-> FALSE, close |-> FALSE, short |-> FALSE]
    /\ canvas = 1
    /\ loop \in {"own", "library"} /\ quit = FALSE /\ pc = "setup"
    /\ overlapped = FALSE /\ inputs = 0 /\ resizes = 0

-----------------------------------------------------------------------------
(***************************************************************************)
(* The library.  What a call changes is a record u: the queue, the dropped *)
(* types, the window, its size at the server and the X events that         *)
(* resizing it causes.                                                     *)
(***************************************************************************)
Now == [evq |-> evq, lost |-> lost, win |-> win, size |-> size, out |-> <<>>]

(* A full queue drops its oldest event.                                    *)
bot_event_push(u, e) ==
    IF Len(u.evq) >= QueueSize
    THEN [u EXCEPT !.evq = Append(Tail(@), e), !.lost = @ \cup {Head(u.evq).type}]
    ELSE [u EXCEPT !.evq = Append(@, e)]

(* A new framebuffer, and the same size asked of the server, which reports *)
(* it if it is a change; without memory for it (~ok) all stays as it is.   *)
bot_window_resize(u, s, ok) ==
    IF ok THEN [u EXCEPT !.win.size = s, !.win.short = FALSE, !.size = s,
                         !.out = IF u.size = s THEN @ ELSE Append(@, [type |-> "configure", size |-> s])]
    ELSE [u EXCEPT !.win.short = TRUE]

(* The event is pushed also when the window was not resized.               *)
bot_window_toggle_maximize(u, ok) ==
    IF ~u.win.maximized
    THEN bot_event_push([bot_window_resize(u, Screen, ok) EXCEPT !.win.orig = u.win.size,
                                                                !.win.maximized = TRUE],
                        Resized(Screen))
    ELSE bot_event_push([bot_window_resize(u, u.win.orig, ok) EXCEPT !.win.maximized = FALSE],
                        Resized(u.win.orig))

(* x11_pump_events, one event: a press in the title bar that BotUI draws   *)
(* acts on the window at once; the others become BotUI events.             *)
Translate(u, x, ok) ==
    CASE x.type = "input"     -> bot_event_push(u, E("INPUT"))
      [] x.type = "escape"    -> bot_event_push(u, E("ESCAPE"))
      [] x.type = "delete"    -> bot_event_push(u, E("CLOSE"))
      [] x.type = "configure" -> bot_event_push(u, Resized(x.size))
      [] x.type = "maximize"  -> bot_window_toggle_maximize(u, ok)
      [] x.type = "close"     -> bot_event_push([u EXCEPT !.win.close = TRUE], E("CLOSE"))

(* Mutant of Handled: the framebuffer keeps its size. *)
HandledShort(u, e, ok) == IF e.type = "ESCAPE" THEN bot_event_push(u, E("CLOSE")) ELSE u

(* The handlers of an application: on_resize gives the framebuffer and the *)
(* canvas the new size, Escape calls bot_event_quit.  (A canvas there is   *)
(* no memory for is not copied at all.)                                    *)
Handled(u, e, ok) ==
    CASE e.type = "RESIZE" -> bot_window_resize(u, e.size, ok)
      [] e.type = "ESCAPE" -> bot_event_push(u, E("CLOSE"))
      [] OTHER             -> u

(* Which of a poll's allocations find memory: those for the X events, of   *)
(* which only one in the title bar needs any, and at 0 the handler's.      *)
Outcomes == {oks \in [0 .. Len(xq) -> BOOLEAN] :
                \A i \in DOMAIN xq : xq[i].type = "maximize" \/ oks[i]}

(* x11_pump_events: the library after all of the X events.                 *)
Pumped(oks) ==
    LET after[i \in 0 .. Len(xq)] == IF i = 0 THEN Now ELSE Translate(after[i - 1], xq[i], oks[i])
    IN after[Len(xq)]

(* bot_event_poll: pumps everything the server sent, then takes one event  *)
(* and dispatches it.  The loop goes on at closed after a close event, at  *)
(* none when there is no event, at other after any other.  bot_event_quit  *)
(* sets the flag that only bot_event_loop reads; that loop sets it itself  *)
(* for a close event.                                                      *)
Poll(oks) ==
    LET p == Pumped(oks) IN
    IF p.evq = <<>> THEN [u |-> p, e |-> E("NONE")]
    ELSE [u |-> Handled([p EXCEPT !.evq = Tail(@)], Head(p.evq), oks[0]), e |-> Head(p.evq)]

bot_event_poll(closed, none, other) ==
    \E r \in {Poll(oks) : oks \in Outcomes} :
        /\ evq' = r.u.evq /\ lost' = r.u.lost /\ win' = r.u.win /\ size' = r.u.size /\ xq' = r.u.out
        /\ canvas' = IF r.e.type = "RESIZE" THEN r.e.size ELSE canvas
        /\ quit' = (quit \/ r.e.type = "ESCAPE" \/ (loop = "library" /\ r.e.type = "CLOSE"))
        /\ pc' = CASE r.e.type = "CLOSE" -> closed [] r.e.type = "NONE" -> none [] OTHER -> other
        /\ UNCHANGED <<grip, loop, overlapped, inputs, resizes>>

-----------------------------------------------------------------------------
(***************************************************************************)
(* The main loop.                                                          *)
(***************************************************************************)

outside == <<size, grip, xq, loop, overlapped, inputs, resizes>>

(* A program that calls bot_event_quit while it sets itself up.            *)
bot_event_quit ==
    /\ pc = "setup" /\ ~quit
    /\ quit' = TRUE
    /\ evq' = bot_event_push(Now, E("CLOSE")).evq
    /\ UNCHANGED <<lost, win, canvas, pc, outside>>

(* bot_event_loop clears the flag first; the close event stays.            *)
EnterLoop ==
    /\ pc = "setup"
    /\ quit' = FALSE /\ pc' = "top"
    /\ UNCHANGED <<evq, lost, win, canvas, outside>>

(* Mutant of Top: the loop does not ask whether the window should close. *)
TopForever ==
    /\ pc = "top"
    /\ pc' = IF loop = "own" THEN "drain" ELSE IF quit THEN "done" ELSE "wait"
    /\ UNCHANGED <<evq, lost, win, canvas, quit, outside>>

(* while (!bot_window_should_close(g_window)), while (!g_quit_requested).  *)
Top ==
    /\ pc = "top"
    /\ pc' = IF loop = "own" THEN (IF win.close THEN "done" ELSE "drain")
                             ELSE (IF quit THEN "done" ELSE "wait")
    /\ UNCHANGED <<evq, lost, win, canvas, quit, outside>>

(* while (bot_event_poll(&event)) if (event.type == BOT_EVENT_CLOSE) ...   *)
Drain ==
    /\ pc = "drain"
    /\ bot_event_poll("done", "render", "drain")

(* The canvas is copied into the framebuffer and shown.                    *)
Render ==
    /\ pc = "render" /\ pc' = "wait"
    /\ UNCHANGED <<evq, lost, win, canvas, quit, outside>>

(* bot_event_wait returns an event, or none after 16 ms.                   *)
Wait ==
    /\ pc = "wait"
    /\ bot_event_poll(IF loop = "own" THEN "done" ELSE "top", "top", "top")

AppStep == bot_event_quit \/ EnterLoop \/ Top \/ Drain \/ Render \/ Wait

-----------------------------------------------------------------------------
(* The user, through the X server.                                         *)
Settled == /\ \A i \in DOMAIN xq : xq[i].type \notin {"configure", "maximize"}
           /\ \A i \in DOMAIN evq : evq[i].type # "RESIZE"

Input(t) ==
    /\ inputs < MaxInputs /\ Len(xq) < MaxPending
    /\ xq' = Append(xq, E(t))
    /\ overlapped' = IF t = "maximize" /\ ~Settled THEN TRUE ELSE overlapped
    /\ inputs' = inputs + 1
    /\ UNCHANGED <<size, grip, evq, lost, win, canvas, loop, quit, pc, resizes>>

(* wm_handle_motion (botdesk.c) while the grip of the frame is dragged: at *)
(* every motion.                                                           *)
GripResize(s) ==
    /\ resizes < MaxResizes /\ Len(xq) < MaxPending
    /\ s # size
    /\ grip' = s /\ size' = s
    /\ xq' = Append(xq, [type |-> "configure", size |-> s])
    /\ overlapped' = IF Settled THEN overlapped ELSE TRUE
    /\ resizes' = resizes + 1
    /\ UNCHANGED <<evq, lost, win, canvas, loop, quit, pc, inputs>>

Outside ==
    /\ pc # "done"
    /\ \/ \E t \in {"input", "escape", "maximize", "close", "delete"} : Input(t)
       \/ \E s \in Size : GripResize(s)

Ended == pc = "done" /\ UNCHANGED uiVars

ToolkitNext == AppStep \/ Outside \/ Ended

(* An application's loop never stops by itself; nobody has to click.       *)
ToolkitSpec == ToolkitInit /\ [][ToolkitNext]_uiVars /\ WF_uiVars(AppStep)

-----------------------------------------------------------------------------
ToolkitTypeOK ==
    /\ size \in Size /\ grip \in Size /\ canvas \in Size
    /\ xq \in Seq(XEvent)
    /\ evq \in Seq(BotEvent) /\ Len(evq) <= QueueSize
    /\ lost \subseteq {"INPUT", "ESCAPE", "CLOSE", "RESIZE"}
    /\ win \in [size : Size, orig : Size, maximized : BOOLEAN, close : BOOLEAN, short : BOOLEAN]
    /\ loop \in {"own", "library"} /\ quit \in BOOLEAN
    /\ pc \in {"setup", "top", "drain", "render", "wait", "done"}
    /\ overlapped \in BOOLEAN /\ inputs \in 0 .. MaxInputs /\ resizes \in 0 .. MaxResizes

(***************************************************************************)
(* When a frame is drawn, the canvas that is copied and the framebuffer it *)
(* is copied into have the same size, whoever resized the window since the *)
(* last one: the title bar (at once, in the pump), the frame's grip or the *)
(* handler.  Only a resize event dropped from a full queue breaks this, or *)
(* a framebuffer there was no memory for: the canvas grows without it.     *)
(***************************************************************************)
CopyFits == pc = "render" /\ "RESIZE" \notin lost /\ ~win.short => canvas = win.size

(* The canvas lags behind the framebuffer only while a resize event is on  *)
(* its way to the handler or memory was short, and a frame is drawn when   *)
(* none is; before the loop nothing is.                                    *)
LagsByEvent ==
    /\ \/ win.short \/ "RESIZE" \in lost \/ \E i \in DOMAIN evq : evq[i].type = "RESIZE"
       \/ canvas = win.size
    /\ pc = "render" \/ (pc = "setup" /\ ~quit) => evq = <<>>

(***************************************************************************)
(* A click on the close button ends the program even when its close event  *)
(* is dropped from the queue, unless resizes that overlap keep the queue   *)
(* from ever being empty (SizesSettle).  Any other close event ends it     *)
(* unless it is dropped, also that of a bot_event_quit before              *)
(* bot_event_loop, which clears the flag; a quit within bot_event_loop     *)
(* ends it whatever is lost.                                               *)
(***************************************************************************)
CloseEnds ==
    /\ (win.close /\ loop = "own") ~> (pc = "done" \/ ("CLOSE" \in lost /\ overlapped))
    /\ (\E i \in DOMAIN evq : evq[i].type = "CLOSE") ~> (pc = "done" \/ "CLOSE" \in lost)
    /\ (quit /\ loop = "library" /\ pc # "setup") ~> pc = "done"

(***************************************************************************)
(* Whenever no resize is under way between the server, the queue and the   *)
(* handler, the window at the server, its framebuffer and the application  *)
(* agree on the size, however many resizes came one upon the other; unless *)
(* a resize event was dropped or memory was short.                         *)
(***************************************************************************)
SizesAgree == Settled /\ "RESIZE" \notin lost /\ ~win.short => size = win.size /\ canvas = win.size

(***************************************************************************)
(* "Keep window.c's own framebuffer in sync with the new size too"         *)
(* (botterm.c:303): once nobody resizes the window any more, the           *)
(* framebuffer, the canvas and the window at the server settle on one      *)
(* size, unless the program ends, an event was dropped or memory was short *)
(* - or a resize came before an earlier one was through, as while a grip   *)
(* is dragged: the sizes the handler asks the server for and those the     *)
(* server reports may then follow each other for ever.                     *)
(***************************************************************************)
SizesSettle ==
    \/ \E s \in Size : <>[](size = s /\ canvas = s /\ win.size = s)
    \/ <>(pc = "done" \/ lost # {} \/ win.short \/ overlapped)

(* No frame is copied beyond the framebuffer or short of it.               *)
ToolkitInv == ToolkitTypeOK /\ LagsByEvent /\ CopyFits
=============================================================================
