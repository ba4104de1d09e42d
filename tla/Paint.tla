------------------------------- MODULE Paint --------------------------------
(***************************************************************************)
(* BotPaint (apps/botpaint/src/botpaint.c): the picture, its one undo      *)
(* buffer, the window they must fit, the strokes of the mouse, and the     *)
(* dialogs that open and save an image file.                               *)
(*                                                                         *)
(* A picture is its size and one of a few contents; what a stroke paints,  *)
(* and what resizing keeps, is any of them (FloodFill and Canvas say what  *)
(* is painted).  The size of the window is that of the picture it has room *)
(* for.  Every event of the mouse arrives.  Memory for a canvas or for   *)
(* the undo buffer may be short.                                           *)
(***************************************************************************)
EXTENDS Integers

CONSTANTS
    Frame, Default,     \* sizes, and the one the window starts with
    Ink, Background,         \* contents, and that of an empty picture
    Null,               \* no canvas; no undo buffer
    Absent, Garbage,    \* no file; one that is not an image
    NoPixels            \* an image file that no canvas can be made for (0 by 0)

Sheet == [size : Frame, ink : Ink]

ASSUME PaintAssumption == Default \in Frame /\ Background \in Ink /\ Null \notin Sheet

Contents == Sheet \cup {Absent, Garbage, NoPixels}

VARIABLES
    image,          \* g_canvas
    frame,          \* g_width and g_height
    undo,           \* g_undo_buf
    tool,           \* pen, shape (line, rectangle, circle), fill
    drawing,        \* g_drawing
    asking,         \* g_show_dialog
    name,           \* g_dialog_filename: none, bare, full (with its extension)
    file,           \* the file of the full name; there is none of the bare one
    pressed,        \* buttons of the mouse that are down
    alive,          \* yes, quit, crashed
    prior,          \* the picture before the last stroke or clear
    tangled,        \* a dialog was opened in the middle of a stroke
    emptied         \* a canvas could not be made: a file without pixels, or no memory

paintVars == <<image, frame, undo, tool, drawing, asking, name, file, pressed, alive,
               prior, tangled, emptied>>

Sized(s) == [size |-> s, ink |-> Background]

(* main: with a file to open, the window gets the size of its image.  If   *)
(* there is no canvas then, the program ends at once.                      *)
PaintInit ==
    /\ file \in Contents /\ name \in {"none", "full"}
    /\ \/ image = Null
       \/ (name = "none" \/ file \in {Absent, Garbage}) /\ image = Sized(Default)
       \/ name = "full" /\ file \in Sheet /\ image = file
    /\ frame = IF image = Null THEN Default ELSE image.size
    /\ alive = IF image = Null THEN "quit" ELSE "yes"
    /\ emptied = (image = Null) /\ undo = Null /\ prior = image
    /\ tool = "pen" /\ drawing = FALSE /\ asking = "no" /\ pressed = 0 /\ tangled = FALSE

-----------------------------------------------------------------------------
Painted == {p \in Sheet : image # Null /\ p.size = image.size}

(* What a stroke makes of the picture, or of none.                         *)
Stroke == image' \in IF image = Null THEN {Null} ELSE Painted

(* Copies the picture, to a buffer that may be had or not; without a       *)
(* picture there is nothing to copy from.                                  *)
save_undo ==
    \/ undo = Null /\ prior' = image /\ UNCHANGED <<undo, alive>>
    \/ image # Null /\ undo' = image /\ prior' = image /\ UNCHANGED alive
    \/ image = Null /\ alive' = "crashed" /\ UNCHANGED <<undo, prior>>

do_undo ==
    /\ image' = IF undo = Null \/ image = Null THEN image ELSE undo
    /\ alive' = IF undo # Null /\ image = Null THEN "crashed" ELSE alive
    /\ UNCHANGED undo

(* Mutant of botpaint_load: the undo buffer is kept. *)
LoadKeepsUndo ==
    IF name # "full" \/ file \in {Absent, Garbage}
    THEN UNCHANGED <<image, frame, undo, emptied>>
    ELSE /\ image' = IF file = NoPixels THEN Null ELSE file
         /\ frame' = IF file = NoPixels THEN frame ELSE file.size
         /\ emptied' = (emptied \/ file = NoPixels)
         /\ UNCHANGED undo

(* The old canvas goes before one of another size is made, which may fail; *)
(* the undo buffer goes with a picture that was loaded.                    *)
botpaint_load ==
    IF name # "full" \/ file \in {Absent, Garbage}
    THEN UNCHANGED <<image, frame, undo, emptied>>
    ELSE \/ /\ file # NoPixels
            /\ image' = file /\ frame' = file.size /\ undo' = Null /\ UNCHANGED emptied
         \/ /\ file # NoPixels /\ image # Null => image.size # file.size
            /\ image' = Null /\ emptied' = TRUE /\ UNCHANGED <<frame, undo>>

(* A name without extension gets one.  The file may refuse to be opened.   *)
botpaint_save ==
    \/ name' = "full" /\ file' = IF image = Null THEN NoPixels ELSE image
    \/ UNCHANGED <<name, file>>

(* OK or Enter in a dialog, whatever comes of it.                          *)
Confirm ==
    /\ asking' = "no"
    /\ IF name = "none" THEN UNCHANGED <<image, frame, undo, emptied, name, file>>
       ELSE IF asking = "open" THEN botpaint_load /\ UNCHANGED <<name, file>>
       ELSE botpaint_save /\ UNCHANGED <<image, frame, undo, emptied>>

Cancel == asking' = "no" /\ UNCHANGED <<image, frame, undo, emptied, name, file>>

-----------------------------------------------------------------------------
(***************************************************************************)
(* The events.  Up to two buttons are down at a time; BotUI makes no       *)
(* difference between them.                                                *)
(***************************************************************************)
still == <<image, frame, undo, emptied, name, file, alive>>

on_dialog_mouse_down ==
    /\ alive = "yes" /\ pressed < 2 /\ pressed' = pressed + 1 /\ asking # "no"
    /\ \/ Confirm
       \/ Cancel
       \/ UNCHANGED <<asking, image, frame, undo, emptied, name, file>>
    /\ UNCHANGED <<tool, drawing, alive, prior, tangled>>

(* A click in the toolbar: a tool, a colour, or a dialog.                  *)
ToolbarClick ==
    /\ alive = "yes" /\ pressed < 2 /\ pressed' = pressed + 1 /\ asking = "no"
    /\ \/ tool' \in {"pen", "shape", "fill"} /\ UNCHANGED <<asking, tangled>>
       \/ asking' \in {"open", "save"} /\ tangled' = drawing /\ UNCHANGED tool
    /\ UNCHANGED <<still, drawing, prior>>

(* A stroke begins; a fill is over at once.                                *)
CanvasPress ==
    /\ alive = "yes" /\ pressed < 2 /\ pressed' = pressed + 1 /\ asking = "no"
    /\ save_undo
    /\ IF tool = "shape" \/ alive' = "crashed" THEN UNCHANGED image ELSE Stroke
    /\ drawing' = (tool # "fill")
    /\ tangled' = (tangled /\ drawing')
    /\ UNCHANGED <<frame, tool, asking, name, file, emptied>>

on_mouse_move ==
    /\ alive = "yes" /\ asking = "no" /\ drawing /\ tool = "pen"
    /\ Stroke
    /\ UNCHANGED <<frame, undo, tool, drawing, asking, name, file, pressed, alive,
                   prior, tangled, emptied>>

(* A button goes up: it ends the stroke, unless a dialog is there.         *)
on_mouse_up ==
    /\ alive = "yes" /\ pressed > 0 /\ pressed' = pressed - 1
    /\ IF asking # "no" \/ ~drawing THEN UNCHANGED <<image, drawing, tangled>>
       ELSE /\ drawing' = FALSE /\ tangled' = FALSE
            /\ IF tool = "shape" THEN Stroke ELSE UNCHANGED image
    /\ UNCHANGED <<frame, undo, tool, asking, name, file, alive, prior, emptied>>

(* Escape and Enter; a key of the name, of which any name may come.        *)
on_dialog_key_down ==
    /\ alive = "yes" /\ asking # "no"
    /\ \/ Confirm
       \/ Cancel
       \/ name' \in {"none", "bare", "full"} /\ UNCHANGED <<image, frame, undo, emptied, file, asking>>
    /\ UNCHANGED <<tool, drawing, pressed, alive, prior, tangled>>

(* Tools, clear, undo and Escape.                                          *)
on_key_down ==
    /\ alive = "yes" /\ asking = "no"
    /\ \/ tool' \in {"pen", "shape", "fill"} /\ UNCHANGED <<image, undo, alive, prior>>
       \/ /\ save_undo /\ UNCHANGED tool
          /\ image' = IF image = Null THEN Null ELSE Sized(image.size)
       \/ do_undo /\ UNCHANGED <<tool, prior>>
       \/ alive' = "quit" /\ UNCHANGED <<image, undo, tool, prior>>
    /\ UNCHANGED <<frame, drawing, asking, name, file, pressed, tangled, emptied>>

(* The window has another size, or is told its own again.  The new canvas  *)
(* replaces the old one also when there was no memory for it.              *)
on_resize ==
    /\ alive = "yes"
    /\ frame' \in Frame /\ undo' = Null
    /\ \/ /\ image' \in IF image = Null THEN {Sized(frame')} ELSE {p \in Sheet : p.size = frame'}
          /\ UNCHANGED emptied
       \/ image' = Null /\ emptied' = TRUE
    /\ UNCHANGED <<tool, drawing, asking, name, file, pressed, alive, prior, tangled>>

(* The close button, of the window or of its frame.                        *)
Closing == alive = "yes" /\ alive' = "quit"
           /\ UNCHANGED <<image, frame, undo, tool, drawing, asking, name, file, pressed,
                          prior, tangled, emptied>>

PaintNext ==
    \/ on_dialog_mouse_down \/ ToolbarClick \/ CanvasPress \/ on_mouse_move \/ on_mouse_up
    \/ on_dialog_key_down \/ on_key_down \/ on_resize \/ Closing

PaintSpec == PaintInit /\ [][PaintNext]_paintVars

-----------------------------------------------------------------------------
PaintTypeOK ==
    /\ image \in Sheet \cup {Null} /\ undo \in Sheet \cup {Null} /\ frame \in Frame
    /\ tool \in {"pen", "shape", "fill"} /\ drawing \in BOOLEAN
    /\ asking \in {"no", "open", "save"} /\ name \in {"none", "bare", "full"}
    /\ file \in Contents /\ pressed \in 0 .. 2 /\ alive \in {"yes", "quit", "crashed"}

(* The copies between the canvas, the undo buffer and the window, which    *)
(* all take the size of the window, stay within them.                      *)
SizesAgree ==
    /\ image # Null => image.size = frame
    /\ undo # Null => undo.size = frame

(* What Ctrl-Z brings back is the picture before the last stroke.          *)
UndoIsPrior == undo # Null => undo = prior

(* The pen draws only while a button is down, but for a dialog that was    *)
(* opened with another button during the stroke.                           *)
StrokeHeld ==
    /\ drawing => pressed > 0 \/ tangled
    /\ drawing /\ asking # "no" => tangled

(* Nothing but a file without pixels, or a canvas there was no memory for, *)
(* can lose the canvas or bring the program down.                          *)
CrashDeserved == alive = "crashed" \/ image = Null => emptied

(***************************************************************************)
(* However strokes, dialogs, files and sizes of the window follow each     *)
(* other, BotPaint's buffers fit each other and its strokes end.           *)
(***************************************************************************)
PaintInv == PaintTypeOK /\ SizesAgree /\ UndoIsPrior /\ StrokeHeld /\ CrashDeserved
=============================================================================
