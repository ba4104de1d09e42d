----------------------------- MODULE MCDesktop ------------------------------
(***************************************************************************)
(* BotDesk among programs, or BotPaint as one of them, for TLC: part names *)
(* the one that runs, and the other stays as it is.  The programs of       *)
(* BotDesk are interchangeable.                                            *)
(***************************************************************************)
EXTENDS WindowManager, Paint, TLC

VARIABLE part

Perms == Permutations(Client)

(* A program that was closed.                                              *)
PaintIdle ==
    /\ file = Absent /\ name = "none" /\ image = Sized(Default) /\ frame = Default
    /\ undo = Null /\ prior = image /\ emptied = FALSE /\ alive = "quit"
    /\ tool = "pen" /\ drawing = FALSE /\ asking = "no" /\ pressed = 0 /\ tangled = FALSE

Init ==
    /\ part \in {"desktop", "paint"}
    /\ WMInit
    /\ IF part = "paint" THEN PaintInit ELSE PaintIdle

Next ==
    /\ \/ part = "desktop" /\ WMNext    /\ UNCHANGED paintVars
       \/ part = "paint"   /\ PaintNext /\ UNCHANGED wmVars
    /\ UNCHANGED part

Spec == Init /\ [][Next]_<<wmVars, paintVars, part>>
=============================================================================
