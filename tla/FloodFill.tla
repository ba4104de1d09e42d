----------------------------- MODULE FloodFill ------------------------------
(***************************************************************************)
(* The fill tool of BotPaint (apps/botpaint/src/botpaint.c, flood_fill):   *)
(* a stack of pixels, and for each one taken from it the run of its row.   *)
(*                                                                         *)
(* A pixel is a pair of coordinates.  An allocation may fail whenever one  *)
(* is made.                                                                *)
(***************************************************************************)
EXTENDS Integers, Sequences

CONSTANTS
    Columns, Lines,     \* of the picture
    Colour,
    Picture,            \* pictures to begin with
    InitialCap          \* room of the first stack (cap = 4096)

Point == (0 .. Columns - 1) \X (0 .. Lines - 1)

ASSUME FloodFillAssumption ==
    /\ Columns \in Nat \ {0} /\ Lines \in Nat \ {0}
    /\ Picture \subseteq [Point -> Colour]
    /\ InitialCap \in Nat /\ InitialCap >= 2

VARIABLES
    before,         \* the picture when the tool was used
    start, fill,    \* where, and with which colour
    pic,            \* the picture now
    stack,          \* of pixels to look at
    cap, room,      \* what the code takes for the size of the stack; its size
    at,             \* the pixel that was taken from it
    left, right,    \* the run of its row
    i,              \* of the loop over the run
    short,          \* an allocation failed
    fpc             \* pop, left, right, push; done; beyond: wrote past the stack

fillVars == <<before, start, fill, pic, stack, cap, room, at, left, right, i, short, fpc>>

given == <<before, start, fill>>

-----------------------------------------------------------------------------
target == before[start]

(* A click outside the picture or on the colour itself does nothing.       *)
FillInit ==
    /\ before \in Picture /\ start \in Point \cup {<<Columns, 0>>} /\ fill \in Colour
    /\ pic = before
    /\ cap = InitialCap /\ room = InitialCap
    /\ at = start /\ left = 0 /\ right = 0 /\ i = 0
    /\ IF start \in Point /\ target # fill
       THEN \/ stack = <<start>> /\ short = FALSE /\ fpc = "pop"
            \/ stack = <<>> /\ short = TRUE /\ fpc = "done"
       ELSE stack = <<>> /\ short = FALSE /\ fpc = "done"

(* A pixel that was filled meanwhile is passed over.                       *)
Pop ==
    /\ fpc = "pop"
    /\ IF stack = <<>>
       THEN fpc' = "done" /\ UNCHANGED <<stack, at, left, right>>
       ELSE LET p == stack[Len(stack)] IN
            /\ stack' = SubSeq(stack, 1, Len(stack) - 1)
            /\ IF pic[p] = target
               THEN at' = p /\ left' = p[1] /\ right' = p[1] /\ fpc' = "left"
               ELSE UNCHANGED <<at, left, right, fpc>>
    /\ UNCHANGED <<given, pic, cap, room, i, short>>

ScanLeft ==
    /\ fpc = "left"
    /\ IF left > 0 /\ pic[<<left - 1, at[2]>>] = target
       THEN left' = left - 1 /\ UNCHANGED fpc
       ELSE fpc' = "right" /\ UNCHANGED left
    /\ UNCHANGED <<given, pic, stack, cap, room, at, right, i, short>>

(* Mutant of ScanRight: the run ends one pixel before the last column. *)
ScanRightShort ==
    /\ fpc = "right"
    /\ IF right < Columns - 2 /\ pic[<<right + 1, at[2]>>] = target
       THEN right' = right + 1 /\ UNCHANGED <<fpc, pic, i>>
       ELSE /\ fpc' = "push" /\ i' = left
            /\ pic' = [q \in Point |-> IF q[2] = at[2] /\ left <= q[1] /\ q[1] <= right
                                       THEN fill ELSE pic[q]]
            /\ UNCHANGED right
    /\ UNCHANGED <<given, stack, cap, room, at, left, short>>

(* The whole run is known, and painted.                                    *)
ScanRight ==
    /\ fpc = "right"
    /\ IF right < Columns - 1 /\ pic[<<right + 1, at[2]>>] = target
       THEN right' = right + 1 /\ UNCHANGED <<fpc, pic, i>>
       ELSE /\ fpc' = "push" /\ i' = left
            /\ pic' = [q \in Point |-> IF q[2] = at[2] /\ left <= q[1] /\ q[1] <= right
                                       THEN fill ELSE pic[q]]
            /\ UNCHANGED right
    /\ UNCHANGED <<given, stack, cap, room, at, left, short>>

Tight == Len(stack) + 2 >= cap

(* What lies above and below the i-th pixel of the run, if it is to be     *)
(* filled.                                                                 *)
Wanted(x, y) == IF y \in 0 .. Lines - 1 /\ pic[<<x, y>>] = target THEN <<<<x, y>>>> ELSE <<>>

(* The stack grows first; a write past its end has no defined outcome.     *)
Push ==
    LET pushed == stack \o Wanted(i, at[2] - 1) \o Wanted(i, at[2] + 1)
    IN
    /\ fpc = "push" /\ i <= right
    /\ cap' = IF Tight THEN 2 * cap ELSE cap
    /\ room' = IF Tight THEN cap' ELSE room
    /\ IF Len(pushed) <= room'
       THEN stack' = pushed /\ i' = i + 1 /\ UNCHANGED fpc
       ELSE fpc' = "beyond" /\ UNCHANGED <<stack, i>>
    /\ UNCHANGED <<given, pic, at, left, right, short>>

(* realloc fails: the rest of the run is not looked at, but cap has been   *)
(* doubled.                                                                *)
PushFails ==
    /\ fpc = "push" /\ i <= right /\ Tight
    /\ cap' = 2 * cap /\ short' = TRUE /\ fpc' = "pop"
    /\ UNCHANGED <<given, pic, stack, room, at, left, right, i>>

RunDone ==
    /\ fpc = "push" /\ i > right
    /\ fpc' = "pop"
    /\ UNCHANGED <<given, pic, stack, cap, room, at, left, right, i, short>>

FillStep == Pop \/ ScanLeft \/ ScanRight \/ Push \/ PushFails \/ RunDone

FillNext == FillStep

FillSpec == FillInit /\ [][FillNext]_fillVars /\ WF_fillVars(FillStep)

-----------------------------------------------------------------------------
Near(p) == {q \in Point : \/ q[2] = p[2] /\ q[1] \in {p[1] - 1, p[1] + 1}
                          \/ q[1] = p[1] /\ q[2] \in {p[2] - 1, p[2] + 1}}

(* No pixel of the colour that was hit is next to such a set but not in it. *)
Sealed(S) == \A p \in S : \A q \in Near(p) : before[q] = target => q \in S

(* What hangs together with the start: in every closed set that has it.    *)
Region ==
    IF start \notin Point THEN {}
    ELSE LET around == {S \in SUBSET Point : start \in S /\ Sealed(S)}
         IN  {q \in Point : \A S \in around : q \in S}

Stacked == {stack[k] : k \in 1 .. Len(stack)}

(* The pixels of the row that the scan has covered.                        *)
Run == {q \in Point : q[2] = at[2] /\ left <= q[1] /\ q[1] <= right}

Working == fpc \in {"pop", "left", "right", "push"}

FillTypeOK ==
    /\ before \in [Point -> Colour] /\ pic \in [Point -> Colour]
    /\ start \in Point \cup {<<Columns, 0>>} /\ fill \in Colour
    /\ stack \in Seq(Point) /\ cap \in Nat /\ room \in Nat
    /\ at \in Point \cup {<<Columns, 0>>} /\ left \in Int /\ right \in Int /\ i \in Int
    /\ short \in BOOLEAN
    /\ fpc \in {"pop", "left", "right", "push", "done", "beyond"}

(* Nothing is painted, or waits to be, beyond what hangs together.         *)
Within ==
    /\ \A q \in Point : pic[q] # before[q] => pic[q] = fill /\ before[q] = target /\ q \in Region
    /\ Stacked \subseteq Region
    /\ fpc \in {"left", "right", "push"} => Run \subseteq Region
    /\ fpc \in {"left", "right"} => \A q \in Run : pic[q] = target

(* The run is within the row, and as long as it can be.                    *)
RunOK ==
    fpc \in {"left", "right", "push"} =>
        /\ at \in Point /\ 0 <= left /\ left <= at[1] /\ at[1] <= right /\ right < Columns
        /\ fpc = "left" => right = at[1]
        /\ fpc = "right" /\ left > 0 => pic[<<left - 1, at[2]>>] # target
        /\ fpc = "push" => left <= i

RoomOK == ~short => room = cap /\ cap >= 2 /\ Len(stack) <= cap /\ fpc # "beyond"

(* What is still to be painted is on the stack, or in the run, or next to  *)
(* a pixel of the run that the last loop has not come to.                  *)
Pending(q) == q \in Stacked \/ (fpc \in {"left", "right"} /\ q \in Run)

Frontier ==
    ~short /\ start \in Point /\ target # fill =>
        /\ pic[start] = target => Pending(start)
        /\ \A p \in Point : \A q \in Near(p) :
              pic[p] = fill /\ before[p] = target /\ pic[q] = target =>
                  \/ Pending(q)
                  \/ fpc = "push" /\ p \in Run /\ i <= p[1] /\ q[1] = p[1]

FillInv ==
    /\ FillTypeOK
    /\ Working => start \in Point /\ target # fill
    /\ fpc = "done" => stack = <<>>
    /\ Within /\ RunOK /\ RoomOK /\ Frontier

(***************************************************************************)
(* The fill colours the whole of what hangs together with the pixel that   *)
(* was hit, and nothing else; it may leave some out only when an           *)
(* allocation failed.                                                      *)
(***************************************************************************)
FillIsRegion ==
    fpc = "done" =>
        /\ \A q \in Point : pic[q] # before[q] => pic[q] = fill /\ q \in Region
        /\ short \/ \A q \in Region : pic[q] = fill

(* The stack is never written past its end, unless it could not grow.      *)
StackFits == fpc = "beyond" => short

(* A picture that was filled is one that the user meant.                   *)
FillSafe == FillIsRegion /\ StackFits

(* The tool comes to an end.                                               *)
FillEnds == <>(fpc \in {"done", "beyond"})
=============================================================================
