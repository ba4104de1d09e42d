------------------------------- MODULE Canvas -------------------------------
(***************************************************************************)
(* The drawing calls of BotUI (sdk/botui/src/canvas.c): one call on a      *)
(* canvas, its loop step by step.                                          *)
(*                                                                         *)
(* A pixel is a pair of coordinates; hits counts how often the call writes *)
(* it, which is what a colour that is not opaque makes visible.  The       *)
(* colour is one channel, and only the call of a single pixel has one.     *)
(***************************************************************************)
EXTENDS Integers

CONSTANTS
    Width, Height,      \* of the canvas
    Coord, Extent,      \* arguments of a call: coordinates; radii and sizes
    Level               \* values of a channel and of alpha

ASSUME CanvasAssumption ==
    /\ Width \in Nat \ {0} /\ Height \in Nat \ {0}
    /\ Coord \subseteq Int /\ Extent \subseteq Int
    /\ Level \subseteq 0 .. 255

VARIABLES
    call,       \* the operation and its arguments
    hits,       \* writes per pixel of the canvas: none, one, or more
    x, y, err,  \* of the loop; err is d in a circle
    drawing     \* the loop runs

canvasVars == <<call, hits, x, y, err, drawing>>

Pixel == (0 .. Width - 1) \X (0 .. Height - 1)

Abs(n) == IF n < 0 THEN -n ELSE n
Sign(a, b) == IF a < b THEN 1 ELSE -1
Lower(a, b) == IF a < b THEN a ELSE b
Upper(a, b) == IF a < b THEN b ELSE a

-----------------------------------------------------------------------------
(* One more write; two stand for any number of them.                       *)
More(n) == IF n = 0 THEN 1 ELSE 2

put_pixel(h, p) == IF p \in Pixel THEN [h EXCEPT ![p] = More(@)] ELSE h

(* hline and vline: both ends in any order, what is off the canvas left out. *)
hline(h, x1, x2, row) ==
    [p \in Pixel |-> IF p[2] = row /\ Lower(x1, x2) <= p[1] /\ p[1] <= Upper(x1, x2)
                     THEN More(h[p]) ELSE h[p]]

vline(h, col, y1, y2) ==
    [p \in Pixel |-> IF p[1] = col /\ Lower(y1, y2) <= p[2] /\ p[2] <= Upper(y1, y2)
                     THEN More(h[p]) ELSE h[p]]

Blank == [p \in Pixel |-> 0]

(* One channel of SRC_OVER.                                                *)
alpha_blend(dst, src, a) == (src * a + dst * (255 - a)) \div 255

-----------------------------------------------------------------------------
Begin(c) == call' = c /\ call.op = "none"

(* A call without a loop that matters.                                     *)
Atomic(h) == hits' = h /\ drawing' = FALSE /\ UNCHANGED <<x, y, err>>

(* put_pixel with a colour: opaque, transparent or blended.                *)
bot_canvas_set_pixel(dst, src, a) ==
    /\ Begin([op |-> "pixel", dst |-> dst, src |-> src,
              now |-> IF a = 255 THEN src ELSE IF a = 0 THEN dst ELSE alpha_blend(dst, src, a)])
    /\ Atomic(Blank)

(* Straight down or across at once, any other line by its loop.            *)
bot_canvas_draw_line(x1, y1, x2, y2) ==
    /\ Begin([op |-> "line", x1 |-> x1, y1 |-> y1, x2 |-> x2, y2 |-> y2])
    /\ IF y1 = y2 THEN Atomic(hline(Blank, x1, x2, y1))
       ELSE IF x1 = x2 THEN Atomic(vline(Blank, x1, y1, y2))
       ELSE /\ x' = x1 /\ y' = y1 /\ err' = Abs(x2 - x1) - Abs(y2 - y1)
            /\ drawing' = TRUE /\ hits' = Blank

(* Mutant of LineStep: the second test is an else. *)
LineStepElse ==
    LET dx == Abs(call.x2 - call.x1)
        dy == -Abs(call.y2 - call.y1)
        e2 == 2 * err
    IN
    /\ drawing /\ call.op = "line"
    /\ hits' = put_pixel(hits, <<x, y>>)
    /\ IF x = call.x2 /\ y = call.y2
       THEN drawing' = FALSE /\ UNCHANGED <<x, y, err>>
       ELSE /\ x' = IF e2 >= dy THEN x + Sign(call.x1, call.x2) ELSE x
            /\ y' = IF e2 < dy THEN y + Sign(call.y1, call.y2) ELSE y
            /\ err' = err + (IF e2 >= dy THEN dy ELSE dx)
            /\ UNCHANGED drawing
    /\ UNCHANGED call

LineStep ==
    LET dx == Abs(call.x2 - call.x1)
        dy == -Abs(call.y2 - call.y1)
        e2 == 2 * err
    IN
    /\ drawing /\ call.op = "line"
    /\ hits' = put_pixel(hits, <<x, y>>)
    /\ IF x = call.x2 /\ y = call.y2
       THEN drawing' = FALSE /\ UNCHANGED <<x, y, err>>
       ELSE /\ x' = IF e2 >= dy THEN x + Sign(call.x1, call.x2) ELSE x
            /\ y' = IF e2 <= dx THEN y + Sign(call.y1, call.y2) ELSE y
            /\ err' = err + (IF e2 >= dy THEN dy ELSE 0) + (IF e2 <= dx THEN dx ELSE 0)
            /\ UNCHANGED drawing
    /\ UNCHANGED call

bot_canvas_draw_rect(x1, y1, w, h) ==
    /\ Begin([op |-> "rect", x1 |-> x1, y1 |-> y1, w |-> w, h |-> h])
    /\ Atomic(IF w <= 0 \/ h <= 0 THEN Blank
              ELSE vline(vline(hline(hline(Blank, x1, x1 + w - 1, y1), x1, x1 + w - 1, y1 + h - 1),
                               x1, y1, y1 + h - 1), x1 + w - 1, y1, y1 + h - 1))

(* Clipped to the canvas first, then row by row.                           *)
bot_canvas_fill_rect(x1, y1, w, h) ==
    LET left == Upper(x1, 0)   right  == Lower(x1 + w, Width)
        top  == Upper(y1, 0)   bottom == Lower(y1 + h, Height)
    IN
    /\ Begin([op |-> "box", x1 |-> x1, y1 |-> y1, w |-> w, h |-> h])
    /\ Atomic([p \in Pixel |-> IF /\ w > 0 /\ h > 0
                                  /\ left <= p[1] /\ p[1] < right
                                  /\ top <= p[2] /\ p[2] < bottom THEN 1 ELSE 0])

(* bot_canvas_draw_circle and bot_canvas_fill_circle.                      *)
Circle(op, cx, cy, r) ==
    /\ Begin([op |-> op, x1 |-> cx, y1 |-> cy, r |-> r])
    /\ hits' = Blank /\ drawing' = (r > 0)
    /\ x' = r /\ y' = 0 /\ err' = 1 - r

(* The eight points of draw_circle, and the four rows of fill_circle.      *)
Plotted ==
    LET cx == call.x1
        cy == call.y1
    IN IF call.op = "circle"
       THEN LET p(a, b, c, d, h) == put_pixel(put_pixel(put_pixel(put_pixel(h, a), b), c), d)
            IN p(<<cx + y, cy + x>>, <<cx - y, cy + x>>, <<cx + y, cy - x>>, <<cx - y, cy - x>>,
                 p(<<cx + x, cy + y>>, <<cx - x, cy + y>>, <<cx + x, cy - y>>, <<cx - x, cy - y>>, hits))
       ELSE hline(hline(hline(hline(hits, cx - x, cx + x, cy + y), cx - x, cx + x, cy - y),
                        cx - y, cx + y, cy + x), cx - y, cx + y, cy - x)

CircleStep ==
    /\ drawing /\ call.op \in {"circle", "disc"}
    /\ IF x < y
       THEN drawing' = FALSE /\ UNCHANGED <<hits, x, y, err>>
       ELSE /\ hits' = Plotted
            /\ y' = y + 1
            /\ x' = IF err <= 0 THEN x ELSE x - 1
            /\ err' = err + (IF err <= 0 THEN 2 * y' + 1 ELSE 2 * (y' - x') + 1)
            /\ UNCHANGED drawing
    /\ UNCHANGED call

-----------------------------------------------------------------------------
CanvasInit ==
    /\ call = [op |-> "none"] /\ hits = Blank /\ drawing = FALSE
    /\ x = 0 /\ y = 0 /\ err = 0

CanvasNext ==
    \/ \E dst, src, a \in Level : bot_canvas_set_pixel(dst, src, a)
    \/ \E x1, y1 \in Coord :
          \/ \E x2, y2 \in Coord : bot_canvas_draw_line(x1, y1, x2, y2)
          \/ \E w, h \in Extent : bot_canvas_draw_rect(x1, y1, w, h)
          \/ \E w, h \in Extent : bot_canvas_fill_rect(x1, y1, w, h)
          \/ \E r \in Extent, op \in {"circle", "disc"} : Circle(op, x1, y1, r)
    \/ LineStep \/ CircleStep

CanvasSpec == CanvasInit /\ [][CanvasNext]_canvasVars /\ WF_canvasVars(LineStep \/ CircleStep)

-----------------------------------------------------------------------------
Drawn == ~drawing /\ call.op # "none"

From(p) == <<Abs(p[1] - call.x1), Abs(p[2] - call.y1)>>

(* The width and height of a line; p lies between its ends, and Slip(p)    *)
(* over the larger of the two beside it.                                   *)
Across == Abs(call.x2 - call.x1)
Down   == Abs(call.y2 - call.y1)

Between(p) == /\ Lower(call.x1, call.x2) <= p[1] /\ p[1] <= Upper(call.x1, call.x2)
              /\ Lower(call.y1, call.y2) <= p[2] /\ p[2] <= Upper(call.y1, call.y2)

Slip(p) == From(p)[1] * Down - From(p)[2] * Across

Beyond(p) == From(p)[1] * From(p)[1] + From(p)[2] * From(p)[2] - call.r * call.r

(* The loop of a line stays between its ends and that of a circle in its   *)
(* octant: none walks past what it is to reach.                            *)
CanvasTypeOK ==
    /\ hits \in [Pixel -> 0 .. 2]
    /\ drawing /\ call.op = "line" => Between(<<x, y>>)
    /\ drawing /\ call.op \in {"circle", "disc"} => 0 <= y /\ y <= x + 2 /\ x <= call.r

(* While a line is drawn: err tells how far its point is from the line,    *)
(* which is no more than half a pixel, and the columns (rows) it has       *)
(* passed have their pixels.                                               *)
LineGoesOn ==
    drawing /\ call.op = "line" =>
        LET at    == <<x, y>>
            major == Upper(Across, Down)
            passed(p) == IF Across >= Down THEN From(p)[1] < From(at)[1] ELSE From(p)[2] < From(at)[2]
        IN /\ Across > 0 /\ Down > 0
           /\ err = Across - Down - Slip(at) /\ 2 * Abs(Slip(at)) <= major
           /\ \A p \in Pixel :
                 /\ hits[p] > 0 => Between(p) /\ passed(p) /\ 2 * Abs(Slip(p)) <= major
                 /\ Between(p) /\ passed(p) /\ 2 * Abs(Slip(p)) < major => hits[p] > 0

(* A line has, in each column (or row, if it is steep) between its ends,   *)
(* the pixel that is nearest to it, and no other; either one of two that   *)
(* are equally near.  Parts off the canvas do not move the rest.           *)
LineIsNearest ==
    Drawn /\ call.op = "line" =>
        \A p \in Pixel :
            /\ hits[p] > 0 => Between(p) /\ 2 * Abs(Slip(p)) <= Upper(Across, Down)
            /\ Between(p) /\ 2 * Abs(Slip(p)) < Upper(Across, Down) => hits[p] > 0

(* While a circle is drawn: err tells how far its next point is from it,   *)
(* less than half a pixel, and the rows it has passed have their pixels.   *)
CircleGoesOn ==
    drawing /\ call.op \in {"circle", "disc"} =>
        LET off == x * x + y * y - call.r * call.r IN
        /\ call.r > 0 /\ err = off + 2 * y + 1 - x
        /\ IF y <= x THEN Abs(off) <= x ELSE call.r * call.r <= 2 * y * y - y
        /\ \A p \in Pixel :
              LET near == Lower(From(p)[1], From(p)[2])
                  far  == Upper(From(p)[1], From(p)[2])
              IN IF call.op = "circle"
                 THEN /\ hits[p] > 0 => Abs(Beyond(p)) <= far
                      /\ near < y /\ Abs(Beyond(p)) < far => hits[p] > 0
                 ELSE /\ hits[p] > 0 => Beyond(p) <= far
                      /\ From(p)[2] \notin y .. x /\ Beyond(p) <= 0 => hits[p] > 0

(* A circle's pixels are less than about half a pixel away from it, and    *)
(* where two pixels side by side lie on either side of it one is drawn.    *)
CircleIsRound ==
    Drawn /\ call.op = "circle" /\ call.r > 0 =>
        \A p \in Pixel :
            LET far == Upper(From(p)[1], From(p)[2]) IN
            /\ hits[p] > 0 => Abs(Beyond(p)) <= far
            /\ Abs(Beyond(p)) < far => hits[p] > 0

(* A filled circle has every pixel within the circle, and none further     *)
(* than the circle's own.                                                  *)
DiscIsFull ==
    Drawn /\ call.op = "disc" /\ call.r > 0 =>
        \A p \in Pixel :
            /\ hits[p] > 0 => Beyond(p) <= Upper(From(p)[1], From(p)[2])
            /\ Beyond(p) <= 0 => hits[p] > 0

InBox(p) == /\ call.x1 <= p[1] /\ p[1] < call.x1 + call.w
            /\ call.y1 <= p[2] /\ p[2] < call.y1 + call.h

(* A rectangle is the edge of its box, a filled one the box, also when     *)
(* parts of it are off the canvas on any side.                             *)
RectIsFrame ==
    /\ Drawn /\ call.op = "box" => \A p \in Pixel : hits[p] > 0 <=> InBox(p)
    /\ Drawn /\ call.op = "rect" =>
          \A p \in Pixel :
              hits[p] > 0 <=> InBox(p) /\ (\/ p[1] \in {call.x1, call.x1 + call.w - 1}
                                           \/ p[2] \in {call.y1, call.y1 + call.h - 1})

(* A line and a filled rectangle write no pixel twice, so a colour that is *)
(* not opaque covers them evenly.                                          *)
TouchedOnce == call.op \in {"line", "box"} => \A p \in Pixel : hits[p] <= 1

(* A blended channel lies between what was there and what is drawn.        *)
BlendBetween ==
    call.op = "pixel" => /\ Lower(call.dst, call.src) <= call.now
                         /\ call.now <= Upper(call.dst, call.src)

(* Every call ends: the loop of a line meets its end exactly, which is its *)
(* only way out.                                                           *)
DrawEnds == [](drawing => <>~drawing)

(* What each call draws, on the canvas, across its edges and beside it.    *)
CanvasInv ==
    /\ CanvasTypeOK
    /\ LineGoesOn /\ CircleGoesOn
    /\ LineIsNearest /\ CircleIsRound /\ DiscIsFull /\ RectIsFrame
    /\ TouchedOnce /\ BlendBetween
=============================================================================
