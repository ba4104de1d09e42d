------------------------------ MODULE Terminal ------------------------------
(***************************************************************************)
(* The terminal (apps/botterm): the screen the shell writes on, the lines  *)
(* that scrolled off it, the view of both, and the two directions of the   *)
(* pseudoterminal, with the main loop that serves them in turn.            *)
(*                                                                         *)
(* Bytes are reduced to those the code tells apart, and a cell to blank or *)
(* not; colours and pixels are left out.  inked is what an endless sheet   *)
(* of paper would hold of the lines that went over the top of the screen.  *)
(***************************************************************************)
EXTENDS Integers, Sequences

CONSTANTS
    Rows, Cols,     \* TERM_ROWS, TERM_COLS
    TabStop,        \* 8
    Scrollback,     \* SCROLLBACK_MAX
    PtySize,        \* capacity of the pseudoterminal, in each direction
    MaxBytes,       \* bound on what the shell writes
    MaxKeys         \* bound on what the user types

ASSUME TerminalAssumption ==
    /\ Rows \in Nat \ {0} /\ Cols \in Nat \ {0} /\ TabStop \in Nat \ {0}
    /\ Scrollback \in Nat \ {0} /\ PtySize \in Nat \ {0}
    /\ MaxBytes \in Nat /\ MaxKeys \in Nat

(* "J" is the letter that clears the screen at the end of an escape        *)
(* sequence, "a" any other, "[" a printable character that is no letter.   *)
Printable == {"a", "J", "["}
Letters == {"a", "J"}
TermByte == Printable \cup {"nl", "cr", "bs", "tab", "esc"}

VARIABLES
    grid, row, col,     \* g_grid and the cursor
    esc,                \* g_esc_state
    saved, inked,       \* g_scrollback; what an endless one would hold
    offset,             \* g_scroll_offset
    out, typed,         \* bytes on their way from and to the shell
    keys,               \* key events not handled yet
    dropped,            \* a key was lost: the shell did not read for long
    shell,              \* the shell is running
    at,                 \* where the main loop is
    written, pressed

screen == <<grid, row, col, esc, saved, inked>>
termVars == <<screen, offset, out, typed, keys, dropped, shell, at, written, pressed>>

TermLine == [0 .. Cols - 1 -> {" ", "a"}]

Blanks == [c \in 0 .. Cols - 1 |-> " "]

Empty == [r \in 0 .. Rows - 1 |-> Blanks]

TermInit ==
    /\ grid = Empty /\ row = 0 /\ col = 0 /\ esc = 0
    /\ saved = <<>> /\ inked = <<>> /\ offset = 0
    /\ out = <<>> /\ typed = 0 /\ keys = <<>> /\ dropped = FALSE
    /\ shell = TRUE /\ at = "read"
    /\ written = 0 /\ pressed = 0

-----------------------------------------------------------------------------
(* Mutant of NextLine: a full scrollback takes no more lines. *)
NextLineFull(s) ==
    IF row + 1 < Rows
    THEN grid' = s /\ row' = row + 1 /\ UNCHANGED <<saved, inked>>
    ELSE /\ grid' = [r \in 0 .. Rows - 1 |-> IF r = Rows - 1 THEN Blanks ELSE s[r + 1]]
         /\ saved' = IF Len(saved) < Scrollback THEN Append(saved, s[0]) ELSE saved
         /\ inked' = Append(inked, s[0])
         /\ UNCHANGED row

(* The next line, on the screen s as it is; scroll_grid keeps the top line.*)
NextLine(s) ==
    IF row + 1 < Rows
    THEN grid' = s /\ row' = row + 1 /\ UNCHANGED <<saved, inked>>
    ELSE /\ grid' = [r \in 0 .. Rows - 1 |-> IF r = Rows - 1 THEN Blanks ELSE s[r + 1]]
         /\ saved' = Append(IF Len(saved) < Scrollback THEN saved ELSE Tail(saved), s[0])
         /\ inked' = Append(inked, s[0])
         /\ UNCHANGED row

Paper == <<grid, row, saved, inked>>

(* A byte outside of an escape sequence.                                   *)
Plain(b) ==
    LET drawn == [grid EXCEPT ![row][col] = "a"] IN
    /\ \/ /\ b = "nl" /\ NextLine(grid) /\ UNCHANGED col
       \/ b = "cr" /\ col' = 0 /\ UNCHANGED Paper
       \/ b = "bs" /\ col' = (IF col > 0 THEN col - 1 ELSE col) /\ UNCHANGED Paper
       \/ /\ b = "tab" /\ UNCHANGED Paper
          /\ LET c == TabStop * ((col + TabStop) \div TabStop) IN
             col' = IF c >= Cols THEN Cols - 1 ELSE c
       \/ /\ b \in Printable
          /\ IF col + 1 < Cols
             THEN col' = col + 1 /\ grid' = drawn /\ UNCHANGED <<row, saved, inked>>
             ELSE col' = 0 /\ NextLine(drawn)
       \/ b = "esc" /\ UNCHANGED <<Paper, col>>
    /\ esc' = IF b = "esc" THEN 1 ELSE 0
    /\ UNCHANGED offset

write_char_to_grid(b) ==
    IF esc = 0 THEN Plain(b)
    ELSE IF esc = 2 /\ b = "J"
    THEN /\ grid' = Empty /\ row' = 0 /\ col' = 0 /\ offset' = 0 /\ esc' = 0
         /\ UNCHANGED <<saved, inked>>
    ELSE /\ esc' = IF (esc = 1 /\ b = "[") \/ (esc = 2 /\ b \notin Letters) THEN 2 ELSE 0
         /\ UNCHANGED <<Paper, col, offset>>

-----------------------------------------------------------------------------
(* The main loop reads all the shell has written, byte by byte; read also  *)
(* fails when the shell is gone, which ends nothing.                       *)
Read ==
    /\ at = "read"
    /\ IF out = <<>>
       THEN at' = "events" /\ UNCHANGED <<screen, offset, out>>
       ELSE write_char_to_grid(Head(out)) /\ out' = Tail(out) /\ UNCHANGED at
    /\ UNCHANGED <<typed, keys, dropped, shell, written, pressed>>

(* on_key: the byte goes to the shell if there is room, and is given up if *)
(* there is not; a key that stands for no byte goes nowhere.  on_scroll.   *)
HandleKey ==
    /\ at = "events" /\ keys # <<>>
    /\ keys' = Tail(keys)
    /\ CASE Head(keys) = "key"    -> /\ offset' = 0
                                     /\ \/ /\ typed' = IF typed < PtySize THEN typed + 1 ELSE typed
                                           /\ dropped' = (dropped \/ typed >= PtySize)
                                        \/ UNCHANGED <<typed, dropped>>
                                     /\ UNCHANGED at
         [] Head(keys) = "older"  -> /\ offset' = IF offset < Len(saved) THEN offset + 1 ELSE offset
                                     /\ UNCHANGED <<typed, dropped, at>>
         [] Head(keys) = "newer"  -> /\ offset' = IF offset > 0 THEN offset - 1 ELSE offset
                                     /\ UNCHANGED <<typed, dropped, at>>
         [] Head(keys) = "escape" -> at' = "done" /\ UNCHANGED <<offset, typed, dropped>>
    /\ UNCHANGED <<screen, out, shell, written, pressed>>

(* The screen is drawn, and the loop comes round after at most 16 ms.      *)
Drawn ==
    /\ at = "events" /\ keys = <<>>
    /\ at' = "read"
    /\ UNCHANGED <<screen, offset, out, typed, keys, dropped, shell, written, pressed>>

(* The shell, whose writes wait for room, and the user.                    *)
ShellWrites ==
    /\ shell /\ written < MaxBytes /\ Len(out) < PtySize
    /\ \E b \in TermByte : out' = Append(out, b)
    /\ written' = written + 1
    /\ UNCHANGED <<screen, offset, typed, keys, dropped, shell, at, pressed>>

ShellReads ==
    /\ shell /\ typed > 0
    /\ typed' = typed - 1
    /\ UNCHANGED <<screen, offset, out, keys, dropped, shell, at, written, pressed>>

ShellExits ==
    /\ shell /\ shell' = FALSE
    /\ UNCHANGED <<screen, offset, out, typed, keys, dropped, at, written, pressed>>

Press ==
    /\ at # "done" /\ pressed < MaxKeys
    /\ \E k \in {"key", "older", "newer", "escape"} : keys' = Append(keys, k)
    /\ pressed' = pressed + 1
    /\ UNCHANGED <<screen, offset, out, typed, dropped, shell, at, written>>

TermStep == Read \/ HandleKey \/ Drawn

TermNext == TermStep \/ ShellWrites \/ ShellReads \/ ShellExits \/ Press

(* The loop waits for nothing; the shell and the user may.                 *)
TermSpec == TermInit /\ [][TermNext]_termVars /\ WF_termVars(TermStep)

-----------------------------------------------------------------------------
TermTypeOK ==
    /\ grid \in [0 .. Rows - 1 -> TermLine]
    /\ row \in 0 .. Rows - 1 /\ col \in 0 .. Cols - 1 /\ esc \in 0 .. 2
    /\ saved \in Seq(TermLine) /\ inked \in Seq(TermLine)
    /\ Len(saved) <= Scrollback /\ offset \in 0 .. Len(saved)
    /\ keys \in Seq({"key", "older", "newer", "escape"})
    /\ out \in Seq(TermByte) /\ Len(out) <= PtySize /\ typed \in 0 .. PtySize
    /\ dropped \in BOOLEAN /\ shell \in BOOLEAN /\ at \in {"read", "events", "done"}

(* render_term: the line shown in row r, counted over the saved lines and  *)
(* the screen; rows before the first saved line are left blank.            *)
Shown(r) ==
    LET v == Len(saved) - offset + r IN
    IF offset = 0 THEN grid[r]
    ELSE IF v < 0 THEN Blanks
    ELSE IF v < Len(saved) THEN saved[v + 1] ELSE grid[v - Len(saved)]

(* The scrollback is the end of the paper.                                 *)
SavedIsPaper ==
    /\ Len(saved) <= Len(inked)
    /\ \A i \in 1 .. Len(saved) : saved[i] = inked[Len(inked) - Len(saved) + i]

(***************************************************************************)
(* What is shown is a piece of the paper, Rows lines of it in a row and    *)
(* none of them blank padding, wherever the view was scrolled to and       *)
(* however much the shell has written, lost lines or cleared since.        *)
(***************************************************************************)
ViewIsPaper ==
    LET paper == inked \o [i \in 1 .. Rows |-> grid[i - 1]]
        top == Len(inked) - offset
    IN \A r \in 0 .. Rows - 1 : Shown(r) = paper[top + r + 1]

(***************************************************************************)
(* What the user types reaches the shell, or is dropped, even when the     *)
(* shell has ended or does not read, as soon as it pauses its output.      *)
(***************************************************************************)
KeysServed == [](keys # <<>> => <>(keys = <<>> \/ at = "done"))

(***************************************************************************)
(* What the shell has written is drawn, also the last of it, even when the *)
(* shell has ended.                                                        *)
(***************************************************************************)
OutputShown == [](out # <<>> => <>(out = <<>> \/ at = "done"))

(* The screen shows what the shell wrote.                                  *)
TermInv == TermTypeOK /\ SavedIsPaper /\ ViewIsPaper
=============================================================================
