------------------------------- MODULE Editor -------------------------------
(***************************************************************************)
(* The text editor (apps/editor): the array of lines with its cursor, the  *)
(* file it is loaded from and saved to, the name dialog.                   *)
(*                                                                         *)
(* The array keeps what memmove leaves behind the last line.  Characters   *)
(* are members of Letter, a blank is one of them, and carriage returns are *)
(* left out; a file is a sequence of lines without their line ends (a last *)
(* line without one gets one when it is saved).                            *)
(***************************************************************************)
EXTENDS Integers, Sequences

CONSTANTS
    Letter, Blank,
    MaxLines, LineMax,  \* MAX_LINES, LINE_MAX
    TabWidth,           \* 4
    MinVisible,         \* "rows" of the smallest window, below 0 for one lower than its bars
    MaxVisible,         \* rows of the largest window
    Files,              \* what the file may hold at the start
    MaxEdits            \* bound on keys that change the text

ASSUME EditorAssumption ==
    /\ Blank \in Letter
    /\ MaxLines \in Nat \ {0, 1} /\ LineMax \in Nat \ {0, 1, 2}
    /\ TabWidth \in Nat /\ MinVisible \in Int /\ MaxVisible \in Nat \ {0} /\ MinVisible <= MaxVisible
    /\ MaxEdits \in Nat
    /\ Files \subseteq Seq(Seq(Letter))

VARIABLES
    lines,      \* g_lines
    count,      \* g_line_count
    cx, cy, scroll,
    modified,
    named,      \* g_filename is not empty
    dialog,     \* g_show_dialog
    disk,       \* the file
    clean,      \* the last save, or the load, was of the whole text
    visible,    \* visible_rows, the rows of text the window has room for
    state,      \* "run", "quit", or "crashed"
    edits

edVars == <<lines, count, cx, cy, scroll, modified, named, dialog, disk, clean, visible, state, edits>>

Row == 0 .. MaxLines - 1

Line == UNION {[1 .. n -> Letter] : n \in 0 .. LineMax - 1}

-----------------------------------------------------------------------------
(* fgets takes LINE_MAX - 1 bytes at most, the line end among them: a line *)
(* that just fills the buffer leaves its line end as a piece of its own.   *)
Pieces(l, end) ==
    LET n == (Len(l) + end + LineMax - 2) \div (LineMax - 1)
        End(k) == IF k * (LineMax - 1) < Len(l) THEN k * (LineMax - 1) ELSE Len(l)
    IN [k \in 1 .. n |-> SubSeq(l, (k - 1) * (LineMax - 1) + 1, End(k))]

(* Bytes of the line end of line i of f, whose last line has one or none.  *)
LineEnd(f, last, i) == IF i = Len(f) THEN last ELSE 1

FlatPieces(f, last) ==
    LET all[i \in 0 .. Len(f)] == IF i = 0 THEN <<>> ELSE all[i - 1] \o Pieces(f[i], LineEnd(f, last, i))
    IN all[Len(f)]

(* editor_load *)
Loaded(f, last) ==
    LET p == FlatPieces(f, last)
        n == IF Len(p) < MaxLines THEN Len(p) ELSE MaxLines
    IN [n |-> n, rows |-> [i \in Row |-> IF i < n THEN p[i + 1] ELSE <<>>]]

(* The buffer takes every line with its line end.                          *)
Fits(f, last) == Len(f) \in 1 .. MaxLines /\ \A i \in DOMAIN f : Len(f[i]) + LineEnd(f, last, i) < LineMax

(* main, with a file or, without an argument, with one empty line.         *)
EditorInit ==
    /\ cx = 0 /\ cy = 0 /\ scroll = 0 /\ modified = FALSE /\ dialog = FALSE
    /\ visible = MaxVisible /\ state = "run" /\ edits = 0
    /\ \/ /\ disk = <<>> /\ named = FALSE /\ clean = TRUE
          /\ lines = [i \in Row |-> <<>>] /\ count = 1
       \/ /\ disk \in Files /\ named = TRUE
          /\ \E last \in 0 .. 1 :
                /\ last = 0 => disk # <<>> /\ disk[Len(disk)] # <<>>
                /\ clean = Fits(disk, last)
                /\ lines = Loaded(disk, last).rows /\ count = Loaded(disk, last).n

Least(a, b) == IF a < b THEN a ELSE b
Most(a, b) == IF a > b THEN a ELSE b

(* clamp_cursor, on the cursor a key left at x, y, in a text of n lines;   *)
(* in a window without a row it scrolls past the cursor.                   *)
clamp_cursor(rows, n, x, y, vis) ==
    LET row == Most(Least(Most(y, 0), n - 1), 0)
        top == Least(scroll, row)
    IN /\ cy' = row
       /\ cx' = Most(Least(x, Len(rows[row])), 0)
       /\ scroll' = IF row >= top + vis THEN row - vis + 1 ELSE top

(* insert_char, n times; a line takes no more than LINE_MAX - 2.           *)
Inserted(ch, n) ==
    LET l == lines[cy]
        k == Least(n, Most(LineMax - 2 - Len(l), 0))
    IN [line |-> SubSeq(l, 1, cx) \o [i \in 1 .. k |-> ch] \o SubSeq(l, cx + 1, Len(l)),
        grown |-> k]

(* Mutant of insert_char: the text is not marked. *)
InsertUnmarked(ch, n) ==
    LET r == Inserted(ch, n) IN
    /\ lines' = [lines EXCEPT ![cy] = r.line]
    /\ clamp_cursor(lines', count, cx + r.grown, cy, visible)
    /\ UNCHANGED <<count, modified>>

insert_char(ch, n) ==
    LET r == Inserted(ch, n) IN
    /\ lines' = [lines EXCEPT ![cy] = r.line]
    /\ modified' = (modified \/ r.grown > 0)
    /\ clamp_cursor(lines', count, cx + r.grown, cy, visible)
    /\ UNCHANGED count

(* A key outside of the dialog.                                            *)
Key == state = "run" /\ ~dialog

Edit == Key /\ edits < MaxEdits /\ edits' = edits + 1

Other == <<named, dialog, disk, clean, visible>>

Type(ch) == Edit /\ insert_char(ch, 1) /\ UNCHANGED <<Other, state>>

Tab == Edit /\ insert_char(Blank, TabWidth) /\ UNCHANGED <<Other, state>>

(* Mutant of Backspace: joining moves one line too few. *)
BackspaceShort ==
    /\ Edit /\ UNCHANGED <<Other, state>>
    /\ IF cx > 0 \/ cy = 0 THEN clamp_cursor(lines, count, cx, cy, visible) /\ UNCHANGED <<lines, count, modified>>
       ELSE LET joined == lines[cy - 1] \o lines[cy] IN
            /\ lines' = [i \in Row |-> IF i = cy - 1 THEN SubSeq(joined, 1, Least(Len(joined), LineMax - 1))
                                       ELSE IF i > cy /\ i < count - 1 THEN lines[i + 1]
                                       ELSE lines[i]]
            /\ count' = count - 1
            /\ clamp_cursor(lines', count', Len(lines[cy - 1]), cy - 1, visible)
            /\ modified' = TRUE

(* delete_char; two lines are joined by strncat, which cuts what does not  *)
(* fit, and the lines below move up.                                       *)
Backspace ==
    /\ Edit
    /\ IF cx > 0
       THEN /\ lines' = [lines EXCEPT ![cy] = SubSeq(@, 1, cx - 1) \o SubSeq(@, cx + 1, Len(@))]
            /\ clamp_cursor(lines', count, cx - 1, cy, visible)
            /\ modified' = TRUE /\ UNCHANGED count
       ELSE IF cy > 0
       THEN LET joined == lines[cy - 1] \o lines[cy] IN
            /\ lines' = [i \in Row |-> IF i = cy - 1 THEN SubSeq(joined, 1, Least(Len(joined), LineMax - 1))
                                       ELSE IF i >= cy /\ i < count - 1 THEN lines[i + 1]
                                       ELSE lines[i]]
            /\ count' = count - 1
            /\ clamp_cursor(lines', count', Len(lines[cy - 1]), cy - 1, visible)
            /\ modified' = TRUE
       ELSE clamp_cursor(lines, count, cx, cy, visible) /\ UNCHANGED <<lines, count, modified>>
    /\ UNCHANGED <<Other, state>>

(* insert_newline; in a file with no line at all the number of lines to    *)
(* move is negative, and as a size_t far too large.                        *)
Enter ==
    /\ Edit
    /\ IF count = 0
       THEN state' = "crashed" /\ UNCHANGED <<lines, count, cx, cy, scroll, modified>>
       ELSE IF count >= MaxLines - 1
       THEN clamp_cursor(lines, count, cx, cy, visible) /\ UNCHANGED <<lines, count, modified, state>>
       ELSE /\ lines' = [i \in Row |-> IF i = cy THEN SubSeq(lines[i], 1, cx)
                                       ELSE IF i = cy + 1 THEN SubSeq(lines[cy], cx + 1, Len(lines[cy]))
                                       ELSE IF i > cy + 1 /\ i <= count THEN lines[i - 1]
                                       ELSE lines[i]]
            /\ count' = count + 1
            /\ clamp_cursor(lines', count', 0, cy + 1, visible)
            /\ modified' = TRUE /\ UNCHANGED state
    /\ UNCHANGED Other

Move ==
    /\ Key
    /\ \E d \in {<<0, -1>>, <<0, 1>>, <<-1, 0>>, <<1, 0>>} :
          clamp_cursor(lines, count, cx + d[1], cy + d[2], visible)
    /\ UNCHANGED <<lines, count, modified, Other, state, edits>>

(* A new window size.                                                      *)
Resize ==
    /\ state = "run"
    /\ visible' \in MinVisible .. MaxVisible
    /\ clamp_cursor(lines, count, cx, cy, visible')
    /\ UNCHANGED <<lines, count, modified, named, dialog, disk, clean, state, edits>>

-----------------------------------------------------------------------------
TextLines == [i \in 1 .. count |-> lines[i - 1]]

(* fopen truncates the file; that its disk is full is noticed by nobody.   *)
editor_save ==
    \/ /\ disk' = TextLines /\ modified' = FALSE
       /\ clean' = (clean \/ count > 0)
    \/ /\ \E n \in 0 .. count - 1 : disk' = SubSeq(TextLines, 1, n)
       /\ modified' = FALSE /\ clean' = FALSE
    \/ clean' = FALSE /\ UNCHANGED <<disk, modified>>     \* it could not be opened

Unsaved == <<disk, modified, clean>>

Text == <<lines, count, cx, cy, scroll>>

(* Ctrl+S                                                                  *)
Save ==
    /\ Key
    /\ IF named THEN editor_save /\ UNCHANGED dialog ELSE dialog' = TRUE /\ UNCHANGED Unsaved
    /\ UNCHANGED <<Text, named, visible, state, edits>>

(* Return or OK in the dialog, with a name or without one; Cancel.         *)
Dialog ==
    /\ state = "run" /\ dialog
    /\ dialog' = FALSE
    /\ \/ named' = TRUE /\ editor_save
       \/ UNCHANGED <<named, Unsaved>>
    /\ UNCHANGED <<Text, visible, state, edits>>

(* Escape or Ctrl+Q, and the close button also when the dialog is open: no *)
(* question about unsaved text.                                            *)
Quit ==
    /\ state = "run"
    /\ state' = "quit"
    /\ UNCHANGED <<Text, Unsaved, named, dialog, visible, edits>>

EditorNext ==
    \/ \E ch \in Letter : Type(ch)
    \/ Tab \/ Backspace \/ Enter \/ Move \/ Resize
    \/ Save \/ Dialog \/ Quit

EditorSpec == EditorInit /\ [][EditorNext]_edVars

-----------------------------------------------------------------------------
EditorTypeOK ==
    /\ lines \in [Row -> Line] /\ count \in 0 .. MaxLines
    /\ cx \in Nat /\ cy \in Row /\ scroll \in Nat
    /\ modified \in BOOLEAN /\ named \in BOOLEAN /\ dialog \in BOOLEAN /\ clean \in BOOLEAN
    /\ disk \in Seq(Seq(Letter))
    /\ visible \in MinVisible .. MaxVisible
    /\ state \in {"run", "quit", "crashed"} /\ edits \in 0 .. MaxEdits

(***************************************************************************)
(* The cursor is on a character of the text, or behind its line, and its   *)
(* row is one of those on the screen, whatever was inserted, joined or     *)
(* deleted and however small the window has become, once it has a row.     *)
(***************************************************************************)
CursorOnScreen ==
    /\ cx <= Len(lines[cy])
    /\ cy < count \/ (count = 0 /\ cy = 0)
    /\ visible > 0 => scroll <= cy /\ cy < scroll + visible

(* The text as one sequence, with the line ends, and the cursor in it.     *)
NL == "\n"

Flat(rows, n) ==
    LET f[i \in 0 .. n] == IF i = 0 THEN <<>>
                           ELSE f[i - 1] \o (IF i = 1 THEN <<>> ELSE <<NL>>) \o rows[i - 1]
    IN f[n]

Point(rows, x, y) == x + y + LET s[i \in 0 .. y] == IF i = 0 THEN 0 ELSE s[i - 1] + Len(rows[i - 1])
                             IN s[y]

Around(t, p, t2, p2) ==
    LET k == Len(t2) - Len(t) IN
    IF k < 0
    THEN p2 = p + k /\ k = -1 /\ t2 = SubSeq(t, 1, p2) \o SubSeq(t, p + 1, Len(t))
    ELSE /\ k > 0 => p2 = p + k
         /\ t2 = SubSeq(t, 1, p) \o SubSeq(t2, p + 1, p + k) \o SubSeq(t, p + 1, Len(t))

TooLong == cx = 0 /\ cy > 0 /\ count > 0 /\ Len(lines[cy - 1]) + Len(lines[cy]) > LineMax - 1

(***************************************************************************)
(* A key changes the text at the cursor and nowhere else: it inserts what  *)
(* it stands for, or takes one character (or line end) away, and the rest, *)
(* line by line, stays as it was.  Only joining two lines that are too     *)
(* long together loses text.                                               *)
(***************************************************************************)
EditIsLocal ==
    [][count > 0 /\ ~TooLong =>
         Around(Flat(lines, count), Point(lines, cx, cy),
                Flat(lines', count'), Point(lines', cx', cy'))]_<<lines, count>>

(***************************************************************************)
(* While the status bar does not say [MODIFIED] the file is what is on the *)
(* screen, unless the last save failed or met a full disk, or the file,    *)
(* when it was loaded, had too many lines, none at all, or one that with   *)
(* its line end does not fit the buffer.                                   *)
(***************************************************************************)
UnmodifiedIsSaved == clean /\ named /\ ~modified => disk = TextLines

(* The cursor is on the screen and in the text, and what is not marked as  *)
(* modified is saved.                                                      *)
EditorInv == EditorTypeOK /\ CursorOnScreen /\ UnmodifiedIsSaved
=============================================================================
