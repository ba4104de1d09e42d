----------------------------- MODULE AppsProofs -----------------------------
(***************************************************************************)
(* Proofs about the programs with a window, which share no state: the      *)
(* terminal, any one on BotUI, and the editor, each for every value of its *)
(* constants.                                                              *)
(***************************************************************************)
EXTENDS Toolkit, Editor, Terminal, SequenceTheorems, WellFoundedInduction, TLAPS

(***************************************************************************)
(* The terminal.  TermInv is inductive: the scrollback is the end of the   *)
(* paper, and what is shown is found on it.                                *)
(***************************************************************************)
TapeInv == TermTypeOK /\ SavedIsPaper

LEMMA ViewFollows ==
  ASSUME TapeInv
  PROVE  ViewIsPaper
<1> DEFINE p == [i \in 1 .. Rows |-> grid[i - 1]]
           paper == inked \o p
<1>1. /\ inked \in Seq(TermLine) /\ saved \in Seq(TermLine) /\ Len(saved) \in Nat
      /\ Len(inked) \in Nat /\ offset \in 0 .. Len(saved) /\ Len(saved) <= Len(inked)
      /\ \A i \in 1 .. Len(saved) : saved[i] = inked[Len(inked) - Len(saved) + i]
  BY DEF TapeInv, TermTypeOK, SavedIsPaper
<1>2. Rows \in Nat /\ p \in Seq(TermLine) /\ Len(p) = Rows
  <2>1. Rows \in Nat /\ \A i \in 1 .. Rows : grid[i - 1] \in TermLine
    BY TerminalAssumption DEF TapeInv, TermTypeOK
  <2> QED  BY <2>1
<1>3. /\ \A i \in 1 .. Len(inked) : paper[i] = inked[i]
      /\ \A i \in 1 .. Rows : paper[Len(inked) + i] = grid[i - 1]
  <2> HIDE DEF p
  <2>1. \A i \in 1 .. Len(inked) + Rows :
          paper[i] = IF i <= Len(inked) THEN inked[i] ELSE p[i - Len(inked)]
    BY <1>1, <1>2
  <2>2. ASSUME NEW i \in 1 .. Rows PROVE paper[Len(inked) + i] = grid[i - 1]
    <3>1. paper[Len(inked) + i] = p[i]
      BY <1>1, <1>2, <2>1
    <3> QED  BY <3>1 DEF p
  <2>3. \A i \in 1 .. Len(inked) : paper[i] = inked[i]
    BY <1>1, <1>2, <2>1
  <2> QED  BY <2>2, <2>3
<1> HIDE DEF paper
<1>4. ASSUME NEW r \in 0 .. Rows - 1
      PROVE  Shown(r) = paper[Len(inked) - offset + r + 1]
  <2>1. CASE r < offset
    <3>1. offset # 0 /\ ~(Len(saved) - offset + r < 0) /\ Len(saved) - offset + r < Len(saved)
      BY <1>1, <1>2, <2>1
    <3>2. Shown(r) = saved[Len(saved) - offset + r + 1]
      BY <3>1 DEF Shown
    <3>3. Len(saved) - offset + r + 1 \in 1 .. Len(saved)
      BY <1>1, <1>2, <2>1
    <3>4. saved[Len(saved) - offset + r + 1]
            = inked[Len(inked) - Len(saved) + (Len(saved) - offset + r + 1)]
      BY <1>1, <3>3
    <3>5. /\ Len(inked) - Len(saved) + (Len(saved) - offset + r + 1) = Len(inked) - offset + r + 1
          /\ Len(inked) - offset + r + 1 \in 1 .. Len(inked)
      BY <1>1, <1>2, <2>1
    <3> QED  BY <1>3, <3>2, <3>4, <3>5
  <2>2. CASE ~(r < offset)
    <3>1. Shown(r) = grid[r - offset]
      <4>1. CASE offset = 0
        BY <4>1 DEF Shown
      <4>2. CASE offset # 0
        <5> DEFINE v == Len(saved) - offset + r
        <5>1. ~(v < 0) /\ ~(v < Len(saved)) /\ v - Len(saved) = r - offset
          BY <1>1, <1>2, <2>2
        <5>2. Shown(r) = IF v < 0 THEN Blanks
                         ELSE IF v < Len(saved) THEN saved[v + 1] ELSE grid[v - Len(saved)]
          BY <4>2 DEF Shown
        <5> HIDE DEF v
        <5> QED  BY <5>1, <5>2
      <4> QED  BY <4>1, <4>2
    <3>2. /\ r - offset + 1 \in 1 .. Rows
          /\ Len(inked) + (r - offset + 1) = Len(inked) - offset + r + 1
          /\ (r - offset + 1) - 1 = r - offset
      BY <1>1, <1>2, <2>2
    <3> QED  BY <1>3, <3>1, <3>2
  <2> QED  BY <2>1, <2>2
<1> QED  BY <1>4 DEF ViewIsPaper, paper

(* A line that goes over the top is the next on the paper and the last of  *)
(* the scrollback, whose first goes when it is full.                       *)
LEMMA NextLineKeeps ==
  ASSUME TapeInv, NEW s \in [0 .. Rows - 1 -> TermLine], NextLine(s)
  PROVE  /\ grid' \in [0 .. Rows - 1 -> TermLine] /\ row' \in 0 .. Rows - 1
         /\ saved' \in Seq(TermLine) /\ inked' \in Seq(TermLine)
         /\ Len(saved) <= Len(saved') /\ Len(saved') <= Scrollback
         /\ SavedIsPaper'
<1>1. /\ saved \in Seq(TermLine) /\ inked \in Seq(TermLine) /\ Len(saved) <= Scrollback
      /\ Len(saved) \in Nat /\ Len(inked) \in Nat /\ row \in 0 .. Rows - 1
      /\ Rows \in Nat \ {0} /\ Scrollback \in Nat \ {0}
  BY TerminalAssumption DEF TapeInv, TermTypeOK
<1>2. CASE row + 1 < Rows
  <2>1. grid' = s /\ row' = row + 1 /\ saved' = saved /\ inked' = inked
    BY <1>2 DEF NextLine
  <2> QED  BY <1>1, <1>2, <2>1 DEF TapeInv, SavedIsPaper
<1>3. CASE ~(row + 1 < Rows)
  <2> DEFINE k == IF Len(saved) < Scrollback THEN saved ELSE Tail(saved)
  <2>1. /\ grid' = [r \in 0 .. Rows - 1 |-> IF r = Rows - 1 THEN Blanks ELSE s[r + 1]]
        /\ saved' = Append(k, s[0]) /\ inked' = Append(inked, s[0]) /\ row' = row
    BY <1>3 DEF NextLine
  <2>2. s[0] \in TermLine /\ Blanks \in TermLine
    <3>1. Blanks \in TermLine
      BY DEF TermLine, Blanks
    <3> QED  BY <1>1, <3>1
  <2>3. grid' \in [0 .. Rows - 1 -> TermLine]
    <3>1. \A r \in 0 .. Rows - 1 : r # Rows - 1 => r + 1 \in 0 .. Rows - 1
      BY <1>1
    <3> QED  BY <2>1, <2>2, <3>1
  <2>4. /\ k \in Seq(TermLine) /\ Len(k) \in Nat /\ Len(k) + 1 <= Scrollback
        /\ Len(saved) <= Len(k) + 1 /\ Len(k) <= Len(saved)
        /\ \A i \in 1 .. Len(k) : k[i] = saved[Len(saved) - Len(k) + i]
    <3>1. CASE Len(saved) < Scrollback
      BY <1>1, <3>1
    <3>2. CASE ~(Len(saved) < Scrollback)
      <4>1. k = Tail(saved) /\ saved # <<>> /\ Len(saved) = Scrollback
        BY <1>1, <3>2
      <4>2. Tail(saved) \in Seq(TermLine) /\ Len(Tail(saved)) = Len(saved) - 1
        BY <1>1, <4>1
      <4>3. \A i \in 1 .. Len(saved) - 1 : Tail(saved)[i] = saved[i + 1]
        BY <1>1, <4>1
      <4> QED  BY <1>1, <4>1, <4>2, <4>3
    <3> QED  BY <3>1, <3>2
  <2> HIDE DEF k
  <2>5. /\ saved' \in Seq(TermLine) /\ Len(saved') = Len(k) + 1
        /\ \A i \in 1 .. Len(k) : saved'[i] = k[i]
        /\ saved'[Len(k) + 1] = s[0]
    BY <2>1, <2>2, <2>4
  <2>6. /\ inked' \in Seq(TermLine) /\ Len(inked') = Len(inked) + 1
        /\ \A i \in 1 .. Len(inked) : inked'[i] = inked[i]
        /\ inked'[Len(inked) + 1] = s[0]
    BY <1>1, <2>1, <2>2
  <2>7. Len(saved) <= Len(inked) /\ \A i \in 1 .. Len(saved) : saved[i] = inked[Len(inked) - Len(saved) + i]
    BY DEF TapeInv, SavedIsPaper
  <2>8. ASSUME NEW i \in 1 .. Len(saved')
        PROVE  saved'[i] = inked'[Len(inked') - Len(saved') + i]
    <3>0. Len(inked') - Len(saved') + i = Len(inked) - Len(k) + i
      BY <1>1, <2>4, <2>5, <2>6
    <3>1. CASE i = Len(k) + 1
      <4>1. Len(inked) - Len(k) + i = Len(inked) + 1
        BY <1>1, <2>4, <3>1
      <4> QED  BY <2>5, <2>6, <3>0, <3>1, <4>1
    <3>2. CASE i # Len(k) + 1
      <4>1. i \in 1 .. Len(k)
        BY <2>4, <2>5, <3>2
      <4>2. Len(saved) - Len(k) + i \in 1 .. Len(saved)
        BY <1>1, <2>4, <4>1
      <4>3. saved'[i] = inked[Len(inked) - Len(saved) + (Len(saved) - Len(k) + i)]
        BY <2>4, <2>5, <2>7, <4>1, <4>2
      <4>4. /\ Len(inked) - Len(saved) + (Len(saved) - Len(k) + i) = Len(inked) - Len(k) + i
            /\ Len(inked) - Len(k) + i \in 1 .. Len(inked)
        BY <1>1, <2>4, <2>7, <4>1
      <4> QED  BY <2>6, <3>0, <4>3, <4>4
    <3> QED  BY <3>1, <3>2
  <2>9. Len(saved') <= Len(inked')
    BY <1>1, <2>4, <2>5, <2>6, <2>7
  <2> QED  BY <1>1, <2>1, <2>3, <2>4, <2>5, <2>6, <2>8, <2>9 DEF SavedIsPaper
<1> QED  BY <1>2, <1>3

LEMMA PlainKeeps ==
  ASSUME TapeInv, NEW b \in TermByte, Plain(b)
  PROVE  /\ grid' \in [0 .. Rows - 1 -> TermLine] /\ row' \in 0 .. Rows - 1
         /\ col' \in 0 .. Cols - 1 /\ esc' \in 0 .. 2
         /\ saved' \in Seq(TermLine) /\ inked' \in Seq(TermLine)
         /\ Len(saved') <= Scrollback /\ offset' \in 0 .. Len(saved')
         /\ SavedIsPaper'
<1> DEFINE drawn == [grid EXCEPT ![row][col] = "a"]
           Drew == /\ grid' \in [0 .. Rows - 1 -> TermLine] /\ row' \in 0 .. Rows - 1
                   /\ saved' \in Seq(TermLine) /\ inked' \in Seq(TermLine)
                   /\ Len(saved) <= Len(saved') /\ Len(saved') <= Scrollback
                   /\ SavedIsPaper'
<1>1. /\ grid \in [0 .. Rows - 1 -> TermLine] /\ row \in 0 .. Rows - 1 /\ col \in 0 .. Cols - 1
      /\ saved \in Seq(TermLine) /\ inked \in Seq(TermLine) /\ Len(saved) \in Nat
      /\ Len(saved) <= Scrollback /\ offset \in 0 .. Len(saved)
      /\ Cols \in Nat \ {0} /\ TabStop \in Nat \ {0}
  BY TerminalAssumption DEF TapeInv, TermTypeOK
<1>2. drawn \in [0 .. Rows - 1 -> TermLine]
  BY <1>1 DEF TermLine
<1>3. esc' \in 0 .. 2 /\ offset' = offset
  BY DEF Plain
<1>4. UNCHANGED Paper => Drew
  BY <1>1 DEF Paper, TapeInv, SavedIsPaper
<1>5. Drew /\ col' \in 0 .. Cols - 1
  <2>1. CASE b = "nl" /\ NextLine(grid) /\ UNCHANGED col
    BY <1>1, <2>1, NextLineKeeps
  <2>2. CASE b = "cr" /\ col' = 0 /\ UNCHANGED Paper
    BY <1>1, <1>4, <2>2
  <2>3. CASE b = "bs" /\ col' = (IF col > 0 THEN col - 1 ELSE col) /\ UNCHANGED Paper
    <3>1. col' \in 0 .. Cols - 1
      BY <1>1, <2>3
    <3> QED  BY <1>4, <2>3, <3>1
  <2>4. CASE /\ b = "tab" /\ UNCHANGED Paper
             /\ LET c == TabStop * ((col + TabStop) \div TabStop) IN
                col' = IF c >= Cols THEN Cols - 1 ELSE c
    <3> DEFINE c == TabStop * ((col + TabStop) \div TabStop)
    <3>1. c \in Nat
      <4>1. (col + TabStop) \div TabStop \in Nat
        BY <1>1
      <4> QED  BY <1>1, <4>1
    <3>2. col' = IF c >= Cols THEN Cols - 1 ELSE c
      BY <2>4
    <3> HIDE DEF c
    <3>3. col' \in 0 .. Cols - 1
      BY <1>1, <3>1, <3>2
    <3> QED  BY <1>4, <2>4, <3>3
  <2>5. CASE /\ b \in Printable
             /\ IF col + 1 < Cols
                THEN col' = col + 1 /\ grid' = drawn /\ UNCHANGED <<row, saved, inked>>
                ELSE col' = 0 /\ NextLine(drawn)
    <3>1. CASE col + 1 < Cols
      <4>1. col' = col + 1 /\ grid' = drawn /\ row' = row /\ saved' = saved /\ inked' = inked
        BY <2>5, <3>1
      <4>2. col' \in 0 .. Cols - 1
        BY <1>1, <3>1, <4>1
      <4> HIDE DEF drawn
      <4> QED  BY <1>1, <1>2, <4>1, <4>2 DEF TapeInv, SavedIsPaper
    <3>2. CASE ~(col + 1 < Cols)
      <4>1. col' = 0 /\ NextLine(drawn)
        BY <2>5, <3>2
      <4>2. col' \in 0 .. Cols - 1
        BY <1>1, <4>1
      <4> HIDE DEF drawn
      <4> QED  BY <1>2, <4>1, <4>2, NextLineKeeps
    <3> QED  BY <3>1, <3>2
  <2>6. CASE b = "esc" /\ UNCHANGED <<Paper, col>>
    BY <1>1, <1>4, <2>6
  <2> QED  BY <2>1, <2>2, <2>3, <2>4, <2>5, <2>6 DEF Plain
<1>6. offset' \in 0 .. Len(saved')
  BY <1>1, <1>3, <1>5
<1> QED  BY <1>3, <1>5, <1>6

LEMMA ReadKeeps ==
  ASSUME TapeInv, Read
  PROVE  TapeInv'
<1>1. /\ typed' = typed /\ keys' = keys /\ dropped' = dropped /\ shell' = shell
  BY DEF Read
<1>2. CASE out = <<>>
  BY <1>1, <1>2 DEF Read, TapeInv, TermTypeOK, SavedIsPaper, screen
<1>3. CASE out # <<>>
  <2> DEFINE b == Head(out)
  <2>1. write_char_to_grid(b) /\ out' = Tail(out) /\ at' = at
    BY <1>3 DEF Read
  <2>2. /\ b \in TermByte /\ out' \in Seq(TermByte) /\ Len(out') <= PtySize
    <3>1. out \in Seq(TermByte) /\ Len(out) <= PtySize /\ PtySize \in Nat
      BY TerminalAssumption DEF TapeInv, TermTypeOK
    <3>2. b \in TermByte
      BY <1>3, <3>1
    <3>3. Tail(out) \in Seq(TermByte) /\ Len(Tail(out)) = Len(out) - 1 /\ Len(out) \in Nat
      BY <1>3, <3>1
    <3> QED  BY <2>1, <3>1, <3>2, <3>3
  <2> HIDE DEF b
  <2>3. /\ grid' \in [0 .. Rows - 1 -> TermLine] /\ row' \in 0 .. Rows - 1
        /\ col' \in 0 .. Cols - 1 /\ esc' \in 0 .. 2
        /\ saved' \in Seq(TermLine) /\ inked' \in Seq(TermLine)
        /\ Len(saved') <= Scrollback /\ offset' \in 0 .. Len(saved')
        /\ SavedIsPaper'
    <3>1. CASE esc = 0
      BY <2>1, <2>2, <3>1, PlainKeeps DEF write_char_to_grid
    <3>2. CASE esc # 0 /\ esc = 2 /\ b = "J"
      <4>1. /\ grid' = Empty /\ row' = 0 /\ col' = 0 /\ offset' = 0 /\ esc' = 0
            /\ saved' = saved /\ inked' = inked
        BY <2>1, <3>2 DEF write_char_to_grid
      <4>2. Empty \in [0 .. Rows - 1 -> TermLine]
        <5>1. Blanks \in TermLine
          BY DEF Blanks, TermLine
        <5> QED  BY <5>1 DEF Empty
      <4> QED  BY <4>1, <4>2, TerminalAssumption DEF TapeInv, TermTypeOK, SavedIsPaper
    <3>3. CASE esc # 0 /\ ~(esc = 2 /\ b = "J")
      <4>1. esc' \in 0 .. 2 /\ UNCHANGED <<Paper, col, offset>>
        BY <2>1, <3>3 DEF write_char_to_grid
      <4> QED  BY <4>1 DEF TapeInv, TermTypeOK, SavedIsPaper, Paper
    <3> QED  BY <3>1, <3>2, <3>3
  <2> QED  BY <1>1, <2>1, <2>2, <2>3 DEF TapeInv, TermTypeOK
<1> QED  BY <1>2, <1>3

LEMMA HandleKeyKeeps ==
  ASSUME TapeInv, HandleKey
  PROVE  TapeInv'
<1>1. /\ keys \in Seq({"key", "older", "newer", "escape"}) /\ keys # <<>>
      /\ offset \in 0 .. Len(saved) /\ Len(saved) \in Nat /\ typed \in 0 .. PtySize
      /\ PtySize \in Nat /\ dropped \in BOOLEAN /\ at = "events"
  BY TerminalAssumption DEF TapeInv, TermTypeOK, HandleKey
<1>2. keys' \in Seq({"key", "older", "newer", "escape"})
  <2>1. keys' = Tail(keys)
    BY DEF HandleKey
  <2> QED  BY <1>1, <2>1
<1>3. UNCHANGED <<screen, out, shell, written, pressed>>
  BY DEF HandleKey
<1>4. Head(keys) \in {"key", "older", "newer", "escape"}
  BY <1>1
<1>5. /\ offset' \in 0 .. Len(saved) /\ typed' \in 0 .. PtySize
      /\ at' \in {"read", "events", "done"} /\ dropped' \in BOOLEAN
  <2>1. CASE Head(keys) = "key"
    <3>1. /\ offset' = 0 /\ at' = at
          /\ \/ /\ typed' = IF typed < PtySize THEN typed + 1 ELSE typed
                /\ dropped' = (dropped \/ typed >= PtySize)
             \/ UNCHANGED <<typed, dropped>>
      BY <2>1 DEF HandleKey
    <3>2. typed' \in 0 .. PtySize
      BY <1>1, <3>1
    <3>3. dropped' \in BOOLEAN
      BY <1>1, <3>1
    <3> QED  BY <1>1, <3>1, <3>2, <3>3
  <2>2. CASE Head(keys) = "older"
    <3>1. /\ offset' = (IF offset < Len(saved) THEN offset + 1 ELSE offset)
          /\ typed' = typed /\ dropped' = dropped /\ at' = at
      BY <2>2 DEF HandleKey
    <3> QED  BY <1>1, <3>1
  <2>3. CASE Head(keys) = "newer"
    <3>1. /\ offset' = (IF offset > 0 THEN offset - 1 ELSE offset)
          /\ typed' = typed /\ dropped' = dropped /\ at' = at
      BY <2>3 DEF HandleKey
    <3> QED  BY <1>1, <3>1
  <2>4. CASE Head(keys) = "escape"
    <3>1. at' = "done" /\ offset' = offset /\ typed' = typed /\ dropped' = dropped
      BY <2>4 DEF HandleKey
    <3> QED  BY <1>1, <3>1
  <2> QED  BY <1>4, <2>1, <2>2, <2>3, <2>4
<1> QED  BY <1>2, <1>3, <1>5 DEF TapeInv, TermTypeOK, SavedIsPaper, screen

LEMMA OthersKeepTape ==
  ASSUME TapeInv, Drawn \/ ShellWrites \/ ShellReads \/ ShellExits \/ Press
  PROVE  TapeInv'
<1> USE DEF TapeInv, TermTypeOK, SavedIsPaper, screen
<1>1. CASE Drawn
  BY <1>1 DEF Drawn
<1>2. CASE ShellWrites
  <2>1. PICK b \in TermByte : out' = Append(out, b)
    BY <1>2 DEF ShellWrites
  <2>2. out' \in Seq(TermByte) /\ Len(out') <= PtySize
    BY <1>2, <2>1, TerminalAssumption DEF ShellWrites
  <2>3. UNCHANGED <<screen, offset, typed, keys, dropped, shell, at>>
    BY <1>2 DEF ShellWrites
  <2> QED  BY <2>2, <2>3
<1>3. CASE ShellReads
  <2>1. typed' \in 0 .. PtySize
    BY <1>3, TerminalAssumption DEF ShellReads
  <2> QED  BY <1>3, <2>1 DEF ShellReads
<1>4. CASE ShellExits
  BY <1>4 DEF ShellExits
<1>5. CASE Press
  <2>1. PICK k \in {"key", "older", "newer", "escape"} : keys' = Append(keys, k)
    BY <1>5 DEF Press
  <2>2. keys' \in Seq({"key", "older", "newer", "escape"})
    BY <2>1
  <2>3. UNCHANGED <<screen, offset, out, typed, dropped, shell, at>>
    BY <1>5 DEF Press
  <2> QED  BY <2>2, <2>3
<1> QED  BY <1>1, <1>2, <1>3, <1>4, <1>5

(* What the terminal shows is a piece of the paper, unpadded, whatever the *)
(* shell writes and the user scrolls, for screens and scrollbacks of every *)
(* size.                                                                   *)
THEOREM ScreenIsPaper == TermSpec => []TermInv
<1>1. TermInit => TapeInv
  <2> SUFFICES ASSUME TermInit PROVE TapeInv
    OBVIOUS
  <2>1. Empty \in [0 .. Rows - 1 -> TermLine]
    <3>1. Blanks \in TermLine
      BY DEF Blanks, TermLine
    <3> QED  BY <3>1 DEF Empty
  <2>2. /\ saved = <<>> /\ inked = <<>> /\ keys = <<>> /\ out = <<>>
        /\ grid = Empty /\ row = 0 /\ col = 0 /\ esc = 0 /\ offset = 0 /\ typed = 0
        /\ dropped = FALSE /\ shell = TRUE /\ at = "read"
    BY DEF TermInit
  <2>3. /\ saved \in Seq(TermLine) /\ inked \in Seq(TermLine) /\ out \in Seq(TermByte)
        /\ keys \in Seq({"key", "older", "newer", "escape"})
        /\ Len(saved) = 0 /\ Len(inked) = 0 /\ Len(out) = 0
    BY <2>2
  <2>4. row \in 0 .. Rows - 1 /\ col \in 0 .. Cols - 1 /\ esc \in 0 .. 2 /\ typed \in 0 .. PtySize
    BY <2>2, TerminalAssumption
  <2>5. SavedIsPaper
    BY <2>3 DEF SavedIsPaper
  <2>6. dropped \in BOOLEAN /\ shell \in BOOLEAN
    BY <2>2
  <2>7. Len(saved) <= Scrollback /\ offset \in 0 .. Len(saved) /\ Len(out) <= PtySize
    BY <2>2, <2>3, TerminalAssumption
  <2>8. grid \in [0 .. Rows - 1 -> TermLine] /\ at \in {"read", "events", "done"}
    BY <2>1, <2>2
  <2> QED  BY <2>3, <2>4, <2>5, <2>6, <2>7, <2>8 DEF TapeInv, TermTypeOK
<1>2. TapeInv /\ [TermNext]_termVars => TapeInv'
  <2> SUFFICES ASSUME TapeInv, [TermNext]_termVars PROVE TapeInv'
    OBVIOUS
  <2>1. CASE UNCHANGED termVars
    BY <2>1 DEF termVars, screen, TapeInv, TermTypeOK, SavedIsPaper
  <2>2. CASE TermNext
    BY <2>2, ReadKeeps, HandleKeyKeeps, OthersKeepTape DEF TermNext, TermStep
  <2> QED  BY <2>1, <2>2
<1>3. TapeInv => TermInv
  BY ViewFollows DEF TapeInv, TermInv
<1> QED  BY <1>1, <1>2, <1>3, PTL DEF TermSpec

(***************************************************************************)
(* An application on BotUI.  ToolkitInv is inductive: what makes the       *)
(* framebuffer and the canvas differ leaves a resize event in the queue,   *)
(* and its handler makes them one, or else memory was short.               *)
(***************************************************************************)
EventType == {"INPUT", "ESCAPE", "CLOSE", "RESIZE"}

Window == [size : Size, orig : Size, maximized : BOOLEAN, close : BOOLEAN, short : BOOLEAN]

(* What a call of the library may leave. *)
Library == [evq : Seq(BotEvent), lost : SUBSET EventType, win : Window, size : Size,
            out : Seq(XEvent)]

WaitsResize(u) == "RESIZE" \in u.lost \/ \E i \in DOMAIN u.evq : u.evq[i].type = "RESIZE"

(* u may be left when the canvas has size c. *)
InStep(u, c) ==
  u \in Library /\ Len(u.evq) <= QueueSize /\ (WaitsResize(u) \/ u.win.short \/ c = u.win.size)

LEMMA EventTypes ==
  /\ \A e \in BotEvent : e.type \in EventType
  /\ \A t \in {"INPUT", "ESCAPE", "CLOSE"} : E(t) \in BotEvent /\ E(t).type = t
  /\ \A s \in Size : Resized(s) \in BotEvent /\ Resized(s).type = "RESIZE"
  /\ \A e \in BotEvent : e.type = "RESIZE" => e.size \in Size
<1>1. \A e \in BotEvent : e.type \in EventType
  BY DEF BotEvent, EventType
<1>2. \A t \in {"INPUT", "ESCAPE", "CLOSE"} : E(t) \in BotEvent /\ E(t).type = t
  BY DEF BotEvent, E
<1>3. \A s \in Size : Resized(s) \in BotEvent /\ Resized(s).type = "RESIZE"
  BY DEF BotEvent, Resized
<1>4. \A e \in BotEvent : e.type = "RESIZE" => e.size \in Size
  BY DEF BotEvent
<1> QED  BY <1>1, <1>2, <1>3, <1>4

(* A push leaves the queue within its size; a resize event in it waits or  *)
(* is lost.                                                                *)
LEMMA PushWaits ==
  ASSUME NEW u \in Library, Len(u.evq) <= QueueSize, NEW e \in BotEvent
  PROVE  LET w == bot_event_push(u, e) IN
         /\ w \in Library /\ Len(w.evq) <= QueueSize
         /\ w.win = u.win /\ w.size = u.size /\ w.out = u.out
         /\ WaitsResize(u) \/ e.type = "RESIZE" => WaitsResize(w)
<1> DEFINE w == bot_event_push(u, e)
<1>1. /\ u.evq \in Seq(BotEvent) /\ u.lost \in SUBSET EventType /\ Len(u.evq) \in Nat
      /\ QueueSize \in Nat \ {0} /\ e.type \in EventType
  BY ToolkitAssumption, EventTypes DEF Library
<1>2. CASE Len(u.evq) >= QueueSize
  <2> DEFINE t == Tail(u.evq)
  <2>1. u.evq # <<>> /\ Len(u.evq) = QueueSize
    BY <1>1, <1>2
  <2>2. /\ t \in Seq(BotEvent) /\ Len(t) = Len(u.evq) - 1
        /\ \A i \in 1 .. Len(u.evq) - 1 : t[i] = u.evq[i + 1]
        /\ Head(u.evq) = u.evq[1] /\ Head(u.evq) \in BotEvent
    BY <1>1, <2>1
  <2> HIDE DEF t
  <2>3. w = [u EXCEPT !.evq = Append(t, e), !.lost = u.lost \cup {Head(u.evq).type}]
    BY <1>2 DEF bot_event_push, t
  <2>4. /\ Append(t, e) \in Seq(BotEvent) /\ Len(Append(t, e)) = Len(u.evq)
        /\ \A i \in 1 .. Len(u.evq) - 1 : Append(t, e)[i] = u.evq[i + 1]
        /\ Append(t, e)[Len(u.evq)] = e
    BY <1>1, <2>2
  <2>5. u.lost \cup {Head(u.evq).type} \in SUBSET EventType
    BY <1>1, <2>2, EventTypes
  <2>6. /\ w.evq = Append(t, e) /\ w.lost = u.lost \cup {Head(u.evq).type}
        /\ w.win = u.win /\ w.size = u.size /\ w.out = u.out
    BY <2>3 DEF Library
  <2>7. w \in Library
    BY <2>3, <2>4, <2>5 DEF Library
  <2> HIDE DEF w
  <2>8. ASSUME WaitsResize(u) \/ e.type = "RESIZE" PROVE WaitsResize(w)
    <3>1. CASE "RESIZE" \in u.lost
      BY <2>6, <3>1 DEF WaitsResize
    <3>2. CASE e.type = "RESIZE"
      <4>1. Len(u.evq) \in DOMAIN w.evq /\ w.evq[Len(u.evq)].type = "RESIZE"
        BY <1>1, <2>1, <2>4, <2>6, <3>2
      <4> QED  BY <4>1 DEF WaitsResize
    <3>3. ASSUME NEW i \in DOMAIN u.evq, u.evq[i].type = "RESIZE" PROVE WaitsResize(w)
      <4>1. CASE i = 1
        BY <2>2, <2>6, <3>3, <4>1 DEF WaitsResize
      <4>2. CASE i # 1
        <5>1. i \in 1 .. Len(u.evq) /\ i - 1 \in 1 .. Len(u.evq) - 1 /\ (i - 1) + 1 = i
          BY <1>1, <4>2
        <5>2. i - 1 \in DOMAIN w.evq /\ w.evq[i - 1] = u.evq[i]
          BY <1>1, <2>4, <2>6, <5>1
        <5> QED  BY <3>3, <5>2 DEF WaitsResize
      <4> QED  BY <4>1, <4>2
    <3> QED  BY <2>8, <3>1, <3>2, <3>3 DEF WaitsResize
  <2> QED  BY <2>1, <2>4, <2>6, <2>7, <2>8 DEF w
<1>3. CASE ~(Len(u.evq) >= QueueSize)
  <2>1. w = [u EXCEPT !.evq = Append(u.evq, e)]
    BY <1>3 DEF bot_event_push
  <2>2. /\ Append(u.evq, e) \in Seq(BotEvent) /\ Len(Append(u.evq, e)) = Len(u.evq) + 1
        /\ \A i \in 1 .. Len(u.evq) : Append(u.evq, e)[i] = u.evq[i]
        /\ Append(u.evq, e)[Len(u.evq) + 1] = e
    BY <1>1
  <2>3. /\ w.evq = Append(u.evq, e) /\ w.lost = u.lost
        /\ w.win = u.win /\ w.size = u.size /\ w.out = u.out
    BY <2>1 DEF Library
  <2>4. w \in Library
    BY <2>1, <2>2 DEF Library
  <2>5. Len(w.evq) <= QueueSize
    BY <1>1, <1>3, <2>2, <2>3
  <2> HIDE DEF w
  <2>6. ASSUME WaitsResize(u) \/ e.type = "RESIZE" PROVE WaitsResize(w)
    <3>1. CASE "RESIZE" \in u.lost
      BY <2>3, <3>1 DEF WaitsResize
    <3>2. CASE e.type = "RESIZE"
      <4>1. Len(u.evq) + 1 \in DOMAIN w.evq /\ w.evq[Len(u.evq) + 1].type = "RESIZE"
        BY <1>1, <2>2, <2>3, <3>2
      <4> QED  BY <4>1 DEF WaitsResize
    <3>3. ASSUME NEW i \in DOMAIN u.evq, u.evq[i].type = "RESIZE" PROVE WaitsResize(w)
      <4>1. i \in DOMAIN w.evq /\ w.evq[i] = u.evq[i]
        BY <1>1, <2>2, <2>3
      <4> QED  BY <3>3, <4>1 DEF WaitsResize
    <3> QED  BY <2>6, <3>1, <3>2, <3>3 DEF WaitsResize
  <2> QED  BY <2>3, <2>4, <2>5, <2>6 DEF w
<1> QED  BY <1>2, <1>3

LEMMA ResizeFits ==
  ASSUME NEW u \in Library, Len(u.evq) <= QueueSize, NEW s \in Size, NEW ok \in BOOLEAN
  PROVE  LET w == bot_window_resize(u, s, ok) IN
         w \in Library /\ w.evq = u.evq /\ w.lost = u.lost /\ (w.win.size = s \/ w.win.short)
<1> DEFINE w == bot_window_resize(u, s, ok)
<1>a. CASE ok
  <2> DEFINE o == IF u.size = s THEN u.out ELSE Append(u.out, [type |-> "configure", size |-> s])
             n == [u.win EXCEPT !.size = s, !.short = FALSE]
  <2>1. o \in Seq(XEvent)
    <3>1. u.out \in Seq(XEvent) /\ [type |-> "configure", size |-> s] \in XEvent
      BY DEF Library, XEvent
    <3> QED  BY <3>1
  <2>2. n \in Window /\ n.size = s
    BY DEF Library, Window
  <2>3. w = [u EXCEPT !.win = n, !.size = s, !.out = o]
    BY <1>a DEF bot_window_resize, Library
  <2> HIDE DEF o, n
  <2>4. w \in Library
    BY <2>1, <2>2, <2>3 DEF Library
  <2>5. w.evq = u.evq /\ w.lost = u.lost /\ w.win = n
    BY <2>3 DEF Library
  <2> QED  BY <2>2, <2>4, <2>5
<1>b. CASE ~ok
  <2> DEFINE n == [u.win EXCEPT !.short = TRUE]
  <2>1. n \in Window /\ n.short
    BY DEF Library, Window
  <2>2. w = [u EXCEPT !.win = n]
    BY <1>b DEF bot_window_resize, Library
  <2> HIDE DEF n
  <2>3. w \in Library
    BY <2>1, <2>2 DEF Library
  <2>4. w.evq = u.evq /\ w.lost = u.lost /\ w.win = n
    BY <2>2 DEF Library
  <2> QED  BY <2>1, <2>3, <2>4
<1> QED  BY <1>a, <1>b

LEMMA TranslateInStep ==
  ASSUME NEW c \in Size, NEW u, InStep(u, c), NEW x \in XEvent, NEW ok \in BOOLEAN
  PROVE  InStep(Translate(u, x, ok), c)
<1>1. u \in Library /\ Len(u.evq) <= QueueSize /\ (WaitsResize(u) \/ u.win.short \/ c = u.win.size)
  BY DEF InStep
<1>2. ASSUME NEW e \in BotEvent PROVE InStep(bot_event_push(u, e), c)
  BY <1>1, PushWaits DEF InStep
<1>3. x.type \in {"input", "escape", "maximize", "close", "delete", "configure"}
  BY DEF XEvent
<1>4. CASE x.type \in {"input", "escape", "delete", "configure"}
  <2>1. x.type = "configure" => x.size \in Size
    BY DEF XEvent
  <2> QED  BY <1>2, <1>4, <2>1, EventTypes DEF Translate
<1>5. CASE x.type = "close"
  <2> DEFINE v == [u EXCEPT !.win.close = TRUE]
  <2>1. v \in Library /\ v.evq = u.evq /\ v.lost = u.lost /\ v.win.size = u.win.size /\ v.win.short = u.win.short
    BY <1>1 DEF Library, Window
  <2>2. Translate(u, x, ok) = bot_event_push(v, E("CLOSE"))
    BY <1>5 DEF Translate
  <2> HIDE DEF v
  <2>3. WaitsResize(u) => WaitsResize(v)
    BY <2>1 DEF WaitsResize
  <2> HIDE DEF v
  <2>4. E("CLOSE") \in BotEvent
    BY EventTypes
  <2> DEFINE w == bot_event_push(v, E("CLOSE"))
  <2>5. /\ w \in Library /\ Len(w.evq) <= QueueSize /\ w.win = v.win
        /\ WaitsResize(v) => WaitsResize(w)
    BY <1>1, <2>1, <2>4, PushWaits
  <2> HIDE DEF w
  <2>6. InStep(w, c)
    BY <1>1, <2>1, <2>3, <2>5 DEF InStep
  <2> QED  BY <2>2, <2>6 DEF w
<1>6. CASE x.type = "maximize"
  <2>1. Screen \in Size /\ u.win.orig \in Size /\ u.win.size \in Size
    BY <1>1, ToolkitAssumption DEF Size, Library, Window
  <2>2. PICK s \in Size, v \in Library : /\ Translate(u, x, ok) = bot_event_push(v, Resized(s))
                                         /\ v.evq = u.evq
    <3>1. CASE ~u.win.maximized
      <4> DEFINE r == bot_window_resize(u, Screen, ok)
                 v == [r EXCEPT !.win.orig = u.win.size, !.win.maximized = TRUE]
      <4>1. r \in Library /\ r.evq = u.evq
        BY <1>1, <2>1, ResizeFits
      <4>2. Translate(u, x, ok) = bot_event_push(v, Resized(Screen))
        BY <1>6, <3>1 DEF Translate, bot_window_toggle_maximize
      <4> HIDE DEF r
      <4>3. v \in Library /\ v.evq = u.evq
        BY <2>1, <4>1 DEF Library, Window
      <4> QED  BY <2>1, <4>2, <4>3
    <3>2. CASE u.win.maximized
      <4> DEFINE r == bot_window_resize(u, u.win.orig, ok)
                 v == [r EXCEPT !.win.maximized = FALSE]
      <4>1. r \in Library /\ r.evq = u.evq
        BY <1>1, <2>1, ResizeFits
      <4>2. Translate(u, x, ok) = bot_event_push(v, Resized(u.win.orig))
        BY <1>6, <3>2 DEF Translate, bot_window_toggle_maximize
      <4> HIDE DEF r
      <4>3. v \in Library /\ v.evq = u.evq
        BY <2>1, <4>1 DEF Library, Window
      <4> QED  BY <2>1, <4>2, <4>3
    <3> QED  BY <3>1, <3>2
  <2> DEFINE e == Resized(s)
             w == bot_event_push(v, e)
  <2>3. e \in BotEvent /\ e.type = "RESIZE"
    BY EventTypes
  <2> HIDE DEF e
  <2>4. w \in Library /\ Len(w.evq) <= QueueSize /\ WaitsResize(w)
    BY <1>1, <2>2, <2>3, PushWaits
  <2> HIDE DEF w
  <2>5. InStep(w, c)
    BY <2>4 DEF InStep
  <2> QED  BY <2>2, <2>5 DEF e, w
<1> QED  BY <1>3, <1>4, <1>5, <1>6

(* A set of numbers that is not empty has a least. *)
LEMMA LeastExists ==
  ASSUME NEW S, S \subseteq Nat, S # {}
  PROVE  \E k \in S : \A j \in S : k <= j
<1>1. PICK k \in S : \A j \in S : <<j, k>> \notin OpToRel(<, Nat)
  BY NatLessThanWellFounded, WFMin
<1>2. ASSUME NEW j \in S PROVE k <= j
  <2>1. ~(j < k)
    BY <1>1 DEF OpToRel
  <2>2. j \in Nat /\ k \in Nat
    OBVIOUS
  <2> QED  BY <2>1, <2>2
<1> QED  BY <1>2

(* Pumped is the end of the function it defines: one that goes one event   *)
(* further can always be had.                                              *)
LEMMA PumpedSteps ==
  ASSUME xq \in Seq(XEvent), NEW oks
  PROVE  \E after : /\ Pumped(oks) = after[Len(xq)]
                    /\ \A i \in 0 .. Len(xq) :
                         after[i] = IF i = 0 THEN Now ELSE Translate(after[i - 1], xq[i], oks[i])
<1> DEFINE Upto(f, n) == f = [i \in 0 .. n |-> IF i = 0 THEN Now ELSE Translate(f[i - 1], xq[i], oks[i])]
           Bad == {n \in Nat : ~ \E f : Upto(f, n)}
<1>1. Bad = {}
  <2> SUFFICES ASSUME Bad # {} PROVE FALSE
    OBVIOUS
  <2>1. PICK k \in Bad : \A j \in Bad : k <= j
    BY LeastExists
  <2>2. CASE k = 0
    <3> DEFINE f == [i \in 0 .. 0 |-> Now]
    <3>1. Upto(f, 0)
      OBVIOUS
    <3> QED  BY <2>1, <2>2, <3>1
  <2>3. CASE k # 0
    <3>1. k - 1 \in Nat /\ k - 1 \notin Bad
      <4>1. k \in Nat
        BY <2>1
      <4> HIDE DEF Bad
      <4> QED  BY <2>1, <2>3, <4>1
    <3>2. PICK g : Upto(g, k - 1)
      BY <3>1
    <3> DEFINE f == [i \in 0 .. k |-> IF i = k THEN Translate(g[k - 1], xq[k], oks[k]) ELSE g[i]]
    <3>3. ASSUME NEW i \in 0 .. k
          PROVE  f[i] = IF i = 0 THEN Now ELSE Translate(f[i - 1], xq[i], oks[i])
      <4>1. CASE i = k
        BY <2>3, <3>1, <4>1
      <4>2. CASE i # k
        <5>1. i \in 0 .. k - 1 /\ f[i] = g[i] /\ (i # 0 => f[i - 1] = g[i - 1])
          BY <3>1, <4>2
        <5>2. g[i] = IF i = 0 THEN Now ELSE Translate(g[i - 1], xq[i], oks[i])
          BY <3>2, <5>1
        <5> QED  BY <5>1, <5>2
      <4> QED  BY <4>1, <4>2
    <3>4. Upto(f, k)
      <4>1. f = [i \in 0 .. k |-> f[i]]
        OBVIOUS
      <4> HIDE DEF f
      <4> QED  BY <3>3, <4>1
    <3> QED  BY <2>1, <3>4
  <2> QED  BY <2>2, <2>3
<1>2. Len(xq) \in Nat
  OBVIOUS
<1>3. \E f : Upto(f, Len(xq))
  BY <1>1, <1>2
<1> DEFINE all == CHOOSE f : Upto(f, Len(xq))
<1>4. Upto(all, Len(xq))
  BY <1>3
<1>5. Pumped(oks) = all[Len(xq)]
  BY DEF Pumped
<1>6. \A i \in 0 .. Len(xq) : all[i] = IF i = 0 THEN Now ELSE Translate(all[i - 1], xq[i], oks[i])
  BY <1>4
<1> HIDE DEF all
<1> QED  BY <1>5, <1>6

(* Whatever the server sent, the pump leaves the library in step.          *)
LEMMA PumpInStep ==
  ASSUME NEW c \in Size, xq \in Seq(XEvent), InStep(Now, c), NEW oks \in Outcomes
  PROVE  InStep(Pumped(oks), c)
<1>1. Len(xq) \in Nat /\ oks \in [0 .. Len(xq) -> BOOLEAN]
  BY DEF Outcomes
<1>2. PICK after : /\ Pumped(oks) = after[Len(xq)]
                   /\ \A i \in 0 .. Len(xq) :
                        after[i] = IF i = 0 THEN Now ELSE Translate(after[i - 1], xq[i], oks[i])
  BY PumpedSteps
<1> DEFINE Bad == {n \in 0 .. Len(xq) : ~InStep(after[n], c)}
<1>3. Bad = {}
  <2> SUFFICES ASSUME Bad # {} PROVE FALSE
    OBVIOUS
  <2>0. Bad \subseteq Nat
    BY <1>1
  <2>1. PICK k \in Bad : \A j \in Bad : k <= j
    BY <2>0, LeastExists
  <2>2. k # 0
    BY <1>1, <1>2
  <2>3. k - 1 \in 0 .. Len(xq) /\ InStep(after[k - 1], c) /\ xq[k] \in XEvent /\ oks[k] \in BOOLEAN
    BY <1>1, <2>1, <2>2
  <2>4. after[k] = Translate(after[k - 1], xq[k], oks[k])
    BY <1>2, <2>2
  <2>5. InStep(after[k], c)
    BY <2>3, <2>4, TranslateInStep
  <2> QED  BY <2>5
<1> QED  BY <1>1, <1>2, <1>3

(* One poll leaves the application in step.                                *)
LEMMA PollInStep ==
  ASSUME ToolkitInv, NEW closed, NEW none, NEW other,
         {closed, none, other} \subseteq {"top", "drain", "render", "wait", "done"},
         closed # "render", other # "render", pc # "setup",
         bot_event_poll(closed, none, other)
  PROVE  ToolkitInv'
<1>0. PICK oks \in Outcomes :
        LET r == Poll(oks) IN
        /\ evq' = r.u.evq /\ lost' = r.u.lost /\ win' = r.u.win /\ size' = r.u.size /\ xq' = r.u.out
        /\ canvas' = (IF r.e.type = "RESIZE" THEN r.e.size ELSE canvas)
        /\ quit' = (quit \/ r.e.type = "ESCAPE" \/ (loop = "library" /\ r.e.type = "CLOSE"))
        /\ pc' = (CASE r.e.type = "CLOSE" -> closed [] r.e.type = "NONE" -> none [] OTHER -> other)
        /\ UNCHANGED <<grip, loop, overlapped, inputs, resizes>>
  <2>1. PICK q \in {Poll(oks) : oks \in Outcomes} :
        /\ evq' = q.u.evq /\ lost' = q.u.lost /\ win' = q.u.win /\ size' = q.u.size /\ xq' = q.u.out
        /\ canvas' = (IF q.e.type = "RESIZE" THEN q.e.size ELSE canvas)
        /\ quit' = (quit \/ q.e.type = "ESCAPE" \/ (loop = "library" /\ q.e.type = "CLOSE"))
        /\ pc' = (CASE q.e.type = "CLOSE" -> closed [] q.e.type = "NONE" -> none [] OTHER -> other)
        /\ UNCHANGED <<grip, loop, overlapped, inputs, resizes>>
    BY DEF bot_event_poll
  <2>2. PICK oks \in Outcomes : q = Poll(oks)
    OBVIOUS
  <2> QED  BY <2>1, <2>2
<1> DEFINE p == Pumped(oks)
           r == Poll(oks)
<1>1. /\ evq' = r.u.evq /\ lost' = r.u.lost /\ win' = r.u.win /\ size' = r.u.size /\ xq' = r.u.out
      /\ canvas' = (IF r.e.type = "RESIZE" THEN r.e.size ELSE canvas)
      /\ quit' = (quit \/ r.e.type = "ESCAPE" \/ (loop = "library" /\ r.e.type = "CLOSE"))
      /\ pc' = (CASE r.e.type = "CLOSE" -> closed [] r.e.type = "NONE" -> none [] OTHER -> other)
      /\ UNCHANGED <<grip, loop, overlapped, inputs, resizes>>
  BY <1>0
<1>2. InStep(Now, canvas) /\ canvas \in Size /\ xq \in Seq(XEvent)
  <2>1. <<>> \in Seq(XEvent)
    OBVIOUS
  <2>2. Now \in Library /\ Now.evq = evq /\ Now.lost = lost /\ Now.win = win
    BY <2>1 DEF ToolkitInv, ToolkitTypeOK, Now, Library, EventType, Window
  <2> QED  BY <2>2 DEF ToolkitInv, ToolkitTypeOK, LagsByEvent, InStep, WaitsResize
<1>3. InStep(p, canvas)
  BY <1>2, PumpInStep
<1>4. CASE p.evq = <<>>
  <2>1. r = [u |-> p, e |-> E("NONE")]
    BY <1>4 DEF Poll
  <2>2. r.u = p /\ r.e.type = "NONE"
    BY <2>1 DEF E
  <2> HIDE DEF r, p
  <2>3. canvas' = canvas /\ pc' = none /\ evq' = <<>>
    BY <1>1, <1>4, <2>2
  <2>4. quit' \in BOOLEAN
    BY <1>1 DEF ToolkitInv, ToolkitTypeOK
  <2>5. ToolkitTypeOK'
    BY <1>1, <1>3, <2>2, <2>3, <2>4
    DEF ToolkitInv, ToolkitTypeOK, InStep, Library, EventType, Window
  <2>6. WaitsResize(p) \/ p.win.short \/ canvas = p.win.size
    BY <1>3 DEF InStep
  <2>7. LagsByEvent'
    <3>1. win'.short \/ "RESIZE" \in lost' \/ (\E i \in DOMAIN evq' : evq'[i].type = "RESIZE") \/ canvas' = win'.size
      BY <1>1, <2>2, <2>3, <2>6 DEF WaitsResize
    <3> QED  BY <2>3, <3>1 DEF LagsByEvent
  <2>8. CopyFits'
    BY <2>3, <2>7 DEF LagsByEvent, CopyFits
  <2> QED  BY <2>5, <2>7, <2>8 DEF ToolkitInv
<1>5. CASE p.evq # <<>>
  <2> DEFINE h == Head(p.evq)
             t == Tail(p.evq)
             v == [p EXCEPT !.evq = t]
             u == Handled(v, h, oks[0])
  <2>1. r.u = u /\ r.e = h
    BY <1>5 DEF Poll
  <2>2. /\ p \in Library /\ p.evq \in Seq(BotEvent) /\ Len(p.evq) <= QueueSize
        /\ Len(p.evq) \in Nat /\ (WaitsResize(p) \/ p.win.short \/ canvas = p.win.size)
    BY <1>3 DEF InStep, Library
  <2>3. /\ h \in BotEvent /\ h = p.evq[1] /\ t \in Seq(BotEvent) /\ Len(t) = Len(p.evq) - 1
        /\ \A i \in 1 .. Len(p.evq) - 1 : t[i] = p.evq[i + 1]
    BY <1>5, <2>2
  <2> HIDE DEF h, t, r, p
  <2>4. v \in Library /\ v.evq = t /\ v.lost = p.lost /\ v.win = p.win /\ Len(v.evq) <= QueueSize
    <3>1. Len(t) <= QueueSize
      BY <2>2, <2>3, ToolkitAssumption
    <3> QED  BY <2>2, <2>3, <3>1 DEF Library
  <2>5. h.type # "RESIZE" /\ WaitsResize(p) => WaitsResize(v)
    <3> HIDE DEF v
    <3> SUFFICES ASSUME h.type # "RESIZE", WaitsResize(p) PROVE WaitsResize(v)
      OBVIOUS
    <3>1. CASE "RESIZE" \in p.lost
      BY <2>4, <3>1 DEF WaitsResize
    <3>2. ASSUME NEW i \in DOMAIN p.evq, p.evq[i].type = "RESIZE" PROVE WaitsResize(v)
      <4>1. i \in 1 .. Len(p.evq) /\ i # 1
        BY <2>2, <2>3, <3>2
      <4>2. i - 1 \in 1 .. Len(p.evq) - 1 /\ (i - 1) + 1 = i
        BY <2>2, <4>1
      <4>3. i - 1 \in DOMAIN v.evq /\ v.evq[i - 1] = p.evq[i]
        <5>1. DOMAIN v.evq = 1 .. Len(p.evq) - 1
          BY <2>2, <2>3, <2>4
        <5> QED  BY <2>3, <2>4, <4>2, <5>1
      <4> QED  BY <3>2, <4>3 DEF WaitsResize
    <3> QED  BY <3>1, <3>2 DEF WaitsResize
  <2> HIDE DEF v
  <2>6. /\ u \in Library /\ Len(u.evq) <= QueueSize /\ canvas' \in Size
        /\ WaitsResize(u) \/ u.win.short \/ canvas' = u.win.size
    <3>1. CASE h.type = "RESIZE"
      <4>1. h.size \in Size /\ u = bot_window_resize(v, h.size, oks[0]) /\ canvas' = h.size
        BY <1>1, <2>1, <2>3, <3>1, EventTypes DEF Handled
      <4>2. oks[0] \in BOOLEAN
        <5>1. 0 \in 0 .. Len(xq)
          BY <1>2
        <5> QED  BY <5>1 DEF Outcomes
      <4> QED  BY <2>4, <4>1, <4>2, ResizeFits
    <3>2. CASE h.type # "RESIZE"
      <4>1. canvas' = canvas
        BY <1>1, <2>1, <3>2
      <4>2. CASE h.type = "ESCAPE"
        <5>1. u = bot_event_push(v, E("CLOSE"))
          BY <4>2 DEF Handled
        <5>2. E("CLOSE") \in BotEvent
          BY EventTypes
        <5>3. /\ u \in Library /\ Len(u.evq) <= QueueSize /\ u.win = v.win
              /\ WaitsResize(v) => WaitsResize(u)
          BY <2>4, <5>1, <5>2, PushWaits
        <5> QED  BY <1>2, <2>2, <2>4, <2>5, <3>2, <4>1, <5>3
      <4>3. CASE h.type # "ESCAPE"
        <5>1. u = v
          BY <3>2, <4>3 DEF Handled
        <5> QED  BY <1>2, <2>2, <2>4, <2>5, <3>2, <4>1, <5>1
      <4> QED  BY <4>2, <4>3
    <3> QED  BY <3>1, <3>2
  <2> HIDE DEF u
  <2>7. h.type # "NONE"
    BY <2>3, EventTypes DEF EventType
  <2>8. pc' \in {"top", "drain", "wait", "done", "render"} /\ pc' # "render"
    <3>1. CASE h.type = "CLOSE"
      BY <1>1, <2>1, <3>1
    <3>2. CASE h.type # "CLOSE"
      BY <1>1, <2>1, <2>7, <3>2
    <3> QED  BY <3>1, <3>2
  <2>9. quit' \in BOOLEAN
    BY <1>1 DEF ToolkitInv, ToolkitTypeOK
  <2>10. ToolkitTypeOK'
    BY <1>1, <2>1, <2>6, <2>8, <2>9
    DEF ToolkitInv, ToolkitTypeOK, Library, EventType, Window
  <2>11. LagsByEvent'
    BY <1>1, <2>1, <2>6, <2>8 DEF LagsByEvent, WaitsResize
  <2> QED  BY <2>8, <2>10, <2>11 DEF ToolkitInv, CopyFits
<1> QED  BY <1>4, <1>5

LEMMA LoopInStep ==
  ASSUME ToolkitInv, AppStep
  PROVE  ToolkitInv'
<1>1. CASE bot_event_quit
  <2>1. /\ evq = <<>> /\ UNCHANGED <<lost, win, canvas, pc, size, grip, xq, loop, overlapped, inputs, resizes>>
        /\ quit' = TRUE /\ pc = "setup"
    BY <1>1 DEF bot_event_quit, outside, ToolkitInv, LagsByEvent
  <2>2. evq' = <<E("CLOSE")>>
    <3>1. ~(Len(Now.evq) >= QueueSize) /\ Now.evq = <<>>
      BY <2>1, ToolkitAssumption DEF Now
    <3>2. bot_event_push(Now, E("CLOSE")).evq = Append(<<>>, E("CLOSE"))
      BY <3>1 DEF bot_event_push, Now
    <3> QED  BY <1>1, <3>2 DEF bot_event_quit
  <2>3. evq' \in Seq(BotEvent) /\ Len(evq') <= QueueSize
    BY <2>2, EventTypes, ToolkitAssumption
  <2>4. ToolkitTypeOK'
    BY <2>1, <2>3 DEF ToolkitInv, ToolkitTypeOK
  <2>5. LagsByEvent' /\ CopyFits'
    BY <2>1 DEF ToolkitInv, LagsByEvent, CopyFits
  <2> QED  BY <2>4, <2>5 DEF ToolkitInv
<1>2. CASE EnterLoop \/ Top \/ Render
  <2>1. /\ UNCHANGED <<evq, lost, win, canvas, size, grip, xq, loop, overlapped, inputs, resizes>>
        /\ quit' \in BOOLEAN
    BY <1>2 DEF EnterLoop, Top, Render, outside, ToolkitInv, ToolkitTypeOK
  <2>2. pc' \in {"top", "drain", "wait", "done"}
    BY <1>2 DEF EnterLoop, Top, Render
  <2>3. ToolkitTypeOK'
    BY <2>1, <2>2 DEF ToolkitInv, ToolkitTypeOK
  <2>4. LagsByEvent' /\ CopyFits'
    BY <2>1, <2>2 DEF ToolkitInv, LagsByEvent, CopyFits
  <2> QED  BY <2>3, <2>4 DEF ToolkitInv
<1>3. CASE Drain
  BY <1>3, PollInStep DEF Drain
<1>4. CASE Wait
  <2>1. CASE loop = "own"
    BY <1>4, <2>1, PollInStep DEF Wait
  <2>2. CASE loop # "own"
    BY <1>4, <2>2, PollInStep DEF Wait
  <2> QED  BY <2>1, <2>2
<1> QED  BY <1>1, <1>2, <1>3, <1>4 DEF AppStep

LEMMA OutsideInStep ==
  ASSUME ToolkitInv, Outside
  PROVE  ToolkitInv'
<1>1. CASE \E t \in {"input", "escape", "maximize", "close", "delete"} : Input(t)
  <2>1. PICK t \in {"input", "escape", "maximize", "close", "delete"} : Input(t)
    BY <1>1
  <2>2. E(t) \in XEvent
    BY DEF E, XEvent
  <2>a. overlapped' = TRUE \/ overlapped' = overlapped
    BY <2>1 DEF Input
  <2>b. overlapped' \in BOOLEAN
    BY <2>a DEF ToolkitInv, ToolkitTypeOK
  <2>3. /\ xq' \in Seq(XEvent) /\ inputs' \in 0 .. MaxInputs
    BY <2>1, <2>2, ToolkitAssumption DEF Input, ToolkitInv, ToolkitTypeOK
  <2>4. UNCHANGED <<size, grip, evq, lost, win, canvas, loop, quit, pc, resizes>>
    BY <2>1 DEF Input
  <2> QED  BY <2>b, <2>3, <2>4 DEF ToolkitInv, ToolkitTypeOK, LagsByEvent, CopyFits
<1>2. CASE \E s \in Size : GripResize(s)
  <2>1. PICK s \in Size : GripResize(s)
    BY <1>2
  <2>2. [type |-> "configure", size |-> s] \in XEvent
    BY DEF XEvent
  <2>a. overlapped' = TRUE \/ overlapped' = overlapped
    BY <2>1 DEF GripResize
  <2>b. overlapped' \in BOOLEAN
    BY <2>a DEF ToolkitInv, ToolkitTypeOK
  <2>3. /\ xq' \in Seq(XEvent) /\ resizes' \in 0 .. MaxResizes
    BY <2>1, <2>2, ToolkitAssumption DEF GripResize, ToolkitInv, ToolkitTypeOK
  <2>4. grip' = s /\ size' = s /\ UNCHANGED <<evq, lost, win, canvas, loop, quit, pc, inputs>>
    BY <2>1 DEF GripResize
  <2> QED  BY <2>b, <2>3, <2>4 DEF ToolkitInv, ToolkitTypeOK, LagsByEvent, CopyFits
<1> QED  BY <1>1, <1>2 DEF Outside

(* A frame is copied between buffers of one size, whoever resized the      *)
(* window in between, unless a resize event was dropped or memory was      *)
(* short: for every number of sizes, size of the queue and sequence of     *)
(* events, and whether or not a resize comes before the last has settled.  *)
THEOREM FramesFit == ToolkitSpec => []ToolkitInv
<1>1. ToolkitInit => ToolkitInv
  <2> SUFFICES ASSUME ToolkitInit PROVE ToolkitInv
    OBVIOUS
  <2>1. /\ size = 1 /\ grip = 1 /\ canvas = 1 /\ xq = <<>> /\ evq = <<>> /\ lost = {}
        /\ inputs = 0 /\ resizes = 0 /\ overlapped = FALSE /\ pc = "setup" /\ loop \in {"own", "library"} /\ quit = FALSE
        /\ win = [size |-> 1, orig |-> 1, maximized |-> FALSE, close |-> FALSE, short |-> FALSE]
    BY DEF ToolkitInit
  <2>2. 1 \in Size /\ inputs \in 0 .. MaxInputs /\ resizes \in 0 .. MaxResizes
    BY <2>1, ToolkitAssumption DEF Size
  <2>3. win \in [size : Size, orig : Size, maximized : BOOLEAN, close : BOOLEAN, short : BOOLEAN] /\ win.size = 1
    BY <2>1, <2>2
  <2>4. xq \in Seq(XEvent) /\ evq \in Seq(BotEvent) /\ Len(evq) <= QueueSize
    BY <2>1, ToolkitAssumption
  <2>5. quit \in BOOLEAN /\ overlapped \in BOOLEAN
    BY <2>1
  <2>6. ToolkitTypeOK
    BY <2>1, <2>2, <2>3, <2>4, <2>5 DEF ToolkitTypeOK
  <2> QED  BY <2>1, <2>3, <2>6 DEF ToolkitInv, LagsByEvent, CopyFits
<1>2. ToolkitInv /\ [ToolkitNext]_uiVars => ToolkitInv'
  <2> SUFFICES ASSUME ToolkitInv, [ToolkitNext]_uiVars PROVE ToolkitInv'
    OBVIOUS
  <2>1. CASE UNCHANGED uiVars
    BY <2>1 DEF uiVars, ToolkitInv, ToolkitTypeOK, LagsByEvent, CopyFits
  <2>2. CASE ToolkitNext
    <3>1. CASE Ended
      BY <3>1 DEF Ended, uiVars, ToolkitInv, ToolkitTypeOK, LagsByEvent, CopyFits
    <3> QED  BY <2>2, <3>1, LoopInStep, OutsideInStep DEF ToolkitNext
  <2> QED  BY <2>1, <2>2
<1> QED  BY <1>1, <1>2, PTL DEF ToolkitSpec

(***************************************************************************)
(* The editor.  EditorInv is inductive: a key that leaves the text as it   *)
(* was is the only one that does not mark it, and clamp_cursor sets the    *)
(* cursor right whatever the key did to the lines.                         *)
(***************************************************************************)
LEMMA LineIs ==
  \A s : s \in Line <=> s \in Seq(Letter) /\ Len(s) <= LineMax - 1
<1> SUFFICES ASSUME NEW s PROVE s \in Line <=> s \in Seq(Letter) /\ Len(s) <= LineMax - 1
  OBVIOUS
<1>0. LineMax - 1 \in Nat
  BY EditorAssumption
<1>1. ASSUME s \in Line PROVE s \in Seq(Letter) /\ Len(s) <= LineMax - 1
  <2>1. PICK n \in 0 .. LineMax - 1 : s \in [1 .. n -> Letter]
    BY <1>1 DEF Line
  <2>2. n \in Nat /\ n <= LineMax - 1
    BY <1>0, <2>1
  <2> QED  BY <2>1, <2>2
<1>2. ASSUME s \in Seq(Letter), Len(s) <= LineMax - 1 PROVE s \in Line
  <2>1. Len(s) \in 0 .. LineMax - 1 /\ s \in [1 .. Len(s) -> Letter]
    BY <1>0, <1>2
  <2> QED  BY <2>1 DEF Line
<1> QED  BY <1>1, <1>2

(* A piece of a line. *)
LEMMA PieceOf ==
  ASSUME NEW s \in Seq(Letter), NEW m \in Int, NEW n \in Int,
         1 <= m, n <= Len(s), m <= n + 1
  PROVE  /\ SubSeq(s, m, n) \in Seq(Letter) /\ Len(SubSeq(s, m, n)) = n - m + 1
         /\ \A i \in 1 .. n - m + 1 : SubSeq(s, m, n)[i] = s[m + i - 1]
<1>1. \A i \in m .. n : s[i] \in Letter
  OBVIOUS
<1> QED  BY <1>1

LEMMA JoinOf ==
  ASSUME NEW s \in Seq(Letter), NEW t \in Seq(Letter)
  PROVE  s \o t \in Seq(Letter) /\ Len(s \o t) = Len(s) + Len(t) /\ Len(s) \in Nat /\ Len(t) \in Nat
  OBVIOUS

(* fgets leaves a line that fits with its line end as it is, and makes     *)
(* lines that fit of any other.                                            *)
LEMMA PiecesFit ==
  ASSUME NEW l \in Seq(Letter), NEW end \in 0 .. 1
  PROVE  /\ Pieces(l, end) \in Seq(Line)
         /\ 0 < Len(l) + end /\ Len(l) + end < LineMax => Pieces(l, end) = <<l>>
<1> DEFINE m == LineMax - 1
           a == Len(l) + end + LineMax - 2
           n == a \div m
           End(k) == IF k * m < Len(l) THEN k * m ELSE Len(l)
           piece(k) == SubSeq(l, (k - 1) * m + 1, End(k))
<1>1. m \in Nat /\ m > 1 /\ Len(l) \in Nat /\ LineMax - 2 = m - 1 /\ LineMax \in Nat /\ end \in {0, 1}
  BY EditorAssumption
<1>2. Pieces(l, end) = [k \in 1 .. n |-> piece(k)]
  BY DEF Pieces
<1>a. a \in Nat /\ a = Len(l) + end + m - 1 /\ m \in Nat \ {0}
  BY <1>1
<1> HIDE DEF a, m
<1>b. n \in Int /\ m * n <= a /\ a < m * n + m
  BY <1>a
<1> HIDE DEF n
<1>3. n \in Nat /\ (n - 1) * m <= Len(l)
  <2>1. (n - 1) * m = m * n - m
    BY <1>1, <1>b
  <2>2. ~(n < 0)
    <3>1. n < 0 => m * n + m <= 0
      <4> SUFFICES ASSUME n < 0 PROVE m * n + m <= 0
        OBVIOUS
      <4>1. m * n + m = m * (n + 1) /\ n + 1 <= 0
        BY <1>1, <1>b
      <4> QED  BY <1>1, <1>b, <4>1
    <3> QED  BY <1>1, <1>a, <1>b, <3>1
  <2> QED  BY <1>1, <1>a, <1>b, <2>1, <2>2
<1>4. ASSUME NEW k \in 1 .. n PROVE piece(k) \in Line
  <2> DEFINE b == (k - 1) * m
  <2>1. b \in Nat /\ k * m = b + m
    BY <1>1, <1>3
  <2>2. b <= Len(l)
    <3>1. b <= (n - 1) * m
      BY <1>1, <1>3
    <3> QED  BY <1>1, <1>3, <2>1, <3>1
  <2> HIDE DEF b
  <2>3. End(k) = IF b + m < Len(l) THEN b + m ELSE Len(l)
    BY <2>1
  <2>4. piece(k) = SubSeq(l, b + 1, End(k))
    BY DEF b
  <2> HIDE DEF End, piece
  <2>5. End(k) \in Nat /\ End(k) <= Len(l) /\ b <= End(k) /\ End(k) - b <= m
    BY <1>1, <2>1, <2>2, <2>3
  <2>6. piece(k) \in Seq(Letter) /\ Len(piece(k)) = End(k) - b
    BY <1>1, <2>1, <2>4, <2>5, PieceOf
  <2> QED  BY <2>5, <2>6, LineIs DEF m
<1>5. Pieces(l, end) \in Seq(Line)
  BY <1>2, <1>3, <1>4
<1>6. ASSUME 0 < Len(l) + end, Len(l) + end < LineMax PROVE Pieces(l, end) = <<l>>
  <2>0. Len(l) <= m /\ m <= a /\ a < m + m
    BY <1>1, <1>6, <1>a DEF m
  <2>1. n = 1
    <3>1. ~(n <= 0)
      <4>1. n <= 0 => m * n <= 0
        BY <1>1, <1>b
      <4> QED  BY <1>1, <1>a, <1>b, <2>0, <4>1
    <3>2. ~(n >= 2)
      <4>1. n >= 2 => m * n >= m + m
        BY <1>1, <1>b
      <4> QED  BY <1>1, <1>a, <1>b, <2>0, <4>1
    <3> QED  BY <1>b, <3>1, <3>2
  <2>2. piece(1) = l
    <3>1. (1 - 1) * m + 1 = 1 /\ 1 * m = m /\ Len(l) <= m
      BY <1>1, <2>0
    <3>2. End(1) = Len(l)
      BY <1>1, <3>1
    <3>3. piece(1) = SubSeq(l, 1, Len(l))
      BY <3>1, <3>2
    <3>4. SubSeq(l, 1, Len(l)) = l
      BY <1>1
    <3> QED  BY <3>3, <3>4
  <2> HIDE DEF piece
  <2>3. Pieces(l, end) = [k \in 1 .. 1 |-> l]
    <3>1. \A k \in 1 .. 1 : piece(k) = l
      BY <2>2
    <3> QED  BY <1>2, <2>1, <3>1
  <2> QED  BY <2>3
<1> QED  BY <1>5, <1>6

(* Line i of f is not empty in the file and fits the buffer.               *)
Whole(f, last, i) == 0 < Len(f[i]) + LineEnd(f, last, i) /\ Len(f[i]) + LineEnd(f, last, i) < LineMax

(* A file is loaded as lines that fit, and as itself when its own do.      *)
LEMMA FlatPiecesFit ==
  ASSUME NEW f \in Seq(Seq(Letter)), NEW last \in 0 .. 1
  PROVE  /\ FlatPieces(f, last) \in Seq(Line)
         /\ (\A i \in DOMAIN f : Whole(f, last, i)) => FlatPieces(f, last) = f
<1> DEFINE Upto(g, n) == g = [i \in 0 .. n |-> IF i = 0 THEN <<>> ELSE g[i - 1] \o Pieces(f[i], LineEnd(f, last, i))]
           all == CHOOSE g : Upto(g, Len(f))
           Bad == {n \in Nat : ~ \E g : Upto(g, n)}
<1>1. Bad = {}
  <2> SUFFICES ASSUME Bad # {} PROVE FALSE
    OBVIOUS
  <2>1. PICK k \in Bad : \A j \in Bad : k <= j
    BY LeastExists
  <2>2. CASE k = 0
    <3> DEFINE g == [i \in 0 .. 0 |-> <<>>]
    <3>1. Upto(g, 0)
      OBVIOUS
    <3> QED  BY <2>1, <2>2, <3>1
  <2>3. CASE k # 0
    <3>1. k - 1 \in Nat /\ k - 1 \notin Bad
      <4>1. k \in Nat
        BY <2>1
      <4> HIDE DEF Bad
      <4> QED  BY <2>1, <2>3, <4>1
    <3>2. PICK h : Upto(h, k - 1)
      BY <3>1
    <3> DEFINE g == [i \in 0 .. k |-> IF i = k THEN h[k - 1] \o Pieces(f[k], LineEnd(f, last, k)) ELSE h[i]]
    <3>3. ASSUME NEW i \in 0 .. k
          PROVE  g[i] = IF i = 0 THEN <<>> ELSE g[i - 1] \o Pieces(f[i], LineEnd(f, last, i))
      <4>1. CASE i = k
        <5>1. k \in 0 .. k /\ k - 1 \in 0 .. k /\ k - 1 # k
          BY <3>1
        <5>2. g[k] = h[k - 1] \o Pieces(f[k], LineEnd(f, last, k)) /\ g[k - 1] = h[k - 1]
          BY <5>1
        <5> HIDE DEF g
        <5> QED  BY <2>3, <4>1, <5>2
      <4>2. CASE i # k
        <5>1. i \in 0 .. k - 1 /\ g[i] = h[i] /\ (i # 0 => g[i - 1] = h[i - 1])
          BY <3>1, <4>2
        <5>2. h[i] = IF i = 0 THEN <<>> ELSE h[i - 1] \o Pieces(f[i], LineEnd(f, last, i))
          BY <3>2, <5>1
        <5> QED  BY <5>1, <5>2
      <4> QED  BY <4>1, <4>2
    <3>4. Upto(g, k)
      <4>1. g = [i \in 0 .. k |-> g[i]]
        OBVIOUS
      <4> HIDE DEF g
      <4> QED  BY <3>3, <4>1
    <3> QED  BY <2>1, <3>4
  <2> QED  BY <2>2, <2>3
<1>2. Len(f) \in Nat
  OBVIOUS
<1>3. Upto(all, Len(f))
  <2>1. \E g : Upto(g, Len(f))
    BY <1>1, <1>2
  <2> QED  BY <2>1
<1>4. FlatPieces(f, last) = all[Len(f)]
  BY DEF FlatPieces
<1>5. \A i \in 0 .. Len(f) : all[i] = IF i = 0 THEN <<>> ELSE all[i - 1] \o Pieces(f[i], LineEnd(f, last, i))
  BY <1>3
<1> HIDE DEF all
<1>6. \A i \in 0 .. Len(f) : all[i] \in Seq(Line)
  <2> DEFINE Worse == {i \in 0 .. Len(f) : all[i] \notin Seq(Line)}
  <2> SUFFICES ASSUME Worse # {} PROVE FALSE
    OBVIOUS
  <2>0. Worse \subseteq Nat
    BY <1>2
  <2>1. PICK k \in Worse : \A j \in Worse : k <= j
    BY <2>0, LeastExists
  <2>2. k # 0
    <3>1. all[0] = <<>>
      BY <1>2, <1>5
    <3>2. all[0] \in Seq(Line)
      BY <3>1
    <3> QED  BY <3>2
  <2>3. k - 1 \in 0 .. Len(f) /\ all[k - 1] \in Seq(Line) /\ f[k] \in Seq(Letter)
    BY <1>2, <2>1, <2>2
  <2>4. Pieces(f[k], LineEnd(f, last, k)) \in Seq(Line)
    BY <2>3, <2>0, PiecesFit DEF LineEnd
  <2>5. all[k] = all[k - 1] \o Pieces(f[k], LineEnd(f, last, k))
    BY <1>5, <2>2
  <2>6. all[k] \in Seq(Line)
    BY <2>3, <2>4, <2>5
  <2> QED  BY <2>6
<1>7. ASSUME \A i \in DOMAIN f : Whole(f, last, i)
      PROVE  \A i \in 0 .. Len(f) : Len(all[i]) = i /\ \A j \in 1 .. i : all[i][j] = f[j]
  <2> DEFINE Ok(i) == Len(all[i]) = i /\ \A j \in 1 .. i : all[i][j] = f[j]
             Worse == {i \in 0 .. Len(f) : ~Ok(i)}
  <2> SUFFICES ASSUME Worse # {} PROVE FALSE
    OBVIOUS
  <2>0. Worse \subseteq Nat
    BY <1>2
  <2>1. PICK k \in Worse : \A j \in Worse : k <= j
    BY <2>0, LeastExists
  <2>2. k # 0
    <3>1. all[0] = <<>>
      BY <1>2, <1>5
    <3>2. Ok(0)
      BY <3>1
    <3> QED  BY <3>2
  <2>3. k - 1 \in 0 .. Len(f) /\ Ok(k - 1) /\ k \in 1 .. Len(f) /\ f[k] \in Seq(Letter)
    <3> HIDE DEF Ok
    <3> QED  BY <1>2, <2>1, <2>2
  <2>4. all[k] = all[k - 1] \o <<f[k]>>
    <3>0. LineEnd(f, last, k) \in 0 .. 1
      BY DEF LineEnd
    <3>1. k \in 0 .. Len(f) /\ k # 0 /\ k \in DOMAIN f
      BY <1>2, <2>2, <2>3
    <3>2. all[k] = all[k - 1] \o Pieces(f[k], LineEnd(f, last, k))
      BY <1>5, <3>1
    <3>3. Whole(f, last, k)
      BY <1>7, <3>1
    <3>4. Pieces(f[k], LineEnd(f, last, k)) = <<f[k]>>
      BY <2>3, <3>3, <3>0, PiecesFit DEF Whole
    <3> QED  BY <3>2, <3>4
  <2>5. all[k - 1] \in Seq(Line) /\ <<f[k]>> \in Seq({f[k]}) /\ Len(<<f[k]>>) = 1 /\ <<f[k]>>[1] = f[k]
    BY <1>6, <2>3
  <2>6. Len(all[k]) = k
    BY <2>3, <2>4, <2>5
  <2>7. ASSUME NEW j \in 1 .. k PROVE all[k][j] = f[j]
    <3>1. CASE j = k
      BY <2>3, <2>4, <2>5, <3>1
    <3>2. CASE j # k
      <4>1. j \in 1 .. k - 1
        BY <2>3, <3>2
      <4> QED  BY <2>3, <2>4, <2>5, <4>1
    <3> QED  BY <3>1, <3>2
  <2> QED  BY <2>6, <2>7
<1>8. ASSUME \A i \in DOMAIN f : Whole(f, last, i) PROVE FlatPieces(f, last) = f
  <2>1. /\ Len(all[Len(f)]) = Len(f) /\ \A j \in 1 .. Len(f) : all[Len(f)][j] = f[j]
        /\ all[Len(f)] \in Seq(Line)
    BY <1>2, <1>6, <1>7, <1>8
  <2> DEFINE a == all[Len(f)]
  <2> HIDE DEF a
  <2>2. a \in Seq(Line) /\ Len(a) = Len(f) /\ \A j \in 1 .. Len(f) : a[j] = f[j]
    BY <2>1 DEF a
  <2>3. a = f
    <3>1. f = [j \in 1 .. Len(f) |-> f[j]]
      OBVIOUS
    <3>2. a = [j \in 1 .. Len(a) |-> a[j]]
      BY <2>2
    <3> QED  BY <2>2, <3>1, <3>2
  <2> QED  BY <1>4, <2>3 DEF a
<1>9. FlatPieces(f, last) \in Seq(Line)
  BY <1>2, <1>4, <1>6
<1> QED  BY <1>8, <1>9

(* Where clamp_cursor leaves the cursor, in a text of n of the rows. *)
LEMMA Clamped ==
  ASSUME NEW rows \in [Row -> Line], NEW n \in 0 .. MaxLines, NEW px \in Int, NEW py \in Int,
         NEW vis \in MinVisible .. MaxVisible, scroll \in Nat, clamp_cursor(rows, n, px, py, vis)
  PROVE  /\ cx' \in Nat /\ cy' \in Row /\ scroll' \in Nat
         /\ cx' <= Len(rows[cy']) /\ (cy' < n \/ (n = 0 /\ cy' = 0))
         /\ vis > 0 => scroll' <= cy' /\ cy' < scroll' + vis
<1> DEFINE row1 == Most(Least(Most(py, 0), n - 1), 0)
           top == Least(scroll, row1)
<1>0. MaxLines \in Nat /\ MaxLines > 0 /\ MaxVisible \in Nat /\ MinVisible \in Int
  BY EditorAssumption
<1>1. row1 \in Row /\ (row1 < n \/ (n = 0 /\ row1 = 0))
  BY <1>0 DEF Most, Least, Row
<1>2. cy' = row1 /\ cx' = Most(Least(px, Len(rows[row1])), 0)
      /\ scroll' = (IF row1 >= top + vis THEN row1 - vis + 1 ELSE top)
  BY DEF clamp_cursor
<1> HIDE DEF row1
<1>3. rows[row1] \in Seq(Letter) /\ Len(rows[row1]) \in Nat
  BY <1>1, LineIs
<1>4. cx' \in Nat /\ cx' <= Len(rows[row1])
  BY <1>2, <1>3 DEF Most, Least
<1>5. scroll' \in Nat /\ (vis > 0 => scroll' <= row1 /\ row1 < scroll' + vis)
  BY <1>0, <1>1, <1>2 DEF Least, Row
<1> QED  BY <1>1, <1>2, <1>4, <1>5

(* What an edit has to leave for the invariant to hold after it. *)
LEMMA EditKeeps ==
  ASSUME EditorInv, UNCHANGED Other, edits' \in 0 .. MaxEdits, state' \in {"run", "quit", "crashed"},
         lines' \in [Row -> Line], count' \in 0 .. MaxLines, modified' \in BOOLEAN,
         ~modified' => ~modified /\ lines' = lines /\ count' = count,
         NEW px \in Int, NEW py \in Int, clamp_cursor(lines', count', px, py, visible)
  PROVE  EditorInv'
<1>1. visible \in MinVisible .. MaxVisible /\ scroll \in Nat
  BY DEF EditorInv, EditorTypeOK
<1>2. /\ cx' \in Nat /\ cy' \in Row /\ scroll' \in Nat
      /\ cx' <= Len(lines'[cy']) /\ (cy' < count' \/ (count' = 0 /\ cy' = 0))
      /\ visible > 0 => scroll' <= cy' /\ cy' < scroll' + visible
  BY <1>1, Clamped
<1>3. EditorTypeOK'
  BY <1>2 DEF EditorInv, EditorTypeOK, Other
<1>4. CursorOnScreen'
  BY <1>2 DEF CursorOnScreen, Other
<1>5. UnmodifiedIsSaved'
  BY DEF EditorInv, UnmodifiedIsSaved, Other, TextLines
<1> QED  BY <1>3, <1>4, <1>5 DEF EditorInv

LEMMA EditorFacts ==
  ASSUME EditorInv
  PROVE  /\ lines \in [Row -> Line] /\ cy \in Row /\ count \in 0 .. MaxLines
         /\ cx \in Nat /\ cx <= Len(lines[cy]) /\ cy \in Nat
         /\ lines[cy] \in Seq(Letter) /\ Len(lines[cy]) \in Nat /\ Len(lines[cy]) <= LineMax - 1
         /\ LineMax - 1 \in Nat /\ MaxLines \in Nat /\ MaxEdits \in Nat /\ modified \in BOOLEAN
<1>1. /\ lines \in [Row -> Line] /\ cy \in Row /\ count \in 0 .. MaxLines
      /\ cx \in Nat /\ cx <= Len(lines[cy]) /\ modified \in BOOLEAN
  BY DEF EditorInv, EditorTypeOK, CursorOnScreen
<1>2. LineMax - 1 \in Nat /\ MaxLines \in Nat /\ cy \in Nat /\ MaxEdits \in Nat
  BY <1>1, EditorAssumption DEF Row
<1>3. lines[cy] \in Seq(Letter) /\ Len(lines[cy]) <= LineMax - 1
  BY <1>1, LineIs
<1> QED  BY <1>1, <1>2, <1>3

LEMMA InsertKeeps ==
  ASSUME EditorInv, Edit, NEW ch \in Letter, NEW n \in Nat, insert_char(ch, n),
         UNCHANGED <<Other, state>>
  PROVE  EditorInv'
<1> DEFINE l == lines[cy]
           k == Least(n, Most(LineMax - 2 - Len(l), 0))
           a == SubSeq(l, 1, cx)
           b == [i \in 1 .. k |-> ch]
           c == SubSeq(l, cx + 1, Len(l))
           r == Inserted(ch, n)
<1>1. l \in Seq(Letter) /\ Len(l) \in Nat /\ Len(l) <= LineMax - 1 /\ LineMax - 1 \in Nat
      /\ cx \in Nat /\ cx <= Len(l) /\ lines \in [Row -> Line] /\ cy \in Row /\ count \in 0 .. MaxLines
  BY EditorFacts
<1>2. r = [line |-> (a \o b) \o c, grown |-> k]
  BY DEF Inserted
<1> HIDE DEF l
<1>3. k \in Nat /\ (Len(l) + k <= LineMax - 1)
  <2>1. LineMax \in Nat
    BY EditorAssumption
  <2>2. Most(LineMax - 2 - Len(l), 0) \in Nat
        /\ Len(l) + Most(LineMax - 2 - Len(l), 0) <= LineMax - 1
    BY <1>1, <2>1 DEF Most
  <2> QED  BY <1>1, <2>1, <2>2 DEF Least
<1> HIDE DEF k
<1>4. /\ a \in Seq(Letter) /\ Len(a) = cx /\ c \in Seq(Letter) /\ Len(c) = Len(l) - cx
      /\ \A i \in 1 .. cx : a[i] = l[i]
      /\ \A i \in 1 .. Len(l) - cx : c[i] = l[cx + i]
  <2>1. /\ a \in Seq(Letter) /\ Len(a) = cx - 1 + 1 /\ \A i \in 1 .. cx - 1 + 1 : a[i] = l[1 + i - 1]
    BY <1>1, PieceOf
  <2>2. /\ c \in Seq(Letter) /\ Len(c) = Len(l) - (cx + 1) + 1
        /\ \A i \in 1 .. Len(l) - (cx + 1) + 1 : c[i] = l[cx + 1 + i - 1]
    BY <1>1, PieceOf
  <2> HIDE DEF a, c
  <2>3. cx - 1 + 1 = cx /\ Len(l) - (cx + 1) + 1 = Len(l) - cx
    BY <1>1
  <2>4. ASSUME NEW i \in 1 .. cx PROVE a[i] = l[i]
    <3>1. a[i] = l[1 + i - 1]
      BY <2>1, <2>3
    <3> QED  BY <1>1, <3>1
  <2>5. ASSUME NEW i \in 1 .. Len(l) - cx PROVE c[i] = l[cx + i]
    <3>1. c[i] = l[cx + 1 + i - 1]
      BY <2>2, <2>3
    <3>2. cx + 1 + i - 1 = cx + i
      BY <1>1
    <3> QED  BY <3>1, <3>2
  <2> QED  BY <2>1, <2>2, <2>3, <2>4, <2>5
<1>5. b \in Seq(Letter) /\ Len(b) = k
  BY <1>3
<1> HIDE DEF a, b, c
<1>6. (a \o b) \o c \in Line
  <2>1. a \o b \in Seq(Letter) /\ Len(a \o b) = cx + k
    BY <1>4, <1>5, JoinOf
  <2>2. (a \o b) \o c \in Seq(Letter) /\ Len((a \o b) \o c) = (cx + k) + (Len(l) - cx)
    BY <1>4, <2>1, JoinOf
  <2>3. Len((a \o b) \o c) <= LineMax - 1
    BY <1>1, <1>3, <2>2
  <2> QED  BY <2>2, <2>3, LineIs
<1>7. ASSUME k = 0 PROVE (a \o b) \o c = l
  <2>1. a \o b = a
    <3>1. b = <<>>
      BY <1>5, <1>7
    <3> QED  BY <1>4, <3>1
  <2>2. a \o c \in Seq(Letter) /\ Len(a \o c) = Len(l)
    <3>1. a \o c \in Seq(Letter) /\ Len(a \o c) = cx + (Len(l) - cx)
      BY <1>4, JoinOf
    <3> QED  BY <1>1, <3>1
  <2>3. \A i \in 1 .. Len(l) : (a \o c)[i] = l[i]
    <3> TAKE i \in 1 .. Len(l)
    <3>1. CASE i <= cx
      BY <1>1, <1>4, <3>1
    <3>2. CASE ~(i <= cx)
      <4>1. i - cx \in 1 .. Len(l) - cx /\ cx + (i - cx) = i
        BY <1>1, <3>2
      <4>2. (a \o c)[i] = c[i - cx]
        BY <1>1, <1>4, <3>2
      <4> QED  BY <1>4, <4>1, <4>2
    <3> QED  BY <3>1, <3>2
  <2>4. a \o c = l
    <3> DEFINE d == a \o c
    <3> HIDE DEF d
    <3>1. d \in Seq(Letter) /\ Len(d) = Len(l) /\ \A i \in 1 .. Len(l) : d[i] = l[i]
      BY <2>2, <2>3 DEF d
    <3>2. d = [i \in 1 .. Len(d) |-> d[i]]
      BY <3>1
    <3>3. l = [i \in 1 .. Len(l) |-> l[i]]
      BY <1>1
    <3>4. d = l
      BY <3>1, <3>2, <3>3
    <3> QED  BY <3>4 DEF d
  <2> QED  BY <2>1, <2>4
<1>8. /\ lines' = [lines EXCEPT ![cy] = r.line] /\ modified' = (modified \/ r.grown > 0)
      /\ clamp_cursor(lines', count, cx + r.grown, cy, visible) /\ count' = count
  BY DEF insert_char
<1>9. r.line = (a \o b) \o c /\ r.grown = k
  BY <1>2
<1> HIDE DEF r
<1>10. lines' \in [Row -> Line]
  BY <1>1, <1>6, <1>8, <1>9
<1>11. modified' \in BOOLEAN
  BY <1>8, EditorFacts
<1>12. ~modified' => ~modified /\ lines' = lines
  <2>1. ASSUME ~modified' PROVE ~modified /\ ~(k > 0)
    BY <1>8, <1>9, <2>1
  <2>2. ASSUME ~modified' PROVE lines' = lines
    <3>1. r.line = lines[cy]
      BY <1>3, <1>7, <1>9, <2>1, <2>2 DEF l
    <3> QED  BY <1>1, <1>8, <3>1
  <2> QED  BY <2>1, <2>2
<1>13. edits' \in 0 .. MaxEdits
  BY EditorFacts DEF Edit, EditorInv, EditorTypeOK
<1>14. state' \in {"run", "quit", "crashed"} /\ cx + r.grown \in Int /\ cy \in Int
  BY <1>1, <1>3, <1>9, EditorFacts DEF EditorInv, EditorTypeOK
<1> QED  BY <1>1, <1>8, <1>10, <1>11, <1>12, <1>13, <1>14, EditKeeps

LEMMA BackspaceKeeps ==
  ASSUME EditorInv, Backspace
  PROVE  EditorInv'
<1>1. edits' \in 0 .. MaxEdits /\ UNCHANGED Other /\ state' \in {"run", "quit", "crashed"}
  BY EditorFacts DEF Backspace, Edit, EditorInv, EditorTypeOK
<1>2. CASE cx > 0
  <2> DEFINE l == lines[cy]
             a == SubSeq(l, 1, cx - 1)
             c == SubSeq(l, cx + 1, Len(l))
  <2>1. l \in Seq(Letter) /\ Len(l) \in Nat /\ Len(l) <= LineMax - 1 /\ LineMax - 1 \in Nat
        /\ cx \in Nat /\ cx <= Len(l)
    BY EditorFacts
  <2> HIDE DEF l
  <2>2. a \in Seq(Letter) /\ Len(a) = cx - 1 - 1 + 1
    BY <1>2, <2>1, PieceOf
  <2>3. c \in Seq(Letter) /\ Len(c) = Len(l) - (cx + 1) + 1
    BY <2>1, PieceOf
  <2>4. a \o c \in Line
    <3> HIDE DEF a, c
    <3>1. a \o c \in Seq(Letter) /\ Len(a \o c) = (cx - 1 - 1 + 1) + (Len(l) - (cx + 1) + 1)
      BY <2>2, <2>3, JoinOf
    <3>2. Len(a \o c) <= LineMax - 1
      BY <2>1, <3>1
    <3> QED  BY <3>1, <3>2, LineIs
  <2>5. /\ lines' = [lines EXCEPT ![cy] = a \o c] /\ count' = count
        /\ clamp_cursor(lines', count, cx - 1, cy, visible)
    BY <1>2, EditorFacts DEF Backspace, l
  <2>6. modified' = TRUE
    BY <1>2 DEF Backspace
  <2> HIDE DEF a, c
  <2>7. lines' \in [Row -> Line]
    BY <2>4, <2>5, EditorFacts
  <2>8. cx - 1 \in Int /\ cy \in Int
    BY EditorFacts
  <2> QED  BY <1>1, <2>5, <2>6, <2>7, <2>8, EditKeeps, EditorFacts
<1>3. CASE ~(cx > 0) /\ cy > 0
  <2> DEFINE joined == lines[cy - 1] \o lines[cy]
             j == SubSeq(joined, 1, Least(Len(joined), LineMax - 1))
  <2>1. cy - 1 \in Row /\ cy \in Nat /\ cy < count /\ MaxLines \in Nat
    BY <1>3, EditorFacts DEF EditorInv, CursorOnScreen, Row
  <2>2. lines[cy - 1] \in Seq(Letter) /\ lines[cy] \in Seq(Letter) /\ LineMax - 1 \in Nat
    BY <2>1, EditorFacts, LineIs
  <2>3. j \in Line
    <3>1. joined \in Seq(Letter) /\ Len(joined) \in Nat
      BY <2>2, JoinOf
    <3> HIDE DEF joined
    <3> DEFINE k == Least(Len(joined), LineMax - 1)
    <3>2. k \in Nat /\ k <= Len(joined) /\ k <= LineMax - 1
      BY <2>2, <3>1 DEF Least
    <3> HIDE DEF k
    <3>3. SubSeq(joined, 1, k) \in Seq(Letter) /\ Len(SubSeq(joined, 1, k)) = k - 1 + 1
      BY <3>1, <3>2, PieceOf
    <3>4. SubSeq(joined, 1, k) \in Line
      <4>1. Len(SubSeq(joined, 1, k)) <= LineMax - 1
        BY <3>2, <3>3
      <4> QED  BY <3>3, <4>1, LineIs
    <3> QED  BY <3>4 DEF k
  <2>4. /\ lines' = [i \in Row |-> IF i = cy - 1 THEN j
                                   ELSE IF i >= cy /\ i < count - 1 THEN lines[i + 1] ELSE lines[i]]
        /\ count' = count - 1
        /\ clamp_cursor(lines', count', Len(lines[cy - 1]), cy - 1, visible)
    BY <1>3 DEF Backspace
  <2>5. modified' = TRUE
    BY <1>3 DEF Backspace
  <2> HIDE DEF j
  <2>6. lines' \in [Row -> Line]
    <3>1. \A i \in Row : i < count - 1 => i + 1 \in Row
      BY EditorFacts DEF Row
    <3> QED  BY <2>3, <2>4, <3>1, EditorFacts
  <2>7. count' \in 0 .. MaxLines
    BY <2>1, <2>4, EditorFacts
  <2>8. Len(lines[cy - 1]) \in Int /\ cy - 1 \in Int
    BY <2>1, <2>2
  <2> QED  BY <1>1, <2>4, <2>5, <2>6, <2>7, <2>8, EditKeeps
<1>4. CASE ~(cx > 0) /\ ~(cy > 0)
  <2>1. clamp_cursor(lines, count, cx, cy, visible) /\ UNCHANGED <<lines, count, modified>>
    BY <1>4 DEF Backspace
  <2>2. clamp_cursor(lines', count', cx, cy, visible)
    BY <2>1
  <2>3. cx \in Int /\ cy \in Int /\ modified' \in BOOLEAN
    BY <2>1, EditorFacts
  <2> QED  BY <1>1, <2>1, <2>2, <2>3, EditorFacts, EditKeeps
<1> QED  BY <1>2, <1>3, <1>4

LEMMA EnterKeeps ==
  ASSUME EditorInv, Enter
  PROVE  EditorInv'
<1>1. edits' \in 0 .. MaxEdits /\ UNCHANGED Other /\ state' \in {"run", "quit", "crashed"}
  <2>1. edits' \in 0 .. MaxEdits /\ UNCHANGED Other
    BY EditorFacts DEF Enter, Edit, EditorInv, EditorTypeOK
  <2>2. state' = "crashed" \/ state' = state
    BY DEF Enter
  <2> QED  BY <2>1, <2>2 DEF EditorInv, EditorTypeOK
<1>2. CASE count = 0
  <2>1. UNCHANGED <<lines, count, cx, cy, scroll, modified>>
    BY <1>2 DEF Enter
  <2>2. EditorTypeOK'
    BY <1>1, <2>1 DEF EditorInv, EditorTypeOK, Other
  <2>3. CursorOnScreen' /\ UnmodifiedIsSaved'
    BY <1>1, <2>1 DEF EditorInv, CursorOnScreen, UnmodifiedIsSaved, Other, TextLines
  <2> QED  BY <2>2, <2>3 DEF EditorInv
<1>3. CASE count # 0 /\ count >= MaxLines - 1
  <2>1. clamp_cursor(lines, count, cx, cy, visible) /\ UNCHANGED <<lines, count, modified>>
    BY <1>3 DEF Enter
  <2>2. clamp_cursor(lines', count', cx, cy, visible)
    BY <2>1
  <2>3. cx \in Int /\ cy \in Int /\ modified' \in BOOLEAN
    BY <2>1, EditorFacts
  <2> QED  BY <1>1, <2>1, <2>2, <2>3, EditorFacts, EditKeeps
<1>4. CASE count # 0 /\ ~(count >= MaxLines - 1)
  <2> DEFINE l == lines[cy]
             a == SubSeq(l, 1, cx)
             c == SubSeq(l, cx + 1, Len(l))
  <2>1. l \in Seq(Letter) /\ Len(l) \in Nat /\ Len(l) <= LineMax - 1 /\ LineMax - 1 \in Nat
        /\ cx \in Nat /\ cx <= Len(l)
    BY EditorFacts
  <2>2. /\ lines' = [i \in Row |-> IF i = cy THEN SubSeq(lines[i], 1, cx)
                                   ELSE IF i = cy + 1 THEN c
                                   ELSE IF i > cy + 1 /\ i <= count THEN lines[i - 1]
                                   ELSE lines[i]]
        /\ count' = count + 1
        /\ clamp_cursor(lines', count', 0, cy + 1, visible)
    BY <1>4 DEF Enter
  <2>3. modified' = TRUE
    BY <1>4 DEF Enter
  <2> HIDE DEF l
  <2>4. a \in Seq(Letter) /\ Len(a) = cx - 1 + 1
    BY <2>1, PieceOf
  <2>5. c \in Seq(Letter) /\ Len(c) = Len(l) - (cx + 1) + 1
    BY <2>1, PieceOf
  <2>6. a \in Line /\ c \in Line
    <3> HIDE DEF a, c
    <3>1. Len(a) <= LineMax - 1 /\ Len(c) <= LineMax - 1
      BY <2>1, <2>4, <2>5
    <3> QED  BY <2>4, <2>5, <3>1, LineIs
  <2>7. lines' \in [Row -> Line]
    <3>1. \A i \in Row : i > cy + 1 => i - 1 \in Row
      BY EditorFacts DEF Row
    <3>2. \A i \in Row : i = cy => SubSeq(lines[i], 1, cx) = a
      BY DEF l
    <3> HIDE DEF a, c
    <3>3. ASSUME NEW i \in Row PROVE lines'[i] \in Line
      BY <2>2, <2>6, <3>1, <3>2, EditorFacts
    <3>4. lines' = [i \in Row |-> lines'[i]]
      BY <2>2
    <3> QED  BY <3>3, <3>4
  <2>8. count' \in 0 .. MaxLines
    BY <1>4, <2>2, EditorFacts
  <2>9. 0 \in Int /\ cy + 1 \in Int
    BY EditorFacts
  <2> QED  BY <1>1, <2>2, <2>3, <2>7, <2>8, <2>9, EditKeeps
<1> QED  BY <1>2, <1>3, <1>4

LEMMA MoveKeeps ==
  ASSUME EditorInv, Move \/ Resize
  PROVE  EditorInv'
<1>1. CASE Move
  <2>1. PICK d \in {<<0, -1>>, <<0, 1>>, <<-1, 0>>, <<1, 0>>} :
               clamp_cursor(lines, count, cx + d[1], cy + d[2], visible)
    BY <1>1 DEF Move
  <2>2. UNCHANGED <<lines, count, modified, Other, state, edits>>
    BY <1>1 DEF Move
  <2> DEFINE px == cx + d[1]
             py == cy + d[2]
  <2>3. px \in Int /\ py \in Int
    BY EditorFacts
  <2> HIDE DEF px, py
  <2>4. clamp_cursor(lines', count', px, py, visible)
    BY <2>1, <2>2 DEF px, py
  <2>5. UNCHANGED Other /\ edits' \in 0 .. MaxEdits /\ state' \in {"run", "quit", "crashed"}
        /\ modified' \in BOOLEAN
    BY <2>2 DEF EditorInv, EditorTypeOK
  <2> QED  BY <2>2, <2>3, <2>4, <2>5, EditorFacts, EditKeeps
<1>2. CASE Resize
  <2>1. /\ visible' \in MinVisible .. MaxVisible /\ clamp_cursor(lines, count, cx, cy, visible')
        /\ UNCHANGED <<lines, count, modified, named, dialog, disk, clean, state, edits>>
    BY <1>2 DEF Resize
  <2>2. /\ cx' \in Nat /\ cy' \in Row /\ scroll' \in Nat
        /\ cx' <= Len(lines[cy']) /\ (cy' < count \/ (count = 0 /\ cy' = 0))
        /\ visible' > 0 => scroll' <= cy' /\ cy' < scroll' + visible'
    <3>1. scroll \in Nat /\ cx \in Int /\ cy \in Int
      BY EditorFacts DEF EditorInv, EditorTypeOK
    <3> QED  BY <2>1, <3>1, EditorFacts, Clamped
  <2>3. EditorTypeOK'
    BY <2>1, <2>2 DEF EditorInv, EditorTypeOK
  <2>4. CursorOnScreen' /\ UnmodifiedIsSaved'
    BY <2>1, <2>2 DEF EditorInv, CursorOnScreen, UnmodifiedIsSaved, TextLines
  <2> QED  BY <2>3, <2>4 DEF EditorInv
<1> QED  BY <1>1, <1>2

(* The file holds lines whenever editor_save is called, however it ends. *)
LEMMA SaveKeeps ==
  ASSUME EditorInv, editor_save, named' \in BOOLEAN, dialog' \in BOOLEAN,
         UNCHANGED <<Text, visible, state, edits>>
  PROVE  EditorInv'
<1>1. TextLines \in Seq(Seq(Letter)) /\ Len(TextLines) = count /\ count \in Nat
  <2>1. \A i \in 1 .. count : i - 1 \in Row
    BY EditorFacts DEF Row
  <2>2. \A i \in 1 .. count : lines[i - 1] \in Seq(Letter)
    BY <2>1, EditorFacts, LineIs
  <2>3. count \in Nat
    BY EditorFacts
  <2> QED  BY <2>2, <2>3 DEF TextLines
<1>2. /\ disk' \in Seq(Seq(Letter)) /\ modified' \in BOOLEAN /\ clean' \in BOOLEAN
      /\ clean' => disk' = TextLines
  <2>1. CASE disk' = TextLines /\ modified' = FALSE /\ clean' = (clean \/ count > 0)
    BY <1>1, <2>1 DEF EditorInv, EditorTypeOK
  <2>2. CASE /\ \E n \in 0 .. count - 1 : disk' = SubSeq(TextLines, 1, n)
             /\ modified' = FALSE /\ clean' = FALSE
    <3>1. PICK n \in 0 .. count - 1 : disk' = SubSeq(TextLines, 1, n)
      BY <2>2
    <3>2. \A i \in 1 .. n : TextLines[i] \in Seq(Letter)
      BY <1>1
    <3>3. SubSeq(TextLines, 1, n) \in Seq(Seq(Letter))
      BY <1>1, <3>2
    <3> QED  BY <2>2, <3>1, <3>3
  <2>3. CASE clean' = FALSE /\ UNCHANGED <<disk, modified>>
    BY <2>3 DEF EditorInv, EditorTypeOK
  <2> QED  BY <2>1, <2>2, <2>3 DEF editor_save
<1>3. EditorTypeOK'
  BY <1>2 DEF EditorInv, EditorTypeOK, Text
<1>4. CursorOnScreen'
  BY DEF EditorInv, CursorOnScreen, Text
<1>5. UnmodifiedIsSaved'
  BY <1>2 DEF UnmodifiedIsSaved, TextLines, Text
<1> QED  BY <1>3, <1>4, <1>5 DEF EditorInv

LEMMA FileKeeps ==
  ASSUME EditorInv, Save \/ Dialog \/ Quit
  PROVE  EditorInv'
<1>1. ASSUME dialog' \in BOOLEAN, UNCHANGED <<Text, Unsaved, named, visible, edits>>,
             state' \in {"run", "quit", "crashed"}
      PROVE  EditorInv'
  <2>1. EditorTypeOK'
    BY <1>1 DEF EditorInv, EditorTypeOK, Text, Unsaved
  <2>2. CursorOnScreen' /\ UnmodifiedIsSaved'
    BY <1>1 DEF EditorInv, CursorOnScreen, UnmodifiedIsSaved, TextLines, Text, Unsaved
  <2> QED  BY <2>1, <2>2 DEF EditorInv
<1>2. named \in BOOLEAN /\ dialog \in BOOLEAN /\ state \in {"run", "quit", "crashed"}
  BY DEF EditorInv, EditorTypeOK
<1>3. CASE Save
  <2>1. CASE named
    <3>1. editor_save /\ dialog' = dialog /\ named' = named /\ UNCHANGED <<Text, visible, state, edits>>
      BY <1>3, <2>1 DEF Save
    <3> QED  BY <1>2, <3>1, SaveKeeps
  <2>2. CASE ~named
    <3>1. dialog' = TRUE /\ UNCHANGED <<Text, Unsaved, named, visible, edits, state>>
      BY <1>3, <2>2 DEF Save
    <3> QED  BY <1>1, <1>2, <3>1
  <2> QED  BY <2>1, <2>2
<1>4. CASE Dialog
  <2>1. dialog' = FALSE /\ UNCHANGED <<Text, visible, state, edits>>
    BY <1>4 DEF Dialog
  <2>2. CASE named' = TRUE /\ editor_save
    BY <2>1, <2>2, SaveKeeps
  <2>3. CASE UNCHANGED <<named, Unsaved>>
    BY <1>1, <1>2, <2>1, <2>3
  <2> QED  BY <1>4, <2>2, <2>3 DEF Dialog
<1>5. CASE Quit
  BY <1>1, <1>2, <1>5 DEF Quit
<1> QED  BY <1>3, <1>4, <1>5

(* The cursor is in the text and on the screen, and what is not marked as  *)
(* modified is on the disk: for every size of the text and of a line,      *)
(* every file, window and sequence of keys, dialogs and failed saves.      *)
THEOREM CursorAndFile == EditorSpec => []EditorInv
<1>1. EditorInit => EditorInv
  <2> SUFFICES ASSUME EditorInit PROVE EditorInv
    OBVIOUS
  <2>1. /\ cx = 0 /\ cy = 0 /\ scroll = 0 /\ modified = FALSE /\ dialog = FALSE
        /\ visible = MaxVisible /\ state = "run" /\ edits = 0
    BY DEF EditorInit
  <2>2. 0 \in Row /\ MaxVisible \in MinVisible .. MaxVisible /\ 0 \in 0 .. MaxEdits /\ 1 \in 0 .. MaxLines
        /\ MaxLines \in Nat /\ MaxVisible >= 1
    BY EditorAssumption DEF Row
  <2>3. <<>> \in Line
    <3>1. <<>> \in Seq(Letter) /\ Len(<<>>) = 0 /\ 0 <= LineMax - 1
      BY EditorAssumption
    <3> QED  BY <3>1, LineIs
  <2>4. ASSUME lines \in [Row -> Line], count \in 0 .. MaxLines, named \in BOOLEAN, clean \in BOOLEAN,
               disk \in Seq(Seq(Letter)), UnmodifiedIsSaved
        PROVE  EditorInv
    <3>1. modified \in BOOLEAN /\ dialog \in BOOLEAN
      BY <2>1
    <3>2. EditorTypeOK
      BY <2>1, <2>2, <2>4, <3>1 DEF EditorTypeOK
    <3>3. CursorOnScreen
      <4>1. Len(lines[0]) \in Nat
        BY <2>2, <2>4, LineIs
      <4> QED  BY <2>1, <2>2, <2>4, <4>1 DEF CursorOnScreen
    <3> QED  BY <2>4, <3>2, <3>3 DEF EditorInv
  <2>5. CASE /\ disk = <<>> /\ named = FALSE /\ clean = TRUE
             /\ lines = [i \in Row |-> <<>>] /\ count = 1
    <3>1. lines \in [Row -> Line] /\ disk \in Seq(Seq(Letter))
      BY <2>3, <2>5
    <3>2. named \in BOOLEAN /\ clean \in BOOLEAN
      BY <2>5
    <3>3. UnmodifiedIsSaved
      BY <2>5 DEF UnmodifiedIsSaved
    <3> QED  BY <2>2, <2>4, <2>5, <3>1, <3>2, <3>3
  <2>6. CASE /\ disk \in Files /\ named = TRUE
             /\ \E last \in 0 .. 1 :
                   /\ last = 0 => disk # <<>> /\ disk[Len(disk)] # <<>>
                   /\ clean = Fits(disk, last)
                   /\ lines = Loaded(disk, last).rows /\ count = Loaded(disk, last).n
    <3>0. PICK last \in 0 .. 1 :
             /\ last = 0 => disk # <<>> /\ disk[Len(disk)] # <<>>
             /\ clean = Fits(disk, last)
             /\ lines = Loaded(disk, last).rows /\ count = Loaded(disk, last).n
      BY <2>6
    <3> DEFINE p == FlatPieces(disk, last)
               n == IF Len(p) < MaxLines THEN Len(p) ELSE MaxLines
    <3>1. disk \in Seq(Seq(Letter))
      BY <2>6, EditorAssumption
    <3>2. p \in Seq(Line) /\ Len(p) \in Nat
      BY <3>1, FlatPiecesFit
    <3>3. lines = [i \in Row |-> IF i < n THEN p[i + 1] ELSE <<>>] /\ count = n
      BY <3>0 DEF Loaded
    <3> HIDE DEF p
    <3>4. n \in 0 .. MaxLines /\ n <= Len(p)
      BY <2>2, <3>2
    <3> HIDE DEF n
    <3>5. lines \in [Row -> Line]
      <4>1. \A i \in Row : i < n => p[i + 1] \in Line
        BY <3>2, <3>4 DEF Row
      <4> QED  BY <2>3, <3>3, <4>1
    <3>6. ASSUME clean PROVE disk = TextLines
      <4>1. Len(disk) \in 1 .. MaxLines /\ \A i \in DOMAIN disk : Len(disk[i]) + LineEnd(disk, last, i) < LineMax
        BY <3>0, <3>6 DEF Fits
      <4>a. ASSUME NEW i \in DOMAIN disk PROVE Whole(disk, last, i)
        <5>1. disk[i] \in Seq(Letter) /\ Len(disk[i]) \in Nat /\ i \in 1 .. Len(disk)
          BY <3>1
        <5>2. disk[i] # <<>> => Len(disk[i]) > 0
          BY <5>1
        <5>3. 0 < Len(disk[i]) + LineEnd(disk, last, i)
          <6>1. CASE i = Len(disk) /\ last = 0
            BY <3>0, <5>1, <5>2, <6>1 DEF LineEnd
          <6>2. CASE ~(i = Len(disk) /\ last = 0)
            BY <5>1, <6>2 DEF LineEnd
          <6> QED  BY <6>1, <6>2
        <5> QED  BY <4>1, <5>3 DEF Whole
      <4>2. p = disk
        BY <3>1, <4>a, FlatPiecesFit DEF p
      <4>3. n = Len(disk)
        BY <2>2, <4>1, <4>2 DEF n
      <4>4. \A i \in 1 .. Len(disk) : lines[i - 1] = disk[i]
        <5> TAKE i \in 1 .. Len(disk)
        <5>1. i - 1 \in Row /\ i - 1 < n /\ (i - 1) + 1 = i
          BY <2>2, <4>1, <4>3 DEF Row
        <5> QED  BY <3>3, <4>2, <5>1
      <4>5. disk = [i \in 1 .. Len(disk) |-> disk[i]]
        BY <3>1
      <4> QED  BY <3>3, <4>3, <4>4, <4>5 DEF TextLines
    <3>7. UnmodifiedIsSaved
      BY <3>6 DEF UnmodifiedIsSaved
    <3>8. named \in BOOLEAN /\ clean \in BOOLEAN
      BY <2>6, <3>0 DEF Fits
    <3> QED  BY <2>4, <3>1, <3>3, <3>4, <3>5, <3>7, <3>8
  <2> QED  BY <2>5, <2>6 DEF EditorInit
<1>2. EditorInv /\ [EditorNext]_edVars => EditorInv'
  <2> SUFFICES ASSUME EditorInv, [EditorNext]_edVars PROVE EditorInv'
    OBVIOUS
  <2>1. CASE UNCHANGED edVars
    BY <2>1 DEF edVars, EditorInv, EditorTypeOK, CursorOnScreen, UnmodifiedIsSaved, TextLines
  <2>2. ASSUME NEW ch \in Letter, Type(ch) PROVE EditorInv'
    BY <2>2, InsertKeeps DEF Type
  <2>3. CASE Tab
    BY <2>3, InsertKeeps, EditorAssumption DEF Tab
  <2> QED  BY <2>1, <2>2, <2>3, BackspaceKeeps, EnterKeeps, MoveKeeps, FileKeeps DEF EditorNext
<1> QED  BY <1>1, <1>2, PTL DEF EditorSpec

(***************************************************************************)
(* An edit is local.  Flat puts a line end before every line but the       *)
(* first: what is below the cursor's line is a tail of the text that an    *)
(* edit only moves, and what is above is its beginning.                    *)
(***************************************************************************)
Char == Letter \cup {NL}

(* The line end before a row of the array. *)
Sep(i) == IF i = 0 THEN <<>> ELSE <<NL>>

(* The text down to the beginning of row y. *)
Above(rows, y) == Flat(rows, y) \o Sep(y)

(* Flat is what its definition says, also from one number of lines to the  *)
(* next.                                                                   *)
LEMMA FlatSteps ==
  ASSUME NEW rows
  PROVE  /\ Flat(rows, 0) = <<>>
         /\ \A n \in Nat \ {0} : Flat(rows, n) = (Flat(rows, n - 1) \o Sep(n - 1)) \o rows[n - 1]
<1> DEFINE Upto(g, n) == g = [i \in 0 .. n |-> IF i = 0 THEN <<>>
                                 ELSE g[i - 1] \o (IF i = 1 THEN <<>> ELSE <<NL>>) \o rows[i - 1]]
           Bad == {n \in Nat : ~ \E g : Upto(g, n)}
           f(n) == CHOOSE g : Upto(g, n)
<1>1. Bad = {}
  <2> SUFFICES ASSUME Bad # {} PROVE FALSE
    OBVIOUS
  <2>1. PICK k \in Bad : \A j \in Bad : k <= j
    BY LeastExists
  <2>2. CASE k = 0
    <3> DEFINE g == [i \in 0 .. 0 |-> <<>>]
    <3>1. Upto(g, 0)
      OBVIOUS
    <3> QED  BY <2>1, <2>2, <3>1
  <2>3. CASE k # 0
    <3>1. k - 1 \in Nat /\ k - 1 \notin Bad
      <4>1. k \in Nat
        BY <2>1
      <4> HIDE DEF Bad
      <4> QED  BY <2>1, <2>3, <4>1
    <3>2. PICK h : Upto(h, k - 1)
      BY <3>1
    <3> DEFINE more == h[k - 1] \o (IF k = 1 THEN <<>> ELSE <<NL>>) \o rows[k - 1]
               g == [i \in 0 .. k |-> IF i = k THEN more ELSE h[i]]
    <3>3. ASSUME NEW i \in 0 .. k
          PROVE  g[i] = IF i = 0 THEN <<>> ELSE g[i - 1] \o (IF i = 1 THEN <<>> ELSE <<NL>>) \o rows[i - 1]
      <4>1. CASE i = k
        <5>1. k \in 0 .. k /\ k - 1 \in 0 .. k /\ k - 1 # k
          BY <3>1
        <5>2. g[k] = more /\ g[k - 1] = h[k - 1]
          BY <5>1
        <5> HIDE DEF g
        <5> QED  BY <2>3, <4>1, <5>2
      <4>2. CASE i # k
        <5>1. i \in 0 .. k - 1 /\ g[i] = h[i] /\ (i # 0 => g[i - 1] = h[i - 1])
          BY <3>1, <4>2
        <5>2. h[i] = IF i = 0 THEN <<>> ELSE h[i - 1] \o (IF i = 1 THEN <<>> ELSE <<NL>>) \o rows[i - 1]
          BY <3>2, <5>1
        <5> QED  BY <5>1, <5>2
      <4> QED  BY <4>1, <4>2
    <3>4. Upto(g, k)
      <4>1. g = [i \in 0 .. k |-> g[i]]
        OBVIOUS
      <4> HIDE DEF g
      <4> QED  BY <3>3, <4>1
    <3> QED  BY <2>1, <3>4
  <2> QED  BY <2>2, <2>3
<1>2. ASSUME NEW n \in Nat PROVE Upto(f(n), n)
  <2>1. \E g : Upto(g, n)
    BY <1>1
  <2> QED  BY <2>1
<1>3. ASSUME NEW n \in Nat PROVE Flat(rows, n) = f(n)[n]
  BY DEF Flat
<1>4. ASSUME NEW n \in Nat, NEW i \in 0 .. n
      PROVE  f(n)[i] = IF i = 0 THEN <<>> ELSE f(n)[i - 1] \o (IF i = 1 THEN <<>> ELSE <<NL>>) \o rows[i - 1]
  <2>1. Upto(f(n), n)
    BY <1>2
  <2> DEFINE g == f(n)
  <2> HIDE DEF f, g
  <2>2. Upto(g, n)
    BY <2>1 DEF g
  <2>3. g[i] = IF i = 0 THEN <<>> ELSE g[i - 1] \o (IF i = 1 THEN <<>> ELSE <<NL>>) \o rows[i - 1]
    BY <2>2
  <2> QED  BY <2>3 DEF g
<1> HIDE DEF f
<1>5. ASSUME NEW n \in Nat, NEW m \in Nat, m = n + 1 PROVE f(m)[n] = f(n)[n]
  <2> DEFINE Worse == {i \in 0 .. n : f(m)[i] # f(n)[i]}
  <2>1. Worse = {}
    <3> SUFFICES ASSUME Worse # {} PROVE FALSE
      OBVIOUS
    <3>0. Worse \subseteq Nat
      OBVIOUS
    <3>1. PICK k \in Worse : \A j \in Worse : k <= j
      BY <3>0, LeastExists
    <3>2. k \in 0 .. n /\ k \in 0 .. m
      BY <1>5, <3>1
    <3>3. k # 0
      <4>1. CASE k = 0
        BY <1>4, <3>1, <3>2, <4>1
      <4> QED  BY <4>1
    <3>4. k - 1 \in 0 .. n /\ k - 1 \notin Worse
      BY <3>1, <3>2, <3>3
    <3>5. f(m)[k - 1] = f(n)[k - 1]
      BY <3>4
    <3>6. f(m)[k] = f(m)[k - 1] \o (IF k = 1 THEN <<>> ELSE <<NL>>) \o rows[k - 1]
      BY <1>4, <3>2, <3>3
    <3>7. f(n)[k] = f(n)[k - 1] \o (IF k = 1 THEN <<>> ELSE <<NL>>) \o rows[k - 1]
      BY <1>4, <3>2, <3>3
    <3> QED  BY <3>1, <3>5, <3>6, <3>7
  <2> QED  BY <2>1
<1>6. Flat(rows, 0) = <<>>
  BY <1>3, <1>4
<1>7. ASSUME NEW n \in Nat \ {0}
      PROVE  Flat(rows, n) = (Flat(rows, n - 1) \o Sep(n - 1)) \o rows[n - 1]
  <2>1. n - 1 \in Nat /\ n \in Nat /\ n = (n - 1) + 1 /\ n \in 0 .. n /\ n # 0
    OBVIOUS
  <2>2. f(n)[n] = f(n)[n - 1] \o (IF n = 1 THEN <<>> ELSE <<NL>>) \o rows[n - 1]
    BY <1>4, <2>1
  <2>3. f(n)[n - 1] = f(n - 1)[n - 1]
    BY <1>5, <2>1
  <2>4. Flat(rows, n) = f(n)[n] /\ Flat(rows, n - 1) = f(n - 1)[n - 1]
    BY <1>3, <2>1
  <2>5. Sep(n - 1) = IF n = 1 THEN <<>> ELSE <<NL>>
    BY <2>1 DEF Sep
  <2> QED  BY <2>2, <2>3, <2>4, <2>5
<1> QED  BY <1>6, <1>7

LEMMA FlatType ==
  ASSUME NEW rows \in [Row -> Line], NEW n \in 0 .. MaxLines
  PROVE  /\ Flat(rows, n) \in Seq(Char) /\ Len(Flat(rows, n)) \in Nat
         /\ Above(rows, n) \in Seq(Char) /\ Sep(n) \in Seq(Char)
<1>0. MaxLines \in Nat
  BY EditorAssumption
<1> DEFINE Bad == {i \in 0 .. MaxLines : Flat(rows, i) \notin Seq(Char)}
<1>1. \A i : Sep(i) \in Seq(Char)
  <2>1. NL \in Char
    BY DEF Char
  <2>2. <<>> \in Seq(Char) /\ <<NL>> \in Seq(Char)
    BY <2>1
  <2> QED  BY <2>2 DEF Sep
<1>2. Bad = {}
  <2> SUFFICES ASSUME Bad # {} PROVE FALSE
    OBVIOUS
  <2>0. Bad \subseteq Nat
    BY <1>0
  <2>1. PICK k \in Bad : \A j \in Bad : k <= j
    BY <2>0, LeastExists
  <2>2. k # 0
    <3>1. Flat(rows, 0) \in Seq(Char)
      <4>1. Flat(rows, 0) = <<>>
        BY FlatSteps
      <4>2. <<>> \in Seq(Char)
        OBVIOUS
      <4> QED  BY <4>1, <4>2
    <3> QED  BY <2>1, <3>1
  <2>3. k \in Nat \ {0} /\ k - 1 \in Row /\ k - 1 \in 0 .. MaxLines /\ k - 1 \notin Bad
    BY <1>0, <2>1, <2>2 DEF Row
  <2>4. Flat(rows, k - 1) \in Seq(Char)
    BY <2>3
  <2>5. rows[k - 1] \in Seq(Char)
    <3>1. rows[k - 1] \in Seq(Letter)
      BY <2>3, LineIs
    <3> QED  BY <3>1 DEF Char
  <2>6. Flat(rows, k) = (Flat(rows, k - 1) \o Sep(k - 1)) \o rows[k - 1]
    BY <2>3, FlatSteps
  <2>7. Flat(rows, k) \in Seq(Char)
    BY <1>1, <2>4, <2>5, <2>6
  <2> QED  BY <2>1, <2>7
<1>3. Flat(rows, n) \in Seq(Char)
  BY <1>2
<1> QED  BY <1>1, <1>3 DEF Above

LEMMA LineType ==
  ASSUME NEW rows \in [Row -> Line], NEW i \in Row
  PROVE  rows[i] \in Seq(Char) /\ rows[i] \in Seq(Letter) /\ Len(rows[i]) \in Nat
<1>1. rows[i] \in Seq(Letter)
  BY LineIs
<1> QED  BY <1>1 DEF Char

(* The text of one row more. *)
LEMMA FlatRow ==
  ASSUME NEW rows \in [Row -> Line], NEW y \in Row
  PROVE  Flat(rows, y + 1) = Above(rows, y) \o rows[y]
<1>1. y + 1 \in Nat \ {0} /\ (y + 1) - 1 = y
  BY EditorAssumption DEF Row
<1>2. Flat(rows, y + 1) = (Flat(rows, (y + 1) - 1) \o Sep((y + 1) - 1)) \o rows[(y + 1) - 1]
  BY <1>1, FlatSteps
<1> QED  BY <1>1, <1>2 DEF Above

(* The text above depends on the rows above. *)
LEMMA FlatSame ==
  ASSUME NEW rows \in [Row -> Line], NEW other \in [Row -> Line], NEW n \in 0 .. MaxLines,
         \A i \in 0 .. n - 1 : other[i] = rows[i]
  PROVE  Flat(other, n) = Flat(rows, n) /\ Above(other, n) = Above(rows, n)
<1>0. MaxLines \in Nat /\ n \in Nat
  BY EditorAssumption
<1> DEFINE Bad == {i \in 0 .. n : Flat(other, i) # Flat(rows, i)}
<1>1. Bad = {}
  <2> SUFFICES ASSUME Bad # {} PROVE FALSE
    OBVIOUS
  <2>0. Bad \subseteq Nat
    BY <1>0
  <2>1. PICK k \in Bad : \A j \in Bad : k <= j
    BY <2>0, LeastExists
  <2>2. k # 0
    BY <2>1, FlatSteps
  <2>3. k \in Nat \ {0} /\ k - 1 \in 0 .. n - 1 /\ k - 1 \in 0 .. n /\ k - 1 \notin Bad
    BY <1>0, <2>1, <2>2
  <2>4. Flat(other, k - 1) = Flat(rows, k - 1) /\ other[k - 1] = rows[k - 1]
    BY <2>3
  <2>5. /\ Flat(rows, k) = (Flat(rows, k - 1) \o Sep(k - 1)) \o rows[k - 1]
        /\ Flat(other, k) = (Flat(other, k - 1) \o Sep(k - 1)) \o other[k - 1]
    BY <2>3, FlatSteps
  <2> QED  BY <2>1, <2>4, <2>5
<1>2. Flat(other, n) = Flat(rows, n)
  BY <1>0, <1>1
<1> QED  BY <1>2 DEF Above

(* Rows that are the same, d places further down, make the same tail.      *)
LEMMA FlatTail ==
  ASSUME NEW rows \in [Row -> Line], NEW other \in [Row -> Line],
         NEW a \in 1 .. MaxLines, NEW n \in a .. MaxLines, NEW d \in Int,
         1 <= a + d, n + d <= MaxLines,
         \A i \in a .. n - 1 : other[i + d] = rows[i]
  PROVE  \E T \in Seq(Char) : /\ Flat(rows, n) = Flat(rows, a) \o T
                              /\ Flat(other, n + d) = Flat(other, a + d) \o T
<1>0. MaxLines \in Nat /\ n \in Nat /\ a \in Nat
  BY EditorAssumption
<1> DEFINE Tails(i) == \E T \in Seq(Char) : /\ Flat(rows, i) = Flat(rows, a) \o T
                                            /\ Flat(other, i + d) = Flat(other, a + d) \o T
           Bad == {i \in a .. n : ~Tails(i)}
<1>1. a \in 0 .. MaxLines /\ a + d \in 0 .. MaxLines
  BY <1>0
<1>2. Flat(rows, a) \in Seq(Char) /\ Flat(other, a + d) \in Seq(Char)
  BY <1>1, FlatType
<1>3. Bad = {}
  <2> SUFFICES ASSUME Bad # {} PROVE FALSE
    OBVIOUS
  <2>0. Bad \subseteq Nat
    BY <1>0
  <2>1. PICK k \in Bad : \A j \in Bad : k <= j
    BY <2>0, LeastExists
  <2>2. k # a
    <3>1. Flat(rows, a) = Flat(rows, a) \o <<>> /\ Flat(other, a + d) = Flat(other, a + d) \o <<>>
      BY <1>2, ConcatEmptySeq
    <3>2. <<>> \in Seq(Char)
      OBVIOUS
    <3>3. Tails(a)
      BY <3>1, <3>2
    <3> QED  BY <2>1, <3>3
  <2>3. /\ k - 1 \in a .. n - 1 /\ k - 1 \in a .. n /\ k - 1 \notin Bad
        /\ k \in Nat \ {0} /\ k + d \in Nat \ {0} /\ k - 1 \in Nat \ {0} /\ (k - 1) + d = (k + d) - 1
        /\ (k - 1) \in Row /\ (k + d) - 1 \in Row /\ (k + d) - 1 \in Nat \ {0}
    <3>1. k \in a .. n
      BY <2>1
    <3>2. k - 1 \in a .. n - 1 /\ k - 1 \in a .. n /\ k \in Nat \ {0} /\ k - 1 \in Nat \ {0}
      BY <1>0, <2>2, <3>1
    <3>3. (k - 1) + d = (k + d) - 1 /\ k + d <= n + d /\ a + d <= (k + d) - 1
      BY <1>0, <3>2
    <3>4. k - 1 \notin Bad
      <4>1. ~(k <= k - 1)
        BY <3>2
      <4> QED  BY <2>1, <4>1
    <3>5. k + d \in Nat \ {0} /\ (k + d) - 1 \in Nat \ {0} /\ (k + d) - 1 \in Row /\ k - 1 \in Row
      BY <1>0, <3>2, <3>3 DEF Row
    <3> QED  BY <3>2, <3>3, <3>4, <3>5
  <2>4. PICK T \in Seq(Char) : /\ Flat(rows, k - 1) = Flat(rows, a) \o T
                               /\ Flat(other, (k - 1) + d) = Flat(other, a + d) \o T
    BY <2>3
  <2>5. other[(k + d) - 1] = rows[k - 1]
    <3>1. other[(k - 1) + d] = rows[k - 1]
      BY <2>3
    <3> QED  BY <2>3, <3>1
  <2> DEFINE l == rows[k - 1]
             U == (T \o <<NL>>) \o l
  <2>6. l \in Seq(Char) /\ <<NL>> \in Seq(Char)
    <3>1. rows[k - 1] \in Seq(Char)
      BY <2>3, LineType
    <3> QED  BY <3>1 DEF Char
  <2>7. Sep(k - 1) = <<NL>> /\ Sep((k + d) - 1) = <<NL>>
    BY <2>3 DEF Sep
  <2>8. Flat(rows, k) = ((Flat(rows, a) \o T) \o <<NL>>) \o l
    <3>1. Flat(rows, k) = (Flat(rows, k - 1) \o Sep(k - 1)) \o rows[k - 1]
      BY <2>3, FlatSteps
    <3> QED  BY <2>4, <2>7, <3>1
  <2>9. Flat(other, k + d) = ((Flat(other, a + d) \o T) \o <<NL>>) \o l
    <3>1. Flat(other, k + d) = (Flat(other, (k + d) - 1) \o Sep((k + d) - 1)) \o other[(k + d) - 1]
      BY <2>3, FlatSteps
    <3> QED  BY <2>3, <2>4, <2>5, <2>7, <3>1
  <2> HIDE DEF l
  <2>10. ASSUME NEW A \in Seq(Char) PROVE ((A \o T) \o <<NL>>) \o l = A \o U
    <3>1. (A \o T) \o <<NL>> = A \o (T \o <<NL>>)
      BY <2>6, ConcatAssociative
    <3>2. T \o <<NL>> \in Seq(Char)
      BY <2>6, ConcatProperties
    <3>3. (A \o (T \o <<NL>>)) \o l = A \o ((T \o <<NL>>) \o l)
      BY <2>6, <3>2, ConcatAssociative
    <3> QED  BY <3>1, <3>3
  <2>11. U \in Seq(Char)
    BY <2>6, ConcatProperties
  <2>12. Flat(rows, k) = Flat(rows, a) \o U /\ Flat(other, k + d) = Flat(other, a + d) \o U
    BY <1>2, <2>8, <2>9, <2>10
  <2>13. Tails(k)
    BY <2>11, <2>12
  <2> QED  BY <2>1, <2>13
<1>4. n \in a .. n
  BY <1>0
<1> QED  BY <1>3, <1>4

(* Where the cursor is in the text.                                        *)
LEMMA PointIs ==
  ASSUME NEW rows \in [Row -> Line], NEW y \in Row, NEW px \in Nat
  PROVE  Point(rows, px, y) = px + Len(Above(rows, y))
<1>0. MaxLines \in Nat /\ y \in Nat
  BY EditorAssumption DEF Row
<1> DEFINE Sums(g) == g = [i \in 0 .. y |-> IF i = 0 THEN 0 ELSE g[i - 1] + Len(rows[i - 1])]
           s == CHOOSE g : Sums(g)
           w == [i \in 0 .. y |-> IF i = 0 THEN 0 ELSE Len(Flat(rows, i)) - (i - 1)]
<1>1. \A i \in 0 .. y : i \in 0 .. MaxLines
  BY <1>0 DEF Row
<1>2. ASSUME NEW i \in 0 .. y, i # 0
      PROVE  /\ Len(Flat(rows, i)) = Len(Flat(rows, i - 1)) + (IF i = 1 THEN 0 ELSE 1) + Len(rows[i - 1])
             /\ Len(rows[i - 1]) \in Nat /\ Len(Flat(rows, i - 1)) \in Nat /\ Len(Flat(rows, i)) \in Nat
  <2>1. i \in Nat \ {0} /\ i - 1 \in Row /\ i - 1 \in 0 .. MaxLines /\ i \in 0 .. MaxLines
    BY <1>0, <1>2 DEF Row
  <2>2. Flat(rows, i) = (Flat(rows, i - 1) \o Sep(i - 1)) \o rows[i - 1]
    BY <2>1, FlatSteps
  <2>3. Flat(rows, i - 1) \in Seq(Char) /\ Sep(i - 1) \in Seq(Char) /\ rows[i - 1] \in Seq(Char)
    BY <2>1, FlatType, LineType
  <2>4. Len(Sep(i - 1)) = IF i = 1 THEN 0 ELSE 1
    BY <2>1 DEF Sep
  <2>5. /\ Flat(rows, i - 1) \o Sep(i - 1) \in Seq(Char)
        /\ Len(Flat(rows, i - 1) \o Sep(i - 1)) = Len(Flat(rows, i - 1)) + Len(Sep(i - 1))
    BY <2>3, ConcatProperties
  <2>6. Len(Flat(rows, i)) = (Len(Flat(rows, i - 1)) + Len(Sep(i - 1))) + Len(rows[i - 1])
    BY <2>2, <2>3, <2>5, ConcatProperties
  <2>7. Len(rows[i - 1]) \in Nat /\ Len(Flat(rows, i - 1)) \in Nat /\ Len(Flat(rows, i)) \in Nat
    BY <2>1, FlatType, LineType
  <2> QED  BY <2>4, <2>6, <2>7
<1>3. Sums(w)
  <2>1. ASSUME NEW i \in 0 .. y
        PROVE  w[i] = IF i = 0 THEN 0 ELSE w[i - 1] + Len(rows[i - 1])
    <3>1. CASE i = 0
      BY <3>1
    <3>2. CASE i # 0
      <4>1. i - 1 \in 0 .. y /\ i \in Nat
        BY <1>0, <3>2
      <4>2. w[i] = Len(Flat(rows, i)) - (i - 1)
        BY <3>2
      <4>3. CASE i = 1
        <5>1. w[i - 1] = 0 /\ w[i] = Len(Flat(rows, i))
          <6>1. i - 1 = 0 /\ i - 1 \in 0 .. y
            BY <4>1, <4>3
          <6>2. w[i - 1] = 0
            BY <6>1
          <6>3. Len(Flat(rows, i)) - 0 = Len(Flat(rows, i))
            BY <1>2, <3>2
          <6> QED  BY <4>2, <6>1, <6>2, <6>3
        <5>2. Len(Flat(rows, i - 1)) = 0
          <6>1. Flat(rows, 0) = <<>>
            BY FlatSteps
          <6> QED  BY <4>3, <6>1
        <5>3. Len(Flat(rows, i)) = 0 + 0 + Len(rows[i - 1]) /\ Len(rows[i - 1]) \in Nat
          BY <1>2, <3>2, <4>3, <5>2
        <5> HIDE DEF w
        <5> QED  BY <3>2, <5>1, <5>3
      <4>4. CASE i # 1
        <5>1. w[i - 1] = Len(Flat(rows, i - 1)) - ((i - 1) - 1)
          BY <4>1, <4>4, <3>2
        <5> HIDE DEF w
        <5>2. /\ Len(Flat(rows, i)) = Len(Flat(rows, i - 1)) + 1 + Len(rows[i - 1])
              /\ Len(rows[i - 1]) \in Nat /\ Len(Flat(rows, i - 1)) \in Nat /\ Len(Flat(rows, i)) \in Nat
          BY <1>2, <3>2, <4>4
        <5>3. w[i] = w[i - 1] + Len(rows[i - 1])
          <6> DEFINE f == Len(Flat(rows, i))
                     e == Len(Flat(rows, i - 1))
                     l == Len(rows[i - 1])
          <6>1. f = e + 1 + l /\ l \in Nat /\ e \in Nat /\ f \in Nat
            BY <5>2
          <6>2. w[i] = f - (i - 1) /\ w[i - 1] = e - ((i - 1) - 1)
            BY <4>2, <5>1
          <6> HIDE DEF f, e, l
          <6>3. f - (i - 1) = (e - ((i - 1) - 1)) + l
            BY <4>1, <6>1
          <6>4. w[i] = w[i - 1] + l
            BY <6>2, <6>3
          <6> QED  BY <6>4 DEF l
        <5> QED  BY <3>2, <5>3
      <4> QED  BY <4>3, <4>4
    <3> QED  BY <3>1, <3>2
  <2>2. w = [i \in 0 .. y |-> w[i]]
    OBVIOUS
  <2> HIDE DEF w
  <2> QED  BY <2>1, <2>2
<1>4. Sums(s)
  <2>1. \E g : Sums(g)
    BY <1>3
  <2> QED  BY <2>1
<1>5. Point(rows, px, y) = px + y + s[y]
  BY DEF Point
<1>6. \A i \in 0 .. y : s[i] = IF i = 0 THEN 0 ELSE s[i - 1] + Len(rows[i - 1])
  <2> HIDE DEF s
  <2> QED  BY <1>4
<1>7. \A i \in 0 .. y : w[i] = IF i = 0 THEN 0 ELSE w[i - 1] + Len(rows[i - 1])
  <2> HIDE DEF w
  <2> QED  BY <1>3
<1>8. s[y] = w[y]
  <2> HIDE DEF s, w
  <2> DEFINE Bad == {i \in 0 .. y : s[i] # w[i]}
  <2>1. Bad = {}
    <3> SUFFICES ASSUME Bad # {} PROVE FALSE
      OBVIOUS
    <3>0. Bad \subseteq Nat
      BY <1>0
    <3>1. PICK k \in Bad : \A j \in Bad : k <= j
      BY <3>0, LeastExists
    <3>2. k # 0
      BY <1>6, <1>7, <3>1
    <3>3. k - 1 \in 0 .. y /\ k - 1 \notin Bad
      BY <1>0, <3>1, <3>2
    <3>4. s[k - 1] = w[k - 1]
      BY <3>3
    <3>5. s[k] = s[k - 1] + Len(rows[k - 1]) /\ w[k] = w[k - 1] + Len(rows[k - 1])
      BY <1>6, <1>7, <3>1, <3>2
    <3> QED  BY <3>1, <3>4, <3>5
  <2> QED  BY <1>0, <2>1
<1>9. w[y] = IF y = 0 THEN 0 ELSE Len(Flat(rows, y)) - (y - 1)
  BY <1>0
<1>10. Flat(rows, y) \in Seq(Char) /\ Sep(y) \in Seq(Char) /\ Len(Flat(rows, y)) \in Nat
  BY <1>0, <1>1, FlatType
<1>11. Len(Above(rows, y)) = Len(Flat(rows, y)) + Len(Sep(y))
  BY <1>10, ConcatProperties DEF Above
<1>12. Len(Sep(y)) = IF y = 0 THEN 0 ELSE 1
  BY DEF Sep
<1> HIDE DEF s, w
<1>13. CASE y = 0
  <2>1. Len(Flat(rows, y)) = 0
    <3>1. Flat(rows, 0) = <<>>
      BY FlatSteps
    <3> QED  BY <1>13, <3>1
  <2> QED  BY <1>5, <1>8, <1>9, <1>11, <1>12, <1>13, <2>1
<1>14. CASE y # 0
  BY <1>0, <1>5, <1>8, <1>9, <1>10, <1>11, <1>12, <1>14
<1> QED  BY <1>13, <1>14

(* Something put into a text, and one character taken out of it.           *)
LEMMA AroundIn ==
  ASSUME NEW A \in Seq(Char), NEW B \in Seq(Char), NEW C \in Seq(Char)
  PROVE  Around(A \o C, Len(A), (A \o B) \o C, Len(A) + Len(B))
<1> DEFINE t == A \o C
           u == (A \o B) \o C
           p == Len(A)
           k == Len(u) - Len(t)
<1>0. Len(A) \in Nat /\ Len(B) \in Nat /\ Len(C) \in Nat /\ A \o B \in Seq(Char)
  BY ConcatProperties
<1>1. Len(t) = Len(A) + Len(C) /\ t \in Seq(Char)
  BY ConcatProperties
<1>2. Len(u) = Len(A) + Len(B) + Len(C) /\ u \in Seq(Char) /\ Len(A \o B) = Len(A) + Len(B)
  BY <1>0, ConcatProperties
<1>3. k = Len(B)
  BY <1>0, <1>1, <1>2
<1>4. SubSeq(t, 1, p) = A /\ SubSeq(t, p + 1, Len(t)) = C
  BY <1>0, <1>1
<1>5. SubSeq(u, p + 1, p + k) = B
  <2>1. SubSeq(u, p + 1, p + Len(B)) = B
    BY <1>0, <1>2
  <2> QED  BY <1>3, <2>1
<1>6. ~(k < 0) /\ p + k = Len(A) + Len(B)
  BY <1>0, <1>3
<1>7. u = SubSeq(t, 1, p) \o SubSeq(u, p + 1, p + k) \o SubSeq(t, p + 1, Len(t))
  BY <1>4, <1>5
<1> QED  BY <1>6, <1>7 DEF Around

LEMMA AroundOut ==
  ASSUME NEW A \in Seq(Char), NEW B \in Seq(Char), NEW C \in Seq(Char), Len(B) = 1
  PROVE  Around((A \o B) \o C, Len(A) + 1, A \o C, Len(A))
<1> DEFINE u == A \o C
           t == (A \o B) \o C
           p == Len(A) + 1
           k == Len(u) - Len(t)
<1>0. Len(A) \in Nat /\ Len(C) \in Nat /\ A \o B \in Seq(Char) /\ Len(A \o B) = Len(A) + 1
  BY ConcatProperties
<1>1. Len(u) = Len(A) + Len(C) /\ u \in Seq(Char)
  BY ConcatProperties
<1>2. Len(t) = Len(A) + 1 + Len(C) /\ t \in Seq(Char)
  <2>1. Len(t) = Len(A \o B) + Len(C) /\ t \in Seq(Char)
    BY <1>0, ConcatProperties
  <2> QED  BY <1>0, <2>1
<1>3. k = -1
  BY <1>0, <1>1, <1>2
<1>4. SubSeq(t, 1, Len(A)) = A /\ SubSeq(t, p + 1, Len(t)) = C
  BY <1>0, <1>2
<1>5. u = SubSeq(t, 1, Len(A)) \o SubSeq(t, p + 1, Len(t))
  BY <1>4
<1>6. k < 0 /\ Len(A) = p + k
  BY <1>0, <1>3
<1> QED  BY <1>3, <1>5, <1>6 DEF Around

(* A line is what is before a place in it and what is behind.              *)
LEMMA CutAt ==
  ASSUME NEW l \in Seq(Letter), NEW q \in 0 .. Len(l)
  PROVE  /\ l = SubSeq(l, 1, q) \o SubSeq(l, q + 1, Len(l))
         /\ SubSeq(l, 1, q) \in Seq(Char) /\ Len(SubSeq(l, 1, q)) = q
         /\ SubSeq(l, q + 1, Len(l)) \in Seq(Char)
<1>1. l \in Seq(Char)
  BY DEF Char
<1>2. SubSeq(l, 1, q) \in Seq(Char) /\ Len(SubSeq(l, 1, q)) = q /\ SubSeq(l, q + 1, Len(l)) \in Seq(Char)
  BY <1>1
<1>3. l = SubSeq(l, 1, q) \o SubSeq(l, q + 1, Len(l))
  <2>1. Len(l) \in Nat /\ 1 \in 1 .. Len(l) + 1 /\ q \in 1 - 1 .. Len(l) /\ Len(l) \in q .. Len(l)
    OBVIOUS
  <2>2. SubSeq(l, 1, q) \o SubSeq(l, q + 1, Len(l)) = SubSeq(l, 1, Len(l))
    BY <2>1, ConcatAdjacentSubSeq
  <2>3. SubSeq(l, 1, Len(l)) = l
    BY SubSeqFull
  <2> QED  BY <2>2, <2>3
<1> QED  BY <1>2, <1>3

(* clamp_cursor leaves a cursor that is in the text where it is.           *)
LEMMA ClampedInText ==
  ASSUME NEW rows \in [Row -> Line], NEW n \in 0 .. MaxLines, NEW px \in Nat, NEW py \in Nat, NEW vis,
         py < n, px <= Len(rows[py]), clamp_cursor(rows, n, px, py, vis)
  PROVE  cx' = px /\ cy' = py
<1>0. MaxLines \in Nat /\ py \in Row
  BY EditorAssumption DEF Row
<1>1. Most(Least(Most(py, 0), n - 1), 0) = py
  BY <1>0 DEF Most, Least
<1>2. cy' = py /\ cx' = Most(Least(px, Len(rows[py])), 0)
  BY <1>1 DEF clamp_cursor
<1>3. Len(rows[py]) \in Nat
  BY <1>0, LineType
<1>4. Most(Least(px, Len(rows[py])), 0) = px
  BY <1>3 DEF Most, Least
<1> QED  BY <1>2, <1>4

(* The text before and after an edit of row cy that moves what is below    *)
(* it: what is above stays, and one tail follows the lines edited.         *)
LEMMA TextAround ==
  ASSUME EditorInv, count > 0, NEW rows \in [Row -> Line], NEW first \in Row, first <= cy,
         \A i \in 0 .. first - 1 : rows[i] = lines[i],
         NEW d \in Int, cy + 1 + d >= 1, count + d <= MaxLines,
         \A i \in cy + 1 .. count - 1 : rows[i + d] = lines[i]
  PROVE  /\ Above(rows, first) = Above(lines, first)
         /\ \E T \in Seq(Char) : /\ Flat(lines, count) = (Above(lines, cy) \o lines[cy]) \o T
                                 /\ Flat(rows, count + d) = Flat(rows, cy + 1 + d) \o T
<1>1. lines \in [Row -> Line] /\ cy \in Row /\ count \in 0 .. MaxLines /\ cy < count
  BY EditorFacts DEF EditorInv, CursorOnScreen
<1>2. MaxLines \in Nat /\ cy \in Nat /\ cy + 1 \in 1 .. MaxLines /\ count \in cy + 1 .. MaxLines
      /\ first \in 0 .. MaxLines
  BY <1>1, EditorAssumption DEF Row
<1>3. Above(rows, first) = Above(lines, first)
  BY <1>1, <1>2, FlatSame
<1>4. \E T \in Seq(Char) : /\ Flat(lines, count) = Flat(lines, cy + 1) \o T
                           /\ Flat(rows, count + d) = Flat(rows, (cy + 1) + d) \o T
  BY <1>1, <1>2, FlatTail
<1>5. Flat(lines, cy + 1) = Above(lines, cy) \o lines[cy]
  BY <1>1, FlatRow
<1> QED  BY <1>3, <1>4, <1>5

(* What lies around a line, taken apart at a place in it.                   *)
Grouped(A, a, c, T) ==
  /\ (A \o (a \o c)) \o T = (A \o a) \o (c \o T)
  /\ A \o a \in Seq(Char) /\ a \o c \in Seq(Char) /\ c \o T \in Seq(Char)
  /\ Len(A \o a) = Len(A) + Len(a) /\ Len(A) \in Nat /\ Len(a) \in Nat

LEMMA Regroup ==
  ASSUME NEW A \in Seq(Char), NEW a \in Seq(Char), NEW c \in Seq(Char), NEW T \in Seq(Char)
  PROVE  Grouped(A, a, c, T)
<1>1. A \o a \in Seq(Char) /\ a \o c \in Seq(Char) /\ c \o T \in Seq(Char) /\ Len(A \o a) = Len(A) + Len(a)
  BY ConcatProperties
<1>2. (A \o a) \o c = A \o (a \o c)
  BY ConcatAssociative
<1>3. ((A \o a) \o c) \o T = (A \o a) \o (c \o T)
  BY <1>1, ConcatAssociative
<1>4. (A \o (a \o c)) \o T = (A \o a) \o (c \o T)
  BY <1>2, <1>3
<1> QED  BY <1>1, <1>4 DEF Grouped

EditAround == Around(Flat(lines, count), Point(lines, cx, cy),
                     Flat(lines', count'), Point(lines', cx', cy'))

LEMMA InTheText ==
  ASSUME EditorInv, count > 0
  PROVE  /\ lines \in [Row -> Line] /\ cy \in Row /\ cy \in Nat /\ cy < count /\ count \in 0 .. MaxLines
         /\ count \in Nat /\ cx \in 0 .. Len(lines[cy]) /\ lines[cy] \in Seq(Letter)
         /\ MaxLines \in Nat /\ Above(lines, cy) \in Seq(Char)
         /\ Point(lines, cx, cy) = cx + Len(Above(lines, cy))
<1>1. /\ lines \in [Row -> Line] /\ cy \in Row /\ cy \in Nat /\ cy < count /\ count \in 0 .. MaxLines
      /\ count \in Nat /\ cx \in 0 .. Len(lines[cy]) /\ cx \in Nat /\ lines[cy] \in Seq(Letter)
      /\ MaxLines \in Nat
  BY EditorFacts DEF EditorInv, CursorOnScreen
<1>2. cy \in 0 .. MaxLines
  BY <1>1
<1> QED  BY <1>1, <1>2, FlatType, PointIs

(* insert_char puts its characters where the cursor is.                    *)
LEMMA InsertLocal ==
  ASSUME EditorInv, EditorInv', count > 0, NEW ch \in Letter, NEW n \in Nat, insert_char(ch, n)
  PROVE  EditAround
<1> DEFINE l == lines[cy]
           k == Least(n, Most(LineMax - 2 - Len(l), 0))
           a == SubSeq(l, 1, cx)
           b == [i \in 1 .. k |-> ch]
           c == SubSeq(l, cx + 1, Len(l))
           r == Inserted(ch, n)
           A == Above(lines, cy)
<1>1. /\ lines \in [Row -> Line] /\ cy \in Row /\ cy \in Nat /\ cy < count /\ count \in 0 .. MaxLines
      /\ count \in Nat /\ cx \in 0 .. Len(l) /\ l \in Seq(Letter) /\ MaxLines \in Nat /\ A \in Seq(Char)
      /\ Point(lines, cx, cy) = cx + Len(A)
  BY InTheText
<1>2. r = [line |-> (a \o b) \o c, grown |-> k]
  BY DEF Inserted
<1>3. k \in Nat
  <2>1. LineMax \in Nat /\ Len(l) \in Nat
    BY <1>1, EditorAssumption
  <2> HIDE DEF l
  <2> QED  BY <2>1 DEF Least, Most
<1> HIDE DEF k
<1>4. /\ l = a \o c /\ a \in Seq(Char) /\ Len(a) = cx /\ c \in Seq(Char)
  BY <1>1, CutAt
<1>5. b \in Seq(Char) /\ Len(b) = k
  BY <1>3 DEF Char
<1>6. /\ lines' = [lines EXCEPT ![cy] = (a \o b) \o c] /\ count' = count
      /\ clamp_cursor(lines', count, cx + k, cy, visible)
  BY <1>2 DEF insert_char
<1>7. lines' \in [Row -> Line]
  BY DEF EditorInv, EditorTypeOK
<1> HIDE DEF a, b, c, l, A, r
<1>8. lines'[cy] = (a \o b) \o c
  BY <1>1, <1>6
<1>9. cx' = cx + k /\ cy' = cy
  <2>1. Len((a \o b) \o c) = (cx + k) + Len(c) /\ Len(c) \in Nat
    <3>1. a \o b \in Seq(Char) /\ Len(a \o b) = cx + k
      BY <1>4, <1>5, ConcatProperties
    <3> QED  BY <1>4, <3>1, ConcatProperties
  <2>2. cx + k \in Nat /\ cx + k <= Len(lines'[cy])
    BY <1>1, <1>3, <1>8, <2>1
  <2> QED  BY <1>1, <1>6, <1>7, <2>2, ClampedInText
<1>10. PICK T \in Seq(Char) : /\ Flat(lines, count) = (A \o l) \o T
                              /\ Flat(lines', count + 0) = Flat(lines', cy + 1 + 0) \o T
  <2>1. \A i \in 0 .. cy - 1 : lines'[i] = lines[i]
    BY <1>1, <1>6 DEF Row
  <2>2. \A i \in cy + 1 .. count - 1 : lines'[i + 0] = lines[i]
    <3> TAKE i \in cy + 1 .. count - 1
    <3>1. i \in Row /\ i # cy /\ i + 0 = i
      BY <1>1 DEF Row
    <3> QED  BY <1>1, <1>6, <3>1
  <2>3. cy + 1 + 0 >= 1 /\ count + 0 <= MaxLines /\ 0 \in Int
    BY <1>1
  <2>4. cy <= cy
    BY <1>1
  <2>5. \E T \in Seq(Char) : /\ Flat(lines, count) = (Above(lines, cy) \o lines[cy]) \o T
                             /\ Flat(lines', count + 0) = Flat(lines', cy + 1 + 0) \o T
    BY <1>1, <1>7, <2>1, <2>2, <2>3, <2>4, TextAround
  <2> QED  BY <2>5 DEF A, l
<1>11. Above(lines', cy) = A
  <2>1. \A i \in 0 .. cy - 1 : lines'[i] = lines[i]
    BY <1>1, <1>6 DEF Row
  <2>2. cy \in 0 .. MaxLines
    BY <1>1
  <2> QED  BY <1>1, <1>7, <2>1, <2>2, FlatSame DEF A
<1>12. Flat(lines', count') = (A \o ((a \o b) \o c)) \o T
  <2>1. count + 0 = count /\ cy + 1 + 0 = cy + 1
    BY <1>1
  <2>2. Flat(lines', cy + 1) = Above(lines', cy) \o lines'[cy]
    BY <1>1, <1>7, FlatRow
  <2> QED  BY <1>6, <1>8, <1>10, <1>11, <2>1, <2>2
<1>typed. A \in Seq(Char) /\ a \in Seq(Char) /\ b \in Seq(Char) /\ c \in Seq(Char) /\ T \in Seq(Char)
  BY <1>1, <1>4, <1>5
<1>13. Flat(lines, count) = (A \o a) \o (c \o T) /\ A \o a \in Seq(Char) /\ c \o T \in Seq(Char)
       /\ Len(A \o a) = Len(A) + cx /\ Len(A) \in Nat
  <2>1. Grouped(A, a, c, T)
    BY <1>typed, Regroup
  <2>2. /\ (A \o (a \o c)) \o T = (A \o a) \o (c \o T)
        /\ A \o a \in Seq(Char) /\ c \o T \in Seq(Char)
        /\ Len(A \o a) = Len(A) + Len(a) /\ Len(A) \in Nat
    BY <2>1 DEF Grouped
  <2> QED  BY <1>4, <1>10, <2>2
<1>14. Flat(lines', count') = ((A \o a) \o b) \o (c \o T)
  <2>1. a \o b \in Seq(Char)
    BY <1>4, <1>5, ConcatProperties
  <2>2. (A \o ((a \o b) \o c)) \o T = (A \o (a \o b)) \o (c \o T)
    <3>1. Grouped(A, a \o b, c, T)
      BY <1>typed, <2>1, Regroup
    <3> QED  BY <3>1 DEF Grouped
  <2>3. (A \o a) \o b = A \o (a \o b)
    BY <1>typed, ConcatAssociative
  <2> QED  BY <1>12, <2>2, <2>3
<1>15. Point(lines, cx, cy) = Len(A \o a)
  BY <1>1, <1>13
<1>16. Point(lines', cx', cy') = Len(A \o a) + Len(b)
  <2>1. cx + k \in Nat
    BY <1>1, <1>3
  <2>2. Point(lines', cx + k, cy) = (cx + k) + Len(Above(lines', cy))
    BY <1>1, <1>7, <2>1, PointIs
  <2>3. (cx + k) + Len(A) = (Len(A) + cx) + k
    BY <1>1, <1>3, <1>13
  <2> QED  BY <1>5, <1>9, <1>11, <1>13, <2>2, <2>3
<1>17. Around((A \o a) \o (c \o T), Len(A \o a), ((A \o a) \o b) \o (c \o T), Len(A \o a) + Len(b))
  BY <1>5, <1>13, AroundIn
<1> QED  BY <1>13, <1>14, <1>15, <1>16, <1>17 DEF EditAround

(* insert_newline puts a line end where the cursor is.                     *)
LEMMA EnterLocal ==
  ASSUME EditorInv, EditorInv', count > 0, Enter
  PROVE  EditAround \/ UNCHANGED <<lines, count>>
<1> DEFINE l == lines[cy]
           a == SubSeq(l, 1, cx)
           c == SubSeq(l, cx + 1, Len(l))
           A == Above(lines, cy)
<1>1. /\ lines \in [Row -> Line] /\ cy \in Row /\ cy \in Nat /\ cy < count /\ count \in 0 .. MaxLines
      /\ count \in Nat /\ cx \in 0 .. Len(l) /\ l \in Seq(Letter) /\ MaxLines \in Nat /\ A \in Seq(Char)
      /\ Point(lines, cx, cy) = cx + Len(A)
  BY InTheText
<1>2. CASE count >= MaxLines - 1
  BY <1>1, <1>2 DEF Enter
<1>3. CASE ~(count >= MaxLines - 1)
  <2>1. /\ lines' = [i \in Row |-> IF i = cy THEN SubSeq(lines[i], 1, cx)
                                   ELSE IF i = cy + 1 THEN c
                                   ELSE IF i > cy + 1 /\ i <= count THEN lines[i - 1]
                                   ELSE lines[i]]
        /\ count' = count + 1
        /\ clamp_cursor(lines', count', 0, cy + 1, visible)
    BY <1>1, <1>3 DEF Enter
  <2>2. /\ l = a \o c /\ a \in Seq(Char) /\ Len(a) = cx /\ c \in Seq(Char)
    BY <1>1, CutAt
  <2>3. cy + 1 \in Row /\ cy + 1 \in Nat /\ cy + 1 < count' /\ count' \in 0 .. MaxLines /\ count + 1 <= MaxLines
    BY <1>1, <1>3, <2>1 DEF Row
  <2>4. lines'[cy] = a /\ lines'[cy + 1] = c
    BY <1>1, <2>1, <2>3
  <2> HIDE DEF a, c, A
  <2>5. lines' \in [Row -> Line]
    BY DEF EditorInv, EditorTypeOK
  <2>6. cx' = 0 /\ cy' = cy + 1
    <3>1. 0 <= Len(lines'[cy + 1]) /\ 0 \in Nat
      BY <2>3, <2>5, LineType
    <3> QED  BY <2>1, <2>3, <2>5, <3>1, ClampedInText
  <2>7. \A i \in 0 .. cy - 1 : lines'[i] = lines[i]
    <3> TAKE i \in 0 .. cy - 1
    <3>1. i \in Row /\ i # cy /\ i # cy + 1 /\ ~(i > cy + 1)
      BY <1>1 DEF Row
    <3> QED  BY <2>1, <3>1
  <2>8. \A i \in cy + 1 .. count - 1 : lines'[i + 1] = lines[i]
    <3> TAKE i \in cy + 1 .. count - 1
    <3>1. i + 1 \in Row /\ i + 1 # cy /\ i + 1 # cy + 1 /\ i + 1 > cy + 1 /\ i + 1 <= count /\ (i + 1) - 1 = i
      BY <1>1, <2>3 DEF Row
    <3> QED  BY <2>1, <3>1
  <2>9. Above(lines', cy) = A /\ \E T \in Seq(Char) : /\ Flat(lines, count) = (A \o l) \o T
                               /\ Flat(lines', count + 1) = Flat(lines', cy + 1 + 1) \o T
    <3>1. cy + 1 + 1 >= 1 /\ count + 1 <= MaxLines /\ 1 \in Int /\ cy <= cy
      BY <1>1, <2>3
    <3> HIDE DEF l
    <3> QED  BY <1>1, <2>5, <2>7, <2>8, <3>1, TextAround DEF A, l
  <2>10. PICK T \in Seq(Char) : /\ Flat(lines, count) = (A \o l) \o T
                                /\ Flat(lines', count + 1) = Flat(lines', cy + 1 + 1) \o T
    BY <2>9
  <2> HIDE DEF l
  <2> DEFINE eol == <<NL>>
  <2>11. eol \in Seq(Char) /\ Len(eol) = 1
    <3>1. NL \in Char
      BY DEF Char
    <3> QED  BY <3>1
  <2>12. Above(lines', cy + 1) = (A \o a) \o eol
    <3>1. Flat(lines', cy + 1) = Above(lines', cy) \o lines'[cy]
      BY <1>1, <2>5, FlatRow
    <3>2. Sep(cy + 1) = <<NL>>
      BY <1>1 DEF Sep
    <3> QED  BY <2>4, <2>9, <3>1, <3>2 DEF Above
  <2>13. Flat(lines', count') = (((A \o a) \o eol) \o c) \o T
    <3>1. Flat(lines', (cy + 1) + 1) = Above(lines', cy + 1) \o lines'[cy + 1]
      BY <2>3, <2>5, FlatRow
    <3> QED  BY <2>1, <2>4, <2>10, <2>12, <3>1
  <2> HIDE DEF eol
  <2>typed. A \in Seq(Char) /\ a \in Seq(Char) /\ eol \in Seq(Char) /\ c \in Seq(Char) /\ T \in Seq(Char)
    BY <1>1, <2>2, <2>11 DEF A
  <2>14. Flat(lines, count) = (A \o a) \o (c \o T) /\ A \o a \in Seq(Char) /\ c \o T \in Seq(Char)
         /\ Len(A \o a) = Len(A) + cx /\ Len(A) \in Nat
    <3>1. Grouped(A, a, c, T)
      BY <2>typed, Regroup
    <3>2. /\ (A \o (a \o c)) \o T = (A \o a) \o (c \o T)
          /\ A \o a \in Seq(Char) /\ c \o T \in Seq(Char)
          /\ Len(A \o a) = Len(A) + Len(a) /\ Len(A) \in Nat
      BY <3>1 DEF Grouped
    <3> QED  BY <2>2, <2>10, <3>2
  <2>more. A \o a \in Seq(Char)
    BY <2>14
  <2>15. Flat(lines', count') = ((A \o a) \o eol) \o (c \o T)
    <3>1. (A \o a) \o eol \in Seq(Char)
      BY <2>typed, <2>more, ConcatProperties
    <3> DEFINE X == (A \o a) \o eol
    <3> HIDE DEF X
    <3>2. X \in Seq(Char)
      BY <3>1 DEF X
    <3>3. (X \o c) \o T = X \o (c \o T)
      BY <2>typed, <3>2, ConcatAssociative
    <3> QED  BY <2>13, <3>3 DEF X
  <2>16. Point(lines, cx, cy) = Len(A \o a)
    BY <1>1, <2>14
  <2>17. Point(lines', cx', cy') = Len(A \o a) + Len(eol)
    <3>1. Point(lines', 0, cy + 1) = 0 + Len(Above(lines', cy + 1))
      BY <2>3, <2>5, PointIs
    <3>2. Len((A \o a) \o eol) = Len(A \o a) + Len(eol) /\ Len(A \o a) + Len(eol) \in Nat
      BY <2>typed, <2>more, ConcatProperties
    <3> QED  BY <2>6, <2>12, <3>1, <3>2
  <2>18. Around((A \o a) \o (c \o T), Len(A \o a), ((A \o a) \o eol) \o (c \o T), Len(A \o a) + Len(eol))
    BY <2>11, <2>14, AroundIn
  <2> QED  BY <2>14, <2>15, <2>16, <2>17, <2>18 DEF EditAround
<1> QED  BY <1>2, <1>3

(* delete_char takes away the character before the cursor, or the line end *)
(* of the line above when the two lines fit into one.                      *)
LEMMA BackspaceLocal ==
  ASSUME EditorInv, EditorInv', count > 0, ~TooLong, Backspace
  PROVE  EditAround \/ UNCHANGED <<lines, count>>
<1> DEFINE l == lines[cy]
           A == Above(lines, cy)
<1>1. /\ lines \in [Row -> Line] /\ cy \in Row /\ cy \in Nat /\ cy < count /\ count \in 0 .. MaxLines
      /\ count \in Nat /\ cx \in 0 .. Len(l) /\ l \in Seq(Letter) /\ MaxLines \in Nat /\ A \in Seq(Char)
      /\ Point(lines, cx, cy) = cx + Len(A)
  BY InTheText
<1>2. lines' \in [Row -> Line]
  BY DEF EditorInv, EditorTypeOK
<1>3. CASE cx > 0
  <2> DEFINE a == SubSeq(l, 1, cx - 1)
             b == SubSeq(l, cx, cx)
             c == SubSeq(l, cx + 1, Len(l))
  <2>1. /\ lines' = [lines EXCEPT ![cy] = a \o c] /\ count' = count
        /\ clamp_cursor(lines', count, cx - 1, cy, visible)
    BY <1>1, <1>3 DEF Backspace
  <2>2. /\ l = (a \o b) \o c /\ a \in Seq(Char) /\ Len(a) = cx - 1 /\ c \in Seq(Char)
        /\ b \in Seq(Char) /\ Len(b) = 1
    <3> HIDE DEF l
    <3>1. cx - 1 \in 0 .. Len(l) /\ cx \in 0 .. Len(l) /\ Len(l) \in Nat /\ cx \in Nat
      BY <1>1, <1>3
    <3>2. l = SubSeq(l, 1, cx) \o c /\ c \in Seq(Char)
      BY <1>1, <3>1, CutAt
    <3>3. a \in Seq(Char) /\ Len(a) = cx - 1
      BY <1>1, <3>1, CutAt
    <3>4. a \o b = SubSeq(l, 1, cx)
      <4>1. 1 \in 1 .. Len(l) + 1 /\ cx - 1 \in 1 - 1 .. Len(l) /\ cx \in cx - 1 .. Len(l) /\ (cx - 1) + 1 = cx
        BY <1>3, <3>1
      <4>2. SubSeq(l, 1, cx - 1) \o SubSeq(l, (cx - 1) + 1, cx) = SubSeq(l, 1, cx)
        BY <1>1, <4>1, ConcatAdjacentSubSeq
      <4> QED  BY <4>1, <4>2
    <3>5. b \in Seq(Char) /\ Len(b) = 1
      <4>1. l \in Seq(Char) /\ cx \in 1 .. Len(l)
        BY <1>1, <1>3, <3>1 DEF Char
      <4>2. cx - cx + 1 = 1
        BY <3>1
      <4> QED  BY <4>1, <4>2
    <3> QED  BY <3>2, <3>3, <3>4, <3>5
  <2> HIDE DEF a, b, c, l, A
  <2>3. lines'[cy] = a \o c
    BY <1>1, <2>1
  <2>4. cx' = cx - 1 /\ cy' = cy
    <3>1. Len(a \o c) = (cx - 1) + Len(c) /\ Len(c) \in Nat
      <4>1. a \in Seq(Char) /\ c \in Seq(Char)
        BY <2>2
      <4>2. Len(a \o c) = Len(a) + Len(c) /\ Len(c) \in Nat
        BY <4>1, ConcatProperties
      <4> QED  BY <2>2, <4>2
    <3>2. cx - 1 \in Nat /\ cx - 1 <= Len(lines'[cy])
      BY <1>1, <1>3, <2>3, <3>1
    <3> QED  BY <1>1, <1>2, <2>1, <3>2, ClampedInText
  <2>5. \A i \in 0 .. cy - 1 : lines'[i] = lines[i]
    BY <1>1, <2>1 DEF Row
  <2>6. \A i \in cy + 1 .. count - 1 : lines'[i + 0] = lines[i]
    <3> TAKE i \in cy + 1 .. count - 1
    <3>1. i \in Row /\ i # cy /\ i + 0 = i
      BY <1>1 DEF Row
    <3> QED  BY <1>1, <2>1, <3>1
  <2>7. Above(lines', cy) = A /\ \E T \in Seq(Char) : /\ Flat(lines, count) = (A \o l) \o T
                                  /\ Flat(lines', count + 0) = Flat(lines', cy + 1 + 0) \o T
    <3>1. cy + 1 + 0 >= 1 /\ count + 0 <= MaxLines /\ 0 \in Int /\ cy <= cy
      BY <1>1
    <3> QED  BY <1>1, <1>2, <2>5, <2>6, <3>1, TextAround DEF A, l
  <2>8. PICK T \in Seq(Char) : /\ Flat(lines, count) = (A \o l) \o T
                               /\ Flat(lines', count + 0) = Flat(lines', cy + 1 + 0) \o T
    BY <2>7
  <2>9. A \in Seq(Char) /\ a \in Seq(Char) /\ b \in Seq(Char) /\ c \in Seq(Char) /\ T \in Seq(Char)
        /\ a \o b \in Seq(Char)
    <3>1. a \o b \in Seq(Char)
      BY <2>2, ConcatProperties
    <3> QED  BY <1>1, <2>2, <3>1
  <2>10. Flat(lines, count) = ((A \o a) \o b) \o (c \o T)
    <3>1. Grouped(A, a \o b, c, T)
      BY <2>9, Regroup
    <3>2. (A \o ((a \o b) \o c)) \o T = (A \o (a \o b)) \o (c \o T)
      BY <3>1 DEF Grouped
    <3>3. (A \o a) \o b = A \o (a \o b)
      BY <2>9, ConcatAssociative
    <3> QED  BY <2>2, <2>8, <3>2, <3>3
  <2>11. /\ Flat(lines', count') = (A \o a) \o (c \o T)
         /\ A \o a \in Seq(Char) /\ c \o T \in Seq(Char)
         /\ Len(A \o a) = Len(A) + (cx - 1) /\ Len(A) \in Nat
    <3>1. count + 0 = count /\ cy + 1 + 0 = cy + 1
      BY <1>1
    <3>2. Flat(lines', cy + 1) = Above(lines', cy) \o lines'[cy]
      BY <1>1, <1>2, FlatRow
    <3>3. Flat(lines', count') = (A \o (a \o c)) \o T
      BY <2>1, <2>3, <2>7, <2>8, <3>1, <3>2
    <3>4. Grouped(A, a, c, T)
      BY <2>9, Regroup
    <3>5. /\ (A \o (a \o c)) \o T = (A \o a) \o (c \o T)
          /\ A \o a \in Seq(Char) /\ c \o T \in Seq(Char)
          /\ Len(A \o a) = Len(A) + Len(a) /\ Len(A) \in Nat
      BY <3>4 DEF Grouped
    <3> QED  BY <2>2, <3>3, <3>5
  <2>12. Point(lines, cx, cy) = Len(A \o a) + 1
    BY <1>1, <2>11
  <2>13. Point(lines', cx', cy') = Len(A \o a)
    <3>1. cx - 1 \in Nat
      BY <1>1, <1>3
    <3>2. Point(lines', cx - 1, cy) = (cx - 1) + Len(Above(lines', cy))
      BY <1>1, <1>2, <3>1, PointIs
    <3>3. (cx - 1) + Len(A) = Len(A) + (cx - 1)
      BY <2>11, <3>1
    <3> QED  BY <2>4, <2>7, <2>11, <3>2, <3>3
  <2>14. Around(((A \o a) \o b) \o (c \o T), Len(A \o a) + 1, (A \o a) \o (c \o T), Len(A \o a))
    BY <2>2, <2>9, <2>11, AroundOut
  <2> QED  BY <2>10, <2>11, <2>12, <2>13, <2>14 DEF EditAround
<1>4. CASE ~(cx > 0) /\ cy > 0
  <2> DEFINE u == lines[cy - 1]
             j == u \o l
             eol == <<NL>>
             F == Flat(lines, cy)
             B == Above(lines, cy - 1)
  <2>1. cy - 1 \in Row /\ cy - 1 \in Nat /\ cx = 0 /\ (cy - 1) + 1 = cy
    BY <1>1, <1>4 DEF Row
  <2>2. u \in Seq(Letter) /\ u \in Seq(Char) /\ l \in Seq(Char) /\ Len(u) \in Nat /\ Len(l) \in Nat
        /\ eol \in Seq(Char) /\ Len(eol) = 1
    <3>1. NL \in Char
      BY DEF Char
    <3>2. eol \in Seq(Char) /\ Len(eol) = 1
      BY <3>1
    <3> QED  BY <1>1, <2>1, <3>2, LineType
  <2>3. j \in Seq(Letter) /\ Len(j) = Len(u) + Len(l) /\ Len(u) + Len(l) <= LineMax - 1
    <3>1. j \in Seq(Letter) /\ Len(j) = Len(u) + Len(l)
      <4> HIDE DEF u, l
      <4> QED  BY <1>1, <2>2, JoinOf
    <3>2. Len(u) + Len(l) <= LineMax - 1
      <4>1. ~(Len(u) + Len(l) > LineMax - 1)
        BY <1>4, <2>1 DEF TooLong
      <4>2. LineMax \in Int
        BY EditorAssumption
      <4>3. Len(u) + Len(l) \in Int
        BY <2>2
      <4> HIDE DEF u, l
      <4> QED  BY <4>1, <4>2, <4>3
    <3> QED  BY <3>1, <3>2
  <2>4. SubSeq(j, 1, Least(Len(j), LineMax - 1)) = j
    <3>1. LineMax - 1 \in Nat
      BY EditorAssumption
    <3> HIDE DEF j, u, l
    <3>2. Least(Len(j), LineMax - 1) = Len(j)
      BY <2>2, <2>3, <3>1 DEF Least
    <3> QED  BY <2>3, <3>2, SubSeqFull
  <2>5. /\ lines' = [i \in Row |-> IF i = cy - 1 THEN j
                                   ELSE IF i >= cy /\ i < count - 1 THEN lines[i + 1] ELSE lines[i]]
        /\ count' = count - 1
        /\ clamp_cursor(lines', count', Len(u), cy - 1, visible)
    <3>1. /\ lines' = [i \in Row |-> IF i = cy - 1 THEN SubSeq(j, 1, Least(Len(j), LineMax - 1))
                                     ELSE IF i >= cy /\ i < count - 1 THEN lines[i + 1] ELSE lines[i]]
          /\ count' = count - 1
          /\ clamp_cursor(lines', count', Len(u), cy - 1, visible)
      BY <1>4 DEF Backspace
    <3> HIDE DEF j
    <3> QED  BY <2>4, <3>1
  <2> HIDE DEF j
  <2>6. lines'[cy - 1] = j /\ count' \in 0 .. MaxLines /\ cy - 1 < count' /\ count' = count + (-1)
    BY <1>1, <2>1, <2>5
  <2>7. cx' = Len(u) /\ cy' = cy - 1
    <3>1. Len(u) <= Len(lines'[cy - 1]) /\ Len(u) \in Nat
      <4> HIDE DEF u, l
      <4> QED  BY <2>2, <2>3, <2>6
    <3> HIDE DEF u
    <3> QED  BY <1>2, <2>1, <2>5, <2>6, <3>1, ClampedInText
  <2>8. \A i \in 0 .. (cy - 1) - 1 : lines'[i] = lines[i]
    <3> TAKE i \in 0 .. (cy - 1) - 1
    <3>1. i \in Row /\ i # cy - 1 /\ ~(i >= cy)
      BY <1>1, <2>1 DEF Row
    <3> QED  BY <2>5, <3>1
  <2>9. \A i \in cy + 1 .. count - 1 : lines'[i + (-1)] = lines[i]
    <3> TAKE i \in cy + 1 .. count - 1
    <3> DEFINE h == i + (-1)
    <3>1. h \in Row /\ h # cy - 1 /\ h >= cy /\ h < count - 1 /\ h + 1 = i
      BY <1>1, <2>1 DEF Row
    <3> HIDE DEF h
    <3>2. lines'[h] = lines[h + 1]
      BY <2>5, <3>1
    <3> QED  BY <3>1, <3>2 DEF h
  <2>10. Above(lines', cy - 1) = B /\ \E T \in Seq(Char) : /\ Flat(lines, count) = (A \o l) \o T
                                 /\ Flat(lines', count + (-1)) = Flat(lines', cy + 1 + (-1)) \o T
    <3>1. cy + 1 + (-1) >= 1 /\ count + (-1) <= MaxLines /\ -1 \in Int /\ cy - 1 <= cy
      BY <1>1, <1>4
    <3> HIDE DEF u, l, A
    <3> QED  BY <1>1, <1>2, <2>1, <2>8, <2>9, <3>1, TextAround DEF A, B, l
  <2>11. PICK T \in Seq(Char) : /\ Flat(lines, count) = (A \o l) \o T
                                /\ Flat(lines', count + (-1)) = Flat(lines', cy + 1 + (-1)) \o T
    BY <2>10
  <2>12. F \in Seq(Char) /\ B \in Seq(Char) /\ F = B \o u
    <3>1. cy \in 0 .. MaxLines /\ cy - 1 \in 0 .. MaxLines
      BY <1>1, <2>1
    <3>2. Flat(lines, (cy - 1) + 1) = B \o u
      BY <1>1, <2>1, FlatRow
    <3> QED  BY <1>1, <2>1, <3>1, <3>2, FlatType
  <2>13. A = F \o eol
    <3>1. Sep(cy) = eol
      BY <1>4 DEF Sep
    <3> QED  BY <3>1 DEF Above
  <2> HIDE DEF A, eol, F, B, u, l
  <2>14. l \in Seq(Char) /\ u \in Seq(Char) /\ eol \in Seq(Char) /\ F \in Seq(Char) /\ B \in Seq(Char) /\ T \in Seq(Char)
    BY <2>2, <2>12
  <2>15. Flat(lines, count) = (F \o eol) \o (l \o T) /\ l \o T \in Seq(Char)
    <3>1. A \in Seq(Char) /\ l \o T \in Seq(Char)
      BY <1>1, <2>14, ConcatProperties
    <3>typed. A \in Seq(Char) /\ l \in Seq(Char) /\ T \in Seq(Char)
      BY <2>14, <3>1
    <3>2. (A \o l) \o T = A \o (l \o T)
      BY <3>typed, ConcatAssociative
    <3> QED  BY <2>11, <2>13, <3>1, <3>2
  <2>16. Flat(lines', count') = F \o (l \o T)
    <3>1. count + (-1) = count' /\ cy + 1 + (-1) = (cy - 1) + 1
      BY <1>1, <2>6
    <3>2. Flat(lines', (cy - 1) + 1) = Above(lines', cy - 1) \o lines'[cy - 1]
      BY <1>2, <2>1, FlatRow
    <3>3. Flat(lines', count') = (B \o (u \o l)) \o T
      BY <2>6, <2>10, <2>11, <3>1, <3>2 DEF j
    <3>4. Grouped(B, u, l, T)
      BY <2>14, Regroup
    <3>5. (B \o (u \o l)) \o T = (B \o u) \o (l \o T)
      BY <3>4 DEF Grouped
    <3> QED  BY <2>12, <3>3, <3>5
  <2>17. Point(lines, cx, cy) = Len(F) + 1
    <3>1. Len(A) = Len(F) + 1 /\ Len(F) \in Nat
      <4>1. Len(F \o eol) = Len(F) + Len(eol) /\ Len(F) \in Nat
        BY <2>14, ConcatProperties
      <4> QED  BY <2>2, <2>13, <4>1
    <3> QED  BY <1>1, <2>1, <3>1
  <2>18. Point(lines', cx', cy') = Len(F)
    <3>1. Point(lines', Len(u), cy - 1) = Len(u) + Len(Above(lines', cy - 1))
      BY <1>2, <2>1, <2>2, PointIs
    <3>2. Len(B \o u) = Len(B) + Len(u) /\ Len(B) \in Nat /\ Len(u) \in Nat
      BY <2>14, ConcatProperties
    <3>3. Len(B) + Len(u) = Len(u) + Len(B)
      BY <3>2
    <3> QED  BY <2>7, <2>10, <2>12, <3>1, <3>2, <3>3
  <2>19. Around((F \o eol) \o (l \o T), Len(F) + 1, F \o (l \o T), Len(F))
    BY <2>2, <2>14, <2>15, AroundOut
  <2> QED  BY <2>15, <2>16, <2>17, <2>18, <2>19 DEF EditAround
<1>5. CASE ~(cx > 0) /\ ~(cy > 0)
  BY <1>5 DEF Backspace
<1> QED  BY <1>3, <1>4, <1>5

(* What is typed, and what is taken away, is at the cursor; the rest of    *)
(* the text stays as it was, line by line: for every size of the text and  *)
(* of a line, every file and sequence of keys.                             *)
THEOREM EditsAreLocal == EditorSpec => EditIsLocal
<1>1. ASSUME EditorInv, EditorInv', [EditorNext]_edVars
      PROVE  [count > 0 /\ ~TooLong => EditAround]_<<lines, count>>
  <2> SUFFICES ASSUME count > 0, ~TooLong, ~UNCHANGED <<lines, count>> PROVE EditAround
    OBVIOUS
  <2>1. CASE \E ch \in Letter : Type(ch)
    <3>1. PICK ch \in Letter : insert_char(ch, 1)
      BY <2>1 DEF Type
    <3> QED  BY <1>1, <3>1, InsertLocal
  <2>2. CASE Tab
    <3>1. insert_char(Blank, TabWidth) /\ Blank \in Letter /\ TabWidth \in Nat
      BY <2>2, EditorAssumption DEF Tab
    <3> QED  BY <1>1, <3>1, InsertLocal
  <2>3. CASE Backspace
    BY <1>1, <2>3, BackspaceLocal
  <2>4. CASE Enter
    BY <1>1, <2>4, EnterLocal
  <2>5. CASE Move \/ Resize \/ Save \/ Dialog \/ Quit
    BY <2>5 DEF Move, Resize, Save, Dialog, Quit, Text
  <2>6. CASE UNCHANGED edVars
    BY <2>6 DEF edVars
  <2> QED  BY <1>1, <2>1, <2>2, <2>3, <2>4, <2>5, <2>6 DEF EditorNext
<1> QED  BY <1>1, CursorAndFile, PTL DEF EditorSpec, EditIsLocal, EditAround
=============================================================================
