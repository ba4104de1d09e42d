---------------------------- MODULE ShellProofs -----------------------------
(***************************************************************************)
(* Proofs about the parts of BotShell that share no state: its prompt, its *)
(* game, its commands with a !, its blocks and its parser, each for every  *)
(* value of its constants.                                                 *)
(***************************************************************************)
EXTENDS Repl, Hero, PyBridge, Interpreter, Parser, RecursionProofs, SequenceTheorems, FiniteSetTheorems,
        WellFoundedInduction, TLAPS

(***************************************************************************)
(* The prompt.  ReplInv is inductive: once the screen shows a break it keeps*)
(* it, and an unbroken screen is the line.                                 *)
(***************************************************************************)
(* A set of numbers up to n has a greatest. *)
LEMMA GreatestExists ==
  ASSUME NEW n \in Nat, NEW S, S \subseteq 0 .. n, S # {}
  PROVE  \E m \in S : \A j \in S : j <= m
<1> DEFINE T == {n - i : i \in S}
<1>1. T \subseteq Nat /\ T # {}
  <2>1. \A i \in S : n - i \in Nat
    OBVIOUS
  <2> QED  BY <2>1
<1>2. PICK k \in T : \A m \in T : <<m, k>> \notin OpToRel(<, Nat)
  BY <1>1, NatLessThanWellFounded, WFMin
<1>3. \A m \in T : ~(m < k)
  BY <1>1, <1>2 DEF OpToRel
<1>4. PICK i \in S : k = n - i
  OBVIOUS
<1>5. ASSUME NEW j \in S PROVE j <= i
  <2>1. ~(n - j < n - i)
    BY <1>3, <1>4
  <2> QED  BY <2>1
<1> QED  BY <1>5

(* A piece of a line is a line. *)
LEMMA PieceIsLine ==
  ASSUME NEW s \in Line, NEW m \in Int, NEW n \in Int, m >= 1, n <= Len(s)
  PROVE  /\ SubSeq(s, m, n) \in Line
         /\ Len(SubSeq(s, m, n)) = IF m <= n THEN n - m + 1 ELSE 0
         /\ \A i \in 1 .. n - m + 1 : SubSeq(s, m, n)[i] = s[m + i - 1]
<1>1. \A i \in m .. n : s[i] \in Char \cup {Blank, NL}
  BY DEF Line
<1> QED  BY <1>1, SubSeqProperties DEF Line

LEMMA RestIsLine ==
  ASSUME NEW s \in Line, NEW c \in 0 .. Len(s)
  PROVE  SubSeq(s, c + 1, Len(s)) \in Line /\ Len(SubSeq(s, c + 1, Len(s))) = Len(s) - c
<1>1. Len(s) \in Nat
  BY DEF Line
<1> DEFINE m == c + 1
           r == SubSeq(s, m, Len(s))
<1>2. m \in Int /\ m >= 1 /\ Len(s) \in Int /\ Len(s) <= Len(s)
  BY <1>1
<1> HIDE DEF m
<1>3. r \in Line /\ Len(r) = IF m <= Len(s) THEN Len(s) - m + 1 ELSE 0
  BY <1>2, PieceIsLine
<1> HIDE DEF r
<1>4. Len(r) = Len(s) - c
  BY <1>1, <1>3 DEF m
<1> QED  BY <1>3, <1>4 DEF r, m

(* Where a character of C stands last in a line, or 0. *)
LEMMA CutIsLast ==
  ASSUME NEW s \in Line, NEW C
  PROVE  \E c \in 0 .. Len(s) :
            /\ AfterLast(s, C) = SubSeq(s, c + 1, Len(s))
            /\ c # 0 => s[c] \in C
            /\ c = 0 => \A i \in DOMAIN s : s[i] \notin C
<1> DEFINE cuts == {i \in DOMAIN s : s[i] \in C}
           c == IF cuts = {} THEN 0 ELSE CHOOSE i \in cuts : \A j \in cuts : j <= i
<1>1. cuts \subseteq 0 .. Len(s) /\ 0 \notin cuts /\ Len(s) \in Nat
  BY DEF Line
<1>2. CASE cuts = {}
  <2>1. c = 0
    BY <1>2
  <2> QED  BY <1>1, <1>2, <2>1 DEF AfterLast
<1>3. CASE cuts # {}
  <2>1. \E i \in cuts : \A j \in cuts : j <= i
    BY <1>1, <1>3, GreatestExists
  <2>2. c \in cuts
    BY <1>3, <2>1
  <2>3. AfterLast(s, C) = SubSeq(s, c + 1, Len(s))
    BY DEF AfterLast
  <2> HIDE DEF c
  <2> QED  BY <1>1, <2>2, <2>3
<1> QED  BY <1>2, <1>3

LEMMA AfterLastIsLine ==
  ASSUME NEW s \in Line, NEW C
  PROVE  AfterLast(s, C) \in Line /\ Len(AfterLast(s, C)) <= Len(s)
<1>1. PICK c \in 0 .. Len(s) : AfterLast(s, C) = SubSeq(s, c + 1, Len(s))
  BY CutIsLast
<1>2. Len(s) \in Nat
  BY DEF Line
<1>3. AfterLast(s, C) \in Line /\ Len(AfterLast(s, C)) = Len(s) - c
  BY <1>1, RestIsLine
<1> QED  BY <1>2, <1>3

(* Erasing stays on the last line: a break in it stays, and a line without *)
(* a break is erased as far as it goes.                                    *)
Broken(s) == \E i \in DOMAIN s : s[i] = NL

LEMMA ErasedIsLine ==
  ASSUME NEW s \in Line, NEW n \in Nat
  PROVE  /\ Erased(s, n) \in Line
         /\ Broken(s) => Broken(Erased(s, n))
         /\ ~Broken(s) => Erased(s, n) = SubSeq(s, 1, Len(s) - (IF n < Len(s) THEN n ELSE Len(s)))
<1>1. PICK c \in 0 .. Len(s) :
         /\ AfterLast(s, {NL}) = SubSeq(s, c + 1, Len(s))
         /\ c # 0 => s[c] \in {NL}
         /\ c = 0 => \A i \in DOMAIN s : s[i] \notin {NL}
  BY CutIsLast
<1>2. Len(s) \in Nat /\ DOMAIN s = 1 .. Len(s)
  BY DEF Line
<1>3. Len(AfterLast(s, {NL})) = Len(s) - c
  BY <1>1, RestIsLine
<1> DEFINE gone == IF n < Len(s) - c THEN n ELSE Len(s) - c
           e == SubSeq(s, 1, Len(s) - gone)
<1>4. Erased(s, n) = e
  BY <1>3 DEF Erased
<1>5. gone \in 0 .. Len(s) - c
  BY <1>2
<1> HIDE DEF gone
<1>6. e \in Line /\ Len(e) = Len(s) - gone /\ \A i \in 1 .. Len(e) : e[i] = s[i]
  <2> DEFINE n1 == Len(s) - gone
  <2>1. 1 \in Int /\ n1 \in Nat /\ 1 >= 1 /\ n1 <= Len(s)
    BY <1>2, <1>5
  <2>2. /\ SubSeq(s, 1, n1) \in Line
        /\ Len(SubSeq(s, 1, n1)) = IF 1 <= n1 THEN n1 - 1 + 1 ELSE 0
        /\ \A i \in 1 .. n1 - 1 + 1 : SubSeq(s, 1, n1)[i] = s[1 + i - 1]
    BY <2>1, PieceIsLine
  <2>3. Len(e) = n1 /\ \A i \in 1 .. n1 : e[i] = s[1 + i - 1]
    BY <2>1, <2>2
  <2> QED  BY <2>2, <2>3, <2>1
<1> HIDE DEF e
<1>7. ASSUME Broken(s) PROVE Broken(e)
  <2>1. c # 0
    BY <1>1, <1>7 DEF Broken
  <2>2. DOMAIN e = 1 .. Len(e)
    BY <1>6 DEF Line
  <2>3. c \in 1 .. Len(e)
    BY <2>1, <1>5, <1>6, <1>2
  <2> QED  BY <2>1, <2>2, <2>3, <1>1, <1>6 DEF Broken
<1>8. ASSUME ~Broken(s)
      PROVE  Erased(s, n) = SubSeq(s, 1, Len(s) - (IF n < Len(s) THEN n ELSE Len(s)))
  <2>1. c = 0
    BY <1>1, <1>2, <1>8 DEF Broken
  <2>2. gone = IF n < Len(s) THEN n ELSE Len(s)
    BY <2>1, <1>2 DEF gone
  <2> QED  BY <2>2, <1>4 DEF e
<1> QED  BY <1>4, <1>6, <1>7, <1>8

(* What a set of names shares is a line. *)
LEMMA CommonIsLine ==
  ASSUME NEW ns, ns \subseteq Names, ns # {}
  PROVE  Common(ns) \in Line
<1> DEFINE n == CHOOSE x \in ns : TRUE
           Shared(i) == \A x \in ns : IsPrefix(SubSeq(n, 1, i), x)
           K == {i \in 0 .. Len(n) : Shared(i)}
           Good(i) == /\ \A x \in ns : IsPrefix(SubSeq(n, 1, i), x)
                      /\ i < Len(n) => \E x \in ns : ~IsPrefix(SubSeq(n, 1, i + 1), x)
           k == CHOOSE i \in 0 .. Len(n) : Good(i)
<1>1. n \in ns
  OBVIOUS
<1> HIDE DEF n
<1>2. n \in Line /\ Len(n) \in Nat
  BY <1>1, ReplAssumption DEF Line
<1>3. 0 \in K
  <2>1. SubSeq(n, 1, 0) = <<>>
    BY SubSeqEmpty
  <2>2. ASSUME NEW x \in ns PROVE IsPrefix(<<>>, x)
    <3>1. Len(x) \in Nat
      BY ReplAssumption
    <3>2. SubSeq(x, 1, 0) = <<>> /\ SubSeq(<<>>, 1, 0) = <<>> /\ Len(<<>>) = 0
      BY SubSeqEmpty
    <3>3. Len(<<>>) <= Len(x) /\ SubSeq(<<>>, 1, Len(<<>>)) = SubSeq(x, 1, Len(<<>>))
      BY <3>1, <3>2
    <3> QED  BY <3>3 DEF IsPrefix
  <2>3. Shared(0)
    BY <2>1, <2>2
  <2> QED  BY <2>3, <1>2
<1>4. PICK m \in K : \A j \in K : j <= m
  <2>1. K \subseteq 0 .. Len(n)
    OBVIOUS
  <2> HIDE DEF K
  <2> QED  BY <2>1, <1>2, <1>3, GreatestExists
<1>5. Good(m)
  <2>1. m < Len(n) => m + 1 \in 0 .. Len(n) /\ m + 1 \notin K
    BY <1>2, <1>4
  <2> QED  BY <2>1, <1>4
<1>6. k \in 0 .. Len(n)
  <2>1. m \in 0 .. Len(n)
    BY <1>4
  <2> HIDE DEF Good
  <2> QED  BY <1>5, <2>1
<1>7. Common(ns) = SubSeq(n, 1, k)
  BY DEF Common, n
<1> HIDE DEF k
<1> QED  BY <1>2, <1>6, <1>7, PieceIsLine

-----------------------------------------------------------------------------
LEMMA ReplStarts == ReplInit => ReplInv
<1> SUFFICES ASSUME ReplInit PROVE ReplInv
  OBVIOUS
<1>1. <<>> \in Line /\ <<>> \in Seq(Line) /\ Len(<<>>) = 0
  BY DEF Line
<1>2. ReplTypeOK
  BY <1>1, ReplAssumption DEF ReplInit, ReplTypeOK
<1>3. HistoryIsLog
  <2>1. SubSeq(<<>>, 1, 0) = <<>>
    BY SubSeqEmpty
  <2> QED  BY <1>1, <2>1, ReplAssumption DEF ReplInit, HistoryIsLog
<1> QED  BY <1>2, <1>3 DEF ReplInit, ReplInv, ScreenIsInput, CookedOutside

(* A key that edits the line: the screen may differ from it only when it   *)
(* shows a break.                                                          *)
LEMMA EditKeeps ==
  ASSUME ReplInv, Press, Stays, input' \in Line, screen' \in Line, Len(input') <= MaxInput + 1,
         browse' \in 0 .. Len(history), Broken(screen') \/ screen' = input'
  PROVE  ReplInv'
<1>1. presses' \in 0 .. MaxPresses
  BY ReplAssumption DEF Press, ReplInv, ReplTypeOK
<1>2. ReplTypeOK'
  BY <1>1 DEF Stays, ReplInv, ReplTypeOK
<1>3. ScreenIsInput'
  BY DEF ScreenIsInput, Broken
<1>4. CookedOutside' /\ HistoryIsLog'
  BY DEF Stays, ReplInv, CookedOutside, HistoryIsLog
<1> QED  BY <1>2, <1>3, <1>4 DEF ReplInv

LEMMA Shown ==
  ASSUME ReplInv, Press
  PROVE  /\ input \in Line /\ screen \in Line /\ Len(input) \in Nat /\ Len(input) < MaxInput
         /\ history \in Seq(Line) /\ browse \in 0 .. Len(history)
         /\ Broken(screen) \/ screen = input
         /\ MaxInput \in Nat /\ MaxInput > 1
  BY ReplAssumption DEF ReplInv, ReplTypeOK, Press, ScreenIsInput, Broken, Line

LEMMA TypeCharKeeps == ASSUME ReplInv, TypeChar PROVE ReplInv'
<1>1. PICK c \in Char : /\ Press /\ input' = Append(input, c) /\ screen' = Append(screen, c)
                        /\ browse' = browse /\ Stays
  BY DEF TypeChar
<1>2. input' \in Line /\ screen' \in Line /\ Len(input') <= MaxInput
  BY <1>1, Shown DEF Line
<1>3. Broken(screen') \/ screen' = input'
  <2>1. \A s \in Line : Broken(s) => Broken(Append(s, c))
    BY DEF Broken, Line
  <2> QED  BY <1>1, <2>1, Shown
<1> QED  BY <1>1, <1>2, <1>3, Shown, EditKeeps

LEMMA BackspaceKeeps == ASSUME ReplInv, Backspace PROVE ReplInv'
<1>1. Press /\ Stays /\ browse' = browse
  BY DEF Backspace
<1>2. CASE input = <<>>
  <2>1. input' = input /\ screen' = screen
    BY <1>2 DEF Backspace
  <2> QED  BY <1>1, <2>1, Shown, EditKeeps
<1>3. CASE input # <<>>
  <2>1. input' = SubSeq(input, 1, Len(input) - 1) /\ screen' = Erased(screen, 1)
    BY <1>3 DEF Backspace, Front
  <2>2. Len(input) >= 1
    BY <1>1, <1>3, Shown DEF Line
  <2>3. input' \in Line /\ Len(input') <= MaxInput
    <3> DEFINE n == Len(input) - 1
    <3>1. n \in Nat /\ n <= Len(input) /\ n <= MaxInput /\ 1 \in Int /\ 1 >= 1
      BY <1>1, <2>2, Shown
    <3> HIDE DEF n
    <3>2. SubSeq(input, 1, n) \in Line /\ Len(SubSeq(input, 1, n)) = IF 1 <= n THEN n - 1 + 1 ELSE 0
      BY <1>1, <3>1, Shown, PieceIsLine
    <3> QED  BY <2>1, <3>1, <3>2 DEF n
  <2>4. screen' \in Line
    BY <1>1, <2>1, Shown, ErasedIsLine
  <2>5. CASE Broken(screen)
    <3>1. Broken(screen')
      BY <1>1, <2>1, <2>5, Shown, ErasedIsLine
    <3> QED  BY <3>1, <1>1, <2>3, <2>4, Shown, EditKeeps
  <2>6. CASE ~Broken(screen)
    <3>1. screen = input
      BY <1>1, <2>6, Shown
    <3>2. Erased(screen, 1) = SubSeq(screen, 1, Len(screen) - (IF 1 < Len(screen) THEN 1 ELSE Len(screen)))
      BY <1>1, <2>6, Shown, ErasedIsLine
    <3>3. Len(screen) - (IF 1 < Len(screen) THEN 1 ELSE Len(screen)) = Len(input) - 1
      BY <1>1, <3>1, <2>2, Shown
    <3>4. screen' = input'
      BY <2>1, <3>1, <3>2, <3>3
    <3> QED  BY <3>4, <1>1, <2>3, <2>4, Shown, EditKeeps
  <2> QED  BY <2>5, <2>6
<1> QED  BY <1>2, <1>3

(* Erasing the whole line leaves nothing of an unbroken screen. *)
LEMMA WholeErased ==
  ASSUME ReplInv, Press
  PROVE  /\ Erased(screen, Len(input)) \in Line
         /\ Broken(Erased(screen, Len(input))) \/ Erased(screen, Len(input)) = <<>>
<1>1. /\ Erased(screen, Len(input)) \in Line
      /\ Broken(screen) => Broken(Erased(screen, Len(input)))
      /\ ~Broken(screen) => Erased(screen, Len(input))
            = SubSeq(screen, 1, Len(screen) - (IF Len(input) < Len(screen) THEN Len(input) ELSE Len(screen)))
  BY Shown, ErasedIsLine
<1>2. CASE ~Broken(screen)
  <2>1. screen = input
    BY <1>2, Shown
  <2>2. Len(screen) - (IF Len(input) < Len(screen) THEN Len(input) ELSE Len(screen)) = 0
    BY <2>1, Shown
  <2>3. SubSeq(screen, 1, 0) = <<>>
    BY SubSeqEmpty
  <2> QED  BY <1>1, <1>2, <2>2, <2>3
<1> QED  BY <1>1, <1>2

(* What an arrow puts into the buffer fills it at most, but for what lies  *)
(* behind its end.                                                         *)
LEMMA RecalledIsLine ==
  ASSUME NEW entry \in Line, NEW got \in Recalled(entry)
  PROVE  got \in Line /\ Len(got) <= MaxInput + 1
<1>1. MaxInput \in Nat /\ MaxInput > 1 /\ Len(entry) \in Nat
  BY ReplAssumption DEF Line
<1>2. CASE Len(entry) < MaxInput
  BY <1>1, <1>2 DEF Recalled
<1>3. CASE ~(Len(entry) < MaxInput)
  <2>1. PICK rest \in {<<>>} \cup {<<c>> : c \in Char} : got = SubSeq(entry, 1, MaxInput) \o rest
    BY <1>3 DEF Recalled
  <2>2. rest \in Line /\ Len(rest) <= 1
    <3>1. CASE rest = <<>>
      BY <3>1 DEF Line
    <3>2. CASE \E c \in Char : rest = <<c>>
      BY <3>2 DEF Line
    <3> QED  BY <2>1, <3>1, <3>2
  <2> DEFINE cut == SubSeq(entry, 1, MaxInput)
  <2>3. 1 \in Int /\ 1 >= 1 /\ MaxInput \in Int /\ MaxInput <= Len(entry)
    BY <1>1, <1>3
  <2>4. cut \in Line /\ Len(cut) = IF 1 <= MaxInput THEN MaxInput - 1 + 1 ELSE 0
    BY <2>3, PieceIsLine
  <2> HIDE DEF cut
  <2>5. Len(cut) = MaxInput
    BY <1>1, <2>4
  <2>6. cut \o rest \in Line /\ Len(cut \o rest) = Len(cut) + Len(rest) /\ Len(rest) \in Nat
    BY <2>2, <2>4 DEF Line
  <2>7. got = cut \o rest
    BY <2>1 DEF cut
  <2> QED  BY <1>1, <2>2, <2>5, <2>6, <2>7
<1> QED  BY <1>2, <1>3

LEMMA RecallKeeps ==
  ASSUME ReplInv, Press, Stays, NEW i \in 1 .. Len(history), Recall(i)
  PROVE  ReplInv'
<1>1. /\ browse' = i /\ input' \in Recalled(history[i])
      /\ screen' = Erased(screen, Len(input)) \o input'
  BY DEF Recall
<1>2. history[i] \in Line /\ i \in 0 .. Len(history)
  BY Shown
<1>3. input' \in Line /\ Len(input') <= MaxInput + 1
  BY <1>1, <1>2, RecalledIsLine
<1>4. \A s \in Line, t \in Line : /\ s \o t \in Line /\ <<>> \o t = t
                                  /\ Broken(s) => Broken(s \o t)
  BY DEF Line, Broken
<1>5. screen' \in Line /\ (Broken(screen') \/ screen' = input')
  <2> DEFINE left == Erased(screen, Len(input))
  <2>1. left \in Line /\ (Broken(left) \/ left = <<>>)
    BY WholeErased
  <2>2. screen' = left \o input'
    BY <1>1
  <2> HIDE DEF left
  <2> QED  BY <1>3, <1>4, <2>1, <2>2
<1> QED  BY <1>1, <1>2, <1>3, <1>5, EditKeeps

LEMMA ArrowKeeps == ASSUME ReplInv, UpArrow \/ DownArrow PROVE ReplInv'
<1>0. Press /\ Stays
  BY DEF UpArrow, DownArrow
<1>a. Len(history) \in Nat
  BY <1>0, Shown DEF Line
<1>1. CASE UpArrow
  <2> DEFINE i == IF browse = 0 THEN Len(history) ELSE IF browse > 1 THEN browse - 1 ELSE browse
  <2>1. history # <<>> /\ Recall(i)
    BY <1>1 DEF UpArrow
  <2>2. Len(history) > 0
    BY <2>1, <1>0, Shown DEF Line
  <2>3. i \in 1 .. Len(history)
    BY <2>2, <1>0, <1>a, Shown
  <2> HIDE DEF i
  <2> QED  BY <1>0, <2>1, <2>3, RecallKeeps
<1>2. CASE DownArrow
  <2>1. CASE browse < Len(history) /\ Recall(browse + 1)
    <3> DEFINE i == browse + 1
    <3>1. i \in 1 .. Len(history)
      BY <2>1, <1>0, <1>a, Shown
    <3>2. Recall(i)
      BY <2>1
    <3> HIDE DEF i
    <3> QED  BY <1>0, <3>1, <3>2, RecallKeeps
  <2>2. CASE browse' = 0 /\ input' = <<>> /\ screen' = Erased(screen, Len(input))
    <3>1. input' \in Line /\ Len(input') <= MaxInput + 1 /\ browse' \in 0 .. Len(history)
      BY <2>2, <1>0, <1>a, Shown DEF Line
    <3>2. screen' \in Line /\ (Broken(screen') \/ screen' = input')
      BY <2>2, <1>0, WholeErased
    <3> QED  BY <1>0, <3>1, <3>2, EditKeeps
  <2> QED  BY <1>2, <2>1, <2>2 DEF DownArrow
<1> QED  BY <1>1, <1>2

LEMMA TabKeeps == ASSUME ReplInv, TabKey PROVE ReplInv'
<1> DEFINE ms   == Matches(input)
           word == LastWord(input)
           more == IF ms = {} THEN <<>>
                   ELSE IF Cardinality(ms) = 1
                     THEN Append(SubSeq(Common(ms), Len(word) + 1, Len(Common(ms))), Blank)
                     ELSE SubSeq(Common(ms), Len(word) + 1, Len(Common(ms)))
           room == (MaxInput - 1) - Len(input)
           n    == IF Len(more) <= room THEN Len(more) ELSE room
           fits == SubSeq(more, 1, n)
<1>1. /\ Press /\ Stays /\ browse' = browse /\ input' = input \o fits
      /\ screen' = IF Cardinality(ms) > 1 /\ more = <<>> /\ tabs > 0
                     THEN input ELSE screen \o fits
  BY DEF TabKey
<1>2. word \in Line
  BY <1>1, Shown, AfterLastIsLine DEF LastWord
<1>3. ms # {} => Common(ms) \in Line
  BY CommonIsLine DEF Matches
<1> HIDE DEF ms, word
<1>4. more \in Line
  <2>1. <<>> \in Line
    BY DEF Line
  <2>2. ASSUME ms # {} PROVE SubSeq(Common(ms), Len(word) + 1, Len(Common(ms))) \in Line
    <3> DEFINE k == Len(word) + 1
    <3>1. k \in Int /\ k >= 1 /\ Len(Common(ms)) \in Int /\ Len(Common(ms)) <= Len(Common(ms))
      BY <1>2, <1>3, <2>2 DEF Line
    <3> HIDE DEF k
    <3>2. SubSeq(Common(ms), k, Len(Common(ms))) \in Line
      BY <1>3, <2>2, <3>1, PieceIsLine
    <3> QED  BY <3>2 DEF k
  <2>3. \A l \in Line : Append(l, Blank) \in Line
    BY DEF Line
  <2> QED  BY <2>1, <2>2, <2>3
<1> HIDE DEF more
<1>5. n \in Nat /\ n <= Len(more) /\ n <= room /\ room \in Nat
  BY <1>1, <1>4, Shown DEF Line
<1> HIDE DEF n
<1>6. fits \in Line /\ Len(fits) = n
  <2>1. 1 \in Int /\ 1 >= 1 /\ n \in Int
    BY <1>5
  <2>2. fits \in Line /\ Len(fits) = IF 1 <= n THEN n - 1 + 1 ELSE 0
    BY <1>4, <1>5, <2>1, PieceIsLine
  <2> HIDE DEF fits
  <2> QED  BY <2>2, <1>5
<1>7. more = <<>> => fits = <<>>
  <2>1. more = <<>> => n = 0
    BY <1>5, EmptySeq
  <2>2. SubSeq(more, 1, 0) = <<>>
    BY SubSeqEmpty
  <2> QED  BY <2>1, <2>2
<1> HIDE DEF fits
<1>8. \A s \in Line, t \in Line : /\ s \o t \in Line /\ Len(s \o t) = Len(s) + Len(t)
                                  /\ s \o <<>> = s
                                  /\ Broken(s) => Broken(s \o t)
  BY DEF Line, Broken
<1>9. input' \in Line /\ Len(input') <= MaxInput + 1
  <2>1. Len(input') = Len(input) + n
    BY <1>1, <1>6, <1>8, Shown
  <2>2. Len(input) + n <= MaxInput + 1
    BY <1>1, <1>5, Shown
  <2> QED  BY <1>1, <1>6, <1>8, <2>1, <2>2, Shown
<1>10. screen' \in Line /\ (Broken(screen') \/ screen' = input')
  <2>1. CASE screen' = input /\ more = <<>>
    BY <2>1, <1>1, <1>7, <1>8, Shown
  <2>2. CASE screen' = screen \o fits
    BY <2>2, <1>1, <1>6, <1>8, Shown
  <2> QED  BY <2>1, <2>2, <1>1
<1> QED  BY <1>1, <1>9, <1>10, Shown, EditKeeps

-----------------------------------------------------------------------------
(* A line is submitted: the history stays the end of the log. *)
LEMMA SubmitKeeps ==
  ASSUME ReplInv, NEW line \in Line, Submit(line)
  PROVE  /\ history' \in Seq(Line) /\ Len(history') <= MaxHistory
         /\ entered' \in Seq(Line) /\ HistoryIsLog'
<1> DEFINE e == Len(entered)
           n == IF e < MaxHistory THEN e ELSE MaxHistory
           k == Len(history)
<1>1. /\ history' = Added(history, line)
      /\ entered' = IF entered # <<>> /\ Last(entered) = line THEN entered
                    ELSE Append(entered, line)
  BY DEF Submit
<1>2. /\ history \in Seq(Line) /\ entered \in Seq(Line) /\ e \in Nat /\ k \in Nat
      /\ MaxHistory \in Nat /\ MaxHistory > 0 /\ n \in Nat
  BY ReplAssumption DEF ReplInv, ReplTypeOK
<1>n. n <= e /\ (e < MaxHistory => n = e) /\ (e >= MaxHistory => n = MaxHistory)
  BY <1>2
<1>3. k = n /\ \A i \in 1 .. n : history[i] = entered[e - n + i]
  <2> DEFINE f == e - n + 1
  <2>1. history = SubSeq(entered, f, e)
    BY DEF ReplInv, HistoryIsLog
  <2>3. \A i \in f .. e : entered[i] \in Line
    BY <1>2, <1>n
  <2> HIDE DEF e, n
  <2>2. f \in Int /\ e \in Int /\ f >= 1 /\ f <= e + 1 /\ e - f + 1 = n
    BY <1>2, <1>n
  <2> HIDE DEF f
  <2>4. /\ Len(SubSeq(entered, f, e)) = IF f <= e THEN e - f + 1 ELSE 0
        /\ \A i \in 1 .. e - f + 1 : SubSeq(entered, f, e)[i] = entered[f + i - 1]
    BY <2>2, <2>3, SubSeqProperties
  <2>5. k = n
    BY <2>1, <2>2, <2>4
  <2>6. ASSUME NEW i \in 1 .. n PROVE history[i] = entered[e - n + i]
    <3>1. f + i - 1 = e - n + i
      BY <1>2, <2>2
    <3> QED  BY <2>1, <2>2, <2>4, <3>1
  <2> QED  BY <2>5, <2>6
<1>4. CASE entered # <<>> /\ Last(entered) = line
  <2>1. entered' = entered
    BY <1>1, <1>4
  <2>2. n > 0 /\ e > 0
    BY <1>2, <1>4
  <2>3. history # <<>> /\ Last(history) = line
    <3> HIDE DEF n, e, k
    <3>1. n \in 1 .. n /\ e - n + n = e
      BY <1>2, <2>2
    <3>2. history[n] = entered[e]
      BY <1>3, <3>1
    <3>3. history[k] = entered[e] /\ k > 0
      BY <1>3, <3>2, <2>2
    <3> QED  BY <3>3, <1>2, <1>4 DEF Last, e, k
  <2>4. history' = history
    BY <1>1, <2>3 DEF Added
  <2> QED  BY <2>1, <2>4, <1>2 DEF ReplInv, ReplTypeOK, HistoryIsLog
<1>5. CASE ~(entered # <<>> /\ Last(entered) = line)
  <2>1. entered' = Append(entered, line)
    BY <1>1, <1>5
  <2>2. ~(history # <<>> /\ Last(history) = line)
    <3>1. SUFFICES ASSUME history # <<>> PROVE Last(history) # line
      OBVIOUS
    <3>2. k > 0
      BY <1>2, <3>1
    <3> HIDE DEF n, e, k
    <3>3. n \in 1 .. n /\ e - n + n = e /\ e > 0
      BY <1>2, <1>n, <1>3, <3>2
    <3>4. history[n] = entered[e]
      BY <1>3, <3>3
    <3>5. history[k] = entered[e] /\ entered # <<>>
      BY <1>2, <1>3, <3>3, <3>4 DEF e
    <3> QED  BY <1>5, <3>5 DEF Last, e, k
  <2> DEFINE h == IF k >= MaxHistory THEN Tail(history) ELSE history
             w == IF e + 1 < MaxHistory THEN e + 1 ELSE MaxHistory
  <2>3. history' = Append(h, line)
    BY <1>1, <2>2 DEF Added
  <2>4. /\ h \in Seq(Line) /\ Len(h) = w - 1 /\ w \in Nat /\ w > 0
        /\ \A i \in 1 .. w - 1 : h[i] = entered[e + 1 - w + i]
    <3>1. CASE e >= MaxHistory
      <4>1. k = MaxHistory /\ n = MaxHistory /\ w = MaxHistory
        BY <3>1, <1>2, <1>3
      <4>2. h = Tail(history) /\ history # <<>>
        BY <4>1, <1>2
      <4>3. /\ Tail(history) \in Seq(Line) /\ Len(Tail(history)) = k - 1
            /\ \A i \in 1 .. Len(Tail(history)) : Tail(history)[i] = history[i + 1]
        BY <4>2, <1>2, HeadTailProperties
      <4>4. ASSUME NEW i \in 1 .. w - 1 PROVE h[i] = entered[e + 1 - w + i]
        <5>1. h[i] = history[i + 1] /\ i + 1 \in 1 .. n
          BY <4>1, <4>2, <4>3, <1>2
        <5>2. history[i + 1] = entered[e - n + (i + 1)]
          BY <5>1, <1>3
        <5>3. e - n + (i + 1) = e + 1 - w + i
          <6> HIDE DEF w, n, e
          <6> QED  BY <4>1, <1>2
        <5> QED  BY <5>1, <5>2, <5>3
      <4>5. Len(h) = w - 1 /\ w \in Nat /\ w > 0
        BY <4>1, <4>2, <4>3, <1>2
      <4> HIDE DEF h, w
      <4> QED  BY <4>2, <4>3, <4>4, <4>5
    <3>2. CASE e < MaxHistory
      <4>1. n = e /\ w = e + 1 /\ k = e
        BY <3>2, <1>2, <1>3
      <4>2. h = history
        BY <4>1, <3>2, <1>2
      <4>3. ASSUME NEW i \in 1 .. w - 1 PROVE h[i] = entered[e + 1 - w + i]
        <5>1. i \in 1 .. n /\ e - n + i = i /\ e + 1 - w + i = i
          BY <4>1, <1>2
        <5>2. history[i] = entered[i]
          BY <5>1, <1>3
        <5> QED  BY <5>1, <5>2, <4>2
      <4>4. Len(h) = w - 1 /\ w \in Nat /\ w > 0
        BY <4>1, <4>2, <1>2
      <4>5. h \in Seq(Line)
        BY <4>2, <1>2
      <4> HIDE DEF h, w
      <4>6. \A i \in 1 .. w - 1 : h[i] = entered[e + 1 - w + i]
        BY <4>3
      <4> QED  BY <4>4, <4>5, <4>6
    <3>3. e < MaxHistory \/ e >= MaxHistory
      BY <1>2
    <3> HIDE DEF h, w, e, n
    <3> QED  BY ONLY <3>1, <3>2, <3>3
  <2> HIDE DEF h
  <2>5. /\ history' \in Seq(Line) /\ Len(history') = w
        /\ \A i \in 1 .. w - 1 : history'[i] = h[i]
        /\ history'[w] = line
    <3>1. /\ Append(h, line) \in Seq(Line) /\ Len(Append(h, line)) = Len(h) + 1
          /\ \A i \in 1 .. Len(h) : Append(h, line)[i] = h[i]
          /\ Append(h, line)[Len(h) + 1] = line
      BY <2>4, AppendProperties
    <3>2. Len(h) + 1 = w
      BY <2>4
    <3> HIDE DEF w
    <3> QED  BY <2>3, <2>4, <3>1, <3>2
  <2>6. /\ entered' \in Seq(Line) /\ Len(entered') = e + 1
        /\ \A i \in 1 .. e : entered'[i] = entered[i]
        /\ entered'[e + 1] = line
    BY <2>1, <1>2, AppendProperties
  <2>7. w <= MaxHistory /\ w <= e + 1
    BY <1>2
  <2>8. ASSUME NEW i \in 1 .. w PROVE history'[i] = entered'[e + 1 - w + i]
    <3>1. CASE i = w
      <4>1. e + 1 - w + i = e + 1
        BY <3>1, <2>4, <1>2
      <4> QED  BY <3>1, <4>1, <2>5, <2>6
    <3>2. CASE i # w
      <4>1. i \in 1 .. w - 1 /\ e + 1 - w + i \in 1 .. e
        BY <3>2, <2>4, <2>7, <1>2
      <4> HIDE DEF w
      <4> QED  BY <4>1, <2>4, <2>5, <2>6
    <3> QED  BY <3>1, <3>2
  <2>9. HistoryIsLog'
    <3> DEFINE f == e + 1 - w + 1
               g == e + 1
               s == SubSeq(entered', f, g)
    <3> HIDE DEF w, e
    <3>1. f \in Int /\ g \in Int /\ f >= 1 /\ f <= g /\ g - f + 1 = w
      BY <1>2, <2>4, <2>7
    <3>2. \A i \in f .. g : entered'[i] \in Line
      BY <2>6, <3>1
    <3> HIDE DEF f, g
    <3>3. /\ s \in Seq(Line)
          /\ Len(s) = IF f <= g THEN g - f + 1 ELSE 0
          /\ \A i \in 1 .. g - f + 1 : s[i] = entered'[f + i - 1]
      BY <3>1, <3>2, SubSeqProperties
    <3>4. Len(s) = w
      BY <3>1, <3>3
    <3>5. ASSUME NEW i \in 1 .. w PROVE history'[i] = s[i]
      <4>1. f + i - 1 = e + 1 - w + i
        BY <1>2, <2>4 DEF f
      <4> QED  BY <2>8, <3>1, <3>3, <4>1
    <3> HIDE DEF s
    <3>6. history' = s
      BY <2>5, <3>3, <3>4, <3>5, SeqEqual
    <3>7. history' = SubSeq(entered', Len(entered') - w + 1, Len(entered'))
      <4>1. f = Len(entered') - w + 1 /\ g = Len(entered')
        BY <2>6, <2>4, <1>2 DEF f, g
      <4> QED  BY <3>6, <4>1 DEF s
    <3>8. w = IF Len(entered') < MaxHistory THEN Len(entered') ELSE MaxHistory
      BY <2>6 DEF w
    <3> QED  BY <3>7, <3>8 DEF HistoryIsLog
  <2> QED  BY <2>5, <2>6, <2>7, <2>9
<1> QED  BY <1>4, <1>5

(* A line is left: it is skipped, collected or submitted. *)
LEMMA LeaveKeeps ==
  ASSUME ReplInv, doing' # "read", doing' \in {"prompt", "read", "run", "left"},
         tty' = "cooked", UNCHANGED <<input, screen>>,
         errno' \in {"other", "EINTR"}, presses' \in 0 .. MaxPresses,
         \/ \E line \in Line : Submit(line)
         \/ \E text \in Line : Again(text)
         \/ UNCHANGED <<pending, history, entered>>
  PROVE  ReplInv'
<1>0. <<>> \in Line
  BY DEF Line
<1>1. ScreenIsInput' /\ CookedOutside'
  BY DEF ScreenIsInput, CookedOutside
<1>2. CASE \E line \in Line : Submit(line)
  <2>1. PICK line \in Line : Submit(line)
    BY <1>2
  <2>2. /\ history' \in Seq(Line) /\ Len(history') <= MaxHistory
        /\ entered' \in Seq(Line) /\ HistoryIsLog'
    BY <2>1, SubmitKeeps
  <2>3. pending' \in Line
    BY <2>1, <1>0 DEF Submit
  <2>4. ReplTypeOK'
    BY <2>2, <2>3 DEF ReplInv, ReplTypeOK
  <2> QED  BY <1>1, <2>2, <2>4 DEF ReplInv
<1>3. CASE \E text \in Line : Again(text)
  <2>1. ReplTypeOK'
    BY <1>3 DEF Again, ReplInv, ReplTypeOK
  <2>2. HistoryIsLog'
    BY <1>3 DEF Again, ReplInv, HistoryIsLog
  <2> QED  BY <1>1, <2>1, <2>2 DEF ReplInv
<1>4. CASE UNCHANGED <<pending, history, entered>>
  <2>1. ReplTypeOK'
    BY <1>4 DEF ReplInv, ReplTypeOK
  <2>2. HistoryIsLog'
    BY <1>4 DEF ReplInv, HistoryIsLog
  <2> QED  BY <1>1, <2>1, <2>2 DEF ReplInv
<1> QED  BY <1>2, <1>3, <1>4

LEMMA ReturnedKeeps ==
  ASSUME ReplInv, NEW line \in Line, Returned(line),
         errno' \in {"other", "EINTR"}, presses' \in 0 .. MaxPresses
  PROVE  ReplInv'
<1> DEFINE text == IF pending = <<>> THEN line ELSE pending \o <<NL>> \o line
<1>1. text \in Line /\ <<>> \in Line
  <2>1. pending \in Line /\ <<NL>> \in Line /\ <<>> \in Line
    BY DEF ReplInv, ReplTypeOK, Line
  <2>2. \A s, t \in Line : s \o t \in Line
    BY DEF Line
  <2> QED  BY <2>1, <2>2
<1>2. tty' = "cooked" /\ UNCHANGED <<input, screen>>
  BY DEF Returned
<1>3. \/ Again(<<>>)
      \/ Submit(text)
      \/ Again(text)
      \/ Submit(pending)
      \/ Submit(line)
  BY DEF Returned
<1>5. pending \in Line
  BY DEF ReplInv, ReplTypeOK
<1> HIDE DEF text
<1>4. /\ doing' # "read" /\ doing' \in {"prompt", "read", "run", "left"}
      /\ \/ \E l \in Line : Submit(l)
         \/ \E t \in Line : Again(t)
  <2>1. doing' \in {"prompt", "run"}
    BY <1>3 DEF Again, Submit
  <2> QED  BY <2>1, <1>1, <1>3, <1>5
<1> QED  BY <1>2, <1>4, LeaveKeeps

LEMMA EndKeeps ==
  ASSUME ReplInv, EnterKey \/ LineFull \/ CtrlC \/ CtrlD \/ Interrupted
  PROVE  ReplInv'
<1>1. presses' \in 0 .. MaxPresses
  BY ReplAssumption
  DEF ReplInv, ReplTypeOK, Press, EnterKey, LineFull, CtrlC, CtrlD, Interrupted
<1>2. input \in Line /\ <<>> \in Line /\ pending \in Line /\ errno \in {"other", "EINTR"}
  BY DEF ReplInv, ReplTypeOK, Line
<1>3. CASE EnterKey
  BY <1>1, <1>2, <1>3, ReturnedKeeps DEF EnterKey
<1>4. CASE LineFull
  BY <1>1, <1>2, <1>4, ReturnedKeeps DEF LineFull
<1>5. CASE CtrlC
  BY <1>1, <1>2, <1>5, ReturnedKeeps DEF CtrlC
<1>6. CASE Interrupted
  <2>1. Returned(input) /\ errno' \in {"other", "EINTR"}
    BY <1>6 DEF Interrupted
  <2> QED  BY <2>1, <1>1, <1>2, ReturnedKeeps
<1>7. CASE CtrlD
  <2>1. Press
    BY <1>7 DEF CtrlD
  <2>2. CASE input # <<>>
    <3>1. input' = input /\ screen' = screen /\ browse' = browse /\ Stays
      BY <1>7, <2>2 DEF CtrlD
    <3> QED  BY <2>1, <3>1, Shown, EditKeeps
  <2>3. CASE input = <<>>
    <3>1. /\ tty' = "cooked" /\ UNCHANGED <<input, screen>> /\ errno' = errno
          /\ \/ Submit(pending)
             \/ Again(<<>>)
             \/ doing' = "left" /\ UNCHANGED <<pending, history, entered>>
      BY <1>7, <2>3 DEF CtrlD
    <3>2. doing' \in {"run", "prompt", "left"}
      BY <3>1 DEF Submit, Again
    <3> QED  BY <1>1, <1>2, <3>1, <3>2, LeaveKeeps
  <2> QED  BY <2>2, <2>3
<1> QED  BY <1>3, <1>4, <1>5, <1>6, <1>7

LEMMA PromptKeeps == ASSUME ReplInv, Prompt PROVE ReplInv'
<1>1. <<>> \in Line /\ Len(<<>>) = 0 /\ Len(history) \in Nat
  BY DEF Line, ReplInv, ReplTypeOK
<1>2. ReplTypeOK'
  BY <1>1, ReplAssumption DEF Prompt, ReplInv, ReplTypeOK
<1>3. ScreenIsInput' /\ CookedOutside' /\ HistoryIsLog'
  BY DEF Prompt, ReplInv, ScreenIsInput, CookedOutside, HistoryIsLog
<1> QED  BY <1>2, <1>3 DEF ReplInv

LEMMA RunKeeps == ASSUME ReplInv, RunCommand \/ ClearHistory PROVE ReplInv'
<1>1. CASE RunCommand
  <2>1. ReplTypeOK'
    BY <1>1 DEF RunCommand, ReplInv, ReplTypeOK
  <2>2. ScreenIsInput' /\ CookedOutside' /\ HistoryIsLog'
    BY <1>1 DEF RunCommand, ReplInv, ScreenIsInput, CookedOutside, HistoryIsLog
  <2> QED  BY <2>1, <2>2 DEF ReplInv
<1>2. CASE ClearHistory
  <2>0. <<>> \in Seq(Line) /\ Len(<<>>) = 0
    OBVIOUS
  <2>1. ReplTypeOK'
    BY <1>2, <2>0, ReplAssumption DEF ClearHistory, ReplInv, ReplTypeOK
  <2>2. ScreenIsInput' /\ CookedOutside'
    BY <1>2 DEF ClearHistory, ReplInv, ScreenIsInput, CookedOutside
  <2>3. HistoryIsLog'
    <3>1. SubSeq(<<>>, 1, 0) = <<>>
      BY SubSeqEmpty
    <3> QED  BY <1>2, <2>0, <3>1, ReplAssumption DEF ClearHistory, HistoryIsLog
  <2> QED  BY <2>1, <2>2, <2>3 DEF ReplInv
<1> QED  BY <1>1, <1>2

LEMMA CtrlZKeeps == ASSUME ReplInv, CtrlZ PROVE ReplInv'
<1>1. Press /\ Stays /\ screen' = input /\ input' = input /\ browse' = browse
  BY DEF CtrlZ
<1> QED  BY <1>1, Shown, EditKeeps

(* The line that Enter runs is the one on the screen, no way out of the    *)
(* editor leaves the terminal raw, and the history is the end of what was  *)
(* submitted: for any keys, names to complete and limits.                  *)
THEOREM LineIsAsShown == ReplSpec => []ReplInv
<1>1. ReplInv /\ ReplNext => ReplInv'
  BY PromptKeeps, TypeCharKeeps, BackspaceKeeps, ArrowKeeps, TabKeeps, EndKeeps, CtrlZKeeps,
     RunKeeps
  DEF ReplNext
<1>2. ReplInv /\ UNCHANGED replVars => ReplInv'
  BY DEF replVars, ReplInv, ReplTypeOK, ScreenIsInput, CookedOutside, HistoryIsLog
<1> QED  BY <1>1, <1>2, ReplStarts, PTL DEF ReplSpec

(***************************************************************************)
(* The game.  HeroInv is inductive: each command turns a hero that adds up *)
(* into one that does.                                                     *)
(***************************************************************************)
(* A hero is not an empty file. *)
LEMMA HeroIsNoHole == \A h \in HeroState : h # <<>>
<1> SUFFICES ASSUME NEW h \in HeroState PROVE h # <<>>
  OBVIOUS
<1>1. "level" \in DOMAIN h
  BY DEF HeroState
<1> QED  BY <1>1

LEMMA NewHeroAddsUp == NewHero \in HeroState /\ AddsUp(NewHero)
<1>1. NewHero \in HeroState
  BY HeroAssumption DEF NewHero, HeroState, Price
<1>2. AddsUp(NewHero)
  BY DEF NewHero, AddsUp, Owns, XpNeeded
<1> QED  BY <1>1, <1>2

LEMMA LoadedAddsUp ==
  ASSUME HeroInv
  PROVE  Loaded \in HeroState /\ AddsUp(Loaded)
  BY NewHeroAddsUp DEF HeroInv, HeroTypeOK, HeroAddsUp, Loaded

(* A level up keeps what a hero is; only the experience was too much.      *)
LEMMA LeveledAddsUp ==
  ASSUME NEW h \in HeroState, h.xp < XpNeeded([h EXCEPT !.level = @ + 1]) + XpNeeded(h),
         \A x \in Nat : x < XpNeeded(h) => AddsUp([h EXCEPT !.xp = x])
  PROVE  Leveled(h) \in HeroState /\ AddsUp(Leveled(h)) /\ Leveled(h).gold = h.gold
         /\ Leveled(h).mined = h.mined
<1>0. XpNeeded(h) \in Nat
  BY DEF XpNeeded, HeroState
<1>1. CASE h.xp < XpNeeded(h)
  <2>1. [h EXCEPT !.xp = h.xp] = h
    BY DEF HeroState
  <2>2. h.xp \in Nat
    BY DEF HeroState
  <2> QED  BY <1>1, <2>1, <2>2 DEF Leveled
<1>2. CASE ~(h.xp < XpNeeded(h))
  <2> DEFINE l == [h EXCEPT !.xp = @ - XpNeeded(h), !.level = @ + 1, !.points = @ + 1,
                            !.maxHp = @ + 10, !.hp = h.maxHp + 10,
                            !.maxMana = @ + 5, !.mana = h.maxMana + 5]
             z == [h EXCEPT !.xp = 0]
  <2>1. Leveled(h) = l
    BY <1>2 DEF Leveled
  <2>2. l \in HeroState
    <3>1. /\ h.xp - XpNeeded(h) \in Nat /\ h.level + 1 \in Nat /\ h.points + 1 \in Int
          /\ h.maxHp + 10 \in Int /\ h.maxMana + 5 \in Int
      BY <1>0, <1>2 DEF HeroState
    <3> QED  BY <3>1 DEF HeroState
  <2>3. 0 < XpNeeded(h)
    BY DEF XpNeeded, HeroState
  <2>4. AddsUp(z)
    BY <2>3
  <2>5. XpNeeded(l) = XpNeeded([h EXCEPT !.level = @ + 1])
    BY DEF XpNeeded, HeroState
  <2>6. /\ l.xp = h.xp - XpNeeded(h) /\ l.level = h.level + 1 /\ l.points = h.points + 1
        /\ l.maxHp = h.maxHp + 10 /\ l.hp = h.maxHp + 10 /\ l.maxMana = h.maxMana + 5
        /\ l.mana = h.maxMana + 5 /\ l.gold = h.gold /\ l.gear = h.gear /\ l.mining = h.mining
        /\ l.toughness = h.toughness /\ l.expansion = h.expansion /\ l.pet = h.pet
        /\ l.petLevel = h.petLevel /\ l.love = h.love /\ l.mined = h.mined
    BY DEF HeroState
  <2>7. /\ z.level = h.level /\ z.points = h.points
        /\ z.maxHp = h.maxHp /\ z.hp = h.hp /\ z.maxMana = h.maxMana
        /\ z.mana = h.mana /\ z.gold = h.gold /\ z.gear = h.gear /\ z.mining = h.mining
        /\ z.toughness = h.toughness /\ z.expansion = h.expansion /\ z.pet = h.pet
        /\ z.petLevel = h.petLevel /\ z.love = h.love
    BY DEF HeroState
  <2>8. AddsUp(l)
    <3>1. l.xp < XpNeeded(l)
      BY <2>5, <2>6, <1>0 DEF XpNeeded, HeroState
    <3> HIDE DEF l, z
    <3> QED  BY <3>1, <2>4, <2>6, <2>7 DEF AddsUp, Owns, HeroState
  <2> QED  BY <2>1, <2>2, <2>6, <2>8
<1> QED  BY <1>1, <1>2

LEMMA FoundIsNat ==
  ASSUME NEW h \in HeroState, NEW y \in Yields
  PROVE  Found(h, y) \in Nat
<1>1. y \in Nat /\ 4 + h.mining \in Nat
  BY HeroAssumption DEF HeroState
<1>2. y * (4 + h.mining) \in Nat
  BY <1>1
<1>3. \A n \in Nat : n \div 4 \in Nat
  OBVIOUS
<1> QED  BY <1>2, <1>3 DEF Found

LEMMA MinedAddsUp ==
  ASSUME NEW h \in HeroState, AddsUp(h), NEW y \in Yields, NEW t \in Int
  PROVE  /\ Mined(h, y, t) \in HeroState /\ AddsUp(Mined(h, y, t))
         /\ Mined(h, y, t).gold = h.gold + Found(h, y) /\ Mined(h, y, t).mined = t
<1> DEFINE f == Found(h, y)
           m == [h EXCEPT !.xp = @ + 15 + 2 * h.level, !.gold = @ + f, !.mined = t]
<1>1. f \in Nat
  BY FoundIsNat
<1> HIDE DEF f
<1>2. m \in HeroState /\ m.gold = h.gold + f /\ m.mined = t
  <2>1. h.xp + 15 + 2 * h.level \in Nat /\ h.gold + f \in Int
    BY <1>1 DEF HeroState
  <2>2. m.gold = h.gold + f /\ m.mined = t
    BY DEF HeroState
  <2> QED  BY <2>1, <2>2 DEF HeroState
<1>3. m.xp < XpNeeded([m EXCEPT !.level = @ + 1]) + XpNeeded(m)
  BY <1>1 DEF HeroState, XpNeeded, AddsUp
<1>4. ASSUME NEW x \in Nat, x < XpNeeded(m)
      PROVE  AddsUp([m EXCEPT !.xp = x])
  <2> DEFINE z == [m EXCEPT !.xp = x]
  <2>1. /\ z.xp = x /\ z.level = h.level /\ z.points = h.points
        /\ z.maxHp = h.maxHp /\ z.hp = h.hp /\ z.maxMana = h.maxMana
        /\ z.mana = h.mana /\ z.gold = h.gold + f /\ z.gear = h.gear /\ z.mining = h.mining
        /\ z.toughness = h.toughness /\ z.expansion = h.expansion /\ z.pet = h.pet
        /\ z.petLevel = h.petLevel /\ z.love = h.love
    BY DEF HeroState
  <2>2. XpNeeded(z) = XpNeeded(m)
    BY DEF XpNeeded, HeroState
  <2> HIDE DEF z, m
  <2>3. z.xp < XpNeeded(z)
    BY <2>1, <2>2, <1>4
  <2>4. AddsUp(z)
    BY <2>1, <2>3, <1>1 DEF AddsUp, Owns, HeroState
  <2> QED  BY <2>4 DEF z
<1>5. Mined(h, y, t) = Leveled(m)
  BY DEF Mined, f
<1> HIDE DEF m
<1> QED  BY <1>2, <1>3, <1>4, <1>5, LeveledAddsUp DEF f

LEMMA BoughtAddsUp ==
  ASSUME NEW h \in HeroState, AddsUp(h), NEW g \in DOMAIN Price, g \notin h.gear,
         h.gold >= Price[g]
  PROVE  /\ Bought(h, g) \in HeroState /\ AddsUp(Bought(h, g))
         /\ Bought(h, g).gold = h.gold - Price[g] /\ Bought(h, g).mined = h.mined
<1> DEFINE hp   == CASE g = "helmet" -> 30 [] g = "armor" -> 50 [] OTHER -> 0
           mana == CASE g = "shield" -> 15 [] g = "armor" -> 20 [] OTHER -> 0
           b    == [h EXCEPT !.gold = @ - Price[g], !.gear = @ \cup {g},
                             !.maxHp = @ + hp, !.hp = @ + hp,
                             !.maxMana = @ + mana, !.mana = @ + mana]
<1>1. hp \in Nat /\ mana \in Nat /\ Price[g] \in Nat
  BY DEF Price
<1>2. /\ Owns(b, "helmet", 30) + Owns(b, "armor", 50)
           = Owns(h, "helmet", 30) + Owns(h, "armor", 50) + hp
      /\ Owns(b, "shield", 15) + Owns(b, "armor", 20)
           = Owns(h, "shield", 15) + Owns(h, "armor", 20) + mana
  <2>1. b.gear = h.gear \cup {g}
    BY DEF HeroState
  <2>2. g \in {"sword", "helmet", "shield", "armor"}
    BY DEF Price
  <2> QED  BY <2>1, <2>2 DEF Owns
<1> HIDE DEF hp, mana
<1>3. b \in HeroState
  <2>1. /\ h.gold - Price[g] \in Int /\ h.gear \cup {g} \in SUBSET DOMAIN Price
        /\ h.maxHp + hp \in Int /\ h.hp + hp \in Int
        /\ h.maxMana + mana \in Int /\ h.mana + mana \in Int
    BY <1>1 DEF HeroState
  <2> QED  BY <2>1 DEF HeroState
<1>4. /\ b.xp = h.xp /\ b.level = h.level /\ b.points = h.points
      /\ b.maxHp = h.maxHp + hp /\ b.hp = h.hp + hp /\ b.maxMana = h.maxMana + mana
      /\ b.mana = h.mana + mana /\ b.gold = h.gold - Price[g] /\ b.mining = h.mining
      /\ b.toughness = h.toughness /\ b.expansion = h.expansion /\ b.pet = h.pet
      /\ b.petLevel = h.petLevel /\ b.love = h.love /\ b.mined = h.mined
  BY DEF HeroState
<1>5. Bought(h, g) = b
  BY DEF Bought, hp, mana
<1> HIDE DEF b
<1>6. AddsUp(b)
  <2>1. XpNeeded(b) = XpNeeded(h)
    BY <1>4 DEF XpNeeded
  <2>2. /\ Owns(h, "helmet", 30) \in Nat /\ Owns(h, "armor", 50) \in Nat
        /\ Owns(h, "shield", 15) \in Nat /\ Owns(h, "armor", 20) \in Nat
        /\ Owns(b, "helmet", 30) \in Nat /\ Owns(b, "armor", 50) \in Nat
        /\ Owns(b, "shield", 15) \in Nat /\ Owns(b, "armor", 20) \in Nat
    BY DEF Owns
  <2>3. b.maxHp = 90 + 10 * b.level + 15 * b.toughness
                    + Owns(b, "helmet", 30) + Owns(b, "armor", 50)
    BY <2>2, <1>2, <1>4, <1>1 DEF AddsUp, HeroState
  <2>4. b.maxMana = 45 + 5 * b.level + 10 * b.expansion
                      + Owns(b, "shield", 15) + Owns(b, "armor", 20)
    BY <2>2, <1>2, <1>4, <1>1 DEF AddsUp, HeroState
  <2> QED  BY <2>1, <2>3, <2>4, <1>4, <1>1 DEF AddsUp, HeroState
<1> QED  BY <1>3, <1>4, <1>5, <1>6

LEMMA UpgradedAddsUp ==
  ASSUME NEW h \in HeroState, AddsUp(h), NEW k \in Skill, h.points >= 1
  PROVE  /\ Upgraded(h, k) \in HeroState /\ AddsUp(Upgraded(h, k))
         /\ Upgraded(h, k).gold = h.gold /\ Upgraded(h, k).mined = h.mined
<1> DEFINE hp   == IF k = "toughness" THEN 15 ELSE 0
           mana == IF k = "expansion" THEN 10 ELSE 0
           u    == [h EXCEPT ![k] = @ + 1, !.points = @ - 1, !.maxHp = @ + hp, !.hp = @ + hp,
                             !.maxMana = @ + mana, !.mana = @ + mana]
<1>1. k \in {"mining", "toughness", "expansion"}
  BY DEF Skill
<1>2. hp \in Nat /\ mana \in Nat
  OBVIOUS
<1>3. /\ u.xp = h.xp /\ u.level = h.level /\ u.points = h.points - 1
      /\ u.maxHp = h.maxHp + hp /\ u.hp = h.hp + hp /\ u.maxMana = h.maxMana + mana
      /\ u.mana = h.mana + mana /\ u.gold = h.gold /\ u.gear = h.gear
      /\ u.pet = h.pet /\ u.petLevel = h.petLevel /\ u.love = h.love /\ u.mined = h.mined
      /\ DOMAIN u = DOMAIN h
  BY <1>1 DEF HeroState
<1>4. /\ u.mining + u.toughness + u.expansion = h.mining + h.toughness + h.expansion + 1
      /\ 15 * u.toughness = 15 * h.toughness + hp /\ 10 * u.expansion = 10 * h.expansion + mana
      /\ u.mining \in Nat /\ u.toughness \in Nat /\ u.expansion \in Nat
  <2>1. CASE k = "mining"
    BY <2>1 DEF HeroState
  <2>2. CASE k = "toughness"
    BY <2>2 DEF HeroState
  <2>3. CASE k = "expansion"
    <3>1. u.mining = h.mining /\ u.toughness = h.toughness /\ u.expansion = h.expansion + 1
      BY <2>3 DEF HeroState
    <3>2. hp = 0 /\ mana = 10
      BY <2>3
    <3> HIDE DEF hp, mana, u
    <3> QED  BY <3>1, <3>2 DEF HeroState
  <2> QED  BY <2>1, <2>2, <2>3, <1>1
<1>5. u \in HeroState
  <2>1. /\ h.points - 1 \in Int /\ h.maxHp + hp \in Int /\ h.hp + hp \in Int
        /\ h.maxMana + mana \in Int /\ h.mana + mana \in Int
        /\ h.mining + 1 \in Nat /\ h.toughness + 1 \in Nat /\ h.expansion + 1 \in Nat
    BY <1>2 DEF HeroState
  <2> HIDE DEF hp, mana
  <2>2. CASE k = "mining"
    BY <2>1, <2>2 DEF HeroState
  <2>3. CASE k = "toughness"
    BY <2>1, <2>3 DEF HeroState
  <2>4. CASE k = "expansion"
    BY <2>1, <2>4 DEF HeroState
  <2> QED  BY <2>2, <2>3, <2>4, <1>1
<1>6. Upgraded(h, k) = u
  BY DEF Upgraded
<1> HIDE DEF hp, mana, u
<1>7. AddsUp(u)
  <2>1. XpNeeded(u) = XpNeeded(h)
    BY <1>3 DEF XpNeeded
  <2>2. \A g, n : Owns(u, g, n) = Owns(h, g, n)
    BY <1>3 DEF Owns
  <2>3. /\ Owns(h, "helmet", 30) \in Nat /\ Owns(h, "armor", 50) \in Nat
        /\ Owns(h, "shield", 15) \in Nat /\ Owns(h, "armor", 20) \in Nat
    BY DEF Owns
  <2>4. u.points >= 0 /\ u.points + u.mining + u.toughness + u.expansion = u.level - 1
    BY <1>3, <1>4 DEF AddsUp, HeroState
  <2>5. u.maxHp = 90 + 10 * u.level + 15 * u.toughness
                    + Owns(u, "helmet", 30) + Owns(u, "armor", 50)
    BY <2>2, <2>3, <1>2, <1>3, <1>4 DEF AddsUp, HeroState
  <2>6. u.maxMana = 45 + 5 * u.level + 10 * u.expansion
                      + Owns(u, "shield", 15) + Owns(u, "armor", 20)
    BY <2>2, <2>3, <1>2, <1>3, <1>4 DEF AddsUp, HeroState
  <2> QED  BY <2>1, <2>4, <2>5, <2>6, <1>2, <1>3 DEF AddsUp, HeroState
<1> QED  BY <1>3, <1>5, <1>6, <1>7

(* The pet changes nothing that the hero can bear. *)
LEMMA PetAddsUp ==
  ASSUME NEW h \in HeroState, AddsUp(h), NEW u \in HeroState,
         \A f \in DOMAIN h \ {"gold", "mana", "pet", "petLevel", "love"} : u[f] = h[f],
         u.gold >= 0, u.mana >= 0, u.mana <= h.mana, u.love < 100,
         u.pet = 0 <=> u.petLevel = 0
  PROVE  AddsUp(u) /\ u.mined = h.mined
<1>1. /\ u.xp = h.xp /\ u.level = h.level /\ u.points = h.points /\ u.maxHp = h.maxHp
      /\ u.hp = h.hp /\ u.maxMana = h.maxMana /\ u.gear = h.gear /\ u.mining = h.mining
      /\ u.toughness = h.toughness /\ u.expansion = h.expansion /\ u.mined = h.mined
  BY DEF HeroState
<1>2. XpNeeded(u) = XpNeeded(h)
  BY <1>1 DEF XpNeeded
<1>3. \A g, n : Owns(u, g, n) = Owns(h, g, n)
  BY <1>1 DEF Owns
<1> QED  BY <1>1, <1>2, <1>3 DEF AddsUp, HeroState

LEMMA AdoptedAddsUp ==
  ASSUME NEW h \in HeroState, AddsUp(h), NEW p \in {1, 2, 3}
  PROVE  LET u == [h EXCEPT !.pet = p, !.petLevel = 1, !.love = 10]
         IN  u \in HeroState /\ AddsUp(u) /\ u.gold = h.gold /\ u.mined = h.mined
<1> DEFINE u == [h EXCEPT !.pet = p, !.petLevel = 1, !.love = 10]
<1>1. /\ u \in HeroState /\ u.pet # 0 /\ u.petLevel = 1 /\ u.love = 10 /\ u.gold = h.gold
      /\ u.mana = h.mana
  <2>1. u \in HeroState
    <3>1. p \in 0..3 /\ 1 \in Nat /\ 10 \in Nat
      OBVIOUS
    <3> QED  BY <3>1 DEF HeroState
  <2>2. u.pet = p /\ u.petLevel = 1 /\ u.love = 10 /\ u.gold = h.gold /\ u.mana = h.mana
    BY DEF HeroState
  <2> QED  BY <2>1, <2>2
<1>2. \A f \in DOMAIN h \ {"gold", "mana", "pet", "petLevel", "love"} : u[f] = h[f]
  BY DEF HeroState
<1>3. u.gold >= 0 /\ u.mana >= 0 /\ u.mana <= h.mana
  BY <1>1 DEF AddsUp, HeroState
<1> HIDE DEF u
<1>4. AddsUp(u) /\ u.mined = h.mined
  BY <1>1, <1>2, <1>3, PetAddsUp
<1> QED  BY <1>1, <1>4 DEF u

LEMMA LovedAddsUp ==
  ASSUME NEW h \in HeroState, AddsUp(h), NEW w \in HeroState, NEW n \in Nat, h.pet # 0,
         \A f \in DOMAIN h \ {"gold", "mana"} : w[f] = h[f],
         w.gold >= 0, w.mana >= 0, w.mana <= h.mana
  PROVE  /\ Loved(w, n) \in HeroState /\ AddsUp(Loved(w, n))
         /\ Loved(w, n).gold = w.gold /\ Loved(w, n).mined = h.mined
<1> DEFINE u == Loved(w, n)
<1>1. w.pet = h.pet /\ w.petLevel = h.petLevel
  BY DEF HeroState
<1>2. DOMAIN w = DOMAIN h /\ "petLevel" \in DOMAIN h /\ "love" \in DOMAIN h
  BY DEF HeroState
<1>3. CASE w.love + n >= 100
  <2>1. u = [w EXCEPT !.petLevel = @ + 1, !.love = 0]
    BY <1>3 DEF Loved
  <2>2. w.petLevel + 1 \in Nat /\ w.petLevel + 1 # 0
    BY DEF HeroState
  <2> HIDE DEF u
  <2>3. u \in HeroState
    BY <2>1, <2>2 DEF HeroState
  <2>4. /\ u.gold = w.gold /\ u.mana = w.mana /\ u.pet = w.pet /\ u.love = 0
        /\ u.petLevel = w.petLevel + 1
    BY <2>1 DEF HeroState
  <2>5. \A f \in DOMAIN h \ {"gold", "mana", "pet", "petLevel", "love"} : u[f] = h[f]
    BY <2>1, <1>2
  <2>6. AddsUp(u) /\ u.mined = h.mined
    BY <1>1, <2>2, <2>3, <2>4, <2>5, PetAddsUp
  <2> QED  BY <2>3, <2>4, <2>6 DEF u
<1>4. CASE ~(w.love + n >= 100)
  <2>1. u = [w EXCEPT !.love = @ + n]
    BY <1>4 DEF Loved
  <2>2. w.love + n \in Nat /\ w.love + n < 100
    BY <1>4 DEF HeroState
  <2> HIDE DEF u
  <2>3. u \in HeroState
    BY <2>1, <2>2 DEF HeroState
  <2>4. /\ u.gold = w.gold /\ u.mana = w.mana /\ u.pet = w.pet /\ u.love = w.love + n
        /\ u.petLevel = w.petLevel
    BY <2>1 DEF HeroState
  <2>5. \A f \in DOMAIN h \ {"gold", "mana", "pet", "petLevel", "love"} : u[f] = h[f]
    BY <2>1, <1>2
  <2>6. u.pet = 0 <=> u.petLevel = 0
    BY <1>1, <2>4 DEF AddsUp
  <2>7. AddsUp(u) /\ u.mined = h.mined
    BY <2>2, <2>3, <2>4, <2>5, <2>6, PetAddsUp
  <2> QED  BY <2>3, <2>4, <2>7 DEF u
<1> QED  BY <1>3, <1>4

-----------------------------------------------------------------------------
LEMMA HeroStarts == HeroInit => HeroInv
<1> SUFFICES ASSUME HeroInit PROVE HeroInv
  OBVIOUS
<1>1. save # <<>> => save \in HeroState /\ AddsUp(save)
  BY SavesAssumption DEF HeroInit
<1>2. Loaded \in HeroState
  BY <1>1, NewHeroAddsUp DEF Loaded
<1>3. Loaded.gold \in Int
  BY <1>2 DEF HeroState
<1>4. HeroTypeOK
  BY <1>1, <1>3, HeroAssumption DEF HeroInit, HeroTypeOK
<1>5. HeroAddsUp
  BY <1>1 DEF HeroInit, HeroAddsUp
<1>6. ProgressKept
  BY <1>3, HeroAssumption DEF HeroInit, ProgressKept, Remembers
<1> QED  BY <1>4, <1>5, <1>6 DEF HeroInv

(* A command keeps the invariant when its copy adds up, and accounts for   *)
(* what was earned and spent.                                              *)
LEMMA CommandKeeps ==
  ASSUME HeroInv, NEW s \in Shells, NEW h \in HeroState, AddsUp(h), Command(s, h),
         earned' \in Int, spent' \in Int, lastMine' \in Int,
         Remembers(Loaded) =>
            h.gold = earned' - spent' /\ (lastMine' >= 0 => h.mined = lastMine')
  PROVE  HeroInv'
<1>1. /\ at[s] = "prompt" /\ commands' = commands + 1 /\ commands < MaxCommands
      /\ at' = [at EXCEPT ![s] = "loaded"] /\ held' = [held EXCEPT ![s] = h]
      /\ save' = save /\ now' = now /\ alone' = alone
      /\ alone => \A r \in Shells : at[r] = "prompt"
  BY DEF Command
<1>2. h # <<>>
  BY HeroIsNoHole
<1>3. HeroTypeOK'
  <2>1. commands' \in 0..MaxCommands
    BY <1>1, HeroAssumption DEF HeroInv, HeroTypeOK
  <2>2. /\ at' \in [Shells -> {"prompt", "loaded", "opened"}]
        /\ held' \in [Shells -> HeroState \cup {<<>>}]
    BY <1>1 DEF HeroInv, HeroTypeOK
  <2>3. \A r \in Shells : at'[r] = "prompt" <=> held'[r] = <<>>
    BY <1>1, <1>2 DEF HeroInv, HeroTypeOK
  <2> QED  BY <2>1, <2>2, <2>3, <1>1 DEF HeroInv, HeroTypeOK
<1>4. HeroAddsUp'
  BY <1>1 DEF HeroInv, HeroTypeOK, HeroAddsUp
<1>5. ProgressKept'
  <2> SUFFICES ASSUME alone' PROVE ProgressKept'
    BY DEF ProgressKept
  <2>1. at'[s] # "prompt" /\ held'[s] = h /\ \A r \in Shells : at'[r] # "prompt" => r = s
    BY <1>1 DEF HeroInv, HeroTypeOK
  <2>2. Remembers(Loaded)
    BY <1>1 DEF HeroInv, ProgressKept
  <2>3. h.gold = earned' - spent' /\ (lastMine' >= 0 => h.mined = lastMine')
    BY <2>2
  <2>4. ASSUME NEW q \in Shells, at'[q] # "prompt"
        PROVE  /\ held'[q].gold = earned' - spent'
               /\ lastMine' >= 0 => held'[q].mined = lastMine'
    BY <2>1, <2>3, <2>4
  <2> QED  BY <2>1, <2>4 DEF ProgressKept, Remembers
<1> QED  BY <1>3, <1>4, <1>5 DEF HeroInv

LEMMA MineKeeps ==
  ASSUME HeroInv, NEW s \in Shells, Mine(s)
  PROVE  HeroInv'
<1> DEFINE h == Loaded
<1>1. PICK y \in Yields : /\ Command(s, Mined(h, y, now))
                          /\ earned' = earned + Found(h, y) /\ lastMine' = now /\ spent' = spent
  BY DEF Mine
<1>2. h \in HeroState /\ AddsUp(h)
  BY LoadedAddsUp
<1>3. now \in Int /\ earned \in Int /\ spent \in Int
  BY HeroAssumption DEF HeroInv, HeroTypeOK
<1> HIDE DEF h
<1>4. Found(h, y) \in Nat
  BY <1>2, FoundIsNat
<1> DEFINE m == Mined(h, y, now)
<1>5. /\ m \in HeroState /\ AddsUp(m) /\ m.gold = h.gold + Found(h, y) /\ m.mined = now
  BY <1>2, <1>3, MinedAddsUp
<1>6. Remembers(h) => m.gold = earned' - spent' /\ (lastMine' >= 0 => m.mined = lastMine')
  BY <1>1, <1>3, <1>4, <1>5 DEF Remembers
<1>7. earned' \in Int /\ spent' \in Int /\ lastMine' \in Int
  BY <1>1, <1>3, <1>4
<1> HIDE DEF m
<1>8. Command(s, m)
  BY <1>1 DEF m
<1> QED  BY <1>5, <1>6, <1>7, <1>8, CommandKeeps DEF h

LEMMA BuyKeeps ==
  ASSUME HeroInv, NEW s \in Shells, Buy(s)
  PROVE  HeroInv'
<1> DEFINE h == Loaded
<1>1. PICK g \in DOMAIN Price :
         /\ g \notin h.gear /\ h.gold >= Price[g]
         /\ Command(s, Bought(h, g))
         /\ spent' = spent + Price[g] /\ earned' = earned /\ lastMine' = lastMine
  BY DEF Buy
<1>2. h \in HeroState /\ AddsUp(h)
  BY LoadedAddsUp
<1>3. lastMine \in Int /\ earned \in Int /\ spent \in Int
  BY DEF HeroInv, HeroTypeOK
<1>4. Price[g] \in Nat
  BY DEF Price
<1> HIDE DEF h
<1> DEFINE m == Bought(h, g)
<1>5. /\ m \in HeroState /\ AddsUp(m) /\ m.gold = h.gold - Price[g] /\ m.mined = h.mined
  BY <1>1, <1>2, BoughtAddsUp
<1>6. Remembers(h) => m.gold = earned' - spent' /\ (lastMine' >= 0 => m.mined = lastMine')
  BY <1>1, <1>3, <1>4, <1>5 DEF Remembers
<1>7. earned' \in Int /\ spent' \in Int /\ lastMine' \in Int
  BY <1>1, <1>3, <1>4
<1> HIDE DEF m
<1>8. Command(s, m)
  BY <1>1 DEF m
<1> QED  BY <1>5, <1>6, <1>7, <1>8, CommandKeeps DEF h

LEMMA UpgradeKeeps ==
  ASSUME HeroInv, NEW s \in Shells, Upgrade(s)
  PROVE  HeroInv'
<1> DEFINE h == Loaded
<1>1. PICK k \in Skill : h.points >= 1 /\ Command(s, Upgraded(h, k))
  BY DEF Upgrade
<1>2. spent' = spent /\ earned' = earned /\ lastMine' = lastMine
  BY DEF Upgrade
<1>3. h \in HeroState /\ AddsUp(h)
  BY LoadedAddsUp
<1> HIDE DEF h
<1> DEFINE m == Upgraded(h, k)
<1>4. m \in HeroState /\ AddsUp(m) /\ m.gold = h.gold /\ m.mined = h.mined
  BY <1>1, <1>3, UpgradedAddsUp
<1> HIDE DEF m
<1>5. Remembers(h) => m.gold = earned' - spent' /\ (lastMine' >= 0 => m.mined = lastMine')
  BY <1>2, <1>4 DEF Remembers
<1>6. Command(s, m) /\ lastMine' \in Int /\ earned' \in Int /\ spent' \in Int
  BY <1>1, <1>2 DEF m, HeroInv, HeroTypeOK
<1> QED  BY <1>4, <1>5, <1>6, CommandKeeps DEF h

LEMMA PetKeeps ==
  ASSUME HeroInv, NEW s \in Shells, Adopt(s) \/ Feed(s) \/ Play(s)
  PROVE  HeroInv'
<1> DEFINE h == Loaded
<1>1. h \in HeroState /\ AddsUp(h)
  BY LoadedAddsUp
<1>2. lastMine \in Int /\ earned \in Int /\ spent \in Int
  BY DEF HeroInv, HeroTypeOK
<1>3. CASE Adopt(s)
  <2>1. PICK p \in {1, 2, 3} : Command(s, [h EXCEPT !.pet = p, !.petLevel = 1, !.love = 10])
    BY <1>3 DEF Adopt
  <2>2. spent' = spent /\ earned' = earned /\ lastMine' = lastMine
    BY <1>3 DEF Adopt
  <2> HIDE DEF h
  <2> DEFINE m == [h EXCEPT !.pet = p, !.petLevel = 1, !.love = 10]
  <2>3. m \in HeroState /\ AddsUp(m) /\ m.gold = h.gold /\ m.mined = h.mined
    BY <1>1, AdoptedAddsUp
  <2>4. Command(s, m)
    BY <2>1
  <2> HIDE DEF m
  <2>5. Remembers(h) => m.gold = earned' - spent' /\ (lastMine' >= 0 => m.mined = lastMine')
    BY <2>2, <2>3 DEF Remembers
  <2> QED  BY <2>2, <2>3, <2>4, <2>5, <1>2, CommandKeeps DEF h
<1>4. CASE Feed(s)
  <2> DEFINE w == [h EXCEPT !.gold = @ - 5]
             m == Loved(w, 15)
  <2>1. /\ h.pet # 0 /\ h.gold >= 5 /\ Command(s, m)
        /\ spent' = spent + 5 /\ earned' = earned /\ lastMine' = lastMine
    BY <1>4 DEF Feed
  <2> HIDE DEF h
  <2>2. h.gold - 5 \in Int /\ h.gold - 5 >= 0 /\ h.mana >= 0 /\ h.mana \in Int
    BY <1>1, <2>1 DEF HeroState, AddsUp
  <2>3. w \in HeroState
    BY <1>1, <2>2 DEF HeroState
  <2>4. w.gold = h.gold - 5 /\ w.mana = h.mana
    BY <1>1 DEF HeroState
  <2>5. \A f \in DOMAIN h \ {"gold", "mana"} : w[f] = h[f]
    BY <1>1 DEF HeroState
  <2> HIDE DEF w
  <2>6. m \in HeroState /\ AddsUp(m) /\ m.gold = h.gold - 5 /\ m.mined = h.mined
    BY <1>1, <2>1, <2>2, <2>3, <2>4, <2>5, LovedAddsUp
  <2> HIDE DEF m
  <2>7. Remembers(h) => m.gold = earned' - spent' /\ (lastMine' >= 0 => m.mined = lastMine')
    BY <1>2, <2>1, <2>6 DEF Remembers
  <2>8. spent' \in Int /\ earned' \in Int /\ lastMine' \in Int
    BY <1>2, <2>1
  <2> QED  BY <2>1, <2>6, <2>7, <2>8, CommandKeeps DEF h
<1>5. CASE Play(s)
  <2> DEFINE w == [h EXCEPT !.mana = @ - 10]
             m == Loved(w, 25)
  <2>1. /\ h.pet # 0 /\ h.mana >= 10 /\ Command(s, m)
        /\ spent' = spent /\ earned' = earned /\ lastMine' = lastMine
    BY <1>5 DEF Play
  <2> HIDE DEF h
  <2>2. h.mana - 10 \in Int /\ h.mana - 10 >= 0 /\ h.mana - 10 <= h.mana /\ h.gold >= 0
    BY <1>1, <2>1 DEF HeroState, AddsUp
  <2>3. w \in HeroState
    BY <1>1, <2>2 DEF HeroState
  <2>4. w.gold = h.gold /\ w.mana = h.mana - 10
    BY <1>1 DEF HeroState
  <2>5. \A f \in DOMAIN h \ {"gold", "mana"} : w[f] = h[f]
    BY <1>1 DEF HeroState
  <2> HIDE DEF w
  <2>6. m \in HeroState /\ AddsUp(m) /\ m.gold = h.gold /\ m.mined = h.mined
    BY <1>1, <2>1, <2>2, <2>3, <2>4, <2>5, LovedAddsUp
  <2> HIDE DEF m
  <2>7. Remembers(h) => m.gold = earned' - spent' /\ (lastMine' >= 0 => m.mined = lastMine')
    BY <1>2, <2>1, <2>6 DEF Remembers
  <2> QED  BY <2>1, <2>6, <2>7, <1>2, CommandKeeps DEF h
<1> QED  BY <1>3, <1>4, <1>5

(* The file: emptied, then filled with the copy; or the shell ends. *)
LEMMA SavingKeeps ==
  ASSUME HeroInv, NEW s \in Shells,
         OpenSave(s) \/ WriteSave(s) \/ OpenFails(s) \/ WriteFails(s) \/ Killed(s)
  PROVE  HeroInv'
<1> USE DEF HeroInv
<1>1. /\ now' = now /\ commands' = commands
      /\ earned' = earned /\ spent' = spent /\ lastMine' = lastMine
  BY DEF OpenSave, WriteSave, OpenFails, WriteFails, Killed
<1>2. CASE OpenSave(s)
  <2>1. /\ at[s] = "loaded" /\ at' = [at EXCEPT ![s] = "opened"] /\ save' = <<>> /\ held' = held
        /\ alone' = alone
    BY <1>2 DEF OpenSave
  <2>2. at'[s] = "opened" /\ \A r \in Shells : at'[r] = "prompt" <=> at[r] = "prompt"
    BY <2>1 DEF HeroTypeOK
  <2>3. HeroTypeOK'
    BY <1>1, <2>1, <2>2 DEF HeroTypeOK
  <2>4. HeroAddsUp'
    BY <2>1 DEF HeroAddsUp
  <2>5. ProgressKept'
    BY <1>1, <2>1, <2>2 DEF ProgressKept, Remembers
  <2> QED  BY <2>3, <2>4, <2>5
<1>3. CASE WriteSave(s)
  <2>1. /\ at[s] = "opened" /\ at' = [at EXCEPT ![s] = "prompt"]
        /\ save' = held[s] /\ held' = [held EXCEPT ![s] = <<>>] /\ alone' = alone
    BY <1>3 DEF WriteSave
  <2>2. held[s] # <<>> /\ held[s] \in HeroState
    BY <2>1 DEF HeroTypeOK
  <2>3. HeroTypeOK'
    BY <1>1, <2>1, <2>2 DEF HeroTypeOK
  <2>4. HeroAddsUp'
    BY <2>1, <2>2 DEF HeroAddsUp, HeroTypeOK
  <2>5. ProgressKept'
    <3> SUFFICES ASSUME alone' PROVE ProgressKept'
      BY DEF ProgressKept
    <3>1. Remembers(held[s]) /\ \A r \in Shells : at[r] # "prompt" => r = s
      BY <1>1, <2>1 DEF ProgressKept
    <3>2. \A r \in Shells : at'[r] = "prompt"
      BY <3>1, <2>1 DEF HeroTypeOK
    <3>3. Loaded' = held[s]
      BY <2>1, <2>2 DEF Loaded
    <3>4. Loaded'.gold = earned' - spent' /\ (lastMine' >= 0 => Loaded'.mined = lastMine')
      BY <3>1, <3>3, <1>1 DEF Remembers
    <3> QED  BY <3>2, <3>4, <2>1, <2>2 DEF ProgressKept, Remembers
  <2> QED  BY <2>3, <2>4, <2>5
<1>4. CASE OpenFails(s) \/ WriteFails(s) \/ Killed(s)
  <2>1. /\ alone' = FALSE /\ at' = [at EXCEPT ![s] = "prompt"] /\ save' = save
        /\ held' = [held EXCEPT ![s] = <<>>]
    BY <1>4 DEF OpenFails, WriteFails, Killed, HeroTypeOK
  <2>2. HeroTypeOK'
    BY <1>1, <2>1 DEF HeroTypeOK
  <2>3. HeroAddsUp'
    BY <2>1 DEF HeroAddsUp, HeroTypeOK
  <2>4. ProgressKept'
    BY <1>1, <2>1 DEF ProgressKept
  <2> QED  BY <2>2, <2>3, <2>4
<1> QED  BY <1>2, <1>3, <1>4

(* Whatever the shells do to each other's saves, in every copy of the hero *)
(* the level, the gear and the skills account for one another; and a       *)
(* player who is alone, and whose saves succeed, has every coin that was   *)
(* found and not spent: for any yields, any cooldown, any number of shells *)
(* and any heroes an earlier game left.                                    *)
THEOREM HeroesAddUp == HeroSpec => []HeroInv
<1>1. HeroInv /\ Tick => HeroInv'
  <2> SUFFICES ASSUME HeroInv, Tick PROVE HeroInv'
    OBVIOUS
  <2>1. now' \in 0..MaxClock
    BY HeroAssumption DEF HeroInv, HeroTypeOK, Tick
  <2> QED  BY <2>1 DEF Tick, HeroInv, HeroTypeOK, HeroAddsUp, ProgressKept, Remembers, Loaded
<1>2. HeroInv /\ HeroNext => HeroInv'
  BY <1>1, MineKeeps, BuyKeeps, UpgradeKeeps, PetKeeps, SavingKeeps DEF HeroNext
<1>3. HeroInv /\ UNCHANGED heroVars => HeroInv'
  BY DEF heroVars, HeroInv, HeroTypeOK, HeroAddsUp, ProgressKept, Remembers, Loaded
<1> QED  BY <1>2, <1>3, HeroStarts, PTL DEF HeroSpec

(***************************************************************************)
(* Commands with a !.  BridgeInv is inductive: the registry is what was    *)
(* accepted, and each stage knows what has taken effect.                   *)
(***************************************************************************)
(* What the registry holds. *)
Entry == [name : {Cut[n] : n \in MagicNames}, handler : Handlers]

LEMMA BridgeStarts == BridgeInit => BridgeInv
  BY PyBridgeAssumption
  DEF BridgeInit, BridgeInv, BridgeTypeOK, RegistryIsAccepted, NamesFit, AcceptedIsRun,
      TakesEffectOnce, NoCall, NoAnswer, StagesOf

(* What a call does not touch. *)
LEMMA MagicsGrow ==
  ASSUME BridgeTypeOK, NEW n \in MagicNames, NEW h \in Handlers, Len(magics) < MaxMagic,
         magics' = Append(magics, [name |-> Cut[n], handler |-> h])
  PROVE  /\ magics' \in Seq(Entry) /\ Len(magics') = Len(magics) + 1
         /\ DOMAIN magics' = DOMAIN magics \cup {Len(magics) + 1}
         /\ Len(magics) + 1 \notin DOMAIN magics
         /\ \A i \in DOMAIN magics : magics'[i] = magics[i]
         /\ magics'[Len(magics) + 1] = [name |-> Cut[n], handler |-> h]
<1>1. [name |-> Cut[n], handler |-> h] \in Entry
  BY DEF Entry
<1>2. magics \in Seq(Entry)
  BY DEF BridgeTypeOK, Entry
<1> QED  BY <1>1, <1>2

LEMMA RegisterKeeps ==
  ASSUME BridgeInv, NEW n \in MagicNames, NEW h \in Handlers, Register(n, h)
  PROVE  BridgeInv'
<1>1. /\ stage = "idle" /\ stage' = "idle" /\ calls' = calls + 1 /\ calls < MaxCalls
      /\ mode' = mode /\ python' = python /\ answer' = answer /\ shellUp' = shellUp
      /\ call' = NoCall /\ effects' = 0
  BY DEF Register
<1>2. CASE /\ Entries(n) = {} /\ Len(magics) < MaxMagic
           /\ magics' = Append(magics, [name |-> Cut[n], handler |-> h])
           /\ accepted' = accepted \cup {[name |-> n, handler |-> h]}
  <2> DEFINE new == [name |-> Cut[n], handler |-> h]
             top == Len(magics) + 1
  <2>1. /\ magics' \in Seq(Entry) /\ Len(magics') = Len(magics) + 1
        /\ DOMAIN magics' = DOMAIN magics \cup {top}
        /\ top \notin DOMAIN magics
        /\ \A i \in DOMAIN magics : magics'[i] = magics[i]
        /\ magics'[top] = new
    BY <1>2, MagicsGrow DEF BridgeInv
  <2>2. BridgeTypeOK'
    <3>1. calls' \in 0..MaxCalls
      BY <1>1, PyBridgeAssumption DEF BridgeInv, BridgeTypeOK
    <3>2. accepted' \subseteq [name : MagicNames, handler : Handlers]
      BY <1>2 DEF BridgeInv, BridgeTypeOK
    <3>3. Len(magics') <= MaxMagic
      BY <2>1, <1>2, PyBridgeAssumption DEF BridgeInv, BridgeTypeOK
    <3> QED  BY <3>1, <3>2, <3>3, <2>1, <1>1 DEF BridgeInv, BridgeTypeOK, Entry
  <2>3. RegistryIsAccepted'
    <3>1. ASSUME NEW i \in DOMAIN magics'
          PROVE  \E a \in accepted' : magics'[i] = [name |-> Cut[a.name], handler |-> a.handler]
      <4>1. CASE i = top
        <5>1. [name |-> n, handler |-> h] \in accepted'
          BY <1>2
        <5> QED  BY <5>1, <4>1, <2>1
      <4>2. CASE i \in DOMAIN magics
        <5>1. PICK a \in accepted : magics[i] = [name |-> Cut[a.name], handler |-> a.handler]
          BY <4>2 DEF BridgeInv, RegistryIsAccepted
        <5>2. a \in accepted' /\ magics'[i] = magics[i]
          BY <4>2, <2>1, <1>2
        <5> QED  BY <5>1, <5>2
      <4> QED  BY <4>1, <4>2, <2>1
    <3>2. ASSUME NEW a \in accepted'
          PROVE  \E i \in DOMAIN magics' :
                    magics'[i] = [name |-> Cut[a.name], handler |-> a.handler]
      <4>1. CASE a = [name |-> n, handler |-> h]
        BY <4>1, <2>1
      <4>2. CASE a \in accepted
        BY <4>2, <2>1 DEF BridgeInv, RegistryIsAccepted
      <4> QED  BY <4>1, <4>2, <1>2
    <3>3. ASSUME NamesFit', NEW i \in DOMAIN magics', NEW j \in DOMAIN magics',
                 magics'[i].name = magics'[j].name
          PROVE  i = j
      <4>1. NamesFit
        BY <3>3, <1>2 DEF NamesFit
      <4>2. Cut[n] = n
        <5>1. [name |-> n, handler |-> h] \in accepted'
          BY <1>2
        <5> QED  BY <5>1, <3>3 DEF NamesFit
      <4>3. \A k \in DOMAIN magics : magics[k].name # n
        BY <1>2 DEF Entries
      <4> QED  BY <4>1, <4>2, <4>3, <3>3, <2>1 DEF BridgeInv, RegistryIsAccepted
    <3> QED  BY <3>1, <3>2, <3>3 DEF RegistryIsAccepted
  <2> QED  BY <2>2, <2>3, <1>1, PyBridgeAssumption
           DEF BridgeInv, AcceptedIsRun, TakesEffectOnce, NoCall, BridgeTypeOK
<1>3. CASE UNCHANGED <<magics, accepted>>
  <2>1. calls' \in 0..MaxCalls
    BY <1>1, PyBridgeAssumption DEF BridgeInv, BridgeTypeOK
  <2>2. BridgeTypeOK'
    BY <2>1, <1>1, <1>3 DEF BridgeInv, BridgeTypeOK
  <2>3. RegistryIsAccepted'
    BY <1>3 DEF BridgeInv, RegistryIsAccepted, NamesFit
  <2> QED  BY <2>2, <2>3, <1>1, <1>3, PyBridgeAssumption
           DEF BridgeInv, AcceptedIsRun, TakesEffectOnce, NoCall, BridgeTypeOK
<1> QED  BY <1>2, <1>3 DEF Register

(* Every other step leaves the registry as it is, and stays within a mode. *)
LEMMA RegistryStays ==
  ASSUME BridgeInv, UNCHANGED <<magics, accepted>>
  PROVE  RegistryIsAccepted' /\ (NamesFit' <=> NamesFit)
  BY DEF BridgeInv, RegistryIsAccepted, NamesFit

LEMMA ExecuteKeeps ==
  ASSUME BridgeInv, NEW n \in MagicNames, NEW k \in Kinds, Execute(n, k)
  PROVE  BridgeInv'
<1> DEFINE hits == IF mode # "child" /\ ~python THEN {} ELSE Entries(Cut[n])
           first == CHOOSE i \in hits : \A j \in hits : i <= j
<1>1. /\ stage = "idle" /\ calls < MaxCalls /\ calls' = calls + 1
      /\ call' = [name |-> n, kind |-> k] /\ effects' = 0
      /\ mode' = mode /\ python' = python /\ shellUp' = shellUp
      /\ UNCHANGED <<magics, accepted>>
  BY DEF Execute
<1>2. \/ /\ hits # {} /\ answer' = [by |-> magics[first].handler, status |-> 0] /\ stage' = stage
      \/ /\ hits = {} /\ python
         /\ stage' = CASE mode = "embedded" -> "dispatch" [] mode = "direct" -> "simple"
                       [] mode = "child" -> "compile"
         /\ answer' = NoAnswer
      \/ /\ hits = {} /\ ~python
         /\ answer' = [by |-> "python", status |-> -1] /\ stage' = stage
  BY DEF Execute
<1>3. BridgeTypeOK'
  <2>1. calls' \in 0..MaxCalls
    BY <1>1, PyBridgeAssumption DEF BridgeInv, BridgeTypeOK
  <2>2. stage' \in StagesOf(mode')
    BY <1>1, <1>2 DEF BridgeInv, BridgeTypeOK, StagesOf
  <2> QED  BY <2>1, <2>2, <1>1 DEF BridgeInv, BridgeTypeOK
<1>4. AcceptedIsRun'
  <2>1. stage' # "idle" => answer' = NoAnswer
    BY <1>1, <1>2
  <2>2. ASSUME NamesFit', NEW a \in accepted', stage' = "idle", call'.name = a.name,
               answer'.by \in Handlers
        PROVE  answer'.by = a.handler
    <3>1. NamesFit /\ a \in accepted /\ a.name = n /\ Cut[n] = n
      BY <2>2, <1>1 DEF NamesFit
    <3>2. hits # {} /\ answer' = [by |-> magics[first].handler, status |-> 0]
      BY <1>2, <1>1, <2>2, PyBridgeAssumption DEF NoAnswer
    <3>3. PICK i \in DOMAIN magics : magics[i] = [name |-> Cut[a.name], handler |-> a.handler]
      BY <3>1 DEF BridgeInv, RegistryIsAccepted
    <3>4. hits = {i}
      BY <3>1, <3>2, <3>3 DEF BridgeInv, RegistryIsAccepted, Entries
    <3>5. i <= i
      BY <3>3 DEF BridgeInv, BridgeTypeOK
    <3>6. first = i
      BY <3>4, <3>5
    <3> HIDE DEF first
    <3>7. magics[first] = magics[i]
      BY <3>6
    <3>8. magics[i].handler = a.handler
      BY <3>3
    <3> QED  BY <3>7, <3>8, <3>2
  <2> QED  BY <2>1, <2>2 DEF AcceptedIsRun
<1>5. TakesEffectOnce'
  <2>1. mode \in {"embedded", "direct", "child"}
    BY DEF BridgeInv, BridgeTypeOK
  <2>2. stage' # "exec"
    BY <1>1, <1>2, <2>1
  <2> QED  BY <1>1, <2>2 DEF TakesEffectOnce
<1> QED  BY <1>3, <1>4, <1>5, <1>1, RegistryStays DEF BridgeInv

(* Python answers, or has not yet. *)
LEMMA PythonStepKeeps ==
  ASSUME BridgeInv, Keeps, stage # "idle",
         \/ stage' # "idle" /\ answer' = answer
         \/ \E s \in {0, -1} : Answered(s)
         \/ stage' = "idle" /\ answer' = answer,
         shellUp' \in BOOLEAN, effects' \in Nat,
         stage' \in StagesOf(mode)
  PROVE  BridgeTypeOK' /\ RegistryIsAccepted' /\ AcceptedIsRun'
<1>1. BridgeTypeOK'
  BY DEF BridgeInv, BridgeTypeOK, Keeps
<1>2. answer = NoAnswer
  BY DEF BridgeInv, AcceptedIsRun
<1>3. AcceptedIsRun'
  BY <1>2, PyBridgeAssumption DEF AcceptedIsRun, Answered, NoAnswer
<1> QED  BY <1>1, <1>3, RegistryStays DEF Keeps

LEMMA PythonKeeps ==
  ASSUME BridgeInv, PyMagic \/ Eval \/ Exec \/ RunSimple \/ Compile \/ Child
  PROVE  BridgeInv'
<1> USE DEF BridgeInv
<1>1. CASE PyMagic
  <2>1. BridgeTypeOK' /\ RegistryIsAccepted' /\ AcceptedIsRun'
    BY <1>1, PythonStepKeeps DEF PyMagic, BridgeTypeOK, Answered, StagesOf
  <2>2. TakesEffectOnce'
    BY <1>1 DEF PyMagic, TakesEffectOnce, Answered, Keeps
  <2> QED  BY <2>1, <2>2
<1>2. CASE Eval
  <2>1. BridgeTypeOK' /\ RegistryIsAccepted' /\ AcceptedIsRun'
    <3>0. Keeps /\ shellUp' \in BOOLEAN
      BY <1>2 DEF Eval, BridgeTypeOK
    <3>1. stage # "idle" /\ effects' \in Nat
      BY <1>2 DEF Eval, BridgeTypeOK
    <3>2. \/ stage' # "idle" /\ answer' = answer
          \/ \E s \in {0, -1} : Answered(s)
          \/ stage' = "idle" /\ answer' = answer
      BY <1>2 DEF Eval
    <3>3. stage' \in StagesOf(mode)
      BY <1>2 DEF Eval, BridgeTypeOK, Answered, StagesOf
    <3> QED  BY <3>0, <3>1, <3>2, <3>3, PythonStepKeeps
  <2>2. TakesEffectOnce'
    BY <1>2 DEF Eval, TakesEffectOnce, Answered, Keeps
  <2> QED  BY <2>1, <2>2
<1>3. CASE Exec
  <2>1. BridgeTypeOK' /\ RegistryIsAccepted' /\ AcceptedIsRun'
    <3>0. Keeps /\ shellUp' \in BOOLEAN
      BY <1>3 DEF Exec, BridgeTypeOK
    <3>1. stage # "idle" /\ effects' \in Nat
      BY <1>3 DEF Exec, BridgeTypeOK
    <3>2. \/ stage' # "idle" /\ answer' = answer
          \/ \E s \in {0, -1} : Answered(s)
          \/ stage' = "idle" /\ answer' = answer
      BY <1>3 DEF Exec
    <3>3. stage' \in StagesOf(mode)
      BY <1>3 DEF Exec, BridgeTypeOK, Answered, StagesOf
    <3> QED  BY <3>0, <3>1, <3>2, <3>3, PythonStepKeeps
  <2>2. mode = "embedded"
    BY <1>3 DEF Exec, BridgeTypeOK, StagesOf
  <2>3. TakesEffectOnce'
    BY <1>3, <2>2 DEF Exec, TakesEffectOnce, Answered, Keeps
  <2> QED  BY <2>1, <2>3
<1>4. CASE Compile
  <2>1. BridgeTypeOK' /\ RegistryIsAccepted' /\ AcceptedIsRun'
    BY <1>4, PythonStepKeeps DEF Compile, BridgeTypeOK, Answered, StagesOf
  <2>2. TakesEffectOnce'
    BY <1>4 DEF Compile, TakesEffectOnce, Answered, Keeps
  <2> QED  BY <2>1, <2>2
<1>5. CASE Child
  <2>1. BridgeTypeOK' /\ RegistryIsAccepted' /\ AcceptedIsRun'
    BY <1>5, PythonStepKeeps DEF Child, BridgeTypeOK, Answered, StagesOf
  <2>2. TakesEffectOnce'
    BY <1>5 DEF Child, TakesEffectOnce, Answered, Keeps
  <2> QED  BY <2>1, <2>2
<1>6. CASE RunSimple
  <2>1. BridgeTypeOK' /\ RegistryIsAccepted' /\ AcceptedIsRun'
    <3>0. Keeps /\ shellUp' \in BOOLEAN
      BY <1>6 DEF RunSimple, BridgeTypeOK
    <3>1. stage # "idle" /\ effects' \in Nat
      BY <1>6 DEF RunSimple, BridgeTypeOK
    <3>2. \/ stage' # "idle" /\ answer' = answer
          \/ \E s \in {0, -1} : Answered(s)
          \/ stage' = "idle" /\ answer' = answer
      BY <1>6 DEF RunSimple
    <3>3. stage' \in StagesOf(mode)
      BY <1>6 DEF RunSimple, BridgeTypeOK, Answered, StagesOf
    <3> QED  BY <3>0, <3>1, <3>2, <3>3, PythonStepKeeps
  <2>2. TakesEffectOnce'
    BY <1>6 DEF RunSimple, TakesEffectOnce, Answered, Keeps
  <2> QED  BY <2>1, <2>2
<1> QED  BY <1>1, <1>2, <1>3, <1>4, <1>5, <1>6

(* A native command is run by the handler that was accepted for its name,  *)
(* and whatever Python raises, a text takes effect once: for any names,    *)
(* any buffer that cuts them and any limit of the registry.                *)
THEOREM CommandsRunOnce == BridgeSpec => []BridgeInv
<1>1. BridgeInv /\ [BridgeNext]_bridgeVars => BridgeInv'
  <2>1. BridgeInv /\ BridgeNext => BridgeInv'
    BY RegisterKeeps, ExecuteKeeps, PythonKeeps DEF BridgeNext
  <2>2. BridgeInv /\ UNCHANGED bridgeVars => BridgeInv'
    BY DEF bridgeVars, BridgeInv, BridgeTypeOK, RegistryIsAccepted, NamesFit,
           AcceptedIsRun, TakesEffectOnce
  <2> QED  BY <2>1, <2>2
<1> QED  BY <1>1, BridgeStarts, PTL DEF BridgeSpec

(***************************************************************************)
(* Programs.                                                               *)
(***************************************************************************)
LEMMA TextLineIs ==
    ASSUME NEW l \in TextLine
    PROVE  /\ l.op \in {"run", "while", "if", "for", "do", "done", "then", "else", "fi", "exit"}
           /\ l = [op |-> l.op, arg |-> l.arg]
           /\ l.op \in {"run", "while", "if"} => l.arg \in CommandName
           /\ l.op = "for" => l.arg \in Nat
  BY DEF TextLine, Word

LEMMA WordIsLine == \A w \in {"do", "done", "then", "else", "fi", "exit"} : Word(w) \in TextLine /\ Word(w).op = w
  BY DEF TextLine, Word

LEMMA StatementIs ==
    ASSUME NEW s \in Statement
    PROVE  /\ s.op \in {"run", "exit", "for", "while", "if"}
           /\ s.op \in {"run", "exit"} => s \in TextLine
           /\ s.op \in {"run", "while", "if"} => s.arg \in CommandName
           /\ s.op = "for" => s.arg \in Nat
           /\ s.op \in {"for", "while", "if"} => s.body \in Seq(TextLine) /\ s.other \in Seq(TextLine)
           /\ s.op \in {"for", "while"} => s.other = <<>>
<1>1. CASE s \in [op : {"run"}, arg : CommandName] \cup {Word("exit")}
  BY <1>1 DEF TextLine, Word
<1>0. <<>> \in Seq(TextLine)
  OBVIOUS
<1>2. CASE s \in [op : {"for"}, arg : Nat, body : Seq(TextLine), other : {<<>>}]
  <2>1. s.op = "for" /\ s.arg \in Nat /\ s.body \in Seq(TextLine) /\ s.other = <<>>
    BY <1>2
  <2> QED BY <2>1, <1>0
<1>3. CASE s \in [op : {"while"}, arg : CommandName, body : Seq(TextLine), other : {<<>>}]
  <2>1. s.op = "while" /\ s.arg \in CommandName /\ s.body \in Seq(TextLine) /\ s.other = <<>>
    BY <1>3
  <2> QED BY <2>1, <1>0
<1>4. CASE s \in [op : {"if"}, arg : CommandName, body : Seq(TextLine), other : Seq(TextLine)]
  BY <1>4
<1> QED BY <1>1, <1>2, <1>3, <1>4 DEF Statement

(***************************************************************************)
(* The meaning of a flat program.                                          *)
(***************************************************************************)
States == [trace : Seq(CommandName \X Nat), status : {0, 1}, var : Nat]

LEMMA OutcomeIs == \A t, c : Outcome(t, c) \in {0, 1}
  BY DEF Outcome

LEMMA AskedIs ==
    ASSUME NEW m \in States, NEW c \in CommandName
    PROVE  /\ Asked(c, m) \in States
           /\ Asked(c, m) = [trace |-> Append(m.trace, <<c, m.var>>), status |-> m.status, var |-> m.var]
<1>1. m.trace \in Seq(CommandName \X Nat) /\ m.var \in Nat /\ m.status \in {0, 1}
      /\ m = [trace |-> m.trace, status |-> m.status, var |-> m.var]
  BY DEF States
<1>2. <<c, m.var>> \in CommandName \X Nat
  BY <1>1
<1>3. Append(m.trace, <<c, m.var>>) \in Seq(CommandName \X Nat)
  BY <1>1, <1>2
<1>4. Asked(c, m) = [trace |-> Append(m.trace, <<c, m.var>>), status |-> m.status, var |-> m.var]
  <2> DEFINE t == Append(m.trace, <<c, m.var>>)
  <2>1. Asked(c, m) = [m EXCEPT !.trace = t]
    BY Zenon DEF Asked
  <2> HIDE DEF t
  <2>2. Asked(c, m) = [trace |-> t, status |-> m.status, var |-> m.var]
    BY <1>1, <2>1
  <2> QED BY <2>2 DEF t
<1> QED BY <1>1, <1>3, <1>4 DEF States

LEMMA DoesIs ==
    ASSUME NEW m \in States, NEW c \in CommandName
    PROVE  /\ Does(c, m) \in States
           /\ Does(c, m) = [trace |-> Append(m.trace, <<c, m.var>>), status |-> Outcome(m.trace, c), var |-> m.var]
<1>1. Outcome(m.trace, c) \in {0, 1}
  BY OutcomeIs
<1> DEFINE o == Outcome(m.trace, c)
           t == Append(m.trace, <<c, m.var>>)
<1>2. Does(c, m) = [Asked(c, m) EXCEPT !.status = o]
  BY DEF Does
<1>3. Asked(c, m) \in States /\ Asked(c, m) = [trace |-> t, status |-> m.status, var |-> m.var]
  BY AskedIs
<1> HIDE DEF o, t
<1>4. Does(c, m) = [trace |-> t, status |-> o, var |-> m.var]
  BY <1>2, <1>3
<1>5. o \in {0, 1}
  BY <1>1 DEF o
<1>6. Does(c, m) \in States
  BY <1>3, <1>4, <1>5 DEF States
<1> QED BY <1>4, <1>6 DEF o, t

SimpleText(ls) == ls \in Seq(TextLine) /\ \A k \in 1 .. Len(ls) : Simple(ls[k])

LEMMA SimpleIs ==
    ASSUME NEW ls, SimpleText(ls), NEW k \in 1 .. Len(ls)
    PROVE  /\ ls[k] \in TextLine /\ ls[k].op = "run" /\ ls[k].arg \in CommandName
           /\ Mentions[ls[k].arg] = "none"
<1>1. ls[k] \in TextLine /\ ls[k].op = "run" /\ Mentions[ls[k].arg] = "none"
  BY DEF SimpleText, Simple
<1> QED BY <1>1, TextLineIs

(* What the lines of a text do one after the other, in steps.              *)
LinesStep(ls, m, f) == [k \in 0 .. Len(ls) |-> IF k = 0 THEN m ELSE Does(ls[k].arg, f[k - 1])]

LinesDone(ls, m) == CHOOSE f : f = LinesStep(ls, m, f)

LinesGo(ls, m) ==
    /\ Lines(ls, m) = LinesDone(ls, m)[Len(ls)]
    /\ LinesDone(ls, m)[0] = m
    /\ \A k \in 1 .. Len(ls) : LinesDone(ls, m)[k] = Does(ls[k].arg, LinesDone(ls, m)[k - 1])
    /\ \A k \in 0 .. Len(ls) : LinesDone(ls, m)[k] \in States

LEMMA LinesAre ==
    ASSUME NEW ls, SimpleText(ls), NEW m \in States
    PROVE  LinesGo(ls, m)
<1> DEFINE N == Len(ls)
           F == LinesDone(ls, m)
<1>0. N \in Nat
  BY DEF SimpleText
<1>1. ASSUME NEW k \in 1 .. N, NEW u \in States
      PROVE  Does(ls[k].arg, u) \in States
  <2>1. ls[k].arg \in CommandName
    BY SimpleIs
  <2> QED BY <2>1, DoesIs
<1>2. \E f : f = LinesStep(ls, m, f)
  <2> DEFINE step == [k \in 1 .. N |-> [u \in States |-> Does(ls[k].arg, u)]]
  <2>2. step \in [1 .. N -> [States -> States]]
    <3> HIDE DEF N
    <3> QED BY <1>1
  <2>3. PICK f \in [0 .. N -> States] : f[0] = m /\ \A k \in 1 .. N : f[k] = step[k][f[k - 1]]
    <3> HIDE DEF N, step
    <3>1. Forward(States, N, m, step)
      BY <1>0, <2>2, ForwardRuns
    <3> QED BY <3>1 DEF Forward
  <2>4. ASSUME NEW k \in 0 .. N
        PROVE  f[k] = IF k = 0 THEN m ELSE Does(ls[k].arg, f[k - 1])
    <3>1. CASE k = 0
      BY <2>3, <3>1
    <3>2. CASE k # 0
      <4>1. k \in 1 .. N /\ k - 1 \in 0 .. N
        BY <1>0, <3>2
      <4>2. f[k - 1] \in States
        BY <4>1
      <4>3. f[k] = step[k][f[k - 1]]
        BY <2>3, <4>1
      <4> QED BY <3>2, <4>1, <4>2, <4>3
    <3> QED BY <3>1, <3>2
  <2>5. f = [k \in 0 .. N |-> f[k]]
    OBVIOUS
  <2>6. f = LinesStep(ls, m, f)
    BY <2>4, <2>5 DEF LinesStep
  <2> QED BY <2>6
<1>3. F = LinesStep(ls, m, F)
  BY <1>2 DEF LinesDone
<1> HIDE DEF F
<1>4. F[0] = m /\ \A k \in 1 .. N : F[k] = Does(ls[k].arg, F[k - 1])
  BY <1>0, <1>3 DEF LinesStep
<1>5. \A k \in 0 .. N : F[k] \in States
  <2> DEFINE T == {k \in 0 .. N : F[k] \in States}
  <2>1. 0 \in T
    BY <1>0, <1>4
  <2>2. ASSUME NEW k \in 1 .. N, k - 1 \in T
        PROVE  k \in T
    <3>1. Does(ls[k].arg, F[k - 1]) \in States
      BY <1>1, <2>2
    <3> QED BY <1>4, <3>1
  <2>3. \A k \in 0 .. N : k \in T
    <3> HIDE DEF T, N
    <3> QED BY <1>0, <2>1, <2>2, ForwardHolds
  <2> QED BY <2>3
<1>6. Lines(ls, m) = F[N]
  BY DEF Lines, F, LinesDone, LinesStep
<1> QED BY <1>4, <1>5, <1>6 DEF LinesGo, F

LEMMA LinesIsState ==
    ASSUME NEW ls, SimpleText(ls), NEW m \in States
    PROVE  Lines(ls, m) \in States
<1>1. LinesGo(ls, m) /\ Len(ls) \in 0 .. Len(ls)
  BY LinesAre DEF SimpleText
<1> QED BY <1>1 DEF LinesGo

(* A variable is set and the rest stays.                                   *)
With(m, n) == [m EXCEPT !.var = n]

LEMMA WithIs ==
    ASSUME NEW m \in States, NEW n \in Nat
    PROVE  With(m, n) \in States /\ With(m, n) = [trace |-> m.trace, status |-> m.status, var |-> n]
  BY DEF With, States

(* The turns of a for, in steps.                                           *)
ForStep(s, m, f) == [k \in 0 .. s.arg |-> IF k = 0 THEN m ELSE Lines(s.body, With(f[k - 1], k))]

ForDone(s, m) == CHOOSE f : f = ForStep(s, m, f)

ForGoes(s, m) ==
    /\ For(s, m) = With(ForDone(s, m)[s.arg], 0)
    /\ ForDone(s, m)[0] = m
    /\ \A k \in 1 .. s.arg : ForDone(s, m)[k] = Lines(s.body, With(ForDone(s, m)[k - 1], k))
    /\ \A k \in 0 .. s.arg : ForDone(s, m)[k] \in States

LEMMA ForAre ==
    ASSUME NEW s, s.arg \in Nat, SimpleText(s.body), NEW m \in States
    PROVE  ForGoes(s, m)
<1> DEFINE N == s.arg
           F == ForDone(s, m)
<1>0. N \in Nat
  OBVIOUS
<1>1. ASSUME NEW k \in 1 .. N, NEW u \in States
      PROVE  Lines(s.body, With(u, k)) \in States
  <2>1. With(u, k) \in States
    BY <1>0, WithIs
  <2> QED BY <2>1, LinesIsState
<1>2. \E f : f = ForStep(s, m, f)
  <2> DEFINE step == [k \in 1 .. N |-> [u \in States |-> Lines(s.body, With(u, k))]]
  <2>2. step \in [1 .. N -> [States -> States]]
    <3> HIDE DEF N
    <3> QED BY <1>1
  <2>3. PICK f \in [0 .. N -> States] : f[0] = m /\ \A k \in 1 .. N : f[k] = step[k][f[k - 1]]
    <3> HIDE DEF N, step
    <3>1. Forward(States, N, m, step)
      BY <1>0, <2>2, ForwardRuns
    <3> QED BY <3>1 DEF Forward
  <2>4. ASSUME NEW k \in 0 .. N
        PROVE  f[k] = IF k = 0 THEN m ELSE Lines(s.body, With(f[k - 1], k))
    <3>1. CASE k = 0
      BY <2>3, <3>1
    <3>2. CASE k # 0
      <4>1. k \in 1 .. N /\ k - 1 \in 0 .. N
        BY <1>0, <3>2
      <4>2. f[k - 1] \in States
        BY <4>1
      <4>3. f[k] = step[k][f[k - 1]]
        BY <2>3, <4>1
      <4> QED BY <3>2, <4>1, <4>2, <4>3
    <3> QED BY <3>1, <3>2
  <2>5. f = [k \in 0 .. N |-> f[k]]
    OBVIOUS
  <2>6. f = ForStep(s, m, f)
    BY <2>4, <2>5 DEF ForStep
  <2> QED BY <2>6
<1>3. F = ForStep(s, m, F)
  BY <1>2 DEF ForDone
<1> HIDE DEF F
<1>4. F[0] = m /\ \A k \in 1 .. N : F[k] = Lines(s.body, With(F[k - 1], k))
  BY <1>0, <1>3 DEF ForStep
<1>5. \A k \in 0 .. N : F[k] \in States
  <2> DEFINE T == {k \in 0 .. N : F[k] \in States}
  <2>1. 0 \in T
    BY <1>0, <1>4
  <2>2. ASSUME NEW k \in 1 .. N, k - 1 \in T
        PROVE  k \in T
    <3>1. Lines(s.body, With(F[k - 1], k)) \in States
      BY <1>1, <2>2
    <3> QED BY <1>4, <3>1
  <2>3. \A k \in 0 .. N : k \in T
    <3> HIDE DEF T, N
    <3> QED BY <1>0, <2>1, <2>2, ForwardHolds
  <2> QED BY <2>3
<1>6. For(s, m) = With(F[N], 0)
  BY DEF For, F, ForDone, ForStep, With
<1> QED BY <1>4, <1>5, <1>6 DEF ForGoes, F

(* The turns of a while, in steps; once the condition fails it stays as it is. *)
WhileStep(s, m, f) ==
    [k \in 0 .. MaxIter |->
        IF k = 0 THEN m
        ELSE IF Holds(s.arg, f[k - 1]) THEN Lines(s.body, Asked(s.arg, f[k - 1]))
        ELSE f[k - 1]]

WhileDone(s, m) == CHOOSE f : f = WhileStep(s, m, f)

WhileTurn(s, u) == IF Holds(s.arg, u) THEN Lines(s.body, Asked(s.arg, u)) ELSE u

WhileEnd(s, u) == [Asked(s.arg, u) EXCEPT !.status = IF Holds(s.arg, u) THEN 1 ELSE @]

WhileGoes(s, m) ==
    /\ While(s, m) = WhileEnd(s, WhileDone(s, m)[MaxIter])
    /\ WhileDone(s, m)[0] = m
    /\ \A k \in 1 .. MaxIter : WhileDone(s, m)[k] = WhileTurn(s, WhileDone(s, m)[k - 1])
    /\ \A k \in 0 .. MaxIter : WhileDone(s, m)[k] \in States

LEMMA WhileAre ==
    ASSUME NEW s, s.arg \in CommandName, SimpleText(s.body), NEW m \in States
    PROVE  WhileGoes(s, m)
<1> DEFINE N == MaxIter
           F == WhileDone(s, m)
<1>0. N \in Nat
  BY InterpreterAssumption
<1>1. ASSUME NEW u \in States
      PROVE  WhileTurn(s, u) \in States
  <2>1. Asked(s.arg, u) \in States
    BY AskedIs
  <2>2. Lines(s.body, Asked(s.arg, u)) \in States
    BY <2>1, LinesIsState
  <2> QED BY <2>2 DEF WhileTurn
<1>2. \E f : f = WhileStep(s, m, f)
  <2> DEFINE step == [k \in 1 .. N |-> [u \in States |-> WhileTurn(s, u)]]
  <2>2. step \in [1 .. N -> [States -> States]]
    <3> HIDE DEF N
    <3> QED BY <1>1
  <2>3. PICK f \in [0 .. N -> States] : f[0] = m /\ \A k \in 1 .. N : f[k] = step[k][f[k - 1]]
    <3> HIDE DEF N, step
    <3>1. Forward(States, N, m, step)
      BY <1>0, <2>2, ForwardRuns
    <3> QED BY <3>1 DEF Forward
  <2>4. ASSUME NEW k \in 0 .. N
        PROVE  f[k] = IF k = 0 THEN m ELSE WhileTurn(s, f[k - 1])
    <3>1. CASE k = 0
      BY <2>3, <3>1
    <3>2. CASE k # 0
      <4>1. k \in 1 .. N /\ k - 1 \in 0 .. N
        BY <1>0, <3>2
      <4>2. f[k - 1] \in States
        BY <4>1
      <4>3. f[k] = step[k][f[k - 1]]
        BY <2>3, <4>1
      <4> QED BY <3>2, <4>1, <4>2, <4>3
    <3> QED BY <3>1, <3>2
  <2>5. f = [k \in 0 .. N |-> f[k]]
    OBVIOUS
  <2>6. f = WhileStep(s, m, f)
    BY <2>4, <2>5 DEF WhileStep, WhileTurn
  <2> QED BY <2>6
<1>3. F = WhileStep(s, m, F)
  BY <1>2 DEF WhileDone
<1> HIDE DEF F
<1>4. F[0] = m /\ \A k \in 1 .. N : F[k] = WhileTurn(s, F[k - 1])
  BY <1>0, <1>3 DEF WhileStep, WhileTurn
<1>5. \A k \in 0 .. N : F[k] \in States
  <2> DEFINE T == {k \in 0 .. N : F[k] \in States}
  <2>1. 0 \in T
    BY <1>0, <1>4
  <2>2. ASSUME NEW k \in 1 .. N, k - 1 \in T
        PROVE  k \in T
    <3>1. WhileTurn(s, F[k - 1]) \in States
      BY <1>1, <2>2
    <3> QED BY <1>4, <3>1
  <2>3. \A k \in 0 .. N : k \in T
    <3> HIDE DEF T, N
    <3> QED BY <1>0, <2>1, <2>2, ForwardHolds
  <2> QED BY <2>3
<1>6. While(s, m) = WhileEnd(s, F[N])
  BY DEF While, F, WhileDone, WhileStep, WhileEnd
<1> QED BY <1>4, <1>5, <1>6 DEF WhileGoes, F

(* A condition that failed is not asked again. *)
LEMMA WhileStays ==
    ASSUME NEW s, s.arg \in CommandName, SimpleText(s.body), NEW m \in States,
           NEW t \in 0 .. MaxIter, ~Holds(s.arg, WhileDone(s, m)[t])
    PROVE  WhileDone(s, m)[MaxIter] = WhileDone(s, m)[t]
<1> DEFINE F == WhileDone(s, m)
           T == {k \in 0 .. MaxIter : k >= t => F[k] = F[t]}
<1>0. MaxIter \in Nat
  BY InterpreterAssumption
<1>1. \A k \in 1 .. MaxIter : F[k] = WhileTurn(s, F[k - 1])
  BY WhileAre DEF WhileGoes
<1> HIDE DEF F
<1>2. 0 \in T
  BY <1>0
<1>3. ASSUME NEW k \in 1 .. MaxIter, k - 1 \in T
      PROVE  k \in T
  <2> SUFFICES ASSUME k >= t
               PROVE  F[k] = F[t]
    OBVIOUS
  <2>1. CASE k = t
    BY <2>1
  <2>2. CASE k # t
    <3>1. F[k - 1] = F[t]
      BY <1>0, <1>3, <2>2
    <3>2. ~Holds(s.arg, F[k - 1])
      BY <3>1 DEF F
    <3> QED BY <1>1, <3>1, <3>2 DEF WhileTurn
  <2> QED BY <2>1, <2>2
<1>4. \A k \in 0 .. MaxIter : k \in T
  <2> HIDE DEF T
  <2> QED BY <1>0, <1>2, <1>3, ForwardHolds
<1>5. MaxIter \in T /\ MaxIter >= t
  BY <1>0, <1>4
<1> QED BY <1>5 DEF F

(***************************************************************************)
(* The bytes of a block.                                                   *)
(***************************************************************************)
LEMMA LineLenIs == \A l \in TextLine : LineLen(l) \in Nat
<1> SUFFICES ASSUME NEW l \in TextLine
             PROVE  LineLen(l) \in Nat
  OBVIOUS
<1>1. \A w \in CommandName \cup Keyword : Bytes[w] \in Nat
  BY InterpreterAssumption
<1>2. CASE l \in [op : {"run", "while", "if"}, arg : CommandName]
  <2>1. l.op \in {"run", "while", "if"} /\ l.arg \in CommandName
    BY <1>2
  <2>2. l.op = "run" \/ l.op \in Keyword
    BY <2>1 DEF Keyword
  <2> QED BY <1>1, <2>1, <2>2 DEF LineLen
<1>3. CASE l \in [op : {"for"}, arg : Nat] \cup {Word(w) : w \in {"do", "done", "then", "else", "fi", "exit"}}
  <2>1. l.op \in Keyword /\ l.op \notin {"run", "while", "if"}
    BY <1>3 DEF Word, Keyword
  <2> QED BY <1>1, <2>1 DEF LineLen
<1> QED BY <1>2, <1>3 DEF TextLine

LEMMA HeadFits == \A l \in TextLine : Opens(l) => LineLen(l) < MaxBlock
<1> SUFFICES ASSUME NEW l \in TextLine, Opens(l)
             PROVE  LineLen(l) < MaxBlock
  OBVIOUS
<1>1. CASE l.op = "for"
  BY <1>1, InterpreterAssumption DEF LineLen
<1>2. CASE l.op \in {"while", "if"}
  <2>1. l.arg \in CommandName
    BY <1>2 DEF TextLine, Word
  <2> QED BY <1>2, <2>1, InterpreterAssumption DEF LineLen
<1> QED BY <1>1, <1>2 DEF Opens

SizeStep(b, f) == [k \in 0 .. Len(b) |-> IF k = 0 THEN 0 ELSE f[k - 1] + LineLen(b[k]) + 1]

SizeUpTo(b) == CHOOSE f : f = SizeStep(b, f)

SizeGoes(b) ==
    /\ Size(b) = SizeUpTo(b)[Len(b)] /\ Size(b) \in Nat
    /\ SizeUpTo(b)[0] = 0
    /\ \A k \in 1 .. Len(b) : SizeUpTo(b)[k] = SizeUpTo(b)[k - 1] + LineLen(b[k]) + 1
    /\ \A k \in 0 .. Len(b) : SizeUpTo(b)[k] \in Nat

LEMMA SizeIs ==
    ASSUME NEW b \in Seq(TextLine)
    PROVE  SizeGoes(b)
<1> DEFINE N == Len(b)
           F == SizeUpTo(b)
<1>0. N \in Nat
  OBVIOUS
<1>1. ASSUME NEW k \in 1 .. N
      PROVE  LineLen(b[k]) \in Nat
  BY LineLenIs
<1>2. \E f : f = SizeStep(b, f)
  <2> DEFINE step == [k \in 1 .. N |-> [u \in Nat |-> u + LineLen(b[k]) + 1]]
  <2>1. ASSUME NEW k \in 1 .. N, NEW u \in Nat
        PROVE  u + LineLen(b[k]) + 1 \in Nat
    BY <1>1
  <2>2. step \in [1 .. N -> [Nat -> Nat]]
    <3> HIDE DEF N
    <3> QED BY <2>1
  <2>3. PICK f \in [0 .. N -> Nat] : f[0] = 0 /\ \A k \in 1 .. N : f[k] = step[k][f[k - 1]]
    <3> HIDE DEF N, step
    <3>1. Forward(Nat, N, 0, step)
      BY <1>0, <2>2, ForwardRuns
    <3> QED BY <3>1 DEF Forward
  <2>4. ASSUME NEW k \in 0 .. N
        PROVE  f[k] = IF k = 0 THEN 0 ELSE f[k - 1] + LineLen(b[k]) + 1
    <3>1. CASE k = 0
      BY <2>3, <3>1
    <3>2. CASE k # 0
      <4>1. k \in 1 .. N /\ k - 1 \in 0 .. N
        BY <1>0, <3>2
      <4>2. f[k - 1] \in Nat
        BY <4>1
      <4>3. f[k] = step[k][f[k - 1]]
        BY <2>3, <4>1
      <4> QED BY <3>2, <4>1, <4>2, <4>3
    <3> QED BY <3>1, <3>2
  <2>5. f = [k \in 0 .. N |-> f[k]]
    OBVIOUS
  <2>6. f = SizeStep(b, f)
    BY <2>4, <2>5 DEF SizeStep
  <2> QED BY <2>6
<1>3. F = SizeStep(b, F)
  BY <1>2 DEF SizeUpTo
<1> HIDE DEF F
<1>4. F[0] = 0 /\ \A k \in 1 .. N : F[k] = F[k - 1] + LineLen(b[k]) + 1
  BY <1>0, <1>3 DEF SizeStep
<1>5. \A k \in 0 .. N : F[k] \in Nat
  <2> DEFINE T == {k \in 0 .. N : F[k] \in Nat}
  <2>1. 0 \in T
    BY <1>0, <1>4
  <2>2. ASSUME NEW k \in 1 .. N, k - 1 \in T
        PROVE  k \in T
    <3>1. F[k - 1] + LineLen(b[k]) + 1 \in Nat
      BY <1>1, <2>2
    <3> QED BY <1>4, <3>1
  <2>3. \A k \in 0 .. N : k \in T
    <3> HIDE DEF T, N
    <3> QED BY <1>0, <2>1, <2>2, ForwardHolds
  <2> QED BY <2>3
<1>6. Size(b) = F[N]
  BY DEF Size, F, SizeUpTo, SizeStep
<1>7. Size(b) \in Nat
  BY <1>0, <1>5, <1>6
<1> QED BY <1>4, <1>5, <1>6, <1>7 DEF SizeGoes, F

LEMMA NoLines == Size(<<>>) = 0
<1> DEFINE b == <<>>
<1>1. b \in Seq(TextLine) /\ Len(b) = 0
  OBVIOUS
<1> HIDE DEF b
<1>2. Size(b) = 0
  BY <1>1, SizeIs DEF SizeGoes
<1> QED BY <1>2 DEF b

LEMMA OneLine == \A l \in TextLine : Size(<<l>>) = LineLen(l) + 1
<1> SUFFICES ASSUME NEW l \in TextLine
             PROVE  Size(<<l>>) = LineLen(l) + 1
  OBVIOUS
<1> DEFINE b == <<l>>
<1>1. b \in Seq(TextLine) /\ Len(b) = 1 /\ b[1] = l /\ LineLen(l) \in Nat
  BY LineLenIs
<1> HIDE DEF b
<1>2. SizeGoes(b)
  BY <1>1, SizeIs
<1>3. SizeUpTo(b)[1] = SizeUpTo(b)[1 - 1] + LineLen(b[1]) + 1 /\ SizeUpTo(b)[0] = 0
  BY <1>1, <1>2 DEF SizeGoes
<1>4. Size(b) = LineLen(l) + 1
  BY <1>1, <1>2, <1>3 DEF SizeGoes
<1> QED BY <1>4 DEF b

(* What stands at the beginning of a text takes no more than all of it.    *)
LEMMA SizeGrows ==
    ASSUME NEW b \in Seq(TextLine), NEW c \in Seq(TextLine), Len(c) <= Len(b),
           \A k \in 1 .. Len(c) : c[k] = b[k]
    PROVE  Size(c) \in Nat /\ Size(b) \in Nat /\ Size(c) <= Size(b)
<1> DEFINE F == SizeUpTo(b)
           G == SizeUpTo(c)
           M == Len(c)
           N == Len(b)
<1>0. M \in Nat /\ N \in Nat /\ M <= N
  OBVIOUS
<1>1. /\ Size(b) = F[N] /\ F[0] = 0 /\ Size(b) \in Nat
      /\ \A k \in 1 .. N : F[k] = F[k - 1] + LineLen(b[k]) + 1
      /\ \A k \in 0 .. N : F[k] \in Nat
  BY SizeIs DEF SizeGoes
<1>2. /\ Size(c) = G[M] /\ G[0] = 0 /\ Size(c) \in Nat
      /\ \A k \in 1 .. M : G[k] = G[k - 1] + LineLen(c[k]) + 1
  BY SizeIs DEF SizeGoes
<1>3. \A k \in 1 .. N : LineLen(b[k]) \in Nat
  BY LineLenIs
<1>4. \A k \in 1 .. M : c[k] = b[k]
  OBVIOUS
<1> HIDE DEF F, G, M, N
<1>5. \A k \in 0 .. M : k \in {i \in 0 .. M : G[i] = F[i]}
  <2> DEFINE T == {i \in 0 .. M : G[i] = F[i]}
  <2>1. 0 \in T
    BY <1>0, <1>1, <1>2
  <2>2. ASSUME NEW k \in 1 .. M, k - 1 \in T
        PROVE  k \in T
    <3>1. k \in 1 .. N /\ G[k - 1] = F[k - 1] /\ c[k] = b[k]
      BY <1>0, <1>4, <2>2
    <3>2. G[k] = F[k]
      BY <1>1, <1>2, <3>1
    <3> QED BY <3>2
  <2> HIDE DEF T
  <2>3. \A k \in 0 .. M : k \in T
    BY <1>0, <2>1, <2>2, ForwardHolds
  <2> QED BY <2>3 DEF T
<1>6. \A k \in 0 .. N : k \in {i \in 0 .. N : i >= M => F[M] <= F[i]}
  <2> DEFINE T == {i \in 0 .. N : i >= M => F[M] <= F[i]}
  <2>0. F[M] \in Nat
    BY <1>0, <1>1
  <2>1. 0 \in T
    <3>1. 0 >= M => M = 0
      BY <1>0
    <3> QED BY <1>0, <1>1, <2>0, <3>1
  <2>2. ASSUME NEW k \in 1 .. N, k - 1 \in T
        PROVE  k \in T
    <3>1. k \in Nat /\ k - 1 \in 0 .. N /\ F[k] = F[k - 1] + LineLen(b[k]) + 1
          /\ F[k - 1] \in Nat /\ LineLen(b[k]) \in Nat /\ F[k] \in Nat
      BY <1>0, <1>1, <1>3
    <3>2. CASE k = M
      BY <3>1, <3>2, <2>0
    <3>3. CASE k # M
      <4>1. k >= M => k - 1 >= M
        BY <1>0, <3>1, <3>3
      <4>2. k >= M => F[M] <= F[k - 1]
        BY <2>2, <4>1
      <4>3. k >= M => F[M] <= F[k]
        BY <4>2, <3>1, <2>0
      <4> QED BY <4>3
    <3> QED BY <3>2, <3>3
  <2> HIDE DEF T
  <2>3. \A k \in 0 .. N : k \in T
    BY <1>0, <2>1, <2>2, ForwardHolds
  <2> QED BY <2>3 DEF T
<1>7. G[M] = F[M] /\ F[M] <= F[N]
  BY <1>0, <1>5, <1>6
<1> QED BY <1>1, <1>2, <1>7

FlatBlock(s) ==
    /\ s \in Statement /\ s.op \in {"for", "while", "if"}
    /\ Size(TextOf(s)) < MaxBlock /\ SimpleText(s.body) /\ SimpleText(s.other)

FlatStatement(s) == (s \in Statement /\ Simple(s)) \/ FlatBlock(s)

FlatProgram(stmts) ==
    stmts \in Seq(Statement) /\ \A k \in 1 .. Len(stmts) : FlatStatement(stmts[k])

LEMMA FlatIs ==
    ASSUME NEW stmts \in Seq(Statement), Flat(stmts)
    PROVE  FlatProgram(stmts)
<1>1. ASSUME NEW k \in 1 .. Len(stmts)
      PROVE  FlatStatement(stmts[k])
  <2> DEFINE s == stmts[k]
  <2>1. s \in Statement /\ k \in DOMAIN stmts
    OBVIOUS
  <2>2. \/ Simple(s)
        \/ /\ s.op \in {"for", "while", "if"}
           /\ Size(TextOf(s)) < MaxBlock
           /\ \A j \in DOMAIN s.body : Simple(s.body[j])
           /\ \A j \in DOMAIN s.other : Simple(s.other[j])
    BY <2>1 DEF Flat
  <2> HIDE DEF s
  <2>3. CASE Simple(s)
    BY <2>1, <2>3 DEF FlatStatement, s
  <2>4. CASE ~Simple(s)
    <3>1. s.op \in {"for", "while", "if"} /\ s.body \in Seq(TextLine) /\ s.other \in Seq(TextLine)
      BY <2>1, <2>2, <2>4, StatementIs
    <3>2. SimpleText(s.body) /\ SimpleText(s.other)
      BY <2>2, <2>4, <3>1 DEF SimpleText
    <3> QED BY <2>1, <2>2, <2>4, <3>1, <3>2 DEF FlatStatement, FlatBlock, s
  <2> QED BY <2>3, <2>4
<1> QED BY <1>1 DEF FlatProgram

Zero(m) == [m EXCEPT !.status = 0]

LEMMA ZeroIs ==
    ASSUME NEW m \in States
    PROVE  Zero(m) \in States /\ Zero(m) = [trace |-> m.trace, status |-> 0, var |-> m.var]
  BY DEF Zero, States

LEMMA WhileEndIs ==
    ASSUME NEW s, s.arg \in CommandName, NEW u \in States
    PROVE  /\ WhileEnd(s, u) \in States
           /\ WhileEnd(s, u) = [trace |-> Append(u.trace, <<s.arg, u.var>>),
                                status |-> IF Holds(s.arg, u) THEN 1 ELSE u.status, var |-> u.var]
<1> DEFINE a == Asked(s.arg, u)
           t == Append(u.trace, <<s.arg, u.var>>)
           q == IF Holds(s.arg, u) THEN 1 ELSE a.status
           r == IF Holds(s.arg, u) THEN 1 ELSE u.status
<1>1. a \in States /\ a = [trace |-> t, status |-> u.status, var |-> u.var]
  BY AskedIs
<1>2. WhileEnd(s, u) = [a EXCEPT !.status = q]
  BY Zenon DEF WhileEnd
<1>4. q = r
  <2>1. a.status = u.status
    <3> HIDE DEF a, t
    <3> QED BY <1>1
  <2> HIDE DEF a
  <2> QED BY <2>1
<1>5. r \in {0, 1}
  BY DEF States
<1> HIDE DEF a, t, q, r
<1>6. WhileEnd(s, u) = [trace |-> t, status |-> r, var |-> u.var]
  BY <1>1, <1>2, <1>4
<1>7. WhileEnd(s, u) \in States
  BY <1>1, <1>5, <1>6 DEF States
<1> QED BY <1>6, <1>7 DEF t, r

(* What a block means, said with the steps above.                          *)
LEMMA ForMeans ==
    ASSUME NEW s, FlatBlock(s), s.op = "for", NEW m \in States
    PROVE  /\ ForGoes(s, Zero(m)) /\ s.arg \in Nat
           /\ Means(s, m) = With(ForDone(s, Zero(m))[s.arg], 0)
           /\ Means(s, m) \in States
<1>1. s.arg \in Nat /\ SimpleText(s.body) /\ Zero(m) \in States
  BY StatementIs, ZeroIs DEF FlatBlock
<1>2. ForGoes(s, Zero(m))
  BY <1>1, ForAre
<1>3. Means(s, m) = For(s, Zero(m))
  BY DEF Means, Zero
<1>4. Means(s, m) = With(ForDone(s, Zero(m))[s.arg], 0) /\ ForDone(s, Zero(m))[s.arg] \in States
  BY <1>1, <1>2, <1>3 DEF ForGoes
<1>5. Means(s, m) \in States
  BY <1>4, WithIs
<1> QED BY <1>1, <1>2, <1>4, <1>5

LEMMA WhileMeans ==
    ASSUME NEW s, FlatBlock(s), s.op = "while", NEW m \in States
    PROVE  /\ WhileGoes(s, Zero(m)) /\ s.arg \in CommandName
           /\ Means(s, m) = WhileEnd(s, WhileDone(s, Zero(m))[MaxIter])
           /\ Means(s, m) \in States
<1>1. s.arg \in CommandName /\ SimpleText(s.body) /\ Zero(m) \in States /\ MaxIter \in 0 .. MaxIter
  BY StatementIs, ZeroIs, InterpreterAssumption DEF FlatBlock
<1>2. WhileGoes(s, Zero(m))
  BY <1>1, WhileAre
<1>3. Means(s, m) = While(s, Zero(m))
  BY DEF Means, Zero
<1>4. Means(s, m) = WhileEnd(s, WhileDone(s, Zero(m))[MaxIter]) /\ WhileDone(s, Zero(m))[MaxIter] \in States
  BY <1>1, <1>2, <1>3 DEF WhileGoes
<1>5. Means(s, m) \in States
  BY <1>1, <1>4, WhileEndIs
<1> QED BY <1>1, <1>2, <1>4, <1>5

Chosen(s, m) == IF Holds(s.arg, m) THEN s.body ELSE s.other

LEMMA IfMeans ==
    ASSUME NEW s, FlatBlock(s), s.op = "if", NEW m \in States
    PROVE  /\ s.arg \in CommandName /\ SimpleText(Chosen(s, Zero(m)))
           /\ LinesGo(Chosen(s, Zero(m)), Asked(s.arg, Zero(m)))
           /\ Means(s, m) = Lines(Chosen(s, Zero(m)), Asked(s.arg, Zero(m)))
           /\ Means(s, m) \in States
<1>1. s.arg \in CommandName /\ SimpleText(Chosen(s, Zero(m))) /\ Zero(m) \in States
  BY StatementIs, ZeroIs DEF FlatBlock, Chosen
<1>2. Asked(s.arg, Zero(m)) \in States
  BY <1>1, AskedIs
<1>3. LinesGo(Chosen(s, Zero(m)), Asked(s.arg, Zero(m)))
  BY <1>1, <1>2, LinesAre
<1>4. Means(s, m) = If(s, Zero(m))
  BY DEF Means, Zero
<1>5. Means(s, m) = Lines(Chosen(s, Zero(m)), Asked(s.arg, Zero(m)))
  BY <1>4 DEF If, Chosen
<1>6. Means(s, m) \in States
  BY <1>1, <1>2, <1>5, LinesIsState
<1> QED BY <1>1, <1>3, <1>5, <1>6

LEMMA MeansIs ==
    ASSUME NEW s, FlatStatement(s), NEW m \in States
    PROVE  Means(s, m) \in States
<1>1. CASE FlatBlock(s)
  <2>1. s.op \in {"for", "while", "if"}
    BY <1>1 DEF FlatBlock
  <2> QED BY <1>1, <2>1, ForMeans, WhileMeans, IfMeans
<1>2. CASE s \in Statement /\ Simple(s)
  <2>1. s.op = "run" /\ s.arg \in CommandName
    BY <1>2, StatementIs DEF Simple
  <2>2. Means(s, m) = Does(s.arg, m)
    BY <2>1 DEF Means
  <2> QED BY <2>1, <2>2, DoesIs
<1> QED BY <1>1, <1>2 DEF FlatStatement

Nothing == [trace |-> <<>>, status |-> 0, var |-> 0]

MeaningStep(stmts, f) == [k \in 0 .. Len(stmts) |-> IF k = 0 THEN Nothing ELSE Means(stmts[k], f[k - 1])]

MeaningDone(stmts) == CHOOSE f : f = MeaningStep(stmts, f)

MeaningGoes(stmts) ==
    /\ Meaning(stmts) = MeaningDone(stmts)[Len(stmts)]
    /\ MeaningDone(stmts)[0] = Nothing
    /\ \A k \in 1 .. Len(stmts) : MeaningDone(stmts)[k] = Means(stmts[k], MeaningDone(stmts)[k - 1])
    /\ \A k \in 0 .. Len(stmts) : MeaningDone(stmts)[k] \in States

LEMMA MeaningIs ==
    ASSUME NEW stmts, FlatProgram(stmts)
    PROVE  MeaningGoes(stmts)
<1> DEFINE N == Len(stmts)
           F == MeaningDone(stmts)
<1>0. N \in Nat /\ Nothing \in States
  <2>1. <<>> \in Seq(CommandName \X Nat)
    OBVIOUS
  <2> QED BY <2>1 DEF FlatProgram, Nothing, States
<1>1. ASSUME NEW k \in 1 .. N, NEW u \in States
      PROVE  Means(stmts[k], u) \in States
  BY MeansIs DEF FlatProgram
<1>2. \E f : f = MeaningStep(stmts, f)
  <2> DEFINE step == [k \in 1 .. N |-> [u \in States |-> Means(stmts[k], u)]]
  <2>2. step \in [1 .. N -> [States -> States]]
    <3> HIDE DEF N
    <3> QED BY <1>1
  <2>3. PICK f \in [0 .. N -> States] : f[0] = Nothing /\ \A k \in 1 .. N : f[k] = step[k][f[k - 1]]
    <3> HIDE DEF N, step
    <3>1. Forward(States, N, Nothing, step)
      BY <1>0, <2>2, ForwardRuns
    <3> QED BY <3>1 DEF Forward
  <2>4. ASSUME NEW k \in 0 .. N
        PROVE  f[k] = IF k = 0 THEN Nothing ELSE Means(stmts[k], f[k - 1])
    <3>1. CASE k = 0
      BY <2>3, <3>1
    <3>2. CASE k # 0
      <4>1. k \in 1 .. N /\ k - 1 \in 0 .. N
        BY <1>0, <3>2
      <4>2. f[k - 1] \in States
        BY <4>1
      <4>3. f[k] = step[k][f[k - 1]]
        BY <2>3, <4>1
      <4> QED BY <3>2, <4>1, <4>2, <4>3
    <3> QED BY <3>1, <3>2
  <2>5. f = [k \in 0 .. N |-> f[k]]
    OBVIOUS
  <2>6. f = MeaningStep(stmts, f)
    BY <2>4, <2>5 DEF MeaningStep
  <2> QED BY <2>6
<1>3. F = MeaningStep(stmts, F)
  BY <1>2 DEF MeaningDone
<1> HIDE DEF F
<1>4. F[0] = Nothing /\ \A k \in 1 .. N : F[k] = Means(stmts[k], F[k - 1])
  BY <1>0, <1>3 DEF MeaningStep
<1>5. \A k \in 0 .. N : F[k] \in States
  <2> DEFINE T == {k \in 0 .. N : F[k] \in States}
  <2>1. 0 \in T
    BY <1>0, <1>4
  <2>2. ASSUME NEW k \in 1 .. N, k - 1 \in T
        PROVE  k \in T
    <3>1. Means(stmts[k], F[k - 1]) \in States
      BY <1>1, <2>2
    <3> QED BY <1>4, <3>1
  <2>3. \A k \in 0 .. N : k \in T
    <3> HIDE DEF T, N
    <3> QED BY <1>0, <2>1, <2>2, ForwardHolds
  <2> QED BY <2>3
<1>6. Meaning(stmts) = F[N]
  BY DEF Meaning, F, MeaningDone, MeaningStep, Nothing
<1> QED BY <1>4, <1>5, <1>6 DEF MeaningGoes, F

(***************************************************************************)
(* The text of a block.                                                    *)
(***************************************************************************)
Shape(b, x, y, inner, e) ==
    /\ b \in Seq(TextLine) /\ Len(b) = Len(inner) + 3
    /\ b[1] = x /\ b[2] = y /\ b[Len(inner) + 3] = e
    /\ \A k \in 1 .. Len(inner) : b[k + 2] = inner[k]

LEMMA Shapes ==
    ASSUME NEW x \in TextLine, NEW y \in TextLine, NEW e \in TextLine, NEW inner \in Seq(TextLine)
    PROVE  Shape(<<x, y>> \o inner \o <<e>>, x, y, inner, e)
<1> DEFINE h == <<x, y>>
           w == h \o inner
           o == <<e>>
           b == w \o o
<1>1. h \in Seq(TextLine) /\ Len(h) = 2 /\ h[1] = x /\ h[2] = y
  OBVIOUS
<1>2. o \in Seq(TextLine) /\ Len(o) = 1 /\ o[1] = e
  OBVIOUS
<1> HIDE DEF h, o
<1>a. Len(inner) \in Nat
  OBVIOUS
<1>b. w \in Seq(TextLine) /\ Len(w) = Len(h) + Len(inner)
      /\ \A k \in 1 .. Len(h) + Len(inner) : w[k] = IF k <= Len(h) THEN h[k] ELSE inner[k - Len(h)]
  BY <1>1, ConcatProperties
<1> HIDE DEF w
<1>3. w \in Seq(TextLine) /\ Len(w) = Len(inner) + 2 /\ w[1] = x /\ w[2] = y
      /\ \A k \in 1 .. Len(inner) : w[k + 2] = inner[k]
  <2>1. Len(w) = Len(inner) + 2 /\ 1 \in 1 .. Len(h) + Len(inner) /\ 2 \in 1 .. Len(h) + Len(inner)
    BY <1>1, <1>a, <1>b
  <2>2. w[1] = x /\ w[2] = y
    BY <1>1, <1>b, <2>1
  <2>3. ASSUME NEW k \in 1 .. Len(inner)
        PROVE  w[k + 2] = inner[k]
    <3>1. k + 2 \in 1 .. Len(h) + Len(inner) /\ ~(k + 2 <= Len(h)) /\ (k + 2) - Len(h) = k
      BY <1>1, <1>a
    <3> QED BY <1>b, <3>1
  <2> QED BY <1>b, <2>1, <2>2, <2>3
<1>c. b \in Seq(TextLine) /\ Len(b) = Len(w) + Len(o)
      /\ \A k \in 1 .. Len(w) + Len(o) : b[k] = IF k <= Len(w) THEN w[k] ELSE o[k - Len(w)]
  BY <1>2, <1>3, ConcatProperties
<1> HIDE DEF b
<1>4. b \in Seq(TextLine) /\ Len(b) = Len(inner) + 3 /\ \A k \in 1 .. Len(inner) + 2 : b[k] = w[k]
  <2>1. Len(b) = Len(inner) + 3 /\ 1 .. Len(inner) + 2 \subseteq 1 .. Len(w) + Len(o)
    BY <1>2, <1>3, <1>a, <1>c
  <2> QED BY <1>3, <1>c, <2>1
<1>5. b[Len(inner) + 3] = e
  <2>1. Len(inner) + 3 \in 1 .. Len(w) + Len(o) /\ ~(Len(inner) + 3 <= Len(w)) /\ Len(inner) + 3 - Len(w) = 1
    BY <1>2, <1>3, <1>a
  <2> QED BY <1>2, <1>c, <2>1
<1>6. b[1] = x /\ b[2] = y /\ \A k \in 1 .. Len(inner) : b[k + 2] = inner[k]
  <2>1. 1 \in 1 .. Len(inner) + 2 /\ 2 \in 1 .. Len(inner) + 2
    BY <1>a
  <2>2. \A k \in 1 .. Len(inner) : k + 2 \in 1 .. Len(inner) + 2
    BY <1>a
  <2> QED BY <1>3, <1>4, <2>1, <2>2
<1>7. Shape(b, x, y, inner, e)
  <2> QED BY <1>4, <1>5, <1>6 DEF Shape
<1> QED BY <1>7 DEF b, w, h, o

HeadOf(s) == [op |-> s.op, arg |-> s.arg]

Opening(s) == IF s.op = "if" THEN Word("then") ELSE Word("do")

Closing(s) == IF s.op = "if" THEN Word("fi") ELSE Word("done")

Otherwise(s) == IF s.other = <<>> THEN <<>> ELSE <<Word("else")>> \o s.other

Inner(s) == IF s.op = "if" THEN s.body \o Otherwise(s) ELSE s.body

(* Lines that count for nothing: commands and the else. *)
PlainText(ls) ==
    /\ ls \in Seq(TextLine)
    /\ \A k \in 1 .. Len(ls) : \/ ls[k].op = "run" /\ Mentions[ls[k].arg] = "none"
                               \/ ls[k].op = "else"

LEMMA SimpleIsPlain ==
    ASSUME NEW ls, SimpleText(ls)
    PROVE  PlainText(ls) /\ \A k \in 1 .. Len(ls) : ls[k].op = "run"
  BY DEF SimpleText, Simple, PlainText

LEMMA PlainJoins ==
    ASSUME NEW p, NEW q, PlainText(p), PlainText(q)
    PROVE  PlainText(p \o q)
<1>1. p \in Seq(TextLine) /\ q \in Seq(TextLine)
  BY DEF PlainText
<1> DEFINE w == p \o q
<1>2. w \in Seq(TextLine) /\ Len(w) = Len(p) + Len(q)
      /\ \A k \in 1 .. Len(p) + Len(q) : w[k] = IF k <= Len(p) THEN p[k] ELSE q[k - Len(p)]
  BY <1>1, ConcatProperties
<1> HIDE DEF w
<1>3. Len(p) \in Nat /\ Len(q) \in Nat
  BY <1>1
<1>4. ASSUME NEW k \in 1 .. Len(w)
      PROVE  \/ w[k].op = "run" /\ Mentions[w[k].arg] = "none"
             \/ w[k].op = "else"
  <2>1. CASE k <= Len(p)
    <3>1. k \in 1 .. Len(p) /\ w[k] = p[k]
      BY <1>2, <1>3, <2>1
    <3> QED BY <3>1 DEF PlainText
  <2>2. CASE ~(k <= Len(p))
    <3>1. k - Len(p) \in 1 .. Len(q) /\ w[k] = q[k - Len(p)]
      BY <1>2, <1>3, <2>2
    <3> QED BY <3>1 DEF PlainText
  <2> QED BY <2>1, <2>2
<1>5. PlainText(w)
  BY <1>2, <1>4 DEF PlainText
<1> QED BY <1>5 DEF w

LEMMA ElseIsPlain ==
    PlainText(<<Word("else")>>) /\ PlainText(<<>>)
<1> DEFINE o == <<Word("else")>>
<1>1. o \in Seq(TextLine) /\ Len(o) = 1 /\ o[1].op = "else"
  BY WordIsLine
<1> HIDE DEF o
<1>2. PlainText(o)
  BY <1>1 DEF PlainText
<1>3. PlainText(<<>>)
  BY DEF PlainText
<1> QED BY <1>2, <1>3 DEF o

LEMMA InnerIsPlain ==
    ASSUME NEW s, FlatBlock(s)
    PROVE  /\ PlainText(Inner(s)) /\ PlainText(Otherwise(s))
           /\ s.op # "if" => \A k \in 1 .. Len(Inner(s)) : Inner(s)[k].op = "run"
<1>1. PlainText(s.body) /\ PlainText(s.other)
      /\ \A k \in 1 .. Len(s.body) : s.body[k].op = "run"
  BY SimpleIsPlain DEF FlatBlock
<1>2. PlainText(Otherwise(s))
  BY <1>1, ElseIsPlain, PlainJoins DEF Otherwise
<1>3. PlainText(s.body \o Otherwise(s))
  BY <1>1, <1>2, PlainJoins
<1> QED BY <1>1, <1>2, <1>3 DEF Inner

(* Any block has this shape, whatever its body holds. *)
LEMMA TextIsShape ==
    ASSUME NEW s \in Statement, s.op \in {"for", "while", "if"}
    PROVE  /\ Shape(TextOf(s), HeadOf(s), Opening(s), Inner(s), Closing(s))
           /\ Inner(s) \in Seq(TextLine)
<1>0. s.body \in Seq(TextLine) /\ s.other \in Seq(TextLine)
  BY StatementIs
<1>1. Otherwise(s) \in Seq(TextLine) /\ Inner(s) \in Seq(TextLine)
  <2> DEFINE o == <<Word("else")>>
  <2>1. o \in Seq(TextLine)
    BY WordIsLine
  <2>2. <<>> \in Seq(TextLine)
    OBVIOUS
  <2> HIDE DEF o
  <2>3. o \o s.other \in Seq(TextLine)
    BY <1>0, <2>1, ConcatProperties
  <2>4. Otherwise(s) \in Seq(TextLine)
    BY <2>2, <2>3 DEF Otherwise, o
  <2>5. s.body \o Otherwise(s) \in Seq(TextLine)
    BY <1>0, <2>4, ConcatProperties
  <2> QED BY <1>0, <2>4, <2>5 DEF Inner
<1>2. HeadOf(s) \in TextLine /\ Opening(s) \in TextLine /\ Closing(s) \in TextLine
  <2>2. s.op \in {"while", "if"} => s.arg \in CommandName
    BY StatementIs
  <2>3. s.op = "for" => s.arg \in Nat
    BY StatementIs
  <2>4. HeadOf(s) \in TextLine
    BY <2>2, <2>3 DEF HeadOf, TextLine
  <2> QED BY <2>4, WordIsLine DEF Opening, Closing
<1>3. Shape(<<HeadOf(s), Opening(s)>> \o Inner(s) \o <<Closing(s)>>, HeadOf(s), Opening(s), Inner(s), Closing(s))
  BY <1>1, <1>2, Shapes
<1>4. TextOf(s) = <<HeadOf(s), Opening(s)>> \o Inner(s) \o <<Closing(s)>>
  <2>1. CASE s.op \in {"for", "while"}
    <3>1. s.op # "if" /\ Inner(s) = s.body
      BY <2>1 DEF Inner
    <3> QED BY <2>1, <3>1 DEF TextOf, HeadOf, Opening, Closing
  <2>2. CASE s.op = "if"
    <3>0. s.op \notin {"for", "while"}
      BY <2>2
    <3> DEFINE h == <<[op |-> "if", arg |-> s.arg], Word("then")>>
               o == <<Word("fi")>>
    <3>1. TextOf(s) = h \o s.body \o Otherwise(s) \o o
      BY <2>2, <3>0 DEF TextOf, Otherwise
    <3>2. h = <<HeadOf(s), Opening(s)>> /\ o = <<Closing(s)>> /\ Inner(s) = s.body \o Otherwise(s)
      BY <2>2 DEF HeadOf, Opening, Closing, Inner
    <3>3. h \in Seq(TextLine)
      BY <1>2, <3>2
    <3> HIDE DEF h, o
    <3>4. h \o s.body \o Otherwise(s) = h \o (s.body \o Otherwise(s))
      <4> DEFINE p == s.body
                 q == Otherwise(s)
      <4>1. p \in Seq(TextLine) /\ q \in Seq(TextLine)
        BY <1>0, <1>1
      <4> HIDE DEF p, q
      <4>2. (h \o p) \o q = h \o (p \o q)
        BY <3>3, <4>1, ConcatAssociative
      <4> QED BY <4>2 DEF p, q
    <3> QED BY <3>1, <3>2, <3>4
  <2> QED BY <2>1, <2>2
<1> QED BY <1>1, <1>3, <1>4

LEMMA BlockText ==
    ASSUME NEW s, FlatBlock(s)
    PROVE  Shape(TextOf(s), HeadOf(s), Opening(s), Inner(s), Closing(s))
  BY TextIsShape DEF FlatBlock

(* A piece of a text, and what is found in it. *)
LEMMA SomeOf ==
    ASSUME NEW A, NEW ls \in Seq(A), NEW m \in Nat, NEW n \in Nat, n <= Len(ls), m >= 1
    PROVE  /\ SubSeq(ls, m, n) \in Seq(A)
           /\ m <= n + 1 => /\ Len(SubSeq(ls, m, n)) = n - m + 1
                            /\ \A k \in 1 .. n - m + 1 : SubSeq(ls, m, n)[k] = ls[m + k - 1]
<1>1. CASE m <= n + 1
  <2>1. SubSeq(ls, m, n) \in Seq(A) /\ Len(SubSeq(ls, m, n)) = n - m + 1
        /\ \A k \in 1 .. n - m + 1 : SubSeq(ls, m, n)[k] = ls[m + k - 1]
    BY <1>1, SubSeqProperties
  <2> QED BY <2>1
<1>2. CASE ~(m <= n + 1)
  <2>1. SubSeq(ls, m, n) \in Seq(A)
    BY <1>2, SubSeqProperties
  <2> QED BY <1>2, <2>1
<1> QED BY <1>1, <1>2

LEMMA BodyIs ==
    ASSUME NEW b, NEW x, NEW y, NEW inner \in Seq(TextLine), NEW e, Shape(b, x, y, inner, e),
           NEW opener, NEW end, y.op = opener, e.op = end, \A k \in 1 .. Len(inner) : inner[k].op # end
    PROVE  Body(b, opener, end) = inner
<1> DEFINE n == Len(inner)
           rest == SubSeq(b, 3, Len(b))
           ends == {j \in DOMAIN rest : rest[j].op = end}
<1>0. n \in Nat /\ b \in Seq(TextLine) /\ Len(b) = n + 3 /\ b[2] = y /\ b[n + 3] = e
      /\ \A k \in 1 .. n : b[k + 2] = inner[k]
  BY DEF Shape
<1> HIDE DEF n
<1>1. rest \in Seq(TextLine) /\ Len(rest) = n + 1 /\ \A k \in 1 .. n + 1 : rest[k] = b[k + 2]
  <2>1. rest \in Seq(TextLine) /\ Len(rest) = Len(b) - 3 + 1
        /\ \A k \in 1 .. Len(b) - 3 + 1 : rest[k] = b[3 + k - 1]
    BY <1>0, SomeOf
  <2> HIDE DEF rest
  <2>2. Len(b) - 3 + 1 = n + 1 /\ \A k \in 1 .. n + 1 : 3 + k - 1 = k + 2
    BY <1>0
  <2> QED BY <2>1, <2>2
<1> HIDE DEF rest
<1>2. ends = {n + 1}
  <2>1. \A k \in 1 .. n : rest[k] = inner[k] /\ rest[k].op # end
    BY <1>0, <1>1 DEF n
  <2>2. rest[n + 1] = e
    <3>1. n + 1 \in 1 .. n + 1 /\ (n + 1) + 2 = n + 3
      BY <1>0
    <3> QED BY <1>0, <1>1, <3>1
  <2>3. DOMAIN rest = 1 .. n + 1
    BY <1>1
  <2>4. \A k \in 1 .. n + 1 : k \in 1 .. n \/ k = n + 1
    BY <1>0
  <2>5. n + 1 \in 1 .. n + 1 /\ n + 1 \notin 1 .. n
    BY <1>0
  <2> QED BY <2>1, <2>2, <2>3, <2>4, <2>5
<1>3. Body(b, opener, end) = SubSeq(rest, 1, n)
  <2>1. Len(b) > 1 /\ b[2].op = opener
    BY <1>0
  <2> DEFINE r == IF Len(b) > 1 /\ b[2].op = opener THEN SubSeq(b, 3, Len(b)) ELSE Tail(b)
             found == {j \in DOMAIN r : r[j].op = end}
  <2>a. Body(b, opener, end) = SubSeq(r, 1, IF found = {} THEN Len(r)
                                          ELSE (CHOOSE k \in found : \A j \in found : k <= j) - 1)
    BY DEF Body
  <2>b. r = rest
    BY <2>1 DEF rest
  <2> HIDE DEF r
  <2>2. Body(b, opener, end) = SubSeq(rest, 1, IF ends = {} THEN Len(rest)
                                             ELSE (CHOOSE k \in ends : \A j \in ends : k <= j) - 1)
    BY <2>a, <2>b
  <2> HIDE DEF ends
  <2>3. (CHOOSE k \in ends : \A j \in ends : k <= j) = n + 1
    <3>1. n + 1 <= n + 1
      BY <1>0
    <3> QED BY <1>2, <3>1
  <2>4. ends # {} /\ (n + 1) - 1 = n
    BY <1>0, <1>2
  <2> QED BY <2>2, <2>3, <2>4
<1>4. SubSeq(rest, 1, n) \in Seq(TextLine) /\ Len(SubSeq(rest, 1, n)) = n
      /\ \A k \in 1 .. n : SubSeq(rest, 1, n)[k] = inner[k]
  <2> DEFINE u == SubSeq(rest, 1, n)
  <2>1. u \in Seq(TextLine) /\ Len(u) = n - 1 + 1
        /\ \A k \in 1 .. n - 1 + 1 : u[k] = rest[1 + k - 1]
    <3>1. 1 \in Nat /\ n <= Len(rest) /\ 1 <= n + 1
      BY <1>0, <1>1
    <3> QED BY <1>0, <1>1, <3>1, SomeOf
  <2> HIDE DEF u
  <2>2. n - 1 + 1 = n /\ \A k \in 1 .. n : 1 + k - 1 = k /\ k \in 1 .. n + 1
    BY <1>0
  <2>3. u \in Seq(TextLine) /\ Len(u) = n /\ \A k \in 1 .. n : u[k] = inner[k]
    BY <1>0, <1>1, <2>1, <2>2
  <2> QED BY <2>3 DEF u
<1>5. SubSeq(rest, 1, n) = inner
  <2> DEFINE u == SubSeq(rest, 1, n)
  <2>1. u \in Seq(TextLine) /\ Len(u) = n /\ \A k \in 1 .. n : u[k] = inner[k]
    BY <1>4
  <2> HIDE DEF u
  <2>2. u = inner
    BY <2>1, SeqEqual DEF n
  <2> QED BY <2>2 DEF u
<1> QED BY <1>3, <1>5

LEMMA Behinds ==
    ASSUME NEW p \in Seq(TextLine), NEW q \in Seq(TextLine), NEW w, w = p \o q
    PROVE  /\ SubSeq(w, 1, Len(p)) = p
           /\ SubSeq(w, Len(p) + 1, Len(w)) = q
<1>1. w \in Seq(TextLine) /\ Len(w) = Len(p) + Len(q)
      /\ \A k \in 1 .. Len(p) + Len(q) : w[k] = IF k <= Len(p) THEN p[k] ELSE q[k - Len(p)]
  BY ConcatProperties
<1>2. Len(p) \in Nat /\ Len(q) \in Nat
  OBVIOUS
<1>3. SubSeq(w, 1, Len(p)) = p
  <2> DEFINE u == SubSeq(w, 1, Len(p))
  <2>1. u \in Seq(TextLine) /\ Len(u) = Len(p) - 1 + 1
        /\ \A k \in 1 .. Len(p) - 1 + 1 : u[k] = w[1 + k - 1]
    <3>1. 1 \in Nat /\ Len(p) <= Len(w) /\ 1 <= Len(p) + 1
      BY <1>1, <1>2
    <3> QED BY <1>1, <1>2, <3>1, SomeOf
  <2> HIDE DEF u
  <2>2. Len(p) - 1 + 1 = Len(p)
        /\ \A k \in 1 .. Len(p) : 1 + k - 1 = k /\ k \in 1 .. Len(p) + Len(q) /\ k <= Len(p)
    BY <1>2
  <2>3. Len(u) = Len(p) /\ \A k \in 1 .. Len(p) : u[k] = p[k]
    BY <1>1, <2>1, <2>2
  <2>4. u = p
    BY <2>1, <2>3, SeqEqual
  <2> QED BY <2>4 DEF u
<1>4. SubSeq(w, Len(p) + 1, Len(w)) = q
  <2> DEFINE u == SubSeq(w, Len(p) + 1, Len(w))
             m == Len(p) + 1
  <2>1. m \in Nat /\ m >= 1 /\ m <= Len(w) + 1 /\ Len(w) \in Nat
    BY <1>1, <1>2
  <2>2. u \in Seq(TextLine) /\ Len(u) = Len(w) - m + 1
        /\ \A k \in 1 .. Len(w) - m + 1 : u[k] = w[m + k - 1]
    <3> HIDE DEF m
    <3>1. SubSeq(w, m, Len(w)) \in Seq(TextLine) /\ Len(SubSeq(w, m, Len(w))) = Len(w) - m + 1
          /\ \A k \in 1 .. Len(w) - m + 1 : SubSeq(w, m, Len(w))[k] = w[m + k - 1]
      BY <1>1, <2>1, SomeOf
    <3> QED BY <3>1 DEF m
  <2> HIDE DEF u
  <2>3. Len(w) - m + 1 = Len(q)
        /\ \A k \in 1 .. Len(q) : /\ m + k - 1 \in 1 .. Len(p) + Len(q) /\ ~(m + k - 1 <= Len(p))
                                  /\ (m + k - 1) - Len(p) = k
    BY <1>1, <1>2
  <2> HIDE DEF m
  <2>4. Len(u) = Len(q) /\ \A k \in 1 .. Len(q) : u[k] = q[k]
    BY <1>1, <2>2, <2>3
  <2>5. u = q
    BY <2>2, <2>4, SeqEqual
  <2> QED BY <2>5 DEF u
<1> QED BY <1>3, <1>4

(* What stands behind the else, without it. *)
LEMMA NoElseIs ==
    ASSUME NEW q \in Seq(TextLine), \A k \in 1 .. Len(q) : q[k].op # "else",
           NEW ls, ls = <<Word("else")>> \o q
    PROVE  NoElse(ls) = q
<1> DEFINE n == Len(q)
           o == <<Word("else")>>
           parts == [k \in DOMAIN ls |-> IF ls[k].op = "else" THEN <<>> ELSE <<ls[k]>>]
           w == FlattenSeq(parts)
           B == Seq(TextLine)
<1>0. n \in Nat
  OBVIOUS
<1>1. o \in Seq(TextLine) /\ Len(o) = 1 /\ o[1].op = "else"
  BY WordIsLine
<1>2. ls = o \o q
  OBVIOUS
<1> HIDE DEF o, n
<1>3. ls \in Seq(TextLine) /\ Len(ls) = n + 1 /\ ls[1].op = "else" /\ \A k \in 1 .. n : ls[k + 1] = q[k]
  <2>1. ls \in Seq(TextLine) /\ Len(ls) = Len(o) + Len(q)
        /\ \A k \in 1 .. Len(o) + Len(q) : ls[k] = IF k <= Len(o) THEN o[k] ELSE q[k - Len(o)]
    BY <1>1, <1>2, ConcatProperties
  <2>2. 1 \in 1 .. 1 + n /\ \A k \in 1 .. n : k + 1 \in 1 .. 1 + n /\ ~(k + 1 <= 1) /\ (k + 1) - 1 = k
    BY <1>0
  <2>3. Len(ls) = n + 1
    BY <1>0, <1>1, <2>1 DEF n
  <2>4. ls[1] = o[1]
    BY <1>1, <2>1, <2>2 DEF n
  <2>5. \A k \in 1 .. n : ls[k + 1] = q[k]
    BY <1>1, <2>1, <2>2 DEF n
  <2> QED BY <1>1, <2>1, <2>3, <2>4, <2>5
<1>4. DOMAIN ls = 1 .. n + 1
  BY <1>0, <1>3
<1>5. \A k \in 1 .. n + 1 : ls[k] \in TextLine
  BY <1>3
<1>6. parts[1] = <<>> /\ \A k \in 1 .. n : parts[k + 1] = <<q[k]>>
  <2>1. 1 \in DOMAIN ls /\ \A k \in 1 .. n : k + 1 \in DOMAIN ls
    BY <1>0, <1>4
  <2>2. \A k \in 1 .. n : ls[k + 1] = q[k] /\ q[k].op # "else"
    BY <1>3 DEF n
  <2> QED BY <1>3, <2>1, <2>2
<1>7. parts \in Seq(B) /\ Len(parts) = n + 1
  <2>1. ASSUME NEW k \in 1 .. n + 1
        PROVE  parts[k] \in B
    <3>1. ls[k] \in TextLine
      BY <1>5
    <3> DEFINE v == ls[k]
    <3>2. v \in TextLine
      BY <3>1
    <3> HIDE DEF v, parts
    <3>3. <<v>> \in B /\ <<>> \in B
      BY <3>2
    <3> USE DEF v, parts
    <3> HIDE DEF B
    <3> QED BY <1>4, <3>3
  <2>2. DOMAIN parts = 1 .. n + 1
    BY <1>4
  <2>3. parts = [k \in 1 .. n + 1 |-> parts[k]]
    BY <1>4
  <2> HIDE DEF parts, B
  <2>4. parts \in [1 .. n + 1 -> B] /\ n + 1 \in Nat
    BY <1>0, <2>1, <2>3
  <2> DEFINE N == n + 1
  <2>5. parts \in [1 .. N -> B] /\ N \in Nat
    BY <2>4
  <2> HIDE DEF N
  <2>6. parts \in Seq(B) /\ Len(parts) = N
    BY <2>5
  <2> QED BY <2>6 DEF N
<1> HIDE DEF parts
<1>8. w \in Seq(TextLine) /\ \E spot \in [0 .. Len(parts) -> Nat] : Lays(parts, spot, w)
  BY <1>7, FlattenLays
<1> HIDE DEF w
<1>9. PICK spot \in [0 .. n + 1 -> Nat] : Lays(parts, spot, w)
  BY <1>7, <1>8
<1>10. /\ spot[0] = 0 /\ spot[n + 1] = Len(w)
       /\ \A k \in 1 .. n + 1 : spot[k] = spot[k - 1] + Len(parts[k]) /\ Stands(w, spot[k - 1], parts[k])
  BY <1>7, <1>9 DEF Lays
<1>11. \A k \in 0 .. n : spot[k + 1] = k
  <2> DEFINE T == {k \in 0 .. n : spot[k + 1] = k}
  <2>1. 0 \in T
    <3>1. 1 \in 1 .. n + 1 /\ 1 - 1 = 0 /\ 0 + 1 = 1 /\ 0 \in 0 .. n
      BY <1>0
    <3>2. spot[1] = spot[0] + Len(parts[1])
      BY <1>10, <3>1
    <3> QED BY <1>6, <1>10, <3>1, <3>2
  <2>2. ASSUME NEW k \in 1 .. n, k - 1 \in T
        PROVE  k \in T
    <3>1. k + 1 \in 1 .. n + 1 /\ (k + 1) - 1 = k /\ (k - 1) + 1 = k /\ k \in 0 .. n
      BY <1>0
    <3>2. spot[k] = k - 1
      BY <2>2, <3>1
    <3>3. spot[k + 1] = spot[k] + Len(parts[k + 1])
      BY <1>10, <3>1
    <3>4. Len(parts[k + 1]) = 1
      BY <1>6
    <3>5. spot[k + 1] = k
      BY <3>1, <3>2, <3>3, <3>4
    <3> QED BY <3>1, <3>5
  <2>3. \A k \in 0 .. n : k \in T
    <3> HIDE DEF T
    <3> QED BY <1>0, <2>1, <2>2, ForwardHolds
  <2> QED BY <2>3
<1>12. Len(w) = n
  BY <1>0, <1>10, <1>11
<1>13. ASSUME NEW k \in 1 .. n
       PROVE  w[k] = q[k]
  <2>1. k + 1 \in 1 .. n + 1 /\ (k + 1) - 1 = k /\ (k - 1) + 1 = k /\ k - 1 \in 0 .. n
    BY <1>0
  <2>2. spot[k] = k - 1
    BY <1>11, <2>1
  <2>3. Stands(w, k - 1, <<q[k]>>)
    BY <1>6, <1>10, <2>1, <2>2
  <2> DEFINE u == <<q[k]>>
  <2>4. Len(u) = 1 /\ u[1] = q[k]
    OBVIOUS
  <2> HIDE DEF u
  <2>5. w[(k - 1) + 1] = u[1]
    BY <2>3, <2>4 DEF Stands, u
  <2> QED BY <2>1, <2>4, <2>5
<1>14. w = q
  BY <1>8, <1>12, <1>13, SeqEqual DEF n
<1> QED BY <1>14 DEF w, parts, NoElse

LEMMA NoElseOfNone == NoElse(<<>>) = <<>>
<1> DEFINE parts == [k \in DOMAIN <<>> |-> IF <<>>[k].op = "else" THEN <<>> ELSE <<(<<>>[k])>>]
<1>1. NoElse(<<>>) = FlattenSeq(parts)
  BY DEF NoElse
<1>2. parts = <<>>
  OBVIOUS
<1> HIDE DEF parts
<1>3. FlattenSeq(parts) = IF Len(parts) = 0 THEN parts ELSE Flattened(parts)[Len(parts)]
  BY FlattenIs
<1> QED BY <1>1, <1>2, <1>3

LEMMA HalvesAre ==
    ASSUME NEW s, FlatBlock(s), s.op = "if"
    PROVE  Halves(Inner(s))[1] = s.body /\ Halves(Inner(s))[2] = s.other
<1> DEFINE p == s.body
           q == s.other
           r == Otherwise(s)
           ls == Inner(s)
           n == Len(p)
           found == {k \in DOMAIN ls : ls[k].op = "else"}
           m == IF found = {} THEN Len(ls) + 1 ELSE CHOOSE k \in found : \A j \in found : k <= j
<1>1. p \in Seq(TextLine) /\ q \in Seq(TextLine) /\ r \in Seq(TextLine) /\ ls = p \o r
      /\ (\A k \in 1 .. n : p[k].op = "run") /\ (\A k \in 1 .. Len(q) : q[k].op = "run")
  BY InnerIsPlain, SimpleIsPlain DEF FlatBlock, SimpleText, PlainText, Inner
<1>2. (r = <<>> /\ q = <<>>) \/ (r = <<Word("else")>> \o q /\ q # <<>>)
  BY DEF Otherwise
<1>3. Halves(ls) = <<SubSeq(ls, 1, m - 1), NoElse(SubSeq(ls, m, Len(ls)))>>
  BY DEF Halves
<1> HIDE DEF p, q, r, ls
<1>4. n \in Nat /\ Len(r) \in Nat /\ ls \in Seq(TextLine) /\ Len(ls) = n + Len(r)
      /\ \A k \in 1 .. n + Len(r) : ls[k] = IF k <= n THEN p[k] ELSE r[k - n]
  BY <1>1, ConcatProperties
<1> HIDE DEF n
<1>5. m = n + 1
  <2>0. DOMAIN ls = 1 .. n + Len(r)
    BY <1>4
  <2>1. \A k \in found : k \in 1 .. n + Len(r) /\ k >= n + 1
    <3>1. \A k \in 1 .. n : k \in 1 .. n + Len(r) /\ ls[k] = p[k] /\ p[k].op = "run"
      BY <1>1, <1>4 DEF n
    <3>2. \A k \in 1 .. n : k \notin found
      BY <3>1
    <3> QED BY <1>4, <2>0, <3>2
  <2>2. CASE r = <<>> /\ q = <<>>
    <3>1. Len(r) = 0
      BY <2>2
    <3>2. found = {}
      BY <1>4, <2>1, <3>1
    <3>3. m = Len(ls) + 1
      BY <3>2
    <3> QED BY <1>4, <3>1, <3>3
  <2>3. CASE r = <<Word("else")>> \o q
    <3>1. Len(r) >= 1 /\ r[1].op = "else"
      <4> DEFINE o == <<Word("else")>>
      <4>1. o \in Seq(TextLine) /\ Len(o) = 1 /\ o[1].op = "else"
        BY WordIsLine
      <4>2. r = o \o q
        BY <2>3
      <4> HIDE DEF o
      <4>3. Len(r) = Len(o) + Len(q)
            /\ \A k \in 1 .. Len(o) + Len(q) : r[k] = IF k <= Len(o) THEN o[k] ELSE q[k - Len(o)]
        BY <1>1, <4>1, <4>2, ConcatProperties
      <4>4. Len(q) \in Nat /\ 1 \in 1 .. 1 + Len(q)
        BY <1>1
      <4> QED BY <4>1, <4>3, <4>4
    <3>2. n + 1 \in found
      <4>1. n + 1 \in 1 .. n + Len(r) /\ ~(n + 1 <= n) /\ (n + 1) - n = 1
        BY <1>4, <3>1
      <4>2. ls[n + 1] = r[1]
        BY <1>4, <4>1
      <4> QED BY <2>0, <3>1, <4>1, <4>2
    <3> HIDE DEF found
    <3>3. \A k \in found : k \in Nat /\ n + 1 <= k
      BY <1>4, <2>1
    <3> DEFINE c == CHOOSE k \in found : \A j \in found : k <= j
    <3>4. c \in found /\ \A j \in found : c <= j
      BY <3>2, <3>3
    <3>5. m = c
      BY <3>2
    <3> HIDE DEF c, m
    <3>6. c <= n + 1 /\ n + 1 <= c /\ c \in Nat
      BY <3>2, <3>3, <3>4
    <3> QED BY <1>4, <3>5, <3>6
  <2> QED BY <1>2, <2>2, <2>3
<1>6. Halves(ls)[1] = SubSeq(ls, 1, m - 1) /\ Halves(ls)[2] = NoElse(SubSeq(ls, m, Len(ls)))
  <2> DEFINE u == SubSeq(ls, 1, m - 1)
             v == NoElse(SubSeq(ls, m, Len(ls)))
  <2>1. Halves(ls) = <<u, v>>
    BY <1>3
  <2> HIDE DEF u, v
  <2>2. Halves(ls)[1] = u /\ Halves(ls)[2] = v
    BY <2>1
  <2> QED BY <2>2 DEF u, v
<1> HIDE DEF m, found
<1>7. SubSeq(ls, 1, n) = p /\ SubSeq(ls, n + 1, Len(ls)) = r
  BY <1>1, Behinds DEF n
<1>8. m - 1 = n
  BY <1>4, <1>5
<1>9. Halves(ls)[1] = p /\ Halves(ls)[2] = NoElse(r)
  BY <1>5, <1>6, <1>7, <1>8
<1>10. NoElse(r) = q
  <2>1. CASE r = <<>> /\ q = <<>>
    BY <2>1, NoElseOfNone
  <2>2. CASE r = <<Word("else")>> \o q
    <3>1. \A k \in 1 .. Len(q) : q[k].op # "else"
      BY <1>1
    <3> QED BY <1>1, <2>2, <3>1, NoElseIs
  <2> QED BY <1>2, <2>1, <2>2
<1> QED BY <1>9, <1>10 DEF p, q, ls

(* The frame of a block just entered. *)
Entered(s) ==
    [op |-> s.op, arg |-> s.arg, at |-> 0, turn |-> 0, last |-> 0, body |-> s.body, other |-> s.other]

LEMMA FrameIs ==
    ASSUME NEW s, FlatBlock(s), NEW b, b = TextOf(s)
    PROVE  Frame(b) = Entered(s)
<1>1. Shape(b, HeadOf(s), Opening(s), Inner(s), Closing(s)) /\ Inner(s) \in Seq(TextLine)
  BY BlockText, InnerIsPlain DEF PlainText
<1>2. b[1].op = s.op /\ b[1].arg = s.arg
  BY <1>1 DEF Shape, HeadOf
<1>3. s.op \in {"for", "while", "if"} /\ s \in Statement
  BY DEF FlatBlock
<1> DEFINE ls == IF b[1].op = "if" THEN Body(b, "then", "fi") ELSE Body(b, "do", "done")
           x == IF b[1].op = "if" THEN Halves(ls)[1] ELSE ls
           y == IF b[1].op = "if" THEN Halves(ls)[2] ELSE <<>>
<1>4. Frame(b) = [op |-> b[1].op, arg |-> b[1].arg, at |-> 0, turn |-> 0, last |-> 0, body |-> x, other |-> y]
  BY DEF Frame
<1>5. ls = Inner(s)
  <2>1. CASE s.op = "if"
    <3>1. Opening(s).op = "then" /\ Closing(s).op = "fi"
      BY <2>1, WordIsLine DEF Opening, Closing
    <3>2. \A k \in 1 .. Len(Inner(s)) : Inner(s)[k].op # "fi"
      <4>1. PlainText(Inner(s))
        BY InnerIsPlain
      <4>2. \A k \in 1 .. Len(Inner(s)) : Inner(s)[k].op \in {"run", "else"}
        BY <4>1 DEF PlainText
      <4> QED BY <4>2
    <3>3. Body(b, "then", "fi") = Inner(s)
      BY <1>1, <3>1, <3>2, BodyIs
    <3> QED BY <1>2, <2>1, <3>3
  <2>2. CASE s.op # "if"
    <3>1. Opening(s).op = "do" /\ Closing(s).op = "done"
      BY <2>2, WordIsLine DEF Opening, Closing
    <3>2. \A k \in 1 .. Len(Inner(s)) : Inner(s)[k].op # "done"
      <4>1. \A k \in 1 .. Len(Inner(s)) : Inner(s)[k].op = "run"
        BY <2>2, InnerIsPlain
      <4> QED BY <4>1
    <3>3. Body(b, "do", "done") = Inner(s)
      BY <1>1, <3>1, <3>2, BodyIs
    <3> QED BY <1>2, <2>2, <3>3
  <2> QED BY <2>1, <2>2
<1> HIDE DEF ls
<1>6. x = s.body /\ y = s.other
  <2>1. CASE s.op = "if"
    BY <1>2, <1>5, <2>1, HalvesAre
  <2>2. CASE s.op # "if"
    <3>1. s.other = <<>> /\ Inner(s) = s.body
      BY <1>3, <2>2, StatementIs DEF Inner
    <3> QED BY <1>2, <1>5, <2>2, <3>1
  <2> QED BY <2>1, <2>2
<1> HIDE DEF x, y
<1> QED BY <1>2, <1>4, <1>6 DEF Entered

(***************************************************************************)
(* A block is complete when its last line has been collected.              *)
(***************************************************************************)
Counted(l, w) == l.op = w \/ (l.op = "run" /\ Mentions[l.arg] = w)

Counting(p, w) == {k \in 1 .. Len(p) : Counted(p[k], w)}

LEMMA TimesIs ==
    ASSUME NEW p \in Seq(TextLine), NEW w
    PROVE  Times(p, w) = Cardinality(Counting(p, w))
<1>1. DOMAIN p = 1 .. Len(p)
  OBVIOUS
<1>2. Counting(p, w) = {k \in DOMAIN p : p[k].op = w \/ (p[k].op = "run" /\ Mentions[p[k].arg] = w)}
  BY <1>1 DEF Counting, Counted
<1> QED BY <1>2 DEF Times

LEMMA LinesOfBlock ==
    ASSUME NEW s, FlatBlock(s), NEW k \in 1 .. Len(TextOf(s)), NEW w \in {"for", "while", "if", "done", "fi"}
    PROVE  /\ Len(TextOf(s)) \in Nat /\ Len(TextOf(s)) >= 3
           /\ Counted(TextOf(s)[k], w) <=> \/ k = 1 /\ w = s.op
                                           \/ k = Len(TextOf(s)) /\ w = Closing(s).op
<1> DEFINE b == TextOf(s)
           inner == Inner(s)
           n == Len(inner)
<1>1. Shape(b, HeadOf(s), Opening(s), inner, Closing(s)) /\ PlainText(inner)
  BY BlockText, InnerIsPlain
<1>2. s.op \in {"for", "while", "if"}
  BY DEF FlatBlock
<1>3. HeadOf(s).op = s.op /\ Opening(s).op \in {"do", "then"} /\ Closing(s).op \in {"done", "fi"}
  BY WordIsLine DEF HeadOf, Opening, Closing
<1> HIDE DEF b, inner
<1>4. n \in Nat /\ Len(b) = n + 3 /\ b[1] = HeadOf(s) /\ b[2] = Opening(s) /\ b[n + 3] = Closing(s)
      /\ \A i \in 1 .. n : b[i + 2] = inner[i]
  BY <1>1 DEF Shape, PlainText
<1>5. k \in 1 .. n + 3
  BY <1>4 DEF b
<1>6. CASE k = 1
  <2>1. b[k].op = s.op /\ k # Len(b)
    BY <1>3, <1>4, <1>6
  <2>2. Counted(b[k], w) <=> w = s.op
    BY <2>1, <1>2 DEF Counted
  <2> QED BY <1>4, <1>6, <2>1, <2>2 DEF b
<1>7. CASE k = 2
  <2>1. b[k].op \in {"do", "then"} /\ k # Len(b)
    BY <1>3, <1>4, <1>7
  <2>2. ~Counted(b[k], w)
    BY <2>1 DEF Counted
  <2> QED BY <1>4, <1>7, <2>1, <2>2 DEF b
<1>8. CASE k = n + 3
  <2>1. b[k].op = Closing(s).op /\ k # 1 /\ k = Len(b)
    BY <1>4, <1>8
  <2>2. Counted(b[k], w) <=> w = Closing(s).op
    BY <2>1, <1>3 DEF Counted
  <2> QED BY <1>4, <2>1, <2>2 DEF b
<1>9. CASE k \notin {1, 2, n + 3}
  <2>1. k - 2 \in 1 .. n /\ (k - 2) + 2 = k /\ k # Len(b)
    BY <1>4, <1>5, <1>9
  <2>2. b[k] = inner[k - 2]
    BY <1>4, <2>1
  <2>3. \/ b[k].op = "run" /\ Mentions[b[k].arg] = "none"
        \/ b[k].op = "else"
    BY <1>1, <2>1, <2>2 DEF PlainText
  <2>4. ~Counted(b[k], w)
    BY <2>3 DEF Counted
  <2> QED BY <1>4, <1>9, <2>1, <2>4 DEF b
<1> QED BY <1>6, <1>7, <1>8, <1>9

LEMMA CountsOfBlock ==
    ASSUME NEW s, FlatBlock(s), NEW p \in Seq(TextLine), Len(p) \in 1 .. Len(TextOf(s)),
           \A k \in 1 .. Len(p) : p[k] = TextOf(s)[k],
           NEW w \in {"for", "while", "if", "done", "fi"}
    PROVE  Times(p, w) = IF w = s.op \/ (w = Closing(s).op /\ Len(p) = Len(TextOf(s))) THEN 1 ELSE 0
<1> DEFINE n == Len(TextOf(s))
<1>0. n \in Nat /\ n >= 3 /\ Len(p) \in Nat /\ s.op \in {"for", "while", "if"} /\ Closing(s).op \in {"done", "fi"}
  <2>1. 1 \in 1 .. n
    <3>1. Shape(TextOf(s), HeadOf(s), Opening(s), Inner(s), Closing(s)) /\ Inner(s) \in Seq(TextLine)
      BY BlockText, InnerIsPlain DEF PlainText
    <3> QED BY <3>1 DEF Shape
  <2>2. n \in Nat /\ n >= 3
    BY <2>1, LinesOfBlock
  <2> QED BY <2>2, WordIsLine DEF FlatBlock, Closing
<1>1. \A k \in 1 .. Len(p) : Counted(p[k], w) <=> (k = 1 /\ w = s.op) \/ (k = n /\ w = Closing(s).op)
  <2> TAKE k \in 1 .. Len(p)
  <2>1. k \in 1 .. n /\ p[k] = TextOf(s)[k]
    BY <1>0
  <2>2. Counted(TextOf(s)[k], w) <=> (k = 1 /\ w = s.op) \/ (k = n /\ w = Closing(s).op)
    BY <2>1, LinesOfBlock
  <2> QED BY <2>1, <2>2
<1>2. Times(p, w) = Cardinality(Counting(p, w))
  BY TimesIs
<1> HIDE DEF n
<1>3. CASE w = s.op
  <2>1. w # Closing(s).op
    BY <1>0, <1>3
  <2>2. Counting(p, w) = {1}
    BY <1>0, <1>1, <1>3, <2>1 DEF Counting, n
  <2> QED BY <1>2, <1>3, <2>2, FS_Singleton
<1>4. CASE w # s.op /\ w = Closing(s).op /\ Len(p) = n
  <2>1. Counting(p, w) = {n}
    BY <1>0, <1>1, <1>4 DEF Counting
  <2> QED BY <1>2, <1>4, <2>1, FS_Singleton DEF n
<1>5. CASE w # s.op /\ ~(w = Closing(s).op /\ Len(p) = n)
  <2>1. Counting(p, w) = {}
    <3>1. Len(p) <= n
      BY DEF n
    <3> QED BY <1>0, <1>1, <1>5, <3>1 DEF Counting
  <2> QED BY <1>2, <1>5, <2>1, FS_EmptySet DEF n
<1> QED BY <1>3, <1>4, <1>5 DEF n

LEMMA BlockEnds ==
    ASSUME NEW s, FlatBlock(s), NEW p \in Seq(TextLine), Len(p) \in 1 .. Len(TextOf(s)),
           \A k \in 1 .. Len(p) : p[k] = TextOf(s)[k]
    PROVE  Complete(p) <=> Len(p) = Len(TextOf(s))
<1>1. s.op \in {"for", "while", "if"} /\ Closing(s).op = IF s.op = "if" THEN "fi" ELSE "done"
  BY WordIsLine DEF FlatBlock, Closing
<1> DEFINE c(w) == IF w = s.op \/ (w = Closing(s).op /\ Len(p) = Len(TextOf(s))) THEN 1 ELSE 0
<1>2. /\ Times(p, "for") = c("for") /\ Times(p, "while") = c("while") /\ Times(p, "if") = c("if")
      /\ Times(p, "done") = c("done") /\ Times(p, "fi") = c("fi")
  BY CountsOfBlock
<1>3. Complete(p) <=> c("for") + c("while") = c("done") /\ c("if") = c("fi")
  BY <1>2 DEF Complete
<1> QED BY <1>1, <1>3

(***************************************************************************)
(* The machine's types.                                                    *)
(***************************************************************************)
LEMMA BodyTypes ==
    ASSUME NEW b \in Seq(TextLine), b # <<>>, NEW opener, NEW end
    PROVE  Body(b, opener, end) \in Seq(TextLine)
<1> DEFINE rest == IF Len(b) > 1 /\ b[2].op = opener THEN SubSeq(b, 3, Len(b)) ELSE Tail(b)
           ends == {k \in DOMAIN rest : rest[k].op = end}
           m == IF ends = {} THEN Len(rest) ELSE (CHOOSE k \in ends : \A j \in ends : k <= j) - 1
<1>1. rest \in Seq(TextLine)
  <2>1. SubSeq(b, 3, Len(b)) \in Seq(TextLine)
    BY SomeOf
  <2>2. Tail(b) \in Seq(TextLine)
    OBVIOUS
  <2> QED BY <2>1, <2>2
<1>2. Body(b, opener, end) = SubSeq(rest, 1, m)
  BY DEF Body
<1> HIDE DEF rest
<1>3. m \in Nat /\ m <= Len(rest)
  <2>1. ends \subseteq 1 .. Len(rest)
    BY <1>1
  <2>2. CASE ends = {}
    BY <1>1, <2>2
  <2>3. CASE ends # {}
    <3>1. \E k \in ends : \A j \in ends : k <= j
      <4> HIDE DEF ends
      <4>1. ends \subseteq Nat
        BY <1>1, <2>1
      <4> QED BY <2>3, <4>1, LeastIs
    <3> DEFINE c == CHOOSE k \in ends : \A j \in ends : k <= j
    <3>2. c \in ends
      BY <3>1
    <3>3. m = c - 1
      BY <2>3
    <3> HIDE DEF c, ends, m
    <3>4. c \in 1 .. Len(rest)
      BY <2>1, <3>2
    <3> QED BY <1>1, <3>3, <3>4
  <2> QED BY <2>2, <2>3
<1> HIDE DEF m
<1>4. SubSeq(rest, 1, m) \in Seq(TextLine)
  BY <1>1, <1>3, SomeOf
<1> QED BY <1>2, <1>4

LEMMA NoElseTypes ==
    ASSUME NEW ls \in Seq(TextLine)
    PROVE  NoElse(ls) \in Seq(TextLine)
<1> DEFINE part(k) == IF ls[k].op = "else" THEN <<>> ELSE <<ls[k]>>
           parts == [k \in DOMAIN ls |-> part(k)]
           B == Seq(TextLine)
<1>1. ASSUME NEW k \in 1 .. Len(ls)
      PROVE  part(k) \in B
  <2>1. ls[k] \in TextLine
    OBVIOUS
  <2>2. <<ls[k]>> \in B /\ <<>> \in B
    BY <2>1
  <2> QED BY <2>2
<1>2. parts \in Seq(B)
  <2>1. DOMAIN ls = 1 .. Len(ls) /\ Len(ls) \in Nat
    OBVIOUS
  <2> HIDE DEF part, B
  <2> QED BY <1>1, <2>1
<1>3. FlattenSeq(parts) \in Seq(TextLine)
  <2> HIDE DEF parts
  <2> QED BY <1>2, FlattenLays
<1> QED BY <1>3 DEF NoElse

LEMMA HalvesTypes ==
    ASSUME NEW ls \in Seq(TextLine)
    PROVE  Halves(ls)[1] \in Seq(TextLine) /\ Halves(ls)[2] \in Seq(TextLine)
<1> DEFINE e == {k \in DOMAIN ls : ls[k].op = "else"}
           m == IF e = {} THEN Len(ls) + 1 ELSE CHOOSE k \in e : \A j \in e : k <= j
           p == SubSeq(ls, 1, m - 1)
           q == SubSeq(ls, m, Len(ls))
<1>1. m \in 1 .. Len(ls) + 1
  <2>1. e \subseteq 1 .. Len(ls)
    OBVIOUS
  <2>2. CASE e = {}
    BY <2>2
  <2>3. CASE e # {}
    <3>1. \E k \in e : \A j \in e : k <= j
      <4> HIDE DEF e
      <4>1. e \subseteq Nat
        BY <2>1
      <4> QED BY <2>3, <4>1, LeastIs
    <3> DEFINE c == CHOOSE k \in e : \A j \in e : k <= j
    <3>2. c \in e
      BY <3>1
    <3>3. m = c
      BY <2>3
    <3> HIDE DEF c, e, m
    <3> QED BY <2>1, <3>2, <3>3
  <2> QED BY <2>2, <2>3
<1>2. Halves(ls)[1] = p /\ Halves(ls)[2] = NoElse(q)
  <2>1. Halves(ls) = <<p, NoElse(q)>>
    BY DEF Halves
  <2> HIDE DEF p, q
  <2> QED BY <2>1
<1> HIDE DEF m
<1>3. p \in Seq(TextLine)
  <2>1. m - 1 \in Nat /\ m - 1 <= Len(ls)
    BY <1>1
  <2> QED BY <2>1, SomeOf
<1>4. q \in Seq(TextLine)
  <2>1. m \in Nat /\ m >= 1 /\ Len(ls) \in Nat
    BY <1>1
  <2> QED BY <2>1, SomeOf
<1>5. NoElse(q) \in Seq(TextLine)
  <2> HIDE DEF q
  <2> QED BY <1>4, NoElseTypes
<1> QED BY <1>2, <1>3, <1>5

(* A frame whose place and counter are in their ranges.                    *)
FrameRecords ==
    [op : {"for", "while", "if"}, arg : CommandName \cup Nat, at : Nat, turn : Nat, last : {0, 1},
     body : Seq(TextLine), other : Seq(TextLine)]

Frames ==
    {f \in FrameRecords : /\ f.at <= Len(f.body) + 1
                          /\ f.op = "for" => f.arg \in Nat
                          /\ f.op # "for" => f.arg \in CommandName /\ f.turn <= MaxIter}

(* A frame of these parts. *)
FrameOfParts(v, a, p, n, r, x, y) ==
    [op |-> v, arg |-> a, at |-> p, turn |-> n, last |-> r, body |-> x, other |-> y]

LEMMA FrameMade ==
    ASSUME NEW v \in {"for", "while", "if"}, NEW a, v = "for" => a \in Nat, NEW n \in Nat,
           v # "for" => a \in CommandName /\ n <= MaxIter,
           NEW x \in Seq(TextLine), NEW y \in Seq(TextLine), NEW p \in 0 .. Len(x) + 1, NEW r \in {0, 1}
    PROVE  /\ FrameOfParts(v, a, p, n, r, x, y) \in Frames
           /\ FrameOfParts(v, a, p, n, r, x, y).op = v /\ FrameOfParts(v, a, p, n, r, x, y).arg = a
           /\ FrameOfParts(v, a, p, n, r, x, y).at = p /\ FrameOfParts(v, a, p, n, r, x, y).turn = n
           /\ FrameOfParts(v, a, p, n, r, x, y).last = r /\ FrameOfParts(v, a, p, n, r, x, y).body = x
           /\ FrameOfParts(v, a, p, n, r, x, y).other = y
<1> DEFINE f == FrameOfParts(v, a, p, n, r, x, y)
<1>0. p \in Nat /\ p <= Len(x) + 1
  OBVIOUS
<1>1. f \in FrameRecords
  BY <1>0 DEF FrameRecords, FrameOfParts
<1>2. f.op = v /\ f.arg = a /\ f.at = p /\ f.turn = n /\ f.last = r /\ f.body = x /\ f.other = y
  BY DEF FrameOfParts
<1> HIDE DEF f
<1>3. f \in Frames
  BY <1>0, <1>1, <1>2 DEF Frames
<1> QED BY <1>2, <1>3 DEF f

LEMMA FrameOf ==
    ASSUME NEW f \in Frames
    PROVE  /\ f \in FrameRecords
           /\ f.op \in {"for", "while", "if"} /\ f.at \in 0 .. Len(f.body) + 1 /\ f.turn \in Nat /\ f.last \in {0, 1}
           /\ f.body \in Seq(TextLine) /\ f.other \in Seq(TextLine) /\ Len(f.body) \in Nat
           /\ f.op = "for" => f.arg \in Nat
           /\ f.op # "for" => f.arg \in CommandName /\ f.turn <= MaxIter
           /\ f = FrameOfParts(f.op, f.arg, f.at, f.turn, f.last, f.body, f.other)
<1>1. f \in FrameRecords /\ f.at <= Len(f.body) + 1 /\ (f.op = "for" => f.arg \in Nat)
      /\ (f.op # "for" => f.arg \in CommandName /\ f.turn <= MaxIter)
  BY DEF Frames
<1>2. f.op \in {"for", "while", "if"} /\ f.at \in Nat /\ f.turn \in Nat /\ f.last \in {0, 1}
      /\ f.body \in Seq(TextLine) /\ f.other \in Seq(TextLine)
      /\ f = FrameOfParts(f.op, f.arg, f.at, f.turn, f.last, f.body, f.other)
  BY <1>1 DEF FrameRecords, FrameOfParts
<1>3. Len(f.body) \in Nat
  BY <1>2
<1> QED BY <1>1, <1>2, <1>3

LEMMA FrameTypes ==
    ASSUME NEW b \in Seq(TextLine), b # <<>>, Opens(b[1])
    PROVE  Frame(b) \in Frames
<1> DEFINE ls == IF b[1].op = "if" THEN Body(b, "then", "fi") ELSE Body(b, "do", "done")
           x == IF b[1].op = "if" THEN Halves(ls)[1] ELSE ls
           y == IF b[1].op = "if" THEN Halves(ls)[2] ELSE <<>>
           v == b[1].op
           a == b[1].arg
<1>1. Frame(b) = FrameOfParts(v, a, 0, 0, 0, x, y)
  BY DEF Frame, FrameOfParts
<1>2. b[1] \in TextLine
  OBVIOUS
<1>3. v \in {"for", "while", "if"}
  BY DEF Opens
<1>4. (v = "for" => a \in Nat) /\ (v # "for" => a \in CommandName)
  BY <1>2, <1>3, TextLineIs
<1>5. ls \in Seq(TextLine)
  BY BodyTypes
<1>6. x \in Seq(TextLine) /\ y \in Seq(TextLine)
  <2> HIDE DEF ls
  <2>1. Halves(ls)[1] \in Seq(TextLine) /\ Halves(ls)[2] \in Seq(TextLine)
    BY <1>5, HalvesTypes
  <2>2. <<>> \in Seq(TextLine)
    OBVIOUS
  <2> QED BY <1>5, <2>1, <2>2
<1> HIDE DEF x, y, v, a
<1>7. 0 \in 0 .. Len(x) + 1 /\ 0 <= MaxIter
  BY <1>6, InterpreterAssumption
<1>8. FrameOfParts(v, a, 0, 0, 0, x, y) \in Frames
  BY <1>3, <1>4, <1>6, <1>7, FrameMade
<1> QED BY <1>1, <1>8

(* The same stack with another frame at its top.                           *)
Topped(S, T, g) == g \in Frames /\ T \in Seq(Frames) /\ Len(T) = Len(S) /\ T[1] = g /\ T # <<>>

LEMMA TopOf ==
    ASSUME NEW S \in Seq(Frames), S # <<>>
    PROVE  /\ S[1] \in Frames /\ Tail(S) \in Seq(Frames) /\ Len(S) \in Nat /\ Len(S) >= 1
           /\ Len(S) = 1 => Tail(S) = <<>>
<1>1. S[1] \in Frames /\ Len(S) \in Nat /\ Len(S) >= 1
  OBVIOUS
<1>2. Tail(S) \in Seq(Frames) /\ Len(Tail(S)) = Len(S) - 1
  OBVIOUS
<1> QED BY <1>1, <1>2

LEMMA Tops ==
    ASSUME NEW S \in Seq(Frames), S # <<>>, NEW g \in Frames, NEW T, T = [S EXCEPT ![1] = g]
    PROVE  Topped(S, T, g)
<1>1. 1 \in 1 .. Len(S) /\ DOMAIN S = 1 .. Len(S) /\ Len(S) \in Nat
  OBVIOUS
<1>2. T \in [1 .. Len(S) -> Frames] /\ T[1] = g
  BY <1>1
<1>3. T \in Seq(Frames) /\ Len(T) = Len(S)
  BY <1>1, <1>2
<1> QED BY <1>1, <1>2, <1>3 DEF Topped

LEMMA TopTurns ==
    ASSUME NEW S \in Seq(Frames), S # <<>>, NEW f, f = S[1],
           f.op # "for" => f.turn < MaxIter
    PROVE  Topped(S, [S EXCEPT ![1].turn = @ + 1, ![1].at = 1],
                  FrameOfParts(f.op, f.arg, 1, f.turn + 1, f.last, f.body, f.other))
<1> DEFINE T == [S EXCEPT ![1].turn = @ + 1, ![1].at = 1]
           n == f.turn + 1
           g == FrameOfParts(f.op, f.arg, 1, n, f.last, f.body, f.other)
           h == [[f EXCEPT !.turn = n] EXCEPT !.at = 1]
<1>0. 1 \in DOMAIN S
  OBVIOUS
<1>1. f \in Frames
  BY TopOf
<1>2. g \in Frames
  <2>1. n \in Nat /\ f.op \in {"for", "while", "if"} /\ 1 \in 0 .. Len(f.body) + 1
        /\ (f.op # "for" => n <= MaxIter)
    BY <1>1, FrameOf, InterpreterAssumption
  <2>2. /\ f.op = "for" => f.arg \in Nat
        /\ f.op # "for" => f.arg \in CommandName
        /\ f.body \in Seq(TextLine) /\ f.other \in Seq(TextLine) /\ f.last \in {0, 1}
    BY <1>1, FrameOf
  <2> HIDE DEF n
  <2> QED BY <2>1, <2>2, FrameMade
<1>3. h = g
  <2>1. f = FrameOfParts(f.op, f.arg, f.at, f.turn, f.last, f.body, f.other)
    BY <1>1, FrameOf
  <2> DEFINE v == f.op
             a == f.arg
             p == f.at
             k == f.turn
             r == f.last
             x == f.body
             y == f.other
             o == FrameOfParts(v, a, p, k, r, x, y)
  <2>2. f = o /\ g = FrameOfParts(v, a, 1, n, r, x, y)
    BY <2>1
  <2> HIDE DEF n, v, a, p, k, r, x, y, g
  <2>3. [o EXCEPT !.turn = n] = FrameOfParts(v, a, p, n, r, x, y)
    BY DEF FrameOfParts
  <2>4. [FrameOfParts(v, a, p, n, r, x, y) EXCEPT !.at = 1] = FrameOfParts(v, a, 1, n, r, x, y)
    BY DEF FrameOfParts
  <2> HIDE DEF o
  <2> QED BY <2>2, <2>3, <2>4
<1>4. T = [S EXCEPT ![1] = h]
  <2>1. T = [S EXCEPT ![1].turn = n, ![1].at = 1]
    BY Zenon
  <2>2. T = [[S EXCEPT ![1].turn = n] EXCEPT ![1].at = 1]
    BY <2>1
  <2> HIDE DEF n
  <2> QED BY <1>0, <2>2
<1>5. Topped(S, T, g)
  <2> HIDE DEF T, g, h
  <2> QED BY <1>2, <1>3, <1>4, Tops
<1> QED BY <1>5

LEMMA TopMoves ==
    ASSUME NEW S \in Seq(Frames), S # <<>>, NEW f, f = S[1], NEW z \in 0 .. Len(f.body) + 1
    PROVE  Topped(S, [S EXCEPT ![1].at = z],
                  FrameOfParts(f.op, f.arg, z, f.turn, f.last, f.body, f.other))
<1> DEFINE T == [S EXCEPT ![1].at = z]
           g == FrameOfParts(f.op, f.arg, z, f.turn, f.last, f.body, f.other)
           h == [f EXCEPT !.at = z]
<1>0. 1 \in DOMAIN S
  OBVIOUS
<1>1. f \in Frames
  BY TopOf
<1>2. g \in Frames
  <2>1. /\ f.op \in {"for", "while", "if"} /\ f.turn \in Nat
        /\ f.op # "for" => f.turn <= MaxIter
    BY <1>1, FrameOf
  <2>2. /\ f.op = "for" => f.arg \in Nat
        /\ f.op # "for" => f.arg \in CommandName
        /\ f.body \in Seq(TextLine) /\ f.other \in Seq(TextLine) /\ f.last \in {0, 1}
    BY <1>1, FrameOf
  <2> QED BY <2>1, <2>2, FrameMade
<1>3. h = g
  <2>1. f = FrameOfParts(f.op, f.arg, f.at, f.turn, f.last, f.body, f.other)
    BY <1>1, FrameOf
  <2> DEFINE v == f.op
             a == f.arg
             p == f.at
             k == f.turn
             r == f.last
             x == f.body
             y == f.other
             o == FrameOfParts(v, a, p, k, r, x, y)
  <2>2. f = o /\ g = FrameOfParts(v, a, z, k, r, x, y)
    BY <2>1
  <2> HIDE DEF v, a, p, k, r, x, y, g
  <2>3. [o EXCEPT !.at = z] = FrameOfParts(v, a, z, k, r, x, y)
    BY DEF FrameOfParts
  <2> HIDE DEF o
  <2> QED BY <2>2, <2>3
<1>4. T = [S EXCEPT ![1] = h]
  BY <1>0
<1>5. Topped(S, T, g)
  <2> HIDE DEF T, g, h
  <2> QED BY <1>2, <1>3, <1>4, Tops
<1> QED BY <1>5

LEMMA TopAnswers ==
    ASSUME NEW S \in Seq(Frames), S # <<>>, NEW f, f = S[1], NEW z \in {0, 1}
    PROVE  Topped(S, [S EXCEPT ![1].last = z],
                  FrameOfParts(f.op, f.arg, f.at, f.turn, z, f.body, f.other))
<1> DEFINE T == [S EXCEPT ![1].last = z]
           g == FrameOfParts(f.op, f.arg, f.at, f.turn, z, f.body, f.other)
           h == [f EXCEPT !.last = z]
<1>0. 1 \in DOMAIN S
  OBVIOUS
<1>1. f \in Frames
  BY TopOf
<1>2. g \in Frames
  <2>1. /\ f.op \in {"for", "while", "if"} /\ f.turn \in Nat /\ f.at \in 0 .. Len(f.body) + 1
        /\ f.op # "for" => f.turn <= MaxIter
    BY <1>1, FrameOf
  <2>2. /\ f.op = "for" => f.arg \in Nat
        /\ f.op # "for" => f.arg \in CommandName
        /\ f.body \in Seq(TextLine) /\ f.other \in Seq(TextLine)
    BY <1>1, FrameOf
  <2> QED BY ONLY <2>1, <2>2, FrameMade, z \in {0, 1}
<1>3. h = g
  <2>1. f = FrameOfParts(f.op, f.arg, f.at, f.turn, f.last, f.body, f.other)
    BY <1>1, FrameOf
  <2> DEFINE v == f.op
             a == f.arg
             p == f.at
             k == f.turn
             r == f.last
             x == f.body
             y == f.other
             o == FrameOfParts(v, a, p, k, r, x, y)
  <2>2. f = o /\ g = FrameOfParts(v, a, p, k, z, x, y)
    BY <2>1
  <2> HIDE DEF v, a, p, k, r, x, y, g
  <2>3. [o EXCEPT !.last = z] = FrameOfParts(v, a, p, k, z, x, y)
    BY DEF FrameOfParts
  <2> HIDE DEF o
  <2> QED BY <2>2, <2>3
<1>4. T = [S EXCEPT ![1] = h]
  BY <1>0
<1>5. Topped(S, T, g)
  <2> HIDE DEF T, g, h
  <2> QED BY <1>2, <1>3, <1>4, Tops
<1> QED BY <1>5

LEMMA TopChooses ==
    ASSUME NEW S \in Seq(Frames), S # <<>>, NEW f, f = S[1], NEW c \in BOOLEAN
    PROVE  Topped(S, [S EXCEPT ![1].at = 1, ![1].body = IF c THEN @ ELSE S[1].other],
                  FrameOfParts(f.op, f.arg, 1, f.turn, f.last, IF c THEN f.body ELSE f.other, f.other))
<1> DEFINE T == [S EXCEPT ![1].at = 1, ![1].body = IF c THEN @ ELSE S[1].other]
           z == IF c THEN f.body ELSE f.other
           g == FrameOfParts(f.op, f.arg, 1, f.turn, f.last, z, f.other)
           h == [[f EXCEPT !.at = 1] EXCEPT !.body = z]
<1>0. 1 \in DOMAIN S
  OBVIOUS
<1>1. f \in Frames
  BY TopOf
<1>2. g \in Frames
  <2>1. /\ f.op \in {"for", "while", "if"} /\ f.turn \in Nat
        /\ f.op # "for" => f.turn <= MaxIter
    BY <1>1, FrameOf
  <2>2. /\ f.op = "for" => f.arg \in Nat
        /\ f.op # "for" => f.arg \in CommandName
        /\ z \in Seq(TextLine) /\ f.other \in Seq(TextLine) /\ f.last \in {0, 1}
    BY <1>1, FrameOf
  <2> HIDE DEF z
  <2>3. 1 \in 0 .. Len(z) + 1
    BY <2>2
  <2> QED BY <2>1, <2>2, <2>3, FrameMade
<1>3. h = g
  <2>1. f = FrameOfParts(f.op, f.arg, f.at, f.turn, f.last, f.body, f.other)
    BY <1>1, FrameOf
  <2> DEFINE v == f.op
             a == f.arg
             p == f.at
             k == f.turn
             r == f.last
             x == f.body
             y == f.other
             o == FrameOfParts(v, a, p, k, r, x, y)
             w == z
  <2>2. f = o /\ g = FrameOfParts(v, a, 1, k, r, w, y)
    BY <2>1
  <2>2a. h = [[f EXCEPT !.at = 1] EXCEPT !.body = w]
    OBVIOUS
  <2> HIDE DEF v, a, p, k, r, x, y, g, w, h
  <2>3. [o EXCEPT !.at = 1] = FrameOfParts(v, a, 1, k, r, x, y)
    BY DEF FrameOfParts
  <2>4. [FrameOfParts(v, a, 1, k, r, x, y) EXCEPT !.body = w] = FrameOfParts(v, a, 1, k, r, w, y)
    BY DEF FrameOfParts
  <2> HIDE DEF o
  <2> QED BY <2>2, <2>2a, <2>3, <2>4
<1>4. T = [S EXCEPT ![1] = h]
  <2>0. S[1].other = f.other /\ f \in FrameRecords
    BY <1>1, FrameOf
  <2>1. T = [[S EXCEPT ![1].at = 1] EXCEPT ![1].body = IF c THEN @ ELSE f.other]
    BY <2>0
  <2> DEFINE U == [S EXCEPT ![1].at = 1]
  <2>2. U[1] = [f EXCEPT !.at = 1] /\ U = [S EXCEPT ![1] = [f EXCEPT !.at = 1]]
    BY <1>0
  <2>3. U[1].body = f.body
    BY <2>0, <2>2 DEF FrameRecords
  <2> HIDE DEF U
  <2>4. T = [U EXCEPT ![1].body = IF c THEN @ ELSE f.other]
    BY <2>1 DEF U
  <2>5. T = [U EXCEPT ![1].body = z]
    BY <2>3, <2>4
  <2> HIDE DEF T, z
  <2>6. T = [U EXCEPT ![1] = [U[1] EXCEPT !.body = z]]
    BY <2>5
  <2> QED BY <1>0, <2>2, <2>6
<1>5. Topped(S, T, g)
  <2> HIDE DEF T, g, h
  <2> QED BY <1>2, <1>3, <1>4, Tops
<1> QED BY <1>5

(* A status goes to the caller, if there is one.                           *)
Resumed(callers, r) == IF callers = <<>> THEN <<>> ELSE [callers EXCEPT ![1].last = r]

LEMMA ResumedTypes ==
    ASSUME NEW callers \in Seq(Frames), NEW r \in {0, 1}
    PROVE  Resumed(callers, r) \in Seq(Frames)
<1>1. CASE callers = <<>>
  BY <1>1 DEF Resumed
<1>2. CASE callers # <<>>
  <2>1. Topped(callers, [callers EXCEPT ![1].last = r],
               FrameOfParts(callers[1].op, callers[1].arg, callers[1].at, callers[1].turn, r, callers[1].body,
                            callers[1].other))
    BY <1>2, TopAnswers
  <2> QED BY <1>2, <2>1 DEF Resumed, Topped
<1> QED BY <1>1, <1>2

(* Programs and their text. *)
Places(stmts, spot, t) == Lays([k \in 1 .. Len(stmts) |-> TextOf(stmts[k])], spot, t)

LEMMA TextIsText ==
    ASSUME NEW s \in Statement
    PROVE  TextOf(s) \in Seq(TextLine)
<1>1. CASE s.op \in {"for", "while", "if"}
  BY <1>1, TextIsShape DEF Shape
<1>2. CASE s.op \notin {"for", "while", "if"}
  <2>1. TextOf(s) = <<s>> /\ s \in TextLine
    BY <1>2, StatementIs DEF TextOf
  <2>2. <<s>> \in Seq(TextLine)
    BY <2>1
  <2> QED BY <2>1, <2>2
<1> QED BY <1>1, <1>2

LEMMA TextTypes ==
    ASSUME NEW stmts \in Seq(Statement)
    PROVE  /\ Text(stmts) \in Seq(TextLine) /\ Front(Text(stmts)) \in Seq(TextLine)
           /\ \E spot \in [0 .. Len(stmts) -> Nat] : Places(stmts, spot, Text(stmts))
<1> DEFINE n == Len(stmts)
           B == Seq(TextLine)
           parts == [k \in 1 .. n |-> TextOf(stmts[k])]
<1>1. n \in Nat /\ \A k \in 1 .. n : stmts[k] \in Statement
  OBVIOUS
<1>2. \A k \in 1 .. n : TextOf(stmts[k]) \in B
  BY <1>1, TextIsText
<1>3. parts \in Seq(B) /\ Len(parts) = n
  <2> HIDE DEF n, B
  <2> QED BY <1>1, <1>2
<1>4. Text(stmts) = FlattenSeq(parts)
  <2>1. DOMAIN stmts = 1 .. n
    OBVIOUS
  <2> QED BY <2>1 DEF Text
<1>5. FlattenSeq(parts) \in Seq(TextLine)
      /\ \E spot \in [0 .. Len(parts) -> Nat] : Lays(parts, spot, FlattenSeq(parts))
  <2> HIDE DEF parts
  <2> QED BY <1>3, FlattenLays
<1>6. \E spot \in [0 .. n -> Nat] : Places(stmts, spot, Text(stmts))
  <2>1. PICK spot \in [0 .. n -> Nat] : Lays(parts, spot, FlattenSeq(parts))
    BY <1>3, <1>5
  <2> QED BY <1>4, <2>1 DEF Places
<1>7. ASSUME NEW t \in Seq(TextLine)
      PROVE  Front(t) \in Seq(TextLine)
  <2>1. Front(t) = SubSeq(t, 1, Len(t) - 1)
    BY DEF Front
  <2>2. CASE Len(t) = 0
    <3>1. SubSeq(t, 1, Len(t) - 1) = <<>>
      BY <2>2, SubSeqEmpty
    <3> QED BY <2>1, <3>1
  <2>3. CASE Len(t) # 0
    <3>1. Len(t) - 1 \in Nat /\ Len(t) - 1 <= Len(t) /\ 1 \in Nat /\ 1 >= 1
      BY <2>3
    <3> QED BY <2>1, <3>1, SomeOf
  <2> QED BY <2>2, <2>3
<1> QED BY <1>4, <1>5, <1>6, <1>7

(***************************************************************************)
(* Every step keeps the types.                                             *)
(***************************************************************************)
InterpTypes ==
    /\ wanted \in Seq(Statement) /\ program \in Seq(TextLine) /\ next \in 1 .. Len(program) + 1
    /\ block \in Seq(TextLine) /\ Size(block) <= MaxBlock /\ (block # <<>> => Opens(block[1]))
    /\ stack \in Seq(Frames) /\ status \in {0, 1} /\ alive \in BOOLEAN /\ loopvar \in Nat

LEMMA InitTypes == InterpInit => InterpTypes
<1> SUFFICES ASSUME InterpInit
             PROVE  InterpTypes
  OBVIOUS
<1>1. wanted \in Seq(Statement)
  BY InterpreterAssumption DEF InterpInit
<1>2. program \in Seq(TextLine)
  BY <1>1, TextTypes DEF InterpInit
<1>3. next \in 1 .. Len(program) + 1
  BY <1>2 DEF InterpInit
<1>4. block \in Seq(TextLine) /\ Size(block) <= MaxBlock /\ block = <<>>
  BY NoLines, InterpreterAssumption DEF InterpInit
<1>5. stack \in Seq(Frames) /\ status \in {0, 1} /\ alive \in BOOLEAN /\ loopvar \in Nat
  BY DEF InterpInit
<1> QED BY <1>1, <1>2, <1>3, <1>4, <1>5 DEF InterpTypes

LEMMA ExecTypes ==
    ASSUME NEW l \in TextLine, NEW callers \in Seq(Frames), ExecString(l, callers),
           status \in {0, 1}, alive \in BOOLEAN
    PROVE  stack' \in Seq(Frames) /\ status' \in {0, 1} /\ alive' \in BOOLEAN
<1>1. CASE /\ Opens(l) /\ stack' = <<Frame(<<l>>)>> \o callers
           /\ UNCHANGED <<alive, trace, status>>
  <2> DEFINE b == <<l>>
  <2>1. b \in Seq(TextLine) /\ b # <<>> /\ b[1] = l
    OBVIOUS
  <2> HIDE DEF b
  <2>2. Frame(b) \in Frames
    BY <1>1, <2>1, FrameTypes
  <2> DEFINE o == <<Frame(b)>>
  <2>3. o \in Seq(Frames)
    BY <2>2
  <2>4. stack' = o \o callers
    BY <1>1 DEF b
  <2> HIDE DEF o
  <2>5. stack' \in Seq(Frames)
    BY <2>3, <2>4, ConcatProperties
  <2> QED BY <1>1, <2>5
<1>2. CASE l.op = "exit" /\ alive' = FALSE /\ Return(callers, 0) /\ UNCHANGED trace
  <2>1. stack' = Resumed(callers, 0) /\ status' \in {0, 1}
    BY <1>2 DEF Return, Resumed
  <2> QED BY <1>2, <2>1, ResumedTypes
<1>3. CASE /\ ~Opens(l) /\ l.op # "exit"
           /\ LET c == IF l.op = "run" THEN l.arg ELSE l.op IN
                /\ trace' = Append(trace, <<c, loopvar>>)
                /\ Return(callers, Outcome(trace, c))
           /\ UNCHANGED alive
  <2> DEFINE c == IF l.op = "run" THEN l.arg ELSE l.op
             r == Outcome(trace, c)
  <2>1. r \in {0, 1}
    BY OutcomeIs
  <2>2. Return(callers, r) /\ alive' = alive
    BY <1>3
  <2> HIDE DEF r
  <2>3. stack' = Resumed(callers, r) /\ status' \in {0, 1}
    BY <2>1, <2>2 DEF Return, Resumed
  <2> QED BY <2>1, <2>2, <2>3, ResumedTypes
<1> QED BY <1>1, <1>2, <1>3 DEF ExecString

(* An action that only gives a status back. *)
LEMMA ReturnTypes ==
    ASSUME NEW callers \in Seq(Frames), NEW r \in {0, 1}, status \in {0, 1}, Return(callers, r)
    PROVE  stack' \in Seq(Frames) /\ status' \in {0, 1} /\ stack' = Resumed(callers, r)
<1>1. stack' = Resumed(callers, r) /\ status' \in {0, 1}
  BY DEF Return, Resumed
<1> QED BY <1>1, ResumedTypes

LEMMA ReadLineTypes == InterpTypes /\ ReadLine => InterpTypes'
<1> SUFFICES ASSUME InterpTypes, ReadLine
             PROVE  InterpTypes'
  OBVIOUS
<1> USE DEF InterpTypes
<1>1. program[next] \in TextLine /\ next' \in 1 .. Len(program) + 1 /\ Len(program) \in Nat
  BY DEF ReadLine, Reads
<1>2. wanted' = wanted /\ program' = program /\ loopvar' = loopvar
  BY DEF ReadLine
<1>3. CASE Opens(program[next]) /\ block' = <<program[next]>> /\ UNCHANGED <<stack, alive, trace, status>>
  <2> DEFINE l == program[next]
             b == <<l>>
  <2>1. b \in Seq(TextLine) /\ Len(b) = 1 /\ b[1] = l
    BY <1>1
  <2>2. block' = b
    BY <1>3
  <2> HIDE DEF b
  <2>a. LineLen(l) \in Nat /\ LineLen(l) < MaxBlock /\ MaxBlock \in Nat
    BY <1>1, <1>3, HeadFits, LineLenIs, InterpreterAssumption
  <2>b. Size(b) = LineLen(l) + 1
    BY <1>1, OneLine DEF b
  <2>3. Size(block') <= MaxBlock
    <3> HIDE DEF l
    <3> QED BY <2>a, <2>b, <2>2
  <2>4. Opens(block'[1])
    BY <1>3, <2>1, <2>2
  <2> HIDE DEF l
  <2> QED BY <1>1, <1>2, <1>3, <2>1, <2>2, <2>3, <2>4
<1>4. CASE ~Opens(program[next]) /\ ExecString(program[next], <<>>) /\ UNCHANGED block
  <2>1. <<>> \in Seq(Frames)
    OBVIOUS
  <2>2. stack' \in Seq(Frames) /\ status' \in {0, 1} /\ alive' \in BOOLEAN
    BY <1>1, <1>4, <2>1, ExecTypes
  <2> QED BY <1>1, <1>2, <1>4, <2>2
<1> QED BY <1>3, <1>4 DEF ReadLine

LEMMA CollectLineTypes == InterpTypes /\ CollectLine => InterpTypes'
<1> SUFFICES ASSUME InterpTypes, CollectLine
             PROVE  InterpTypes'
  OBVIOUS
<1>0. /\ wanted \in Seq(Statement) /\ program \in Seq(TextLine) /\ next \in 1 .. Len(program) + 1
      /\ block \in Seq(TextLine) /\ Size(block) <= MaxBlock /\ (block # <<>> => Opens(block[1]))
      /\ stack \in Seq(Frames) /\ status \in {0, 1} /\ alive \in BOOLEAN /\ loopvar \in Nat
  BY DEF InterpTypes
<1>1. program[next] \in TextLine /\ next' \in 1 .. Len(program) + 1 /\ Len(program) \in Nat /\ block # <<>>
  BY <1>0 DEF CollectLine, Reads
<1>2. wanted' = wanted /\ program' = program /\ loopvar' = loopvar /\ alive' = alive /\ status' = status
  BY DEF CollectLine
<1>3. CASE /\ Size(Append(block, program[next])) < MaxBlock
           /\ block' = Append(block, program[next]) /\ UNCHANGED stack
  <2> DEFINE l == program[next]
  <2>1. l \in TextLine /\ block' = Append(block, l)
    BY <1>1, <1>3
  <2> HIDE DEF l
  <2>2. block' \in Seq(TextLine) /\ Len(block') = Len(block) + 1 /\ Len(block) \in Nat /\ block'[1] = block[1]
    BY <1>0, <1>1, <2>1
  <2>3. Size(block') <= MaxBlock
    <3>1. Size(block') \in Nat /\ Size(block') < MaxBlock
      BY <1>3, <2>2, SizeIs DEF SizeGoes
    <3> QED BY <3>1, InterpreterAssumption
  <2>4. Opens(block'[1])
    BY <1>0, <1>1, <2>2
  <2>5. stack' = stack
    BY <1>3
  <2> QED BY <1>0, <1>1, <1>2, <2>2, <2>3, <2>4, <2>5 DEF InterpTypes
<1>4. CASE block' = <<>> /\ stack' = <<Frame(block)>>
  <2> DEFINE f == Frame(block)
  <2>1. f \in Frames
    BY <1>0, <1>1, FrameTypes
  <2> HIDE DEF f
  <2>2. <<f>> \in Seq(Frames)
    BY <2>1
  <2>3. stack' \in Seq(Frames)
    BY <1>4, <2>2 DEF f
  <2>4. block' \in Seq(TextLine) /\ Size(block') <= MaxBlock /\ block' = <<>>
    BY <1>4, NoLines, InterpreterAssumption
  <2> QED BY <1>0, <1>1, <1>2, <2>3, <2>4 DEF InterpTypes
<1> QED BY <1>3, <1>4 DEF CollectLine

LEMMA RunBlockTypes == InterpTypes /\ RunBlock => InterpTypes'
<1> SUFFICES ASSUME InterpTypes, RunBlock
             PROVE  InterpTypes'
  OBVIOUS
<1>0. /\ wanted \in Seq(Statement) /\ program \in Seq(TextLine) /\ next \in 1 .. Len(program) + 1
      /\ block \in Seq(TextLine) /\ (block # <<>> => Opens(block[1]))
      /\ status \in {0, 1} /\ alive \in BOOLEAN /\ loopvar \in Nat
  BY DEF InterpTypes
<1>1. block # <<>> /\ stack' = <<Frame(block)>> /\ block' = <<>>
  BY DEF RunBlock
<1>2. wanted' = wanted /\ program' = program /\ next' = next /\ alive' = alive /\ loopvar' = loopvar
      /\ status' = status
  BY DEF RunBlock
<1> DEFINE f == Frame(block)
<1>3. f \in Frames
  BY <1>0, <1>1, FrameTypes
<1> HIDE DEF f
<1>4. <<f>> \in Seq(Frames)
  BY <1>3
<1>5. stack' \in Seq(Frames)
  BY <1>1, <1>4 DEF f
<1>6. block' \in Seq(TextLine) /\ Size(block') <= MaxBlock /\ block' = <<>>
  BY <1>1, NoLines, InterpreterAssumption
<1> QED BY <1>0, <1>2, <1>5, <1>6 DEF InterpTypes

(* What the steps of a block leave alone.                                  *)
LEMMA BlockTypes ==
    ASSUME InterpTypes, UNCHANGED <<wanted, program, script, next, block>>,
           stack' \in Seq(Frames), status' \in {0, 1}, alive' \in BOOLEAN, loopvar' \in Nat
    PROVE  InterpTypes'
<1>1. wanted' = wanted /\ program' = program /\ next' = next /\ block' = block
  OBVIOUS
<1> QED BY <1>1 DEF InterpTypes

LEMMA StackTop ==
    ASSUME InterpTypes, stack # <<>>
    PROVE  /\ stack \in Seq(Frames) /\ stack[1] \in Frames /\ Tail(stack) \in Seq(Frames)
           /\ Len(stack) \in Nat /\ Len(stack) >= 1 /\ (Len(stack) = 1 => Tail(stack) = <<>>)
           /\ stack[1].last \in {0, 1} /\ status \in {0, 1} /\ alive \in BOOLEAN /\ loopvar \in Nat
<1>1. stack \in Seq(Frames) /\ status \in {0, 1} /\ alive \in BOOLEAN /\ loopvar \in Nat
  BY DEF InterpTypes
<1>2. stack[1] \in Frames /\ Tail(stack) \in Seq(Frames)
           /\ Len(stack) \in Nat /\ Len(stack) >= 1 /\ (Len(stack) = 1 => Tail(stack) = <<>>)
  BY <1>1, TopOf
<1>3. stack[1].last \in {0, 1}
  BY <1>2, FrameOf
<1> QED BY <1>1, <1>2, <1>3

LEMMA ForHeadTypes == InterpTypes /\ ForHead => InterpTypes'
<1> SUFFICES ASSUME InterpTypes, ForHead
             PROVE  InterpTypes'
  OBVIOUS
<1>1. stack # <<>> /\ stack[1].op = "for" /\ UNCHANGED <<wanted, program, script, next, block>> /\ alive' = alive
  BY DEF ForHead
<1>2. /\ stack \in Seq(Frames) /\ stack[1] \in Frames /\ Tail(stack) \in Seq(Frames)
      /\ stack[1].last \in {0, 1} /\ status \in {0, 1} /\ alive \in BOOLEAN /\ loopvar \in Nat
  BY <1>1, StackTop
<1>3. stack[1].turn \in Nat
  BY <1>2, FrameOf
<1>4. CASE /\ stack' = [stack EXCEPT ![1].turn = @ + 1, ![1].at = 1]
           /\ loopvar' = stack[1].turn + 1 /\ UNCHANGED status
  <2> DEFINE f == stack[1]
  <2>1. Topped(stack, [stack EXCEPT ![1].turn = @ + 1, ![1].at = 1],
               FrameOfParts(f.op, f.arg, 1, f.turn + 1, f.last, f.body, f.other))
    BY <1>1, <1>2, TopTurns
  <2>2. stack' \in Seq(Frames)
    BY <1>4, <2>1 DEF Topped
  <2> QED BY <1>1, <1>2, <1>3, <1>4, <2>2, BlockTypes
<1>5. CASE loopvar' = 0 /\ Return(Tail(stack), stack[1].last)
  <2>1. stack' \in Seq(Frames) /\ status' \in {0, 1}
    BY <1>2, <1>5, ReturnTypes
  <2> QED BY <1>1, <1>2, <1>5, <2>1, BlockTypes
<1> QED BY <1>4, <1>5 DEF ForHead

LEMMA WhileHeadTypes == InterpTypes /\ WhileHead => InterpTypes'
<1> SUFFICES ASSUME InterpTypes, WhileHead
             PROVE  InterpTypes'
  OBVIOUS
<1>1. stack # <<>> /\ stack[1].op = "while" /\ UNCHANGED <<wanted, program, script, next, block>> /\ alive' = alive
      /\ loopvar' = loopvar
  BY DEF WhileHead
<1>2. /\ stack \in Seq(Frames) /\ stack[1] \in Frames /\ Tail(stack) \in Seq(Frames)
      /\ stack[1].last \in {0, 1} /\ status \in {0, 1} /\ alive \in BOOLEAN /\ loopvar \in Nat
  BY <1>1, StackTop
<1>3. CASE Return(Tail(stack), stack[1].last)
  <2>1. stack' \in Seq(Frames) /\ status' \in {0, 1}
    BY <1>2, <1>3, ReturnTypes
  <2> QED BY <1>1, <1>2, <2>1, BlockTypes
<1>4. CASE Return(Tail(stack), 1)
  <2>1. stack' \in Seq(Frames) /\ status' \in {0, 1}
    BY <1>2, <1>4, ReturnTypes
  <2> QED BY <1>1, <1>2, <2>1, BlockTypes
<1>5. CASE /\ stack[1].turn < MaxIter
           /\ stack' = [stack EXCEPT ![1].turn = @ + 1, ![1].at = 1] /\ UNCHANGED status
  <2> DEFINE f == stack[1]
  <2>1. Topped(stack, [stack EXCEPT ![1].turn = @ + 1, ![1].at = 1],
               FrameOfParts(f.op, f.arg, 1, f.turn + 1, f.last, f.body, f.other))
    BY <1>1, <1>2, <1>5, TopTurns
  <2>2. stack' \in Seq(Frames)
    BY <1>5, <2>1 DEF Topped
  <2> QED BY <1>1, <1>2, <1>5, <2>2, BlockTypes
<1> QED BY <1>3, <1>4, <1>5 DEF WhileHead

LEMMA IfHeadTypes == InterpTypes /\ IfHead => InterpTypes'
<1> SUFFICES ASSUME InterpTypes, IfHead
             PROVE  InterpTypes'
  OBVIOUS
<1> DEFINE c == Outcome(trace, stack[1].arg) = 0
           f == stack[1]
<1>1. stack # <<>> /\ UNCHANGED <<wanted, program, script, next, block>> /\ alive' = alive
      /\ loopvar' = loopvar /\ status' = status
      /\ stack' = [stack EXCEPT ![1].at = 1, ![1].body = IF c THEN @ ELSE stack[1].other]
  BY DEF IfHead
<1>2. /\ stack \in Seq(Frames) /\ status \in {0, 1} /\ alive \in BOOLEAN /\ loopvar \in Nat
  BY <1>1, StackTop
<1>3. c \in BOOLEAN
  OBVIOUS
<1> HIDE DEF c
<1>4. Topped(stack, [stack EXCEPT ![1].at = 1, ![1].body = IF c THEN @ ELSE stack[1].other],
             FrameOfParts(f.op, f.arg, 1, f.turn, f.last, IF c THEN f.body ELSE f.other, f.other))
  BY <1>1, <1>2, <1>3, TopChooses
<1>5. stack' \in Seq(Frames)
  BY <1>1, <1>4 DEF Topped
<1> QED BY <1>1, <1>2, <1>5, BlockTypes

LEMMA BodyLineTypes == InterpTypes /\ BodyLine => InterpTypes'
<1> SUFFICES ASSUME InterpTypes, BodyLine
             PROVE  InterpTypes'
  OBVIOUS
<1> DEFINE f == stack[1]
           z == f.at + 1
           callers == [stack EXCEPT ![1].at = z]
<1>1. stack # <<>> /\ UNCHANGED <<wanted, program, script, next, block>> /\ loopvar' = loopvar
      /\ f.at \in DOMAIN f.body
  BY DEF BodyLine
<1>2. /\ stack \in Seq(Frames) /\ f \in Frames /\ status \in {0, 1} /\ alive \in BOOLEAN /\ loopvar \in Nat
  BY <1>1, StackTop
<1>3. f.body \in Seq(TextLine) /\ Len(f.body) \in Nat
  BY <1>2, FrameOf
<1>4. f.body[f.at] \in TextLine /\ z \in 0 .. Len(f.body) + 1
  BY <1>1, <1>3
<1>5. ExecString(f.body[f.at], callers)
  BY DEF BodyLine
<1> HIDE DEF z
<1>6. Topped(stack, callers, FrameOfParts(f.op, f.arg, z, f.turn, f.last, f.body, f.other))
  BY <1>1, <1>2, <1>4, TopMoves
<1>7. callers \in Seq(Frames)
  BY <1>6 DEF Topped
<1> HIDE DEF callers
<1>8. stack' \in Seq(Frames) /\ status' \in {0, 1} /\ alive' \in BOOLEAN
  BY <1>2, <1>4, <1>5, <1>7, ExecTypes
<1> QED BY <1>1, <1>2, <1>8, BlockTypes

LEMMA BodyEndTypes == InterpTypes /\ BodyEnd => InterpTypes'
<1> SUFFICES ASSUME InterpTypes, BodyEnd
             PROVE  InterpTypes'
  OBVIOUS
<1> DEFINE f == stack[1]
<1>1. stack # <<>> /\ UNCHANGED <<wanted, program, script, next, block>> /\ loopvar' = loopvar /\ alive' = alive
  BY DEF BodyEnd
<1>2. /\ stack \in Seq(Frames) /\ f \in Frames /\ status \in {0, 1} /\ alive \in BOOLEAN /\ loopvar \in Nat
      /\ Tail(stack) \in Seq(Frames) /\ f.last \in {0, 1}
  BY <1>1, StackTop
<1>3. CASE stack' = [stack EXCEPT ![1].at = 0] /\ UNCHANGED status
  <2>1. 0 \in 0 .. Len(f.body) + 1
    BY <1>2, FrameOf
  <2>2. Topped(stack, [stack EXCEPT ![1].at = 0], FrameOfParts(f.op, f.arg, 0, f.turn, f.last, f.body, f.other))
    BY <1>1, <1>2, <2>1, TopMoves
  <2>3. stack' \in Seq(Frames)
    BY <1>3, <2>2 DEF Topped
  <2> QED BY <1>1, <1>2, <1>3, <2>3, BlockTypes
<1>4. CASE Return(Tail(stack), stack[1].last)
  <2>1. stack' \in Seq(Frames) /\ status' \in {0, 1}
    BY <1>2, <1>4, ReturnTypes
  <2> QED BY <1>1, <1>2, <2>1, BlockTypes
<1> QED BY <1>3, <1>4 DEF BodyEnd

LEMMA StepTypes == InterpTypes /\ [InterpNext]_interpVars => InterpTypes'
<1>1. InterpTypes /\ UNCHANGED interpVars => InterpTypes'
  BY DEF InterpTypes, interpVars
<1> QED
  BY <1>1, ReadLineTypes, CollectLineTypes, RunBlockTypes, ForHeadTypes, WhileHeadTypes, IfHeadTypes,
     BodyLineTypes, BodyEndTypes
     DEF InterpNext

LEMMA TypesAreOK == InterpTypes => InterpTypeOK
<1> SUFFICES ASSUME InterpTypes
             PROVE  InterpTypeOK
  OBVIOUS
<1>1. /\ next \in 1 .. Len(program) + 1 /\ Size(block) <= MaxBlock /\ status \in {0, 1} /\ alive \in BOOLEAN
      /\ stack \in Seq(Frames)
  BY DEF InterpTypes
<1>2. ASSUME NEW k \in DOMAIN stack
      PROVE  stack[k].at \in 0 .. (Len(stack[k].body) + 1) /\ (stack[k].op # "for" => stack[k].turn <= MaxIter)
  <2>1. stack[k] \in Frames
    BY <1>1
  <2> QED BY <2>1, FrameOf
<1> QED BY <1>1, <1>2 DEF InterpTypeOK

(***************************************************************************)
(* How far a block is: what ran of it, u, is what its meaning says of the  *)
(* turns and the lines done; m is the state its execution began with.      *)
(***************************************************************************)
ForUnder(p, n, s, m, u) ==
    \/ p = 0 /\ n \in 0 .. s.arg /\ u = ForDone(s, m)[n]
    \/ p \in 1 .. Len(s.body) + 1 /\ n \in 1 .. s.arg
       /\ u = LinesDone(s.body, With(ForDone(s, m)[n - 1], n))[p - 1]

WhileUnder(p, n, s, m, u) ==
    \/ p = 0 /\ n \in 0 .. MaxIter /\ u = WhileDone(s, m)[n]
    \/ p \in 1 .. Len(s.body) + 1 /\ n \in 1 .. MaxIter /\ Holds(s.arg, WhileDone(s, m)[n - 1])
       /\ u = LinesDone(s.body, Asked(s.arg, WhileDone(s, m)[n - 1]))[p - 1]

IfUnder(p, x, y, s, m, u) ==
    \/ p = 0 /\ x = s.body /\ y = s.other /\ u = m
    \/ p \in 1 .. Len(x) + 1 /\ x = Chosen(s, m) /\ u = LinesDone(x, Asked(s.arg, m))[p - 1]

Under(f, s, m, u) ==
    /\ f.op = s.op /\ f.arg = s.arg
    /\ s.op = "for" => f.body = s.body /\ ForUnder(f.at, f.turn, s, m, u)
    /\ s.op = "while" => f.body = s.body /\ WhileUnder(f.at, f.turn, s, m, u)
    /\ s.op = "if" => IfUnder(f.at, f.body, f.other, s, m, u)

LEMMA PartsAre ==
    ASSUME NEW v, NEW a, NEW p, NEW n, NEW r, NEW x, NEW y
    PROVE  /\ FrameOfParts(v, a, p, n, r, x, y).op = v /\ FrameOfParts(v, a, p, n, r, x, y).arg = a
           /\ FrameOfParts(v, a, p, n, r, x, y).at = p /\ FrameOfParts(v, a, p, n, r, x, y).turn = n
           /\ FrameOfParts(v, a, p, n, r, x, y).last = r /\ FrameOfParts(v, a, p, n, r, x, y).body = x
           /\ FrameOfParts(v, a, p, n, r, x, y).other = y
  BY DEF FrameOfParts

(* What a turn of a for begins with, and one of a while. *)
LEMMA ForTurn ==
    ASSUME NEW s, FlatBlock(s), s.op = "for", NEW m \in States, NEW n \in 1 .. s.arg
    PROVE  LET w == With(ForDone(s, Zero(m))[n - 1], n)
           IN  /\ w \in States /\ LinesGo(s.body, w) /\ SimpleText(s.body)
               /\ ForDone(s, Zero(m))[n] = Lines(s.body, w) /\ ForDone(s, Zero(m))[n - 1] \in States
<1> DEFINE w == With(ForDone(s, Zero(m))[n - 1], n)
<1>1. ForGoes(s, Zero(m)) /\ s.arg \in Nat /\ SimpleText(s.body)
  BY ForMeans DEF FlatBlock
<1>2. n - 1 \in 0 .. s.arg /\ n \in Nat
  BY <1>1
<1>3. ForDone(s, Zero(m))[n - 1] \in States /\ ForDone(s, Zero(m))[n] = Lines(s.body, w)
  BY <1>1, <1>2 DEF ForGoes
<1>4. w \in States
  BY <1>2, <1>3, WithIs
<1> HIDE DEF w
<1>5. LinesGo(s.body, w)
  BY <1>1, <1>4, LinesAre
<1> QED BY <1>1, <1>3, <1>4, <1>5 DEF w

LEMMA WhileTurns ==
    ASSUME NEW s, FlatBlock(s), s.op = "while", NEW m \in States, NEW n \in 1 .. MaxIter,
           Holds(s.arg, WhileDone(s, Zero(m))[n - 1])
    PROVE  LET w == Asked(s.arg, WhileDone(s, Zero(m))[n - 1])
           IN  /\ w \in States /\ LinesGo(s.body, w) /\ SimpleText(s.body)
               /\ WhileDone(s, Zero(m))[n] = Lines(s.body, w) /\ WhileDone(s, Zero(m))[n - 1] \in States
<1> DEFINE w == Asked(s.arg, WhileDone(s, Zero(m))[n - 1])
<1>1. WhileGoes(s, Zero(m)) /\ s.arg \in CommandName /\ SimpleText(s.body) /\ MaxIter \in Nat
  BY WhileMeans, InterpreterAssumption DEF FlatBlock
<1>2. n - 1 \in 0 .. MaxIter
  BY <1>1
<1>3. WhileDone(s, Zero(m))[n - 1] \in States
      /\ WhileDone(s, Zero(m))[n] = WhileTurn(s, WhileDone(s, Zero(m))[n - 1])
  BY <1>1, <1>2 DEF WhileGoes
<1>4. w \in States
  BY <1>1, <1>3, AskedIs
<1>5. WhileDone(s, Zero(m))[n] = Lines(s.body, w)
  BY <1>3 DEF WhileTurn
<1> HIDE DEF w
<1>6. LinesGo(s.body, w)
  BY <1>1, <1>4, LinesAre
<1> QED BY <1>1, <1>3, <1>4, <1>5, <1>6 DEF w

LEMMA UnderEnters ==
    ASSUME NEW s, FlatBlock(s), NEW m \in States
    PROVE  Under(Entered(s), s, Zero(m), Zero(m))
<1> DEFINE f == Entered(s)
<1>1. f.op = s.op /\ f.arg = s.arg /\ f.at = 0 /\ f.turn = 0 /\ f.body = s.body /\ f.other = s.other
  BY DEF Entered
<1> HIDE DEF f
<1>2. s.op = "for" => ForUnder(0, 0, s, Zero(m), Zero(m))
  <2> SUFFICES ASSUME s.op = "for"
               PROVE  ForUnder(0, 0, s, Zero(m), Zero(m))
    OBVIOUS
  <2>1. ForGoes(s, Zero(m)) /\ s.arg \in Nat
    BY ForMeans
  <2>2. ForDone(s, Zero(m))[0] = Zero(m) /\ 0 \in 0 .. s.arg
    BY <2>1 DEF ForGoes
  <2> QED BY <2>2 DEF ForUnder
<1>3. s.op = "while" => WhileUnder(0, 0, s, Zero(m), Zero(m))
  <2> SUFFICES ASSUME s.op = "while"
               PROVE  WhileUnder(0, 0, s, Zero(m), Zero(m))
    OBVIOUS
  <2>1. WhileGoes(s, Zero(m)) /\ MaxIter \in Nat
    BY WhileMeans, InterpreterAssumption
  <2>2. WhileDone(s, Zero(m))[0] = Zero(m) /\ 0 \in 0 .. MaxIter
    BY <2>1 DEF WhileGoes
  <2> QED BY <2>2 DEF WhileUnder
<1>4. s.op = "if" => IfUnder(0, s.body, s.other, s, Zero(m), Zero(m))
  BY DEF IfUnder
<1>5. Under(f, s, Zero(m), Zero(m))
  BY <1>1, <1>2, <1>3, <1>4 DEF Under
<1> QED BY <1>5 DEF f

LEMMA UnderIsState ==
    ASSUME NEW s, FlatBlock(s), NEW m \in States, NEW f, NEW u, Under(f, s, Zero(m), u)
    PROVE  u \in States
<1>1. s.op \in {"for", "while", "if"}
  BY DEF FlatBlock
<1>2. CASE s.op = "for"
  <2>1. ForUnder(f.at, f.turn, s, Zero(m), u)
    BY <1>2 DEF Under
  <2>2. CASE f.at = 0 /\ f.turn \in 0 .. s.arg /\ u = ForDone(s, Zero(m))[f.turn]
    <3>1. ForGoes(s, Zero(m))
      BY <1>2, ForMeans
    <3> QED BY <2>2, <3>1 DEF ForGoes
  <2>3. CASE f.at \in 1 .. Len(s.body) + 1 /\ f.turn \in 1 .. s.arg
             /\ u = LinesDone(s.body, With(ForDone(s, Zero(m))[f.turn - 1], f.turn))[f.at - 1]
    <3> DEFINE w == With(ForDone(s, Zero(m))[f.turn - 1], f.turn)
    <3>1. LinesGo(s.body, w) /\ Len(s.body) \in Nat
      BY <1>2, <2>3, ForTurn DEF SimpleText
    <3>2. f.at - 1 \in 0 .. Len(s.body)
      BY <2>3, <3>1
    <3> QED BY <2>3, <3>1, <3>2 DEF LinesGo
  <2> QED BY <2>1, <2>2, <2>3 DEF ForUnder
<1>3. CASE s.op = "while"
  <2>1. WhileUnder(f.at, f.turn, s, Zero(m), u)
    BY <1>3 DEF Under
  <2>2. CASE f.at = 0 /\ f.turn \in 0 .. MaxIter /\ u = WhileDone(s, Zero(m))[f.turn]
    <3>1. WhileGoes(s, Zero(m))
      BY <1>3, WhileMeans
    <3> QED BY <2>2, <3>1 DEF WhileGoes
  <2>3. CASE f.at \in 1 .. Len(s.body) + 1 /\ f.turn \in 1 .. MaxIter
             /\ Holds(s.arg, WhileDone(s, Zero(m))[f.turn - 1])
             /\ u = LinesDone(s.body, Asked(s.arg, WhileDone(s, Zero(m))[f.turn - 1]))[f.at - 1]
    <3> DEFINE w == Asked(s.arg, WhileDone(s, Zero(m))[f.turn - 1])
    <3>1. LinesGo(s.body, w) /\ Len(s.body) \in Nat
      BY <1>3, <2>3, WhileTurns DEF SimpleText
    <3>2. f.at - 1 \in 0 .. Len(s.body)
      BY <2>3, <3>1
    <3> QED BY <2>3, <3>1, <3>2 DEF LinesGo
  <2> QED BY <2>1, <2>2, <2>3 DEF WhileUnder
<1>4. CASE s.op = "if"
  <2>1. IfUnder(f.at, f.body, f.other, s, Zero(m), u)
    BY <1>4 DEF Under
  <2>2. CASE u = Zero(m)
    BY <2>2, ZeroIs
  <2>3. CASE f.at \in 1 .. Len(f.body) + 1 /\ f.body = Chosen(s, Zero(m))
             /\ u = LinesDone(f.body, Asked(s.arg, Zero(m)))[f.at - 1]
    <3>1. LinesGo(f.body, Asked(s.arg, Zero(m))) /\ Len(f.body) \in Nat
      BY <1>4, <2>3, IfMeans DEF SimpleText
    <3>2. f.at - 1 \in 0 .. Len(f.body)
      BY <2>3, <3>1
    <3> QED BY <2>3, <3>1, <3>2 DEF LinesGo
  <2> QED BY <2>1, <2>2, <2>3 DEF IfUnder
<1> QED BY <1>1, <1>2, <1>3, <1>4

LEMMA ForGoesOn ==
    ASSUME NEW s, FlatBlock(s), s.op = "for", NEW m \in States, NEW f, NEW u, Under(f, s, Zero(m), u),
           f.at = 0
    PROVE  /\ f.turn \in 0 .. s.arg /\ s.arg \in Nat
           /\ f.turn < s.arg =>
                Under(FrameOfParts(f.op, f.arg, 1, f.turn + 1, f.last, f.body, f.other), s, Zero(m),
                      With(u, f.turn + 1))
           /\ f.turn = s.arg => With(u, 0) = Means(s, m)
<1>1. /\ ForUnder(f.at, f.turn, s, Zero(m), u) /\ f.body = s.body /\ f.op = s.op /\ f.arg = s.arg
  BY DEF Under
<1>2. s.arg \in Nat /\ Means(s, m) = With(ForDone(s, Zero(m))[s.arg], 0) /\ Len(s.body) \in Nat
  BY ForMeans DEF FlatBlock, SimpleText
<1>3. f.turn \in 0 .. s.arg /\ u = ForDone(s, Zero(m))[f.turn]
  BY <1>1 DEF ForUnder
<1>4. ASSUME f.turn < s.arg
      PROVE  Under(FrameOfParts(f.op, f.arg, 1, f.turn + 1, f.last, f.body, f.other), s, Zero(m),
                   With(u, f.turn + 1))
  <2> DEFINE n == f.turn + 1
             g == FrameOfParts(f.op, f.arg, 1, n, f.last, f.body, f.other)
             w == With(ForDone(s, Zero(m))[n - 1], n)
  <2>1. n \in 1 .. s.arg /\ n - 1 = f.turn /\ 1 \in 1 .. Len(s.body) + 1
    BY <1>2, <1>3, <1>4
  <2>2. g.op = s.op /\ g.arg = s.arg /\ g.at = 1 /\ g.turn = n /\ g.body = s.body
    BY <1>1, PartsAre
  <2> HIDE DEF g
  <2>3. With(u, n) = w
    BY <1>3, <2>1
  <2> HIDE DEF n
  <2>4. LinesGo(s.body, w)
    BY <2>1, ForTurn
  <2>5. LinesDone(s.body, w)[0] = w
    BY <2>4 DEF LinesGo
  <2>6. ForUnder(1, n, s, Zero(m), w)
    <3>1. 1 - 1 = 0
      OBVIOUS
    <3> QED BY <2>1, <2>5, <3>1 DEF ForUnder
  <2> HIDE DEF w
  <2>7. Under(g, s, Zero(m), w)
    BY <2>2, <2>6 DEF Under
  <2> QED BY <2>3, <2>7 DEF g, n
<1> QED BY <1>2, <1>3, <1>4

LEMMA WhileGoesOn ==
    ASSUME NEW s, FlatBlock(s), s.op = "while", NEW m \in States, NEW f, NEW u, Under(f, s, Zero(m), u),
           f.at = 0
    PROVE  /\ f.turn \in 0 .. MaxIter /\ s.arg \in CommandName
           /\ Holds(s.arg, u) /\ f.turn < MaxIter =>
                Under(FrameOfParts(f.op, f.arg, 1, f.turn + 1, f.last, f.body, f.other), s, Zero(m),
                      Asked(s.arg, u))
           /\ ~Holds(s.arg, u) \/ f.turn = MaxIter => WhileEnd(s, u) = Means(s, m)
<1>1. /\ WhileUnder(f.at, f.turn, s, Zero(m), u) /\ f.body = s.body /\ f.op = s.op /\ f.arg = s.arg
  BY DEF Under
<1>2. s.arg \in CommandName /\ Means(s, m) = WhileEnd(s, WhileDone(s, Zero(m))[MaxIter])
      /\ Len(s.body) \in Nat /\ SimpleText(s.body) /\ MaxIter \in Nat /\ Zero(m) \in States
  BY WhileMeans, InterpreterAssumption, ZeroIs DEF FlatBlock, SimpleText
<1>3. f.turn \in 0 .. MaxIter /\ u = WhileDone(s, Zero(m))[f.turn]
  BY <1>1 DEF WhileUnder
<1>4. ASSUME Holds(s.arg, u), f.turn < MaxIter
      PROVE  Under(FrameOfParts(f.op, f.arg, 1, f.turn + 1, f.last, f.body, f.other), s, Zero(m),
                   Asked(s.arg, u))
  <2> DEFINE n == f.turn + 1
             g == FrameOfParts(f.op, f.arg, 1, n, f.last, f.body, f.other)
             w == Asked(s.arg, WhileDone(s, Zero(m))[n - 1])
  <2>1. n \in 1 .. MaxIter /\ n - 1 = f.turn /\ 1 \in 1 .. Len(s.body) + 1
    BY <1>2, <1>3, <1>4
  <2>2. g.op = s.op /\ g.arg = s.arg /\ g.at = 1 /\ g.turn = n /\ g.body = s.body
    BY <1>1, PartsAre
  <2> HIDE DEF g
  <2>3. Asked(s.arg, u) = w /\ Holds(s.arg, WhileDone(s, Zero(m))[n - 1])
    BY <1>3, <1>4, <2>1
  <2> HIDE DEF n
  <2>4. LinesGo(s.body, w)
    BY <2>1, <2>3, WhileTurns
  <2>5. LinesDone(s.body, w)[0] = w
    BY <2>4 DEF LinesGo
  <2>6. WhileUnder(1, n, s, Zero(m), w)
    <3>1. 1 - 1 = 0
      OBVIOUS
    <3> QED BY <2>1, <2>3, <2>5, <3>1 DEF WhileUnder
  <2> HIDE DEF w
  <2>7. Under(g, s, Zero(m), w)
    BY <2>2, <2>6 DEF Under
  <2> QED BY <2>3, <2>7 DEF g, n
<1>5. CASE f.turn = MaxIter
  BY <1>2, <1>3, <1>4, <1>5
<1>6. CASE f.turn # MaxIter /\ ~Holds(s.arg, u)
  <2>1. WhileDone(s, Zero(m))[MaxIter] = u
    BY <1>2, <1>3, <1>6, WhileStays
  <2> QED BY <1>2, <1>3, <1>6, <2>1
<1> QED BY <1>2, <1>3, <1>4, <1>5, <1>6

LEMMA IfGoesOn ==
    ASSUME NEW s, FlatBlock(s), s.op = "if", NEW m \in States, NEW f, NEW u, Under(f, s, Zero(m), u),
           f.at = 0
    PROVE  /\ s.arg \in CommandName
           /\ Under(FrameOfParts(f.op, f.arg, 1, f.turn, f.last, IF Holds(s.arg, u) THEN f.body ELSE f.other, f.other),
                    s, Zero(m), Asked(s.arg, u))
<1>1. f.op = s.op /\ f.arg = s.arg /\ IfUnder(f.at, f.body, f.other, s, Zero(m), u)
  BY DEF Under
<1>2. s.arg \in CommandName /\ SimpleText(Chosen(s, Zero(m)))
      /\ LinesGo(Chosen(s, Zero(m)), Asked(s.arg, Zero(m)))
  BY IfMeans
<1>3. f.body = s.body /\ f.other = s.other /\ u = Zero(m)
  BY <1>1 DEF IfUnder
<1> DEFINE x == IF Holds(s.arg, u) THEN f.body ELSE f.other
           g == FrameOfParts(f.op, f.arg, 1, f.turn, f.last, x, f.other)
           w == Asked(s.arg, Zero(m))
<1>4. x = Chosen(s, Zero(m)) /\ Asked(s.arg, u) = w
  BY <1>3 DEF Chosen
<1> HIDE DEF x
<1>5. g.op = s.op /\ g.arg = s.arg /\ g.at = 1 /\ g.body = x
  BY <1>1, PartsAre
<1> HIDE DEF g, w
<1>6. Len(x) \in Nat /\ LinesDone(x, w)[0] = w
  BY <1>2, <1>4 DEF LinesGo, SimpleText, w
<1>7. IfUnder(1, x, g.other, s, Zero(m), w)
  <2>1. 1 - 1 = 0 /\ 1 \in 1 .. Len(x) + 1
    BY <1>6
  <2> QED BY <1>4, <1>6, <2>1 DEF IfUnder, w
<1>8. Under(g, s, Zero(m), w)
  BY <1>5, <1>7 DEF Under
<1> QED BY <1>2, <1>4, <1>8 DEF g, x

(* A block in the midst of its body, whose lines began with w.             *)
BodyFrom(f, s, m, u, w) ==
    /\ SimpleText(f.body) /\ LinesGo(f.body, w) /\ u = LinesDone(f.body, w)[f.at - 1]
    /\ \A r, p : p \in 1 .. Len(f.body) + 1 =>
          Under(FrameOfParts(f.op, f.arg, p, f.turn, r, f.body, f.other), s, Zero(m), LinesDone(f.body, w)[p - 1])
    /\ s.op # "if" => \A r : Under(FrameOfParts(f.op, f.arg, 0, f.turn, r, f.body, f.other), s, Zero(m),
                                   Lines(f.body, w))
    /\ s.op = "if" => Lines(f.body, w) = Means(s, m)

LEMMA ForBody ==
    ASSUME NEW s, FlatBlock(s), s.op = "for", NEW m \in States, NEW f, NEW u, Under(f, s, Zero(m), u),
           f.at # 0
    PROVE  \E w \in States : BodyFrom(f, s, m, u, w)
<1>1. /\ ForUnder(f.at, f.turn, s, Zero(m), u) /\ f.body = s.body /\ f.op = s.op /\ f.arg = s.arg
  BY DEF Under
<1> DEFINE n == f.turn
           w == With(ForDone(s, Zero(m))[n - 1], n)
<1>2. n \in 1 .. s.arg /\ f.at \in 1 .. Len(s.body) + 1 /\ u = LinesDone(s.body, w)[f.at - 1]
  BY <1>1 DEF ForUnder
<1>3. /\ w \in States /\ LinesGo(s.body, w) /\ SimpleText(s.body)
      /\ ForDone(s, Zero(m))[n] = Lines(s.body, w)
  BY <1>2, ForTurn
<1>0. s.arg \in Nat
  BY ForMeans
<1>4. ASSUME NEW r, NEW p \in 1 .. Len(f.body) + 1
      PROVE  Under(FrameOfParts(f.op, f.arg, p, f.turn, r, f.body, f.other), s, Zero(m), LinesDone(f.body, w)[p - 1])
  <2> DEFINE g == FrameOfParts(f.op, f.arg, p, f.turn, r, f.body, f.other)
  <2>1. g.op = s.op /\ g.arg = s.arg /\ g.at = p /\ g.turn = n /\ g.body = s.body
    BY <1>1, PartsAre
  <2> HIDE DEF g
  <2>2. ForUnder(p, n, s, Zero(m), LinesDone(s.body, w)[p - 1])
    BY <1>1, <1>2 DEF ForUnder
  <2> HIDE DEF w, n
  <2>3. Under(g, s, Zero(m), LinesDone(s.body, w)[p - 1])
    BY <2>1, <2>2 DEF Under
  <2> QED BY <1>1, <2>3 DEF g
<1>5. ASSUME NEW r
      PROVE  Under(FrameOfParts(f.op, f.arg, 0, f.turn, r, f.body, f.other), s, Zero(m), Lines(f.body, w))
  <2> DEFINE g == FrameOfParts(f.op, f.arg, 0, f.turn, r, f.body, f.other)
  <2>1. g.op = s.op /\ g.arg = s.arg /\ g.at = 0 /\ g.turn = n /\ g.body = s.body
    BY <1>1, PartsAre
  <2> HIDE DEF g
  <2>2. n \in 0 .. s.arg
    BY <1>0, <1>2
  <2>3. ForUnder(0, n, s, Zero(m), Lines(s.body, w))
    BY <1>3, <2>2 DEF ForUnder
  <2> HIDE DEF w, n
  <2>4. Under(g, s, Zero(m), Lines(s.body, w))
    BY <2>1, <2>3 DEF Under
  <2> QED BY <1>1, <2>4 DEF g
<1> HIDE DEF w, n
<1>6. BodyFrom(f, s, m, u, w)
  BY <1>1, <1>2, <1>3, <1>4, <1>5 DEF BodyFrom
<1> QED BY <1>3, <1>6

LEMMA WhileBody ==
    ASSUME NEW s, FlatBlock(s), s.op = "while", NEW m \in States, NEW f, NEW u, Under(f, s, Zero(m), u),
           f.at # 0
    PROVE  \E w \in States : BodyFrom(f, s, m, u, w)
<1>1. /\ WhileUnder(f.at, f.turn, s, Zero(m), u) /\ f.body = s.body /\ f.op = s.op /\ f.arg = s.arg
  BY DEF Under
<1> DEFINE n == f.turn
           w == Asked(s.arg, WhileDone(s, Zero(m))[n - 1])
<1>2. n \in 1 .. MaxIter /\ f.at \in 1 .. Len(s.body) + 1 /\ u = LinesDone(s.body, w)[f.at - 1]
      /\ Holds(s.arg, WhileDone(s, Zero(m))[n - 1])
  BY <1>1 DEF WhileUnder
<1>3. /\ w \in States /\ LinesGo(s.body, w) /\ SimpleText(s.body)
      /\ WhileDone(s, Zero(m))[n] = Lines(s.body, w)
  BY <1>2, WhileTurns
<1>0. MaxIter \in Nat
  BY InterpreterAssumption
<1>4. ASSUME NEW r, NEW p \in 1 .. Len(f.body) + 1
      PROVE  Under(FrameOfParts(f.op, f.arg, p, f.turn, r, f.body, f.other), s, Zero(m), LinesDone(f.body, w)[p - 1])
  <2> DEFINE g == FrameOfParts(f.op, f.arg, p, f.turn, r, f.body, f.other)
  <2>1. g.op = s.op /\ g.arg = s.arg /\ g.at = p /\ g.turn = n /\ g.body = s.body
    BY <1>1, PartsAre
  <2> HIDE DEF g
  <2>2. WhileUnder(p, n, s, Zero(m), LinesDone(s.body, w)[p - 1])
    BY <1>1, <1>2 DEF WhileUnder
  <2> HIDE DEF w, n
  <2>3. Under(g, s, Zero(m), LinesDone(s.body, w)[p - 1])
    BY <2>1, <2>2 DEF Under
  <2> QED BY <1>1, <2>3 DEF g
<1>5. ASSUME NEW r
      PROVE  Under(FrameOfParts(f.op, f.arg, 0, f.turn, r, f.body, f.other), s, Zero(m), Lines(f.body, w))
  <2> DEFINE g == FrameOfParts(f.op, f.arg, 0, f.turn, r, f.body, f.other)
  <2>1. g.op = s.op /\ g.arg = s.arg /\ g.at = 0 /\ g.turn = n /\ g.body = s.body
    BY <1>1, PartsAre
  <2> HIDE DEF g
  <2>2. n \in 0 .. MaxIter
    BY <1>0, <1>2
  <2>3. WhileUnder(0, n, s, Zero(m), Lines(s.body, w))
    BY <1>3, <2>2 DEF WhileUnder
  <2> HIDE DEF w, n
  <2>4. Under(g, s, Zero(m), Lines(s.body, w))
    BY <2>1, <2>3 DEF Under
  <2> QED BY <1>1, <2>4 DEF g
<1> HIDE DEF w, n
<1>6. BodyFrom(f, s, m, u, w)
  BY <1>1, <1>2, <1>3, <1>4, <1>5 DEF BodyFrom
<1> QED BY <1>3, <1>6

LEMMA IfBody ==
    ASSUME NEW s, FlatBlock(s), s.op = "if", NEW m \in States, NEW f, NEW u, Under(f, s, Zero(m), u),
           f.at # 0
    PROVE  \E w \in States : BodyFrom(f, s, m, u, w)
<1>1. f.op = s.op /\ f.arg = s.arg /\ IfUnder(f.at, f.body, f.other, s, Zero(m), u)
  BY DEF Under
<1> DEFINE x == f.body
           w == Asked(s.arg, Zero(m))
<1>2. f.at \in 1 .. Len(x) + 1 /\ x = Chosen(s, Zero(m)) /\ u = LinesDone(x, w)[f.at - 1]
  BY <1>1 DEF IfUnder
<1>3. /\ s.arg \in CommandName /\ SimpleText(Chosen(s, Zero(m)))
      /\ LinesGo(Chosen(s, Zero(m)), w) /\ Means(s, m) = Lines(Chosen(s, Zero(m)), w)
  BY IfMeans
<1>4. w \in States
  BY <1>3, AskedIs, ZeroIs
<1>5. ASSUME NEW r, NEW p \in 1 .. Len(f.body) + 1
      PROVE  Under(FrameOfParts(f.op, f.arg, p, f.turn, r, f.body, f.other), s, Zero(m), LinesDone(f.body, w)[p - 1])
  <2> DEFINE g == FrameOfParts(f.op, f.arg, p, f.turn, r, f.body, f.other)
  <2>1. g.op = s.op /\ g.arg = s.arg /\ g.at = p /\ g.body = x
    BY <1>1, PartsAre
  <2> HIDE DEF g
  <2>2. IfUnder(p, x, g.other, s, Zero(m), LinesDone(x, w)[p - 1])
    BY <1>2 DEF IfUnder
  <2> HIDE DEF w
  <2>3. Under(g, s, Zero(m), LinesDone(x, w)[p - 1])
    BY <1>1, <2>1, <2>2 DEF Under
  <2> QED BY <2>3 DEF g
<1> HIDE DEF w
<1>6. SimpleText(x) /\ LinesGo(x, w) /\ Lines(x, w) = Means(s, m)
  BY <1>2, <1>3
<1>7. BodyFrom(f, s, m, u, w)
  BY <1>2, <1>5, <1>6 DEF BodyFrom
<1> QED BY <1>4, <1>7

LEMMA InBody ==
    ASSUME NEW s, FlatBlock(s), NEW m \in States, NEW f, NEW u, Under(f, s, Zero(m), u), f.at # 0
    PROVE  \E w \in States : BodyFrom(f, s, m, u, w)
<1>1. s.op \in {"for", "while", "if"}
  BY DEF FlatBlock
<1> QED BY <1>1, ForBody, WhileBody, IfBody

(* A line of the body is a command, and its run is a step of the meaning.  *)
LEMMA UnderLine ==
    ASSUME NEW s, FlatBlock(s), NEW m \in States, NEW f, NEW u, Under(f, s, Zero(m), u),
           f.at \in 1 .. Len(f.body), NEW r
    PROVE  LET l == f.body[f.at]
           IN  /\ l.op = "run" /\ l.arg \in CommandName /\ Does(l.arg, u) \in States
               /\ Under(FrameOfParts(f.op, f.arg, f.at + 1, f.turn, r, f.body, f.other), s, Zero(m),
                        Does(l.arg, u))
<1> DEFINE l == f.body[f.at]
<1>1. PICK w \in States : BodyFrom(f, s, m, u, w)
  <2>1. f.at # 0
    OBVIOUS
  <2> QED BY <2>1, InBody
<1>2. SimpleText(f.body) /\ LinesGo(f.body, w) /\ u = LinesDone(f.body, w)[f.at - 1]
  BY <1>1 DEF BodyFrom
<1>3. l.op = "run" /\ l.arg \in CommandName
  BY <1>2, SimpleIs
<1>4. Len(f.body) \in Nat /\ f.at \in 0 .. Len(f.body) /\ f.at + 1 \in 1 .. Len(f.body) + 1 /\ f.at + 1 - 1 = f.at
  BY <1>2 DEF SimpleText
<1>5. LinesDone(f.body, w)[f.at] = Does(l.arg, u) /\ LinesDone(f.body, w)[f.at] \in States
  BY <1>2, <1>4 DEF LinesGo
<1>6. Under(FrameOfParts(f.op, f.arg, f.at + 1, f.turn, r, f.body, f.other), s, Zero(m),
            LinesDone(f.body, w)[f.at + 1 - 1])
  BY <1>1, <1>4 DEF BodyFrom
<1> QED BY <1>3, <1>4, <1>5, <1>6

(* At the end of the body a loop is at its head again and an if is done.   *)
LEMMA UnderEnd ==
    ASSUME NEW s, FlatBlock(s), NEW m \in States, NEW f, NEW u, Under(f, s, Zero(m), u),
           f.at = Len(f.body) + 1, f.at # 0, NEW r
    PROVE  /\ f.op = s.op
           /\ s.op # "if" => Under(FrameOfParts(f.op, f.arg, 0, f.turn, r, f.body, f.other), s, Zero(m), u)
           /\ s.op = "if" => u = Means(s, m)
<1>1. PICK w \in States : BodyFrom(f, s, m, u, w)
  BY InBody
<1>2. SimpleText(f.body) /\ LinesGo(f.body, w) /\ u = LinesDone(f.body, w)[f.at - 1]
  BY <1>1 DEF BodyFrom
<1>3. f.at - 1 = Len(f.body)
  BY <1>2 DEF SimpleText
<1>4. u = Lines(f.body, w)
  BY <1>2, <1>3 DEF LinesGo
<1>5. f.op = s.op
  BY DEF Under
<1> QED BY <1>1, <1>4, <1>5 DEF BodyFrom

(***************************************************************************)
(* The machine follows the meaning of a flat program.                      *)
(***************************************************************************)
Doing == [trace |-> trace, status |-> status, var |-> loopvar]

Inside == [trace |-> trace, status |-> stack[1].last, var |-> loopvar]

Sofar(k) == MeaningDone(wanted)[k]

(* The first i statements are done and nothing is collected.               *)
Between(spot, i) ==
    /\ stack = <<>> /\ block = <<>> /\ next = spot[i] + 1 /\ Doing = Sofar(i)

(* The block after them is being collected.                                *)
Collecting(spot, i) ==
    /\ i < Len(wanted) /\ FlatBlock(wanted[i + 1]) /\ stack = <<>>
    /\ Len(block) \in 1 .. Len(TextOf(wanted[i + 1]))
    /\ \A k \in 1 .. Len(block) : block[k] = TextOf(wanted[i + 1])[k]
    /\ next = spot[i] + Len(block) + 1 /\ Doing = Sofar(i)

(* The block after them is being executed.                                 *)
Executing(spot, i) ==
    /\ i < Len(wanted) /\ FlatBlock(wanted[i + 1]) /\ block = <<>> /\ Len(stack) = 1
    /\ next = spot[i + 1] + 1
    /\ Under(stack[1], wanted[i + 1], Zero(Sofar(i)), Inside)

Stage(spot, i) == Between(spot, i) \/ Collecting(spot, i) \/ Executing(spot, i)

Written == Flat(wanted) /\ program = Text(wanted)

Spots(spot) ==
    /\ InterpTypes /\ Written /\ alive = TRUE
    /\ spot \in [0 .. Len(wanted) -> Nat] /\ Places(wanted, spot, program)

Sim == Written => alive = TRUE /\ \E spot \in [0 .. Len(wanted) -> Nat] :
                    Places(wanted, spot, program) /\ \E i \in 0 .. Len(wanted) : Stage(spot, i)

(* What is known of the statement after the first i. *)
LEMMA SpotsAre ==
    ASSUME NEW spot, Spots(spot)
    PROVE  /\ FlatProgram(wanted) /\ MeaningGoes(wanted) /\ Len(wanted) \in Nat
           /\ spot[0] = 0 /\ spot[Len(wanted)] = Len(program)
           /\ \A i \in 0 .. Len(wanted) : spot[i] \in Nat /\ Sofar(i) \in States
<1>1. wanted \in Seq(Statement) /\ Flat(wanted)
  BY DEF Spots, Written, InterpTypes
<1>2. FlatProgram(wanted) /\ Len(wanted) \in Nat
  BY <1>1, FlatIs
<1>3. MeaningGoes(wanted)
  BY <1>2, MeaningIs
<1>4. \A i \in 0 .. Len(wanted) : spot[i] \in Nat /\ Sofar(i) \in States
  BY <1>3 DEF Spots, MeaningGoes, Sofar
<1> DEFINE parts == [k \in 1 .. Len(wanted) |-> TextOf(wanted[k])]
<1>5. Lays(parts, spot, program) /\ Len(parts) = Len(wanted)
  BY <1>2 DEF Spots, Places
<1> HIDE DEF parts
<1>6. spot[0] = 0 /\ spot[Len(wanted)] = Len(program)
  BY <1>5 DEF Lays
<1> QED BY <1>2, <1>3, <1>4, <1>6

LEMMA NextStatement ==
    ASSUME NEW spot, Spots(spot), NEW i \in 0 .. Len(wanted), i < Len(wanted)
    PROVE  /\ i + 1 \in 0 .. Len(wanted) /\ FlatStatement(wanted[i + 1])
           /\ spot[i + 1] = spot[i] + Len(TextOf(wanted[i + 1]))
           /\ Stands(program, spot[i], TextOf(wanted[i + 1]))
           /\ Sofar(i + 1) = Means(wanted[i + 1], Sofar(i))
<1>1. FlatProgram(wanted) /\ MeaningGoes(wanted) /\ Len(wanted) \in Nat
  BY SpotsAre
<1> DEFINE k == i + 1
           parts == [j \in 1 .. Len(wanted) |-> TextOf(wanted[j])]
<1>2. k \in 1 .. Len(wanted) /\ k - 1 = i /\ k \in 0 .. Len(wanted)
  BY <1>1
<1> HIDE DEF k
<1>3. FlatStatement(wanted[k]) /\ Sofar(k) = Means(wanted[k], Sofar(i))
  BY <1>1, <1>2 DEF FlatProgram, MeaningGoes, Sofar
<1>4. Lays(parts, spot, program) /\ Len(parts) = Len(wanted)
  BY <1>1 DEF Spots, Places
<1>5. parts[k] = TextOf(wanted[k])
  BY <1>2
<1> HIDE DEF parts
<1>6. spot[k] = spot[i] + Len(parts[k]) /\ Stands(program, spot[i], parts[k])
  BY <1>2, <1>4 DEF Lays
<1> QED BY <1>2, <1>3, <1>5, <1>6 DEF k

(* While there is a line to read there is a statement.                     *)
LEMMA SomethingLeft ==
    ASSUME NEW spot, Spots(spot), NEW i \in 0 .. Len(wanted), next = spot[i] + 1, next <= Len(program)
    PROVE  i < Len(wanted)
<1>1. Len(wanted) \in Nat /\ spot[Len(wanted)] = Len(program) /\ spot[i] \in Nat
  BY SpotsAre
<1> SUFFICES ASSUME i = Len(wanted)
             PROVE  FALSE
  BY <1>1
<1>2. spot[i] = Len(program)
  BY <1>1
<1> QED BY <1>1, <1>2

(* Where a step leads. *)
Onward(spot) == alive' = TRUE /\ \E j \in 0 .. Len(wanted) : Stage(spot, j)'

LEMMA KeepsOn ==
    ASSUME NEW spot, Spots(spot), NEW i \in 0 .. Len(wanted), Executing(spot, i),
           UNCHANGED <<wanted, program, next, block, alive>>,
           NEW g, Topped(stack, stack', g),
           Under(g, wanted[i + 1], Zero(Sofar(i)), [trace |-> trace', status |-> g.last, var |-> loopvar'])
    PROVE  Onward(spot)
<1>1. wanted' = wanted /\ next' = next /\ block' = block /\ alive' = TRUE
  BY DEF Spots
<1>2. i < Len(wanted) /\ FlatBlock(wanted[i + 1]) /\ block = <<>> /\ Len(stack) = 1 /\ next = spot[i + 1] + 1
  BY DEF Executing
<1>3. stack'[1] = g /\ Len(stack') = 1
  BY <1>2 DEF Topped
<1>4. Inside' = [trace |-> trace', status |-> g.last, var |-> loopvar']
  BY <1>3 DEF Inside
<1>5. Sofar(i)' = Sofar(i)
  BY <1>1 DEF Sofar
<1>6. Under(stack'[1], wanted'[i + 1], Zero(Sofar(i)'), Inside')
  BY <1>1, <1>3, <1>4, <1>5
<1>7. Executing(spot, i)'
  BY <1>1, <1>2, <1>3, <1>6 DEF Executing
<1> QED BY <1>1, <1>7 DEF Onward, Stage

LEMMA Leaves ==
    ASSUME NEW spot, Spots(spot), NEW i \in 0 .. Len(wanted), Executing(spot, i),
           UNCHANGED <<wanted, program, next, block, alive>>, stack' = <<>>,
           [trace |-> trace', status |-> status', var |-> loopvar'] = Means(wanted[i + 1], Sofar(i))
    PROVE  Onward(spot)
<1>1. wanted' = wanted /\ next' = next /\ block' = block /\ alive' = TRUE
  BY DEF Spots
<1>2. i < Len(wanted) /\ block = <<>> /\ next = spot[i + 1] + 1
  BY DEF Executing
<1>3. i + 1 \in 0 .. Len(wanted) /\ Sofar(i + 1) = Means(wanted[i + 1], Sofar(i))
  BY <1>2, NextStatement
<1>4. Sofar(i + 1)' = Sofar(i + 1)
  BY <1>1 DEF Sofar
<1>5. Doing' = Sofar(i + 1)'
  BY <1>3, <1>4 DEF Doing
<1>6. Between(spot, i + 1)'
  BY <1>1, <1>2, <1>5 DEF Between
<1> QED BY <1>1, <1>3, <1>6 DEF Onward, Stage

(* What is known while a block is executed. *)
LEMMA ExecutingIs ==
    ASSUME NEW spot, Spots(spot), NEW i \in 0 .. Len(wanted), Executing(spot, i)
    PROVE  /\ FlatBlock(wanted[i + 1]) /\ Sofar(i) \in States
           /\ Under(stack[1], wanted[i + 1], Zero(Sofar(i)), Inside) /\ Inside \in States
           /\ stack \in Seq(Frames) /\ stack # <<>> /\ stack[1] \in Frames /\ Tail(stack) = <<>>
           /\ stack[1].op = wanted[i + 1].op /\ stack[1].arg = wanted[i + 1].arg
           /\ Inside.trace = trace /\ Inside.status = stack[1].last /\ Inside.var = loopvar
<1>1. FlatBlock(wanted[i + 1]) /\ Under(stack[1], wanted[i + 1], Zero(Sofar(i)), Inside) /\ Len(stack) = 1
  BY DEF Executing
<1>2. Sofar(i) \in States
  BY SpotsAre
<1>3. Inside \in States
  BY <1>1, <1>2, UnderIsState
<1>4. stack \in Seq(Frames) /\ stack # <<>>
  <2>1. stack \in Seq(Frames)
    BY DEF Spots, InterpTypes
  <2>2. ASSUME stack = <<>>
        PROVE  FALSE
    <3>1. Len(<<>>) = 0
      OBVIOUS
    <3> QED BY <1>1, <2>2, <3>1
  <2> QED BY <2>1, <2>2
<1>5. stack[1] \in Frames /\ Tail(stack) = <<>>
  BY <1>1, <1>4, TopOf
<1>6. stack[1].op = wanted[i + 1].op /\ stack[1].arg = wanted[i + 1].arg
  BY <1>1 DEF Under
<1>7. Inside.trace = trace /\ Inside.status = stack[1].last /\ Inside.var = loopvar
  BY DEF Inside
<1> QED BY <1>1, <1>2, <1>3, <1>4, <1>5, <1>6, <1>7

(* A block runs only at its stage. *)
LEMMA OnlyExecuting ==
    ASSUME NEW spot, NEW i, Stage(spot, i), stack # <<>>
    PROVE  Executing(spot, i)
  BY DEF Stage, Between, Collecting

LEMMA ForHeadFollows ==
    ASSUME NEW spot, Spots(spot), NEW i \in 0 .. Len(wanted), Stage(spot, i), ForHead
    PROVE  Onward(spot)
<1> DEFINE f == stack[1]
           s == wanted[i + 1]
           m == Sofar(i)
           u == Inside
<1>1. stack # <<>> /\ f.op = "for" /\ f.at = 0 /\ UNCHANGED <<wanted, program, next, block, alive>> /\ trace' = trace
  BY DEF ForHead
<1>2. Executing(spot, i)
  BY <1>1, OnlyExecuting
<1>3. /\ FlatBlock(s) /\ m \in States /\ Under(f, s, Zero(m), u) /\ u \in States
      /\ stack \in Seq(Frames) /\ Tail(stack) = <<>> /\ s.op = "for" /\ f.arg = s.arg
      /\ u.trace = trace /\ u.status = f.last /\ u.var = loopvar
  BY <1>1, <1>2, ExecutingIs
<1> HIDE DEF s, m, u
<1>4. /\ f.turn \in 0 .. s.arg /\ s.arg \in Nat
      /\ f.turn < s.arg =>
           Under(FrameOfParts(f.op, f.arg, 1, f.turn + 1, f.last, f.body, f.other), s, Zero(m), With(u, f.turn + 1))
      /\ f.turn = s.arg => With(u, 0) = Means(s, m)
  BY <1>1, <1>3, ForGoesOn
<1>5. CASE /\ f.turn < f.arg /\ stack' = [stack EXCEPT ![1].turn = @ + 1, ![1].at = 1]
           /\ loopvar' = f.turn + 1 /\ UNCHANGED status
  <2> DEFINE n == f.turn + 1
             g == FrameOfParts(f.op, f.arg, 1, n, f.last, f.body, f.other)
  <2>1. Topped(stack, stack', g)
    BY <1>1, <1>3, <1>5, TopTurns
  <2>2. g.last = f.last
    BY PartsAre
  <2>3. Under(g, s, Zero(m), With(u, n)) /\ n \in Nat
    BY <1>3, <1>4, <1>5
  <2> HIDE DEF g
  <2>4. [trace |-> trace', status |-> g.last, var |-> loopvar'] = With(u, n)
    BY <1>1, <1>3, <1>5, <2>2, <2>3, WithIs
  <2>5. Under(g, s, Zero(m), [trace |-> trace', status |-> g.last, var |-> loopvar'])
    BY <2>3, <2>4
  <2> QED BY <1>1, <1>2, <2>1, <2>5, KeepsOn DEF s, m
<1>6. CASE f.turn = f.arg /\ loopvar' = 0 /\ Return(Tail(stack), f.last)
  <2>1. stack' = <<>> /\ status' = f.last
    BY <1>3, <1>6 DEF Return
  <2>2. [trace |-> trace', status |-> status', var |-> loopvar'] = With(u, 0)
    BY <1>1, <1>3, <1>6, <2>1, WithIs
  <2>3. With(u, 0) = Means(s, m)
    BY <1>3, <1>4, <1>6
  <2> QED BY <1>1, <1>2, <2>1, <2>2, <2>3, Leaves DEF s, m
<1> QED BY <1>5, <1>6 DEF ForHead

LEMMA WhileHeadFollows ==
    ASSUME NEW spot, Spots(spot), NEW i \in 0 .. Len(wanted), Stage(spot, i), WhileHead
    PROVE  Onward(spot)
<1> DEFINE f == stack[1]
           s == wanted[i + 1]
           m == Sofar(i)
           u == Inside
           t == Append(trace, <<f.arg, loopvar>>)
<1>1. stack # <<>> /\ f.op = "while" /\ f.at = 0 /\ UNCHANGED <<wanted, program, next, block, alive>>
      /\ loopvar' = loopvar /\ trace' = t
  BY DEF WhileHead
<1>2. Executing(spot, i)
  BY <1>1, OnlyExecuting
<1>3. /\ FlatBlock(s) /\ m \in States /\ Under(f, s, Zero(m), u) /\ u \in States
      /\ stack \in Seq(Frames) /\ Tail(stack) = <<>> /\ s.op = "while" /\ f.arg = s.arg
      /\ u.trace = trace /\ u.status = f.last /\ u.var = loopvar
  BY <1>1, <1>2, ExecutingIs
<1>0. Outcome(trace, f.arg) = 0 <=> Holds(s.arg, u)
  BY <1>3 DEF Holds
<1>a. t = Append(u.trace, <<s.arg, u.var>>)
  BY <1>3
<1> HIDE DEF s, m, u, t
<1>4. /\ f.turn \in 0 .. MaxIter /\ s.arg \in CommandName
      /\ Holds(s.arg, u) /\ f.turn < MaxIter =>
           Under(FrameOfParts(f.op, f.arg, 1, f.turn + 1, f.last, f.body, f.other), s, Zero(m), Asked(s.arg, u))
      /\ ~Holds(s.arg, u) \/ f.turn = MaxIter => WhileEnd(s, u) = Means(s, m)
  BY <1>1, <1>3, WhileGoesOn
<1>5. Asked(s.arg, u) = [trace |-> t, status |-> u.status, var |-> u.var]
  BY <1>3, <1>4, <1>a, AskedIs
<1>6. WhileEnd(s, u) = [trace |-> t, status |-> IF Holds(s.arg, u) THEN 1 ELSE u.status, var |-> u.var]
  BY <1>3, <1>4, <1>a, WhileEndIs
<1>7. CASE ~Holds(s.arg, u) /\ Return(Tail(stack), f.last)
  <2>1. stack' = <<>> /\ status' = f.last
    BY <1>3, <1>7 DEF Return
  <2>2. [trace |-> trace', status |-> status', var |-> loopvar'] = WhileEnd(s, u)
    BY <1>1, <1>3, <1>6, <1>7, <2>1
  <2>3. WhileEnd(s, u) = Means(s, m)
    BY <1>4, <1>7
  <2> QED BY <1>1, <1>2, <2>1, <2>2, <2>3, Leaves DEF s, m
<1>8. CASE Holds(s.arg, u) /\ f.turn = MaxIter /\ Return(Tail(stack), 1)
  <2>1. stack' = <<>> /\ status' = 1
    BY <1>3, <1>8 DEF Return
  <2>2. [trace |-> trace', status |-> status', var |-> loopvar'] = WhileEnd(s, u)
    BY <1>1, <1>3, <1>6, <1>8, <2>1
  <2>3. WhileEnd(s, u) = Means(s, m)
    BY <1>4, <1>8
  <2> QED BY <1>1, <1>2, <2>1, <2>2, <2>3, Leaves DEF s, m
<1>9. CASE /\ Holds(s.arg, u) /\ f.turn < MaxIter
           /\ stack' = [stack EXCEPT ![1].turn = @ + 1, ![1].at = 1] /\ UNCHANGED status
  <2> DEFINE n == f.turn + 1
             g == FrameOfParts(f.op, f.arg, 1, n, f.last, f.body, f.other)
  <2>1. Topped(stack, stack', g)
    BY <1>1, <1>3, <1>9, TopTurns
  <2>2. g.last = f.last
    BY PartsAre
  <2>3. Under(g, s, Zero(m), Asked(s.arg, u))
    BY <1>4, <1>9
  <2> HIDE DEF g
  <2>4. [trace |-> trace', status |-> g.last, var |-> loopvar'] = Asked(s.arg, u)
    BY <1>1, <1>3, <1>5, <2>2
  <2>5. Under(g, s, Zero(m), [trace |-> trace', status |-> g.last, var |-> loopvar'])
    BY <2>3, <2>4
  <2> QED BY <1>1, <1>2, <2>1, <2>5, KeepsOn DEF s, m
<1>10. \/ ~Holds(s.arg, u) /\ Return(Tail(stack), f.last)
       \/ Holds(s.arg, u) /\ f.turn = MaxIter /\ Return(Tail(stack), 1)
       \/ /\ Holds(s.arg, u) /\ f.turn < MaxIter
          /\ stack' = [stack EXCEPT ![1].turn = @ + 1, ![1].at = 1] /\ UNCHANGED status
  BY <1>0 DEF WhileHead
<1> QED BY <1>7, <1>8, <1>9, <1>10

LEMMA IfHeadFollows ==
    ASSUME NEW spot, Spots(spot), NEW i \in 0 .. Len(wanted), Stage(spot, i), IfHead
    PROVE  Onward(spot)
<1> DEFINE f == stack[1]
           s == wanted[i + 1]
           m == Sofar(i)
           u == Inside
           t == Append(trace, <<f.arg, loopvar>>)
           c == Outcome(trace, f.arg) = 0
<1>1. stack # <<>> /\ f.op = "if" /\ f.at = 0 /\ UNCHANGED <<wanted, program, next, block, alive>>
      /\ loopvar' = loopvar /\ trace' = t
      /\ stack' = [stack EXCEPT ![1].at = 1, ![1].body = IF c THEN @ ELSE stack[1].other]
  BY DEF IfHead
<1>2. Executing(spot, i)
  BY <1>1, OnlyExecuting
<1>3. /\ FlatBlock(s) /\ m \in States /\ Under(f, s, Zero(m), u) /\ u \in States
      /\ stack \in Seq(Frames) /\ s.op = "if" /\ f.arg = s.arg
      /\ u.trace = trace /\ u.status = f.last /\ u.var = loopvar
  BY <1>1, <1>2, ExecutingIs
<1>4. c <=> Holds(s.arg, u)
  BY <1>3 DEF Holds
<1>5. t = Append(u.trace, <<s.arg, u.var>>) /\ c \in BOOLEAN
  BY <1>3
<1> HIDE DEF s, m, u, t, c
<1> DEFINE z == IF c THEN f.body ELSE f.other
           g == FrameOfParts(f.op, f.arg, 1, f.turn, f.last, z, f.other)
<1>6. s.arg \in CommandName /\ Under(g, s, Zero(m), Asked(s.arg, u))
  <2>1. s.arg \in CommandName
        /\ Under(FrameOfParts(f.op, f.arg, 1, f.turn, f.last, IF Holds(s.arg, u) THEN f.body ELSE f.other, f.other),
                 s, Zero(m), Asked(s.arg, u))
    BY <1>1, <1>3, IfGoesOn
  <2>2. z = IF Holds(s.arg, u) THEN f.body ELSE f.other
    BY <1>4
  <2> HIDE DEF z
  <2> QED BY <2>1, <2>2
<1>7. Topped(stack, stack', g)
  BY <1>1, <1>3, <1>5, TopChooses
<1>8. g.last = f.last
  BY PartsAre
<1> HIDE DEF g
<1>9. [trace |-> trace', status |-> g.last, var |-> loopvar'] = Asked(s.arg, u)
  BY <1>1, <1>3, <1>5, <1>6, <1>8, AskedIs
<1>10. Under(g, s, Zero(m), [trace |-> trace', status |-> g.last, var |-> loopvar'])
  BY <1>6, <1>9
<1> QED BY <1>1, <1>2, <1>7, <1>10, KeepsOn DEF s, m

LEMMA BodyEndFollows ==
    ASSUME NEW spot, Spots(spot), NEW i \in 0 .. Len(wanted), Stage(spot, i), BodyEnd
    PROVE  Onward(spot)
<1> DEFINE f == stack[1]
           s == wanted[i + 1]
           m == Sofar(i)
           u == Inside
<1>1. stack # <<>> /\ f.at > Len(f.body) /\ UNCHANGED <<wanted, program, next, block, alive>>
      /\ loopvar' = loopvar /\ trace' = trace
  BY DEF BodyEnd
<1>2. Executing(spot, i)
  BY <1>1, OnlyExecuting
<1>3. /\ FlatBlock(s) /\ m \in States /\ Under(f, s, Zero(m), u) /\ u \in States /\ Tail(stack) = <<>>
      /\ stack \in Seq(Frames) /\ f \in Frames /\ f.op = s.op
      /\ u.trace = trace /\ u.status = f.last /\ u.var = loopvar
  BY <1>1, <1>2, ExecutingIs
<1>4. f.at = Len(f.body) + 1 /\ f.at # 0 /\ 0 \in 0 .. Len(f.body) + 1
  BY <1>1, <1>3, FrameOf
<1>5. u = [trace |-> trace, status |-> f.last, var |-> loopvar]
  BY DEF Inside
<1> HIDE DEF s, m, u
<1> DEFINE g == FrameOfParts(f.op, f.arg, 0, f.turn, f.last, f.body, f.other)
<1>6. /\ s.op # "if" => Under(g, s, Zero(m), u)
      /\ s.op = "if" => u = Means(s, m)
  <2> HIDE DEF f
  <2>1. \A r : /\ s.op # "if" => Under(FrameOfParts(f.op, f.arg, 0, f.turn, r, f.body, f.other), s, Zero(m), u)
               /\ s.op = "if" => u = Means(s, m)
    BY <1>3, <1>4, UnderEnd
  <2> QED BY <2>1
<1>7. CASE f.op # "if" /\ stack' = [stack EXCEPT ![1].at = 0] /\ UNCHANGED status
  <2>1. Topped(stack, stack', g)
    BY <1>1, <1>3, <1>4, <1>7, TopMoves
  <2>2. g.last = f.last
    BY PartsAre
  <2>3. Under(g, s, Zero(m), u)
    BY <1>3, <1>6, <1>7
  <2> HIDE DEF g
  <2>4. Under(g, s, Zero(m), [trace |-> trace', status |-> g.last, var |-> loopvar'])
    BY <1>1, <1>5, <2>2, <2>3
  <2> QED BY <1>1, <1>2, <2>1, <2>4, KeepsOn DEF s, m
<1>8. CASE f.op = "if" /\ Return(Tail(stack), f.last)
  <2>1. stack' = <<>> /\ status' = f.last
    BY <1>3, <1>8 DEF Return
  <2>2. [trace |-> trace', status |-> status', var |-> loopvar'] = Means(s, m)
    BY <1>1, <1>3, <1>5, <1>6, <1>8, <2>1
  <2> QED BY <1>1, <1>2, <2>1, <2>2, Leaves DEF s, m
<1> QED BY <1>7, <1>8 DEF BodyEnd

LEMMA BodyLineFollows ==
    ASSUME NEW spot, Spots(spot), NEW i \in 0 .. Len(wanted), Stage(spot, i), BodyLine
    PROVE  Onward(spot)
<1> DEFINE f == stack[1]
           s == wanted[i + 1]
           m == Sofar(i)
           u == Inside
           l == f.body[f.at]
           z == f.at + 1
           callers == [stack EXCEPT ![1].at = z]
<1>1. stack # <<>> /\ f.at \in DOMAIN f.body /\ UNCHANGED <<wanted, program, next, block>>
      /\ loopvar' = loopvar /\ ExecString(l, callers)
  BY DEF BodyLine
<1>2. Executing(spot, i)
  BY <1>1, OnlyExecuting
<1>3. /\ FlatBlock(s) /\ m \in States /\ Under(f, s, Zero(m), u) /\ u \in States
      /\ stack \in Seq(Frames) /\ f \in Frames
      /\ u.trace = trace /\ u.status = f.last /\ u.var = loopvar
  BY <1>1, <1>2, ExecutingIs
<1>4. f.at \in 1 .. Len(f.body) /\ z \in 0 .. Len(f.body) + 1
  <2>1. f.body \in Seq(TextLine) /\ Len(f.body) \in Nat
    BY <1>3, FrameOf
  <2> QED BY <1>1, <2>1
<1> HIDE DEF s, m, u
<1> DEFINE o == Outcome(trace, l.arg)
           g == FrameOfParts(f.op, f.arg, z, f.turn, o, f.body, f.other)
           h == FrameOfParts(f.op, f.arg, z, f.turn, f.last, f.body, f.other)
<1>5. l.op = "run" /\ l.arg \in CommandName /\ Under(g, s, Zero(m), Does(l.arg, u))
  BY <1>3, <1>4, UnderLine
<1>6. o \in {0, 1}
  BY OutcomeIs
<1>7. Does(l.arg, u) = [trace |-> Append(trace, <<l.arg, loopvar>>), status |-> o, var |-> loopvar]
  BY <1>3, <1>5, DoesIs
<1> HIDE DEF z
<1>8. Topped(stack, callers, h)
  BY <1>1, <1>3, <1>4, TopMoves
<1>9. callers \in Seq(Frames) /\ callers # <<>> /\ callers[1] = h /\ Len(callers) = Len(stack)
  BY <1>8 DEF Topped
<1> HIDE DEF callers, o
<1>10. trace' = Append(trace, <<l.arg, loopvar>>) /\ Return(callers, o) /\ alive' = alive
  <2>1. ~Opens(l) /\ l.op # "exit"
    BY <1>5 DEF Opens
  <2>2. trace' = Append(trace, <<l.arg, loopvar>>) /\ Return(callers, Outcome(trace, l.arg)) /\ alive' = alive
    <3> HIDE DEF l
    <3> QED BY <1>1, <1>5, <2>1 DEF ExecString
  <2> QED BY <2>2 DEF o
<1>11. stack' = [callers EXCEPT ![1].last = o]
  BY <1>9, <1>10 DEF Return
<1>12. h.op = f.op /\ h.arg = f.arg /\ h.at = z /\ h.turn = f.turn /\ h.body = f.body /\ h.other = f.other
  BY PartsAre
<1> HIDE DEF h
<1>13. Topped(callers, stack', FrameOfParts(h.op, h.arg, h.at, h.turn, o, h.body, h.other))
  BY <1>6, <1>9, <1>11, TopAnswers
<1>14. Topped(callers, stack', g)
  BY <1>12, <1>13
<1>15. g.last = o
  BY PartsAre
<1> HIDE DEF g
<1>16. Topped(stack, stack', g)
  BY <1>9, <1>14 DEF Topped
<1>17. Under(g, s, Zero(m), [trace |-> trace', status |-> g.last, var |-> loopvar'])
  BY <1>1, <1>5, <1>7, <1>10, <1>15
<1> QED BY <1>1, <1>2, <1>10, <1>16, <1>17, KeepsOn DEF s, m

(* A line is read only between two statements.                             *)
LEMMA OnlyBetween ==
    ASSUME NEW spot, NEW i, Stage(spot, i), stack = <<>>, block = <<>>
    PROVE  Between(spot, i)
<1>1. Len(<<>>) = 0
  OBVIOUS
<1> QED BY <1>1 DEF Stage, Collecting, Executing

(* Every other line of a block finds one being collected.                  *)
LEMMA OnlyCollecting ==
    ASSUME NEW spot, NEW i, Stage(spot, i), stack = <<>>, block # <<>>
    PROVE  Collecting(spot, i)
<1>1. Len(<<>>) = 0
  OBVIOUS
<1> QED BY <1>1 DEF Stage, Between, Executing

LEMMA ReadLineFollows ==
    ASSUME NEW spot, Spots(spot), NEW i \in 0 .. Len(wanted), Stage(spot, i), ReadLine
    PROVE  Onward(spot)
<1> DEFINE s == wanted[i + 1]
           m == Sofar(i)
           l == program[next]
<1>1. /\ stack = <<>> /\ block = <<>> /\ next <= Len(program) /\ next' = next + 1
      /\ wanted' = wanted /\ program' = program /\ loopvar' = loopvar
  BY DEF ReadLine, Reads
<1>2. next = spot[i] + 1 /\ Doing = m
  BY <1>1, OnlyBetween DEF Between
<1>3. i < Len(wanted)
  BY <1>1, <1>2, SomethingLeft
<1>4. /\ i + 1 \in 0 .. Len(wanted) /\ FlatStatement(s) /\ spot[i + 1] = spot[i] + Len(TextOf(s))
      /\ Stands(program, spot[i], TextOf(s)) /\ Sofar(i + 1) = Means(s, m)
  BY <1>3, NextStatement
<1>5. spot[i] \in Nat /\ m \in States /\ alive = TRUE
  BY SpotsAre DEF Spots
<1>6. m.trace = trace /\ m.status = status /\ m.var = loopvar
  BY <1>2 DEF Doing
<1>7. CASE FlatBlock(s)
  <2>1. Shape(TextOf(s), HeadOf(s), Opening(s), Inner(s), Closing(s)) /\ Len(Inner(s)) \in Nat
    <3>1. Shape(TextOf(s), HeadOf(s), Opening(s), Inner(s), Closing(s))
      BY <1>7, BlockText
    <3>2. s \in Statement /\ s.op \in {"for", "while", "if"}
      BY <1>7 DEF FlatBlock
    <3>3. Inner(s) \in Seq(TextLine)
      BY <3>2, TextIsShape
    <3> QED BY <3>1, <3>3
  <2>2. TextOf(s)[1] = HeadOf(s) /\ Len(TextOf(s)) \in Nat /\ Len(TextOf(s)) >= 3
    BY <2>1 DEF Shape
  <2>3. l = TextOf(s)[1]
    BY <1>2, <1>4, <2>2 DEF Stands
  <2>4. Opens(l)
    BY <1>7, <2>2, <2>3 DEF Opens, HeadOf, FlatBlock
  <2>5. block' = <<l>> /\ UNCHANGED <<stack, alive, trace, status>>
    BY <2>4 DEF ReadLine
  <2>6. Len(block') = 1 /\ block'[1] = l
    BY <2>5
  <2>7. Len(block') \in 1 .. Len(TextOf(s)) /\ \A k \in 1 .. Len(block') : block'[k] = TextOf(s)[k]
    BY <2>2, <2>3, <2>6
  <2>8. next' = spot[i] + Len(block') + 1
    BY <1>1, <1>2, <1>5, <2>6
  <2>9. Doing' = Sofar(i)'
    BY <1>1, <1>2, <2>5 DEF Doing, Sofar
  <2>10. Collecting(spot, i)'
    BY <1>1, <1>3, <1>7, <2>5, <2>7, <2>8, <2>9 DEF Collecting
  <2> QED BY <1>1, <1>5, <2>5, <2>10 DEF Onward, Stage
<1>8. CASE s \in Statement /\ Simple(s)
  <2>1. s.op = "run" /\ s.arg \in CommandName
    BY <1>8, StatementIs DEF Simple
  <2>2. TextOf(s) = <<s>>
    BY <2>1 DEF TextOf
  <2>3. Len(TextOf(s)) = 1 /\ TextOf(s)[1] = s
    BY <2>2
  <2>4. l = s
    BY <1>2, <1>4, <2>3 DEF Stands
  <2>5. l.op = "run" /\ ~Opens(l) /\ l.op # "exit"
    BY <2>1, <2>4 DEF Opens
  <2> DEFINE c == l.arg
  <2>6. ExecString(l, <<>>) /\ block' = block
    BY <2>5 DEF ReadLine
  <2>7. trace' = Append(trace, <<c, loopvar>>) /\ Return(<<>>, Outcome(trace, c)) /\ alive' = alive
    <3> HIDE DEF l
    <3> QED BY <2>5, <2>6 DEF ExecString
  <2>8. stack' = <<>> /\ status' = Outcome(trace, c)
    BY <2>7 DEF Return
  <2>9. Doing' = Does(s.arg, m)
    <3>1. Does(s.arg, m) = [trace |-> Append(m.trace, <<s.arg, m.var>>), status |-> Outcome(m.trace, s.arg), var |-> m.var]
      BY <1>5, <2>1, DoesIs
    <3>2. c = s.arg
      BY <2>4
    <3> HIDE DEF c, s
    <3> QED BY <1>1, <1>6, <2>7, <2>8, <3>1, <3>2 DEF Doing
  <2>10. Does(s.arg, m) = Means(s, m)
    BY <2>1 DEF Means
  <2>11. Doing' = Sofar(i + 1)'
    BY <1>1, <1>4, <2>9, <2>10 DEF Sofar
  <2>12. next' = spot[i + 1] + 1
    BY <1>1, <1>2, <1>4, <1>5, <2>3
  <2>13. Between(spot, i + 1)'
    BY <1>1, <2>6, <2>8, <2>11, <2>12 DEF Between
  <2> QED BY <1>1, <1>4, <1>5, <2>7, <2>13 DEF Onward, Stage
<1> QED BY <1>4, <1>7, <1>8 DEF FlatStatement

LEMMA CollectLineFollows ==
    ASSUME NEW spot, Spots(spot), NEW i \in 0 .. Len(wanted), Stage(spot, i), CollectLine
    PROVE  Onward(spot)
<1> DEFINE s == wanted[i + 1]
           m == Sofar(i)
           l == program[next]
           b == TextOf(s)
<1>1. /\ stack = <<>> /\ block # <<>> /\ ~Complete(block) /\ next' = next + 1
      /\ wanted' = wanted /\ program' = program /\ loopvar' = loopvar /\ alive' = alive
      /\ trace' = trace /\ status' = status
  BY DEF CollectLine, Reads
<1>2. /\ i < Len(wanted) /\ FlatBlock(s) /\ Len(block) \in 1 .. Len(b)
      /\ \A k \in 1 .. Len(block) : block[k] = b[k]
      /\ next = spot[i] + Len(block) + 1 /\ Doing = Sofar(i)
  BY <1>1, OnlyCollecting DEF Collecting
<1>3. Stands(program, spot[i], b) /\ spot[i] \in Nat /\ alive = TRUE
  BY <1>2, NextStatement, SpotsAre DEF Spots
<1>4. block \in Seq(TextLine) /\ Size(b) < MaxBlock
  BY <1>2 DEF Spots, InterpTypes, FlatBlock
<1>5. Len(block) # Len(b)
  BY <1>1, <1>2, <1>4, BlockEnds
<1> DEFINE n == Len(block)
<1>6. b \in Seq(TextLine)
  BY <1>2, BlockText DEF Shape
<1> HIDE DEF b
<1>7. n \in Nat /\ Len(b) \in Nat /\ n + 1 \in 1 .. Len(b) /\ n < Len(b)
  BY <1>2, <1>4, <1>5, <1>6
<1>8. l = b[n + 1]
  <2>1. next = spot[i] + (n + 1)
    <3> DEFINE p == spot[i]
    <3>1. next = p + n + 1 /\ p \in Nat
      BY <1>2, <1>3
    <3> HIDE DEF p, n
    <3>2. next = p + (n + 1)
      BY ONLY <1>7, <3>1
    <3> QED BY <3>2 DEF p
  <2> QED BY <1>3, <1>7, <2>1 DEF Stands
<1>11. l \in TextLine
  BY <1>6, <1>7, <1>8
<1>9. Size(Append(block, l)) \in Nat /\ Size(Append(block, l)) < MaxBlock /\ MaxBlock \in Nat
  <2> DEFINE c == Append(block, l)
  <2> HIDE DEF l, n
  <2>1. c \in Seq(TextLine) /\ Len(c) = Len(block) + 1
    BY <1>4, <1>11
  <2>2. Len(c) <= Len(b) /\ \A k \in 1 .. Len(c) : c[k] = b[k]
    BY <1>2, <1>4, <1>7, <1>8, <1>11, <2>1 DEF n
  <2> HIDE DEF c
  <2>3. Size(c) \in Nat /\ Size(b) \in Nat /\ Size(c) <= Size(b)
    BY <1>6, <2>1, <2>2, SizeGrows
  <2>4. Size(c) < MaxBlock
    BY <1>4, <2>3, InterpreterAssumption
  <2> QED BY <2>3, <2>4, InterpreterAssumption DEF c
<1>10. block' = Append(block, l) /\ UNCHANGED stack
  <2>1. ~(Size(Append(block, l)) >= MaxBlock)
    BY <1>9
  <2> QED BY <2>1 DEF CollectLine
<1> HIDE DEF l
<1>12. Len(block') = n + 1 /\ \A k \in 1 .. n + 1 : block'[k] = b[k]
  BY <1>2, <1>4, <1>7, <1>8, <1>10, <1>11
<1>13. Len(block') \in 1 .. Len(b) /\ \A k \in 1 .. Len(block') : block'[k] = b[k]
  BY <1>7, <1>12
<1>14. next' = spot[i] + Len(block') + 1
  <2> DEFINE p == spot[i]
             q == Len(block')
  <2>1. next = p + n + 1 /\ p \in Nat /\ next' = next + 1 /\ q = n + 1
    BY <1>1, <1>2, <1>3, <1>12
  <2> HIDE DEF p, n, q
  <2>2. next' = p + q + 1
    BY ONLY <1>7, <2>1
  <2> QED BY <2>2 DEF p, q
<1>15. Doing' = Sofar(i)'
  BY <1>1, <1>2 DEF Doing, Sofar
<1>16. Collecting(spot, i)'
  BY <1>1, <1>2, <1>10, <1>13, <1>14, <1>15 DEF Collecting, b
<1> QED BY <1>1, <1>3, <1>16 DEF Onward, Stage

LEMMA RunBlockFollows ==
    ASSUME NEW spot, Spots(spot), NEW i \in 0 .. Len(wanted), Stage(spot, i), RunBlock
    PROVE  Onward(spot)
<1> DEFINE s == wanted[i + 1]
           m == Sofar(i)
           b == TextOf(s)
           n == Len(block)
<1>1. /\ stack = <<>> /\ block # <<>> /\ (Complete(block) \/ next > Len(program)) /\ next' = next
      /\ wanted' = wanted /\ program' = program /\ loopvar' = loopvar /\ alive' = alive
      /\ trace' = trace /\ status' = status /\ stack' = <<Frame(block)>> /\ block' = <<>>
  BY DEF RunBlock
<1>2. /\ i < Len(wanted) /\ FlatBlock(s) /\ n \in 1 .. Len(b)
      /\ \A k \in 1 .. n : block[k] = b[k]
      /\ next = spot[i] + n + 1 /\ Doing = m
  BY <1>1, OnlyCollecting DEF Collecting
<1>3. Stands(program, spot[i], b) /\ spot[i] \in Nat /\ alive = TRUE /\ spot[i + 1] = spot[i] + Len(b)
      /\ m \in States
  BY <1>2, NextStatement, SpotsAre DEF Spots
<1>4. block \in Seq(TextLine) /\ b \in Seq(TextLine)
  BY <1>2, BlockText DEF Spots, InterpTypes, Shape
<1>5. n = Len(b)
  <2>1. CASE Complete(block)
    BY <1>2, <1>4, <2>1, BlockEnds
  <2>2. CASE next > Len(program)
    <3>1. spot[i] + Len(b) <= Len(program)
      BY <1>3 DEF Stands
    <3>2. Len(b) \in Nat /\ Len(program) \in Nat
      BY <1>4 DEF Spots, InterpTypes
    <3> HIDE DEF b
    <3> QED BY <1>2, <1>3, <2>2, <3>1, <3>2
  <2> QED BY <1>1, <2>1, <2>2
<1>6. block = b
  <2> HIDE DEF b
  <2> QED BY <1>2, <1>4, <1>5, SeqEqual
<1>7. Frame(block) = Entered(s)
  BY <1>2, <1>6, FrameIs
<1> DEFINE f == Entered(s)
<1>8. Under(f, s, Zero(m), Zero(m)) /\ f.last = 0
  BY <1>2, <1>3, UnderEnters DEF Entered
<1>9. stack' = <<f>>
  BY <1>1, <1>7
<1> HIDE DEF f
<1>10. Len(stack') = 1 /\ stack'[1] = f
  BY <1>9
<1>11. Zero(m) = [trace |-> trace, status |-> 0, var |-> loopvar]
  <2>1. m.trace = trace /\ m.var = loopvar
    BY <1>2 DEF Doing
  <2> QED BY <1>3, <2>1, ZeroIs
<1>12. Inside' = Zero(m)
  BY <1>1, <1>8, <1>10, <1>11 DEF Inside
<1>13. Sofar(i)' = m
  BY <1>1 DEF Sofar
<1>14. next' = spot[i + 1] + 1
  BY <1>1, <1>2, <1>3, <1>5
<1>15. Under(stack'[1], wanted'[i + 1], Zero(Sofar(i)'), Inside')
  BY <1>1, <1>8, <1>10, <1>12, <1>13
<1>16. Executing(spot, i)'
  BY <1>1, <1>2, <1>10, <1>14, <1>15 DEF Executing
<1> QED BY <1>1, <1>3, <1>16 DEF Onward, Stage

LEMMA StepFollows ==
    ASSUME NEW spot, Spots(spot), NEW i \in 0 .. Len(wanted), Stage(spot, i), InterpNext
    PROVE  Onward(spot)
  BY ReadLineFollows, CollectLineFollows, RunBlockFollows, ForHeadFollows, WhileHeadFollows, IfHeadFollows,
     BodyLineFollows, BodyEndFollows
     DEF InterpNext

LEMMA ProgramStays ==
    ASSUME InterpNext
    PROVE  wanted' = wanted /\ program' = program
  BY DEF InterpNext, ReadLine, CollectLine, RunBlock, ForHead, WhileHead, IfHead, BodyLine, BodyEnd

LEMMA InitFollows == InterpInit => Sim
<1> SUFFICES ASSUME InterpInit, Written
             PROVE  alive = TRUE /\ \E spot \in [0 .. Len(wanted) -> Nat] :
                      Places(wanted, spot, program) /\ \E i \in 0 .. Len(wanted) : Stage(spot, i)
  BY DEF Sim
<1>1. InterpTypes
  BY InitTypes
<1>2. PICK spot \in [0 .. Len(wanted) -> Nat] : Places(wanted, spot, program)
  BY <1>1, TextTypes DEF InterpTypes, Written
<1>3. alive = TRUE
  BY DEF InterpInit
<1>4. Spots(spot)
  BY <1>1, <1>2, <1>3 DEF Spots
<1>5. MeaningGoes(wanted) /\ Len(wanted) \in Nat /\ spot[0] = 0
  BY <1>4, SpotsAre
<1>6. Doing = Sofar(0)
  BY <1>5 DEF MeaningGoes, Sofar, Nothing, Doing, InterpInit
<1>7. Between(spot, 0)
  BY <1>5, <1>6 DEF Between, InterpInit
<1>8. 0 \in 0 .. Len(wanted)
  BY <1>5
<1> QED BY <1>2, <1>3, <1>7, <1>8 DEF Stage

LEMMA SimStep == InterpTypes /\ Sim /\ [InterpNext]_interpVars => Sim'
<1>1. CASE UNCHANGED interpVars
  BY <1>1 DEF interpVars, Sim, Written, Stage, Between, Collecting, Executing, Doing, Inside, Sofar
<1>2. ASSUME InterpTypes, Sim, InterpNext
      PROVE  Sim'
  <2>1. wanted' = wanted /\ program' = program
    BY <1>2, ProgramStays
  <2> SUFFICES ASSUME Written'
               PROVE  (alive = TRUE)' /\ \E spot \in [0 .. Len(wanted) -> Nat] :
                        Places(wanted, spot, program) /\ \E i \in 0 .. Len(wanted) : Stage(spot, i)'
    BY <2>1 DEF Sim
  <2>2. Written
    BY <2>1 DEF Written
  <2>3. PICK spot \in [0 .. Len(wanted) -> Nat] :
                        Places(wanted, spot, program) /\ \E i \in 0 .. Len(wanted) : Stage(spot, i)
    BY <1>2, <2>2 DEF Sim
  <2>4. Spots(spot)
    BY <1>2, <2>2, <2>3 DEF Spots, Sim
  <2>5. PICK i \in 0 .. Len(wanted) : Stage(spot, i)
    BY <2>3
  <2>6. Onward(spot)
    BY <1>2, <2>4, <2>5, StepFollows
  <2> QED BY <2>3, <2>6 DEF Onward
<1> QED BY <1>1, <1>2

(* Nothing is left to read only when every statement is done.              *)
LEMMA FollowsIsWritten == InterpTypes /\ Sim => RunsAsWritten
<1> SUFFICES ASSUME InterpTypes, Sim, Finished, Flat(wanted), program = Text(wanted)
             PROVE  trace = Meaning(wanted).trace /\ status = Meaning(wanted).status
  BY DEF RunsAsWritten
<1>1. Written
  BY DEF Written
<1>2. PICK spot \in [0 .. Len(wanted) -> Nat] :
                        Places(wanted, spot, program) /\ \E i \in 0 .. Len(wanted) : Stage(spot, i)
  BY <1>1 DEF Sim
<1>3. Spots(spot)
  BY <1>1, <1>2 DEF Spots, Sim
<1>4. PICK i \in 0 .. Len(wanted) : Stage(spot, i)
  BY <1>2
<1>5. stack = <<>> /\ block = <<>> /\ next > Len(program)
  BY <1>3 DEF Finished, Spots
<1>6. next = spot[i] + 1 /\ Doing = Sofar(i)
  BY <1>4, <1>5, OnlyBetween DEF Between
<1>7. /\ MeaningGoes(wanted) /\ Len(wanted) \in Nat /\ spot[i] \in Nat
      /\ FlatProgram(wanted)
  BY <1>3, SpotsAre
<1>8. i = Len(wanted)
  <2> SUFFICES ASSUME i < Len(wanted)
               PROVE  FALSE
    BY <1>7
  <2> DEFINE b == TextOf(wanted[i + 1])
  <2>1. Stands(program, spot[i], b) /\ FlatStatement(wanted[i + 1])
    BY <1>3, NextStatement
  <2>2. Len(b) \in Nat /\ Len(b) >= 1
    <3>1. CASE FlatBlock(wanted[i + 1])
      <4>1. b \in Seq(TextLine) /\ Len(b) = Len(Inner(wanted[i + 1])) + 3
        BY <3>1, BlockText DEF Shape
      <4>2. Inner(wanted[i + 1]) \in Seq(TextLine)
        BY <3>1, TextIsShape DEF FlatBlock
      <4>3. Len(Inner(wanted[i + 1])) \in Nat
        BY <4>2
      <4> QED BY <4>1, <4>3
    <3>2. CASE wanted[i + 1] \in Statement /\ Simple(wanted[i + 1])
      <4>1. b = <<wanted[i + 1]>>
        BY <3>2 DEF TextOf, Simple
      <4> HIDE DEF b
      <4> QED BY <4>1
    <3> QED BY <2>1, <3>1, <3>2 DEF FlatStatement
  <2>3. Len(program) \in Nat /\ spot[i] + Len(b) <= Len(program)
    BY <1>3, <2>1 DEF Stands, Spots, InterpTypes
  <2> HIDE DEF b
  <2> QED BY <1>5, <1>6, <1>7, <2>2, <2>3
<1>9. Doing = Meaning(wanted)
  BY <1>6, <1>7, <1>8 DEF MeaningGoes, Sofar
<1> QED BY <1>9 DEF Doing

(* Every flat program, typed at the prompt or run from a script, runs what *)
(* its author wrote: botshell_run and botshell_exec_script collect its     *)
(* blocks, and run_for_loop, run_while_loop and run_if_statement execute   *)
(* them; and the machine stays in its types (InterpInv).                   *)
THEOREM ProgramsRunAsWritten == InterpSpec => []InterpInv
<1>1. InterpInit => InterpTypes /\ Sim
  BY InitTypes, InitFollows
<1>2. (InterpTypes /\ Sim) /\ [InterpNext]_interpVars => (InterpTypes /\ Sim)'
  BY StepTypes, SimStep
<1>3. InterpTypes /\ Sim => InterpInv
  BY TypesAreOK, FollowsIsWritten DEF InterpInv
<1> QED BY <1>1, <1>2, <1>3, PTL DEF InterpSpec

(***************************************************************************)
(* The parser.  What each pass over the text returns for what an author     *)
(* writes: signs and blanks, then a token in each style of quoting, then   *)
(* the variables in it; and what the passes return for any text at all.    *)
(***************************************************************************)
(* No two signs are the same character.                                    *)
LEMMA SignsDiffer ==
      /\ Space \notin {Pipe, Gt, Lt, Amp, Apostrophe, DoubleQuote, Backslash, Hash,
           Dollar, LBrace, RBrace, Question, Wave, Slash, Two}
      /\ Pipe \notin {Gt, Lt, Amp, Apostrophe, DoubleQuote, Backslash, Hash, Dollar,
           LBrace, RBrace, Question, Wave, Slash, Two}
      /\ Gt \notin {Lt, Amp, Apostrophe, DoubleQuote, Backslash, Hash, Dollar, LBrace,
           RBrace, Question, Wave, Slash, Two}
      /\ Lt \notin {Amp, Apostrophe, DoubleQuote, Backslash, Hash, Dollar, LBrace, RBrace,
           Question, Wave, Slash, Two}
      /\ Amp \notin {Apostrophe, DoubleQuote, Backslash, Hash, Dollar, LBrace, RBrace,
           Question, Wave, Slash, Two}
      /\ Apostrophe \notin {DoubleQuote, Backslash, Hash, Dollar, LBrace, RBrace,
           Question, Wave, Slash, Two}
      /\ DoubleQuote \notin {Backslash, Hash, Dollar, LBrace, RBrace, Question, Wave,
           Slash, Two}
      /\ Backslash \notin {Hash, Dollar, LBrace, RBrace, Question, Wave, Slash, Two}
      /\ Hash \notin {Dollar, LBrace, RBrace, Question, Wave, Slash, Two}
      /\ Dollar \notin {LBrace, RBrace, Question, Wave, Slash, Two}
      /\ LBrace \notin {RBrace, Question, Wave, Slash, Two}
      /\ RBrace \notin {Question, Wave, Slash, Two}
      /\ Question \notin {Wave, Slash, Two}
      /\ Wave \notin {Slash, Two}
      /\ Slash \notin {Two}
  BY Zenon DEF Space, Pipe, Gt, Lt, Amp, Apostrophe, DoubleQuote, Backslash,
               Hash, Dollar, LBrace, RBrace, Question, Wave, Slash, Two

Signed == Quoting \cup Naming \cup {Two}

LEMMA SignsAreCharacters ==
    /\ \A c \in Signed : c \in Character
    /\ Quoting \subseteq Character /\ Special \subseteq Quoting
    /\ NameChar \subseteq Character /\ \A c \in Naming \cup Quoting : c \notin NameChar
  BY ParserAssumption DEF Quoting, Signed

(* Where the characters of C end.                                          *)
EndsAt(s, i, C, e) ==
    /\ e \in i .. (Len(s) + 1)
    /\ \A k \in i .. (e - 1) : s[k] \in C
    /\ e <= Len(s) => s[e] \notin C

LEMMA EndOfIs ==
    ASSUME NEW A, NEW s \in Seq(A), NEW C, NEW i \in 1 .. (Len(s) + 1)
    PROVE  EndsAt(s, i, C, EndOf(s, i, C))
<1> DEFINE out == {j \in i .. Len(s) : s[j] \notin C}
           e == EndOf(s, i, C)
<1>0. Len(s) \in Nat
  OBVIOUS
<1>1. CASE out = {}
  <2>1. e = Len(s) + 1
    BY <1>1 DEF EndOf
  <2>2. \A k \in i .. Len(s) : s[k] \in C
    BY <1>1
  <2>3. \A k \in i .. (e - 1) : s[k] \in C
    BY <1>0, <2>1, <2>2
  <2>4. e \in i .. (Len(s) + 1) /\ ~(e <= Len(s))
    BY <1>0, <2>1
  <2> QED BY <2>3, <2>4 DEF EndsAt
<1>2. CASE out # {}
  <2>1. e = CHOOSE j \in out : \A k \in out : j <= k
    BY <1>2 DEF EndOf
  <2>2. out \subseteq Nat
    BY <1>0
  <2>3. \E j \in out : \A k \in out : j <= k
    <3> HIDE DEF out
    <3> QED BY <1>2, <2>2, LeastIs
  <2>4. e \in out /\ \A k \in out : e <= k
    <3> HIDE DEF out, e
    <3> QED BY <2>1, <2>3
  <2>5. e \in i .. Len(s) /\ s[e] \notin C
    <3> HIDE DEF e
    <3> QED BY <2>4
  <2>6. ASSUME NEW k \in i .. (e - 1)
        PROVE  s[k] \in C
    <3> HIDE DEF e
    <3>1. k \in i .. Len(s) /\ ~(e <= k)
      BY <1>0, <2>5
    <3>2. k \notin out
      BY <2>4, <3>1
    <3> QED BY <3>1, <3>2
  <2> HIDE DEF e
  <2>7. e \in i .. (Len(s) + 1)
    BY <1>0, <2>5
  <2> QED BY <2>5, <2>6, <2>7 DEF EndsAt, e
<1> QED BY <1>1, <1>2

LEMMA EndsOnce ==
    ASSUME NEW A, NEW s \in Seq(A), NEW C, NEW i \in 1 .. (Len(s) + 1), NEW e, EndsAt(s, i, C, e)
    PROVE  EndOf(s, i, C) = e
<1> DEFINE d == EndOf(s, i, C)
<1>1. EndsAt(s, i, C, d)
  BY EndOfIs
<1> HIDE DEF d
<1>2. Len(s) \in Nat /\ d \in i .. (Len(s) + 1) /\ e \in i .. (Len(s) + 1)
  BY <1>1 DEF EndsAt
<1>3. ~(d < e)
  <2>1. d < e => d \in i .. (e - 1) /\ d <= Len(s)
    BY <1>2
  <2> QED BY <1>1, <2>1 DEF EndsAt
<1>4. ~(e < d)
  <2>1. e < d => e \in i .. (d - 1) /\ e <= Len(s)
    BY <1>2
  <2> QED BY <1>1, <2>1 DEF EndsAt
<1>5. d = e
  BY <1>2, <1>3, <1>4
<1> QED BY <1>5 DEF d

(* Blanks in front are skipped.                                            *)
LEMMA SkippedIs ==
    ASSUME NEW s \in Seq(Character), s = <<>> \/ s[1] # Space
    PROVE  Skipped(s) = s /\ Skipped(<<Space>> \o s) = s
<1>0. Space \in Character
  BY SignsAreCharacters DEF Signed, Quoting
<1> DEFINE u == <<Space>> \o s
<1>1. /\ u \in Seq(Character) /\ Len(u) = Len(s) + 1 /\ Len(s) \in Nat
      /\ u[1] = Space /\ \A k \in 1 .. Len(s) : u[k + 1] = s[k]
  BY <1>0
<1>2. Skipped(s) = s
  <2>1. EndsAt(s, 1, {Space}, 1)
    <3>1. s = <<>> => Len(s) = 0
      OBVIOUS
    <3>2. 1 \in 1 .. (Len(s) + 1) /\ (1 <= Len(s) => s[1] # Space) /\ \A k \in 1 .. (1 - 1) : FALSE
      BY <1>1, <3>1
    <3> QED BY <3>2 DEF EndsAt
  <2>2. EndOf(s, 1, {Space}) = 1
    <3>1. 1 \in 1 .. (Len(s) + 1)
      BY <1>1
    <3> QED BY <2>1, <3>1, EndsOnce
  <2> QED BY <2>2, SubSeqFull DEF Skipped
<1>3. Skipped(u) = s
  <2> HIDE DEF u
  <2>1. EndsAt(u, 1, {Space}, 2)
    <3>1. 1 <= Len(s) => u[2] # Space
      <4>1. s = <<>> => Len(s) = 0
        OBVIOUS
      <4>2. 1 <= Len(s) => u[1 + 1] = s[1]
        BY <1>1
      <4> QED BY <4>1, <4>2
    <3>2. 2 \in 1 .. (Len(u) + 1) /\ (2 <= Len(u) => 1 <= Len(s)) /\ \A k \in 1 .. (2 - 1) : k = 1
      BY <1>1
    <3> QED BY <1>1, <3>1, <3>2 DEF EndsAt
  <2>2. EndOf(u, 1, {Space}) = 2
    <3>1. 1 \in 1 .. (Len(u) + 1)
      BY <1>1
    <3> QED BY <1>1, <2>1, <3>1, EndsOnce
  <2>3. SubSeq(u, 2, Len(u)) = s
    <3>1. Tail(u) = s
      BY <1>0 DEF u
    <3>2. u # <<>>
      BY <1>1
    <3> QED BY <1>1, <3>1, <3>2, TailIsSubSeq
  <2> QED BY <2>2, <2>3 DEF Skipped
<1> QED BY <1>2, <1>3 DEF u

(***************************************************************************)
(* Taken: what it returns, and what an escaped text is read as.            *)
(***************************************************************************)
Kept(s, i) == IF s[i] = Backslash /\ i < Len(s) THEN i + 1 ELSE i

TakeStep(s, ends, f) ==
    [i \in 1 .. (Len(s) + 1) |->
        IF i > Len(s) THEN [text |-> <<>>, rest |-> <<>>]
        ELSE IF s[i] \in ends THEN [text |-> <<>>, rest |-> SubSeq(s, i, Len(s))]
        ELSE [text |-> <<s[Kept(s, i)]>> \o f[Kept(s, i) + 1].text, rest |-> f[Kept(s, i) + 1].rest]]

Takes(s, ends) == CHOOSE f : f = TakeStep(s, ends, f)

LEMMA TakenIsTakes == \A s, ends : Taken(s, ends) = Takes(s, ends)[1]
  BY DEF Taken, Takes, TakeStep, Kept

Tokens == [text : Seq(Character), rest : Seq(Character)]

TakesOn(s, ends, f) ==
    /\ f[Len(s) + 1] = [text |-> <<>>, rest |-> <<>>]
    /\ \A i \in 1 .. Len(s) :
         /\ s[i] \in ends => f[i] = [text |-> <<>>, rest |-> SubSeq(s, i, Len(s))]
         /\ s[i] \notin ends => f[i] = [text |-> <<s[Kept(s, i)]>> \o f[Kept(s, i) + 1].text,
                                        rest |-> f[Kept(s, i) + 1].rest]

LEMMA KeptIs ==
    ASSUME NEW s \in Seq(Character), NEW i \in 1 .. Len(s)
    PROVE  /\ Kept(s, i) \in i .. Len(s) /\ Kept(s, i) + 1 \in 1 .. (Len(s) + 1)
           /\ s[Kept(s, i)] \in Character
<1>1. Kept(s, i) \in i .. Len(s) /\ Kept(s, i) + 1 \in 1 .. (Len(s) + 1)
  BY DEF Kept
<1> QED BY <1>1

LEMMA TakesGoesOn ==
    ASSUME NEW s \in Seq(Character), NEW ends
    PROVE  /\ Takes(s, ends) \in [1 .. (Len(s) + 1) -> Tokens]
           /\ TakesOn(s, ends, Takes(s, ends))
<1> DEFINE N == Len(s)
           X == 1 .. (N + 1)
           V == Tokens
           D == {i \in 1 .. N : s[i] \notin ends}
           rk == [x \in X |-> (N + 1) - x]
           succ == [x \in D |-> Kept(s, x) + 1]
           base == [x \in X |-> IF x > N THEN [text |-> <<>>, rest |-> <<>>]
                                ELSE [text |-> <<>>, rest |-> SubSeq(s, x, N)]]
           comb == [x \in D |-> [v \in V |-> [text |-> <<s[Kept(s, x)]>> \o v.text, rest |-> v.rest]]]
           F == Takes(s, ends)
<1>1. N \in Nat /\ N + 1 \in Nat /\ rk \in [X -> 0 .. (N + 1)] /\ D \in SUBSET X
  OBVIOUS
<1>2. \A x \in D : Kept(s, x) + 1 \in X /\ Kept(s, x) \in x .. N /\ s[Kept(s, x)] \in Character
  BY KeptIs
<1>3. succ \in [D -> X] /\ Descends(D, rk, succ)
  <2>1. succ \in [D -> X]
    BY <1>2
  <2>2. ASSUME NEW x \in D
        PROVE  rk[succ[x]] < rk[x]
    <3> DEFINE y == Kept(s, x)
    <3>1. y + 1 \in X /\ y \in x .. N /\ succ[x] = y + 1 /\ x \in X
      BY <1>1, <1>2
    <3>2. rk[y + 1] = (N + 1) - (y + 1) /\ rk[x] = (N + 1) - x
      BY <3>1
    <3> HIDE DEF rk, succ, y
    <3> QED BY <1>1, <3>1, <3>2
  <2> QED BY <2>1, <2>2 DEF Descends
<1>4. base \in [X -> V]
  <2>1. \A x \in 1 .. N : SubSeq(s, x, N) \in Seq(Character)
    OBVIOUS
  <2>2. <<>> \in Seq(Character)
    OBVIOUS
  <2>3. \A x \in X : base[x] \in V
    <3> HIDE DEF N
    <3> QED BY <1>1, <2>1, <2>2 DEF Tokens
  <2> QED BY <2>3
<1>5. comb \in [D -> [V -> V]]
  <2>1. ASSUME NEW x \in D, NEW v \in V
        PROVE  [text |-> <<s[Kept(s, x)]>> \o v.text, rest |-> v.rest] \in V
    <3>1. v.text \in Seq(Character) /\ v.rest \in Seq(Character) /\ <<s[Kept(s, x)]>> \in Seq(Character)
      BY <1>2 DEF Tokens
    <3>2. <<s[Kept(s, x)]>> \o v.text \in Seq(Character)
      BY <3>1
    <3> QED BY <3>1, <3>2 DEF Tokens
  <2> HIDE DEF V, D
  <2> QED BY <2>1
<1>6. PICK f \in [X -> V] : Recurs(f, X, D, succ, base, comb)
  <2>1. HasFunction(X, V, D, succ, base, comb)
    <3> HIDE DEF N, X, V, D, rk, succ, base, comb
    <3> QED BY <1>1, <1>3, <1>4, <1>5, RecursionHasFunction
  <2> QED BY <2>1 DEF HasFunction
<1>7. ASSUME NEW g, NEW x \in X, x \in D => g[succ[x]] \in V
      PROVE  TakeStep(s, ends, g)[x] = IF x \in D THEN comb[x][g[succ[x]]] ELSE base[x]
  <2>1. CASE x \in D
    <3>1. succ[x] = Kept(s, x) + 1 /\ x \in 1 .. N /\ ~(x > N) /\ s[x] \notin ends
      BY <2>1, <1>1
    <3>2. comb[x][g[succ[x]]] = [text |-> <<s[Kept(s, x)]>> \o g[succ[x]].text, rest |-> g[succ[x]].rest]
      BY <2>1, <1>7
    <3>3. TakeStep(s, ends, g)[x]
            = [text |-> <<s[Kept(s, x)]>> \o g[Kept(s, x) + 1].text, rest |-> g[Kept(s, x) + 1].rest]
      BY <3>1 DEF TakeStep
    <3> HIDE DEF comb, succ
    <3> QED BY <2>1, <3>1, <3>2, <3>3
  <2>2. CASE x \notin D
    <3>1. x > N \/ s[x] \in ends
      BY <2>2, <1>1
    <3>2. base[x] = IF x > N THEN [text |-> <<>>, rest |-> <<>>] ELSE [text |-> <<>>, rest |-> SubSeq(s, x, N)]
      OBVIOUS
    <3>3. TakeStep(s, ends, g)[x] = base[x]
      BY <3>1, <3>2 DEF TakeStep
    <3> QED BY <2>2, <3>3
  <2> QED BY <2>1, <2>2
<1>8. \A g : TakeStep(s, ends, g) = [x \in X |-> TakeStep(s, ends, g)[x]]
  BY DEF TakeStep
<1>9. F = TakeStep(s, ends, F)
  <2>1. \A x \in X : f[x] = TakeStep(s, ends, f)[x]
    <3>1. \A x \in D : succ[x] \in X
      BY <1>3
    <3> HIDE DEF X, V, D, succ, base, comb
    <3> QED BY <1>6, <1>7, <3>1 DEF Recurs
  <2>2. f = [x \in X |-> f[x]]
    OBVIOUS
  <2>3. f = TakeStep(s, ends, f)
    <3> HIDE DEF X, V
    <3> QED BY <1>8, <2>1, <2>2
  <2> QED BY <2>3 DEF Takes
<1>10. F \in [X -> V]
  <2> DEFINE T == {x \in X : F[x] \in V}
  <2>0. \A x \in X : F[x] = TakeStep(s, ends, F)[x]
    BY <1>9
  <2>1. X \ D \subseteq T
    <3>1. ASSUME NEW x \in X, x \notin D
          PROVE  F[x] \in V
      <4>1. TakeStep(s, ends, F)[x] = base[x]
        BY <1>7, <3>1
      <4> HIDE DEF F, base
      <4> QED BY <2>0, <1>4, <4>1
    <3> QED BY <3>1
  <2>2. Inherited(D, succ, T)
    <3>1. ASSUME NEW x \in D, succ[x] \in T
          PROVE  F[x] \in V
      <4>1. F[succ[x]] \in V /\ x \in X
        BY <3>1
      <4>2. TakeStep(s, ends, F)[x] = comb[x][F[succ[x]]]
        BY <1>7, <4>1
      <4> HIDE DEF F, comb, V, X, D, succ, T
      <4> QED BY <2>0, <1>5, <4>1, <4>2
    <3> QED BY <3>1 DEF Inherited
  <2>3. X \subseteq T
    <3> DEFINE M == N + 1
    <3>1. M \in Nat /\ rk \in [X -> 0 .. M]
      BY <1>1
    <3> HIDE DEF N, X, V, D, T, F, rk, succ, M
    <3>2. Descends(D, rk, succ) /\ D \in SUBSET X /\ succ \in [D -> X]
      BY <1>1, <1>3
    <3> QED BY <2>1, <2>2, <3>1, <3>2, RecursionHolds
  <2> HIDE DEF F
  <2>4. \A x \in X : F[x] \in V
    BY <2>3
  <2>5. F = [x \in X |-> F[x]]
    BY <1>8, <1>9
  <2> QED BY <2>4, <2>5
<1>11. TakesOn(s, ends, F)
  <2> HIDE DEF F
  <2>1. \A x \in X : F[x] = TakeStep(s, ends, F)[x]
    BY <1>9
  <2>2. F[N + 1] = [text |-> <<>>, rest |-> <<>>]
    <3>1. N + 1 \in X /\ N + 1 > N
      BY <1>1
    <3> QED BY <2>1, <3>1 DEF TakeStep
  <2>3. ASSUME NEW i \in 1 .. N
        PROVE  F[i] = IF s[i] \in ends THEN [text |-> <<>>, rest |-> SubSeq(s, i, N)]
                      ELSE [text |-> <<s[Kept(s, i)]>> \o F[Kept(s, i) + 1].text,
                            rest |-> F[Kept(s, i) + 1].rest]
    <3>1. i \in X /\ ~(i > N)
      BY <1>1
    <3> QED BY <2>1, <3>1 DEF TakeStep
  <2> QED BY <2>2, <2>3 DEF TakesOn
<1> QED BY <1>10, <1>11

LEMMA ConcatRest ==
    ASSUME NEW A, NEW x \in Seq(A), NEW y \in Seq(A)
    PROVE  SubSeq(x \o y, Len(x) + 1, Len(x \o y)) = y
<1> DEFINE s == x \o y
           r == SubSeq(s, Len(x) + 1, Len(s))
<1>1. /\ s \in Seq(A) /\ Len(s) = Len(x) + Len(y) /\ Len(x) \in Nat /\ Len(y) \in Nat
      /\ \A k \in 1 .. Len(y) : s[Len(x) + k] = y[k]
  OBVIOUS
<1> HIDE DEF s
<1>2. r \in Seq(A) /\ Len(r) = Len(y) /\ \A k \in 1 .. Len(r) : r[k] = s[Len(x) + k]
  BY <1>1
<1> HIDE DEF r
<1>3. \A k \in 1 .. Len(r) : r[k] = y[k]
  BY <1>1, <1>2
<1>4. r = y
  BY <1>2, <1>3, SeqEqual
<1> QED BY <1>4 DEF r, s

(* The characters of an escaped text, one by one.                          *)
EscapedOne(c, C) == IF c \in C THEN <<Backslash, c>> ELSE <<c>>

EscapedParts(t, C) == [k \in DOMAIN t |-> EscapedOne(t[k], C)]

LEMMA EscapedIs ==
    ASSUME NEW t \in Seq(Character), NEW C
    PROVE  /\ Escaped(t, C) = FlattenSeq(EscapedParts(t, C))
           /\ EscapedParts(t, C) \in Seq(Seq(Character)) /\ Len(EscapedParts(t, C)) = Len(t)
           /\ \A k \in 1 .. Len(t) : EscapedParts(t, C)[k] = EscapedOne(t[k], C)
           /\ Escaped(t, C) \in Seq(Character)
<1>0. Backslash \in Character
  BY SignsAreCharacters DEF Signed, Quoting
<1>1. Escaped(t, C) = FlattenSeq(EscapedParts(t, C))
  BY DEF Escaped, EscapedParts, EscapedOne
<1>2. \A k \in 1 .. Len(t) : EscapedOne(t[k], C) \in Seq(Character)
  BY <1>0 DEF EscapedOne
<1>3. EscapedParts(t, C) \in Seq(Seq(Character)) /\ Len(EscapedParts(t, C)) = Len(t)
  <2> DEFINE B == Seq(Character)
  <2>1. DOMAIN t = 1 .. Len(t) /\ Len(t) \in Nat
    OBVIOUS
  <2> HIDE DEF B
  <2>2. \A k \in 1 .. Len(t) : EscapedOne(t[k], C) \in B
    BY <1>2 DEF B
  <2>3. EscapedParts(t, C) \in Seq(B) /\ Len(EscapedParts(t, C)) = Len(t)
    BY <2>1, <2>2 DEF EscapedParts
  <2> QED BY <2>3 DEF B
<1>4. \A k \in 1 .. Len(t) : EscapedParts(t, C)[k] = EscapedOne(t[k], C)
  BY DEF EscapedParts
<1>5. Escaped(t, C) \in Seq(Character)
  BY <1>1, <1>3, FlattenLays
<1> QED BY <1>1, <1>3, <1>4, <1>5

(* An escaped text is taken for what it is, up to what ends it.            *)
LEMMA TakenEscaped ==
    ASSUME NEW t \in Seq(Character), NEW C, Backslash \in C,
           NEW ends, ends \subseteq C, Backslash \notin ends,
           NEW v \in Seq(Character), v # <<>>, v[1] \in ends
    PROVE  Taken(Escaped(t, C) \o v, ends) = [text |-> t, rest |-> v]
<1> DEFINE U == EscapedParts(t, C)
           E == Escaped(t, C)
           s == E \o v
           f == Takes(s, ends)
           n == Len(t)
           P(k, q) == f[q + 1] = [text |-> SubSeq(t, k + 1, n), rest |-> v]
<1>1. /\ E = FlattenSeq(U) /\ U \in Seq(Seq(Character)) /\ Len(U) = n /\ n \in Nat
      /\ E \in Seq(Character) /\ \A k \in 1 .. n : U[k] = EscapedOne(t[k], C)
  BY EscapedIs
<1>2. PICK place \in [0 .. n -> Nat] : Lays(U, place, E)
  BY <1>1, FlattenLays
<1>3. /\ s \in Seq(Character) /\ Len(s) = Len(E) + Len(v) /\ Len(E) \in Nat /\ Len(v) \in Nat /\ Len(v) >= 1
      /\ \A k \in 1 .. Len(E) : s[k] = E[k]
      /\ s[Len(E) + 1] = v[1]
      /\ SubSeq(s, Len(E) + 1, Len(s)) = v
  <2> HIDE DEF E
  <2>1. Len(v) \in Nat \ {0}
    BY EmptySeq
  <2>2. s \in Seq(Character) /\ Len(s) = Len(E) + Len(v) /\ Len(E) \in Nat
        /\ \A k \in 1 .. Len(E) : s[k] = E[k]
    BY <1>1
  <2>3. s[Len(E) + 1] = v[1]
    BY <1>1, <2>1
  <2>4. SubSeq(s, Len(E) + 1, Len(s)) = v
    BY <1>1, ConcatRest
  <2> QED BY <2>1, <2>2, <2>3, <2>4
<1>4. TakesOn(s, ends, f)
  <2> HIDE DEF s
  <2> QED BY <1>3, TakesGoesOn
<1> HIDE DEF U, E, s, f
<1>5. place[n] = Len(E) /\ place[0] = 0
  BY <1>1, <1>2 DEF Lays
<1>6. P(n, place[n])
  <2>1. place[n] + 1 \in 1 .. Len(s) /\ s[place[n] + 1] \in ends
    BY <1>3, <1>5
  <2>2. f[place[n] + 1] = [text |-> <<>>, rest |-> SubSeq(s, place[n] + 1, Len(s))]
    BY <1>4, <2>1 DEF TakesOn
  <2>3. SubSeq(t, n + 1, n) = <<>>
    BY <1>1
  <2> QED BY <1>3, <1>5, <2>2, <2>3
<1>7. ASSUME NEW k \in 1 .. n, P(k, place[k])
      PROVE  P(k - 1, place[k - 1])
  <2> DEFINE i == place[k - 1] + 1
  <2>0. /\ place[k - 1] \in Nat /\ place[k] \in Nat /\ t[k] \in Character
        /\ place[k] = place[k - 1] + Len(U[k]) /\ Stands(E, place[k - 1], U[k]) /\ U[k] = EscapedOne(t[k], C)
    <3>1. k - 1 \in 0 .. n /\ k \in 0 .. n
      BY <1>1
    <3>2. place[k - 1] \in Nat /\ place[k] \in Nat
      BY <3>1
    <3> QED BY <1>1, <1>2, <3>2 DEF Lays
  <2>1. i \in 1 .. Len(s) /\ s[i] \notin ends /\ s[Kept(s, i)] = t[k] /\ Kept(s, i) = place[k]
    <3>1. CASE t[k] \in C
      <4>1. U[k] = <<Backslash, t[k]>> /\ Len(U[k]) = 2 /\ U[k][1] = Backslash /\ U[k][2] = t[k]
        BY <2>0, <3>1 DEF EscapedOne
      <4>2. place[k - 1] + 2 <= Len(E) /\ E[place[k - 1] + 1] = Backslash /\ E[place[k - 1] + 2] = t[k]
        BY <2>0, <4>1 DEF Stands
      <4>3. i \in 1 .. Len(E) /\ i + 1 \in 1 .. Len(E) /\ i + 1 = place[k - 1] + 2 /\ i < Len(s) /\ place[k] = i + 1
        <5>1. i = place[k - 1] + 1 /\ place[k] = i + 1 /\ i + 1 = place[k - 1] + 2
          BY <2>0, <4>1
        <5>2. i \in Nat \ {0} /\ i + 1 <= Len(E) /\ Len(E) \in Nat
          <6>1. Len(E) \in Nat
            BY <1>3
          <6>2. i \in Nat \ {0}
            BY <2>0
          <6> QED BY <4>2, <5>1, <6>1, <6>2
        <5>3. Len(s) \in Nat /\ Len(E) <= Len(s)
          BY <1>3
        <5> HIDE DEF i, E, s
        <5> QED BY <5>1, <5>2, <5>3
      <4>4. s[i] = Backslash /\ s[i + 1] = t[k]
        BY <1>3, <4>2, <4>3
      <4>5. i \in 1 .. Len(s)
        BY <1>3, <4>3
      <4> HIDE DEF i
      <4> QED BY <4>3, <4>4, <4>5 DEF Kept
    <3>2. CASE t[k] \notin C
      <4>1. U[k] = <<t[k]>> /\ Len(U[k]) = 1 /\ U[k][1] = t[k]
        BY <2>0, <3>2 DEF EscapedOne
      <4>2. place[k - 1] + 1 <= Len(E) /\ E[place[k - 1] + 1] = t[k]
        BY <2>0, <4>1 DEF Stands
      <4>3. i \in 1 .. Len(E) /\ i < Len(s) /\ place[k] = i
        BY <1>3, <2>0, <4>1, <4>2
      <4>4. s[i] = t[k] /\ t[k] # Backslash /\ t[k] \notin ends
        BY <1>3, <3>2, <4>2, <4>3
      <4>5. i \in 1 .. Len(s)
        BY <1>3, <4>3
      <4> HIDE DEF i
      <4> QED BY <4>3, <4>4, <4>5 DEF Kept
    <3> QED BY <3>1, <3>2
  <2>2. f[i] = [text |-> <<t[k]>> \o f[place[k] + 1].text, rest |-> f[place[k] + 1].rest]
    <3> HIDE DEF i
    <3> QED BY <1>4, <2>1 DEF TakesOn
  <2>3. f[place[k] + 1].text = SubSeq(t, k + 1, n) /\ f[place[k] + 1].rest = v
    <3>1. f[place[k] + 1] = [text |-> SubSeq(t, k + 1, n), rest |-> v]
      BY <1>7
    <3> DEFINE x == f[place[k] + 1]
    <3> HIDE DEF x
    <3>2. x = [text |-> SubSeq(t, k + 1, n), rest |-> v]
      BY <3>1 DEF x
    <3>3. x.text = SubSeq(t, k + 1, n) /\ x.rest = v
      BY <3>2
    <3> QED BY <3>3 DEF x
  <2>4. SubSeq(t, k, n) = <<t[k]>> \o SubSeq(t, k + 1, n)
    <3>1. n \in k .. Len(t)
      BY <1>1
    <3> QED BY <3>1, SubSeqRecursiveFirst
  <2>5. (k - 1) + 1 = k
    OBVIOUS
  <2> QED BY <2>2, <2>3, <2>4, <2>5
<1>8. P(0, place[0])
  <2> DEFINE S == {m \in Nat : m <= n => P(n - m, place[n - m])}
  <2>1. 0 \in S
    <3>1. n - 0 = n
      BY <1>1
    <3> QED BY <1>6, <3>1
  <2>2. ASSUME NEW m \in S
        PROVE  m + 1 \in S
    <3>0. m \in Nat /\ (m <= n => P(n - m, place[n - m]))
      OBVIOUS
    <3> HIDE DEF P
    <3>1. ASSUME m + 1 <= n
          PROVE  P(n - (m + 1), place[n - (m + 1)])
      <4>1. n - m \in 1 .. n /\ (n - m) - 1 = n - (m + 1) /\ m <= n
        BY <1>1, <3>0, <3>1
      <4>2. P(n - m, place[n - m])
        BY <3>0, <4>1
      <4>3. P((n - m) - 1, place[(n - m) - 1])
        BY <1>7, <4>1, <4>2
      <4> QED BY <4>1, <4>3
    <3> QED BY <3>0, <3>1
  <2>3. n \in S
    <3>1. S \subseteq Nat
      OBVIOUS
    <3> HIDE DEF S
    <3> QED BY <1>1, <2>1, <2>2, <3>1, AllNumbers
  <2>4. n - n = 0 /\ n <= n
    BY <1>1
  <2> HIDE DEF P
  <2> QED BY <2>3, <2>4
<1>9. SubSeq(t, 0 + 1, n) = t
  BY SubSeqFull
<1>10. f[1] = [text |-> t, rest |-> v]
  BY <1>5, <1>8, <1>9
<1> QED BY <1>10, TakenIsTakes DEF s, E, f

(***************************************************************************)
(* A word or a name as it is written is one token.                         *)
(***************************************************************************)
Ahead(u) == <<Space>> \o u

LEMMA SpacedIs ==
    ASSUME NEW x \in Seq(Character), NEW u \in Seq(Character)
    PROVE  /\ Spaced(x) \in Seq(Character) /\ Ahead(u) \in Seq(Character)
           /\ Spaced(x) \o u = x \o Ahead(u)
           /\ Ahead(u) # <<>> /\ Ahead(u)[1] = Space /\ Len(Ahead(u)) = Len(u) + 1
           /\ SubSeq(Ahead(u), 2, Len(Ahead(u))) = u
<1>0. Space \in Character /\ <<Space>> \in Seq(Character)
  BY SignsAreCharacters DEF Signed, Quoting
<1>1. Spaced(x) \in Seq(Character) /\ Ahead(u) \in Seq(Character)
  BY <1>0 DEF Spaced, Ahead
<1>2. Spaced(x) \o u = x \o Ahead(u)
  BY <1>0, ConcatAssociative DEF Spaced, Ahead
<1>3. Ahead(u)[1] = Space /\ Len(Ahead(u)) = Len(u) + 1 /\ Len(u) \in Nat
  BY <1>0 DEF Ahead
<1>4. Ahead(u) # <<>>
  BY <1>1, <1>3
<1>5. Tail(Ahead(u)) = u
  BY <1>0 DEF Ahead
<1>6. Tail(Ahead(u)) = SubSeq(Ahead(u), 2, Len(Ahead(u)))
  BY <1>1, <1>4, TailIsSubSeq
<1> QED BY <1>1, <1>2, <1>3, <1>4, <1>5, <1>6

QuotedFacts(t, q, v) ==
    LET Q == Quoted(t, q)
        s == Q \o v
    IN  /\ Q \in Seq(Character) /\ Len(Q) = Len(t) + 2 /\ s \in Seq(Character)
        /\ s # <<>> /\ s[1] = q /\ Tail(s) = t \o (<<q>> \o v)
        /\ \A k \in 1 .. Len(t) : s[k + 1] = t[k]
        /\ s[Len(t) + 2] = q

LEMMA QuotedIs ==
    ASSUME NEW t \in Seq(Character), NEW q \in Character, NEW v \in Seq(Character)
    PROVE  QuotedFacts(t, q, v)
<1> DEFINE Q == Quoted(t, q)
           s == Q \o v
           w == t \o (<<q>> \o v)
<1>0. <<q>> \in Seq(Character) /\ Len(t) \in Nat /\ Len(v) \in Nat
  OBVIOUS
<1>1. Q \in Seq(Character) /\ Len(Q) = Len(t) + 2
  BY <1>0 DEF Quoted
<1>a. \A x, y, z \in Seq(Character) : (x \o y) \o z = x \o (y \o z)
  <2>1. Regroups(Character)
    BY ConcatRegroups
  <2> QED BY <2>1 DEF Regroups
<1>2. s = <<q>> \o w
  <2>1. Q = (<<q>> \o t) \o <<q>>
    BY DEF Quoted
  <2>2. <<q>> \o t \in Seq(Character) /\ <<q>> \o v \in Seq(Character) /\ t \o (<<q>> \o v) \in Seq(Character)
    BY <1>0
  <2>3. s = (<<q>> \o t) \o (<<q>> \o v)
    BY <1>0, <1>a, <2>1, <2>2
  <2>4. (<<q>> \o t) \o (<<q>> \o v) = <<q>> \o (t \o (<<q>> \o v))
    BY <1>0, <1>a, <2>2
  <2> QED BY <2>3, <2>4
<1>3. w \in Seq(Character) /\ Len(w) = Len(t) + (1 + Len(v))
      /\ (\A k \in 1 .. Len(t) : w[k] = t[k]) /\ w[Len(t) + 1] = q
  <2> DEFINE y == <<q>> \o v
  <2>1. y \in Seq(Character) /\ Len(y) = 1 + Len(v) /\ y[1] = q
    BY <1>0
  <2> HIDE DEF y
  <2>2. t \o y \in Seq(Character) /\ Len(t \o y) = Len(t) + (1 + Len(v))
        /\ (\A k \in 1 .. Len(t) : (t \o y)[k] = t[k]) /\ (t \o y)[Len(t) + 1] = q
    BY <1>0, <2>1
  <2> QED BY <2>2 DEF y
<1> HIDE DEF w
<1>4. /\ s \in Seq(Character) /\ s # <<>> /\ s[1] = q /\ Tail(s) = w
      /\ \A k \in 1 .. Len(w) : s[k + 1] = w[k]
  <2>1. <<q>> \o w \in Seq(Character) /\ <<q>> \o w # <<>> /\ (<<q>> \o w)[1] = q /\ Tail(<<q>> \o w) = w
        /\ \A k \in 1 .. Len(w) : (<<q>> \o w)[k + 1] = w[k]
    BY <1>0, <1>3
  <2> QED BY <1>2, <2>1
<1> HIDE DEF s
<1>5. \A k \in 1 .. Len(t) : s[k + 1] = t[k]
  BY <1>0, <1>3, <1>4
<1>6. s[Len(t) + 2] = q
  <2>1. Len(t) + 1 \in 1 .. Len(w) /\ (Len(t) + 1) + 1 = Len(t) + 2
    BY <1>0, <1>3
  <2> QED BY <1>3, <1>4, <2>1
<1> QED BY <1>1, <1>4, <1>5, <1>6 DEF s, w, QuotedFacts

LEMMA SingleToken ==
    ASSUME NEW t \in Seq(Character), Apostrophe \notin Chars(t), NEW u \in Seq(Character)
    PROVE  Token(Quoted(t, Apostrophe) \o Ahead(u)) = [text |-> t, rest |-> Ahead(u)]
<1> DEFINE q == Apostrophe
           v == Ahead(u)
           s == Quoted(t, q) \o v
           C == Character \ {q}
<1>0. q \in Character /\ v \in Seq(Character) /\ Len(t) \in Nat /\ q \notin Chars(t)
  <2>1. q \in Character
    BY SignsAreCharacters DEF Signed, Quoting
  <2>2. v \in Seq(Character)
    BY SpacedIs
  <2> QED BY <2>1, <2>2
<1> HIDE DEF v, q
<1>1. /\ Quoted(t, q) \in Seq(Character) /\ Len(Quoted(t, q)) = Len(t) + 2
      /\ s \in Seq(Character) /\ s # <<>> /\ s[1] = q
      /\ \A k \in 1 .. Len(t) : s[k + 1] = t[k]
      /\ s[Len(t) + 2] = q
  <2>1. QuotedFacts(t, q, v)
    BY <1>0, QuotedIs
  <2> QED BY <2>1 DEF QuotedFacts
<1>2. Len(s) = (Len(t) + 2) + Len(v) /\ Len(v) \in Nat
  <2>1. Len(s) = Len(Quoted(t, q)) + Len(v) /\ Len(v) \in Nat
    <3> DEFINE Q == Quoted(t, q)
    <3>1. Q \in Seq(Character) /\ s = Q \o v
      BY <1>1
    <3> HIDE DEF Q
    <3>2. Len(Q \o v) = Len(Q) + Len(v) /\ Len(v) \in Nat
      BY <1>0, <3>1
    <3>3. Len(s) = Len(Q) + Len(v)
      BY <3>1, <3>2
    <3> QED BY <3>2, <3>3 DEF Q
  <2> QED BY <1>1, <2>1
<1>3. SubSeq(s, (Len(t) + 2) + 1, Len(s)) = v
  BY <1>0, <1>1, ConcatRest
<1> HIDE DEF s
<1>4. EndsAt(s, 2, C, Len(t) + 2)
  <2>1. ASSUME NEW k \in 2 .. ((Len(t) + 2) - 1)
        PROVE  s[k] \in C
    <3>1. k - 1 \in 1 .. Len(t) /\ (k - 1) + 1 = k
      BY <1>0
    <3>2. s[k] = t[k - 1] /\ t[k - 1] \in Character /\ t[k - 1] \in Chars(t)
      BY <1>1, <3>1 DEF Chars
    <3> QED BY <1>0, <3>2
  <2>2. Len(t) + 2 \in 2 .. (Len(s) + 1) /\ s[Len(t) + 2] \notin C
    BY <1>0, <1>1, <1>2
  <2> QED BY <2>1, <2>2 DEF EndsAt
<1>5. EndOf(s, 2, C) = Len(t) + 2
  <2>1. 2 \in 1 .. (Len(s) + 1)
    BY <1>0, <1>2
  <2> HIDE DEF C
  <2> QED BY <1>1, <1>4, <2>1, EndsOnce
<1>6. SubSeq(s, 2, (Len(t) + 2) - 1) = t
  <2> DEFINE r == SubSeq(s, 2, (Len(t) + 2) - 1)
  <2>1. (Len(t) + 2) - 1 = Len(t) + 1 /\ Len(t) + 1 <= Len(s)
    BY <1>0, <1>2
  <2>2. r \in Seq(Character) /\ Len(r) = Len(t) /\ \A k \in 1 .. Len(t) : r[k] = s[k + 1]
    BY <1>0, <1>1, <2>1
  <2> HIDE DEF r
  <2>3. r = t
    BY <1>1, <2>2, SeqEqual
  <2> QED BY <2>3 DEF r
<1>7. Token(s) = [text |-> SubSeq(s, 2, EndOf(s, 2, C) - 1), rest |-> SubSeq(s, EndOf(s, 2, C) + 1, Len(s))]
  BY <1>1, SignsDiffer DEF Token, q
<1>8. Token(s) = [text |-> t, rest |-> v]
  BY <1>3, <1>5, <1>6, <1>7
<1> QED BY <1>8 DEF s, v, q

LEMMA DoubleToken ==
    ASSUME NEW t \in Seq(Character), NEW u \in Seq(Character)
    PROVE  Token(Quoted(Escaped(t, {DoubleQuote, Backslash}), DoubleQuote) \o Ahead(u))
             = [text |-> t, rest |-> Ahead(u)]
<1> DEFINE q == DoubleQuote
           v == Ahead(u)
           C == {q, Backslash}
           E == Escaped(t, C)
           s == Quoted(E, q) \o v
           w == <<q>> \o v
<1>0. q \in Character /\ v \in Seq(Character) /\ E \in Seq(Character)
  BY SignsAreCharacters, SpacedIs, EscapedIs DEF Signed, Quoting
<1>1. s # <<>> /\ s[1] = q /\ Tail(s) = E \o w
  <2> HIDE DEF E, v, q, C
  <2>1. QuotedFacts(E, q, v)
    BY <1>0, QuotedIs
  <2> QED BY <2>1 DEF QuotedFacts
<1>2. w \in Seq(Character) /\ w # <<>> /\ w[1] = q /\ Len(w) = Len(v) + 1 /\ SubSeq(w, 2, Len(w)) = v
  <2> HIDE DEF v
  <2>1. w \in Seq(Character) /\ w # <<>> /\ w[1] = q /\ Len(w) = Len(v) + 1 /\ Tail(w) = v
    BY <1>0
  <2> QED BY <2>1, TailIsSubSeq
<1>3. Taken(E \o w, {q}) = [text |-> t, rest |-> w]
  <2>1. q # Backslash
    BY SignsDiffer
  <2> DEFINE ends == {q}
  <2>2. ends \subseteq C /\ Backslash \in C /\ Backslash \notin ends /\ w[1] \in ends
    BY <1>2, <2>1
  <2> HIDE DEF w, q, C, ends
  <2>3. Taken(E \o w, ends) = [text |-> t, rest |-> w]
    BY <1>2, <2>2, TakenEscaped
  <2> QED BY <2>3 DEF ends
<1> HIDE DEF s, E, w, v, C
<1>4. q # Apostrophe
  BY SignsDiffer
<1>5. Token(s) = LET x == Taken(Tail(s), {q}) IN [text |-> x.text, rest |-> SubSeq(x.rest, 2, Len(x.rest))]
  BY <1>1, <1>4 DEF Token
<1>6. Token(s) = [text |-> t, rest |-> v]
  <2> DEFINE x == Taken(Tail(s), {q})
  <2>1. x = [text |-> t, rest |-> w]
    BY <1>1, <1>3
  <2> HIDE DEF x
  <2>2. x.text = t /\ x.rest = w
    BY <2>1
  <2>3. Token(s) = [text |-> x.text, rest |-> SubSeq(x.rest, 2, Len(x.rest))]
    BY <1>5 DEF x
  <2> QED BY <1>2, <2>2, <2>3
<1> QED BY <1>6 DEF s, E, v, C

LEMMA BareToken ==
    ASSUME NEW t \in Seq(Character), NEW u \in Seq(Character),
           NEW s, s = Escaped(t, Quoting) \o Ahead(u), s[1] \notin {Apostrophe, DoubleQuote}
    PROVE  Token(s) = [text |-> t, rest |-> u]
<1> DEFINE v == Ahead(u)
           ends == Special \cup {Space}
<1>1. v \in Seq(Character) /\ v # <<>> /\ v[1] = Space /\ SubSeq(v, 2, Len(v)) = u
  BY SpacedIs
<1>2. Taken(s, ends) = [text |-> t, rest |-> v]
  <2>1. ends \subseteq Quoting /\ Backslash \in Quoting /\ Backslash \notin ends /\ Space \in ends
    BY SignsDiffer DEF Quoting, Special
  <2> HIDE DEF v, ends
  <2> QED BY <1>1, <2>1, TakenEscaped DEF v
<1> HIDE DEF v
<1>3. Token(s) = LET x == Taken(s, ends) IN IF x.rest # <<>> /\ x.rest[1] # Space
                   THEN [text |-> x.text \o x.rest, rest |-> x.rest]
                   ELSE [text |-> x.text, rest |-> SubSeq(x.rest, 2, Len(x.rest))]
  BY DEF Token
<1> DEFINE x == Taken(s, ends)
<1>4. x = [text |-> t, rest |-> v]
  BY <1>2
<1> HIDE DEF x
<1>5. x.text = t /\ x.rest = v
  BY <1>4
<1>6. Token(s) = IF x.rest # <<>> /\ x.rest[1] # Space
                   THEN [text |-> x.text \o x.rest, rest |-> x.rest]
                   ELSE [text |-> x.text, rest |-> SubSeq(x.rest, 2, Len(x.rest))]
  BY <1>3 DEF x
<1> QED BY <1>1, <1>5, <1>6

Starts(s) == /\ s # <<>> /\ s[1] \notin Special \cup {Space}
             /\ s[1] = Two => ~Behind(s, 1, Gt)

LEMMA NoOperator ==
    ASSUME NEW s, Starts(s)
    PROVE  Operator(s) = <<>>
<1>1. s # <<>> /\ s[1] \notin {Lt, Gt} /\ ~(s[1] = Two /\ Behind(s, 1, Gt))
  BY DEF Starts, Special
<1> QED BY <1>1 DEF Operator

(* How a text with backslashes begins.                                     *)
LEMMA BareStarts ==
    ASSUME NEW t \in Seq(Character), t # <<>>, NEW v \in Seq(Character), v # <<>>, v[1] = Space
    PROVE  /\ Starts(Escaped(t, Quoting) \o v)
           /\ (Escaped(t, Quoting) \o v)[1] \notin {Apostrophe, DoubleQuote}
<1> DEFINE C == Quoting
           U == EscapedParts(t, C)
           E == Escaped(t, C)
           s == E \o v
           n == Len(t)
<1>1. /\ E = FlattenSeq(U) /\ U \in Seq(Seq(Character)) /\ Len(U) = n
      /\ E \in Seq(Character) /\ \A k \in 1 .. n : U[k] = EscapedOne(t[k], C)
  BY EscapedIs
<1>2. PICK place \in [0 .. n -> Nat] : Lays(U, place, E)
  BY <1>1, FlattenLays
<1>0. n \in Nat \ {0}
  BY EmptySeq
<1>c. /\ Backslash \notin Special \cup {Space, Apostrophe, DoubleQuote, Two, Gt} /\ Two \notin C /\ Space # Gt
      /\ Special \cup {Space, Apostrophe, DoubleQuote, Gt} \subseteq C
  BY SignsDiffer DEF Quoting, Special
<1> HIDE DEF U, E, C
<1>3. place[0] = 0 /\ place[n] = Len(E) /\ \A k \in 1 .. n : place[k] = place[k - 1] + Len(U[k]) /\ Stands(E, place[k - 1], U[k])
  BY <1>1, <1>2 DEF Lays
<1>4. /\ s \in Seq(Character) /\ Len(s) = Len(E) + Len(v) /\ Len(E) \in Nat /\ Len(v) \in Nat \ {0}
      /\ (\A k \in 1 .. Len(E) : s[k] = E[k]) /\ s[Len(E) + 1] = Space
  <2>1. Len(v) \in Nat \ {0}
    BY EmptySeq
  <2>2. s \in Seq(Character) /\ Len(s) = Len(E) + Len(v) /\ Len(E) \in Nat
        /\ (\A k \in 1 .. Len(E) : s[k] = E[k]) /\ s[Len(E) + 1] = v[1]
    BY <1>1, <2>1
  <2> QED BY <2>1, <2>2
<1> HIDE DEF s
<1>5. ASSUME NEW k \in 1 .. n
      PROVE  /\ place[k - 1] + 1 \in 1 .. Len(E) /\ place[k - 1] \in Nat
             /\ E[place[k - 1] + 1] = IF t[k] \in C THEN Backslash ELSE t[k]
  <2>1. U[k] = IF t[k] \in C THEN <<Backslash, t[k]>> ELSE <<t[k]>>
    BY <1>1 DEF EscapedOne
  <2>2. U[k][1] = (IF t[k] \in C THEN Backslash ELSE t[k]) /\ Len(U[k]) \in {1, 2}
    BY <2>1
  <2>3. place[k - 1] + Len(U[k]) <= Len(E) /\ \A j \in 1 .. Len(U[k]) : E[place[k - 1] + j] = U[k][j]
    BY <1>3 DEF Stands
  <2>4. place[k - 1] \in Nat
    <3>1. k - 1 \in 0 .. n
      BY <1>0
    <3> QED BY <3>1
  <2>5. 1 \in 1 .. Len(U[k])
    BY <2>2
  <2>6. E[place[k - 1] + 1] = IF t[k] \in C THEN Backslash ELSE t[k]
    BY <2>2, <2>3, <2>5
  <2>7. place[k - 1] + 1 <= Len(E) /\ Len(E) \in Nat
    BY <1>4, <2>2, <2>3, <2>4
  <2>8. place[k - 1] + 1 \in 1 .. Len(E)
    BY <2>4, <2>7
  <2> QED BY <2>6, <2>8
<1>6. s[1] = IF t[1] \in C THEN Backslash ELSE t[1]
  <2>1. place[1 - 1] + 1 \in 1 .. Len(E) /\ E[place[1 - 1] + 1] = IF t[1] \in C THEN Backslash ELSE t[1]
    BY <1>0, <1>5
  <2>2. place[1 - 1] = 0
    BY <1>3
  <2>3. 1 \in 1 .. Len(E) /\ E[1] = IF t[1] \in C THEN Backslash ELSE t[1]
    BY <2>1, <2>2
  <2> QED BY <1>4, <2>3
<1>7. s[1] \notin Special \cup {Space, Apostrophe, DoubleQuote}
  BY <1>c, <1>6
<1>8. ASSUME s[1] = Two
      PROVE  s[2] # Gt
  <2>1. t[1] \notin C /\ t[1] = Two
    BY <1>c, <1>6, <1>8
  <2>2. U[1] = <<t[1]>> /\ Len(U[1]) = 1
    <3>1. 1 \in 1 .. n
      BY <1>0
    <3>2. U[1] = EscapedOne(t[1], C)
      BY <1>1, <3>1
    <3>3. U[1] = <<t[1]>>
      BY <2>1, <3>2 DEF EscapedOne
    <3> QED BY <3>3
  <2>3. place[1] = 1
    <3>1. 1 \in 1 .. n /\ 1 - 1 = 0
      BY <1>0
    <3>2. place[1] = place[1 - 1] + Len(U[1])
      BY <1>3, <3>1
    <3> QED BY <1>3, <2>2, <3>1, <3>2
  <2>4. CASE n = 1
    <3>1. Len(E) = 1
      BY <1>3, <2>3, <2>4
    <3>2. s[2] = Space
      BY <1>4, <3>1
    <3> QED BY <1>c, <3>2
  <2>5. CASE n # 1
    <3>1. 2 \in 1 .. n /\ 2 - 1 = 1
      BY <1>0, <2>5
    <3>2. place[2 - 1] + 1 \in 1 .. Len(E) /\ E[place[2 - 1] + 1] = IF t[2] \in C THEN Backslash ELSE t[2]
      BY <1>5, <3>1
    <3>3. 2 \in 1 .. Len(E) /\ E[2] = IF t[2] \in C THEN Backslash ELSE t[2]
      BY <2>3, <3>1, <3>2
    <3>4. s[2] = IF t[2] \in C THEN Backslash ELSE t[2]
      BY <1>4, <3>3
    <3> QED BY <1>c, <3>4
  <2> QED BY <2>4, <2>5
<1>9. Starts(s)
  <2>1. s # <<>>
    BY <1>4
  <2>2. s[1] = Two => ~Behind(s, 1, Gt)
    BY <1>8 DEF Behind
  <2> QED BY <1>7, <2>1, <2>2 DEF Starts
<1> QED BY <1>7, <1>9 DEF s, E, C

(* A word or a name is read for what it is.                                *)
ReadsAs(s, t, u) ==
    /\ s \in Seq(Character) /\ Starts(s)
    /\ Token(s) = [text |-> t, rest |-> u] \/ Token(s) = [text |-> t, rest |-> Ahead(u)]

LEMMA StyledReads ==
    ASSUME NEW t \in Seq(Character), NEW style \in Style, StyleOK(style, t)
    PROVE  /\ Styled(style, t) \in Seq(Character)
           /\ \A u \in Seq(Character) : ReadsAs(Spaced(Styled(style, t)) \o u, t, u)
<1> DEFINE X == Styled(style, t)
<1>c. /\ Apostrophe \in Character /\ DoubleQuote \in Character
      /\ Apostrophe \notin Special \cup {Space, Two} /\ DoubleQuote \notin Special \cup {Space, Two}
  BY SignsAreCharacters, SignsDiffer DEF Signed, Quoting, Special
<1>s. style = "single" \/ style = "double" \/ style = "bare"
  BY DEF Style
<1>1. X = CASE style = "single" -> Quoted(t, Apostrophe)
            [] style = "double" -> Quoted(Escaped(t, {DoubleQuote, Backslash}), DoubleQuote)
            [] style = "bare"   -> Escaped(t, Quoting)
  BY DEF Styled
<1> HIDE DEF X
<1>2. ASSUME NEW y \in Seq(Character), NEW q \in {Apostrophe, DoubleQuote}, NEW v \in Seq(Character)
      PROVE  Quoted(y, q) \in Seq(Character) /\ Quoted(y, q) \o v \in Seq(Character) /\ Starts(Quoted(y, q) \o v)
  <2>1. q \in Character /\ q \notin Special \cup {Space, Two}
    BY <1>c
  <2>2. QuotedFacts(y, q, v)
    BY <2>1, QuotedIs
  <2> QED BY <2>1, <2>2 DEF QuotedFacts, Starts
<1>3. \A C : Escaped(t, C) \in Seq(Character)
  BY EscapedIs
<1>4. X \in Seq(Character)
  <2>1. CASE style = "single"
    <3>1. X = Quoted(t, Apostrophe) /\ <<>> \in Seq(Character)
      BY <1>1, <2>1
    <3> QED BY <1>2, <3>1
  <2>2. CASE style = "double"
    <3>1. X = Quoted(Escaped(t, {DoubleQuote, Backslash}), DoubleQuote) /\ <<>> \in Seq(Character)
      BY <1>1, <2>2
    <3> QED BY <1>2, <1>3, <3>1
  <2>3. CASE style = "bare"
    <3>1. X = Escaped(t, Quoting)
      BY <1>1, <2>3
    <3> QED BY <1>3, <3>1
  <2> QED BY <1>s, <2>1, <2>2, <2>3
<1>5. ASSUME NEW u \in Seq(Character)
      PROVE  ReadsAs(Spaced(X) \o u, t, u)
  <2> DEFINE s == Spaced(X) \o u
             v == Ahead(u)
  <2>1. s = X \o v /\ v \in Seq(Character) /\ v # <<>> /\ v[1] = Space
    BY <1>4, SpacedIs
  <2>2. s \in Seq(Character)
    <3> HIDE DEF v, s
    <3> QED BY <1>4, <2>1
  <2> SUFFICES ReadsAs(s, t, u)
    BY DEF s
  <2> HIDE DEF s
  <2>3. CASE style = "single"
    <3>1. X = Quoted(t, Apostrophe) /\ Apostrophe \notin Chars(t)
      BY <1>1, <2>3 DEF StyleOK
    <3>2. Token(s) = [text |-> t, rest |-> v]
      BY <2>1, <3>1, SingleToken
    <3>3. Starts(s)
      <4> HIDE DEF v
      <4> QED BY <1>2, <2>1, <3>1
    <3> QED BY <2>2, <3>2, <3>3 DEF ReadsAs
  <2>4. CASE style = "double"
    <3>1. X = Quoted(Escaped(t, {DoubleQuote, Backslash}), DoubleQuote)
      BY <1>1, <2>4
    <3>2. Token(s) = [text |-> t, rest |-> v]
      BY <2>1, <3>1, DoubleToken
    <3>3. Starts(s)
      <4> HIDE DEF v
      <4> QED BY <1>2, <1>3, <2>1, <3>1
    <3> QED BY <2>2, <3>2, <3>3 DEF ReadsAs
  <2>5. CASE style = "bare"
    <3>1. X = Escaped(t, Quoting) /\ t # <<>>
      BY <1>1, <2>5 DEF StyleOK
    <3>2. Starts(s) /\ s[1] \notin {Apostrophe, DoubleQuote}
      <4> HIDE DEF v
      <4> QED BY <2>1, <3>1, BareStarts
    <3>3. Token(s) = [text |-> t, rest |-> u]
      BY <2>1, <3>1, <3>2, BareToken
    <3> QED BY <2>2, <3>2, <3>3 DEF ReadsAs
  <2> QED BY <1>s, <2>3, <2>4, <2>5
<1> QED BY <1>4, <1>5 DEF X

(***************************************************************************)
(* Expanded: what it returns, and what the pieces of a word become.        *)
(***************************************************************************)
LEMMA LookupIs ==
    ASSUME NEW name
    PROVE  Lookup(name) \in Seq(Character)
<1>1. name \in DOMAIN Value => Value[name] \in Seq(Character)
  BY ParserAssumption
<1> QED BY <1>1 DEF Lookup

UnitFacts(t, i) == /\ Unit(t, i).means \in Seq(Character)
                   /\ Unit(t, i).next \in (i + 1) .. (Len(t) + 1)

LEMMA UnitIs ==
    ASSUME NEW t \in Seq(Character), NEW i \in 1 .. Len(t)
    PROVE  UnitFacts(t, i)
<1>0. Dollar \in Character /\ t[i] \in Character /\ Len(t) \in Nat /\ Dollar # Backslash
  BY SignsAreCharacters, SignsDiffer DEF Signed, Naming
<1>1. CASE t[i] = Backslash /\ Behind(t, i, Dollar)
  <2>1. Unit(t, i) = [means |-> <<Dollar>>, next |-> i + 2]
    BY <1>0, <1>1 DEF Unit
  <2>2. i + 2 \in (i + 1) .. (Len(t) + 1)
    BY <1>0, <1>1 DEF Behind
  <2> QED BY <1>0, <2>1, <2>2 DEF UnitFacts
<1>2. CASE t[i] = Dollar /\ Behind(t, i, LBrace)
  <2> DEFINE e == EndOf(t, i + 2, Character \ {RBrace})
  <2>1. i + 2 \in 1 .. (Len(t) + 1)
    BY <1>0, <1>2 DEF Behind
  <2>2. e \in (i + 2) .. (Len(t) + 1)
    BY <2>1, EndOfIs DEF EndsAt
  <2>3. Unit(t, i) = [means |-> Lookup(SubSeq(t, i + 2, e - 1)), next |-> IF e <= Len(t) THEN e + 1 ELSE e]
    BY <1>0, <1>2 DEF Unit
  <2> HIDE DEF e
  <2>4. (IF e <= Len(t) THEN e + 1 ELSE e) \in (i + 1) .. (Len(t) + 1)
    BY <1>0, <2>2
  <2> QED BY <2>3, <2>4, LookupIs DEF UnitFacts
<1>3. CASE t[i] = Dollar /\ ~Behind(t, i, LBrace)
  <2> DEFINE e == IF Behind(t, i, Question) THEN i + 2 ELSE EndOf(t, i + 1, NameChar)
  <2>1. e \in (i + 1) .. (Len(t) + 1)
    <3>1. Behind(t, i, Question) => i + 2 \in (i + 1) .. (Len(t) + 1)
      BY <1>0 DEF Behind
    <3>2. i + 1 \in 1 .. (Len(t) + 1)
      BY <1>0
    <3>3. EndOf(t, i + 1, NameChar) \in (i + 1) .. (Len(t) + 1)
      BY <3>2, EndOfIs DEF EndsAt
    <3> QED BY <3>1, <3>3
  <2>2. Unit(t, i) = [means |-> Lookup(SubSeq(t, i + 1, e - 1)), next |-> e]
    BY <1>0, <1>3 DEF Unit
  <2> HIDE DEF e
  <2> QED BY <2>1, <2>2, LookupIs DEF UnitFacts
<1>4. CASE ~(t[i] = Backslash /\ Behind(t, i, Dollar)) /\ t[i] # Dollar
  <2>1. Unit(t, i) = [means |-> <<t[i]>>, next |-> i + 1]
    BY <1>4 DEF Unit
  <2>2. i + 1 \in (i + 1) .. (Len(t) + 1) /\ <<t[i]>> \in Seq(Character)
    BY <1>0
  <2> QED BY <2>1, <2>2 DEF UnitFacts
<1> QED BY <1>1, <1>2, <1>3, <1>4

ExpandStep(t, f) ==
    [i \in 1 .. (Len(t) + 1) |-> IF i > Len(t) THEN <<>> ELSE Unit(t, i).means \o f[Unit(t, i).next]]

Expands(t) == CHOOSE f : f = ExpandStep(t, f)

LEMMA ExpandedIsExpands == \A t : Expanded(t) = Expands(t)[1]
  BY DEF Expanded, Expands, ExpandStep

ExpandsOn(t, f) ==
    /\ f[Len(t) + 1] = <<>>
    /\ \A i \in 1 .. Len(t) : f[i] = Unit(t, i).means \o f[Unit(t, i).next]

LEMMA ExpandsGoesOn ==
    ASSUME NEW t \in Seq(Character)
    PROVE  /\ Expands(t) \in [1 .. (Len(t) + 1) -> Seq(Character)]
           /\ ExpandsOn(t, Expands(t))
<1> DEFINE N == Len(t)
           M == N + 1
           X == 1 .. M
           V == Seq(Character)
           D == 1 .. N
           rk == [x \in X |-> M - x]
           succ == [x \in D |-> Unit(t, x).next]
           base == [x \in X |-> <<>>]
           comb == [x \in D |-> [v \in V |-> Unit(t, x).means \o v]]
           F == Expands(t)
<1>1. N \in Nat /\ M \in Nat /\ rk \in [X -> 0 .. M] /\ D \in SUBSET X /\ base \in [X -> V]
  OBVIOUS
<1>2. \A x \in D : Unit(t, x).means \in V /\ Unit(t, x).next \in (x + 1) .. M
  BY UnitIs DEF UnitFacts
<1>3. succ \in [D -> X] /\ Descends(D, rk, succ)
  <2>1. \A x \in D : Unit(t, x).next \in X
    BY <1>1, <1>2
  <2>2. succ \in [D -> X]
    BY <2>1
  <2>3. ASSUME NEW x \in D
        PROVE  rk[succ[x]] < rk[x]
    <3> DEFINE y == Unit(t, x).next
    <3>1. y \in X /\ y \in (x + 1) .. M /\ succ[x] = y /\ x \in X
      BY <1>1, <1>2, <2>1
    <3> HIDE DEF y
    <3>2. rk[y] = M - y /\ rk[x] = M - x
      BY <3>1
    <3> HIDE DEF rk, succ, M
    <3> QED BY <1>1, <3>1, <3>2
  <2> QED BY <2>2, <2>3 DEF Descends
<1>4. comb \in [D -> [V -> V]]
  <2>1. ASSUME NEW x \in D, NEW v \in V
        PROVE  Unit(t, x).means \o v \in V
    BY <1>2
  <2> HIDE DEF V, D
  <2> QED BY <2>1
<1>5. PICK f \in [X -> V] : Recurs(f, X, D, succ, base, comb)
  <2>1. HasFunction(X, V, D, succ, base, comb)
    <3> HIDE DEF N, M, X, V, D, rk, succ, base, comb
    <3> QED BY <1>1, <1>3, <1>4, RecursionHasFunction
  <2> QED BY <2>1 DEF HasFunction
<1>6. ASSUME NEW g, NEW x \in X, x \in D => g[succ[x]] \in V
      PROVE  ExpandStep(t, g)[x] = IF x \in D THEN comb[x][g[succ[x]]] ELSE base[x]
  <2>1. CASE x \in D
    <3>1. succ[x] = Unit(t, x).next /\ ~(x > N) /\ x \in 1 .. (N + 1)
      BY <2>1, <1>1
    <3>2. comb[x][g[succ[x]]] = Unit(t, x).means \o g[succ[x]]
      BY <2>1, <1>6
    <3>3. ExpandStep(t, g)[x] = Unit(t, x).means \o g[Unit(t, x).next]
      BY <3>1 DEF ExpandStep
    <3> HIDE DEF comb, succ
    <3> QED BY <2>1, <3>1, <3>2, <3>3
  <2>2. CASE x \notin D
    <3>1. x > N /\ x \in 1 .. (N + 1) /\ base[x] = <<>>
      BY <2>2, <1>1
    <3>2. ExpandStep(t, g)[x] = <<>>
      BY <3>1 DEF ExpandStep
    <3> QED BY <2>2, <3>1, <3>2
  <2> QED BY <2>1, <2>2
<1>7. \A g : ExpandStep(t, g) = [x \in X |-> ExpandStep(t, g)[x]]
  BY DEF ExpandStep
<1>8. F = ExpandStep(t, F)
  <2>1. \A x \in X : f[x] = ExpandStep(t, f)[x]
    <3>1. \A x \in D : succ[x] \in X
      BY <1>3
    <3> HIDE DEF X, V, D, succ, base, comb
    <3> QED BY <1>5, <1>6, <3>1 DEF Recurs
  <2>2. f = [x \in X |-> f[x]]
    OBVIOUS
  <2>3. f = ExpandStep(t, f)
    <3> HIDE DEF X, V
    <3> QED BY <1>7, <2>1, <2>2
  <2> QED BY <2>3 DEF Expands
<1>9. F \in [X -> V]
  <2> DEFINE T == {x \in X : F[x] \in V}
  <2>0. \A x \in X : F[x] = ExpandStep(t, F)[x]
    BY <1>8
  <2>1. X \ D \subseteq T
    <3>1. ASSUME NEW x \in X, x \notin D
          PROVE  F[x] \in V
      <4>1. ExpandStep(t, F)[x] = base[x]
        BY <1>6, <3>1
      <4> HIDE DEF F, base
      <4> QED BY <2>0, <1>1, <4>1
    <3> QED BY <3>1
  <2>2. Inherited(D, succ, T)
    <3>1. ASSUME NEW x \in D, succ[x] \in T
          PROVE  F[x] \in V
      <4>1. F[succ[x]] \in V /\ x \in X
        BY <3>1
      <4>2. ExpandStep(t, F)[x] = comb[x][F[succ[x]]]
        BY <1>6, <4>1
      <4> HIDE DEF F, comb, V, X, D, succ, T
      <4> QED BY <2>0, <1>4, <4>1, <4>2
    <3> QED BY <3>1 DEF Inherited
  <2>3. X \subseteq T
    <3> HIDE DEF N, M, X, V, D, T, F, rk, succ
    <3>1. Descends(D, rk, succ) /\ D \in SUBSET X /\ succ \in [D -> X] /\ M \in Nat /\ rk \in [X -> 0 .. M]
      BY <1>1, <1>3
    <3> QED BY <2>1, <2>2, <3>1, RecursionHolds
  <2> HIDE DEF F
  <2>4. \A x \in X : F[x] \in V
    BY <2>3
  <2>5. F = [x \in X |-> F[x]]
    BY <1>7, <1>8
  <2> QED BY <2>4, <2>5
<1>10. ExpandsOn(t, F)
  <2> HIDE DEF F
  <2>1. \A x \in X : F[x] = ExpandStep(t, F)[x]
    BY <1>8
  <2>2. F[N + 1] = <<>>
    <3>1. N + 1 \in X /\ N + 1 > N
      BY <1>1
    <3> QED BY <2>1, <3>1 DEF ExpandStep
  <2>3. ASSUME NEW i \in 1 .. N
        PROVE  F[i] = Unit(t, i).means \o F[Unit(t, i).next]
    <3>1. i \in X /\ ~(i > N)
      BY <1>1
    <3> QED BY <2>1, <3>1 DEF ExpandStep
  <2> QED BY <2>2, <2>3 DEF ExpandsOn
<1> QED BY <1>9, <1>10

LEMMA StandsSub ==
    ASSUME NEW A, NEW t \in Seq(A), NEW s \in Seq(A), NEW p \in Nat, Stands(t, p, s)
    PROVE  SubSeq(t, p + 1, p + Len(s)) = s
<1> DEFINE r == SubSeq(t, p + 1, p + Len(s))
<1>1. Len(s) \in Nat /\ Len(t) \in Nat /\ p + Len(s) <= Len(t) /\ \A k \in 1 .. Len(s) : t[p + k] = s[k]
  BY DEF Stands
<1>2. r \in Seq(A) /\ Len(r) = Len(s) /\ \A k \in 1 .. Len(s) : r[k] = t[p + k]
  BY <1>1
<1> HIDE DEF r
<1>3. r = s
  BY <1>1, <1>2, SeqEqual
<1> QED BY <1>3 DEF r

LEMMA PieceTextIs ==
    ASSUME NEW x \in Piece, PieceOK(x)
    PROVE  /\ PieceText(x) \in Seq(Character) /\ PieceText(x) # <<>>
           /\ PieceMeans(x) \in Seq(Character)
<1>0. /\ x.name \in Seq(Character) /\ Dollar \in Character /\ Backslash \in Character
      /\ LBrace \in Character /\ RBrace \in Character
      /\ x.kind \in {"plain", "short", "braced"}
  BY SignsAreCharacters DEF Piece, Signed, Quoting, Naming
<1>1. PieceMeans(x) \in Seq(Character)
  BY <1>0, LookupIs DEF PieceMeans
<1>2. CASE x.kind = "plain"
  <2>1. PieceText(x) = x.name /\ Len(x.name) = 1
    BY <1>2 DEF PieceText, PieceOK
  <2>2. x.name # <<>>
    <3>1. Len(<<>>) = 0
      OBVIOUS
    <3> QED BY <2>1, <3>1
  <2> QED BY <1>0, <1>1, <2>1, <2>2
<1>4. CASE x.kind = "short"
  <2>1. PieceText(x) = <<Dollar>> \o x.name
    BY <1>4 DEF PieceText
  <2>2. <<Dollar>> \o x.name \in Seq(Character) /\ Len(<<Dollar>> \o x.name) = 1 + Len(x.name)
    BY <1>0
  <2>3. <<Dollar>> \o x.name # <<>>
    BY <1>0, <2>2
  <2> QED BY <1>1, <2>1, <2>2, <2>3
<1>5. CASE x.kind = "braced"
  <2> DEFINE y == <<Dollar, LBrace>> \o x.name
  <2>1. PieceText(x) = y \o <<RBrace>>
    BY <1>5 DEF PieceText
  <2>2. y \in Seq(Character)
    BY <1>0
  <2> HIDE DEF y
  <2>3. y \o <<RBrace>> \in Seq(Character) /\ Len(y \o <<RBrace>>) = Len(y) + 1 /\ Len(y) \in Nat
    BY <1>0, <2>2
  <2>4. y \o <<RBrace>> # <<>>
    BY <2>3
  <2> QED BY <1>1, <2>1, <2>3, <2>4
<1> QED BY <1>0, <1>2, <1>4, <1>5

(* A piece that the expansion is not to change is no dollar sign.          *)
NoSign(x) == x.kind = "plain" => x.name # <<Dollar>>

(* A piece that stands in a text is one step of the expansion.             *)
LEMMA UnitOfPiece ==
    ASSUME NEW x \in Piece, PieceOK(x), NoSign(x),
           NEW t \in Seq(Character), NEW p \in Nat,
           Stands(t, p, PieceText(x)),
           p + Len(PieceText(x)) < Len(t) => MayFollow(x, t[p + Len(PieceText(x)) + 1])
    PROVE  Unit(t, p + 1) = [means |-> PieceMeans(x), next |-> p + Len(PieceText(x)) + 1]
<1> DEFINE T == PieceText(x)
           nm == x.name
           i == p + 1
           m == Len(nm)
<1>0. /\ nm \in Seq(Character) /\ m \in Nat /\ x.kind \in {"plain", "short", "braced"}
      /\ T \in Seq(Character) /\ Len(T) \in Nat /\ Len(t) \in Nat
  <2>1. T \in Seq(Character)
    BY PieceTextIs
  <2> HIDE DEF T
  <2> QED BY <2>1 DEF Piece
<1>1. p + Len(T) <= Len(t) /\ \A k \in 1 .. Len(T) : t[p + k] = T[k]
  BY DEF Stands
<1>2. p + Len(T) < Len(t) => MayFollow(x, t[p + Len(T) + 1])
  OBVIOUS
<1>d. /\ Dollar # Backslash /\ Dollar \notin NameChar /\ LBrace \notin NameChar /\ Question \notin NameChar
      /\ LBrace # Question /\ RBrace \in Character /\ Dollar \in Character /\ LBrace \in Character
      /\ NameChar \subseteq Character
  BY SignsDiffer, SignsAreCharacters DEF Signed, Naming
<1> SUFFICES Unit(t, i) = [means |-> PieceMeans(x), next |-> p + Len(T) + 1]
  OBVIOUS
<1> HIDE DEF T
<1>3. CASE x.kind = "plain"
  <2>1. T = nm /\ m = 1 /\ PieceMeans(x) = nm /\ nm # <<Dollar>>
    BY <1>3 DEF T, PieceText, PieceOK, PieceMeans, NoSign
  <2>2. nm = <<nm[1]>> /\ nm[1] # Dollar
    BY <1>0, <2>1
  <2>3. t[i] = nm[1] /\ p + Len(T) + 1 = i + 1
    BY <1>1, <2>1
  <2>4. ~(t[i] = Backslash /\ Behind(t, i, Dollar))
    <3> SUFFICES ASSUME t[i] = Backslash, Behind(t, i, Dollar)
                 PROVE  FALSE
      OBVIOUS
    <3>1. nm = <<Backslash>> /\ i < Len(t) /\ t[i + 1] = Dollar
      BY <2>2, <2>3 DEF Behind
    <3>2. MayFollow(x, t[i + 1])
      BY <1>2, <2>1, <3>1
    <3> QED BY <1>3, <3>1, <3>2 DEF MayFollow
  <2>5. Unit(t, i) = [means |-> <<t[i]>>, next |-> i + 1]
    BY <2>2, <2>3, <2>4 DEF Unit
  <2> QED BY <2>1, <2>2, <2>3, <2>5
<1>5. CASE x.kind = "short"
  <2>1. T = <<Dollar>> \o nm /\ nm # <<>> /\ Chars(nm) \subseteq NameChar /\ PieceMeans(x) = Lookup(nm)
    BY <1>5 DEF T, PieceText, PieceOK, PieceMeans
  <2>2. Len(T) = m + 1 /\ T[1] = Dollar /\ \A k \in 1 .. m : T[k + 1] = nm[k]
    BY <1>0, <1>d, <2>1
  <2>3. m \in Nat \ {0}
    BY <1>0, <2>1, EmptySeq
  <2> HIDE DEF nm, m
  <2>4. t[i] = Dollar /\ \A k \in 1 .. m : t[i + k] = nm[k]
    <3>1. t[p + 1] = Dollar
      BY <1>0, <1>1, <2>2, <2>3
    <3>2. ASSUME NEW k \in 1 .. m
          PROVE  t[i + k] = nm[k]
      <4>1. k + 1 \in 1 .. Len(T)
        BY <2>2, <2>3
      <4>3. p + (k + 1) = i + k
        BY <2>3
      <4>2. t[p + (k + 1)] = T[k + 1]
        BY <1>1, <4>1
      <4> QED BY <2>2, <4>2, <4>3
    <3> QED BY <3>1, <3>2
  <2>5. i + m <= Len(t) /\ p + Len(T) = i + m /\ i \in Nat
    BY <1>0, <1>1, <2>2, <2>3
  <2>6. Stands(t, i, nm)
    BY <2>4, <2>5 DEF Stands, m
  <2>7. \A k \in 1 .. m : nm[k] \in NameChar
    BY <1>0, <2>1 DEF Chars, m
  <2>8. ~Behind(t, i, LBrace) /\ ~Behind(t, i, Question)
    <3>1. t[i + 1] \in NameChar
      BY <2>3, <2>4, <2>7
    <3> QED BY <1>d, <3>1 DEF Behind
  <2>9. EndOf(t, i + 1, NameChar) = i + m + 1
    <3>1. \A k \in (i + 1) .. ((i + m + 1) - 1) : t[k] \in NameChar
      <4> SUFFICES ASSUME NEW k \in (i + 1) .. ((i + m + 1) - 1)
                   PROVE  t[k] \in NameChar
        OBVIOUS
      <4>1. k - i \in 1 .. m /\ i + (k - i) = k
        BY <2>3, <2>5
      <4> QED BY <2>4, <2>7, <4>1
    <3>2. i + m + 1 <= Len(t) => t[i + m + 1] \notin NameChar
      <4>1. i + m + 1 <= Len(t) => MayFollow(x, t[i + m + 1])
        BY <1>0, <1>2, <2>3, <2>5
      <4> QED BY <4>1, <1>5 DEF MayFollow
    <3>3. i + m + 1 \in (i + 1) .. (Len(t) + 1) /\ i + 1 \in 1 .. (Len(t) + 1)
      BY <1>0, <2>3, <2>5
    <3>4. EndsAt(t, i + 1, NameChar, i + m + 1)
      BY <3>1, <3>2, <3>3 DEF EndsAt
    <3> QED BY <3>3, <3>4, EndsOnce
  <2>10. Unit(t, i) = [means |-> Lookup(SubSeq(t, i + 1, (i + m + 1) - 1)), next |-> i + m + 1]
    BY <1>d, <2>4, <2>8, <2>9 DEF Unit
  <2>11. SubSeq(t, i + 1, i + m) = nm /\ (i + m + 1) - 1 = i + m
    <3>1. (i + m + 1) - 1 = i + m
      BY <2>3, <2>5
    <3>2. SubSeq(t, i + 1, i + Len(nm)) = nm
      <4>1. nm \in Seq(Character)
        BY <1>0
      <4> HIDE DEF i
      <4> QED BY <2>5, <2>6, <4>1, StandsSub
    <3> QED BY <3>1, <3>2 DEF m
  <2>12. i + m + 1 = p + Len(T) + 1
    BY <2>5
  <2> QED BY <2>1, <2>10, <2>11, <2>12
<1>6. CASE x.kind = "braced"
  <2> DEFINE y == <<Dollar, LBrace>> \o nm
             j == p + 2
  <2>1. T = y \o <<RBrace>> /\ RBrace \notin Chars(nm) /\ PieceMeans(x) = Lookup(nm)
    BY <1>6 DEF T, PieceText, PieceOK, PieceMeans
  <2>2. y \in Seq(Character) /\ Len(y) = m + 2 /\ y[1] = Dollar /\ y[2] = LBrace /\ \A k \in 1 .. m : y[k + 2] = nm[k]
    BY <1>0, <1>d
  <2> HIDE DEF y, nm, m
  <2>3. Len(T) = m + 3 /\ (\A k \in 1 .. (m + 2) : T[k] = y[k]) /\ T[m + 3] = RBrace
    BY <1>0, <1>d, <2>1, <2>2
  <2>4. t[p + 1] = Dollar /\ t[p + 2] = LBrace /\ t[p + (m + 3)] = RBrace /\ p + (m + 3) <= Len(t)
    <3>1. 1 \in 1 .. (m + 2) /\ 2 \in 1 .. (m + 2) /\ m + 3 \in 1 .. Len(T) /\ 1 \in 1 .. Len(T) /\ 2 \in 1 .. Len(T)
      BY <1>0, <2>3
    <3> QED BY <1>1, <2>2, <2>3, <3>1
  <2>5. \A k \in 1 .. m : t[j + k] = nm[k]
    <3> SUFFICES ASSUME NEW k \in 1 .. m
                 PROVE  t[j + k] = nm[k]
      OBVIOUS
    <3>1. k + 2 \in 1 .. (m + 2) /\ k + 2 \in 1 .. Len(T) /\ p + (k + 2) = j + k
      BY <1>0, <2>3
    <3>2. t[p + (k + 2)] = T[k + 2] /\ T[k + 2] = y[k + 2] /\ y[k + 2] = nm[k]
      BY <1>1, <2>2, <2>3, <3>1
    <3> QED BY <3>1, <3>2
  <2>6. j + m + 1 = p + (m + 3) /\ j + m + 1 <= Len(t) /\ j \in Nat /\ i + 2 = j + 1 /\ j + m + 2 = p + Len(T) + 1
        /\ i < Len(t) /\ i + 1 = p + 2
    BY <1>0, <2>3, <2>4
  <2>7. Behind(t, i, LBrace) /\ t[i] = Dollar
    BY <2>4, <2>6 DEF Behind
  <2> DEFINE C == Character \ {RBrace}
  <2>8. EndOf(t, j + 1, C) = j + m + 1
    <3>1. \A k \in (j + 1) .. ((j + m + 1) - 1) : t[k] \in C
      <4> SUFFICES ASSUME NEW k \in (j + 1) .. ((j + m + 1) - 1)
                   PROVE  t[k] \in C
        OBVIOUS
      <4>1. k - j \in 1 .. m /\ j + (k - j) = k
        BY <1>0, <2>6
      <4>2. t[k] = nm[k - j]
        BY <2>5, <4>1
      <4>3. nm[k - j] \in Character /\ nm[k - j] \in Chars(nm)
        BY <1>0, <4>1 DEF Chars, m
      <4> QED BY <2>1, <4>2, <4>3
    <3>2. t[j + m + 1] \notin C
      BY <2>4, <2>6
    <3>3. j + m + 1 \in (j + 1) .. (Len(t) + 1) /\ j + 1 \in 1 .. (Len(t) + 1)
      BY <1>0, <2>6
    <3> HIDE DEF C, j
    <3>4. EndsAt(t, j + 1, C, j + m + 1)
      BY <3>1, <3>2, <3>3 DEF EndsAt
    <3> QED BY <3>3, <3>4, EndsOnce
  <2>9. Unit(t, i) = LET e == EndOf(t, i + 2, C)
                     IN  [means |-> Lookup(SubSeq(t, i + 2, e - 1)), next |-> IF e <= Len(t) THEN e + 1 ELSE e]
    BY <1>d, <2>7 DEF Unit
  <2>10. Unit(t, i) = [means |-> Lookup(SubSeq(t, j + 1, (j + m + 1) - 1)), next |-> (j + m + 1) + 1]
    <3> DEFINE e == EndOf(t, i + 2, C)
    <3>1. Unit(t, i) = [means |-> Lookup(SubSeq(t, i + 2, e - 1)), next |-> IF e <= Len(t) THEN e + 1 ELSE e]
      BY <2>9
    <3>2. e = j + m + 1
      BY <2>6, <2>8
    <3> HIDE DEF e, i, j
    <3> QED BY <2>6, <3>1, <3>2
  <2>11. (j + m + 1) - 1 = j + m /\ (j + m + 1) + 1 = p + Len(T) + 1
    BY <1>0, <2>6
  <2>12. SubSeq(t, j + 1, j + m) = nm
    <3>1. Stands(t, j, nm)
      BY <1>0, <2>5, <2>6 DEF Stands, m
    <3>2. SubSeq(t, j + 1, j + Len(nm)) = nm
      <4> HIDE DEF j
      <4> QED BY <1>0, <2>6, <3>1, StandsSub
    <3> QED BY <3>2 DEF m
  <2> HIDE DEF j, i
  <2> QED BY <2>1, <2>10, <2>11, <2>12
<1> QED BY <1>0, <1>3, <1>5, <1>6

PieceTexts(ps)   == [k \in DOMAIN ps |-> PieceText(ps[k])]
PieceMeanings(ps) == [k \in DOMAIN ps |-> PieceMeans(ps[k])]

PiecesOK(ps) == ps \in Seq(Piece) /\ \A k \in 1 .. Len(ps) : PieceOK(ps[k])

(* Nothing in the pieces is expanded that is not meant to be.              *)
PiecesStand(ps) ==
    \A k \in 1 .. Len(ps) :
         /\ NoSign(ps[k])
         /\ k < Len(ps) => MayFollow(ps[k], PieceText(ps[k + 1])[1])

LEMMA PiecesAre ==
    ASSUME NEW ps, PiecesOK(ps)
    PROVE  /\ PieceTexts(ps) \in Seq(Seq(Character)) /\ Len(PieceTexts(ps)) = Len(ps)
           /\ PieceMeanings(ps) \in Seq(Seq(Character)) /\ Len(PieceMeanings(ps)) = Len(ps)
           /\ FlattenSeq(PieceTexts(ps)) \in Seq(Character)
           /\ FlattenSeq(PieceMeanings(ps)) \in Seq(Character)
<1> DEFINE B == Seq(Character)
<1>0. ps \in Seq(Piece) /\ \A k \in 1 .. Len(ps) : ps[k] \in Piece /\ PieceOK(ps[k])
  BY DEF PiecesOK
<1>1. \A k \in 1 .. Len(ps) : PieceText(ps[k]) \in B /\ PieceMeans(ps[k]) \in B
  BY <1>0, PieceTextIs
<1>2. DOMAIN ps = 1 .. Len(ps) /\ Len(ps) \in Nat
  BY <1>0
<1> HIDE DEF B
<1>3. PieceTexts(ps) \in Seq(B) /\ Len(PieceTexts(ps)) = Len(ps)
  BY <1>1, <1>2 DEF PieceTexts
<1>4. PieceMeanings(ps) \in Seq(B) /\ Len(PieceMeanings(ps)) = Len(ps)
  BY <1>1, <1>2 DEF PieceMeanings
<1>5. FlattenSeq(PieceTexts(ps)) \in Seq(Character) /\ FlattenSeq(PieceMeanings(ps)) \in Seq(Character)
  BY <1>3, <1>4, FlattenLays DEF B
<1> QED BY <1>3, <1>4, <1>5 DEF B

(* A text without dollar signs and, behind it, the pieces of a word expand *)
(* to the text and what the pieces mean.                                   *)
LEMMA PiecesExpand ==
    ASSUME NEW u \in Seq(Character), Dollar \notin Chars(u),
           NEW ps, PiecesOK(ps), PiecesStand(ps), u # <<>> /\ ps # <<>> => PieceText(ps[1])[1] # Dollar
    PROVE  Expanded(u \o FlattenSeq(PieceTexts(ps))) = u \o FlattenSeq(PieceMeanings(ps))
<1> DEFINE T == PieceTexts(ps)
           M == PieceMeanings(ps)
           R == FlattenSeq(T)
           t == u \o R
           f == Expands(t)
           n == Len(ps)
           a == Len(u)
<1>1. /\ T \in Seq(Seq(Character)) /\ Len(T) = n /\ M \in Seq(Seq(Character)) /\ Len(M) = n
      /\ R \in Seq(Character)
  BY PiecesAre
<1>2. /\ n \in Nat /\ DOMAIN ps = 1 .. n
      /\ \A k \in 1 .. n : /\ ps[k] \in Piece /\ PieceOK(ps[k])
                           /\ NoSign(ps[k])
                           /\ k < n => MayFollow(ps[k], PieceText(ps[k + 1])[1])
  BY DEF PiecesOK, PiecesStand
<1>3. \A k \in 1 .. n : T[k] = PieceText(ps[k]) /\ M[k] = PieceMeans(ps[k])
  BY <1>2 DEF PieceTexts, PieceMeanings
<1>4. \A k \in 1 .. n : T[k] \in Seq(Character) /\ T[k] # <<>>
  BY <1>2, <1>3, PieceTextIs
<1> HIDE DEF T, M, R
<1>5. PICK place \in [0 .. n -> Nat] : Lays(T, place, R)
  BY <1>1, FlattenLays DEF R
<1>6. place[0] = 0 /\ place[n] = Len(R) /\ \A k \in 1 .. n : place[k] = place[k - 1] + Len(T[k]) /\ Stands(R, place[k - 1], T[k])
  BY <1>1, <1>5 DEF Lays
<1>7. /\ t \in Seq(Character) /\ Len(t) = a + Len(R) /\ a \in Nat /\ Len(R) \in Nat
      /\ Stands(t, 0, u) /\ Stands(t, a, R)
  BY <1>1, ConcatStands
<1>8. ExpandsOn(t, f)
  <2> HIDE DEF t
  <2> QED BY <1>7, ExpandsGoesOn
<1> HIDE DEF t, f, a, n
<1>9. /\ FlatFrom(M, 0) = FlattenSeq(M) /\ FlatFrom(M, n) = <<>>
      /\ (\A k \in 0 .. n : FlatFrom(M, k) \in Seq(Character))
      /\ \A k \in 1 .. n : FlatFrom(M, k - 1) = M[k] \o FlatFrom(M, k)
  BY <1>1, FlatFromIs
<1> DEFINE P(k) == f[(a + place[k]) + 1] = FlatFrom(M, k)
<1>10. P(n)
  <2>1. (a + place[n]) + 1 = Len(t) + 1
    BY <1>6, <1>7
  <2>2. f[Len(t) + 1] = <<>>
    BY <1>8 DEF ExpandsOn
  <2> QED BY <1>9, <2>1, <2>2
<1>11. ASSUME NEW k \in 1 .. n, P(k)
       PROVE  P(k - 1)
  <2> DEFINE p == a + place[k - 1]
  <2>0. place[k - 1] \in Nat /\ place[k] \in Nat /\ p \in Nat /\ k - 1 \in 0 .. n
    <3>1. k - 1 \in 0 .. n /\ k \in 0 .. n
      BY <1>2
    <3> QED BY <1>7, <3>1
  <2>1. Stands(t, p, T[k]) /\ place[k] = place[k - 1] + Len(T[k])
    BY <1>1, <1>4, <1>6, <1>7, <2>0, StandsWithin
  <2>2. ASSUME p + Len(T[k]) < Len(t)
        PROVE  MayFollow(ps[k], t[p + Len(T[k]) + 1])
    <3>1. p + Len(T[k]) = a + place[k]
      BY <1>7, <2>0, <2>1
    <3>2. k # n
      BY <1>6, <1>7, <2>2, <3>1
    <3>3. k < n /\ k + 1 \in 1 .. n /\ (k + 1) - 1 = k
      BY <1>2, <3>2
    <3>4. Stands(t, a + place[k], T[k + 1])
      <4>1. Stands(R, place[(k + 1) - 1], T[k + 1])
        BY <1>6, <3>3
      <4> QED BY <1>1, <1>4, <1>7, <2>0, <3>3, <4>1, StandsWithin
    <3>5. Len(T[k + 1]) \in Nat \ {0}
      BY <1>4, <3>3, EmptySeq
    <3>6. t[(a + place[k]) + 1] = T[k + 1][1]
      BY <3>4, <3>5 DEF Stands
    <3>7. MayFollow(ps[k], T[k + 1][1])
      BY <1>2, <1>3, <3>3
    <3> QED BY <3>1, <3>6, <3>7
  <2>3. Unit(t, p + 1) = [means |-> M[k], next |-> p + Len(T[k]) + 1]
    <3>1. /\ ps[k] \in Piece /\ PieceOK(ps[k]) /\ T[k] = PieceText(ps[k]) /\ M[k] = PieceMeans(ps[k])
          /\ NoSign(ps[k])
      BY <1>2, <1>3
    <3> DEFINE x == ps[k]
               y == T[k]
    <3>2. /\ x \in Piece /\ PieceOK(x) /\ y = PieceText(x) /\ Stands(t, p, y)
          /\ NoSign(x)
      BY <2>1, <3>1
    <3>3. p + Len(y) < Len(t) => MayFollow(x, t[p + Len(y) + 1])
      BY <2>2
    <3> HIDE DEF p, x, y
    <3>4. p \in Nat
      BY <2>0
    <3>5. Stands(t, p, PieceText(x))
      BY <3>2
    <3>6. p + Len(PieceText(x)) < Len(t) => MayFollow(x, t[p + Len(PieceText(x)) + 1])
      BY <3>2, <3>3
    <3>7. Unit(t, p + 1) = [means |-> PieceMeans(x), next |-> p + Len(PieceText(x)) + 1]
      BY <1>7, <3>2, <3>4, <3>5, <3>6, UnitOfPiece
    <3>8. PieceMeans(x) = M[k]
      BY <3>1 DEF x
    <3> QED BY <3>2, <3>7, <3>8 DEF y
  <2>4. p + 1 \in 1 .. Len(t) /\ p + Len(T[k]) + 1 = (a + place[k]) + 1
    <3>1. Len(T[k]) \in Nat \ {0}
      BY <1>4, EmptySeq
    <3>2. p + Len(T[k]) <= Len(t)
      BY <2>1 DEF Stands
    <3>3. p + Len(T[k]) = a + place[k]
      BY <1>7, <2>0, <2>1, <3>1
    <3>4. p \in Nat /\ Len(t) \in Nat
      BY <1>7, <2>0
    <3> DEFINE l == Len(T[k])
    <3> HIDE DEF p, l
    <3>5. p + 1 \in 1 .. Len(t)
      BY <3>1, <3>2, <3>4 DEF l
    <3> QED BY <3>3, <3>5
  <2>5. f[p + 1] = M[k] \o f[(a + place[k]) + 1]
    <3>1. f[p + 1] = Unit(t, p + 1).means \o f[Unit(t, p + 1).next]
      BY <1>8, <2>4 DEF ExpandsOn
    <3> HIDE DEF p
    <3>2. Unit(t, p + 1).means = M[k] /\ Unit(t, p + 1).next = (a + place[k]) + 1
      BY <2>3, <2>4
    <3> QED BY <3>1, <3>2
  <2>6. f[p + 1] = FlatFrom(M, k - 1)
    BY <1>9, <1>11, <2>5
  <2> QED BY <2>6
<1>12. P(0)
  <2> DEFINE S == {m \in Nat : m <= n => P(n - m)}
  <2>1. 0 \in S
    <3>1. n - 0 = n
      BY <1>2
    <3> QED BY <1>10, <3>1
  <2>2. ASSUME NEW m \in S
        PROVE  m + 1 \in S
    <3>0. m \in Nat /\ (m <= n => P(n - m))
      OBVIOUS
    <3> HIDE DEF P
    <3>1. ASSUME m + 1 <= n
          PROVE  P(n - (m + 1))
      <4>1. n - m \in 1 .. n /\ (n - m) - 1 = n - (m + 1) /\ m <= n
        BY <1>2, <3>0, <3>1
      <4>2. P(n - m)
        BY <3>0, <4>1
      <4>3. P((n - m) - 1)
        BY <1>11, <4>1, <4>2
      <4> QED BY <4>1, <4>3
    <3> QED BY <3>0, <3>1
  <2>3. n \in S
    <3>1. S \subseteq Nat
      OBVIOUS
    <3> HIDE DEF S
    <3> QED BY <1>2, <2>1, <2>2, <3>1, AllNumbers
  <2>4. n - n = 0 /\ n <= n
    BY <1>2
  <2> HIDE DEF P
  <2> QED BY <2>3, <2>4
<1>13. f[a + 1] = FlattenSeq(M)
  BY <1>6, <1>7, <1>9, <1>12
(* The text in front, from its end on.                                     *)
<1> DEFINE W == FlattenSeq(M)
           Q(j) == f[j + 1] = SubSeq(u, j + 1, a) \o W
<1>14. W \in Seq(Character)
  BY <1>1, FlattenLays
<1> HIDE DEF W, P
<1>15. Q(a)
  <2>1. SubSeq(u, a + 1, a) = <<>>
    BY <1>7
  <2>2. <<>> \o W = W
    BY <1>14, ConcatEmptySeq
  <2> QED BY <1>13, <2>1, <2>2 DEF W
<1>16. ASSUME NEW j \in 1 .. a, Q(j)
       PROVE  Q(j - 1)
  <2>1. j \in 1 .. Len(t) /\ t[j] = u[j] /\ u[j] # Dollar /\ u[j] \in Character
    <3>1. 0 + j = j /\ j \in 1 .. Len(u)
      BY DEF a
    <3>2. t[0 + j] = u[j]
      BY <1>7, <3>1 DEF Stands
    <3>3. u[j] \in Chars(u)
      BY <3>1 DEF Chars
    <3> QED BY <1>7, <3>1, <3>2, <3>3
  <2>2. ~Behind(t, j, Dollar)
    <3> SUFFICES ASSUME j < Len(t), t[j + 1] = Dollar
                 PROVE  FALSE
      BY DEF Behind
    <3>1. CASE j < a
      <4>1. j + 1 \in 1 .. Len(u) /\ 0 + (j + 1) = j + 1
        BY <1>7, <3>1 DEF a
      <4>2. t[0 + (j + 1)] = u[j + 1] /\ u[j + 1] \in Chars(u)
        BY <1>7, <4>1 DEF Stands, Chars
      <4> QED BY <4>1, <4>2
    <3>2. CASE j = a
      <4>1. n # 0
        BY <1>6, <1>7, <3>2
      <4>2. 1 \in 1 .. n /\ 1 - 1 = 0 /\ u # <<>> /\ ps # <<>>
        <5>1. Len(<<>>) = 0 /\ a # 0
          BY <3>2
        <5> QED BY <1>2, <4>1, <5>1 DEF a, n
      <4>3. Stands(R, 0, T[1])
        <5>1. Stands(R, place[1 - 1], T[1])
          BY <1>6, <4>2
        <5> QED BY <1>6, <4>2, <5>1
      <4>4. Stands(t, a + 0, T[1])
        BY <1>1, <1>4, <1>7, <4>2, <4>3, StandsWithin
      <4>5. Len(T[1]) \in Nat \ {0}
        BY <1>4, <4>2, EmptySeq
      <4>6. t[a + 0 + 1] = T[1][1]
        BY <4>4, <4>5 DEF Stands
      <4>7. T[1][1] # Dollar
        BY <1>3, <4>2
      <4>8. a + 0 + 1 = j + 1
        BY <1>7, <3>2
      <4> QED BY <4>6, <4>7, <4>8
    <3> QED BY <1>7, <3>1, <3>2
  <2>3. Unit(t, j) = [means |-> <<u[j]>>, next |-> j + 1]
    BY <2>1, <2>2 DEF Unit
  <2>4. f[j] = <<u[j]>> \o f[j + 1]
    <3>1. f[j] = Unit(t, j).means \o f[Unit(t, j).next]
      BY <1>8, <2>1 DEF ExpandsOn
    <3>2. Unit(t, j).means = <<u[j]>> /\ Unit(t, j).next = j + 1
      BY <2>3
    <3> QED BY <3>1, <3>2
  <2>5. SubSeq(u, j, a) = <<u[j]>> \o SubSeq(u, j + 1, a)
    <3>1. j \in 1 .. Len(u) /\ a \in j .. Len(u)
      BY <1>7 DEF a
    <3> QED BY <3>1, SubSeqRecursiveFirst
  <2>6. SubSeq(u, j + 1, a) \in Seq(Character) /\ <<u[j]>> \in Seq(Character)
    BY <1>7, <2>1 DEF a
  <2>7. (<<u[j]>> \o SubSeq(u, j + 1, a)) \o W = <<u[j]>> \o (SubSeq(u, j + 1, a) \o W)
    <3>1. \A x, y, z \in Seq(Character) : (x \o y) \o z = x \o (y \o z)
      <4>1. Regroups(Character)
        BY ConcatRegroups
      <4> QED BY <4>1 DEF Regroups
    <3> QED BY <1>14, <2>6, <3>1
  <2>8. (j - 1) + 1 = j
    OBVIOUS
  <2>9. f[j] = SubSeq(u, j, a) \o W
    BY <1>16, <2>4, <2>5, <2>7
  <2> QED BY <2>8, <2>9
<1>17. Q(0)
  <2> DEFINE S == {m \in Nat : m <= a => Q(a - m)}
  <2>1. 0 \in S
    <3>1. a - 0 = a
      BY <1>7
    <3> QED BY <1>15, <3>1
  <2>2. ASSUME NEW m \in S
        PROVE  m + 1 \in S
    <3>0. m \in Nat /\ (m <= a => Q(a - m))
      OBVIOUS
    <3> HIDE DEF Q
    <3>1. ASSUME m + 1 <= a
          PROVE  Q(a - (m + 1))
      <4>1. a - m \in 1 .. a /\ (a - m) - 1 = a - (m + 1) /\ m <= a
        BY <1>7, <3>0, <3>1
      <4>2. Q(a - m)
        BY <3>0, <4>1
      <4>3. Q((a - m) - 1)
        BY <1>16, <4>1, <4>2
      <4> QED BY <4>1, <4>3
    <3> QED BY <3>0, <3>1
  <2>3. a \in S
    <3>1. S \subseteq Nat
      OBVIOUS
    <3> HIDE DEF S
    <3> QED BY <1>7, <2>1, <2>2, <3>1, AllNumbers
  <2>4. a - a = 0 /\ a <= a
    BY <1>7
  <2> HIDE DEF Q
  <2> QED BY <2>3, <2>4
<1>18. f[1] = u \o W
  <2>1. SubSeq(u, 1, Len(u)) = u
    BY SubSeqFull
  <2>2. 0 + 1 = 1
    OBVIOUS
  <2>3. f[0 + 1] = SubSeq(u, 0 + 1, a) \o W
    BY <1>17
  <2> HIDE DEF W, Q
  <2> QED BY <2>1, <2>2, <2>3 DEF a
<1> QED BY <1>18, ExpandedIsExpands DEF f, t, R, T, W, M

(* A word that is written as it should be is expanded to what it means.    *)
LEMMA WordStands ==
    ASSUME NEW w, w.pieces \in Seq(Piece), w.style \in Style, WordOK(w), Untouched(w)
    PROVE  PiecesStand(w.pieces)
<1> DEFINE ps == w.pieces
<1>1. DOMAIN ps = 1 .. Len(ps) /\ \A k \in 1 .. Len(ps) : ps[k] \in Piece /\ PieceOK(ps[k])
  BY DEF WordOK
<1>2. CASE w.style = "single"
  <2>1. \A k \in 1 .. Len(ps) : ps[k].kind = "plain" /\ ps[k].name # <<Dollar>>
    BY <1>1, <1>2 DEF WordOK, Untouched
  <2>2. ASSUME NEW k \in 1 .. Len(ps), k < Len(ps)
        PROVE  MayFollow(ps[k], PieceText(ps[k + 1])[1])
    <3> DEFINE x == ps[k + 1]
    <3>1. k + 1 \in 1 .. Len(ps)
      BY <2>2
    <3>2. x \in Piece /\ x.kind = "plain" /\ x.name # <<Dollar>> /\ PieceOK(x)
      BY <1>1, <2>1, <3>1
    <3>3. ps[k].kind = "plain"
      BY <2>1
    <3> HIDE DEF x
    <3>4. PieceText(x) = x.name /\ Len(x.name) = 1 /\ x.name \in Seq(Character)
      BY <3>2 DEF PieceText, PieceOK, Piece
    <3>5. x.name = <<x.name[1]>>
      BY <3>4
    <3>6. PieceText(x)[1] # Dollar
      BY <3>2, <3>4, <3>5
    <3> QED BY <3>3, <3>6 DEF MayFollow, x
  <2> QED BY <2>1, <2>2 DEF PiecesStand, NoSign
<1>3. CASE w.style # "single"
  BY <1>1, <1>3 DEF WordOK, PiecesStand, NoSign
<1> QED BY <1>2, <1>3

LEMMA WordExpands ==
    ASSUME NEW w, w.pieces \in Seq(Piece), w.home \in BOOLEAN, w.style \in Style, WordOK(w)
    PROVE  /\ WordRaw(w) \in Seq(Character) /\ WordMeans(w) \in Seq(Character)
           /\ Untouched(w) => Expanded(Tilde(WordRaw(w))) = WordMeans(w)
<1> DEFINE ps == w.pieces
           T == PieceTexts(ps)
           R == FlattenSeq(T)
           M == FlattenSeq(PieceMeanings(ps))
           raw == WordRaw(w)
<1>1. raw = (IF w.home THEN <<Wave>> ELSE <<>>) \o R /\ WordMeans(w) = (IF w.home THEN Home ELSE <<>>) \o M
  BY DEF WordRaw, WordMeans, PieceTexts, PieceMeanings
<1>2. PiecesOK(ps)
  <2>1. DOMAIN ps = 1 .. Len(ps)
    OBVIOUS
  <2> QED BY <2>1 DEF WordOK, PiecesOK
<1>3. ASSUME Untouched(w)
      PROVE  w.home <=> AtHome(raw)
  <2>1. w.home <=> w.style = "bare" /\ AtHome(raw)
    BY DEF WordOK
  <2>2. w.style # "bare" => ~AtHome(raw)
    BY <1>3 DEF Untouched
  <2> QED BY <2>1, <2>2
<1>9. Untouched(w) => PiecesStand(ps)
  BY WordStands
<1>4. /\ T \in Seq(Seq(Character)) /\ Len(T) = Len(ps) /\ R \in Seq(Character) /\ M \in Seq(Character)
      /\ <<>> \in Seq(Character)
  BY <1>2, PiecesAre
<1>5. /\ Wave \in Character /\ Slash # Dollar
      /\ Home \in Seq(Character) /\ Dollar \notin Chars(Home)
  BY SignsAreCharacters, SignsDiffer, ParserAssumption DEF Signed, Naming
<1>6. ps # <<>> => Len(R) \in Nat \ {0} /\ R[1] = PieceText(ps[1])[1]
  <2> SUFFICES ASSUME ps # <<>>
               PROVE  Len(R) \in Nat \ {0} /\ R[1] = PieceText(ps[1])[1]
    OBVIOUS
  <2>1. Len(ps) \in Nat \ {0} /\ DOMAIN ps = 1 .. Len(ps)
    BY EmptySeq
  <2>2. T[1] = PieceText(ps[1]) /\ 1 \in 1 .. Len(ps) /\ 1 - 1 = 0
    BY <2>1 DEF PieceTexts
  <2>3. T[1] \in Seq(Character) /\ T[1] # <<>>
    <3>1. ps[1] \in Piece /\ PieceOK(ps[1])
      BY <1>2, <2>2 DEF PiecesOK
    <3> HIDE DEF T
    <3> QED BY <2>2, <3>1, PieceTextIs
  <2>4. Len(T[1]) \in Nat \ {0}
    <3> HIDE DEF T
    <3> QED BY <2>3, EmptySeq
  <2> HIDE DEF T
  <2>5. PICK place \in [0 .. Len(T) -> Nat] : Lays(T, place, R)
    BY <1>4, FlattenLays
  <2>6. place[0] = 0 /\ Stands(R, place[1 - 1], T[1])
    BY <1>4, <2>2, <2>5 DEF Lays
  <2>7. Stands(R, 0, T[1])
    BY <2>2, <2>6
  <2>8. 0 + Len(T[1]) <= Len(R) /\ R[0 + 1] = T[1][1]
    BY <2>4, <2>7 DEF Stands
  <2>9. Len(R) \in Nat
    BY <1>4
  <2> QED BY <2>2, <2>4, <2>8, <2>9
<1> HIDE DEF R, M, T, raw
<1>10. raw \in Seq(Character) /\ WordMeans(w) \in Seq(Character)
  <2>1. <<Wave>> \in Seq(Character) /\ \A s, t \in Seq(Character) : s \o t \in Seq(Character)
    BY <1>5
  <2> QED BY <1>1, <1>4, <1>5, <2>1
<1>7. ASSUME w.home, Untouched(w)
      PROVE  Expanded(Tilde(raw)) = WordMeans(w)
  <2>1. raw = <<Wave>> \o R /\ WordMeans(w) = Home \o M
    BY <1>1, <1>7
  <2>2. raw \in Seq(Character) /\ Tail(raw) = R /\ Len(raw) = 1 + Len(R) /\ (1 \in 1 .. Len(R) => raw[2] = R[1])
    BY <1>4, <1>5, <2>1
  <2>3. Tilde(raw) = Home \o R
    BY <1>3, <1>7, <2>2 DEF Tilde
  <2>4. ps # <<>> => PieceText(ps[1])[1] # Dollar
    <3>1. Len(raw) = 1 \/ raw[2] = Slash
      BY <1>3, <1>7 DEF AtHome
    <3>2. ps # <<>> => Len(raw) # 1 /\ raw[2] = R[1]
      BY <1>6, <2>2
    <3> QED BY <1>5, <1>6, <3>1, <3>2
  <2>5. Expanded(Home \o R) = Home \o M
    <3>1. PiecesStand(ps)
      BY <1>7, <1>9
    <3> HIDE DEF ps
    <3> QED BY <1>2, <1>5, <2>4, <3>1, PiecesExpand DEF R, M, T
  <2> QED BY <2>1, <2>3, <2>5
<1>8. ASSUME ~w.home, Untouched(w)
      PROVE  Expanded(Tilde(raw)) = WordMeans(w)
  <2>1. raw = <<>> \o R /\ WordMeans(w) = <<>> \o M
    BY <1>1, <1>8
  <2>2. <<>> \o R = R /\ <<>> \o M = M
    BY <1>4, ConcatEmptySeq
  <2>3. Tilde(raw) = raw
    BY <1>3, <1>8 DEF Tilde
  <2>4. Expanded(<<>> \o R) = <<>> \o M
    <3>4. PiecesStand(ps)
      BY <1>8, <1>9
    <3> HIDE DEF ps
    <3>1. Dollar \notin Chars(<<>>)
      BY DEF Chars
    <3> DEFINE u == <<>>
    <3>2. u \in Seq(Character) /\ Dollar \notin Chars(u) /\ ~(u # <<>>)
      BY <1>4, <3>1
    <3> HIDE DEF u
    <3>3. Expanded(u \o R) = u \o M
      BY <1>2, <3>2, <3>4, PiecesExpand DEF R, M, T
    <3> QED BY <3>3 DEF u
  <2> QED BY <2>1, <2>2, <2>3, <2>4
<1> QED BY <1>7, <1>8, <1>10 DEF raw

(***************************************************************************)
(* The parts of a line.                                                    *)
(***************************************************************************)
WordFacts(w) ==
    /\ w.style \in Style /\ StyleOK(w.style, WordRaw(w))
    /\ WordRaw(w) \in Seq(Character) /\ WordMeans(w) \in Seq(Character)
    /\ Untouched(w) => Expanded(Tilde(WordRaw(w))) = WordMeans(w)

FileFacts(x) ==
    /\ x.op \in InOps \cup OutOps \cup ErrOps
    /\ x.style \in Style /\ StyleOK(x.style, x.name) /\ x.name \in Seq(Character)

CommandFacts(c) ==
    /\ c.background \in BOOLEAN
    /\ Len(c.words) \in Nat \ {0} /\ DOMAIN c.words = 1 .. Len(c.words)
    /\ \A k \in 1 .. Len(c.words) : WordFacts(c.words[k])
    /\ Len(c.files) \in Nat /\ DOMAIN c.files = 1 .. Len(c.files)
    /\ \A k \in 1 .. Len(c.files) : FileFacts(c.files[k])

LEMMA CommandIs ==
    ASSUME NEW c \in MeantCommand, CommandOK(c)
    PROVE  CommandFacts(c)
<1> DEFINE ws == c.words
           fs == c.files
           MeantWord == [style : Style, home : BOOLEAN, pieces : Seq(Piece)]
           MeantFile == [op : InOps \cup OutOps \cup ErrOps, style : Style, name : Seq(Character)]
<1>1. ws \in Seq(MeantWord) /\ fs \in Seq(MeantFile) /\ c.background \in BOOLEAN
  BY DEF MeantCommand
<1>2. /\ ws # <<>>
      /\ \A k \in DOMAIN ws : WordOK(ws[k]) /\ StyleOK(ws[k].style, WordRaw(ws[k]))
      /\ \A k \in DOMAIN fs : StyleOK(fs[k].style, fs[k].name)
  BY DEF CommandOK
<1> HIDE DEF ws, fs
<1>3. Len(ws) \in Nat \ {0} /\ DOMAIN ws = 1 .. Len(ws) /\ \A k \in 1 .. Len(ws) : ws[k] \in MeantWord
  <2> HIDE DEF MeantWord
  <2> QED BY <1>1, <1>2, EmptySeq
<1>4. Len(fs) \in Nat /\ DOMAIN fs = 1 .. Len(fs) /\ \A k \in 1 .. Len(fs) : fs[k] \in MeantFile
  <2> HIDE DEF MeantFile
  <2> QED BY <1>1
<1>5. ASSUME NEW k \in 1 .. Len(ws)
      PROVE  WordFacts(ws[k])
  <2> DEFINE w == ws[k]
  <2>1. w \in MeantWord /\ WordOK(w) /\ StyleOK(w.style, WordRaw(w))
    BY <1>2, <1>3
  <2> HIDE DEF w
  <2>2. w.style \in Style /\ w.home \in BOOLEAN /\ w.pieces \in Seq(Piece)
    BY <2>1
  <2>3. WordFacts(w)
    BY <2>1, <2>2, WordExpands DEF WordFacts
  <2> QED BY <2>3 DEF w
<1>6. ASSUME NEW k \in 1 .. Len(fs)
      PROVE  FileFacts(fs[k])
  <2> DEFINE x == fs[k]
  <2>1. x \in MeantFile /\ StyleOK(x.style, x.name)
    BY <1>2, <1>4
  <2> HIDE DEF x
  <2>2. FileFacts(x)
    BY <2>1 DEF FileFacts
  <2> QED BY <2>2 DEF x
<1> QED BY <1>1, <1>3, <1>4, <1>5, <1>6 DEF CommandFacts, ws, fs

WordText(w)  == Spaced(Styled(w.style, WordRaw(w)))
FileText(x)  == Spaced(x.op) \o Spaced(Styled(x.style, x.name))
WordTexts(c) == [k \in DOMAIN c.words |-> WordText(c.words[k])]
FileTexts(c) == [k \in DOMAIN c.files |-> FileText(c.files[k])]
Mark(c)      == IF c.background THEN Spaced(<<Amp>>) ELSE <<>>
Before(i)    == IF i = 1 THEN <<>> ELSE Spaced(<<Pipe>>)
LineParts(p) == [i \in DOMAIN p |-> Before(i) \o CommandText(p[i])]

LEMMA OpIs ==
    ASSUME NEW op \in InOps \cup OutOps \cup ErrOps
    PROVE  op \in Seq(Character) /\ op # <<>> /\ \A k \in 1 .. Len(op) : op[k] \in {Lt, Gt, Two}
<1>1. Lt \in Character /\ Gt \in Character /\ Two \in Character
  BY SignsAreCharacters DEF Signed, Quoting, Special
<1>2. op \in {<<Lt>>, <<Lt, Lt>>, <<Gt>>, <<Gt, Gt>>, <<Two, Gt>>}
  BY DEF InOps, OutOps, ErrOps
<1>3. ASSUME NEW x \in {Lt, Gt, Two}, NEW y \in {Lt, Gt, Two}
      PROVE  /\ <<x>> \in Seq(Character) /\ <<x>> # <<>> /\ \A k \in 1 .. Len(<<x>>) : <<x>>[k] \in {Lt, Gt, Two}
             /\ <<x, y>> \in Seq(Character) /\ <<x, y>> # <<>> /\ \A k \in 1 .. Len(<<x, y>>) : <<x, y>>[k] \in {Lt, Gt, Two}
  BY <1>1
<1> QED BY <1>2, <1>3

PartsFacts(c) ==
    /\ CommandText(c) = FlattenSeq(WordTexts(c)) \o FlattenSeq(FileTexts(c)) \o Mark(c)
    /\ WordTexts(c) \in Seq(Seq(Character)) /\ Len(WordTexts(c)) = Len(c.words)
    /\ \A k \in 1 .. Len(c.words) : WordTexts(c)[k] = WordText(c.words[k])
    /\ FileTexts(c) \in Seq(Seq(Character)) /\ Len(FileTexts(c)) = Len(c.files)
    /\ \A k \in 1 .. Len(c.files) : FileTexts(c)[k] = FileText(c.files[k])
    /\ FlattenSeq(WordTexts(c)) \in Seq(Character) /\ FlattenSeq(FileTexts(c)) \in Seq(Character)
    /\ Mark(c) \in Seq(Character) /\ CommandText(c) \in Seq(Character)

LEMMA LinePartsAre ==
    ASSUME NEW c, CommandFacts(c)
    PROVE  PartsFacts(c)
<1> DEFINE B == Seq(Character)
<1>0. <<>> \in B
  OBVIOUS
<1>1. \A k \in 1 .. Len(c.words) : WordText(c.words[k]) \in B
  <2> SUFFICES ASSUME NEW k \in 1 .. Len(c.words)
               PROVE  WordText(c.words[k]) \in B
    OBVIOUS
  <2> DEFINE w == c.words[k]
             X == Styled(w.style, WordRaw(w))
  <2>1. WordFacts(w)
    BY DEF CommandFacts
  <2> HIDE DEF w
  <2>2. X \in Seq(Character)
    BY <2>1, StyledReads DEF WordFacts
  <2> HIDE DEF X
  <2>3. Spaced(X) \in B
    BY <1>0, <2>2, SpacedIs
  <2> QED BY <2>3 DEF WordText, X, w
<1>2. \A k \in 1 .. Len(c.files) : FileText(c.files[k]) \in B
  <2> SUFFICES ASSUME NEW k \in 1 .. Len(c.files)
               PROVE  FileText(c.files[k]) \in B
    OBVIOUS
  <2> DEFINE x == c.files[k]
             X == Styled(x.style, x.name)
  <2>1. FileFacts(x)
    BY DEF CommandFacts
  <2> HIDE DEF x
  <2>2. X \in Seq(Character) /\ x.op \in Seq(Character)
    BY <2>1, StyledReads, OpIs DEF FileFacts
  <2> HIDE DEF X
  <2>3. Spaced(X) \in Seq(Character) /\ Spaced(x.op) \in Seq(Character)
    BY <1>0, <2>2, SpacedIs
  <2>4. Spaced(x.op) \o Spaced(X) \in B
    BY <2>3
  <2> QED BY <2>4 DEF FileText, X, x
<1>3. Mark(c) \in B
  <2>1. <<Amp>> \in Seq(Character)
    BY SignsAreCharacters DEF Signed, Quoting, Special
  <2>2. Spaced(<<Amp>>) \in B
    BY <1>0, <2>1, SpacedIs
  <2> QED BY <1>0, <2>2 DEF Mark
<1>4. /\ Len(c.words) \in Nat /\ DOMAIN c.words = 1 .. Len(c.words)
      /\ Len(c.files) \in Nat /\ DOMAIN c.files = 1 .. Len(c.files)
  BY DEF CommandFacts
<1>5. /\ WordTexts(c) \in Seq(B) /\ Len(WordTexts(c)) = Len(c.words)
      /\ \A k \in 1 .. Len(c.words) : WordTexts(c)[k] = WordText(c.words[k])
  <2> HIDE DEF B
  <2> QED BY <1>1, <1>4 DEF WordTexts
<1>6. /\ FileTexts(c) \in Seq(B) /\ Len(FileTexts(c)) = Len(c.files)
      /\ \A k \in 1 .. Len(c.files) : FileTexts(c)[k] = FileText(c.files[k])
  <2> HIDE DEF B
  <2> QED BY <1>2, <1>4 DEF FileTexts
<1>7. FlattenSeq(WordTexts(c)) \in Seq(Character) /\ FlattenSeq(FileTexts(c)) \in Seq(Character)
  BY <1>5, <1>6, FlattenLays
<1>8. CommandText(c) = FlattenSeq(WordTexts(c)) \o FlattenSeq(FileTexts(c)) \o Mark(c)
  BY DEF CommandText, WordTexts, WordText, FileTexts, FileText, Mark
<1>9. CommandText(c) \in B
  <2> DEFINE X == FlattenSeq(WordTexts(c))
             Y == FlattenSeq(FileTexts(c))
             Z == Mark(c)
  <2>1. X \in Seq(Character) /\ Y \in Seq(Character) /\ Z \in Seq(Character) /\ CommandText(c) = X \o Y \o Z
    BY <1>3, <1>7, <1>8
  <2> HIDE DEF X, Y, Z
  <2> QED BY <2>1
<1> QED BY <1>3, <1>5, <1>6, <1>7, <1>8, <1>9 DEF PartsFacts

PipelineFacts(p) ==
    /\ Len(p) \in 1 .. MaxPipes /\ MaxPipes \in Nat \ {0} /\ DOMAIN p = 1 .. Len(p)
    /\ \A i \in 1 .. Len(p) : CommandFacts(p[i]) /\ PartsFacts(p[i])
    /\ LineParts(p) \in Seq(Seq(Character)) /\ Len(LineParts(p)) = Len(p)
    /\ \A i \in 1 .. Len(p) : LineParts(p)[i] = Before(i) \o CommandText(p[i]) /\ Before(i) \in Seq(Character)
    /\ LineOf(p) = FlattenSeq(LineParts(p)) /\ LineOf(p) \in Seq(Character)

LEMMA PipelineIs ==
    ASSUME NEW p \in Meant
    PROVE  PipelineFacts(p)
<1> DEFINE B == Seq(Character)
<1>1. p \in Seq(MeantCommand) /\ Len(p) \in 1 .. MaxPipes /\ MaxPipes \in Nat \ {0}
      /\ \A i \in DOMAIN p : CommandOK(p[i])
  BY ParserAssumption
<1>2. DOMAIN p = 1 .. Len(p) /\ Len(p) \in Nat /\ \A i \in 1 .. Len(p) : p[i] \in MeantCommand
  BY <1>1
<1>3. \A i \in 1 .. Len(p) : CommandFacts(p[i]) /\ PartsFacts(p[i])
  BY <1>1, <1>2, CommandIs, LinePartsAre
<1>4. \A i : Before(i) \in Seq(Character)
  <2>1. <<Pipe>> \in Seq(Character) /\ <<>> \in Seq(Character)
    BY SignsAreCharacters DEF Signed, Quoting, Special
  <2>2. Spaced(<<Pipe>>) \in Seq(Character)
    BY <2>1, SpacedIs
  <2> QED BY <2>1, <2>2 DEF Before
<1>5. \A i \in 1 .. Len(p) : Before(i) \o CommandText(p[i]) \in B
  <2> SUFFICES ASSUME NEW i \in 1 .. Len(p)
               PROVE  Before(i) \o CommandText(p[i]) \in B
    OBVIOUS
  <2>1. CommandText(p[i]) \in Seq(Character)
    BY <1>3 DEF PartsFacts
  <2> QED BY <1>4, <2>1
<1>6. /\ LineParts(p) \in Seq(B) /\ Len(LineParts(p)) = Len(p)
      /\ \A i \in 1 .. Len(p) : LineParts(p)[i] = Before(i) \o CommandText(p[i])
  <2> HIDE DEF B
  <2> QED BY <1>2, <1>5 DEF LineParts
<1>7. LineOf(p) = FlattenSeq(LineParts(p))
  BY DEF LineOf, LineParts, Before
<1>8. LineOf(p) \in Seq(Character)
  BY <1>6, <1>7, FlattenLays
<1> QED BY <1>1, <1>2, <1>3, <1>4, <1>6, <1>7, <1>8 DEF PipelineFacts

(***************************************************************************)
(* A line that is meant has no comments: quoting runs through each of its  *)
(* parts and is over at its end.                                           *)
(***************************************************************************)
QuotingState == {"none", "single", "double", "skip", "skipdouble"}

Leads(t, a, b) ==
    \E q \in [0 .. Len(t) -> QuotingState] :
        /\ q[0] = a /\ q[Len(t)] = b
        /\ \A i \in 1 .. Len(t) : q[i] = QuoteAfter(q[i - 1], t[i]) /\ (t[i] = Hash => q[i - 1] # "none")

LEMMA QuoteAfterIs ==
    ASSUME NEW q \in QuotingState, NEW c
    PROVE  QuoteAfter(q, c) \in QuotingState
BY DEF QuotingState, QuoteAfter

LEMMA LeadsJoin ==
    ASSUME NEW s \in Seq(Character), NEW t \in Seq(Character), NEW a, NEW b, NEW c,
           Leads(s, a, b), Leads(t, b, c)
    PROVE  Leads(s \o t, a, c)
<1> DEFINE m == Len(s)
           n == Len(t)
           u == s \o t
<1>1. PICK q \in [0 .. m -> QuotingState] :
        /\ q[0] = a /\ q[m] = b
        /\ \A i \in 1 .. m : q[i] = QuoteAfter(q[i - 1], s[i]) /\ (s[i] = Hash => q[i - 1] # "none")
  BY DEF Leads
<1>2. PICK r \in [0 .. n -> QuotingState] :
        /\ r[0] = b /\ r[n] = c
        /\ \A i \in 1 .. n : r[i] = QuoteAfter(r[i - 1], t[i]) /\ (t[i] = Hash => r[i - 1] # "none")
  BY DEF Leads
<1>3. /\ m \in Nat /\ n \in Nat /\ Len(u) = m + n
      /\ (\A i \in 1 .. m : u[i] = s[i]) /\ \A i \in 1 .. n : u[m + i] = t[i]
  OBVIOUS
<1> DEFINE f == [i \in 0 .. (m + n) |-> IF i <= m THEN q[i] ELSE r[i - m]]
<1> HIDE DEF m, n, u
<1>4. f \in [0 .. (m + n) -> QuotingState]
  <2>1. \A i \in 0 .. (m + n) : (i <= m => i \in 0 .. m) /\ (~(i <= m) => i - m \in 0 .. n)
    BY <1>3
  <2> QED BY <2>1
<1>5. f[0] = a
  BY <1>1, <1>3
<1>6. \A i \in 0 .. n : f[m + i] = r[i]
  <2> SUFFICES ASSUME NEW i \in 0 .. n
               PROVE  f[m + i] = r[i]
    OBVIOUS
  <2>1. m + i \in 0 .. (m + n) /\ (m + i) - m = i
    BY <1>3
  <2>2. CASE i = 0
    <3>1. m + i = m /\ m <= m
      BY <1>3, <2>2
    <3> QED BY <1>1, <1>2, <2>1, <2>2, <3>1
  <2>3. CASE i # 0
    <3>1. ~(m + i <= m)
      BY <1>3, <2>3
    <3> QED BY <2>1, <3>1
  <2> QED BY <2>2, <2>3
<1>7. ASSUME NEW i \in 1 .. (m + n)
      PROVE  f[i] = QuoteAfter(f[i - 1], u[i]) /\ (u[i] = Hash => f[i - 1] # "none")
  <2>1. CASE i <= m
    <3>1. i \in 1 .. m /\ i \in 0 .. (m + n) /\ i - 1 \in 0 .. (m + n) /\ i - 1 <= m
      BY <1>3, <2>1
    <3>2. f[i] = q[i] /\ f[i - 1] = q[i - 1] /\ u[i] = s[i]
      BY <1>3, <2>1, <3>1
    <3> QED BY <1>1, <3>1, <3>2
  <2>2. CASE ~(i <= m)
    <3> DEFINE j == i - m
    <3>1. j \in 1 .. n /\ m + j = i /\ m + (j - 1) = i - 1 /\ j \in 0 .. n /\ j - 1 \in 0 .. n
      BY <1>3, <2>2
    <3> HIDE DEF f, j
    <3>2. f[i] = r[j] /\ f[i - 1] = r[j - 1] /\ u[i] = t[j]
      BY <1>3, <1>6, <3>1
    <3> QED BY <1>2, <3>1, <3>2
  <2> QED BY <2>1, <2>2
<1>8. f[m + n] = c
  <2>1. n \in 0 .. n
    BY <1>3
  <2> HIDE DEF f
  <2> QED BY <1>2, <1>6, <2>1
<1> HIDE DEF f
<1>9. Leads(u, a, c)
  BY <1>3, <1>4, <1>5, <1>7, <1>8 DEF Leads
<1> QED BY <1>9 DEF u

(* Characters that leave quoting as it is.                                 *)
LEMMA LeadsStill ==
    ASSUME NEW t \in Seq(Character), NEW a \in QuotingState,
           \A i \in 1 .. Len(t) : QuoteAfter(a, t[i]) = a /\ (t[i] = Hash => a # "none")
    PROVE  Leads(t, a, a)
<1> DEFINE q == [i \in 0 .. Len(t) |-> a]
<1>1. Len(t) \in Nat
  OBVIOUS
<1>2. \A i \in 1 .. Len(t) : i \in 0 .. Len(t) /\ i - 1 \in 0 .. Len(t)
  BY <1>1
<1>3. q \in [0 .. Len(t) -> QuotingState] /\ q[0] = a /\ q[Len(t)] = a
  BY <1>1
<1>4. \A i \in 1 .. Len(t) : q[i] = a /\ q[i - 1] = a
  BY <1>2
<1> HIDE DEF q
<1> QED BY <1>3, <1>4 DEF Leads

LEMMA LeadsOne ==
    ASSUME NEW c \in Character, NEW a \in QuotingState, c = Hash => a # "none"
    PROVE  Leads(<<c>>, a, QuoteAfter(a, c))
<1> DEFINE b == QuoteAfter(a, c)
           t == <<c>>
           q == [i \in 0 .. 1 |-> IF i = 0 THEN a ELSE b]
<1>1. b \in QuotingState
  BY QuoteAfterIs
<1>2. Len(t) = 1 /\ t[1] = c
  OBVIOUS
<1> HIDE DEF b, t
<1>3. q \in [0 .. 1 -> QuotingState] /\ q[0] = a /\ q[1] = b
  BY <1>1
<1> HIDE DEF q
<1>4. \A i \in 1 .. 1 : i = 1 /\ i - 1 = 0
  OBVIOUS
<1>5. \A i \in 1 .. 1 : q[i] = QuoteAfter(q[i - 1], t[i]) /\ (t[i] = Hash => q[i - 1] # "none")
  BY <1>2, <1>3, <1>4 DEF b
<1>6. Leads(t, a, b)
  BY <1>2, <1>3, <1>5 DEF Leads
<1> QED BY <1>6 DEF b, t

LEMMA LeadsFlat ==
    ASSUME NEW ss \in Seq(Seq(Character)), NEW a \in QuotingState,
           \A k \in 1 .. Len(ss) : Leads(ss[k], a, a)
    PROVE  Leads(FlattenSeq(ss), a, a)
<1> DEFINE T == {s \in Seq(Character) : Leads(s, a, a)}
<1>1. <<>> \in T
  <2>1. <<>> \in Seq(Character) /\ \A i \in 1 .. Len(<<>>) : FALSE
    OBVIOUS
  <2> DEFINE e == <<>>
  <2>2. e \in Seq(Character) /\ \A i \in 1 .. Len(e) : FALSE
    BY <2>1
  <2> HIDE DEF e
  <2>3. Leads(e, a, a)
    BY <2>2, LeadsStill
  <2> QED BY <2>2, <2>3 DEF e
<1>2. \A s \in Seq(Character), t \in Seq(Character) : s \in T /\ t \in T => s \o t \in T
  <2> SUFFICES ASSUME NEW s \in T, NEW t \in T
               PROVE  s \o t \in T
    OBVIOUS
  <2>1. s \in Seq(Character) /\ t \in Seq(Character) /\ Leads(s, a, a) /\ Leads(t, a, a)
    OBVIOUS
  <2> HIDE DEF T
  <2>2. s \o t \in Seq(Character) /\ Leads(s \o t, a, a)
    BY <2>1, LeadsJoin
  <2> QED BY <2>2 DEF T
<1>3. \A k \in 1 .. Len(ss) : ss[k] \in T
  <2>1. \A k \in 1 .. Len(ss) : ss[k] \in Seq(Character)
    OBVIOUS
  <2> QED BY <2>1
<1>4. FlattenSeq(ss) \in T
  <2> HIDE DEF T
  <2> QED BY <1>1, <1>2, <1>3, FlattenKeeps
<1> QED BY <1>4

LEMMA StripsNothing ==
    ASSUME NEW t \in Seq(Character), NEW b, Leads(t, "none", b)
    PROVE  Stripped(t) = t
<1> DEFINE N == Len(t)
           Step(f) == [i \in 0 .. N |-> IF i = 0 THEN "none" ELSE QuoteAfter(f[i - 1], t[i])]
           F == QuotesIn(t)
<1>0. N \in Nat
  OBVIOUS
<1>1. PICK q \in [0 .. N -> QuotingState] :
        /\ q[0] = "none"
        /\ \A i \in 1 .. N : q[i] = QuoteAfter(q[i - 1], t[i]) /\ (t[i] = Hash => q[i - 1] # "none")
  BY DEF Leads
<1>2. F = CHOOSE f : f = Step(f)
  BY DEF QuotesIn
<1>3. q = Step(q)
  <2>1. q = [i \in 0 .. N |-> q[i]]
    OBVIOUS
  <2>2. \A i \in 0 .. N : q[i] = IF i = 0 THEN "none" ELSE QuoteAfter(q[i - 1], t[i])
    <3>1. \A i \in 0 .. N : i # 0 => i \in 1 .. N
      BY <1>0
    <3> QED BY <1>1, <3>1
  <2> QED BY <2>1, <2>2
<1>4. F = Step(F)
  <2> HIDE DEF Step, F
  <2> QED BY <1>2, <1>3
<1> HIDE DEF F
<1>5. F[0] = "none" /\ \A i \in 1 .. N : F[i] = QuoteAfter(F[i - 1], t[i])
  <2>1. 0 \in 0 .. N /\ \A i \in 1 .. N : i \in 0 .. N /\ i # 0
    BY <1>0
  <2>2. \A i \in 0 .. N : F[i] = Step(F)[i]
    BY <1>4
  <2> QED BY <2>1, <2>2
<1>6. \A i \in 0 .. N : F[i] = q[i]
  <2> DEFINE T == {i \in 0 .. N : F[i] = q[i]}
  <2>1. 0 \in T
    BY <1>0, <1>1, <1>5
  <2>2. \A i \in 1 .. N : i - 1 \in T => i \in T
    <3> SUFFICES ASSUME NEW i \in 1 .. N, i - 1 \in T
                 PROVE  i \in T
      OBVIOUS
    <3>1. F[i - 1] = q[i - 1] /\ i \in 0 .. N
      BY <1>0
    <3>2. F[i] = QuoteAfter(F[i - 1], t[i]) /\ q[i] = QuoteAfter(q[i - 1], t[i])
      BY <1>1, <1>5
    <3> QED BY <3>1, <3>2
  <2>3. \A i \in 0 .. N : i \in T
    <3> HIDE DEF T, N
    <3> QED BY <1>0, <2>1, <2>2, ForwardHolds
  <2> QED BY <2>3
<1>7. {i \in DOMAIN t : t[i] = Hash /\ F[i - 1] = "none"} = {}
  <2>1. DOMAIN t = 1 .. N
    OBVIOUS
  <2>2. \A i \in 1 .. N : i - 1 \in 0 .. N
    BY <1>0
  <2> QED BY <1>1, <1>6, <2>1, <2>2
<1> QED BY <1>7 DEF Stripped, F

LEMMA StyledLeads ==
    ASSUME NEW t \in Seq(Character), NEW style \in Style, StyleOK(style, t)
    PROVE  Leads(Spaced(Styled(style, t)), "none", "none")
<1> DEFINE X == Styled(style, t)
<1>c. /\ Apostrophe \in Character /\ DoubleQuote \in Character /\ Backslash \in Character /\ Space \in Character
      /\ Apostrophe # Hash /\ DoubleQuote # Hash /\ Backslash # Hash /\ Space # Hash
      /\ Apostrophe # DoubleQuote /\ Apostrophe # Backslash /\ DoubleQuote # Backslash
      /\ Space \notin {Apostrophe, DoubleQuote, Backslash}
      /\ {Hash, Apostrophe, DoubleQuote, Backslash} \subseteq Quoting
  BY SignsAreCharacters, SignsDiffer DEF Signed, Quoting
<1>q. "none" \in QuotingState /\ "single" \in QuotingState /\ "double" \in QuotingState /\ "skip" \in QuotingState
      /\ "skipdouble" \in QuotingState
  BY DEF QuotingState
<1>s. style = "single" \/ style = "double" \/ style = "bare"
  BY DEF Style
<1>1. X = CASE style = "single" -> Quoted(t, Apostrophe)
            [] style = "double" -> Quoted(Escaped(t, {DoubleQuote, Backslash}), DoubleQuote)
            [] style = "bare"   -> Escaped(t, Quoting)
  BY DEF Styled
<1>2. X \in Seq(Character)
  BY StyledReads
<1> HIDE DEF X
<1>3. ASSUME NEW y \in Seq(Character), NEW q \in Character, NEW a \in QuotingState,
             q # Hash, QuoteAfter("none", q) = a, QuoteAfter(a, q) = "none", Leads(y, a, a)
      PROVE  Leads(Quoted(y, q), "none", "none")
  <2>1. Leads(<<q>>, "none", a) /\ Leads(<<q>>, a, "none")
    BY <1>3, <1>q, LeadsOne
  <2>2. <<q>> \in Seq(Character) /\ <<q>> \o y \in Seq(Character)
    OBVIOUS
  <2> DEFINE z == <<q>> \o y
             e == <<q>>
  <2>3. Quoted(y, q) = z \o e
    BY DEF Quoted
  <2>4. Leads(z, "none", a)
    <3>1. z = e \o y /\ e \in Seq(Character) /\ Leads(e, "none", a)
      BY <2>1, <2>2
    <3> HIDE DEF e
    <3>2. Leads(e \o y, "none", a)
      BY <1>3, <3>1, LeadsJoin
    <3> QED BY <3>1, <3>2
  <2>5. z \in Seq(Character) /\ e \in Seq(Character) /\ Leads(e, a, "none")
    BY <2>1, <2>2
  <2> HIDE DEF z, e
  <2>6. Leads(z \o e, "none", "none")
    BY <2>4, <2>5, LeadsJoin
  <2> QED BY <2>3, <2>6
<1>4. ASSUME NEW C, NEW a \in QuotingState, \A c \in Character : Leads(EscapedOne(c, C), a, a)
      PROVE  Leads(Escaped(t, C), a, a)
  <2>1. /\ Escaped(t, C) = FlattenSeq(EscapedParts(t, C))
        /\ EscapedParts(t, C) \in Seq(Seq(Character)) /\ Len(EscapedParts(t, C)) = Len(t)
        /\ \A k \in 1 .. Len(t) : EscapedParts(t, C)[k] = EscapedOne(t[k], C)
    BY EscapedIs
  <2>2. \A k \in 1 .. Len(t) : t[k] \in Character
    OBVIOUS
  <2>3. \A k \in 1 .. Len(EscapedParts(t, C)) : Leads(EscapedParts(t, C)[k], a, a)
    BY <1>4, <2>1, <2>2
  <2>4. Leads(FlattenSeq(EscapedParts(t, C)), a, a)
    BY <2>1, <2>3, LeadsFlat
  <2> QED BY <2>1, <2>4
<1>5. ASSUME NEW c \in Character, NEW a \in QuotingState, NEW b \in QuotingState,
             a # "none" \/ Backslash # Hash, QuoteAfter(a, Backslash) = b, b # "none", QuoteAfter(b, c) = a
      PROVE  Leads(<<Backslash, c>>, a, a)
  <2> DEFINE x == <<Backslash>>
             y == <<c>>
  <2>1. Leads(x, a, b)
    BY <1>5, <1>c, LeadsOne
  <2>2. Leads(y, b, a)
    BY <1>5, LeadsOne
  <2>3. x \in Seq(Character) /\ y \in Seq(Character) /\ <<Backslash, c>> = x \o y
    BY <1>c
  <2> HIDE DEF x, y
  <2>4. Leads(x \o y, a, a)
    BY <2>1, <2>2, <2>3, LeadsJoin
  <2> QED BY <2>3, <2>4
<1>6. Leads(X, "none", "none")
  <2>1. CASE style = "single"
    <3>1. X = Quoted(t, Apostrophe) /\ Apostrophe \notin Chars(t)
      BY <1>1, <2>1 DEF StyleOK
    <3>2. \A i \in 1 .. Len(t) : t[i] # Apostrophe
      BY <3>1 DEF Chars
    <3>3. \A i \in 1 .. Len(t) : QuoteAfter("single", t[i]) = "single" /\ (t[i] = Hash => "single" # "none")
      BY <3>2 DEF QuoteAfter
    <3>4. Leads(t, "single", "single")
      BY <1>q, <3>3, LeadsStill
    <3>5. QuoteAfter("none", Apostrophe) = "single" /\ QuoteAfter("single", Apostrophe) = "none"
      BY DEF QuoteAfter
    <3> QED BY <1>3, <1>c, <1>q, <3>1, <3>4, <3>5
  <2>2. CASE style = "double"
    <3> DEFINE C == {DoubleQuote, Backslash}
    <3>1. X = Quoted(Escaped(t, C), DoubleQuote)
      BY <1>1, <2>2
    <3>2. ASSUME NEW c \in Character
          PROVE  Leads(EscapedOne(c, C), "double", "double")
      <4>1. CASE c \in C
        <5>1. EscapedOne(c, C) = <<Backslash, c>>
          BY <4>1 DEF EscapedOne
        <5>2. QuoteAfter("double", Backslash) = "skipdouble" /\ QuoteAfter("skipdouble", c) = "double"
          BY <1>c DEF QuoteAfter
        <5>3. Leads(<<Backslash, c>>, "double", "double")
          BY <1>5, <1>c, <1>q, <5>2
        <5> QED BY <5>1, <5>3
      <4>2. CASE c \notin C
        <5>1. EscapedOne(c, C) = <<c>>
          BY <4>2 DEF EscapedOne
        <5>2. QuoteAfter("double", c) = "double" /\ (c = Hash => "double" # "none")
          BY <4>2 DEF QuoteAfter
        <5>3. Leads(<<c>>, "double", "double")
          BY <1>q, <5>2, LeadsOne
        <5> QED BY <5>1, <5>3
      <4> QED BY <4>1, <4>2
    <3>3. Leads(Escaped(t, C), "double", "double")
      <4> HIDE DEF C
      <4> QED BY <1>4, <1>q, <3>2
    <3>4. Escaped(t, C) \in Seq(Character)
      BY EscapedIs
    <3>5. QuoteAfter("none", DoubleQuote) = "double" /\ QuoteAfter("double", DoubleQuote) = "none"
      BY <1>c DEF QuoteAfter
    <3> HIDE DEF C
    <3> QED BY <1>3, <1>c, <1>q, <3>1, <3>3, <3>4, <3>5
  <2>3. CASE style = "bare"
    <3>1. X = Escaped(t, Quoting)
      BY <1>1, <2>3
    <3>2. ASSUME NEW c \in Character
          PROVE  Leads(EscapedOne(c, Quoting), "none", "none")
      <4>1. CASE c \in Quoting
        <5>1. EscapedOne(c, Quoting) = <<Backslash, c>>
          BY <4>1 DEF EscapedOne
        <5>2. QuoteAfter("none", Backslash) = "skip" /\ QuoteAfter("skip", c) = "none"
          BY <1>c DEF QuoteAfter
        <5>3. Leads(<<Backslash, c>>, "none", "none")
          BY <1>5, <1>c, <1>q, <5>2
        <5> QED BY <5>1, <5>3
      <4>2. CASE c \notin Quoting
        <5>1. EscapedOne(c, Quoting) = <<c>>
          BY <4>2 DEF EscapedOne
        <5>2. QuoteAfter("none", c) = "none" /\ c # Hash
          BY <1>c, <4>2 DEF QuoteAfter
        <5>3. Leads(<<c>>, "none", "none")
          BY <1>q, <5>2, LeadsOne
        <5> QED BY <5>1, <5>3
      <4> QED BY <4>1, <4>2
    <3> QED BY <1>4, <1>q, <3>1, <3>2
  <2> QED BY <1>s, <2>1, <2>2, <2>3
<1>7. Leads(<<Space>>, "none", "none")
  <2>1. QuoteAfter("none", Space) = "none"
    BY <1>c DEF QuoteAfter
  <2> QED BY <1>c, <1>q, <2>1, LeadsOne
<1>8. <<Space>> \in Seq(Character)
  BY <1>c
<1>9. Leads(X \o <<Space>>, "none", "none")
  BY <1>2, <1>6, <1>7, <1>8, LeadsJoin
<1> QED BY <1>9 DEF Spaced, X

LEMMA PlainLeads ==
    ASSUME NEW t \in Seq(Character), \A i \in 1 .. Len(t) : t[i] \in {Lt, Gt, Two, Amp, Pipe, Space}
    PROVE  Leads(Spaced(t), "none", "none")
<1>c. \A c \in {Lt, Gt, Two, Amp, Pipe, Space} : c \notin {Apostrophe, DoubleQuote, Backslash, Hash}
  BY SignsDiffer
<1>q. "none" \in QuotingState
  BY DEF QuotingState
<1>1. \A c \in {Lt, Gt, Two, Amp, Pipe, Space} : QuoteAfter("none", c) = "none" /\ c # Hash
  BY <1>c DEF QuoteAfter
<1>2. Leads(t, "none", "none")
  BY <1>1, <1>q, LeadsStill
<1>3. Leads(<<Space>>, "none", "none") /\ <<Space>> \in Seq(Character)
  <2>1. Space \in Character
    BY SignsAreCharacters DEF Signed, Quoting
  <2> QED BY <1>1, <1>q, <2>1, LeadsOne
<1>4. Leads(t \o <<Space>>, "none", "none")
  BY <1>2, <1>3, LeadsJoin
<1> QED BY <1>4 DEF Spaced

LEMMA CommandLeads ==
    ASSUME NEW c, CommandFacts(c), PartsFacts(c)
    PROVE  Leads(CommandText(c), "none", "none")
<1>q. "none" \in QuotingState
  BY DEF QuotingState
<1>e. <<>> \in Seq(Character) /\ Leads(<<>>, "none", "none")
  <2> DEFINE e == <<>>
  <2>1. e \in Seq(Character) /\ \A i \in 1 .. Len(e) : FALSE
    OBVIOUS
  <2> HIDE DEF e
  <2>2. Leads(e, "none", "none")
    BY <1>q, <2>1, LeadsStill
  <2> QED BY <2>1, <2>2 DEF e
<1>1. \A k \in 1 .. Len(c.words) : Leads(WordText(c.words[k]), "none", "none")
  <2> SUFFICES ASSUME NEW k \in 1 .. Len(c.words)
               PROVE  Leads(WordText(c.words[k]), "none", "none")
    OBVIOUS
  <2> DEFINE w == c.words[k]
  <2>1. WordFacts(w)
    BY DEF CommandFacts
  <2> HIDE DEF w
  <2>2. Leads(Spaced(Styled(w.style, WordRaw(w))), "none", "none")
    BY <2>1, StyledLeads DEF WordFacts
  <2> QED BY <2>2 DEF WordText, w
<1>2. \A k \in 1 .. Len(c.files) : Leads(FileText(c.files[k]), "none", "none")
  <2> SUFFICES ASSUME NEW k \in 1 .. Len(c.files)
               PROVE  Leads(FileText(c.files[k]), "none", "none")
    OBVIOUS
  <2> DEFINE x == c.files[k]
             X == Spaced(Styled(x.style, x.name))
             Y == Spaced(x.op)
  <2>1. FileFacts(x)
    BY DEF CommandFacts
  <2> HIDE DEF x
  <2>2. Leads(X, "none", "none") /\ Styled(x.style, x.name) \in Seq(Character)
    BY <2>1, StyledLeads, StyledReads DEF FileFacts
  <2>3. x.op \in Seq(Character) /\ \A i \in 1 .. Len(x.op) : x.op[i] \in {Lt, Gt, Two, Amp, Pipe, Space}
    BY <2>1, OpIs DEF FileFacts
  <2>4. Leads(Y, "none", "none")
    BY <2>3, PlainLeads
  <2>5. X \in Seq(Character) /\ Y \in Seq(Character)
    BY <1>e, <2>2, <2>3, SpacedIs
  <2> HIDE DEF X, Y
  <2>6. Leads(Y \o X, "none", "none")
    BY <2>2, <2>4, <2>5, LeadsJoin
  <2> QED BY <2>6 DEF FileText, X, Y, x
<1>3. Leads(Mark(c), "none", "none")
  <2>1. <<Amp>> \in Seq(Character) /\ \A i \in 1 .. Len(<<Amp>>) : <<Amp>>[i] \in {Lt, Gt, Two, Amp, Pipe, Space}
    BY SignsAreCharacters DEF Signed, Quoting, Special
  <2>2. Leads(Spaced(<<Amp>>), "none", "none")
    BY <2>1, PlainLeads
  <2> QED BY <1>e, <2>2 DEF Mark
<1> DEFINE X == FlattenSeq(WordTexts(c))
           Y == FlattenSeq(FileTexts(c))
           Z == Mark(c)
<1>4. Leads(X, "none", "none")
  <2>1. \A k \in 1 .. Len(WordTexts(c)) : Leads(WordTexts(c)[k], "none", "none")
    BY <1>1 DEF PartsFacts
  <2>2. WordTexts(c) \in Seq(Seq(Character))
    BY DEF PartsFacts
  <2> QED BY <1>q, <2>1, <2>2, LeadsFlat
<1>5. Leads(Y, "none", "none")
  <2>1. \A k \in 1 .. Len(FileTexts(c)) : Leads(FileTexts(c)[k], "none", "none")
    BY <1>2 DEF PartsFacts
  <2>2. FileTexts(c) \in Seq(Seq(Character))
    BY DEF PartsFacts
  <2> QED BY <1>q, <2>1, <2>2, LeadsFlat
<1>6. X \in Seq(Character) /\ Y \in Seq(Character) /\ Z \in Seq(Character) /\ CommandText(c) = X \o Y \o Z
  BY DEF PartsFacts
<1> HIDE DEF X, Y
<1>7. Leads(X \o Y, "none", "none") /\ X \o Y \in Seq(Character)
  BY <1>4, <1>5, <1>6, LeadsJoin
<1> HIDE DEF Z
<1>8. Leads(X \o Y \o Z, "none", "none")
  <2>1. Leads(Z, "none", "none")
    BY <1>3 DEF Z
  <2> QED BY <1>6, <1>7, <2>1, LeadsJoin
<1> QED BY <1>6, <1>8

(* A line that is meant loses nothing to comments.                         *)
LEMMA LineStaysWhole ==
    ASSUME NEW p, PipelineFacts(p)
    PROVE  Stripped(LineOf(p)) = LineOf(p)
<1> DEFINE U == LineParts(p)
<1>q. "none" \in QuotingState
  BY DEF QuotingState
<1>1. U \in Seq(Seq(Character)) /\ Len(U) = Len(p) /\ LineOf(p) = FlattenSeq(U) /\ LineOf(p) \in Seq(Character)
  BY DEF PipelineFacts
<1>2. \A i : Leads(Before(i), "none", "none")
  <2>1. <<Pipe>> \in Seq(Character) /\ \A i \in 1 .. Len(<<Pipe>>) : <<Pipe>>[i] \in {Lt, Gt, Two, Amp, Pipe, Space}
    BY SignsAreCharacters DEF Signed, Quoting, Special
  <2>2. Leads(Spaced(<<Pipe>>), "none", "none")
    BY <2>1, PlainLeads
  <2> DEFINE e == <<>>
  <2>3. e \in Seq(Character) /\ \A i \in 1 .. Len(e) : FALSE
    OBVIOUS
  <2> HIDE DEF e
  <2>4. Leads(e, "none", "none")
    BY <1>q, <2>3, LeadsStill
  <2> QED BY <2>2, <2>4 DEF Before, e
<1>3. \A i \in 1 .. Len(U) : Leads(U[i], "none", "none")
  <2> SUFFICES ASSUME NEW i \in 1 .. Len(U)
               PROVE  Leads(U[i], "none", "none")
    OBVIOUS
  <2> DEFINE x == Before(i)
             y == CommandText(p[i])
  <2>1. U[i] = x \o y /\ x \in Seq(Character) /\ CommandFacts(p[i]) /\ PartsFacts(p[i])
    BY <1>1 DEF PipelineFacts
  <2>2. y \in Seq(Character) /\ Leads(y, "none", "none") /\ Leads(x, "none", "none")
    BY <1>2, <2>1, CommandLeads DEF PartsFacts
  <2> HIDE DEF x, y, U
  <2>3. Leads(x \o y, "none", "none")
    BY <2>1, <2>2, LeadsJoin
  <2> QED BY <2>1, <2>3
<1>4. Leads(FlattenSeq(U), "none", "none")
  <2> HIDE DEF U
  <2> QED BY <1>1, <1>3, <1>q, LeadsFlat
<1> QED BY <1>1, <1>4, StripsNothing

(***************************************************************************)
(* What the operators return for any text, and the types of the state.     *)
(***************************************************************************)
LEMMA PartIs ==
    ASSUME NEW s \in Seq(Character), NEW m \in Nat \ {0}, NEW n \in Nat, n <= Len(s)
    PROVE  SubSeq(s, m, n) \in Seq(Character)
OBVIOUS

LEMMA TakenReturns ==
    ASSUME NEW s \in Seq(Character), NEW ends
    PROVE  Taken(s, ends) \in Tokens
<1>1. Takes(s, ends) \in [1 .. (Len(s) + 1) -> Tokens]
  BY TakesGoesOn
<1>2. 1 \in 1 .. (Len(s) + 1)
  OBVIOUS
<1> QED BY <1>1, <1>2, TakenIsTakes

LEMMA ExpandedReturns ==
    ASSUME NEW t \in Seq(Character)
    PROVE  Expanded(t) \in Seq(Character) /\ Tilde(t) \in Seq(Character)
<1>1. Expands(t) \in [1 .. (Len(t) + 1) -> Seq(Character)]
  BY ExpandsGoesOn
<1>2. 1 \in 1 .. (Len(t) + 1)
  OBVIOUS
<1>3. Expanded(t) \in Seq(Character)
  BY <1>1, <1>2, ExpandedIsExpands
<1>4. AtHome(t) => Home \o Tail(t) \in Seq(Character)
  <2>1. Home \in Seq(Character)
    BY ParserAssumption
  <2>2. t # <<>> => Tail(t) \in Seq(Character)
    OBVIOUS
  <2> QED BY <2>1, <2>2 DEF AtHome
<1> QED BY <1>3, <1>4 DEF Tilde

LEMMA SkippedReturns ==
    ASSUME NEW s \in Seq(Character)
    PROVE  Skipped(s) \in Seq(Character)
<1> DEFINE e == EndOf(s, 1, {Space})
<1>1. e \in 1 .. (Len(s) + 1) /\ Len(s) \in Nat
  <2>1. 1 \in 1 .. (Len(s) + 1)
    OBVIOUS
  <2> QED BY <2>1, EndOfIs DEF EndsAt
<1> HIDE DEF e
<1>2. SubSeq(s, e, Len(s)) \in Seq(Character)
  BY <1>1, PartIs
<1> QED BY <1>2 DEF Skipped, e

LEMMA StrippedReturns ==
    ASSUME NEW s \in Seq(Character)
    PROVE  Stripped(s) \in Seq(Character)
<1> DEFINE place == {i \in DOMAIN s : s[i] = Hash /\ QuotesIn(s)[i - 1] = "none"}
           i0 == CHOOSE i \in place : \A j \in place : i <= j
<1>1. place \subseteq Nat /\ \A i \in place : i \in 1 .. Len(s)
  OBVIOUS
<1>2. Stripped(s) = IF place = {} THEN s ELSE SubSeq(s, 1, i0 - 1)
  BY DEF Stripped
<1>3. CASE place # {}
  <2>1. \E i \in place : \A j \in place : i <= j
    <3> HIDE DEF place
    <3> QED BY <1>1, <1>3, LeastIs
  <2>2. i0 \in place
    <3> HIDE DEF place
    <3> QED BY <2>1
  <2> HIDE DEF i0, place
  <2>3. i0 - 1 \in Nat /\ i0 - 1 <= Len(s)
    BY <1>1, <2>2
  <2>4. SubSeq(s, 1, i0 - 1) \in Seq(Character)
    BY <2>3, PartIs
  <2> QED BY <1>2, <1>3, <2>4
<1> QED BY <1>2, <1>3

LEMMA TokenReturns ==
    ASSUME NEW s \in Seq(Character), s # <<>>
    PROVE  Token(s) \in Tokens
<1>0. Len(s) \in Nat \ {0} /\ Tail(s) \in Seq(Character)
  BY EmptySeq
<1>1. CASE s[1] = Apostrophe
  <2> DEFINE e == EndOf(s, 2, Character \ {Apostrophe})
  <2>1. e \in 2 .. (Len(s) + 1)
    <3>1. 2 \in 1 .. (Len(s) + 1)
      BY <1>0
    <3> QED BY <3>1, EndOfIs DEF EndsAt
  <2>2. Token(s) = [text |-> SubSeq(s, 2, e - 1), rest |-> SubSeq(s, e + 1, Len(s))]
    BY <1>1, SignsDiffer DEF Token
  <2> HIDE DEF e
  <2>3. e - 1 \in Nat /\ e - 1 <= Len(s) /\ e + 1 \in Nat \ {0} /\ Len(s) <= Len(s)
    BY <1>0, <2>1
  <2>4. SubSeq(s, 2, e - 1) \in Seq(Character) /\ SubSeq(s, e + 1, Len(s)) \in Seq(Character)
    BY <1>0, <2>3, PartIs
  <2> QED BY <2>2, <2>4 DEF Tokens
<1>2. ASSUME NEW x \in Tokens
      PROVE  /\ x.text \in Seq(Character) /\ x.rest \in Seq(Character)
             /\ SubSeq(x.rest, 2, Len(x.rest)) \in Seq(Character)
             /\ x.text \o x.rest \in Seq(Character)
  <2>1. x.text \in Seq(Character) /\ x.rest \in Seq(Character)
    BY DEF Tokens
  <2>2. Len(x.rest) \in Nat /\ Len(x.rest) <= Len(x.rest)
    BY <2>1
  <2>3. SubSeq(x.rest, 2, Len(x.rest)) \in Seq(Character)
    BY <2>1, <2>2, PartIs
  <2> QED BY <2>1, <2>3
<1>3. CASE s[1] = DoubleQuote
  <2> DEFINE x == Taken(Tail(s), {DoubleQuote})
  <2>1. x \in Tokens
    BY <1>0, TakenReturns
  <2>2. Token(s) = [text |-> x.text, rest |-> SubSeq(x.rest, 2, Len(x.rest))]
    <3>1. s[1] # Apostrophe
      BY <1>3, SignsDiffer
    <3> QED BY <1>3, <3>1 DEF Token
  <2> HIDE DEF x
  <2> QED BY <1>2, <2>1, <2>2 DEF Tokens
<1>4. CASE s[1] # Apostrophe /\ s[1] # DoubleQuote
  <2> DEFINE x == Taken(s, Special \cup {Space})
  <2>1. x \in Tokens
    BY TakenReturns
  <2>2. Token(s) = IF x.rest # <<>> /\ x.rest[1] # Space
                     THEN [text |-> x.text \o x.rest, rest |-> x.rest]
                     ELSE [text |-> x.text, rest |-> SubSeq(x.rest, 2, Len(x.rest))]
    BY <1>4 DEF Token
  <2> HIDE DEF x
  <2> QED BY <1>2, <2>1, <2>2 DEF Tokens
<1> QED BY <1>1, <1>3, <1>4

LEMMA OperatorReturns ==
    ASSUME NEW s
    PROVE  Operator(s) \in {<<>>} \cup InOps \cup OutOps \cup ErrOps
<1>1. CASE s = <<>>
  BY <1>1 DEF Operator
<1>2. CASE s # <<>> /\ s[1] = Lt
  BY <1>2, SignsDiffer DEF Operator, InOps
<1>3. CASE s # <<>> /\ s[1] = Gt
  BY <1>3, SignsDiffer DEF Operator, OutOps
<1>4. CASE s # <<>> /\ s[1] \notin {Lt, Gt}
  BY <1>4 DEF Operator, ErrOps
<1> QED BY <1>1, <1>2, <1>3, <1>4

Redirect(ops) == {<<>>} \cup (ops \X Seq(Character))
Redirects     == [in : Redirect(InOps), out : Redirect(OutOps), err : Redirect(ErrOps)]
CommandRead       == [argv : Seq(Seq(Character)), redir : Redirects, background : BOOLEAN, open : BOOLEAN]

ParserTypes ==
    /\ pos \in Seq(Character) /\ parsed \in BOOLEAN
    /\ cmd \in CommandRead /\ (~cmd.open => cmd = NoCmd)
    /\ cmds \in Seq(CommandRead) /\ \A i \in 1 .. Len(cmds) : cmds[i].argv # <<>> /\ ~cmds[i].open
    /\ Len(cmds) <= MaxPipes /\ (cmd.open => Len(cmds) < MaxPipes)

LEMMA NoCmdIs == NoCmd \in CommandRead /\ ~NoCmd.open /\ NoCmd.argv = <<>>
<1>1. <<>> \in Seq(Seq(Character)) /\ \A ops : <<>> \in Redirect(ops)
  BY DEF Redirect
<1>2. NoRedir \in Redirects
  BY <1>1 DEF NoRedir, Redirects
<1> QED BY <1>1, <1>2 DEF NoCmd, CommandRead

LEMMA ParserInitTypes == ParserInit => ParserTypes
<1> SUFFICES ASSUME ParserInit
             PROVE  ParserTypes
  OBVIOUS
<1>1. pos \in Seq(Character)
  <2>1. ASSUME NEW p \in Meant, pos = Stripped(LineOf(p))
        PROVE  pos \in Seq(Character)
    BY <2>1, PipelineIs, StrippedReturns DEF PipelineFacts
  <2>2. ASSUME NEW l \in RawLines, pos = Stripped(l)
        PROVE  pos \in Seq(Character)
    <3>1. l \in Seq(Character)
      BY ParserAssumption
    <3> QED BY <2>2, <3>1, StrippedReturns
  <2> QED BY <2>1, <2>2 DEF ParserInit
<1>2. cmd = NoCmd /\ cmds = <<>> /\ parsed = FALSE
  BY DEF ParserInit
<1>3. MaxPipes \in Nat \ {0}
  BY ParserAssumption
<1>4. cmds \in Seq(CommandRead) /\ Len(cmds) = 0
  <2> HIDE DEF CommandRead
  <2> QED BY <1>2
<1>5. \A i \in 1 .. Len(cmds) : FALSE
  BY <1>4
<1>6. parsed \in BOOLEAN /\ cmd \in CommandRead /\ ~cmd.open /\ Len(cmds) <= MaxPipes
  <2>1. cmd \in CommandRead /\ ~cmd.open
    <3> HIDE DEF CommandRead
    <3> QED BY <1>2, NoCmdIs
  <2>2. Len(cmds) <= MaxPipes
    BY <1>3, <1>4
  <2> QED BY <1>2, <2>1, <2>2
<1> QED BY <1>1, <1>2, <1>4, <1>5, <1>6 DEF ParserTypes

LEMMA ParserStepTypes == ParserTypes /\ [ParserNext]_parserVars => ParserTypes'
<1> SUFFICES ASSUME ParserTypes, [ParserNext]_parserVars
             PROVE  ParserTypes'
  OBVIOUS
<1>t. /\ pos \in Seq(Character) /\ parsed \in BOOLEAN
      /\ cmd \in CommandRead /\ (~cmd.open => cmd = NoCmd)
      /\ cmds \in Seq(CommandRead) /\ (\A i \in 1 .. Len(cmds) : cmds[i].argv # <<>> /\ ~cmds[i].open)
      /\ Len(cmds) <= MaxPipes /\ (cmd.open => Len(cmds) < MaxPipes)
  BY DEF ParserTypes
<1>m. MaxPipes \in Nat \ {0} /\ Len(cmds) \in Nat
  <2> HIDE DEF CommandRead
  <2> QED BY <1>t, ParserAssumption
<1>s. Skipped(pos) \in Seq(Character)
  BY <1>t, SkippedReturns
<1>1. CASE BeginCommand
  <2>1. UNCHANGED <<pos, cmds>> /\ parsed' \in BOOLEAN /\ ~cmd.open
    BY <1>1, <1>t DEF BeginCommand
  <2>2. cmd' = NoCmd \/ (cmd' = [NoCmd EXCEPT !.open = TRUE] /\ Len(cmds) < MaxPipes)
    BY <1>1, <1>t DEF BeginCommand
  <2>3. [NoCmd EXCEPT !.open = TRUE] \in CommandRead /\ [NoCmd EXCEPT !.open = TRUE].open
    BY NoCmdIs DEF CommandRead
  <2>4. cmd' \in CommandRead /\ (~cmd'.open => cmd' = NoCmd) /\ (cmd'.open => Len(cmds) < MaxPipes)
    BY <2>2, <2>3, NoCmdIs
  <2> QED BY <1>t, <2>1, <2>4 DEF ParserTypes
<1>2. CASE EndCommand
  <2> DEFINE s == Skipped(pos)
             c == [cmd EXCEPT !.open = FALSE]
  <2>1. /\ cmd.open /\ cmd' = NoCmd /\ parsed' = parsed
        /\ pos' = (IF s = <<>> THEN s ELSE Tail(s))
        /\ cmds' = (IF cmd.argv = <<>> THEN cmds ELSE Append(cmds, c))
    BY <1>2 DEF EndCommand, Here, Reading
  <2>2. c \in CommandRead /\ c.argv = cmd.argv /\ ~c.open
    BY <1>t DEF CommandRead
  <2> HIDE DEF s, c
  <2>3. pos' \in Seq(Character)
    <3>1. s \in Seq(Character)
      BY <1>s DEF s
    <3>2. s # <<>> => Tail(s) \in Seq(Character)
      BY <3>1
    <3> QED BY <2>1, <3>1, <3>2
  <2>4. CASE cmd.argv = <<>>
    <3>1. cmds' = cmds
      BY <2>1, <2>4
    <3> QED BY <1>t, <2>1, <2>3, <3>1, NoCmdIs DEF ParserTypes
  <2>5. CASE cmd.argv # <<>>
    <3>1. cmds' = Append(cmds, c)
      BY <2>1, <2>5
    <3>2. /\ Append(cmds, c) \in Seq(CommandRead) /\ Len(Append(cmds, c)) = Len(cmds) + 1
          /\ (\A i \in 1 .. Len(cmds) : Append(cmds, c)[i] = cmds[i]) /\ Append(cmds, c)[Len(cmds) + 1] = c
      <4> HIDE DEF CommandRead
      <4> QED BY <1>t, <2>2
    <3>3. Len(cmds') <= MaxPipes
      BY <1>m, <1>t, <2>1, <3>1, <3>2
    <3>4. \A i \in 1 .. Len(cmds') : cmds'[i].argv # <<>> /\ ~cmds'[i].open
      <4> SUFFICES ASSUME NEW i \in 1 .. Len(cmds')
                   PROVE  cmds'[i].argv # <<>> /\ ~cmds'[i].open
        OBVIOUS
      <4>1. i \in 1 .. Len(cmds) \/ i = Len(cmds) + 1
        BY <1>m, <3>1, <3>2
      <4>2. CASE i \in 1 .. Len(cmds)
        BY <1>t, <3>1, <3>2, <4>2
      <4>3. CASE i = Len(cmds) + 1
        BY <2>2, <2>5, <3>1, <3>2, <4>3
      <4> QED BY <4>1, <4>2, <4>3
    <3> QED BY <1>t, <2>1, <2>3, <3>1, <3>2, <3>3, <3>4, NoCmdIs DEF ParserTypes
  <2> QED BY <2>4, <2>5
<1>3. CASE Ampersand
  <2> DEFINE s == Skipped(pos)
  <2>1. cmd.open /\ s # <<>> /\ pos' = Tail(s) /\ cmd' = [cmd EXCEPT !.background = TRUE] /\ UNCHANGED <<cmds, parsed>>
    BY <1>3 DEF Ampersand, Here, Reading
  <2>2. Tail(s) \in Seq(Character)
    <3> HIDE DEF s
    <3>1. s \in Seq(Character)
      BY <1>s DEF s
    <3> QED BY <2>1, <3>1
  <2>3. [cmd EXCEPT !.background = TRUE] \in CommandRead /\ [cmd EXCEPT !.background = TRUE].open
    BY <1>t, <2>1 DEF CommandRead
  <2> QED BY <1>t, <2>1, <2>2, <2>3 DEF ParserTypes
<1>4. CASE Redirection
  <2> DEFINE s == Skipped(pos)
             op == Operator(s)
             after == Skipped(SubSeq(s, Len(op) + 1, Len(s)))
             tok == TokenOf(after)
  <2>1. /\ cmd.open /\ op # <<>> /\ pos' = tok.rest /\ UNCHANGED <<cmds, parsed>>
        /\ cmd' = CASE op \in ErrOps -> [cmd EXCEPT !.redir.err = <<op, tok.text>>]
                    [] op \in InOps  -> [cmd EXCEPT !.redir.in = <<op, tok.text>>]
                    [] op \in OutOps -> [cmd EXCEPT !.redir.out = <<op, tok.text>>]
    BY <1>4 DEF Redirection, Here, Reading
  <2>2. op \in InOps \cup OutOps \cup ErrOps
    BY <2>1, OperatorReturns
  <2>3. tok \in Tokens
    <3> HIDE DEF s, op
    <3>1. s \in Seq(Character) /\ op \in Seq(Character)
      BY <1>s, <2>2, OpIs DEF s
    <3>2. Len(op) + 1 \in Nat \ {0} /\ Len(s) \in Nat /\ Len(s) <= Len(s)
      BY <3>1
    <3>3. SubSeq(s, Len(op) + 1, Len(s)) \in Seq(Character)
      BY <3>1, <3>2, PartIs
    <3>4. after \in Seq(Character)
      BY <3>3, SkippedReturns
    <3>5. after # <<>> => Token(after) \in Tokens
      <4> HIDE DEF after
      <4> QED BY <3>4, TokenReturns
    <3>6. [text |-> <<>>, rest |-> <<>>] \in Tokens
      BY DEF Tokens
    <3> QED BY <3>5, <3>6 DEF TokenOf
  <2> HIDE DEF op, tok, after, s
  <2>4. tok.text \in Seq(Character) /\ tok.rest \in Seq(Character)
    BY <2>3 DEF Tokens
  <2> DEFINE V == Seq(Seq(Character))
             x == tok.text
  <2>5. cmd.redir \in Redirects /\ cmd \in [argv : V, redir : Redirects, background : BOOLEAN, open : BOOLEAN]
    BY <1>t DEF CommandRead
  <2> HIDE DEF V, x
  <2>x. x \in Seq(Character)
    BY <2>4 DEF x
  <2>6. ASSUME NEW r \in Redirects
        PROVE  [cmd EXCEPT !.redir = r] \in [argv : V, redir : Redirects, background : BOOLEAN, open : BOOLEAN]
               /\ [cmd EXCEPT !.redir = r].open = cmd.open
    BY <2>5
  <2>7. ASSUME op \in ErrOps
        PROVE  [cmd.redir EXCEPT !.err = <<op, x>>] \in Redirects
    <3>1. <<op, x>> \in Redirect(ErrOps)
      BY <2>x, <2>7 DEF Redirect
    <3> QED BY <2>5, <3>1 DEF Redirects
  <2>8. ASSUME op \in InOps
        PROVE  [cmd.redir EXCEPT !.in = <<op, x>>] \in Redirects
    <3>1. <<op, x>> \in Redirect(InOps)
      BY <2>x, <2>8 DEF Redirect
    <3> QED BY <2>5, <3>1 DEF Redirects
  <2>9. ASSUME op \in OutOps
        PROVE  [cmd.redir EXCEPT !.out = <<op, x>>] \in Redirects
    <3>1. <<op, x>> \in Redirect(OutOps)
      BY <2>x, <2>9 DEF Redirect
    <3> QED BY <2>5, <3>1 DEF Redirects
  <2>d. op \in ErrOps => op \notin InOps /\ op \notin OutOps
    BY SignsDiffer DEF InOps, OutOps, ErrOps
  <2>10. \E r \in Redirects : cmd' = [cmd EXCEPT !.redir = r]
    <3>1. CASE op \in ErrOps
      <4>1. cmd' = [cmd EXCEPT !.redir.err = <<op, x>>]
        BY <2>1, <2>d, <3>1 DEF x
      <4>2. cmd' = [cmd EXCEPT !.redir = [cmd.redir EXCEPT !.err = <<op, x>>]]
        BY <2>5, <4>1
      <4> QED BY <2>7, <3>1, <4>2
    <3>2. CASE op \notin ErrOps /\ op \in InOps
      <4>1. cmd' = [cmd EXCEPT !.redir.in = <<op, x>>]
        <5>1. op \notin OutOps
          BY <3>2, SignsDiffer DEF InOps, OutOps
        <5> QED BY <2>1, <3>2, <5>1 DEF x
      <4>2. cmd' = [cmd EXCEPT !.redir = [cmd.redir EXCEPT !.in = <<op, x>>]]
        BY <2>5, <4>1
      <4> QED BY <2>8, <3>2, <4>2
    <3>3. CASE op \notin ErrOps /\ op \notin InOps
      <4>1. op \in OutOps
        BY <2>2, <3>3
      <4>2. cmd' = [cmd EXCEPT !.redir.out = <<op, x>>]
        BY <2>1, <3>3, <4>1 DEF x
      <4>3. cmd' = [cmd EXCEPT !.redir = [cmd.redir EXCEPT !.out = <<op, x>>]]
        BY <2>5, <4>2
      <4> QED BY <2>9, <4>1, <4>3
    <3> QED BY <3>1, <3>2, <3>3
  <2>11. cmd' \in CommandRead /\ cmd'.open
    BY <2>1, <2>6, <2>10 DEF CommandRead, V
  <2> QED BY <1>t, <2>1, <2>4, <2>11 DEF ParserTypes
<1>5. CASE Argument
  <2> DEFINE s == Skipped(pos)
             tok == Token(s)
             x == Expanded(Tilde(tok.text))
  <2>1. cmd.open /\ s # <<>> /\ pos' = tok.rest /\ cmd' = [cmd EXCEPT !.argv = Append(@, x)] /\ UNCHANGED <<cmds, parsed>>
    BY <1>5 DEF Argument, Here, Reading
  <2>2. tok \in Tokens
    <3> HIDE DEF s
    <3>1. s \in Seq(Character)
      BY <1>s DEF s
    <3> QED BY <2>1, <3>1, TokenReturns
  <2> HIDE DEF tok
  <2>3. tok.text \in Seq(Character) /\ tok.rest \in Seq(Character)
    BY <2>2 DEF Tokens
  <2>4. x \in Seq(Character)
    BY <2>3, ExpandedReturns
  <2> HIDE DEF x
  <2> DEFINE A == Seq(Character)
             V == Seq(A)
  <2>5. cmd \in [argv : V, redir : Redirects, background : BOOLEAN, open : BOOLEAN]
    BY <1>t DEF CommandRead
  <2>6. Append(cmd.argv, x) \in V
    <3>1. cmd.argv \in V /\ x \in A
      BY <2>4, <2>5
    <3> HIDE DEF A
    <3> QED BY <3>1
  <2> HIDE DEF V
  <2>7. cmd' \in [argv : V, redir : Redirects, background : BOOLEAN, open : BOOLEAN] /\ cmd'.open
    BY <2>1, <2>5, <2>6
  <2>8. cmd' \in CommandRead
    BY <2>7 DEF CommandRead, V
  <2> QED BY <1>t, <2>1, <2>3, <2>7, <2>8 DEF ParserTypes
<1>6. CASE UNCHANGED parserVars
  BY <1>6 DEF ParserTypes, parserVars
<1> QED BY <1>1, <1>2, <1>3, <1>4, <1>5, <1>6 DEF ParserNext

(***************************************************************************)
(* What is read of a command, and what is left of its text.                *)
(***************************************************************************)
FileUpTo(files, f, ops) ==
    LET of == {i \in 1 .. f : files[i].op \in ops}
        i  == CHOOSE i \in of : \A j \in of : j <= i
    IN  IF of = {} THEN <<>> ELSE <<files[i].op, files[i].name>>

LEMMA FileStep ==
    ASSUME NEW files, NEW ops, NEW f \in Nat \ {0}
    PROVE  FileUpTo(files, f, ops) = IF files[f].op \in ops THEN <<files[f].op, files[f].name>>
                                     ELSE FileUpTo(files, f - 1, ops)
<1> DEFINE of == {i \in 1 .. f : files[i].op \in ops}
           last == CHOOSE i \in of : \A j \in of : j <= i
<1>1. FileUpTo(files, f, ops) = IF of = {} THEN <<>> ELSE <<files[last].op, files[last].name>>
  BY DEF FileUpTo
<1>2. CASE files[f].op \in ops
  <2>1. f \in of /\ \A j \in of : j <= f /\ j \in Nat
    BY <1>2
  <2>2. last \in of /\ \A j \in of : j <= last
    <3> HIDE DEF of
    <3> QED BY <2>1
  <2>3. last = f
    <3> HIDE DEF of, last
    <3> QED BY <2>1, <2>2
  <2> QED BY <1>1, <1>2, <2>1, <2>3
<1>3. CASE files[f].op \notin ops
  <2>1. of = {i \in 1 .. (f - 1) : files[i].op \in ops}
    <3>1. \A i \in 1 .. f : i \in 1 .. (f - 1) \/ i = f
      OBVIOUS
    <3>2. \A i \in 1 .. (f - 1) : i \in 1 .. f
      OBVIOUS
    <3> QED BY <1>3, <3>1, <3>2
  <2> HIDE DEF of
  <2> QED BY <1>1, <1>3, <2>1 DEF FileUpTo
<1> QED BY <1>2, <1>3

(* A command as a record, and what a step writes into it; the two values   *)
(* of a flag under names that the provers take for terms.                  *)
Yes == TRUE
No  == FALSE

Rec(a, r, b, o) == [argv |-> a, redir |-> r, background |-> b, open |-> o]
Redirs(i, t, e) == [in |-> i, out |-> t, err |-> e]
WithOpen(d, x)  == [d EXCEPT !.open = x]
WithMark(d, x)  == [d EXCEPT !.background = x]
WithWord(d, x)  == [d EXCEPT !.argv = Append(@, x)]
WithIn(d, x)    == [d EXCEPT !.redir.in = x]
WithOut(d, x)   == [d EXCEPT !.redir.out = x]
WithErr(d, x)   == [d EXCEPT !.redir.err = x]

LEMMA RecIs ==
    ASSUME NEW a, NEW r, NEW b, NEW o, NEW x
    PROVE  /\ WithWord(Rec(a, r, b, o), x) = Rec(Append(a, x), r, b, o)
           /\ WithMark(Rec(a, r, b, o), x) = Rec(a, r, x, o)
           /\ WithOpen(Rec(a, r, b, o), x) = Rec(a, r, b, x)
           /\ Rec(a, r, b, o).argv = a /\ Rec(a, r, b, o).open = o
<1>1. WithWord(Rec(a, r, b, o), x) = Rec(Append(a, x), r, b, o)
  BY SMTT(30) DEF Rec, WithWord
<1>2. WithMark(Rec(a, r, b, o), x) = Rec(a, r, x, o)
  BY DEF Rec, WithMark
<1>3. WithOpen(Rec(a, r, b, o), x) = Rec(a, r, b, x)
  BY DEF Rec, WithOpen
<1>4. Rec(a, r, b, o).argv = a /\ Rec(a, r, b, o).open = o
  BY DEF Rec
<1> QED BY <1>1, <1>2, <1>3, <1>4

LEMMA RedirIs ==
    ASSUME NEW a, NEW b, NEW o, NEW x, NEW i, NEW t, NEW e
    PROVE  /\ WithIn(Rec(a, Redirs(i, t, e), b, o), x) = Rec(a, Redirs(x, t, e), b, o)
           /\ WithOut(Rec(a, Redirs(i, t, e), b, o), x) = Rec(a, Redirs(i, x, e), b, o)
           /\ WithErr(Rec(a, Redirs(i, t, e), b, o), x) = Rec(a, Redirs(i, t, x), b, o)
  BY DEF Rec, Redirs, WithIn, WithOut, WithErr

ReadWords(c, k) == [i \in 1 .. k |-> WordMeans(c.words[i])]
ReadFiles(c, f) == Redirs(FileUpTo(c.files, f, InOps), FileUpTo(c.files, f, OutOps), FileUpTo(c.files, f, ErrOps))

SoFar(c, k, f, b) == Rec(ReadWords(c, k), ReadFiles(c, f), b, Yes)

LEMMA SoFarNothing == \A c : SoFar(c, 0, 0, No) = WithOpen(NoCmd, Yes)
<1> SUFFICES ASSUME NEW c
             PROVE  SoFar(c, 0, 0, No) = WithOpen(NoCmd, Yes)
  OBVIOUS
<1>1. ReadWords(c, 0) = <<>>
  BY DEF ReadWords
<1>2. \A ops : FileUpTo(c.files, 0, ops) = <<>>
  BY DEF FileUpTo
<1>3. ReadFiles(c, 0) = NoRedir
  BY <1>2 DEF ReadFiles, Redirs, NoRedir
<1>4. NoCmd = Rec(<<>>, NoRedir, No, No)
  BY DEF NoCmd, Rec, No
<1> QED BY <1>1, <1>3, <1>4, RecIs DEF SoFar

LEMMA SoFarWord ==
    ASSUME NEW c, CommandFacts(c), NEW k \in 1 .. Len(c.words)
    PROVE  WithWord(SoFar(c, k - 1, 0, No), WordMeans(c.words[k])) = SoFar(c, k, 0, No)
<1> DEFINE B == Seq(Character)
           x == ReadWords(c, k - 1)
           y == ReadWords(c, k)
           m == WordMeans(c.words[k])
<1>1. \A i \in 1 .. k : WordMeans(c.words[i]) \in B
  <2> SUFFICES ASSUME NEW i \in 1 .. k
               PROVE  WordMeans(c.words[i]) \in B
    OBVIOUS
  <2>1. i \in 1 .. Len(c.words)
    BY DEF CommandFacts
  <2> QED BY <2>1 DEF CommandFacts, WordFacts
<1> HIDE DEF B
<1>0. k \in Nat \ {0} /\ k - 1 \in Nat
  BY DEF CommandFacts
<1>2. x \in Seq(B) /\ Len(x) = k - 1 /\ y \in Seq(B) /\ Len(y) = k
  <2>1. \A i \in 1 .. (k - 1) : WordMeans(c.words[i]) \in B
    <3>1. \A i \in 1 .. (k - 1) : i \in 1 .. k
      BY <1>0
    <3> QED BY <1>1, <3>1
  <2>2. x \in [1 .. (k - 1) -> B]
    BY <2>1 DEF ReadWords
  <2>3. y \in [1 .. k -> B]
    BY <1>1 DEF ReadWords
  <2> HIDE DEF x, y
  <2>4. x \in Seq(B) /\ Len(x) = k - 1
    BY <1>0, <2>2
  <2>5. y \in Seq(B) /\ Len(y) = k
    BY <1>0, <2>3
  <2> QED BY <2>4, <2>5
<1>3. m \in B /\ y[k] = m /\ \A i \in 1 .. (k - 1) : y[i] = x[i]
  BY <1>0, <1>1 DEF ReadWords
<1> HIDE DEF x, y, m
<1>4. Append(x, m) = y
  <2>1. Append(x, m) \in Seq(B) /\ Len(Append(x, m)) = k
    BY <1>0, <1>2, <1>3
  <2>2. \A i \in 1 .. k : Append(x, m)[i] = y[i]
    <3>1. \A i \in 1 .. k : i \in 1 .. (k - 1) \/ i = k
      BY <1>0
    <3>2. Append(x, m)[k] = m /\ \A i \in 1 .. (k - 1) : Append(x, m)[i] = x[i]
      BY <1>0, <1>2, <1>3
    <3> QED BY <1>3, <3>1, <3>2
  <2> DEFINE z == Append(x, m)
  <2> HIDE DEF z
  <2>3. z = y
    BY <1>2, <2>1, <2>2, SeqEqual DEF z
  <2> QED BY <2>3 DEF z
<1>5. SoFar(c, k - 1, 0, No) = Rec(x, ReadFiles(c, 0), No, Yes) /\ SoFar(c, k, 0, No) = Rec(y, ReadFiles(c, 0), No, Yes)
  BY DEF SoFar, x, y
<1>6. WithWord(Rec(x, ReadFiles(c, 0), No, Yes), m) = Rec(Append(x, m), ReadFiles(c, 0), No, Yes)
  BY RecIs
<1> QED BY <1>4, <1>5, <1>6 DEF m

SoFarAfter(c, k, f, x, d) ==
    /\ x.op \in InOps \cup OutOps \cup ErrOps
    /\ x.op \in ErrOps => SoFar(c, k, f, No) = WithErr(d, <<x.op, x.name>>)
    /\ x.op \in InOps  => SoFar(c, k, f, No) = WithIn(d, <<x.op, x.name>>) /\ x.op \notin ErrOps
    /\ x.op \in OutOps => SoFar(c, k, f, No) = WithOut(d, <<x.op, x.name>>) /\ x.op \notin ErrOps \cup InOps

LEMMA SoFarFile ==
    ASSUME NEW c, CommandFacts(c), NEW k, NEW f \in 1 .. Len(c.files), NEW x, x = c.files[f],
           NEW d, d = SoFar(c, k, f - 1, No)
    PROVE  SoFarAfter(c, k, f, x, d)
<1> DEFINE a == ReadWords(c, k)
           U(ops) == FileUpTo(c.files, f, ops)
           V(ops) == FileUpTo(c.files, f - 1, ops)
           e == <<x.op, x.name>>
<1>0. f \in Nat \ {0}
  BY DEF CommandFacts
<1>1. \A ops : U(ops) = IF x.op \in ops THEN e ELSE V(ops)
  BY <1>0, FileStep
<1>2. x.op \in InOps \cup OutOps \cup ErrOps
  BY DEF CommandFacts, FileFacts
<1>3. /\ SoFar(c, k, f, No) = Rec(a, Redirs(U(InOps), U(OutOps), U(ErrOps)), No, Yes)
      /\ d = Rec(a, Redirs(V(InOps), V(OutOps), V(ErrOps)), No, Yes)
  BY DEF SoFar, ReadFiles
<1> HIDE DEF a, U, V, e
<1>4. (x.op \in InOps => x.op \notin OutOps \cup ErrOps) /\ (x.op \in OutOps => x.op \notin ErrOps)
  BY SignsDiffer DEF InOps, OutOps, ErrOps
<1>5. CASE x.op \in ErrOps
  <2>1. U(ErrOps) = e /\ U(InOps) = V(InOps) /\ U(OutOps) = V(OutOps)
    BY <1>1, <1>4, <1>5
  <2>2. SoFar(c, k, f, No) = WithErr(d, e)
    BY <1>3, <2>1, RedirIs
  <2> QED BY <1>2, <1>4, <1>5, <2>2 DEF SoFarAfter, e
<1>6. CASE x.op \in InOps
  <2>1. U(InOps) = e /\ U(ErrOps) = V(ErrOps) /\ U(OutOps) = V(OutOps)
    BY <1>1, <1>4, <1>6
  <2>2. SoFar(c, k, f, No) = WithIn(d, e)
    BY <1>3, <2>1, RedirIs
  <2> QED BY <1>2, <1>4, <1>6, <2>2 DEF SoFarAfter, e
<1>7. CASE x.op \in OutOps
  <2>1. U(OutOps) = e /\ U(ErrOps) = V(ErrOps) /\ U(InOps) = V(InOps)
    BY <1>1, <1>4, <1>7
  <2>2. SoFar(c, k, f, No) = WithOut(d, e)
    BY <1>3, <2>1, RedirIs
  <2> QED BY <1>2, <1>4, <1>7, <2>2 DEF SoFarAfter, e
<1> QED BY <1>2, <1>5, <1>6, <1>7

LEMMA SoFarAll ==
    ASSUME NEW c, CommandFacts(c), NEW d, d = SoFar(c, Len(c.words), Len(c.files), c.background)
    PROVE  WithOpen(d, No) = MeantCmd(c) /\ d.argv # <<>>
<1> DEFINE a == ReadWords(c, Len(c.words))
           r == ReadFiles(c, Len(c.files))
<1>1. d = Rec(a, r, c.background, Yes)
  BY DEF SoFar
<1>2. DOMAIN c.words = 1 .. Len(c.words) /\ DOMAIN c.files = 1 .. Len(c.files) /\ Len(c.words) \in Nat \ {0}
  BY DEF CommandFacts
<1>3. \A ops : FileUpTo(c.files, Len(c.files), ops) = FileOf(c.files, ops)
  BY <1>2 DEF FileUpTo, FileOf
<1>4. MeantCmd(c) = Rec(a, r, c.background, No)
  BY <1>2, <1>3 DEF MeantCmd, Rec, Redirs, ReadWords, ReadFiles, No
<1>5. a # <<>>
  <2>1. 1 \in DOMAIN a
    BY <1>2 DEF ReadWords
  <2>2. DOMAIN <<>> = {}
    OBVIOUS
  <2> HIDE DEF a
  <2> QED BY <2>1, <2>2
<1> HIDE DEF a, r
<1> QED BY <1>1, <1>4, <1>5, RecIs

(* What is left of a command's text behind k words and f files.            *)
MarkLeft(c, b)       == IF c.background /\ ~b THEN Spaced(<<Amp>>) ELSE <<>>
CommandRest(c, k, f, b) == FlatFrom(WordTexts(c), k) \o FlatFrom(FileTexts(c), f) \o MarkLeft(c, b)

RestFacts(c) ==
    /\ CommandRest(c, 0, 0, No) = CommandText(c)
    /\ \A k \in 0 .. Len(c.words), f \in 0 .. Len(c.files), b \in BOOLEAN : CommandRest(c, k, f, b) \in Seq(Character)
    /\ \A k \in 1 .. Len(c.words) :
         CommandRest(c, k - 1, 0, No) = WordText(c.words[k]) \o CommandRest(c, k, 0, No)
    /\ \A f \in 1 .. Len(c.files) :
         CommandRest(c, Len(c.words), f - 1, No) = FileText(c.files[f]) \o CommandRest(c, Len(c.words), f, No)
    /\ c.background => CommandRest(c, Len(c.words), Len(c.files), No) = Spaced(<<Amp>>)
    /\ CommandRest(c, Len(c.words), Len(c.files), c.background) = <<>>

LEMMA RestIs ==
    ASSUME NEW c, CommandFacts(c), PartsFacts(c)
    PROVE  RestFacts(c)
<1> DEFINE W == WordTexts(c)
           F == FileTexts(c)
           n == Len(c.words)
           m == Len(c.files)
<1>0. /\ n \in Nat /\ m \in Nat /\ c.background \in BOOLEAN
      /\ W \in Seq(Seq(Character)) /\ Len(W) = n /\ F \in Seq(Seq(Character)) /\ Len(F) = m
      /\ \A k \in 1 .. n : W[k] = WordText(c.words[k])
      /\ \A k \in 1 .. m : F[k] = FileText(c.files[k])
  BY DEF CommandFacts, PartsFacts
<1>t. CommandText(c) = FlattenSeq(W) \o FlattenSeq(F) \o Mark(c)
  BY DEF PartsFacts
<1>r. /\ \A k, f : \A b \in BOOLEAN : CommandRest(c, k, f, b) = FlatFrom(W, k) \o FlatFrom(F, f) \o MarkLeft(c, b)
      /\ No \in BOOLEAN
  BY DEF CommandRest, No
<1>x. \A k \in 1 .. n : W[k] \in Seq(Character)
  BY <1>0
<1>y. \A k \in 1 .. m : F[k] \in Seq(Character)
  BY <1>0
<1> HIDE DEF W, F, n, m
<1>1. /\ FlatFrom(W, 0) = FlattenSeq(W) /\ FlatFrom(W, n) = <<>>
      /\ (\A k \in 0 .. n : FlatFrom(W, k) \in Seq(Character))
      /\ \A k \in 1 .. n : FlatFrom(W, k - 1) = W[k] \o FlatFrom(W, k)
  BY <1>0, FlatFromIs
<1>2. /\ FlatFrom(F, 0) = FlattenSeq(F) /\ FlatFrom(F, m) = <<>>
      /\ (\A k \in 0 .. m : FlatFrom(F, k) \in Seq(Character))
      /\ \A k \in 1 .. m : FlatFrom(F, k - 1) = F[k] \o FlatFrom(F, k)
  BY <1>0, FlatFromIs
<1>3. /\ MarkLeft(c, No) = Mark(c) /\ MarkLeft(c, c.background) = <<>>
      /\ Spaced(<<Amp>>) \in Seq(Character) /\ \A b \in BOOLEAN : MarkLeft(c, b) \in Seq(Character)
  <2>1. <<Amp>> \in Seq(Character) /\ <<>> \in Seq(Character)
    BY SignsAreCharacters DEF Signed, Quoting, Special
  <2>2. Spaced(<<Amp>>) \in Seq(Character)
    BY <2>1, SpacedIs
  <2> QED BY <1>0, <2>1, <2>2 DEF MarkLeft, Mark, No
<1>4. \A x, y, z \in Seq(Character) : (x \o y) \o z = x \o (y \o z)
  <2>1. Regroups(Character)
    BY ConcatRegroups
  <2> QED BY <2>1 DEF Regroups
<1>e. \A x \in Seq(Character) : <<>> \o x = x /\ x \o <<>> = x
  BY ConcatEmptySeq
<1>5. CommandRest(c, 0, 0, No) = CommandText(c)
  <2>1. CommandRest(c, 0, 0, No) = FlatFrom(W, 0) \o FlatFrom(F, 0) \o MarkLeft(c, No)
    BY DEF CommandRest, W, F
  <2> QED BY <1>1, <1>2, <1>3, <1>t, <2>1
<1>6. ASSUME NEW k \in 0 .. n, NEW f \in 0 .. m, NEW b \in BOOLEAN
      PROVE  CommandRest(c, k, f, b) \in Seq(Character)
  <2> DEFINE x == FlatFrom(W, k)
             y == FlatFrom(F, f)
             z == MarkLeft(c, b)
  <2>1. x \in Seq(Character) /\ y \in Seq(Character) /\ z \in Seq(Character) /\ CommandRest(c, k, f, b) = x \o y \o z
    BY <1>1, <1>2, <1>3, <1>r
  <2> HIDE DEF x, y, z
  <2> QED BY <2>1
<1>7. ASSUME NEW k \in 1 .. n
      PROVE  CommandRest(c, k - 1, 0, No) = WordText(c.words[k]) \o CommandRest(c, k, 0, No)
  <2> DEFINE w == W[k]
             x == FlatFrom(W, k)
             y == FlatFrom(F, 0)
             z == MarkLeft(c, No)
  <2>1. k \in 0 .. n /\ 0 \in 0 .. m /\ w = WordText(c.words[k]) /\ w \in Seq(Character)
    BY <1>0, <1>x
  <2>2. /\ x \in Seq(Character) /\ y \in Seq(Character) /\ z \in Seq(Character)
        /\ CommandRest(c, k - 1, 0, No) = ((w \o x) \o y) \o z /\ CommandRest(c, k, 0, No) = (x \o y) \o z
    <3>1. x \in Seq(Character) /\ y \in Seq(Character) /\ FlatFrom(W, k - 1) = w \o x
      BY <1>1, <1>2, <2>1
    <3>2. z \in Seq(Character)
      BY <1>3, <1>r
    <3>3. CommandRest(c, k - 1, 0, No) = (FlatFrom(W, k - 1) \o y) \o z
      BY <1>r
    <3>4. CommandRest(c, k, 0, No) = (x \o y) \o z
      BY <1>r
    <3> HIDE DEF w, x, y, z
    <3> QED BY <3>1, <3>2, <3>3, <3>4
  <2> HIDE DEF w, x, y, z
  <2>3. x \o y \in Seq(Character)
    BY <2>2
  <2>4. (w \o x) \o y = w \o (x \o y)
    BY <1>4, <2>1, <2>2
  <2>5. (w \o (x \o y)) \o z = w \o ((x \o y) \o z)
    <3> DEFINE v == x \o y
    <3>1. v \in Seq(Character) /\ z \in Seq(Character) /\ w \in Seq(Character)
      BY <2>1, <2>2, <2>3
    <3> HIDE DEF v
    <3>2. (w \o v) \o z = w \o (v \o z)
      BY <1>4, <3>1
    <3> QED BY <3>2 DEF v
  <2> QED BY <2>1, <2>2, <2>4, <2>5
<1>8. ASSUME NEW f \in 1 .. m
      PROVE  CommandRest(c, n, f - 1, No) = FileText(c.files[f]) \o CommandRest(c, n, f, No)
  <2> DEFINE w == F[f]
             y == FlatFrom(F, f)
             z == MarkLeft(c, No)
  <2>1. f \in 0 .. m /\ w = FileText(c.files[f]) /\ w \in Seq(Character)
    BY <1>0, <1>y
  <2>2. /\ y \in Seq(Character) /\ z \in Seq(Character)
        /\ CommandRest(c, n, f - 1, No) = (<<>> \o (w \o y)) \o z /\ CommandRest(c, n, f, No) = (<<>> \o y) \o z
    <3>1. /\ CommandRest(c, n, f - 1, No) = (FlatFrom(W, n) \o FlatFrom(F, f - 1)) \o MarkLeft(c, No)
          /\ CommandRest(c, n, f, No) = (FlatFrom(W, n) \o FlatFrom(F, f)) \o MarkLeft(c, No)
      BY DEF CommandRest, W, F
    <3>2. FlatFrom(F, f - 1) = w \o y /\ y \in Seq(Character) /\ FlatFrom(W, n) = <<>>
      BY <1>1, <1>2, <2>1
    <3>3. z \in Seq(Character)
      BY <1>3, <1>r
    <3> QED BY <3>1, <3>2, <3>3
  <2> HIDE DEF w, y, z
  <2>3. w \o y \in Seq(Character)
    BY <2>1, <2>2
  <2>4. <<>> \o (w \o y) = w \o y /\ <<>> \o y = y
    BY <1>e, <2>2, <2>3
  <2>5. (w \o y) \o z = w \o (y \o z)
    BY <1>4, <2>1, <2>2
  <2> QED BY <2>1, <2>2, <2>4, <2>5
<1>9. \A b \in BOOLEAN : CommandRest(c, n, m, b) = MarkLeft(c, b)
  <2> SUFFICES ASSUME NEW b \in BOOLEAN
               PROVE  CommandRest(c, n, m, b) = MarkLeft(c, b)
    OBVIOUS
  <2>1. CommandRest(c, n, m, b) = (<<>> \o <<>>) \o MarkLeft(c, b)
    <3>1. CommandRest(c, n, m, b) = FlatFrom(W, n) \o FlatFrom(F, m) \o MarkLeft(c, b)
      BY DEF CommandRest, W, F
    <3> QED BY <1>1, <1>2, <3>1
  <2>2. <<>> \o <<>> = <<>>
    OBVIOUS
  <2> QED BY <1>3, <1>e, <2>1, <2>2
<1>10. c.background => CommandRest(c, n, m, No) = Spaced(<<Amp>>)
  BY <1>r, <1>9 DEF MarkLeft, No
<1>11. CommandRest(c, n, m, c.background) = <<>>
  BY <1>0, <1>3, <1>9
<1> QED BY <1>5, <1>6, <1>7, <1>8, <1>10, <1>11 DEF RestFacts, n, m

(***************************************************************************)
(* What the next turn meets.                                               *)
(***************************************************************************)
AtFile(s, x, u) ==
    /\ s \in Seq(Character) /\ s # <<>> /\ s[1] \notin {Space, Pipe, Amp}
    /\ Operator(s) = x.op /\ x.op # <<>>
    /\ ReadsAs(Skipped(SubSeq(s, Len(x.op) + 1, Len(s))), x.name, u)

AtSign(s, c, u) == s \in Seq(Character) /\ s # <<>> /\ s[1] = c /\ Tail(s) = Ahead(u)

LEMMA WordNext ==
    ASSUME NEW w, WordFacts(w), NEW u \in Seq(Character)
    PROVE  ReadsAs(WordText(w) \o u, WordRaw(w), u)
BY StyledReads DEF WordFacts, WordText

LEMMA FileNext ==
    ASSUME NEW x, FileFacts(x), NEW u \in Seq(Character)
    PROVE  AtFile(FileText(x) \o u, x, u)
<1> DEFINE op == x.op
           Z == Spaced(Styled(x.style, x.name))
           Y == Z \o u
           v == Ahead(Y)
           s == FileText(x) \o u
<1>1. op \in InOps \cup OutOps \cup ErrOps
  BY DEF FileFacts
<1>2. Styled(x.style, x.name) \in Seq(Character) /\ ReadsAs(Y, x.name, u)
  BY StyledReads DEF FileFacts
<1>3. op \in Seq(Character) /\ op # <<>> /\ Z \in Seq(Character) /\ Spaced(op) \in Seq(Character)
  BY <1>1, <1>2, OpIs, SpacedIs
<1>4. Y \in Seq(Character) /\ Starts(Y)
  BY <1>2 DEF ReadsAs
<1>5. s = (Spaced(op) \o Z) \o u
  BY DEF FileText
<1> HIDE DEF op, Z, s
<1>6. s = Spaced(op) \o Y
  <2>1. \A a, b, c \in Seq(Character) : (a \o b) \o c = a \o (b \o c)
    <3>1. Regroups(Character)
      BY ConcatRegroups
    <3> QED BY <3>1 DEF Regroups
  <2> QED BY <1>3, <1>5, <2>1
<1> HIDE DEF Y
<1>7. v \in Seq(Character) /\ s = op \o v /\ v # <<>> /\ v[1] = Space /\ Len(v) = Len(Y) + 1 /\ Len(Y) \in Nat
  <2>1. /\ Spaced(op) \o Y = op \o Ahead(Y) /\ Ahead(Y) \in Seq(Character)
        /\ Ahead(Y) # <<>> /\ Ahead(Y)[1] = Space /\ Len(Ahead(Y)) = Len(Y) + 1
    BY <1>3, <1>4, SpacedIs
  <2>2. Len(Y) \in Nat
    BY <1>4
  <2> QED BY <1>6, <2>1, <2>2
<1>8. Skipped(v) = Y
  <2>1. Y[1] # Space
    BY <1>4 DEF Starts
  <2> QED BY <1>4, <2>1, SkippedIs DEF Ahead
<1> HIDE DEF v
<1>9. /\ s \in Seq(Character) /\ Len(s) = Len(op) + Len(v) /\ (\A k \in 1 .. Len(op) : s[k] = op[k])
      /\ s[Len(op) + 1] = Space /\ Len(op) \in Nat \ {0}
  <2>1. Len(op) \in Nat \ {0}
    BY <1>3, EmptySeq
  <2>2. 1 \in 1 .. Len(v)
    BY <1>7
  <2>3. /\ op \o v \in Seq(Character) /\ Len(op \o v) = Len(op) + Len(v)
        /\ \A k \in 1 .. Len(op) : (op \o v)[k] = op[k]
    <3>1. op \in Seq(Character) /\ v \in Seq(Character)
      BY <1>3, <1>7
    <3> QED BY <3>1, ConcatProperties
  <2>4. (op \o v)[Len(op) + 1] = v[1]
    BY <1>3, <1>7, <2>1, <2>2
  <2> QED BY <1>7, <2>1, <2>3, <2>4
<1>10. SubSeq(s, Len(op) + 1, Len(s)) = v
  BY <1>3, <1>7, ConcatRest
<1>11. s # <<>>
  <2>1. Len(<<>>) = 0
    OBVIOUS
  <2> QED BY <1>7, <1>9, <2>1
<1>12. \A k \in 1 .. Len(op) : op[k] \in {Lt, Gt, Two}
  BY <1>1, OpIs
<1>13. s[1] \notin {Space, Pipe, Amp}
  <2>1. s[1] \in {Lt, Gt, Two}
    BY <1>9, <1>12
  <2> QED BY <2>1, SignsDiffer
<1>14. Operator(s) = op
  <2>d. /\ Lt # Gt /\ Lt # Two /\ Gt # Two /\ Space # Lt /\ Space # Gt /\ Space # Two
    BY SignsDiffer
  <2>1. CASE op = <<Lt>>
    <3>1. Len(op) = 1 /\ op[1] = Lt
      BY <2>1
    <3>2. s[1] = Lt /\ s[2] = Space
      BY <1>9, <3>1
    <3>3. ~Behind(s, 1, Lt)
      BY <2>d, <3>2 DEF Behind
    <3> QED BY <1>11, <2>1, <2>d, <3>2, <3>3 DEF Operator
  <2>2. CASE op = <<Gt>>
    <3>1. Len(op) = 1 /\ op[1] = Gt
      BY <2>2
    <3>2. s[1] = Gt /\ s[2] = Space
      BY <1>9, <3>1
    <3>3. ~Behind(s, 1, Gt)
      BY <2>d, <3>2 DEF Behind
    <3> QED BY <1>11, <2>2, <2>d, <3>2, <3>3 DEF Operator
  <2>3. ASSUME NEW a \in Character, NEW b \in Character, op = <<a, b>>
        PROVE  s[1] = a /\ Behind(s, 1, b)
    <3>1. Len(op) = 2 /\ op[1] = a /\ op[2] = b
      BY <2>3
    <3>2. s[1] = a /\ s[2] = b /\ 1 < Len(s)
      BY <1>7, <1>9, <3>1
    <3> QED BY <3>2 DEF Behind
  <2>c. Lt \in Character /\ Gt \in Character /\ Two \in Character
    BY SignsAreCharacters DEF Signed, Quoting, Special
  <2>4. CASE op = <<Lt, Lt>>
    <3>1. s[1] = Lt /\ Behind(s, 1, Lt)
      BY <2>3, <2>4, <2>c
    <3> QED BY <1>11, <2>4, <2>d, <3>1 DEF Operator
  <2>5. CASE op = <<Gt, Gt>>
    <3>1. s[1] = Gt /\ Behind(s, 1, Gt)
      BY <2>3, <2>5, <2>c
    <3> QED BY <1>11, <2>5, <2>d, <3>1 DEF Operator
  <2>6. CASE op = <<Two, Gt>>
    <3>1. s[1] = Two /\ Behind(s, 1, Gt)
      BY <2>3, <2>6, <2>c
    <3> QED BY <1>11, <2>6, <2>d, <3>1 DEF Operator
  <2> QED BY <1>1, <2>1, <2>2, <2>4, <2>5, <2>6 DEF InOps, OutOps, ErrOps
<1>15. ReadsAs(Skipped(SubSeq(s, Len(op) + 1, Len(s))), x.name, u)
  BY <1>2, <1>8, <1>10 DEF Y
<1> QED BY <1>3, <1>9, <1>11, <1>13, <1>14, <1>15 DEF AtFile, op, s

LEMMA SignNext ==
    ASSUME NEW c \in Character, NEW u \in Seq(Character)
    PROVE  AtSign(Spaced(<<c>>) \o u, c, u)
<1> DEFINE v == Ahead(u)
<1>1. Spaced(<<c>>) \o u = <<c>> \o v /\ v \in Seq(Character)
  <2>1. <<c>> \in Seq(Character)
    OBVIOUS
  <2> QED BY <2>1, SpacedIs
<1> HIDE DEF v
<1>2. <<c>> \o v \in Seq(Character) /\ <<c>> \o v # <<>> /\ (<<c>> \o v)[1] = c /\ Tail(<<c>> \o v) = v
  BY <1>1
<1> QED BY <1>1, <1>2 DEF AtSign, v

(* What is left of a line behind j commands, and k words and f files.      *)
Left(p, j, k, f, b) == CommandRest(p[j + 1], k, f, b) \o FlatFrom(LineParts(p), j + 1)

LeftFacts(p, j) ==
    LET c == p[j + 1]
        n == Len(c.words)
        m == Len(c.files)
    IN  /\ \A k \in 0 .. n, f \in 0 .. m, b \in BOOLEAN : Left(p, j, k, f, b) \in Seq(Character)
        /\ \A k \in 1 .. n : ReadsAs(Left(p, j, k - 1, 0, No), WordRaw(c.words[k]), Left(p, j, k, 0, No))
        /\ \A f \in 1 .. m : AtFile(Left(p, j, n, f - 1, No), c.files[f], Left(p, j, n, f, No))
        /\ c.background => AtSign(Left(p, j, n, m, No), Amp, Left(p, j, n, m, c.background))
        /\ j + 1 = Len(p) => Left(p, j, n, m, c.background) = <<>>
        /\ j + 1 < Len(p) => AtSign(Left(p, j, n, m, c.background), Pipe, Left(p, j + 1, 0, 0, No))

LEMMA LeftIs ==
    ASSUME NEW p, PipelineFacts(p), NEW j \in 0 .. (Len(p) - 1)
    PROVE  LeftFacts(p, j)
<1> DEFINE c == p[j + 1]
           n == Len(c.words)
           m == Len(c.files)
           U == LineParts(p)
           t == FlatFrom(U, j + 1)
<1>0. /\ Len(p) \in Nat /\ j + 1 \in 1 .. Len(p) /\ U \in Seq(Seq(Character)) /\ Len(U) = Len(p)
      /\ \A i \in 1 .. Len(p) : CommandFacts(p[i]) /\ PartsFacts(p[i])
      /\ \A i \in 1 .. Len(p) : U[i] = Before(i) \o CommandText(p[i])
  <2>1. Len(p) \in Nat /\ j + 1 \in 1 .. Len(p)
    BY DEF PipelineFacts
  <2>2. U \in Seq(Seq(Character)) /\ Len(U) = Len(p)
    BY DEF PipelineFacts
  <2>3. \A i \in 1 .. Len(p) : CommandFacts(p[i]) /\ PartsFacts(p[i])
    BY DEF PipelineFacts
  <2>4. \A i \in 1 .. Len(p) : U[i] = Before(i) \o CommandText(p[i])
    BY DEF PipelineFacts
  <2> QED BY <2>1, <2>2, <2>3, <2>4
<1>1. CommandFacts(c) /\ PartsFacts(c)
  BY <1>0
<1>2. \A i \in 1 .. Len(p) : RestFacts(p[i])
  BY <1>0, RestIs
<1>3. RestFacts(c)
  BY <1>0, <1>2
<1>4. /\ FlatFrom(U, Len(U)) = <<>> /\ (\A i \in 0 .. Len(U) : FlatFrom(U, i) \in Seq(Character))
      /\ \A i \in 1 .. Len(U) : FlatFrom(U, i - 1) = U[i] \o FlatFrom(U, i)
  <2> HIDE DEF U
  <2> QED BY <1>0, FlatFromIs
<1>5. t \in Seq(Character)
  <2>1. j + 1 \in 0 .. Len(U)
    BY <1>0
  <2> HIDE DEF U
  <2> QED BY <1>4, <2>1
<1>a. \A x, y, z \in Seq(Character) : (x \o y) \o z = x \o (y \o z)
  <2>1. Regroups(Character)
    BY ConcatRegroups
  <2> QED BY <2>1 DEF Regroups
<1>e. <<>> \o t = t
  BY <1>5, ConcatEmptySeq
<1>l. \A k, f : \A b \in BOOLEAN : Left(p, j, k, f, b) = CommandRest(c, k, f, b) \o t
  BY DEF Left
<1>n. /\ No \in BOOLEAN /\ n \in Nat \ {0} /\ m \in Nat /\ c.background \in BOOLEAN
      /\ n \in 0 .. n /\ m \in 0 .. m /\ 0 \in 0 .. n /\ 0 \in 0 .. m
  BY <1>1 DEF CommandFacts, No
<1> HIDE DEF c, n, m, t, U
<1>6. /\ \A k \in 0 .. n, f \in 0 .. m, b \in BOOLEAN : CommandRest(c, k, f, b) \in Seq(Character)
      /\ \A k \in 1 .. n : CommandRest(c, k - 1, 0, No) = WordText(c.words[k]) \o CommandRest(c, k, 0, No)
      /\ \A f \in 1 .. m : CommandRest(c, n, f - 1, No) = FileText(c.files[f]) \o CommandRest(c, n, f, No)
      /\ c.background => CommandRest(c, n, m, No) = Spaced(<<Amp>>)
      /\ CommandRest(c, n, m, c.background) = <<>>
  BY <1>3 DEF RestFacts, n, m
<1>7. ASSUME NEW k \in 0 .. n, NEW f \in 0 .. m, NEW b \in BOOLEAN
      PROVE  Left(p, j, k, f, b) \in Seq(Character)
  <2> DEFINE x == CommandRest(c, k, f, b)
  <2>1. x \in Seq(Character) /\ Left(p, j, k, f, b) = x \o t
    BY <1>6, <1>l
  <2> HIDE DEF x
  <2> QED BY <1>5, <2>1
<1>8. ASSUME NEW k \in 1 .. n
      PROVE  ReadsAs(Left(p, j, k - 1, 0, No), WordRaw(c.words[k]), Left(p, j, k, 0, No))
  <2> DEFINE x == CommandRest(c, k, 0, No)
             w == WordText(c.words[k])
             u == Left(p, j, k, 0, No)
  <2>0. k \in 0 .. n
    BY <1>n
  <2>1. x \in Seq(Character) /\ u \in Seq(Character) /\ u = x \o t /\ Left(p, j, k - 1, 0, No) = (w \o x) \o t
    <3>1. x \in Seq(Character) /\ CommandRest(c, k - 1, 0, No) = w \o x
      BY <1>6, <1>n, <2>0
    <3>2. u \in Seq(Character)
      BY <1>7, <1>n, <2>0
    <3>3. u = x \o t /\ Left(p, j, k - 1, 0, No) = CommandRest(c, k - 1, 0, No) \o t
      BY <1>l, <1>n
    <3> QED BY <3>1, <3>2, <3>3
  <2>2. WordFacts(c.words[k])
    BY <1>1 DEF CommandFacts, n
  <2>3. w \in Seq(Character)
    <3>1. WordTexts(c) \in Seq(Seq(Character)) /\ k \in 1 .. Len(WordTexts(c)) /\ WordTexts(c)[k] = w
      BY <1>1 DEF PartsFacts, n
    <3> HIDE DEF w
    <3> QED BY <3>1
  <2> HIDE DEF x, u
  <2>4. Left(p, j, k - 1, 0, No) = w \o u
    <3> HIDE DEF w
    <3> QED BY <1>5, <1>a, <2>1, <2>3
  <2>5. ReadsAs(w \o u, WordRaw(c.words[k]), u)
    BY <2>1, <2>2, WordNext
  <2> QED BY <2>4, <2>5 DEF u
<1>9. ASSUME NEW f \in 1 .. m
      PROVE  AtFile(Left(p, j, n, f - 1, No), c.files[f], Left(p, j, n, f, No))
  <2> DEFINE x == CommandRest(c, n, f, No)
             w == FileText(c.files[f])
             u == Left(p, j, n, f, No)
  <2>0. f \in 0 .. m
    BY <1>n
  <2>1. x \in Seq(Character) /\ u \in Seq(Character) /\ u = x \o t /\ Left(p, j, n, f - 1, No) = (w \o x) \o t
    <3>1. x \in Seq(Character) /\ CommandRest(c, n, f - 1, No) = w \o x
      BY <1>6, <1>n, <2>0
    <3>2. u \in Seq(Character)
      BY <1>7, <1>n, <2>0
    <3>3. u = x \o t /\ Left(p, j, n, f - 1, No) = CommandRest(c, n, f - 1, No) \o t
      BY <1>l, <1>n
    <3> QED BY <3>1, <3>2, <3>3
  <2>2. FileFacts(c.files[f])
    BY <1>1 DEF CommandFacts, m
  <2>3. w \in Seq(Character)
    <3>1. FileTexts(c) \in Seq(Seq(Character)) /\ f \in 1 .. Len(FileTexts(c)) /\ FileTexts(c)[f] = w
      BY <1>1 DEF PartsFacts, m
    <3> HIDE DEF w
    <3> QED BY <3>1
  <2> HIDE DEF x, u
  <2>4. Left(p, j, n, f - 1, No) = w \o u
    <3> HIDE DEF w
    <3> QED BY <1>5, <1>a, <2>1, <2>3
  <2>5. AtFile(w \o u, c.files[f], u)
    BY <2>1, <2>2, FileNext
  <2> QED BY <2>4, <2>5 DEF u
<1>10. Left(p, j, n, m, c.background) = t
  BY <1>6, <1>e, <1>l, <1>n
<1>c. Amp \in Character /\ Pipe \in Character
  BY SignsAreCharacters DEF Signed, Quoting, Special
<1>11. ASSUME c.background
       PROVE  AtSign(Left(p, j, n, m, No), Amp, Left(p, j, n, m, c.background))
  <2>1. Left(p, j, n, m, No) = Spaced(<<Amp>>) \o t
    BY <1>6, <1>11, <1>l, <1>n
  <2>2. AtSign(Spaced(<<Amp>>) \o t, Amp, t)
    BY <1>5, <1>c, SignNext
  <2> QED BY <1>10, <2>1, <2>2
<1>12. ASSUME j + 1 = Len(p)
       PROVE  Left(p, j, n, m, c.background) = <<>>
  BY <1>0, <1>4, <1>10, <1>12 DEF t
<1>13. ASSUME j + 1 < Len(p)
       PROVE  AtSign(Left(p, j, n, m, c.background), Pipe, Left(p, j + 1, 0, 0, No))
  <2> DEFINE i == j + 2
             x == CommandText(p[i])
             r == FlatFrom(U, i)
             y == Spaced(<<Pipe>>)
  <2>0. i \in 1 .. Len(p) /\ i \in 0 .. Len(U) /\ i - 1 = j + 1 /\ i # 1 /\ (j + 1) + 1 = i /\ i \in 1 .. Len(U)
    BY <1>0, <1>13
  <2>1. t = U[i] \o r /\ r \in Seq(Character)
    <3>1. FlatFrom(U, i - 1) = U[i] \o FlatFrom(U, i)
      BY <1>4, <2>0
    <3> HIDE DEF i
    <3> QED BY <1>4, <2>0, <3>1 DEF t
  <2>2. U[i] = y \o x /\ x \in Seq(Character)
    <3>1. U[i] = Before(i) \o CommandText(p[i]) /\ PartsFacts(p[i])
      BY <1>0, <2>0
    <3> HIDE DEF i
    <3> QED BY <2>0, <3>1 DEF Before, PartsFacts
  <2>3. Left(p, j + 1, 0, 0, No) = x \o r
    <3>1. Left(p, j + 1, 0, 0, No) = CommandRest(p[(j + 1) + 1], 0, 0, No) \o FlatFrom(LineParts(p), (j + 1) + 1)
      BY DEF Left
    <3>2. CommandRest(p[i], 0, 0, No) = x
      BY <1>2, <2>0 DEF RestFacts
    <3> HIDE DEF i
    <3> QED BY <2>0, <3>1, <3>2 DEF U
  <2>4. y \in Seq(Character)
    <3>1. <<Pipe>> \in Seq(Character) /\ <<>> \in Seq(Character)
      BY <1>c
    <3> QED BY <3>1, SpacedIs
  <2> HIDE DEF x, r, i
  <2>5. x \o r \in Seq(Character) /\ t = y \o (x \o r)
    <3> HIDE DEF y
    <3>1. (y \o x) \o r = y \o (x \o r)
      BY <1>a, <2>1, <2>2, <2>4
    <3>2. x \o r \in Seq(Character)
      BY <2>1, <2>2
    <3>3. t = (y \o x) \o r
      BY <2>1, <2>2
    <3> QED BY <3>1, <3>2, <3>3
  <2>6. AtSign(y \o (x \o r), Pipe, x \o r)
    BY <1>c, <2>5, SignNext
  <2> QED BY <1>10, <2>3, <2>5, <2>6
<1> QED BY <1>7, <1>8, <1>9, <1>11, <1>12, <1>13 DEF LeftFacts, c, n, m

LEMMA LeftFirst ==
    ASSUME NEW p, PipelineFacts(p)
    PROVE  LineOf(p) = Left(p, 0, 0, 0, No)
<1> DEFINE U == LineParts(p)
           x == CommandText(p[1])
           r == FlatFrom(U, 1)
<1>1. /\ U \in Seq(Seq(Character)) /\ Len(U) = Len(p) /\ Len(p) \in Nat /\ 1 \in 1 .. Len(p)
      /\ U[1] = Before(1) \o x /\ LineOf(p) = FlattenSeq(U)
      /\ CommandFacts(p[1]) /\ PartsFacts(p[1])
  BY DEF PipelineFacts
<1>2. FlattenSeq(U) = U[1] \o r /\ r \in Seq(Character)
  <2> HIDE DEF U
  <2>3. FlatFrom(U, 0) = FlattenSeq(U) /\ \A k \in 1 .. Len(U) : FlatFrom(U, k - 1) = U[k] \o FlatFrom(U, k)
    BY <1>1, FlatFromIs
  <2>4. 1 - 1 = 0 /\ 1 \in 1 .. Len(U)
    BY <1>1
  <2>5. FlatFrom(U, 1 - 1) = U[1] \o FlatFrom(U, 1)
    BY <2>3, <2>4
  <2>1. FlatFrom(U, 0) = FlattenSeq(U) /\ FlatFrom(U, 0) = U[1] \o FlatFrom(U, 1)
    BY <2>3, <2>4, <2>5
  <2>2. 1 \in 0 .. Len(U)
    BY <1>1
  <2> QED BY <1>1, <2>1, <2>2, FlatFromIs
<1>3. Before(1) \o x = x
  <2>1. x \in Seq(Character) /\ Before(1) = <<>>
    BY <1>1 DEF PartsFacts, Before
  <2> HIDE DEF x
  <2> QED BY <2>1, ConcatEmptySeq
<1>4. CommandRest(p[1], 0, 0, No) = x
  BY <1>1, RestIs DEF RestFacts
<1>5. Left(p, 0, 0, 0, No) = x \o r
  <2>1. 0 + 1 = 1
    OBVIOUS
  <2>2. Left(p, 0, 0, 0, No) = CommandRest(p[0 + 1], 0, 0, No) \o FlatFrom(LineParts(p), 0 + 1)
    BY DEF Left
  <2> HIDE DEF x, r
  <2> QED BY <1>4, <2>1, <2>2 DEF U, r
<1> QED BY <1>1, <1>2, <1>3, <1>5

(***************************************************************************)
(* Where the parser stands in a line that is meant.                        *)
(***************************************************************************)
ReadCmds(p, j) == [i \in 1 .. j |-> MeantCmd(p[i])]

StandsAt(s) == pos = s \/ pos = Ahead(s)

ReadUpTo(p, j) ==
    /\ cmd = NoCmd /\ cmds = ReadCmds(p, j)
    /\ j < Len(p) => StandsAt(Left(p, j, 0, 0, No))
    /\ j = Len(p) => pos = <<>>
    /\ parsed => j = Len(p)

Within(p, j, k, f, b) ==
    /\ ~parsed /\ cmd = SoFar(p[j + 1], k, f, b) /\ cmds = ReadCmds(p, j)
    /\ StandsAt(Left(p, j, k, f, b))

InWords(p, j) == \E k \in 0 .. Len(p[j + 1].words) : Within(p, j, k, 0, No)
InFiles(p, j) == \E f \in 0 .. Len(p[j + 1].files) : Within(p, j, Len(p[j + 1].words), f, No)
AtEnd(p, j)   == Within(p, j, Len(p[j + 1].words), Len(p[j + 1].files), p[j + 1].background)

Follows(p) == \/ \E j \in 0 .. Len(p) : ReadUpTo(p, j)
              \/ \E j \in 0 .. (Len(p) - 1) : InWords(p, j) \/ InFiles(p, j) \/ AtEnd(p, j)

LEMMA Skips ==
    ASSUME NEW s \in Seq(Character), s = <<>> \/ s[1] # Space, StandsAt(s)
    PROVE  Skipped(pos) = s
BY SkippedIs DEF StandsAt, Ahead

TurnEnd(s) ==
    /\ s # <<>> => s[1] = Pipe
    /\ pos' = (IF s = <<>> THEN s ELSE Tail(s))
    /\ cmds' = (IF cmd.argv = <<>> THEN cmds ELSE Append(cmds, WithOpen(cmd, No)))
    /\ cmd' = NoCmd
TurnMark(s) ==
    /\ s # <<>> /\ s[1] = Amp
    /\ pos' = Tail(s) /\ cmd' = WithMark(cmd, Yes) /\ cmds' = cmds
TurnFile(s) ==
    /\ Operator(s) # <<>> /\ cmds' = cmds
    /\ LET tok == TokenOf(Skipped(SubSeq(s, Len(Operator(s)) + 1, Len(s))))
       IN  /\ pos' = tok.rest
           /\ Operator(s) \in ErrOps => cmd' = WithErr(cmd, <<Operator(s), tok.text>>)
           /\ Operator(s) \in InOps \ ErrOps => cmd' = WithIn(cmd, <<Operator(s), tok.text>>)
           /\ Operator(s) \in OutOps \ (ErrOps \cup InOps) => cmd' = WithOut(cmd, <<Operator(s), tok.text>>)
TurnWord(s) ==
    /\ s # <<>> /\ s[1] \notin Special /\ Operator(s) = <<>> /\ cmds' = cmds
    /\ pos' = Token(s).rest /\ cmd' = WithWord(cmd, Expanded(Tilde(Token(s).text)))

(* A turn of the inner loop, by what it meets.                             *)
LEMMA Turns ==
    ASSUME ParserNext, NEW s, Skipped(pos) = s, cmd.open
    PROVE  parsed' = parsed /\ (TurnEnd(s) \/ TurnMark(s) \/ TurnFile(s) \/ TurnWord(s))
<1>1. CASE BeginCommand
  BY <1>1 DEF BeginCommand
<1>2. CASE EndCommand
  <2>1. /\ s # <<>> => s[1] = Pipe
        /\ pos' = (IF s = <<>> THEN s ELSE Tail(s))
        /\ cmds' = (IF cmd.argv = <<>> THEN cmds ELSE Append(cmds, [cmd EXCEPT !.open = FALSE]))
        /\ cmd' = NoCmd /\ parsed' = parsed
    BY <1>2 DEF EndCommand, Here
  <2>2. [cmd EXCEPT !.open = FALSE] = WithOpen(cmd, No)
    BY DEF WithOpen, No
  <2> QED BY <2>1, <2>2 DEF TurnEnd
<1>3. CASE Ampersand
  <2>1. s # <<>> /\ s[1] = Amp /\ cmd' = [cmd EXCEPT !.background = TRUE] /\ pos' = Tail(s) /\ UNCHANGED <<cmds, parsed>>
    BY <1>3 DEF Ampersand, Here
  <2>2. [cmd EXCEPT !.background = TRUE] = WithMark(cmd, Yes)
    BY DEF WithMark, Yes
  <2> QED BY <2>1, <2>2 DEF TurnMark
<1>4. CASE Redirection
  <2> DEFINE op == Operator(s)
             tok == TokenOf(Skipped(SubSeq(s, Len(op) + 1, Len(s))))
  <2>1. /\ op # <<>> /\ pos' = tok.rest /\ UNCHANGED <<cmds, parsed>>
        /\ cmd' = CASE op \in ErrOps -> [cmd EXCEPT !.redir.err = <<op, tok.text>>]
                    [] op \in InOps  -> [cmd EXCEPT !.redir.in = <<op, tok.text>>]
                    [] op \in OutOps -> [cmd EXCEPT !.redir.out = <<op, tok.text>>]
    BY <1>4 DEF Redirection, Here
  <2> HIDE DEF op, tok
  <2>d. (op \in InOps => op \notin OutOps \cup ErrOps) /\ (op \in OutOps => op \notin ErrOps)
    BY SignsDiffer DEF InOps, OutOps, ErrOps
  <2>2. op \in ErrOps => cmd' = WithErr(cmd, <<op, tok.text>>)
    BY <2>1, <2>d DEF WithErr
  <2>3. op \in InOps \ ErrOps => cmd' = WithIn(cmd, <<op, tok.text>>)
    BY <2>1, <2>d DEF WithIn
  <2>4. op \in OutOps \ (ErrOps \cup InOps) => cmd' = WithOut(cmd, <<op, tok.text>>)
    BY <2>1, <2>d DEF WithOut
  <2> QED BY <2>1, <2>2, <2>3, <2>4 DEF TurnFile, op, tok
<1>5. CASE Argument
  <2>1. /\ s # <<>> /\ s[1] \notin Special /\ Operator(s) = <<>> /\ UNCHANGED <<cmds, parsed>>
        /\ pos' = Token(s).rest /\ cmd' = [cmd EXCEPT !.argv = Append(@, Expanded(Tilde(Token(s).text)))]
    BY <1>5 DEF Argument, Here
  <2> QED BY <2>1 DEF TurnWord, WithWord
<1> QED BY <1>1, <1>2, <1>3, <1>4, <1>5 DEF ParserNext

LEMMA SoFarOpen == \A c, k, f, b : SoFar(c, k, f, b).open
<1> SUFFICES ASSUME NEW c, NEW k, NEW f, NEW b
             PROVE  SoFar(c, k, f, b).open
  OBVIOUS
<1>1. SoFar(c, k, f, b).open = Yes
  BY RecIs DEF SoFar
<1> QED BY <1>1 DEF Yes

LEMMA AheadIs == \A u \in Seq(Character) : Ahead(u) # <<>>
BY SpacedIs

LEMMA StepBetween ==
    ASSUME NEW p, PipelineFacts(p), NEW j \in 0 .. Len(p), ReadUpTo(p, j), ParserTypes, ParserNext
    PROVE  Follows(p)'
<1>0. Len(p) \in Nat /\ Len(p) <= MaxPipes /\ MaxPipes \in Nat /\ 1 \in 1 .. Len(p)
  BY DEF PipelineFacts
<1>1. cmd = NoCmd /\ ~cmd.open /\ cmds = ReadCmds(p, j)
  BY NoCmdIs DEF ReadUpTo
<1>2. Len(cmds) = j
  BY <1>0, <1>1 DEF ReadCmds
<1>3. BeginCommand
  BY <1>1 DEF ParserNext, EndCommand, Ampersand, Redirection, Argument, Reading
<1>4. UNCHANGED <<meant, pos, cmds>> /\ ~parsed
  BY <1>3 DEF BeginCommand
<1>5. CASE j < Len(p)
  <2>1. StandsAt(Left(p, j, 0, 0, No)) /\ j \in 0 .. (Len(p) - 1) /\ j + 1 \in 1 .. Len(p)
    BY <1>0, <1>5 DEF ReadUpTo
  <2>2. Left(p, j, 0, 0, No) # <<>> /\ Left(p, j, 0, 0, No) \in Seq(Character)
    <3> DEFINE c == p[j + 1]
    <3>1. LeftFacts(p, j) /\ Len(c.words) \in Nat \ {0}
      BY <2>1, LeftIs DEF PipelineFacts, CommandFacts
    <3>2. 1 \in 1 .. Len(c.words) /\ 1 - 1 = 0
      BY <3>1
    <3> HIDE DEF c
    <3>3. ReadsAs(Left(p, j, 1 - 1, 0, No), WordRaw(c.words[1]), Left(p, j, 1, 0, No))
      BY <3>1, <3>2 DEF LeftFacts, c
    <3>4. ReadsAs(Left(p, j, 0, 0, No), WordRaw(c.words[1]), Left(p, j, 1, 0, No))
      BY <3>2, <3>3
    <3> QED BY <3>4 DEF ReadsAs, Starts
  <2>3. pos # <<>>
    <3> DEFINE R == Left(p, j, 0, 0, No)
    <3>1. R \in Seq(Character) /\ R # <<>> /\ (pos = R \/ pos = Ahead(R))
      BY <2>1, <2>2 DEF StandsAt
    <3> HIDE DEF R
    <3>2. Ahead(R) # <<>>
      BY <3>1, AheadIs
    <3> QED BY <3>1, <3>2
  <2>4. Len(cmds) # MaxPipes
    BY <1>0, <1>2, <1>5
  <2>5. cmd' = [NoCmd EXCEPT !.open = TRUE] /\ parsed' = parsed
    BY <1>3, <2>3, <2>4 DEF BeginCommand
  <2>6. cmd' = WithOpen(NoCmd, Yes)
    BY <2>5 DEF WithOpen, Yes
  <2>7. cmd' = SoFar(p[j + 1], 0, 0, No)
    BY <2>6, SoFarNothing
  <2>8. Within(p, j, 0, 0, No)'
    BY <1>1, <1>4, <2>1, <2>5, <2>7 DEF Within, StandsAt
  <2>9. 0 \in 0 .. Len(p[j + 1].words)
    BY <2>1 DEF PipelineFacts, CommandFacts
  <2>10. InWords(p, j)'
    BY <2>8, <2>9 DEF InWords
  <2> QED BY <2>1, <2>10 DEF Follows
<1>6. CASE j = Len(p)
  <2>1. pos = <<>>
    BY <1>6 DEF ReadUpTo
  <2>2. cmd' = cmd
    BY <1>3, <2>1 DEF BeginCommand
  <2>3. ReadUpTo(p, j)'
    BY <1>0, <1>1, <1>4, <1>6, <2>1, <2>2 DEF ReadUpTo
  <2> QED BY <2>3 DEF Follows
<1> QED BY <1>0, <1>5, <1>6

LEMMA StepWord ==
    ASSUME NEW p, PipelineFacts(p), NEW j \in 0 .. (Len(p) - 1), NEW k \in 1 .. Len(p[j + 1].words),
           Untouched(p[j + 1].words[k]),
           Within(p, j, k - 1, 0, No), ParserNext
    PROVE  Follows(p)'
<1> DEFINE c == p[j + 1]
           s == Left(p, j, k - 1, 0, No)
           u == Left(p, j, k, 0, No)
           t == WordRaw(c.words[k])
<1>0. j + 1 \in 1 .. Len(p)
  BY DEF PipelineFacts
<1>1. CommandFacts(c) /\ LeftFacts(p, j)
  BY <1>0, LeftIs DEF PipelineFacts
<1>2. ReadsAs(s, t, u)
  BY <1>1 DEF LeftFacts
<1>3. WordFacts(c.words[k]) /\ Untouched(c.words[k])
  BY <1>1 DEF CommandFacts
<1>4. /\ ~parsed /\ cmd = SoFar(c, k - 1, 0, No) /\ cmds = ReadCmds(p, j) /\ StandsAt(s)
  BY DEF Within
<1> HIDE DEF s, u, t, c
<1>5. s \in Seq(Character) /\ Starts(s) /\ (Token(s) = [text |-> t, rest |-> u] \/ Token(s) = [text |-> t, rest |-> Ahead(u)])
  BY <1>2 DEF ReadsAs
<1>6. s # <<>> /\ s[1] \notin Special \cup {Space} /\ Operator(s) = <<>>
  BY <1>5, NoOperator DEF Starts
<1>7. Skipped(pos) = s
  BY <1>4, <1>5, <1>6, Skips
<1>8. parsed' = parsed /\ TurnWord(s)
  <2>1. cmd.open
    BY <1>4, SoFarOpen
  <2>2. ~TurnEnd(s) /\ ~TurnMark(s) /\ ~TurnFile(s)
    BY <1>6 DEF TurnEnd, TurnMark, TurnFile, Special
  <2> QED BY <1>7, <2>1, <2>2, Turns
<1>9. Token(s).text = t /\ (Token(s).rest = u \/ Token(s).rest = Ahead(u))
  BY <1>5
<1>10. cmd' = WithWord(cmd, WordMeans(c.words[k]))
  BY <1>3, <1>8, <1>9 DEF TurnWord, WordFacts, t
<1>11. cmd' = SoFar(c, k, 0, No)
  BY <1>1, <1>4, <1>10, SoFarWord DEF c
<1>12. (pos' = u \/ pos' = Ahead(u)) /\ cmds' = cmds
  BY <1>8, <1>9 DEF TurnWord
<1>13. Within(p, j, k, 0, No)'
  BY <1>4, <1>8, <1>11, <1>12 DEF Within, StandsAt, c, u
<1>14. k \in 0 .. Len(p[j + 1].words)
  BY <1>1 DEF CommandFacts, c
<1>15. InWords(p, j)'
  BY <1>13, <1>14 DEF InWords
<1> QED BY <1>15 DEF Follows

LEMMA StepFile ==
    ASSUME NEW p, PipelineFacts(p), NEW j \in 0 .. (Len(p) - 1), NEW f \in 1 .. Len(p[j + 1].files),
           Within(p, j, Len(p[j + 1].words), f - 1, No), ParserNext
    PROVE  Follows(p)'
<1> DEFINE c == p[j + 1]
           n == Len(c.words)
           x == c.files[f]
           s == Left(p, j, n, f - 1, No)
           u == Left(p, j, n, f, No)
           Y == Skipped(SubSeq(s, Len(x.op) + 1, Len(s)))
<1>0. j + 1 \in 1 .. Len(p)
  BY DEF PipelineFacts
<1>1. CommandFacts(c) /\ LeftFacts(p, j)
  BY <1>0, LeftIs DEF PipelineFacts
<1>2. AtFile(s, x, u)
  BY <1>1 DEF LeftFacts
<1>4. /\ ~parsed /\ cmd = SoFar(c, n, f - 1, No) /\ cmds = ReadCmds(p, j) /\ StandsAt(s)
  BY DEF Within
<1>d. cmd = SoFar(c, n, f - 1, No) /\ f \in 1 .. Len(c.files)
  BY <1>4
<1>e. CommandFacts(c) /\ x = c.files[f]
  BY <1>1
<1> HIDE DEF s, u, x, c, n
<1>f. /\ x.op \in InOps \cup OutOps \cup ErrOps
      /\ x.op \in ErrOps => SoFar(c, n, f, No) = WithErr(cmd, <<x.op, x.name>>)
      /\ x.op \in InOps  => SoFar(c, n, f, No) = WithIn(cmd, <<x.op, x.name>>) /\ x.op \notin ErrOps
      /\ x.op \in OutOps => SoFar(c, n, f, No) = WithOut(cmd, <<x.op, x.name>>) /\ x.op \notin ErrOps \cup InOps
  <2> DEFINE d == SoFar(c, n, f - 1, No)
  <2>1. d = SoFar(c, n, f - 1, No) /\ d = cmd
    BY <1>d
  <2> HIDE DEF d
  <2>2. SoFarAfter(c, n, f, x, d)
    BY <1>d, <1>e, <2>1, SoFarFile
  <2> QED BY <2>1, <2>2 DEF SoFarAfter
<1>5. /\ s \in Seq(Character) /\ s # <<>> /\ s[1] \notin {Space, Pipe, Amp}
      /\ Operator(s) = x.op /\ x.op # <<>> /\ ReadsAs(Y, x.name, u)
  BY <1>2 DEF AtFile
<1>7. Skipped(pos) = s
  <2>1. s[1] # Space
    BY <1>5
  <2> QED BY <1>4, <1>5, <2>1, Skips
<1>8. parsed' = parsed /\ TurnFile(s)
  <2>1. cmd.open
    BY <1>4, SoFarOpen
  <2>2. ~TurnEnd(s) /\ ~TurnMark(s) /\ ~TurnWord(s)
    BY <1>5 DEF TurnEnd, TurnMark, TurnWord
  <2> QED BY <1>7, <2>1, <2>2, Turns
<1> HIDE DEF Y
<1>9. TokenOf(Y) = Token(Y)
  BY <1>5 DEF ReadsAs, Starts, TokenOf
<1> DEFINE tok == TokenOf(Y)
<1>10. tok.text = x.name /\ (tok.rest = u \/ tok.rest = Ahead(u))
  BY <1>5, <1>9 DEF ReadsAs
<1>11. /\ pos' = tok.rest /\ cmds' = cmds
       /\ x.op \in ErrOps => cmd' = WithErr(cmd, <<x.op, tok.text>>)
       /\ x.op \in InOps \ ErrOps => cmd' = WithIn(cmd, <<x.op, tok.text>>)
       /\ x.op \in OutOps \ (ErrOps \cup InOps) => cmd' = WithOut(cmd, <<x.op, tok.text>>)
  BY <1>5, <1>8 DEF TurnFile, Y
<1> HIDE DEF tok
<1>12. cmd' = SoFar(c, n, f, No)
  BY <1>10, <1>11, <1>f
<1>13. Within(p, j, n, f, No)'
  BY <1>4, <1>8, <1>10, <1>11, <1>12 DEF Within, StandsAt, c, u
<1>14. f \in 0 .. Len(p[j + 1].files)
  BY <1>1 DEF CommandFacts, c
<1>15. InFiles(p, j)'
  BY <1>13, <1>14 DEF InFiles, n, c
<1> QED BY <1>15 DEF Follows

LEMMA StepMark ==
    ASSUME NEW p, PipelineFacts(p), NEW j \in 0 .. (Len(p) - 1), p[j + 1].background,
           Within(p, j, Len(p[j + 1].words), Len(p[j + 1].files), No), ParserNext
    PROVE  Follows(p)'
<1> DEFINE c == p[j + 1]
           n == Len(c.words)
           m == Len(c.files)
           b == c.background
           s == Left(p, j, n, m, No)
           u == Left(p, j, n, m, b)
<1>0. j + 1 \in 1 .. Len(p)
  BY DEF PipelineFacts
<1>1. CommandFacts(c) /\ LeftFacts(p, j)
  BY <1>0, LeftIs DEF PipelineFacts
<1>2. AtSign(s, Amp, u)
  BY <1>1 DEF LeftFacts
<1>3. b = Yes
  BY <1>1 DEF CommandFacts, Yes
<1>4. /\ ~parsed /\ cmd = SoFar(c, n, m, No) /\ cmds = ReadCmds(p, j) /\ StandsAt(s)
  BY DEF Within
<1> HIDE DEF s, u, c, n, m, b
<1>5. s \in Seq(Character) /\ s # <<>> /\ s[1] = Amp /\ Tail(s) = Ahead(u)
  BY <1>2 DEF AtSign
<1>6. s[1] # Space /\ s[1] # Pipe /\ s[1] \in Special /\ Operator(s) = <<>>
  <2>1. Amp \notin {Space, Pipe, Lt, Gt, Two}
    BY SignsDiffer
  <2> QED BY <1>5, <2>1 DEF Special, Operator
<1>7. Skipped(pos) = s
  BY <1>4, <1>5, <1>6, Skips
<1>8. parsed' = parsed /\ TurnMark(s)
  <2>1. cmd.open
    BY <1>4, SoFarOpen
  <2>2. ~TurnEnd(s) /\ ~TurnFile(s) /\ ~TurnWord(s)
    BY <1>5, <1>6 DEF TurnEnd, TurnFile, TurnWord
  <2> QED BY <1>7, <2>1, <2>2, Turns
<1>9. cmd' = WithMark(cmd, Yes) /\ pos' = Ahead(u) /\ cmds' = cmds
  BY <1>5, <1>8 DEF TurnMark
<1>10. cmd' = SoFar(c, n, m, b)
  <2>1. cmd = Rec(ReadWords(c, n), ReadFiles(c, m), No, Yes)
    BY <1>4 DEF SoFar
  <2>2. WithMark(Rec(ReadWords(c, n), ReadFiles(c, m), No, Yes), Yes) = Rec(ReadWords(c, n), ReadFiles(c, m), Yes, Yes)
    BY RecIs
  <2> QED BY <1>3, <1>9, <2>1, <2>2 DEF SoFar
<1>13. Within(p, j, n, m, b)'
  BY <1>4, <1>8, <1>9, <1>10 DEF Within, StandsAt, c, u
<1>15. AtEnd(p, j)'
  BY <1>13 DEF AtEnd, n, m, b, c
<1> QED BY <1>15 DEF Follows

LEMMA StepEnd ==
    ASSUME NEW p, PipelineFacts(p), NEW j \in 0 .. (Len(p) - 1), AtEnd(p, j), ParserNext
    PROVE  Follows(p)'
<1> DEFINE c == p[j + 1]
           n == Len(c.words)
           m == Len(c.files)
           b == c.background
           s == Left(p, j, n, m, b)
           u == Left(p, j + 1, 0, 0, No)
           i == j + 1
<1>0. i \in 1 .. Len(p) /\ Len(p) \in Nat /\ i \in Nat /\ j \in Nat /\ i \in 0 .. Len(p)
  BY DEF PipelineFacts
<1>1. CommandFacts(c) /\ LeftFacts(p, j)
  BY <1>0, LeftIs DEF PipelineFacts
<1>2. (i = Len(p) => s = <<>>) /\ (i < Len(p) => AtSign(s, Pipe, u))
  BY <1>1 DEF LeftFacts
<1>4. /\ ~parsed /\ cmd = SoFar(c, n, m, b) /\ cmds = ReadCmds(p, j) /\ StandsAt(s)
  BY DEF AtEnd, Within
<1>3. WithOpen(cmd, No) = MeantCmd(c) /\ cmd.argv # <<>>
  <2> DEFINE d == SoFar(c, n, m, b)
  <2>1. d = SoFar(c, Len(c.words), Len(c.files), c.background)
    OBVIOUS
  <2> HIDE DEF c, d
  <2>2. WithOpen(d, No) = MeantCmd(c) /\ d.argv # <<>>
    BY <1>1, <2>1, SoFarAll
  <2>3. d = cmd
    BY <1>4, <2>1
  <2> QED BY <2>2, <2>3
<1> HIDE DEF s, u, c, n, m, b, i
<1>5. s \in Seq(Character) /\ (s # <<>> => s[1] = Pipe)
  <2>1. CASE i = Len(p)
    <3>1. s = <<>>
      BY <1>2, <2>1
    <3>2. <<>> \in Seq(Character)
      OBVIOUS
    <3> QED BY <3>1, <3>2
  <2>2. CASE i < Len(p)
    <3>1. AtSign(s, Pipe, u)
      BY <1>2, <2>2
    <3> QED BY <3>1 DEF AtSign
  <2> QED BY <1>0, <2>1, <2>2
<1>d. Pipe \notin {Space, Amp, Lt, Gt, Two} /\ Pipe \in Special
  BY SignsDiffer DEF Special
<1>6. Operator(s) = <<>> /\ (s = <<>> \/ s[1] # Space)
  BY <1>5, <1>d DEF Operator
<1>7. Skipped(pos) = s
  BY <1>4, <1>5, <1>6, Skips
<1>8. parsed' = parsed /\ TurnEnd(s)
  <2>1. cmd.open
    BY <1>4, SoFarOpen
  <2>2. ~TurnMark(s) /\ ~TurnFile(s) /\ ~TurnWord(s)
    BY <1>5, <1>6, <1>d DEF TurnMark, TurnFile, TurnWord
  <2> QED BY <1>7, <2>1, <2>2, Turns
<1>9. /\ cmd' = NoCmd /\ cmds' = Append(cmds, MeantCmd(c))
      /\ (i = Len(p) => pos' = <<>>) /\ (i < Len(p) => pos' = Ahead(u))
  BY <1>0, <1>2, <1>3, <1>8 DEF TurnEnd, AtSign
<1>10. cmds' = ReadCmds(p, i)
  <2> DEFINE x == ReadCmds(p, j)
             y == ReadCmds(p, i)
             V == {MeantCmd(p[e]) : e \in 1 .. i}
             z == Append(x, MeantCmd(c))
  <2>1. i = j + 1 /\ c = p[i]
    BY DEF i, c
  <2>2. x \in Seq(V) /\ Len(x) = j /\ y \in Seq(V) /\ Len(y) = i /\ MeantCmd(c) \in V
    <3>1. \A e \in 1 .. j : e \in 1 .. i
      BY <1>0, <2>1
    <3>2. i \in 1 .. i
      BY <1>0
    <3> QED BY <1>0, <2>1, <3>1, <3>2 DEF ReadCmds
  <2>3. \A e \in 1 .. j : x[e] = y[e]
    BY <1>0, <2>1 DEF ReadCmds
  <2>4. y[i] = MeantCmd(c)
    BY <1>0, <2>1 DEF ReadCmds
  <2> DEFINE w == MeantCmd(c)
  <2> HIDE DEF x, y, V, w
  <2>5. z \in Seq(V) /\ Len(z) = i /\ (\A e \in 1 .. j : z[e] = x[e]) /\ z[i] = w
    <3>1. w \in V
      BY <2>2 DEF w
    <3> QED BY <1>0, <2>1, <2>2, <3>1 DEF w
  <2> HIDE DEF z
  <2>6. \A e \in 1 .. i : z[e] = y[e]
    <3>1. \A e \in 1 .. i : e \in 1 .. j \/ e = i
      BY <1>0, <2>1
    <3> QED BY <2>3, <2>4, <2>5, <3>1 DEF w
  <2>7. z = y
    BY <2>2, <2>5, <2>6, SeqEqual
  <2> QED BY <1>4, <1>9, <2>7 DEF x, y, z
<1>11. ReadUpTo(p, i)'
  BY <1>0, <1>4, <1>8, <1>9, <1>10 DEF ReadUpTo, StandsAt, u, i
<1> QED BY <1>0, <1>11 DEF Follows

LEMMA FollowsStep ==
    ASSUME NEW p, PipelineFacts(p), AllUntouched(p), Follows(p), ParserTypes, ParserNext
    PROVE  Follows(p)'
<1>1. CASE \E j \in 0 .. Len(p) : ReadUpTo(p, j)
  BY <1>1, StepBetween
<1>2. ASSUME NEW j \in 0 .. (Len(p) - 1), InWords(p, j) \/ InFiles(p, j) \/ AtEnd(p, j)
      PROVE  Follows(p)'
  <2> DEFINE c == p[j + 1]
             n == Len(c.words)
             m == Len(c.files)
  <2>1. n \in Nat /\ m \in Nat /\ c.background \in BOOLEAN
    <3>1. j + 1 \in 1 .. Len(p)
      BY DEF PipelineFacts
    <3> QED BY <3>1 DEF PipelineFacts, CommandFacts
  <2>6. j + 1 \in DOMAIN p /\ DOMAIN p[j + 1].words = 1 .. n
    <3>1. j + 1 \in 1 .. Len(p) /\ DOMAIN p = 1 .. Len(p)
      BY DEF PipelineFacts
    <3> QED BY <3>1 DEF PipelineFacts, CommandFacts
  <2>2. ASSUME NEW f \in 0 .. m, Within(p, j, n, f, No)
        PROVE  Follows(p)'
    <3>1. CASE f < m
      <4>1. f + 1 \in 1 .. m /\ (f + 1) - 1 = f
        BY <2>1, <3>1
      <4>2. Within(p, j, n, (f + 1) - 1, No)
        BY <2>2, <4>1
      <4> QED BY <4>1, <4>2, StepFile
    <3>2. CASE f = m /\ c.background
      <4>1. Within(p, j, n, m, No)
        BY <2>2, <3>2
      <4> QED BY <3>2, <4>1, StepMark
    <3>3. CASE f = m /\ ~c.background
      <4>1. c.background = No
        BY <2>1, <3>3 DEF No
      <4>2. Within(p, j, n, m, c.background)
        BY <2>2, <3>3, <4>1
      <4>3. AtEnd(p, j)
        BY <4>2 DEF AtEnd
      <4> QED BY <4>3, StepEnd
    <3> QED BY <2>1, <3>1, <3>2, <3>3
  <2>3. CASE InWords(p, j)
    <3>1. PICK k \in 0 .. n : Within(p, j, k, 0, No)
      BY <2>3 DEF InWords
    <3>2. CASE k < n
      <4>1. k + 1 \in 1 .. n /\ (k + 1) - 1 = k
        BY <2>1, <3>2
      <4>2. Within(p, j, (k + 1) - 1, 0, No)
        BY <3>1, <4>1
      <4>3. Untouched(p[j + 1].words[k + 1])
        BY <4>1, <2>6 DEF AllUntouched
      <4> QED BY <4>1, <4>2, <4>3, StepWord
    <3>3. CASE k = n
      <4>1. Within(p, j, n, 0, No) /\ 0 \in 0 .. m
        BY <2>1, <3>1, <3>3
      <4> HIDE DEF n, m
      <4> QED BY <2>2, <4>1
    <3> QED BY <2>1, <3>2, <3>3
  <2>4. CASE InFiles(p, j)
    <3>1. \E f \in 0 .. m : Within(p, j, n, f, No)
      BY <2>4 DEF InFiles
    <3> HIDE DEF n, m
    <3> QED BY <2>2, <3>1
  <2>5. CASE AtEnd(p, j)
    BY <2>5, StepEnd
  <2> QED BY <1>2, <2>3, <2>4, <2>5
<1> QED BY <1>1, <1>2 DEF Follows

(* The inductive invariant: the parser stands somewhere in the line that   *)
(* is meant, and has read of it what stands before that place.             *)
AsMeant == meant # <<>> /\ AllUntouched(meant) => \E p \in Meant : meant = p /\ Follows(p)

LEMMA InitAsMeant == ParserInit => AsMeant
<1> SUFFICES ASSUME ParserInit, meant # <<>>
             PROVE  \E p \in Meant : meant = p /\ Follows(p)
  BY DEF AsMeant
<1>1. PICK p \in Meant : meant = p /\ pos = Stripped(LineOf(p))
  BY DEF ParserInit
<1>2. cmd = NoCmd /\ cmds = <<>> /\ ~parsed
  BY DEF ParserInit
<1>3. PipelineFacts(p)
  BY PipelineIs
<1>4. Len(p) \in Nat /\ 0 \in 0 .. Len(p) /\ 0 < Len(p)
  BY <1>3 DEF PipelineFacts
<1>5. pos = Left(p, 0, 0, 0, No)
  BY <1>1, <1>3, LineStaysWhole, LeftFirst
<1>6. ReadCmds(p, 0) = <<>>
  BY DEF ReadCmds
<1>7. ReadUpTo(p, 0)
  BY <1>2, <1>4, <1>5, <1>6 DEF ReadUpTo, StandsAt
<1> QED BY <1>1, <1>4, <1>7 DEF Follows

LEMMA StepAsMeant == ParserTypes /\ AsMeant /\ [ParserNext]_parserVars => AsMeant'
<1> SUFFICES ASSUME ParserTypes, AsMeant, [ParserNext]_parserVars, meant' # <<>>, AllUntouched(meant')
             PROVE  \E p \in Meant : meant' = p /\ Follows(p)'
  BY DEF AsMeant
<1>1. meant' = meant
  BY DEF ParserNext, BeginCommand, EndCommand, Ampersand, Redirection, Argument, parserVars
<1>2. PICK p \in Meant : meant = p /\ Follows(p)
  BY <1>1 DEF AsMeant
<1>3. PipelineFacts(p) /\ AllUntouched(p)
  BY <1>1, <1>2, PipelineIs
<1>4. CASE ParserNext
  BY <1>1, <1>2, <1>3, <1>4, FollowsStep
<1>5. CASE UNCHANGED parserVars
  <2>1. pos' = pos /\ cmd' = cmd /\ cmds' = cmds /\ parsed' = parsed
    BY <1>5 DEF parserVars
  <2>2. Follows(p)'
    BY <1>2, <2>1 DEF Follows, ReadUpTo, InWords, InFiles, AtEnd, Within, StandsAt
  <2> QED BY <1>1, <1>2, <2>2
<1> QED BY <1>4, <1>5

LEMMA MeansParserInv == ParserTypes /\ AsMeant => ParserInv
<1> SUFFICES ASSUME ParserTypes, AsMeant
             PROVE  ParserInv
  OBVIOUS
<1>1. ParserTypeOK
  <2>1. DOMAIN cmds = 1 .. Len(cmds)
    <3>1. cmds \in Seq(CommandRead)
      BY DEF ParserTypes
    <3> HIDE DEF CommandRead
    <3> QED BY <3>1
  <2> QED BY <2>1 DEF ParserTypes, ParserTypeOK
<1>2. ASSUME parsed, meant # <<>>, AllUntouched(meant)
      PROVE  cmds = [i \in DOMAIN meant |-> MeantCmd(meant[i])]
  <2>1. PICK p \in Meant : meant = p /\ Follows(p)
    BY <1>2 DEF AsMeant
  <2>2. DOMAIN p = 1 .. Len(p)
    BY PipelineIs DEF PipelineFacts
  <2>3. \E j \in 0 .. Len(p) : ReadUpTo(p, j)
    BY <1>2, <2>1 DEF Follows, InWords, InFiles, AtEnd, Within
  <2>4. cmds = ReadCmds(p, Len(p))
    BY <1>2, <2>3 DEF ReadUpTo
  <2> QED BY <2>1, <2>2, <2>4 DEF ReadCmds
<1> QED BY <1>1, <1>2 DEF ParserInv, ReadAsMeant

(***************************************************************************)
(* What was written is what is run.  For every environment, every home      *)
(* directory and every pipeline that can be written down, of any number of  *)
(* commands, words and files: the line, with its words quoted or escaped,   *)
(* is read by parser_parse_line as the commands that were meant, argument   *)
(* by argument and file by file, unless quotes were to keep a $ or a tilde  *)
(* from being expanded (AllUntouched); and no line at all, meant or not, leaves   *)
(* a command without arguments or more than MaxPipes of them.               *)
(***************************************************************************)
THEOREM LinesReadAsMeant == ParserSpec => []ParserInv
<1>1. ParserInit => ParserTypes /\ AsMeant
  BY ParserInitTypes, InitAsMeant
<1>2. ParserTypes /\ AsMeant /\ [ParserNext]_parserVars => (ParserTypes /\ AsMeant)'
  BY ParserStepTypes, StepAsMeant
<1>3. ParserTypes /\ AsMeant => ParserInv
  BY MeansParserInv
<1> QED BY <1>1, <1>2, <1>3, PTL DEF ParserSpec
=============================================================================
