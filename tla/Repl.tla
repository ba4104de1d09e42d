-------------------------------- MODULE Repl --------------------------------
(***************************************************************************)
(* The prompt of BotShell, src/shell/src/botshell.c: the line editor       *)
(* (read_line_interactive) with its history and its completion, and the    *)
(* loop of botshell_run around it.  A line is a sequence of characters; a  *)
(* block that was collected over several lines is one entry of the history *)
(* with NL between them.                                                   *)
(*                                                                         *)
(* The terminal is taken as the code drives it: `screen' is what stands    *)
(* after the prompt on the last line, changed by the same writes.  Keys    *)
(* that arrive while no line is read are lost (TCSAFLUSH).                 *)
(***************************************************************************)
EXTENDS Integers, Sequences, FiniteSets, SequencesExt

CONSTANTS Char,           \* printable characters that are typed
          Opener, Closer, \* the lines that begin and end a block
          Names,          \* what find_completions knows, as sequences
          Blank, NL,      \* ' ' and '\n'
          MaxInput,       \* BOTSHELL_MAX_INPUT - 1
          MaxText,        \* what block_buf holds of a block that goes on
          MaxHistory,     \* BOTSHELL_MAX_HISTORY
          Interrupts,     \* whether the shell is sent SIGINT from outside
          MaxPresses      \* bound on the keys and signals of a behaviour

ASSUME ReplAssumption ==
    /\ MaxInput \in Nat /\ MaxInput > 1 /\ MaxHistory \in Nat /\ MaxHistory > 0
    /\ MaxText \in Nat
    /\ MaxPresses \in Nat /\ Interrupts \in BOOLEAN
    /\ Names \subseteq Seq(Char \cup {Blank})

VARIABLES doing,     \* "prompt", "read", "run" or "left"
          tty,       \* the mode of the terminal
          input,     \* buf and len of read_line_interactive
          screen, browse, tabs,   \* history_browse_idx (0 for -1), tab_count
          pending,   \* block_buf, empty outside a block
          history,                \* g_history
          entered,                \* what was submitted, a repeated line once
          errno, how,             \* how the last line was ended
          presses

replVars == <<doing, tty, input, screen, browse, tabs, pending, history,
              entered, errno, how, presses>>

-----------------------------------------------------------------------------
Line == Seq(Char \cup {Blank, NL})

(* history_add: no entry twice in a row, and the oldest goes at the limit. *)
Added(h, line) ==
    IF h # <<>> /\ Last(h) = line THEN h
    ELSE Append(IF Len(h) >= MaxHistory THEN Tail(h) ELSE h, line)

(* What the completion works on: the word that ends the line, and the names *)
(* that begin with it.                                                      *)
AfterLast(s, C) ==
    LET cuts == {i \in DOMAIN s : s[i] \in C}
        c == IF cuts = {} THEN 0 ELSE CHOOSE i \in cuts : \A j \in cuts : j <= i
    IN  SubSeq(s, c + 1, Len(s))
LastWord(s) == AfterLast(s, {Blank})
Matches(s) == {n \in Names : IsPrefix(LastWord(s), n)}
Common(ns) ==
    LET n == CHOOSE x \in ns : TRUE
        k == CHOOSE i \in 0..Len(n) :
               /\ \A x \in ns : IsPrefix(SubSeq(n, 1, i), x)
               /\ i < Len(n) => \E x \in ns : ~IsPrefix(SubSeq(n, 1, i + 1), x)
    IN  SubSeq(n, 1, k)

-----------------------------------------------------------------------------
ReplInit ==
    /\ doing = "prompt" /\ tty = "cooked" /\ input = <<>> /\ screen = <<>>
    /\ browse = 0 /\ tabs = 0 /\ pending = <<>> /\ history = <<>> /\ entered = <<>>
    /\ errno = "other" /\ how = "none" /\ presses = 0

(* The prompt ("> " inside a block) and the entry to read_line_interactive. *)
Prompt ==
    /\ doing = "prompt"
    /\ doing' = "read" /\ tty' = "raw"
    /\ input' = <<>> /\ screen' = <<>> /\ browse' = 0 /\ tabs' = 0
    /\ UNCHANGED <<pending, history, entered, errno, how, presses>>

Press == /\ doing = "read" /\ Len(input) < MaxInput
         /\ presses < MaxPresses /\ presses' = presses + 1

Stays == UNCHANGED <<doing, tty, pending, history, entered, errno, how>>

TypeChar == \E c \in Char :
    /\ Press
    /\ input' = Append(input, c) /\ screen' = Append(screen, c) /\ tabs' = 0
    /\ UNCHANGED browse /\ Stays

(* Erasing what is shown takes one "\b \b" for each character of the       *)
(* buffer; nothing moves the cursor to an earlier line.                    *)
Erased(s, n) ==
    LET line == Len(AfterLast(s, {NL}))
    IN  SubSeq(s, 1, Len(s) - (IF n < line THEN n ELSE line))

Backspace ==
    /\ Press /\ tabs' = 0
    /\ input' = (IF input = <<>> THEN input ELSE Front(input))
    /\ screen' = (IF input = <<>> THEN screen ELSE Erased(screen, 1))
    /\ UNCHANGED browse /\ Stays

(* strncpy of an entry that fills the buffer, or is longer, gives it no    *)
(* end: what lies behind counts as more of the line, here nothing or one   *)
(* character, and the loop ends at once (LineFull).                        *)
Recalled(entry) ==
    IF Len(entry) < MaxInput THEN {entry}
    ELSE {SubSeq(entry, 1, MaxInput) \o rest : rest \in {<<>>} \cup {<<c>> : c \in Char}}

Recall(i) ==
    /\ browse' = i /\ input' \in Recalled(history[i])
    /\ screen' = Erased(screen, Len(input)) \o input'

UpArrow ==
    /\ Press /\ history # <<>>
    /\ Recall(IF browse = 0 THEN Len(history) ELSE IF browse > 1 THEN browse - 1 ELSE browse)
    /\ UNCHANGED tabs /\ Stays

(* Mutant of DownArrow: leaving the history clears the buffer, not the screen. *)
DownArrowKeepsScreen ==
    /\ Press /\ browse > 0
    /\ \/ /\ browse < Len(history) /\ Recall(browse + 1)
       \/ /\ browse = Len(history)
          /\ browse' = 0 /\ input' = <<>> /\ screen' = screen
    /\ UNCHANGED tabs /\ Stays

DownArrow ==
    /\ Press /\ browse > 0
    /\ \/ /\ browse < Len(history) /\ Recall(browse + 1)
       \/ /\ browse = Len(history)
          /\ browse' = 0 /\ input' = <<>> /\ screen' = Erased(screen, Len(input))
    /\ UNCHANGED tabs /\ Stays

(* Ctrl-Z: the shell ignores SIGTSTP, so all that happens is that the      *)
(* prompt and the line are drawn again.                                    *)
CtrlZ == Press /\ screen' = input /\ UNCHANGED <<input, browse, tabs>> /\ Stays

(* One match is completed with a blank, several up to what they share; a   *)
(* second Tab in a row lists them and draws the prompt and the line again. *)
TabKey ==
    /\ Press
    /\ tabs' = 1
    /\ LET ms   == Matches(input)
           word == LastWord(input)
           more == IF ms = {} THEN <<>>
                   ELSE IF Cardinality(ms) = 1
                     THEN Append(SubSeq(Common(ms), Len(word) + 1, Len(Common(ms))), Blank)
                     ELSE SubSeq(Common(ms), Len(word) + 1, Len(Common(ms)))
           room == (MaxInput - 1) - Len(input)
           fits == SubSeq(more, 1, IF Len(more) <= room THEN Len(more) ELSE room)
       IN  /\ input' = input \o fits
           /\ screen' = IF Cardinality(ms) > 1 /\ more = <<>> /\ tabs > 0
                          THEN input ELSE screen \o fits
    /\ UNCHANGED browse /\ Stays

-----------------------------------------------------------------------------
(* The line is returned, and botshell_run goes on with it.                 *)

Submit(line) ==
    /\ doing' = "run" /\ pending' = <<>>
    /\ history' = Added(history, line)
    /\ entered' = IF entered # <<>> /\ Last(entered) = line THEN entered
                  ELSE Append(entered, line)

Again(collected) ==
    /\ doing' = "prompt" /\ pending' = collected
    /\ UNCHANGED <<history, entered>>

Balanced(s) ==
    Len(SelectSeq(s, LAMBDA c : c = Opener)) = Len(SelectSeq(s, LAMBDA c : c = Closer))

(* An empty line is skipped at the prompt; a line that opens a block, and  *)
(* the lines after it, are collected until the block is complete, or until *)
(* one does not fit: what was collected before it is run.                  *)
Returned(line) ==
    /\ tty' = "cooked"
    /\ LET text == IF pending = <<>> THEN line ELSE pending \o <<NL>> \o line IN
       \/ /\ text = <<>> /\ Again(<<>>)
       \/ /\ text # <<>> /\ text[1] = Opener /\ (pending # <<>> => Len(text) <= MaxText)
          /\ IF Balanced(text) THEN Submit(text) ELSE Again(text)
       \/ /\ pending # <<>> /\ Len(text) > MaxText
          /\ Submit(pending)
       \/ /\ pending = <<>> /\ line # <<>> /\ line[1] # Opener
          /\ Submit(line)
    /\ UNCHANGED <<input, screen, browse, tabs>>

EnterKey == Press /\ Returned(input) /\ how' = "enter" /\ UNCHANGED errno

(* The loop ends when the buffer is full: the line is submitted as it is,  *)
(* also one that an arrow has just recalled.                               *)
LineFull ==
    /\ doing = "read" /\ Len(input) >= MaxInput
    /\ Returned(input) /\ how' = "full"
    /\ UNCHANGED <<errno, presses>>

CtrlC == Press /\ Returned(<<>>) /\ how' = "cancel" /\ UNCHANGED errno

(* Ctrl-D on an empty line returns NULL: it leaves the shell, unless errno *)
(* is still EINTR from before; in a block it ends the collecting.          *)
CtrlD ==
    /\ Press
    /\ \/ /\ input # <<>>
          /\ UNCHANGED <<tty, input, screen, browse, tabs, how>> /\ Stays
       \/ /\ input = <<>> /\ tty' = "cooked" /\ how' = "eof"
          /\ \/ /\ pending # <<>> /\ Submit(pending)
             \/ /\ pending = <<>> /\ errno = "EINTR" /\ Again(<<>>)
             \/ /\ pending = <<>> /\ errno # "EINTR" /\ doing' = "left"
                /\ UNCHANGED <<pending, history, entered>>
          /\ UNCHANGED <<input, screen, browse, tabs, errno>>

(* SIGINT from outside (raw mode turns the key into a character): the read *)
(* fails with EINTR, the loop ends, and the line typed so far is returned. *)
Interrupted ==
    /\ Interrupts /\ Press
    /\ errno' = "EINTR" /\ how' = "interrupt"
    /\ Returned(input)

(* botshell_exec_string; what it calls may leave another errno behind.     *)
RunCommand ==
    /\ doing = "run"
    /\ doing' = "prompt"
    /\ errno' \in {errno, "other"}
    /\ UNCHANGED <<tty, input, screen, browse, tabs, pending, history, entered, how, presses>>

(* history -c, botshell_clear_history. *)
ClearHistory ==
    /\ doing = "run" /\ doing' = "prompt"
    /\ history' = <<>> /\ entered' = <<>>
    /\ UNCHANGED <<tty, input, screen, browse, tabs, pending, errno, how, presses>>

ReplNext == \/ Prompt \/ TypeChar \/ Backspace \/ UpArrow \/ DownArrow \/ TabKey
            \/ EnterKey \/ LineFull \/ CtrlC \/ CtrlD \/ CtrlZ
            \/ Interrupted \/ RunCommand \/ ClearHistory

ReplSpec == ReplInit /\ [][ReplNext]_replVars

-----------------------------------------------------------------------------
(* Properties *)

(* The state is of its type, and the history is within its limit.          *)
ReplTypeOK ==
    /\ input \in Line /\ screen \in Line /\ pending \in Line
    /\ history \in Seq(Line) /\ entered \in Seq(Line) /\ presses \in 0..MaxPresses
    /\ doing \in {"prompt", "read", "run", "left"} /\ tty \in {"raw", "cooked"}
    /\ Len(input) <= MaxInput + 1 /\ (doing = "read" => browse \in 0..Len(history))
    /\ Len(history) <= MaxHistory /\ errno \in {"other", "EINTR"}

(* While a line is edited the screen shows the buffer: whatever was typed, *)
(* erased, recalled and completed, the line that is run is the one the     *)
(* user reads, also a recalled one that the buffer cuts and that runs      *)
(* without Enter.  A recalled block of several lines is excepted: it       *)
(* cannot be erased beyond its last line.                                  *)
ScreenIsInput ==
    doing = "read" /\ (\A i \in DOMAIN screen : screen[i] # NL) => screen = input

(* A command never runs with the terminal in raw mode, and the shell never *)
(* leaves it so: every way out of the line editor restores it.             *)
CookedOutside == doing # "read" => tty = "cooked"

(* The history is what was submitted, without immediate repetitions, and   *)
(* the last MaxHistory of it.                                              *)
HistoryIsLog ==
    LET n == IF Len(entered) < MaxHistory THEN Len(entered) ELSE MaxHistory
    IN  history = SubSeq(entered, Len(entered) - n + 1, Len(entered))

(* What is run is what the user reads, with the terminal as it was found,  *)
(* and what is remembered is what was run.                                 *)
ReplInv == ReplTypeOK /\ ScreenIsInput /\ CookedOutside /\ HistoryIsLog
=============================================================================
