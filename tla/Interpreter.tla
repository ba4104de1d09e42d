---------------------------- MODULE Interpreter ----------------------------
(***************************************************************************)
(* The block statements of BotShell, src/shell/src/botshell.c: for, if and *)
(* while, collected line by line (botshell_run at the prompt,              *)
(* botshell_exec_script in a script) until their words balance, then       *)
(* executed by run_for_loop, run_if_statement and run_while_loop, which    *)
(* hand every line of the body back to botshell_exec_string.               *)
(*                                                                         *)
(* `wanted' is the program as its author means it, a sequence of           *)
(* statements; `program' is its text, one record per line, and all that    *)
(* the shell sees.  A command is a name; how often it succeeds before it   *)
(* fails is given by Lasts, so that a condition may hold for a while.  A   *)
(* variable of a loop is 0 when it is not set.                             *)
(***************************************************************************)
EXTENDS Integers, Sequences, FiniteSets, SequencesExt

CONSTANTS Wanted,     \* the programs
          Lasts,      \* command -> how many of its runs succeed
          Mentions,   \* command -> the keyword among its arguments, or "none"
          MaxIter,    \* max_iter of run_while_loop (1000 in the code)
          Bytes,      \* how long the words and the commands are
          MaxBlock    \* sizeof(block_buf) (8192 in the code)

CommandName == DOMAIN Lasts

Keyword == {"for", "while", "if", "do", "done", "then", "else", "fi", "exit"}

Word(w)   == [op |-> w, arg |-> "none"]
Run(c)    == [op |-> "run", arg |-> c]

TextLine == [op : {"run", "while", "if"}, arg : CommandName] \cup [op : {"for"}, arg : Nat]
            \cup {Word(w) : w \in {"do", "done", "then", "else", "fi", "exit"}}

(* The body of a block is text, so that it may hold blocks.                *)
Statement ==
    [op : {"run"}, arg : CommandName] \cup {Word("exit")}
    \cup [op : {"for"}, arg : Nat, body : Seq(TextLine), other : {<<>>}]
    \cup [op : {"while"}, arg : CommandName, body : Seq(TextLine), other : {<<>>}]
    \cup [op : {"if"}, arg : CommandName, body : Seq(TextLine), other : Seq(TextLine)]

ASSUME InterpreterAssumption ==
    /\ MaxIter \in Nat \ {0} /\ MaxBlock \in Nat \ {0}
    /\ \A c \in CommandName : Lasts[c] \in Nat
    /\ \A w \in CommandName \cup Keyword : Bytes[w] \in Nat
    /\ Bytes["for"] < MaxBlock         \* a line of the input fits the block
    /\ \A c \in CommandName : /\ Bytes["while"] + 1 + Bytes[c] < MaxBlock
                              /\ Bytes["if"] + 1 + Bytes[c] < MaxBlock
    /\ Wanted \subseteq Seq(Statement)

VARIABLES wanted, program, script,   \* what runs, and whether from a file
          next, block,               \* the line to read and those collected
          stack,                     \* the blocks being executed, innermost first
          alive,                     \* g_running
          loopvar, trace, status     \* the environment, what ran, g_last_exit

interpVars == <<wanted, program, script, next, block, stack, alive, loopvar,
                trace, status>>

-----------------------------------------------------------------------------
(* Programs and their text.                                                *)

TextOf(s) ==
    CASE s.op \in {"for", "while"} ->
             <<[op |-> s.op, arg |-> s.arg], Word("do")>> \o s.body \o <<Word("done")>>
      [] s.op = "if" ->
             <<[op |-> "if", arg |-> s.arg], Word("then")>> \o s.body
                 \o (IF s.other = <<>> THEN <<>> ELSE <<Word("else")>> \o s.other)
                 \o <<Word("fi")>>
      [] OTHER -> <<s>>

Text(stmts) == FlattenSeq([k \in DOMAIN stmts |-> TextOf(stmts[k])])

(* The bytes that lines take in block_buf, with a newline or the final NUL *)
(* after each.                                                             *)
LineLen(l) == CASE l.op = "run" -> Bytes[l.arg]
                [] l.op \in {"while", "if"} -> Bytes[l.op] + 1 + Bytes[l.arg]
                [] OTHER -> Bytes[l.op]

Size(b) ==
    LET f[k \in 0 .. Len(b)] == IF k = 0 THEN 0 ELSE f[k - 1] + LineLen(b[k]) + 1
    IN  f[Len(b)]

Simple(s) == s.op = "run" /\ Mentions[s.arg] = "none"

(* No block in a block, no exit, no keyword among the arguments, and every *)
(* block fits the buffer.                                                  *)
Flat(stmts) ==
    \A i \in DOMAIN stmts :
        \/ Simple(stmts[i])
        \/ /\ stmts[i].op \in {"for", "while", "if"}
           /\ Size(TextOf(stmts[i])) < MaxBlock
           /\ \A j \in DOMAIN stmts[i].body : Simple(stmts[i].body[j])
           /\ \A j \in DOMAIN stmts[i].other : Simple(stmts[i].other[j])

(* How often a command ran, and whether it succeeds if it runs now.        *)
Ran(t, c)     == Cardinality({k \in DOMAIN t : t[k][1] = c})
Outcome(t, c) == IF c \in CommandName /\ Ran(t, c) < Lasts[c] THEN 0 ELSE 1

(* The meaning of a flat program: what it runs, with which value of the    *)
(* loop's variable, and its status; m is what went before.                 *)
Asked(c, m)  == [m EXCEPT !.trace = Append(@, <<c, m.var>>)]
Does(c, m)   == [Asked(c, m) EXCEPT !.status = Outcome(m.trace, c)]
Holds(c, m)  == Outcome(m.trace, c) = 0

Lines(ls, m) ==
    LET f[k \in 0 .. Len(ls)] == IF k = 0 THEN m ELSE Does(ls[k].arg, f[k - 1])
    IN  f[Len(ls)]

For(s, m) ==
    LET f[k \in 0 .. s.arg] == IF k = 0 THEN m ELSE Lines(s.body, [f[k - 1] EXCEPT !.var = k])
    IN  [f[s.arg] EXCEPT !.var = 0]

While(s, m) ==
    LET f[k \in 0 .. MaxIter] ==
            IF k = 0 THEN m
            ELSE IF Holds(s.arg, f[k - 1]) THEN Lines(s.body, Asked(s.arg, f[k - 1]))
            ELSE f[k - 1]
        last == f[MaxIter]
    IN  [Asked(s.arg, last) EXCEPT !.status = IF Holds(s.arg, last) THEN 1 ELSE @]

If(s, m) == Lines(IF Holds(s.arg, m) THEN s.body ELSE s.other, Asked(s.arg, m))

Means(s, m) == CASE s.op = "run"   -> Does(s.arg, m)
                 [] s.op = "for"   -> For(s, [m EXCEPT !.status = 0])
                 [] s.op = "while" -> While(s, [m EXCEPT !.status = 0])
                 [] s.op = "if"    -> If(s, [m EXCEPT !.status = 0])

Meaning(stmts) ==
    LET f[k \in 0 .. Len(stmts)] ==
            IF k = 0 THEN [trace |-> <<>>, status |-> 0, var |-> 0]
            ELSE Means(stmts[k], f[k - 1])
    IN  f[Len(stmts)]

-----------------------------------------------------------------------------
(* Blocks.                                                                 *)

(* is_for_start, is_if_start, is_while_start *)
Opens(l) == l.op \in {"for", "while", "if"}

(* count_substring finds the word wherever it stands, so a command that    *)
(* only mentions it counts as well.                                        *)
Times(b, w) ==
    Cardinality({k \in DOMAIN b : b[k].op = w \/ (b[k].op = "run" /\ Mentions[b[k].arg] = w)})

(* is_block_complete *)
Complete(b) == /\ Times(b, "for") + Times(b, "while") = Times(b, "done")
               /\ Times(b, "if") = Times(b, "fi")

(* The lines between the head of a block, its optional do or then, and the *)
(* first line that is its end.                                             *)
Body(b, opener, end) ==
    LET rest == IF Len(b) > 1 /\ b[2].op = opener THEN SubSeq(b, 3, Len(b)) ELSE Tail(b)
        ends == {i \in DOMAIN rest : rest[i].op = end}
    IN  SubSeq(rest, 1, IF ends = {} THEN Len(rest)
                        ELSE (CHOOSE i \in ends : \A j \in ends : i <= j) - 1)

(* run_if_statement: what stands before the first else and what stands     *)
(* after it; the lines that are an else are of neither.                    *)
NoElse(ls) == FlattenSeq([k \in DOMAIN ls |-> IF ls[k].op = "else" THEN <<>> ELSE <<ls[k]>>])
Halves(ls) ==
    LET e == {i \in DOMAIN ls : ls[i].op = "else"}
        m == IF e = {} THEN Len(ls) + 1 ELSE CHOOSE i \in e : \A j \in e : i <= j
    IN  <<SubSeq(ls, 1, m - 1), NoElse(SubSeq(ls, m, Len(ls)))>>

(* A block about to be executed: `at' is 0 before its head is evaluated.   *)
Frame(b) ==
    LET ls == IF b[1].op = "if" THEN Body(b, "then", "fi") ELSE Body(b, "do", "done")
    IN  [op |-> b[1].op, arg |-> b[1].arg, at |-> 0, turn |-> 0, last |-> 0,
         body  |-> IF b[1].op = "if" THEN Halves(ls)[1] ELSE ls,
         other |-> IF b[1].op = "if" THEN Halves(ls)[2] ELSE <<>>]

-----------------------------------------------------------------------------
InterpInit ==
    /\ wanted \in Wanted
    /\ program \in {Text(wanted), Front(Text(wanted))}
    /\ script \in BOOLEAN
    /\ next = 1 /\ block = <<>> /\ stack = <<>> /\ alive = TRUE
    /\ loopvar = 0 /\ trace = <<>> /\ status = 0

(* A status goes to the block that asked for it, or is the shell's.        *)
Return(callers, s) ==
    /\ stack' = IF callers = <<>> THEN <<>> ELSE [callers EXCEPT ![1].last = s]
    /\ status' = IF callers = <<>> THEN s ELSE status

(* botshell_exec_string on one line: a head of a block is a whole block    *)
(* here, exit only clears g_running, and any other line is a command, the  *)
(* stray words included, which no program has for a name.                  *)
ExecString(l, callers) ==
    \/ /\ Opens(l)
       /\ stack' = <<Frame(<<l>>)>> \o callers
       /\ UNCHANGED <<alive, trace, status>>
    \/ /\ l.op = "exit"
       /\ alive' = FALSE
       /\ Return(callers, 0)
       /\ UNCHANGED trace
    \/ /\ ~Opens(l) /\ l.op # "exit"
       /\ LET c == IF l.op = "run" THEN l.arg ELSE l.op IN
            /\ trace' = Append(trace, <<c, loopvar>>)
            /\ Return(callers, Outcome(trace, c))
       /\ UNCHANGED alive

(* botshell_run stops when g_running is clear; botshell_exec_script never  *)
(* looks at it.                                                            *)
Reads == stack = <<>> /\ next <= Len(program) /\ (script \/ alive)

ReadLine ==
    /\ Reads /\ block = <<>>
    /\ next' = next + 1
    /\ \/ /\ Opens(program[next])
          /\ block' = <<program[next]>>
          /\ UNCHANGED <<stack, alive, trace, status>>
       \/ /\ ~Opens(program[next])
          /\ ExecString(program[next], <<>>)
          /\ UNCHANGED block
    /\ UNCHANGED <<wanted, program, script, loopvar>>

(* A line that no longer fits is lost, and what was collected is executed. *)
CollectLine ==
    /\ Reads /\ block # <<>> /\ ~Complete(block)
    /\ next' = next + 1
    /\ \/ /\ Size(Append(block, program[next])) < MaxBlock
          /\ block' = Append(block, program[next])
          /\ UNCHANGED stack
       \/ /\ Size(Append(block, program[next])) >= MaxBlock
          /\ block' = <<>> /\ stack' = <<Frame(block)>>
    /\ UNCHANGED <<wanted, program, script, alive, loopvar, trace, status>>

(* At the end of the input an unfinished block is executed as it is.       *)
RunBlock ==
    /\ stack = <<>> /\ block # <<>>
    /\ Complete(block) \/ next > Len(program)
    /\ stack' = <<Frame(block)>> /\ block' = <<>>
    /\ UNCHANGED <<wanted, program, script, next, alive, loopvar, trace, status>>

(* Mutant of ForHead: the last value is left out. *)
ForShort ==
    /\ stack # <<>> /\ stack[1].op = "for" /\ stack[1].at = 0
    /\ \/ /\ stack[1].turn + 1 < stack[1].arg
          /\ stack' = [stack EXCEPT ![1].turn = @ + 1, ![1].at = 1]
          /\ loopvar' = stack[1].turn + 1 /\ UNCHANGED status
       \/ /\ stack[1].turn + 1 >= stack[1].arg
          /\ loopvar' = 0 /\ Return(Tail(stack), stack[1].last)
    /\ UNCHANGED <<wanted, program, script, next, block, alive, trace>>

(* The head of run_for_loop: the next value, or the end with unsetenv.     *)
ForHead ==
    /\ stack # <<>> /\ stack[1].op = "for" /\ stack[1].at = 0
    /\ \/ /\ stack[1].turn < stack[1].arg
          /\ stack' = [stack EXCEPT ![1].turn = @ + 1, ![1].at = 1]
          /\ loopvar' = stack[1].turn + 1
          /\ UNCHANGED status
       \/ /\ stack[1].turn = stack[1].arg
          /\ loopvar' = 0
          /\ Return(Tail(stack), stack[1].last)
    /\ UNCHANGED <<wanted, program, script, next, block, alive, trace>>

(* Mutant of WhileHead: no limit of iterations. *)
WhileForever ==
    /\ stack # <<>> /\ stack[1].op = "while" /\ stack[1].at = 0
    /\ trace' = IF Len(trace) > 40 THEN trace ELSE Append(trace, <<stack[1].arg, loopvar>>)
    /\ IF Outcome(trace, stack[1].arg) # 0 THEN Return(Tail(stack), stack[1].last)
       ELSE stack' = [stack EXCEPT ![1].at = 1] /\ UNCHANGED status
    /\ UNCHANGED <<wanted, program, script, next, block, alive, loopvar>>

(* The head of run_while_loop: the condition, and the limit of iterations. *)
WhileHead ==
    /\ stack # <<>> /\ stack[1].op = "while" /\ stack[1].at = 0
    /\ trace' = Append(trace, <<stack[1].arg, loopvar>>)
    /\ LET holds == Outcome(trace, stack[1].arg) = 0 IN
       \/ /\ ~holds /\ Return(Tail(stack), stack[1].last)
       \/ /\ holds /\ stack[1].turn = MaxIter /\ Return(Tail(stack), 1)
       \/ /\ holds /\ stack[1].turn < MaxIter
          /\ stack' = [stack EXCEPT ![1].turn = @ + 1, ![1].at = 1]
          /\ UNCHANGED status
    /\ UNCHANGED <<wanted, program, script, next, block, alive, loopvar>>

(* The condition of run_if_statement chooses the lines to execute.         *)
IfHead ==
    /\ stack # <<>> /\ stack[1].op = "if" /\ stack[1].at = 0
    /\ trace' = Append(trace, <<stack[1].arg, loopvar>>)
    /\ stack' = [stack EXCEPT ![1].at = 1,
                   ![1].body = IF Outcome(trace, stack[1].arg) = 0 THEN @ ELSE stack[1].other]
    /\ UNCHANGED <<wanted, program, script, next, block, alive, loopvar, status>>

(* One line of the body.                                                   *)
BodyLine ==
    /\ stack # <<>> /\ stack[1].at \in DOMAIN stack[1].body
    /\ ExecString(stack[1].body[stack[1].at], [stack EXCEPT ![1].at = @ + 1])
    /\ UNCHANGED <<wanted, program, script, next, block, loopvar>>

(* The end of the body: a loop goes back to its head, an if is done.       *)
BodyEnd ==
    /\ stack # <<>> /\ stack[1].at > Len(stack[1].body)
    /\ \/ /\ stack[1].op # "if"
          /\ stack' = [stack EXCEPT ![1].at = 0]
          /\ UNCHANGED status
       \/ /\ stack[1].op = "if"
          /\ Return(Tail(stack), stack[1].last)
    /\ UNCHANGED <<wanted, program, script, next, block, alive, loopvar, trace>>

InterpNext == \/ ReadLine \/ CollectLine \/ RunBlock
              \/ ForHead \/ WhileHead \/ IfHead \/ BodyLine \/ BodyEnd

InterpSpec == InterpInit /\ [][InterpNext]_interpVars /\ WF_interpVars(InterpNext)

-----------------------------------------------------------------------------
(* Properties *)

Finished == /\ stack = <<>> /\ block = <<>>
            /\ next > Len(program) \/ (~script /\ ~alive)

(* The machine reads the text in order, block_buf holds what it collects,  *)
(* and the loop counters stay in their ranges.                             *)
InterpTypeOK ==
    /\ next \in 1..(Len(program) + 1)
    /\ Size(block) <= MaxBlock
    /\ \A i \in DOMAIN stack : /\ stack[i].at \in 0..(Len(stack[i].body) + 1)
                               /\ stack[i].op # "for" => stack[i].turn <= MaxIter
    /\ status \in {0, 1} /\ alive \in BOOLEAN

(* A program without nested blocks runs what its author wrote, in that     *)
(* order, with the loop's variable as written, and ends with the status of *)
(* the last command of its last block: at the prompt and in a script, and  *)
(* also when commands stand before and after its blocks.                   *)
RunsAsWritten ==
    Finished /\ Flat(wanted) /\ program = Text(wanted) =>
        trace = Meaning(wanted).trace /\ status = Meaning(wanted).status

(* Every program ends, whatever its conditions: the limit of iterations    *)
(* ends the loops whose condition always holds.                            *)
ProgramEnds == <>Finished

(* The blocks of a program run as it was written.                          *)
InterpInv == InterpTypeOK /\ RunsAsWritten
=============================================================================
