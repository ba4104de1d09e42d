------------------------------- MODULE Parser -------------------------------
(***************************************************************************)
(* The command line parser of BotShell, src/shell/src/parser.c: from the   *)
(* text of a line to the commands of a pipeline with their arguments and   *)
(* redirections.  parser_parse_line is run one turn of its inner loop per  *)
(* step.  `meant' is the pipeline as its author means it, from which the   *)
(* line is written; a line that nobody meant is any text.                  *)
(*                                                                         *)
(* A line is a sequence of characters: quoting is what the properties are  *)
(* about.  Left out: the fixed buffers (4096 characters an argument, 256   *)
(* a name, 64 arguments), \n and \t in double quotes, the mark of a ! in    *)
(* front of a command, and the glob patterns.                              *)
(***************************************************************************)
EXTENDS Integers, Sequences, FiniteSets, SequencesExt

CONSTANTS Character,    \* what lines are made of
          Meant,        \* pipelines, see LineOf
          RawLines,     \* any other lines
          Value,        \* variable -> its value: the environment
          NameChar,     \* what a variable's name is made of
          Home,         \* $HOME
          MaxPipes      \* PARSER_MAX_PIPES

VARIABLES meant,        \* the pipeline meant, or <<>>
          pos,          \* what is left of the line
          cmd,          \* the command being read; `open' once it is begun
          cmds,         \* those that are complete
          parsed        \* parser_parse_line has returned

parserVars == <<meant, pos, cmd, cmds, parsed>>

Space       == " "
Pipe        == "|"
Gt          == ">"
Lt          == "<"
Amp         == "&"
Apostrophe  == "'"
DoubleQuote == "\""
Backslash   == "\\"
Hash        == "#"
Dollar      == "$"
LBrace      == "{"
RBrace      == "}"
Question    == "?"
Wave        == "~"
Slash       == "/"
Two         == "2"

Special == {Pipe, Gt, Lt, Amp}
Quoting == {Space, Hash, Apostrophe, DoubleQuote, Backslash} \cup Special
Naming  == {Dollar, LBrace, RBrace, Question, Wave, Slash}

Chars(s)        == {s[i] : i \in DOMAIN s}
Behind(s, i, c) == i < Len(s) /\ s[i + 1] = c

NoRedir == [in |-> <<>>, out |-> <<>>, err |-> <<>>]
NoCmd   == [argv |-> <<>>, redir |-> NoRedir, background |-> FALSE, open |-> FALSE]

-----------------------------------------------------------------------------
(* The words of a pipeline.  A word is made of pieces: a character that    *)
(* stands for itself, and a variable as $n or ${n}; the home directory may *)
(* stand in front of them.  A name that is not set, as ? never is, is      *)
(* nothing.                                                                *)

Piece == [kind : {"plain", "short", "braced"}, name : Seq(Character)]

PieceText(x) == CASE x.kind = "plain"  -> x.name
                  [] x.kind = "short"  -> <<Dollar>> \o x.name
                  [] x.kind = "braced" -> <<Dollar, LBrace>> \o x.name \o <<RBrace>>

Lookup(name) == IF name \in DOMAIN Value THEN Value[name] ELSE <<>>

PieceMeans(x) == IF x.kind = "plain" THEN x.name ELSE Lookup(x.name)

WordRaw(w) ==
    (IF w.home THEN <<Wave>> ELSE <<>>) \o FlattenSeq([k \in DOMAIN w.pieces |-> PieceText(w.pieces[k])])
WordMeans(w) ==
    (IF w.home THEN Home ELSE <<>>) \o FlattenSeq([k \in DOMAIN w.pieces |-> PieceMeans(w.pieces[k])])

PieceOK(x) == CASE x.kind = "plain"  -> Len(x.name) = 1
                [] x.kind = "short"  -> x.name # <<>> /\ Chars(x.name) \subseteq NameChar
                [] x.kind = "braced" -> RBrace \notin Chars(x.name)

(* What may stand behind a piece: a name goes on as far as it can; a       *)
(* backslash in front of a variable is left out, for it hides it.          *)
MayFollow(x, c) == /\ x.kind = "plain" /\ x.name = <<Backslash>> => c # Dollar
                   /\ x.kind = "short" => c \notin NameChar

AtHome(t) == t # <<>> /\ t[1] = Wave /\ (Len(t) = 1 \/ t[2] = Slash)

(* In single quotes every character stands for itself, in double quotes a  *)
(* tilde does; a dollar sign is meant for itself in single quotes only, for *)
(* the backslash that should keep it elsewhere is dropped by next_token    *)
(* before expand_variables sees the sign.                                  *)
WordOK(w) ==
    /\ \A k \in DOMAIN w.pieces : PieceOK(w.pieces[k])
    /\ w.style = "single" => \A k \in DOMAIN w.pieces : w.pieces[k].kind = "plain"
    /\ w.style # "single" => \A k \in DOMAIN w.pieces :
         /\ w.pieces[k].kind = "plain" => w.pieces[k].name # <<Dollar>>
         /\ k < Len(w.pieces) => MayFollow(w.pieces[k], PieceText(w.pieces[k + 1])[1])
    /\ w.home = (w.style = "bare" /\ AtHome(WordRaw(w)))

(* A word whose quotes need not keep anything from being expanded: the     *)
(* parser drops them before it expands the variables and the tilde.        *)
Untouched(w) ==
    /\ w.style = "single" => \A k \in DOMAIN w.pieces : w.pieces[k].name # <<Dollar>>
    /\ w.style # "bare" => ~AtHome(WordRaw(w))

-----------------------------------------------------------------------------
(* The line as it is written: a word or a file's name in quotes, or with a *)
(* backslash in front of what is not to be taken for a sign; blanks after  *)
(* words, operators and names.                                             *)

Style == {"single", "double", "bare"}

Quoted(t, q)  == <<q>> \o t \o <<q>>
Escaped(t, C) == FlattenSeq([k \in DOMAIN t |-> IF t[k] \in C THEN <<Backslash, t[k]>> ELSE <<t[k]>>])

Styled(style, t) == CASE style = "single" -> Quoted(t, Apostrophe)
                      [] style = "double" -> Quoted(Escaped(t, {DoubleQuote, Backslash}), DoubleQuote)
                      [] style = "bare"   -> Escaped(t, Quoting)

StyleOK(style, t) == /\ style = "single" => Apostrophe \notin Chars(t)
                     /\ style = "bare" => t # <<>>

Spaced(t) == t \o <<Space>>

CommandText(c) ==
    FlattenSeq([k \in DOMAIN c.words |-> Spaced(Styled(c.words[k].style, WordRaw(c.words[k])))])
      \o FlattenSeq([k \in DOMAIN c.files |->
                        Spaced(c.files[k].op) \o Spaced(Styled(c.files[k].style, c.files[k].name))])
      \o (IF c.background THEN Spaced(<<Amp>>) ELSE <<>>)

LineOf(p) ==
    FlattenSeq([i \in DOMAIN p |-> (IF i = 1 THEN <<>> ELSE Spaced(<<Pipe>>)) \o CommandText(p[i])])

InOps  == {<<Lt>>, <<Lt, Lt>>}
OutOps == {<<Gt>>, <<Gt, Gt>>}
ErrOps == {<<Two, Gt>>}

MeantCommand ==
    [words      : Seq([style : Style, home : BOOLEAN, pieces : Seq(Piece)]),
     files      : Seq([op : InOps \cup OutOps \cup ErrOps, style : Style, name : Seq(Character)]),
     background : BOOLEAN]

CommandOK(c) ==
    /\ c.words # <<>>
    /\ \A k \in DOMAIN c.words : WordOK(c.words[k]) /\ StyleOK(c.words[k].style, WordRaw(c.words[k]))
    /\ \A k \in DOMAIN c.files : StyleOK(c.files[k].style, c.files[k].name)

ASSUME ParserAssumption ==
    /\ Quoting \cup Naming \cup {Two} \subseteq Character
    /\ NameChar \subseteq Character \ (Quoting \cup Naming)
    /\ DOMAIN Value \subseteq Seq(Character) /\ \A n \in DOMAIN Value : Value[n] \in Seq(Character)
    /\ Home \in Seq(Character) /\ Dollar \notin Chars(Home)
    /\ MaxPipes \in Nat \ {0}
    /\ RawLines \subseteq Seq(Character)
    /\ Meant \subseteq Seq(MeantCommand)
    /\ \A p \in Meant : Len(p) \in 1 .. MaxPipes /\ \A i \in DOMAIN p : CommandOK(p[i])

-----------------------------------------------------------------------------
(* The passes over the text.                                               *)

(* strip_comments: the first # outside quotes, with its escapes.  Quoting   *)
(* is an automaton; after a backslash the next character says nothing.      *)
QuoteAfter(q, c) ==
    CASE q = "skip"       -> "none"
      [] q = "skipdouble" -> "double"
      [] q = "single"     -> IF c = Apostrophe THEN "none" ELSE q
      [] q = "double"     -> IF c = DoubleQuote THEN "none"
                             ELSE IF c = Backslash THEN "skipdouble" ELSE q
      [] q = "none"       -> IF c = Apostrophe THEN "single" ELSE IF c = DoubleQuote THEN "double"
                             ELSE IF c = Backslash THEN "skip" ELSE q
QuotesIn(line) ==
    LET q[i \in 0 .. Len(line)] == IF i = 0 THEN "none" ELSE QuoteAfter(q[i - 1], line[i]) IN q
Stripped(line) ==
    LET at == {i \in DOMAIN line : line[i] = Hash /\ QuotesIn(line)[i - 1] = "none"}
    IN  IF at = {} THEN line
        ELSE SubSeq(line, 1, (CHOOSE i \in at : \A j \in at : i <= j) - 1)

(* skip_whitespace *)
EndOf(s, i, C) ==                 \* where the characters of C from i on end
    LET out == {j \in i .. Len(s) : s[j] \notin C}
    IN  IF out = {} THEN Len(s) + 1 ELSE CHOOSE j \in out : \A k \in out : j <= k
Skipped(s) == SubSeq(s, EndOf(s, 1, {Space}), Len(s))

(* expand_tilde *)
Tilde(t) == IF AtHome(t) THEN Home \o Tail(t) ELSE t

(* expand_variables: $NAME, ${NAME} and $?, and \$ for the sign itself:    *)
(* what stands at i, and where it goes on.                                 *)
Unit(t, i) ==
    CASE t[i] = Backslash /\ Behind(t, i, Dollar) -> [means |-> <<Dollar>>, next |-> i + 2]
      [] t[i] = Dollar /\ Behind(t, i, LBrace) ->
           LET e == EndOf(t, i + 2, Character \ {RBrace})
           IN  [means |-> Lookup(SubSeq(t, i + 2, e - 1)), next |-> IF e <= Len(t) THEN e + 1 ELSE e]
      [] t[i] = Dollar /\ ~Behind(t, i, LBrace) ->
           LET e == IF Behind(t, i, Question) THEN i + 2 ELSE EndOf(t, i + 1, NameChar)
           IN  [means |-> Lookup(SubSeq(t, i + 1, e - 1)), next |-> e]
      [] OTHER -> [means |-> <<t[i]>>, next |-> i + 1]

Expanded(t) ==
    LET expand[i \in 1 .. (Len(t) + 1)] ==
            IF i > Len(t) THEN <<>> ELSE Unit(t, i).means \o expand[Unit(t, i).next]
    IN  expand[1]

(* Mutant of Taken: a character after a backslash may end the token. *)
TakenRaw(s, ends) ==
    LET e == EndOf(s, 1, Chars(s) \ ends)
    IN  [text |-> SelectSeq(SubSeq(s, 1, e - 1), LAMBDA c : c # Backslash), rest |-> SubSeq(s, e, Len(s))]

(* A token's characters up to one that ends it; a backslash is dropped and *)
(* keeps the character after it, if there is one.                          *)
Taken(s, ends) ==
    LET take[i \in 1 .. (Len(s) + 1)] ==
            IF i > Len(s) THEN [text |-> <<>>, rest |-> <<>>]
            ELSE IF s[i] \in ends THEN [text |-> <<>>, rest |-> SubSeq(s, i, Len(s))]
            ELSE LET j == IF s[i] = Backslash /\ i < Len(s) THEN i + 1 ELSE i
                 IN  [text |-> <<s[j]>> \o take[j + 1].text, rest |-> take[j + 1].rest]
    IN  take[1]

(* next_token on a text without leading blanks: the token and what is left. *)
(* An unquoted token that meets an operator is not ended: the string runs   *)
(* on to the end of the line.                                               *)
Token(s) ==
    CASE s[1] = Apostrophe ->
           LET e == EndOf(s, 2, Character \ {Apostrophe})
           IN  [text |-> SubSeq(s, 2, e - 1), rest |-> SubSeq(s, e + 1, Len(s))]
      [] s[1] = DoubleQuote ->
           LET t == Taken(Tail(s), {DoubleQuote})
           IN  [text |-> t.text, rest |-> SubSeq(t.rest, 2, Len(t.rest))]
      [] OTHER ->
           LET t == Taken(s, Special \cup {Space})
           IN  IF t.rest # <<>> /\ t.rest[1] # Space
                 THEN [text |-> t.text \o t.rest, rest |-> t.rest]
                 ELSE [text |-> t.text, rest |-> SubSeq(t.rest, 2, Len(t.rest))]

-----------------------------------------------------------------------------
ParserInit ==
    /\ \/ \E p \in Meant : meant = p /\ pos = Stripped(LineOf(p))
       \/ \E l \in RawLines : meant = <<>> /\ pos = Stripped(l)
    /\ cmd = NoCmd /\ cmds = <<>> /\ parsed = FALSE

Here    == {Skipped(pos)}
Reading == ~parsed /\ cmd.open

(* The head of the outer loop: a new command, while there is text and room *)
(* for it; what does not fit is left out.                                  *)
BeginCommand ==
    /\ ~parsed /\ ~cmd.open
    /\ \/ /\ pos # <<>> /\ Len(cmds) < MaxPipes
          /\ cmd' = [NoCmd EXCEPT !.open = TRUE] /\ UNCHANGED parsed
       \/ /\ pos = <<>> \/ Len(cmds) = MaxPipes
          /\ parsed' = TRUE /\ UNCHANGED cmd
    /\ UNCHANGED <<meant, pos, cmds>>

(* The end of a command, at a | or at the end of the line: one without     *)
(* arguments is dropped.                                                   *)
EndCommand == \E s \in Here :
    /\ Reading /\ (s # <<>> => s[1] = Pipe)
    /\ pos' = (IF s = <<>> THEN s ELSE Tail(s))
    /\ cmds' = (IF cmd.argv = <<>> THEN cmds ELSE Append(cmds, [cmd EXCEPT !.open = FALSE]))
    /\ cmd' = NoCmd
    /\ UNCHANGED <<meant, parsed>>

Ampersand == \E s \in Here :
    /\ Reading /\ s # <<>> /\ s[1] = Amp
    /\ cmd' = [cmd EXCEPT !.background = TRUE]
    /\ pos' = Tail(s)
    /\ UNCHANGED <<meant, cmds, parsed>>

(* parse_redirections: the operator and the token after it, if any.        *)
Operator(s) ==
    IF s = <<>> THEN <<>>
    ELSE CASE s[1] \in {Lt, Gt} /\ Behind(s, 1, s[1])  -> <<s[1], s[1]>>
           [] s[1] \in {Lt, Gt} /\ ~Behind(s, 1, s[1]) -> <<s[1]>>
           [] s[1] = Two /\ Behind(s, 1, Gt)           -> <<Two, Gt>>
           [] OTHER                                    -> <<>>
TokenOf(s) == IF s = <<>> THEN [text |-> <<>>, rest |-> <<>>] ELSE Token(s)
Redirection == \E s \in Here : \E op \in {Operator(s)} :
    /\ Reading /\ op # <<>>
    /\ \E after \in {Skipped(SubSeq(s, Len(op) + 1, Len(s)))} :
       \E tok \in {TokenOf(after)} :
         /\ pos' = tok.rest
         /\ cmd' = CASE op \in ErrOps -> [cmd EXCEPT !.redir.err = <<op, tok.text>>]
                     [] op \in InOps  -> [cmd EXCEPT !.redir.in = <<op, tok.text>>]
                     [] op \in OutOps -> [cmd EXCEPT !.redir.out = <<op, tok.text>>]
    /\ UNCHANGED <<meant, cmds, parsed>>

Argument == \E s \in Here :
    /\ Reading /\ s # <<>> /\ s[1] \notin Special /\ Operator(s) = <<>>
    /\ \E tok \in {Token(s)} : \E t \in {Tilde(tok.text)} :
         /\ pos' = tok.rest
         /\ cmd' = [cmd EXCEPT !.argv = Append(@, Expanded(t))]
    /\ UNCHANGED <<meant, cmds, parsed>>

ParserNext == BeginCommand \/ EndCommand \/ Ampersand \/ Redirection \/ Argument

ParserSpec == ParserInit /\ [][ParserNext]_parserVars /\ WF_parserVars(ParserNext)

-----------------------------------------------------------------------------
(* Properties *)

(* Commands that are kept have arguments, and there are MaxPipes at most.  *)
ParserTypeOK ==
    /\ parsed \in BOOLEAN /\ Len(cmds) <= MaxPipes
    /\ \A i \in DOMAIN cmds : cmds[i].argv # <<>> /\ ~cmds[i].open

(* The last of the files that one of the operators names.                  *)
FileOf(files, ops) ==
    LET of == {i \in DOMAIN files : files[i].op \in ops}
        i  == CHOOSE i \in of : \A j \in of : j <= i
    IN  IF of = {} THEN <<>> ELSE <<files[i].op, files[i].name>>

MeantCmd(c) ==
    [argv  |-> [k \in DOMAIN c.words |-> WordMeans(c.words[k])],
     redir |-> [in  |-> FileOf(c.files, InOps), out |-> FileOf(c.files, OutOps),
                err |-> FileOf(c.files, ErrOps)],
     background |-> c.background, open |-> FALSE]

AllUntouched(p) == \A i \in DOMAIN p : \A k \in DOMAIN p[i].words : Untouched(p[i].words[k])

(* A line that was written with blanks around its operators, each word     *)
(* quoted or escaped as it needs, is read as it was meant: command by      *)
(* command, argument by argument, each redirection to its file.  Words     *)
(* with a $ in single quotes, or a tilde at the head of quotes, are        *)
(* excepted: expand_variables and expand_tilde see no quotes any more.     *)
ReadAsMeant ==
    parsed /\ meant # <<>> /\ AllUntouched(meant)
        => cmds = [i \in DOMAIN meant |-> MeantCmd(meant[i])]

(* Every line is parsed to its end: no text makes the parser stay where it *)
(* is.                                                                     *)
ParseEnds == <>parsed

(* What was written is what is run.                                        *)
ParserInv == ParserTypeOK /\ ReadAsMeant
=============================================================================
