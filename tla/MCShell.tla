------------------------------ MODULE MCShell -------------------------------
(***************************************************************************)
(* BotShell for TLC: its block statements, its prompt, its parser, its     *)
(* game and its commands with a !, one of them in each behaviour; the      *)
(* others stay as they are.                                                *)
(***************************************************************************)
EXTENDS Interpreter, Repl, Parser, Hero, PyBridge

VARIABLE part

-----------------------------------------------------------------------------
(* Interpreter: a command that succeeds, one that does twice, one that     *)
(* never does, and one with a keyword among its arguments.                 *)
MCLasts == [c \in {"a", "ok", "few", "bad", "say"} |->
               CASE c = "few" -> 2 [] c = "bad" -> 0 [] OTHER -> 99]

MCMentions == [c \in DOMAIN MCLasts |-> IF c = "say" THEN "done" ELSE "none"]

MCBytes == [c \in DOMAIN MCLasts \cup Keyword |->
               CASE c = "a" -> 1
                 [] c \in {"ok", "do", "if", "fi"} -> 2
                 [] c \in {"few", "bad"} -> 3
                 [] c \in {"say", "for"} -> 8
                 [] c = "while" -> 5
                 [] OTHER -> 4]

Block(o, n, body, other) == [op |-> o, arg |-> n, body |-> body, other |-> other]

LoopBodies ==
    {<<Run("a")>>, <<Run("bad"), Run("a")>>, <<>>, <<Run("say"), Run("a")>>,
     <<Run("a"), Word("exit"), Run("a")>>,
     Append(TextOf(Block("for", 2, <<Run("a")>>, <<>>)), Run("a")),
     Append(TextOf(Block("if", "ok", <<Run("a")>>, <<Run("bad")>>)), Run("a")),
     <<Run("a"), Run("a"), Run("a"), Run("a")>>}

Statements ==
    {Run(c) : c \in DOMAIN MCLasts} \cup {Word("exit")}
    \cup {Block("for", n, b, <<>>) : n \in {0, 2}, b \in LoopBodies}
    \cup {Block("while", c, b, <<>>) : c \in {"ok", "few", "bad"}, b \in LoopBodies}
    \cup {Block("if", c, b, e) : c \in {"ok", "bad"}, b \in LoopBodies,
                                 e \in {<<>>, <<Run("a")>>, <<Run("ok"), Run("bad")>>}}

MCWanted ==
    {<<s>> : s \in Statements} \cup {<<Run("a"), s>> : s \in Statements}
    \cup {<<s, t>> : s \in Statements,
                     t \in {Run("a"), Word("exit"), Block("for", 2, <<Run("a")>>, <<>>)}}

InterpIdle ==
    /\ wanted = <<>> /\ program = <<>> /\ script = FALSE
    /\ next = 1 /\ block = <<>> /\ stack = <<>> /\ alive = TRUE
    /\ loopvar = 0 /\ trace = <<>> /\ status = 0

-----------------------------------------------------------------------------
(* Repl                                                                    *)
MCNames == {<<"a">>, <<"a", "d">>, <<"d", "a", "d">>}

-----------------------------------------------------------------------------
(* Parser: words in every way of quoting, with variables and the home      *)
(* directory, in pipelines with redirections; and every short text that    *)
(* is made of signs.                                                       *)
MCCharacter == {"a", "b", "v", "h"} \cup Quoting \cup Naming \cup {Two}

AsPlain(t) == [k \in DOMAIN t |-> [kind |-> "plain", name |-> <<t[k]>>]]

Variable(kind, name) == <<[kind |-> kind, name |-> name]>>

W(style, home, pieces) == [style |-> style, home |-> home, pieces |-> pieces]

QuotedWords ==
    {W(style, FALSE, AsPlain(t)) : style \in Style,
        t \in {<<"a">>, <<"a", " ", "b">>, <<"|", "a">>, <<"\"", "\\">>, <<"#">>}}
    \cup {W("bare", FALSE, Variable("short", <<"a">>)),
          W("double", FALSE, Variable("braced", <<"a">>) \o AsPlain(<<"b">>)),
          W("bare", FALSE, AsPlain(<<"b">>) \o Variable("short", <<"a", "b">>)),
          W("single", FALSE, AsPlain(<<"$", "a">>)), W("double", FALSE, AsPlain(<<"~">>)),
          W("single", FALSE, AsPlain(<<"~", "a">>)),
          W("bare", TRUE, <<>>), W("bare", TRUE, AsPlain(<<"/", "a">>))}

MCValue == [n \in {<<"a">>} |-> <<"v", " ">>]

MCHome == <<"h">>

File(op, style, name) == [op |-> op, style |-> style, name |-> name]

Redirs == {<<>>, <<File(<<">">>, "bare", <<"b">>)>>,
           <<File(<<"<">>, "bare", <<"b">>), File(<<">", ">">>, "double", <<"b", " ">>)>>,
           <<File(<<"2", ">">>, "single", <<"b">>)>>, <<File(<<"<", "<">>, "bare", <<"b">>)>>}

Commands == {[words |-> ws, files |-> fs, background |-> bg] :
                ws \in {<<w>> : w \in QuotedWords} \cup {<<v, w>> : v, w \in QuotedWords},
                fs \in Redirs, bg \in BOOLEAN}

Simple1 == {[words |-> <<w>>, files |-> fs, background |-> FALSE] : w \in QuotedWords, fs \in Redirs}

MCMeant == {<<k>> : k \in Commands} \cup {<<k, l>> : k, l \in Simple1}

MCRaw == UNION {[1 .. n -> {"a", " ", "|", ">", "&", "'", "\"", "\\", "$", "?"}] : n \in 0 .. 4}

ParserIdle == meant = <<>> /\ pos = <<>> /\ cmd = NoCmd /\ cmds = <<>> /\ parsed = TRUE

-----------------------------------------------------------------------------
(* Hero: a new hero, or one about to rise a level, with a pet that is      *)
(* about to.                                                               *)
MCSaves == {[NewHero EXCEPT !.level = 3, !.xp = 235, !.maxHp = 120, !.hp = 120, !.maxMana = 60,
                            !.mana = 30, !.points = 2, !.gold = 300, !.pet = 2, !.petLevel = 1,
                            !.love = 85]}

HeroIdle == HeroInit /\ save = <<>> /\ alone = FALSE

-----------------------------------------------------------------------------
(* PyBridge: two names that a buffer cuts to one.                          *)
MCCut == [n \in MagicNames |-> IF n \in {"long1", "long2"} THEN "long" ELSE n]

BridgeIdle == BridgeInit /\ mode = "child" /\ python = FALSE

-----------------------------------------------------------------------------
vars == <<interpVars, replVars, parserVars, heroVars, bridgeVars, part>>

Init ==
    /\ part \in {"blocks", "prompt", "parser", "hero", "bridge"}
    /\ IF part = "blocks" THEN InterpInit ELSE InterpIdle
    /\ ReplInit
    /\ IF part = "parser" THEN ParserInit ELSE ParserIdle
    /\ IF part = "hero" THEN HeroInit ELSE HeroIdle
    /\ IF part = "bridge" THEN BridgeInit ELSE BridgeIdle

Executes == /\ part = "blocks" /\ InterpNext
            /\ UNCHANGED <<replVars, parserVars, heroVars, bridgeVars, part>>

Parses == /\ part = "parser" /\ ParserNext
          /\ UNCHANGED <<interpVars, replVars, heroVars, bridgeVars, part>>

Next ==
    \/ Executes
    \/ Parses
    \/ /\ part = "prompt" /\ ReplNext
       /\ UNCHANGED <<interpVars, parserVars, heroVars, bridgeVars, part>>
    \/ /\ part = "hero" /\ HeroNext
       /\ UNCHANGED <<interpVars, replVars, parserVars, bridgeVars, part>>
    \/ /\ part = "bridge" /\ BridgeNext
       /\ UNCHANGED <<interpVars, replVars, parserVars, heroVars, part>>

(* The fairness of InterpSpec and of ParserSpec.                           *)
Spec == Init /\ [][Next]_vars /\ WF_vars(Executes) /\ WF_vars(Parses)

-----------------------------------------------------------------------------
(* No program and no line keeps the shell for ever.                        *)
ShellEnds == ProgramEnds /\ ParseEnds
=============================================================================
