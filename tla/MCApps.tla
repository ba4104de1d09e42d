------------------------------- MODULE MCApps -------------------------------
(***************************************************************************)
(* An application on BotUI for TLC, one in each behaviour: any with a      *)
(* resizable window (toolkit), the editor, or the terminal; the others     *)
(* stay as they are.                                                       *)
(***************************************************************************)
EXTENDS Toolkit, Editor, Terminal

VARIABLE part

(* Nothing, a line, one that fills the buffer without its line end before  *)
(* another, one too long, and too many.                                    *)
MCFiles == {<<>>, <<<<"a">>>>, <<<<"a", "b", "a">>, <<"b">>>>,
            <<<<"a", "b", "a", "b">>>>, <<<<"a">>, <<"b">>, <<"a">>, <<"b">>>>}

(* A window lower than its bars.                                           *)
MCMinVisible == -1

(* An empty window.                                                        *)
EditorIdle ==
    /\ cx = 0 /\ cy = 0 /\ scroll = 0 /\ modified = FALSE /\ dialog = FALSE
    /\ visible = MaxVisible /\ state = "quit" /\ edits = 0
    /\ disk = <<>> /\ named = FALSE /\ clean = TRUE
    /\ lines = [i \in Row |-> <<>>] /\ count = 1

Init ==
    /\ part \in {"toolkit", "editor", "terminal"}
    /\ ToolkitInit /\ (part # "toolkit" => loop = "own")
    /\ IF part = "editor" THEN EditorInit ELSE EditorIdle
    /\ TermInit

Next ==
    /\ \/ part = "toolkit"  /\ ToolkitNext /\ UNCHANGED <<edVars, termVars>>
       \/ part = "editor"   /\ EditorNext  /\ UNCHANGED <<uiVars, termVars>>
       \/ part = "terminal" /\ TermNext    /\ UNCHANGED <<uiVars, edVars>>
    /\ UNCHANGED part

vars == <<uiVars, edVars, termVars, part>>

(* The fairness of ToolkitSpec and of TermSpec.                            *)
LoopRuns == part = "toolkit" /\ AppStep /\ UNCHANGED <<edVars, termVars, part>>

TerminalRuns == part = "terminal" /\ TermStep /\ UNCHANGED <<uiVars, edVars, part>>

Spec == Init /\ [][Next]_vars /\ WF_vars(LoopRuns) /\ WF_vars(TerminalRuns)

-----------------------------------------------------------------------------
(* What each program must come to, under the fairness of its own loop: a   *)
(* request to close ends it, its sizes agree whenever no resize is under   *)
(* way and come to that, keys and output get through.                      *)
AppsServe == CloseEnds /\ []SizesAgree /\ SizesSettle /\ KeysServed /\ OutputShown
=============================================================================
