------------------------------ MODULE PyBridge ------------------------------
(***************************************************************************)
(* The commands with a ! of BotShell: src/shell/src/pybridge.c with its    *)
(* registry of native commands and its modes: an embedded interpreter that *)
(* calls src/pybridge/runtime/bridge.py, or runs the text itself where it  *)
(* found no such package, or a python3 started for each command.           *)
(*                                                                         *)
(* What Python makes of a text is external; what matters of it is its kind *)
(* when it is compiled and run, one of                                     *)
(*   expr      an expression                                               *)
(*   stmt      no expression: eval refuses it before anything happens; it  *)
(*             acts, and may then raise anything                           *)
(*   late      an expression that acts, then raises a SyntaxError          *)
(*   error     an expression that acts, then raises another exception      *)
(*   exit      it acts, then raises SystemExit, which is no Exception      *)
(*   bad       neither an expression nor a statement                       *)
(***************************************************************************)
EXTENDS Integers, Sequences, FiniteSets

CONSTANTS MagicNames, Cut, \* names of commands; Cut[n] is n in a name buffer
          Handlers,
          MaxMagic,        \* PB_MAX_MAGIC_CMDS
          PyNames,         \* the commands of MagicRegistry
          MaxCalls         \* bound on the calls of a behaviour

ASSUME PyBridgeAssumption ==
    /\ MaxMagic \in Nat /\ MaxCalls \in Nat
    /\ "none" \notin MagicNames \cup Handlers /\ "python" \notin Handlers

Kinds == {"expr", "stmt", "late", "error", "exit", "bad"}

VARIABLES mode,      \* "embedded", "direct" without the package, or "child"
          python,    \* whether the interpreter was found (pybridge_init)
          magics,    \* g_magic_cmds: sequence of [name, handler]
          accepted,  \* what pybridge_register_magic accepted
          stage,     \* where pybridge_execute stands
          call,      \* the command: its first word and its kind
          effects,   \* how often its text took effect
          answer,    \* who answered: a handler, or a status
          shellUp, calls

bridgeVars == <<mode, python, magics, accepted, stage, call, effects, answer,
                shellUp, calls>>

-----------------------------------------------------------------------------
NoCall   == [name |-> "none", kind |-> "none"]
NoAnswer == [by |-> "none", status |-> 0]

BridgeInit ==
    /\ mode \in {"embedded", "direct", "child"} /\ python \in BOOLEAN
    /\ magics = <<>> /\ accepted = {}
    /\ stage = "idle" /\ call = NoCall /\ effects = 0 /\ answer = NoAnswer
    /\ shellUp = TRUE /\ calls = 0

(* pb_find_magic: the entry with exactly this name in its buffer.          *)
Entries(n) == {i \in DOMAIN magics : magics[i].name = n}

(* pybridge_register_magic: the whole name is looked for, what fits in the *)
(* buffer is stored.                                                       *)
Register(n, h) ==
    /\ shellUp /\ stage = "idle" /\ calls < MaxCalls /\ calls' = calls + 1
    /\ \/ /\ Entries(n) = {} /\ Len(magics) < MaxMagic
          /\ magics' = Append(magics, [name |-> Cut[n], handler |-> h])
          /\ accepted' = accepted \cup {[name |-> n, handler |-> h]}
       \/ /\ Entries(n) # {} \/ Len(magics) >= MaxMagic
          /\ UNCHANGED <<magics, accepted>>
    /\ call' = NoCall /\ effects' = 0
    /\ UNCHANGED <<mode, python, stage, answer, shellUp>>

(* pybridge_execute: a native command first, then Python, if it is there.  *)
(* An interpreter that is embedded and does not start leaves the bridge    *)
(* without native commands as well.                                        *)
Execute(n, k) ==
    /\ shellUp /\ stage = "idle" /\ calls < MaxCalls /\ calls' = calls + 1
    /\ call' = [name |-> n, kind |-> k] /\ effects' = 0
    /\ LET hits == IF mode # "child" /\ ~python THEN {} ELSE Entries(Cut[n]) IN
       \/ /\ hits # {}
          /\ answer' = [by |-> magics[CHOOSE i \in hits : \A j \in hits : i <= j].handler,
                        status |-> 0]
          /\ UNCHANGED stage
       \/ /\ hits = {} /\ python
          /\ stage' = CASE mode = "embedded" -> "dispatch" [] mode = "direct" -> "simple"
                        [] mode = "child" -> "compile"
          /\ answer' = NoAnswer
       \/ /\ hits = {} /\ ~python
          /\ answer' = [by |-> "python", status |-> -1] /\ UNCHANGED stage
    /\ UNCHANGED <<mode, python, magics, accepted, shellUp>>

Answered(status) == stage' = "idle" /\ answer' = [by |-> "python", status |-> status]
Keeps == UNCHANGED <<mode, python, magics, accepted, call, calls>>

(* PyBridge.execute in bridge.py: the registry of Python commands.         *)
PyMagic ==
    /\ stage = "dispatch" /\ Keeps /\ UNCHANGED shellUp
    /\ \/ /\ call.name \in PyNames
          /\ effects' = effects + 1 /\ \E s \in {0, -1} : Answered(s)
       \/ /\ call.name \notin PyNames
          /\ stage' = "eval" /\ UNCHANGED <<effects, answer>>

(* Mutant of Eval: an exception of the text leads to exec as well. *)
EvalAgain ==
    /\ stage = "eval" /\ Keeps /\ UNCHANGED <<answer, shellUp>>
    /\ effects' = effects + (IF call.kind \in {"stmt", "bad"} THEN 0 ELSE 1)
    /\ stage' = "exec"

(* Its eval: any SyntaxError leads to exec, one that the text raises as    *)
(* well; SystemExit passes through PyErr_Print, which ends the process.    *)
Eval ==
    /\ stage = "eval" /\ Keeps
    /\ \/ /\ call.kind \in {"stmt", "bad"}
          /\ stage' = "exec" /\ UNCHANGED <<effects, answer, shellUp>>
       \/ /\ call.kind = "late"
          /\ stage' = "exec" /\ effects' = effects + 1 /\ UNCHANGED <<answer, shellUp>>
       \/ /\ call.kind \in {"expr", "error"}
          /\ effects' = effects + 1 /\ Answered(IF call.kind = "expr" THEN 0 ELSE -1)
          /\ UNCHANGED shellUp
       \/ /\ call.kind = "exit"
          /\ effects' = effects + 1 /\ shellUp' = FALSE /\ stage' = "idle"
          /\ UNCHANGED answer

(* What a statement raises ends it, SystemExit the process.                *)
Exec ==
    /\ stage = "exec" /\ Keeps
    /\ effects' = effects + (IF call.kind = "bad" THEN 0 ELSE 1)
    /\ \/ /\ \E s \in {0, -1} : (s = 0 => call.kind = "stmt") /\ Answered(s)
          /\ UNCHANGED shellUp
       \/ /\ call.kind = "stmt"
          /\ shellUp' = FALSE /\ stage' = "idle" /\ UNCHANGED answer

(* PyRun_SimpleString: the text is compiled as a whole, then it runs.      *)
RunSimple ==
    /\ stage = "simple" /\ Keeps
    /\ effects' = effects + (IF call.kind = "bad" THEN 0 ELSE 1)
    /\ \/ /\ \E s \in {0, -1} : /\ s = 0 => call.kind \in {"expr", "stmt"}
                                /\ s = -1 => call.kind \notin {"expr", "exit"}
                                /\ Answered(s)
          /\ UNCHANGED shellUp
       \/ /\ call.kind \in {"stmt", "exit"}
          /\ shellUp' = FALSE /\ stage' = "idle" /\ UNCHANGED answer

(* The other mode: fork, the wrapper that compiles before it evaluates,    *)
(* and a waitpid that an interrupt does not end.  Only the child exits; it *)
(* may not become a python3 at all, or be ended by a signal.               *)
Compile ==
    /\ stage = "compile" /\ Keeps /\ UNCHANGED shellUp
    /\ \/ /\ stage' = "child" /\ UNCHANGED <<effects, answer>>
       \/ /\ Answered(-1) /\ UNCHANGED effects       \* no process
Child ==
    /\ stage = "child" /\ Keeps /\ UNCHANGED shellUp
    /\ \/ UNCHANGED effects /\ Answered(-1)
       \/ /\ call.kind # "bad" /\ effects' = effects + 1
          /\ \E s \in {0, -1} : /\ s = 0 => call.kind \in {"expr", "stmt", "exit"}
                                /\ Answered(s)

BridgeNext == \/ \E n \in MagicNames, h \in Handlers : Register(n, h)
              \/ \E n \in MagicNames, k \in Kinds : Execute(n, k)
              \/ PyMagic \/ Eval \/ Exec \/ RunSimple \/ Compile \/ Child

BridgeSpec == BridgeInit /\ [][BridgeNext]_bridgeVars

-----------------------------------------------------------------------------
(* Properties *)

StagesOf(m) == CASE m = "embedded" -> {"idle", "dispatch", "eval", "exec"}
                 [] m = "direct"   -> {"idle", "simple"}
                 [] OTHER          -> {"idle", "compile", "child"}

(* The registry holds what fits its names, and a stage belongs to a mode.  *)
BridgeTypeOK ==
    /\ mode \in {"embedded", "direct", "child"} /\ python \in BOOLEAN /\ shellUp \in BOOLEAN
    /\ magics \in Seq([name : {Cut[n] : n \in MagicNames}, handler : Handlers])
    /\ Len(magics) <= MaxMagic
    /\ accepted \subseteq [name : MagicNames, handler : Handlers]
    /\ effects \in Nat /\ calls \in 0..MaxCalls
    /\ stage \in StagesOf(mode)

NamesFit == \A a \in accepted : Cut[a.name] = a.name

(* The registry is what was accepted, each once as long as the names fit   *)
(* their buffer: a cut one is not found again when it is registered twice. *)
RegistryIsAccepted ==
    /\ \A i \in DOMAIN magics : \E a \in accepted :
            magics[i] = [name |-> Cut[a.name], handler |-> a.handler]
    /\ \A a \in accepted : \E i \in DOMAIN magics :
            magics[i] = [name |-> Cut[a.name], handler |-> a.handler]
    /\ NamesFit => \A i, j \in DOMAIN magics : magics[i].name = magics[j].name => i = j

(* A native command that was accepted is then the one that its name runs,  *)
(* and none answers while Python works.                                    *)
AcceptedIsRun ==
    /\ stage # "idle" => answer = NoAnswer
    /\ NamesFit =>
        \A a \in accepted :
            stage = "idle" /\ call.name = a.name /\ answer.by \in Handlers
                => answer.by = a.handler

(* A command takes effect once, in every mode, whatever  exceptions it     *)
(* raises: what was evaluated is not executed again.  An expression that   *)
(* raises a SyntaxError of its own is the exception in the embedded mode.  *)
TakesEffectOnce ==
    /\ effects <= 1 \/ (mode = "embedded" /\ call.kind = "late" /\ effects = 2)
    /\ stage \in {"dispatch", "eval", "simple", "compile", "child"} => effects = 0
    /\ stage = "exec" => /\ call.kind \in {"stmt", "bad", "late"}
                         /\ effects = IF call.kind = "late" THEN 1 ELSE 0

(* A command that was accepted is run by its own handler, and once.        *)
BridgeInv == BridgeTypeOK /\ RegistryIsAccepted /\ AcceptedIsRun /\ TakesEffectOnce
=============================================================================
