----------------------------- MODULE MCServices -----------------------------
(***************************************************************************)
(* Seven libraries and services for TLC, one in each behaviour: part names  *)
(* it, and the others stay as they are.                                    *)
(***************************************************************************)
EXTENDS Notify, Transfer, EventRing, MemPool, Canvas, FloodFill, Manifest

CONSTANTS a, b, c, d,           \* senders and events; clients of the pool
          plain, secure, typeurl

VARIABLE part

(* Two messages that fit the buffer, one exactly, and one that is cut.     *)
MCTitleLen == [s \in Sender |-> IF s = c THEN 3 ELSE 1]
MCBodyLen  == [s \in Sender |-> IF s = b THEN 2 ELSE 1]

(* Arguments of the drawing calls, on the canvas and off it.               *)
MCCoord == -1 .. 4

(* Pictures of two colours with the same one in three corners: bays, rings *)
(* and paths that turn are among them.                                     *)
MCPicture ==
    {p \in [Point -> Colour] : \A q \in {<<0, 0>>, <<2, 0>>, <<0, 2>>} : p[q] = a}

(* A fill outside of a picture, which is over before it began.             *)
FillIdle ==
    /\ before = [q \in Point |-> a] /\ pic = before /\ start = <<Columns, 0>> /\ fill = a
    /\ stack = <<>> /\ cap = InitialCap /\ room = InitialCap
    /\ at = start /\ left = 0 /\ right = 0 /\ i = 0 /\ short = FALSE /\ fpc = "done"

(* Values with the letters of keys, with characters that JSON or the parser *)
(* gives a meaning to, and too long ones; dependencies of each kind.       *)
MCValue ==
    {<<>>, <<"n">>, <<"v", "d">>, <<"d">>, <<"a", Quote>>, <<Slash, "n">>, <<"LF">>,
     <<Quote, "n", Quote>>, <<"a", "b", "c", "d">>, <<"v", ":", "[">>, <<"]", ",">>}

MCDeps ==
    {<<>>} \cup {<<item>> : item \in MCValue \cup {Number}}
        \cup {<<<<"a">>, <<"d">>>>, <<<<"a">>, Number>>, <<<<"n">>, <<"v">>, <<"a">>>>}

MCChar == {Quote, Slash, Colon, Comma, LBracket, RBracket, LBrace, RBrace,
           "n", "v", "d", "LF", "0", "1", "a", "b", "c"}

MCRelease == [name : MCValue, version : MCValue, deps : MCDeps]

(* A manifest that was not read yet.                                       *)
ManifestIdle ==
    /\ said = Failed /\ order = <<>> /\ text = <<>>
    /\ parsed = Failed /\ copy = Failed /\ stage = "served"

(* A download that is over before it began.                                *)
TransferIdle ==
    /\ step = "done" /\ url = plain /\ hops = 0 /\ addrs = 0
    /\ socks = 0 /\ tls = FALSE /\ answer = NoAnswer /\ stalled = FALSE /\ cut = FALSE
    /\ buf = NoBuf /\ resp = Freed /\ result = "none" /\ file = Untouched /\ lost = FALSE

Init ==
    /\ part \in {"notify", "transfer", "ring", "pool", "canvas", "fill", "manifest"}
    /\ NotifyInit /\ (part # "notify" => clock = 0)
    /\ IF part = "transfer" THEN TransferInit ELSE TransferIdle
    /\ IF part = "fill" THEN FillInit ELSE FillIdle
    /\ IF part = "manifest" THEN ManifestInit ELSE ManifestIdle
    /\ RingInit /\ PoolInit /\ CanvasInit

Next ==
    /\ \/ /\ part = "notify" /\ NotifyNext
          /\ UNCHANGED <<netVars, ringVars, poolVars, canvasVars, fillVars, manifestVars>>
       \/ /\ part = "transfer" /\ TransferNext
          /\ UNCHANGED <<notifyVars, ringVars, poolVars, canvasVars, fillVars, manifestVars>>
       \/ /\ part = "ring" /\ RingNext
          /\ UNCHANGED <<notifyVars, netVars, poolVars, canvasVars, fillVars, manifestVars>>
       \/ /\ part = "pool" /\ PoolNext
          /\ UNCHANGED <<notifyVars, netVars, ringVars, canvasVars, fillVars, manifestVars>>
       \/ /\ part = "canvas" /\ CanvasNext
          /\ UNCHANGED <<notifyVars, netVars, ringVars, poolVars, fillVars, manifestVars>>
       \/ /\ part = "fill" /\ FillNext
          /\ UNCHANGED <<notifyVars, netVars, ringVars, poolVars, canvasVars, manifestVars>>
       \/ /\ part = "manifest" /\ ManifestNext
          /\ UNCHANGED <<notifyVars, netVars, ringVars, poolVars, canvasVars, fillVars>>
    /\ UNCHANGED part

vars == <<notifyVars, netVars, ringVars, poolVars, canvasVars, fillVars, manifestVars, part>>

(* The fairness of NotifySpec, TransferSpec, CanvasSpec and FillSpec.       *)
Polled == /\ part = "notify" /\ \E gap \in 1 .. MaxGap : Pump(gap)
          /\ UNCHANGED <<netVars, ringVars, poolVars, canvasVars, fillVars, manifestVars, part>>

Served == /\ part = "transfer" /\ ClientStep
          /\ UNCHANGED <<notifyVars, ringVars, poolVars, canvasVars, fillVars, manifestVars, part>>

Drawing == /\ part = "canvas" /\ (LineStep \/ CircleStep)
           /\ UNCHANGED <<notifyVars, netVars, ringVars, poolVars, fillVars, manifestVars, part>>

Filling == /\ part = "fill" /\ FillStep
           /\ UNCHANGED <<notifyVars, netVars, ringVars, poolVars, canvasVars, manifestVars, part>>

Spec == /\ Init /\ [][Next]_vars
        /\ WF_vars(Polled) /\ WF_vars(Served) /\ WF_vars(Drawing) /\ WF_vars(Filling)

-----------------------------------------------------------------------------
(* What each part must come to, under the fairness of its own loop: a      *)
(* message that was accepted is read, a download returns, a line, a circle *)
(* and a fill come to their end.                                           *)
ServicesServe == AcceptedIsRead /\ DownloadReturns /\ DrawEnds /\ FillEnds
=============================================================================
