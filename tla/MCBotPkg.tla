------------------------------ MODULE MCBotPkg ------------------------------
(***************************************************************************)
(* BotPkg for TLC: an application that needs a library, and a tool that    *)
(* needs nothing, whose name begins with that of the application.  Later   *)
(* versions have other dependencies.                                       *)
(***************************************************************************)
EXTENDS BotPkg

CONSTANTS app, lib, tool, p1, p2, p3

Two == {p1, p2}
Three == {p1, p2, p3}

MCPackage == {app, lib, tool}

MCShorter == [q \in MCPackage |-> IF q = tool THEN {app} ELSE {}]

M(name, ver, deps, sum) == [name |-> name, ver |-> ver, deps |-> deps, sum |-> sum]

Cmd(op, names) == [op |-> op, names |-> names]

(* A repository that does not change, with right checksums. *)
Steady == [q \in MCPackage |->
              CASE q = app -> <<M(app, 1, <<lib>>, 1)>>
                [] q = lib -> <<M(lib, 1, <<>>, 1)>>
                [] q = tool -> <<M(tool, 1, <<lib>>, NoSum)>>]

(* The application's next version needs the tool and has a wrong checksum; *)
(* the library's needs the application back, and the one after it the tool; *)
(* the tool's has no name.                                                 *)
Moving == [q \in MCPackage |->
              CASE q = app -> <<M(app, 1, <<lib>>, 1), M(app, 2, <<tool>>, 7)>>
                [] q = lib -> <<M(lib, 1, <<>>, 1), M(lib, 2, <<app>>, 2), M(lib, 3, <<tool>>, 3)>>
                [] q = tool -> <<M(tool, 1, <<>>, NoSum), M(NoName, 2, <<lib>>, NoSum)>>]

Installs == {Cmd("install", <<app>>), Cmd("install", <<tool, app>>)}

Removes == {Cmd("remove", <<lib>>), Cmd("remove", <<app>>), Cmd("remove", <<tool, lib>>)}

Updates == {Cmd("update", <<app>>), Cmd("update", <<tool>>)}

InstallsRemoves == Installs \cup Removes

AllCommands == InstallsRemoves \cup Updates

(* Everything done at once to one package. *)
OnePackage == {Cmd("install", <<lib>>), Cmd("remove", <<lib>>), Cmd("update", <<lib>>)}
=============================================================================
