# BotOS in TLA+

A verification development for BotOS: TLA+ modules for the parts of the system
whose state outlives one function call, model-checked with TLC and, where it
matters most, proved with TLAPS for every value of the constants. The code is
the reference; comments, help texts and headers only supply what the code is
supposed to do.

    tlc -workers 2 -config PkgFaults.cfg MCBotPkg.tla      a run
    tlapm DesktopProofs.tla                                a proof

1. [The system](#the-system)  2. [Modules](#modules)  3. [Runs](#runs)
4. [The package manager](#the-package-manager)  5. [The shell](#the-shell)
6. [The desktop](#the-desktop)  7. [Applications](#applications)
8. [Services and libraries](#services-and-libraries)  9. [Fairness](#fairness)
10. [What is proved](#what-is-proved)  11. [Only model-checked](#only-model-checked)
12. [Not modelled](#not-modelled)

## The system

| Component | State | Operations | Meets |
|---|---|---|---|
| resolver (`services/botpkg/src/resolver.c`) | DFS nodes and colours, output order, `g_installed` | `resolver_resolve`, `resolver_is_installed` | manifests on disk, BotNet |
| botpkg (`services/botpkg/src/botpkg.c`) | database `/var/lib/botpkg`, cache `/var/cache/botpkg` | install, remove, update, list, search | resolver, manifest parser, SHA-256, BotNet; other botpkg processes (shell, BotPkg GUI) through the same directories |
| manifest parser (`manifest.c`) | none | parse, print | botpkg, resolver |
| SHA-256 (`sha256.c`) | digest context | init, update, final | botpkg |
| BotNet (`services/botnet`) | socket, receive buffer, redirect count | TCP connect/send/recv, HTTP request, download | botpkg, shell, apps |
| BotLog (`services/botlog`) | log file, level | init, write, shutdown | everything |
| BotNotify (`services/botnotify`) | a FIFO | `bot_notify_send` | BotDesk's toast |
| BotShell executor (`shell/src/executor.c`) | `g_bg_jobs`, `g_next_job_id`, child processes | run a pipeline, jobs, fg, bg, cleanup | kernel, builtins |
| BotShell prompt (`botshell.c`) | line being edited, history, terminal mode | read a line, history load/save | parser, blocks |
| BotShell blocks and scripts (`botshell.c`) | block being collected, loop variable | for, while, if; scripts | prompt, executor |
| BotShell parser (`parser.c`) | none | tokenise, build a pipeline | prompt, blocks |
| BotShell builtins (`builtins.c`) | RPG save file, directory, environment | commands | executor |
| PyBridge (`pybridge.c`, `pybridge/runtime`) | Python interpreter or child, table of native commands | start, execute, magic commands | prompt |
| libbot (`sdk/libbot`) | memory pool | alloc, free, strings, files | SDK users |
| BotUI (`sdk/botui`) | event queue of 128, windows and framebuffers, canvas | poll, wait, push, loop, quit, resize, draw | apps, X server |
| BotDesk (`apps/botdesk`) | managed windows, focus, drag, palette, toast | X event handlers, launch, pump | X clients, BotNotify, BotUI |
| BotPaint (`apps/botpaint`) | picture, undo, dialog, file | draw, fill, undo, open, save | BotUI |
| editor (`apps/editor`) | lines, cursor, file | keys, load, save | BotUI |
| BotTerm (`apps/botterm`) | grid, scrollback, PTY | read, key, draw | BotUI, a shell |
| other apps (files, info, settings, BotPkg GUI) | a window each | user commands | BotUI, botpkg as a child |
| core: VFS, IPC, init | described in `docs/` and tested in `tests/`, source not in the repository | | |
| boot, kernel configuration, build scripts | none at run time | | |

What is hard here, and where a test hardly reaches (each with its line under
"hazards" in `PROJECT.json`):

* botpkg takes no lock. Two commands, or a command and a kill, interleave at each
  file operation; downloads fail or come back cut, and so do writes to a full disk;
  the repository changes while a command runs.
* The resolver's recursion, colours, node limit and output array have to agree on
  every graph, cyclic ones included.
* The executor learns of its children only from `waitpid`, late and in any order;
  they stop, continue and die by themselves, and pids are used again.
* BotDesk handles X events of clients that may be gone already, with requests and
  reports in any order; focus, frames, grab and palette each have an account of
  their own of which window counts.
* Events are dropped from full queues, among them those that close and resize.
* A FIFO read may return several notifications; clocks wrap.
* The server at the other end of a download cuts, drips, stalls and redirects.
* The save file of the game is read, changed and written back by any number of
  shells, and torn by a kill.
* Editors of text (prompt, editor, terminal) keep several arrays, cursors and
  views in step, at the limits of each.
* Writers and readers of one format (manifests, command lines, blocks) have to
  mean the same.

What makes each component correct:

* resolver: an answer is an install order of exactly what is needed; an error is
  deserved; the search ends.
* botpkg: the database is closed under dependencies, what is listed is what is
  installed, nothing unverified is registered, an install that says so has
  delivered, each command ends unless a download or a manifest holds it.
* manifests: what is parsed is what the author meant, and what is written to the
  database reads back as what was installed.
* BotNet: a file reported as stored is what was sent, nothing leaks, the buffer is bounded, the
  call returns.
* executor: jobs name children of the shell, every process left running can be
  reached through a job, the state shown is the state, the prompt comes back.
* prompt, parser, blocks: the line shown is the line run, read as it was meant,
  and a program does what it says and ends.
* game: a hero adds up, and one shell alone loses no progress.
* PyBridge: a name runs the command it was accepted for; a command takes effect once.
* BotDesk: the table of windows is in order, no request to show
  a window is left waiting, the keys go to the window drawn as focused, a drag ends with its button.
* BotNotify and toast: every message delivered is shown whole, each toast leaves.
* BotUI: order kept, a request to close ends the loop, sizes agree and settle, shapes
  drawn are the shapes asked for.
* BotPaint: buffers fit each other, undo is what was before, a fill is the region.
* editor and terminal: the cursor is on the text, [MODIFIED] tells the truth, a key
  changes the text where it is typed; the view is a piece of what was written.
* libbot pool: a block is handed out once, zeroed, and the count is the number in use.

## Modules

Component modules are written to be extended by an `MC` module that gives the
constants. Several small components share one `MC` module: its variable `part`
names the one that runs in a behaviour, and the others stay as they are, so that
the run explores the sum of their state spaces and not the product.

| Module | Role |
|---|---|
| `DepGraph` | dependency graphs: order, closure, cycles |
| `InstallPlan` | what a resolver promises: one step from no answer to a right one |
| `Resolver`; `MCResolver` | the depth-first search of `resolver.c` |
| `RecursionProofs` | lemmas on recursive functions and joined sequences that the proofs about texts share |
| `ResolverProofs` | proofs about `Resolver` (invariant, properties, refinement of `InstallPlan`) and `Manifest` |
| `PackageDB` | what a package database promises: entries come and go with the set closed under dependencies |
| `BotPkg`; `MCBotPkg` | botpkg commands over shared files |
| `BotPkgProofs` | its invariants, properties and refinement of `PackageDB` |
| `JobControl`; `MCJobControl` | the shell's executor against its child processes |
| `JobControlProofs` | its invariants: who is whose child, what the table says, and that nothing is lost from it |
| `WindowManager` | BotDesk between its clients, the X server and the user |
| `Paint`, `FloodFill` | BotPaint, and its fill tool pixel by pixel |
| `MCDesktop` | `WindowManager` or `Paint` |
| `DesktopProofs` | the invariants of both: table, screen, keyboard and pointer; picture and its history |
| `Notify` | senders, FIFO and toast |
| `Transfer` | an HTTP download against its server |
| `EventQueue`, `EventRing` | a queue that gives up its oldest, and the ring of `event.c` that implements it |
| `MemPool` | libbot's pool |
| `Canvas` | the drawing calls of BotUI |
| `Manifest` | manifests as texts, parsed, written and parsed again |
| `MCServices` | one of the seven: `Notify`, `Transfer`, `EventRing`, `MemPool`, `Canvas`, `FloodFill`, `Manifest` |
| `ServicesProofs` | proofs about `EventRing`, `MemPool`, `Transfer`, `Notify`, `Canvas` and `FloodFill` |
| `Toolkit` | a program on BotUI: event queue, window sizes, main loop |
| `Editor`, `Terminal` | the text editor and BotTerm |
| `MCApps` | one of `Toolkit`, `Editor`, `Terminal` |
| `AppsProofs` | the invariants of the three, and `EditIsLocal` |
| `Interpreter`, `Repl`, `Parser`, `Hero`, `PyBridge` | parts of BotShell |
| `MCShell` | one of them |
| `ShellProofs` | the invariants of `Repl`, `Hero`, `PyBridge`, `Interpreter` and `Parser` |

Definitions headed "Mutant of" or "A fault to test" are wrong versions of the
operator after them; nothing uses them but experiments that put them in its place
to see that a property notices.

Abstract specifications: `InstallPlan` for `Resolver` (`PlanSpec`, checked and
proved), `PackageDB` for `BotPkg` (`PackageDBSpec`, checked and proved), `EventQueue` for
`EventRing` (`RingIsQueue`, checked and proved). `FloodFill`, `Canvas`, `Manifest`,
`Parser` and `Interpreter` are compared with reference definitions instead: the
least closed set, geometry, and the meaning of what was written.

Composition: `BotPkg` installs in an order that `Resolver` was shown to compute
(`IsInstallOrder`) and downloads as `Transfer` allows (a body, a cut body or an
error); `Toolkit`'s queue gives up its oldest event as `EventQueue` does; `Paint`
leaves what a stroke paints to `FloodFill` and `Canvas`; `WindowManager` leaves
sizes to `Toolkit` and toasts to `Notify`.

## Runs

| Run | Bounds | Shows |
|---|---|---|
| `MCResolver.cfg` | 4 packages, arrays of up to 2 entries, 3 nodes | `IInv` (with `ErrorDeserved`), `InstallOrder`, `NothingDropped`, refinement `PlanSpec`, `Terminates` |
| `PkgFaults.cfg` | 2 processes, one after another, moving repository, room for 2 nodes; 1 failed or cut download or write, 1 kill, 1 publication | `FilesInv` (the inductive invariants), `ListAgrees`, `ChecksumKept`, `RemoveSafe`, `InstallUndisturbed`, `EveryCommandEnds` |
| `PkgKilled.cfg` | 3 processes, one after another, 2 kills, install and remove | refinement `PackageDBSpec`: every reachable database is closed, wherever a command was killed |
| `PkgMixed.cfg` | 3 processes at once on one package: install, remove, update | `ListAgrees` |
| `JobsSingle.cfg` | 2 pids, 2 slots, one stage, 4 jobs, 3 stops, 1 failed fork | `JobStateTrue`, `JobsKept`, `PromptReturns` |
| `JobsPiped.cfg` | 4 interchangeable pids, 2 slots, two stages, 2 jobs, 2 stops, 1 failed fork | `TableInv`, inductive: types, `ActiveIsChild`, and a table that says what the processes do |
| `JobsHang.cfg` | 3 pids, two stages, 1 stop | *violated* `PromptReturns` |
| `Desktop.cfg` | 3 interchangeable programs, 2 slots, a palette of one row, 2 events queued; BotPaint with 2 sizes and 2 inks | `WMInv`, `InputOwned`, `PaintInv` |
| `Services.cfg` | below | `NotifyInv`, `LoneMessageShown`, `TransferInv`, `PoolInv`, `RingIsQueue`, `CanvasInv`, `FillSafe`, `ManifestInv`, `ServicesServe` |
| `NotifyTwo.cfg` | as `Services.cfg` | *violated* `OneReadOneMessage` |
| `Apps.cfg` | below | `ToolkitInv`, `EditorInv`, `EditIsLocal`, `TermInv`, `AppsServe` |
| `Shell.cfg` | below | `InterpInv`, `ReplInv`, `ParserInv`, `HeroInv`, `BridgeInv`, `ShellEnds` |

Deadlock is checked in the first seven, whose finished programs have an explicit
terminal step. It is off in the others because the system really stops there: a
desktop that was quit, a download that returned, a line that was parsed. That
nothing stops too early is what the liveness properties of those runs say.

## The package manager

### Resolver

`stack` is the C stack of `dfs_visit`: a frame is a package and the next index of
its loop over the dependency array. `color`, `output`, `cycleFrom` and `cycleTo`
are fields of `dfs_state_t`; `loaded` holds the dependency arrays
`load_package_deps` would return, chosen at first visit so that every graph is
explored; `answer` is what `resolver_resolve` returns. The actions are the ways
through `dfs_visit`: `Start` (the root call), `VisitNew`, `VisitResolved`
(black), `VisitCycle` (grey), `VisitFull` (`dfs_get_node` has no slot), `Return`
(emit and blacken) and `Finish`. `MaxNodes` is `MAX_RESOLVE_DEPTH`, which bounds
nodes, output and so the depth of the recursion.

The run takes all graphs of four packages with arrays of up to two entries,
self-loops and repetitions included, with a table of three nodes, so that cycles
at every depth, diamonds, full tables and plain orders all occur. Four packages
give a diamond, the smallest graph in which a package is met again when black;
the third node is the last that fits. `InstallOrder` (order, completeness, no
extras), `ErrorDeserved`, `NothingDropped` (the silent cap in `dfs_emit` never
bites) and the refinement hold.

The search remembers in `cycle_from` the package entered last (`resolver.c:217`)
and does not restore it when a visit returns, so after a completed sibling the
message "Dependency cycle detected: a -> b" (`resolver.c:210`) may name two
packages without a dependency between them. Nothing else reads it.

### BotPkg

Files are shared variables: `db`, `cache` (manifests), `fresh` (an update's
`.new`), `archive`. A file is absent (`NoFile`), open but unwritten (`Empty`) or
a manifest: its name, version, dependencies and checksum, with `NoName` and
`NoSum` when missing, and `BadSum` for a checksum cut short. `repo` is the version served of each package. Each process
runs one command line and its record `proc[p]` holds where it is (`pc`) and its
local variables; `handle` follows the file it has open when that file is renamed
or unlinked, as the kernel does; `mem` is `g_installed`, `view` the dependencies
it resolved with.

A step of a process ends where another process could see the difference: at each
open-for-write, write, rename, unlink and each read of a file. Install is
`LoadLocal`/`LoadDownload`/`LoadParse`/`LoadLeaf` (`load_package_deps`),
`Resolved`, then for each package `SkipInstalled` or `FetchManifest`,
`ParseManifest`, `FetchArchive`, `Verified` or `Reject`, `Register`,
`Registered`, and `Installed`, and `ResolveFails` on a cycle or a full table of nodes; remove is `RemoveStart`, `Scan` once for each entry
of the directory, `Unregister`; update is `FetchUpdate`, `ParseUpdate`,
`RejectUpdate`, `Replace` or `ReplaceFails`. `Crash`
kills a process anywhere; `Publish` moves the repository on.

Every way in which a file goes wrong is a fault, of which a run allows a number. A
download fails before it opens its target (`FetchManifestFails` and its like), or opens
and so empties it and then fails (`LoadFailed`, `ArchiveFailed`, `UpdateFailed`), or
succeeds with what had arrived when the connection ended, or with what a full disk
took: `Downloads` opens, `Write` fills, and `Cut` gives the beginnings of a manifest,
with its last field or dependency missing or shortened, perhaps to the name of another
package (`Shorter`). The entry in the database is cut in the same way (`RegisterTorn`,
counted in `torn`: `fputs` and `fclose` are not looked at), or not opened at all
(`RegisterFails`). Two processes that write one file at once leave a mixture of both
(`Over`, `OverArchive`): a shorter text over a longer one shows the end of the other.

Simplified: `mkdir` and `fopen` are one step, as are `unlink` and `rmdir`; the
existence checks for the summary printed before an install are one step; the two
local reads of `load_package_deps` are one step; the checksum of an archive is
the version it belongs to; update's exit status -1 is 1.

Three packages: an application, the library it needs, a tool that needs either
nothing or the library, so there is a chain, a shared dependency and a package
nobody needs; the next versions change dependencies, have a wrong checksum or no
name, which is each thing `manifest_parse` and the checks tell apart. Three
processes allow an install, a second command and one in between. Two kills allow
one in each of an install and a remove; one publication puts a change between any
two reads. `Serial = TRUE` lets a command start only when no other is busy: that is
the use the help text describes, and no guard of the code. The other settings a
property is stated for are operators over the constants: `Readable` (every
manifest arrives whole and has a name), `OwnNames` (no manifest names another
package), `StartsRight` (the first versions are installable), `NoUpdates`, and `Calm`,
over the state, says that so far nothing failed or was published, nor killed if there are
updates. A table of two nodes is full for the application with its library and tool.

`EveryCommandEnds` excepts a process that `Waits`: one that is about to download a file or
to parse a manifest. Neither need end: a TLS read that wants more from a silent server
is retried (`http.c:241`), and the scan of an array stands still at an item that is no
string or is too long (`manifest.c:142`). That every other step of a command leads on,
through failures, cycles, full tables and names that are not there, is what is checked.

Seen while modelling, each a few steps of ordinary use, and outside of what the
properties claim:

* remove scans the database and then unlinks (`botpkg.c:379-389`); a dependant
  registered in between by another command loses its dependency. So does one when
  an install that was killed is followed by remove and update (389).
* `g_installed` is not told when another command removes a package, which an install
  under way then skips (`resolver.c:249`).
* a dependency whose archive cannot be downloaded is skipped (`botpkg.c:321`), its
  dependant installed, and the command returns 0.
* update renames whatever it fetched over the installed manifest; no versions are
  compared (`botpkg.c:443-450`, against `botpkg.c:16`). It may rename over a file
  that another command is still writing (439).
* a second installer rewrites the cached manifest while the first parses it; the
  result of `manifest_parse` is not looked at (`botpkg.c:299`) and the package goes
  in without the verification the comment above it is about.
* `resolver_is_installed` answers from its memory, so `remove x x` reports the
  second removal as a success (`resolver.c:249`); an install resolves from the
  cached manifest and registers the one it fetches again (`botpkg.c:294`), so a
  version published in between is installed without its new dependencies; an update
  adds dependencies without installing them; an entry whose writing was cut short
  counts as installed but is not listed and hides its dependencies from remove; one whose
  download or writing was cut after its name hides those that were cut off.

### Manifest

`said` is a package as its author means it and `text` the manifest he wrote, keys
in either order, with the characters JSON escapes written as escapes.
`manifest_parse` reads it into `parsed` with the code's own search for keys
(`json_find_key` takes the first quoted occurrence followed by a colon), string
reader and array loop; `db_register_package` writes it to the database, and
`db_find_reverse_dep` stands for every later parse of that file. `ParsedIsMeant`:
a package whose values fit is installed as it was meant, and listed. `ReadsBack`: what
reads back from the database is what was installed, unless a value holds what
`manifest_to_json` would have to escape, or the package is longer than the buffer it
allocates, 512 bytes and 80 for each dependency (`Whole`): `snprintf` then cuts the text, and
where `pos` has passed the end (`Overruns`) the next call writes behind the buffer, after which
nothing is claimed (`json_overrun`). `HangDeserved`: the scan of an array ends
unless an item is no string or is too long for its field.

Eleven values cover the letters of keys, each character that JSON, the parser or
an escape gives a meaning, and a value one too long for a field; with arrays of up
to two fitting items and one of three, and a buffer of 25 and 6 per dependency, which the longer
ones do not fit. All combinations are explored (each a
behaviour of three steps).

Seen: values are written back without escaping (`manifest_to_json`), so a quote or
backslash in a description ends the value early when read again; an over-long or
non-string dependency makes the array scan endless (`manifest.c:142`), in botpkg and
in whatever command reads that entry later; description, author and checksum alone may be longer than the
512 bytes of the writer's buffer.

### Transfer

One call of `bot_http_download`: `step` is where it is, `url`, `hops` and `addrs`
which request, redirect and address it is at; `socks` and `tls` what it has open;
`buf` the receive buffer with its capacity, `resp` the response object; `answer`
what the server sends, `cut` and `stalled` what it does instead; `file` the target.
`http_request` starts one request, `bot_tcp_connect` tries one address, then
`Handshake`, `SendRequest`, `Receive` (one read into the buffer, whose `Capacities` are the initial one doubled until it reaches the limit),
`ResponseEnds`, `Parse` and `bot_http_download` (redirect, write the file, give up).

Three URLs (plain, TLS, and one named by a Content-Type, which the code takes for a
redirect target), two addresses per host so that the first may fail, one redirect
so that the limit is met, a buffer of 2 that doubles to 4 and is limited by 6,
pieces of up to 3, bodies that are empty, fit, and never end. `NothingLeaks`,
`ResponseFits`; `FileIsBody`: when the call reports success the file is the body of an answer
with status 200, unless the connection cut it or the disk did so in `fclose`, whose result nobody
looks at (`lost`, `http.c:550`); it is a beginning of that body even then. `DownloadReturns`: the call returns, but for a server that
falls silent over TLS, which is asked again without end (`http.c:241`).

Seen: a 3xx without a Location follows whatever follows "tion" in its Content-Type;
a relative Location is not resolved; a response cut by the peer is accepted as
complete, and so is a file cut by a full disk; chunked bodies are stored as they come.

## The shell

### JobControl

`child` is the kernel's account of the shell's children: state, a stop or
continuation `waitpid` has not reported yet, and process group. A pid is free
again when its child was reaped and no group has its number. `jobs` is
`g_bg_jobs`, `nextId` `g_next_job_id`, `sh` the place in the executor with the
pids of `child_pids` still of interest. `Run` starts `executor_run_pipeline`;
`Reap`, `Reaped` are `bg_reap_completed`; `Fork`, `ForkFails` one round of the
fork loop; `Foreground`, `Ended`, `Suspended`, `WaitRest`, `Finished` the wait;
`Background` and `Suspended` record a job; `Fg`, `FgEnded`, `FgStopped`, `Bg` and
`Exit` the builtins. The processes themselves take `Exits`, `Killed`, `Stops` and
`Continues` at any time. A fork also fails when no pid is left. Exit codes,
redirections and the owner of the terminal are left out; a child never changes
its group.

Two stages give a leader and a last stage, the two processes a job names; two
pids of single-stage jobs allow a pid to be used again while another job is in
the table; three stops allow stop, fg, stop, bg, stop. `JobsKept` needs as many
slots as processes: with all `EXEC_MAX_BG_JOBS` taken the code says itself that
it does not record the job. `JobsHang.cfg`: the last stage ends while the first is
stopped; the wait at `executor.c:400` has no `WUNTRACED`, although the comment at 395
says "only if they did not stop", and nobody is left to continue the process.

Seen: a background pipeline whose first stage ends is dropped by
`bg_reap_completed` (181) while its last stage runs on, against `executor.h:81`;
`jobs` prints the table without reaping first (489); when a fork fails after some
stages were started (258) these are left to run.

### Parser

`meant` is a pipeline as its author means it, `pos` the text still to be read,
`cmd` the command being filled, `cmds` those that are complete. One step is one turn
of the inner loop of `parser_parse_line`: `BeginCommand`, `Argument` (next_token with
quotes, escapes, `$` and tilde), `Redirection`, `Ampersand`, `EndCommand`.
A pipeline that is meant has words made of *pieces* (a character, `$n`, `${n}`) with
the home directory perhaps in front; `LineOf` writes it down, each word and file name in
single quotes, in double quotes, or bare with backslashes. In single quotes every character
is meant for itself, a `$` and a tilde too; in double quotes a tilde is. What cannot be
written that way is left out by `WordOK` and `StyleOK`: an apostrophe in single quotes, a backslash
before a variable, a name that would run on into what follows, and a `$` for itself
anywhere but in single quotes. File names are not expanded and are meant as they stand.
`ReadAsMeant` compares the commands with what was meant, if no quotes would have had to
keep a `$` or a tilde from being expanded (`Untouched`): checked for every way to quote each
of a set of words that hold blanks, operators, quotes and the comment sign, in one
or two words with any redirections, and pipelines of two, and proved for all;
`ParseEnds` for these and for every line of up to four of ten characters.

Seen: three comments of `parser.c` that the code does not keep.
"Single-quote (literal)" (lines 12 and 176): a `$` or a leading tilde in single quotes
is expanded like any other, for quotes are gone when `expand_variables` is called (376).
"Backslash escapes in unquoted and double-quoted tokens" (13), "Escaped dollar sign" (96): `\$a` loses its
backslash in the tokenizer (206, 233) and is expanded after all; in effect a `$` stands for itself only behind two
backslashes. "Stops at whitespace, pipe, redirect, ampersand" (178): a word with
an operator right behind it is not terminated there (241), so `ls|wc` and `echo hi>file` pass
the operator on in a word.

So `ReadAsMeant` speaks of text with blanks around operators, and of words in one style
each. Seen besides: `#` starts a comment only at a word's beginning but quoted and unquoted
pieces that touch are split into two words, and commands beyond the sixteenth are dropped.

### Interpreter

`wanted` is a program as a sequence of statements, whose bodies are text and may hold
blocks; `program` is its lines, `block` those
collected, `stack` the C calls under way, `trace` the commands run. `ReadLine` and
`CollectLine` are the two readers (prompt and script), `RunBlock` the dispatch,
`ForHead`, `WhileHead`, `IfHead` the three statements and `BodyLine`, `BodyEnd` their
loops over the lines of the body. A command succeeds a given number of times
(`Lasts`), so that a while loop ends, never starts, or goes on to the limit of
iterations (3 for the 1000 of `botshell.c:992`). A block is collected as long as its bytes
(`Size`, with a line break after each line) fit the buffer, 25 for the 8192 of
`botshell.c:1086`. Bodies hold nothing, a failing command, an exit, a word
that is a keyword, a nested block, and one line more than fits. `RunsAsWritten`: a
program without nested blocks runs what `Meaning` says of its statements, which is defined
by recursive functions over them and knows nothing of lines and stacks; `ProgramEnds`.

Nested blocks do not work (`docs/roadmap.md:157-160` says so). Seen besides: `exit` in a
loop does not end it; a block that is too long is executed cut and the line that
did not fit is lost; keywords are counted wherever they stand in a line; an
incomplete block is executed at the end of the input; a heredoc in a script reads
the standard input; the loop's variable is unset afterwards.

### Repl

`input` is the buffer of `read_line_interactive`, `screen` what stands after the
prompt, `browse` the place in the history, `pending` the block being collected,
`tty` the mode of the terminal, `errno` and `how` why the last read ended.
`TypeChar`, `Backspace`, `UpArrow`, `DownArrow`, `TabKey`, `EnterKey`, `LineFull`, `CtrlC`,
`CtrlD`, `CtrlZ` are the keys; `Interrupted`, `Prompt`, `RunCommand`, `ClearHistory` the loop
around. `ScreenIsInput`, `CookedOutside` and `HistoryIsLog` (the history is what was
entered, a line entered twice in a row once, the oldest given up) hold for three characters, two of
which open and close a block, lines of up to four, blocks of up to five, a history of two and seven
presses: enough to type a block, recall it, change it and lose the oldest entry.

A block can be longer than the buffer of a line, and so can its history entry. `Recalled`
is what `strncpy` (`botshell.c:422`, 441) makes of it: a buffer full to its end, without a
terminator or with whatever lay behind it, so that the loop ends at once and the cut line is
executed without Enter (`LineFull`). What is run is what is shown, even then.

Seen: the history file is never loaded or saved, its name being NULL
(`botshell.h:80`); Ctrl-C does not cancel a block and Ctrl-D in one executes it; after
an interrupted read a stale `EINTR` makes Ctrl-D ignored (`Interrupts` models it); a
line interrupted by a signal is executed (`botshell.c:73-77`); a full buffer submits
the line; `TCSAFLUSH` drops what was typed ahead; an escape sequence that arrives
slowly is typed as text; a recalled block of several lines cannot be erased beyond
its last line.

### Hero

`save` is the file, `held` the hero each shell has loaded, `at` where its command is.
`Mine`, `Buy`, `Upgrade`, `Adopt`, `Feed`, `Play` load and change; `OpenSave` truncates the
file, `WriteSave` fills it; `OpenFails` and `WriteFails` are a save that no place takes and one
that does not reach a full disk, both unnoticed; `Killed` ends a shell anywhere; `Tick` is the
clock of the cooldown. `HeroAddsUp`: level, points, experience and hit points of every copy fit
together, whatever the shells do to each other's saves. `ProgressKept`: one shell
alone loses nothing, as long as it is not killed and its saves succeed (`alone`). Two shells, three commands, a hero about to rise a level with
a pet about to as well: every rule of the game fires, and every pair of commands
overlaps. Two shells at once do lose updates (or double gold), and a command that loads a
torn file starts from a new hero and saves it.

Seen: the shop sells the Iron Sword for "+25%% Mining Gold" (`builtins.c:1244`, and
`botinfo.c:148` repeats it), but `builtin_mining` computes the gold from the
skill alone (1167-1173) and reads `has_sword` nowhere. `earned` counts what the code gives.

### PyBridge

`magics` is the table of native commands, `call` the command executed, `effects` how
often Python's text took effect. `Register` and `Execute` are the API; `PyMagic`, `Eval`,
`Exec` are `bridge.py` in the embedded mode; `RunSimple` is `PyRun_SimpleString`, which an
embedded interpreter without `runtime.execute` is left with (`pybridge.c:273`, mode "direct"); `Compile` and `Child` are
the python3 of the third mode, which may not start, or be ended by a signal. What Python does
with a text is external and reduced to six kinds. `AcceptedIsRun`, `TakesEffectOnce`
with its one exception, an expression that acts and then raises a SyntaxError, which
is executed again (embedded mode). Four names of which two are cut to one, a table of
two. Seen: SystemExit ends the shell in the two embedded modes.

## The desktop

### WindowManager

Three actors. Programs `Show`, `Hide` and destroy their window (`Die`), and are reaped
(`reap_children`). The user has `Press` (title bar, close box, grip), `Motion`, `Release`, `Key`,
`TaskbarClick`, `IconClick`, `Quit`. BotDesk takes one event at a time from `wmq`:
`wm_handle_map_request` up to the round trip of `XGetWindowAttributes`, `Manage` the rest of
it, `wm_handle_unmap_destroy`, `wm_handle_button_press`, `wm_handle_motion`,
`wm_handle_button_release`, `Tab`, `Space`, `PaletteEdit` and `PaletteDone`. `slot`, `focused`,
`count` are `wm_windows[]`; `drag`, `sizing` the frames under the pointer; `palette` the
palette. Of the X server there are the state of each window (`app`), which lie in
frames (`framed`), the focus (`xfocus`) and the automatic grab of a pressed button
(`held`), changed by the requests BotDesk makes and the reports it is owed.

`TableInv`: every used slot counted once, with a client and a frame of its own, one
focused. `RequestsAnswered`: once BotDesk has caught up (`CaughtUp`: no event queued, no
request under way) no request to show a window waits: it is shown, also when all slots were
taken, or it was destroyed, by its program or with its frame (see below), and no dead or hidden window is managed.
`KeyboardFollows`: then the keyboard is with the window drawn as focused.
`DragOwned`: a window hangs on the pointer only while its button is down or the release
is queued. Three programs for two slots: one is shown unmanaged, and slots are used
again. Two queued events put one behind another that makes it stale; all of this is
proved for any numbers.

Seen: `wm_handle_configure_request` (343-362) looks up the client's window where only
unmanaged windows ask, so its branch for managed clients does nothing; quitting BotDesk destroys
the windows in its frames; a window that hid itself and asked to be shown again
before the report was handled is destroyed with its frame.

### Paint and FloodFill

`image`, `undo` and `frame` are the canvas, the undo buffer and the window, each with its
size; `file` the file on disk (absent, no image, an image without pixels, an image),
`drawing` and `pressed` the stroke, `asking` the dialog. The actions are BotPaint's
handlers with what they call (`botpaint_load`, `botpaint_save`, `save_undo`):
`ToolbarClick`, `CanvasPress`, `on_mouse_move`, `on_mouse_up`, `on_dialog_mouse_down`,
`on_dialog_key_down`, `on_key_down`, `on_resize`, `Closing`. `prior`, `emptied` and `tangled`
record what the properties speak of. `SizesAgree`, `UndoIsPrior`, `StrokeHeld` and
`CrashDeserved` hold, two sizes and two inks being what they tell apart.

`on_resize` and loading may find no memory for the new canvas and leave none (`emptied`).

Seen: a file without pixels leaves no canvas, and the next stroke or undo crashes;
saving without a canvas writes such a file; a dialog opened with a second button
during a stroke leaves drawing on; ".botimg" is appended on saving but not on
opening; a resize drops the undo buffer; the rectangle leaves out the corner under the
pointer.

`FloodFill` is `flood_fill` with its stack: `Pop`, `ScanLeft`, `ScanRight`, `Push` for each
neighbour of the run, `PushFails` when `realloc` does, `RunDone`. `FillIsRegion`: the pixels
changed are those connected with the start (`Region`, the least closed set);
`StackFits`: the stack is not written past its end unless it could not grow, for which
the code doubles `cap` before it knows (later pushes then write beyond it). The run fills every 3×3
picture of two colours with three equal corners, from a stack of two, so that it
grows and fails to.

## Applications

### Toolkit

`size` is the window at the server, `xq` the X events not yet read, `evq` BotUI's queue,
`win` its window with framebuffer and flags, `canvas` the application's canvas, `pc` the place in
the main loop. `Pumped` is what one call of `x11_pump_events` makes of the X events, as a recursive function over
their number; each `bot_window_resize`, in the pump and in the handler, may find no memory and then
leaves the framebuffer as it is (`Outcomes`, `win.short`).
The application takes `EnterLoop`, `Top`, `Drain`, `Render`, `Wait` and may
call `bot_event_quit`; `Outside` is the user and BotDesk. `loop` is the application's own loop or
`bot_event_loop`. `CopyFits`: what is copied when a frame is drawn has one size on both
sides, unless a resize event was dropped or memory was short (`LagsByEvent`: where framebuffer and
canvas differ, a resize event is queued for the handler, and none is left when a frame is drawn); `CloseEnds`: a request to close ends the program even when its event is dropped;
`SizesAgree`: whenever no resize is under way, framebuffer, canvas and window agree;
`SizesSettle`: when nobody resizes any more they come to that.
A queue of two, two resizes and three inputs fill and overflow it with any order of
close, resize and input.

BotDesk resizes at every motion of a grip (`botdesk.c:442`), so that one resize comes before the
last is through. `SizesAgree` holds all the same; `SizesSettle` excepts it (`overlapped`, a record of
whether this happened): the handler answers each resize event by asking the server
for that size again (`window.c:257`), and where two are under way each undoes the other and
is reported back, without end. `bot_event_loop` is used by no application; a quit before it
starts is forgotten (`event.c:637`), which `CloseEnds` excepts.

### Editor

`lines` with what `memmove` leaves behind the last one, `count`, `cx`, `cy`, `scroll`,
`visible`; `disk`. `Type`, `Tab`, `Backspace`, `Enter`, `Move`, `Resize`, `Save`, `Dialog`, `Quit` are the
handlers with the calls they make (`insert_char`, `clamp_cursor`, `editor_save`).
`CursorOnScreen`, `UnmodifiedIsSaved` and the action property `EditIsLocal`: the text before
and after the cursor, line ends included, is what it was. Three lines of three
characters, two or fewer on the screen, two edits after any movement, from five files: none
of the edges (first and last line, first and last column, full line, full array,
scrolled view, a window lower than its bars, whose number of rows is 0 or negative) is missing.
`Pieces` are what `fgets` makes of a line of the file: it goes into buffers of `LINE_MAX - 1` characters
with its line end, so that a line of exactly that length is followed by an empty piece of its own. A file
all of whose lines fit with their line ends (`Fits`) is what `UnmodifiedIsSaved` speaks of.

Seen: an empty file gives no line at all (typed text is never saved, Enter crashes);
joining two long lines truncates, and loading long ones splits them; a full disk is not
noticed; the window closes without asking.

### Terminal

`grid`, `row`, `col`, `esc` and `saved` are the screen and its scrollback, `offset` the view;
`out` and `keys` the two directions of the PTY, `at` the place in the main loop (`Read`,
`HandleKey`, `Drawn`); `ShellWrites`, `ShellReads`, `ShellExits` and `Press` are outside.
`inked` is the paper that never loses a line, of which the scrollback is the end (`SavedIsPaper`). `ViewIsPaper`: whatever is shown is a
piece of it in a row; `KeysServed`, `OutputShown`. Two by two cells with a scrollback of one line
scroll and lose a line within four bytes.

Seen: the wheel scrolls the wrong way round for X11's sign of `dy`; the end of the
shell is never noticed; a key is lost when the PTY is full; endless output starves
the user interface (`botterm.c:384`), so that `KeysServed` is said of bounded output; a key resets the view without drawing it.

## Services and libraries

### Notify

`sender` is each `bot_notify_send`, `fifo` the bytes, `reader` whether BotDesk has it open,
`toast` the toast with its expiry, `clock` the 32-bit milliseconds. `Open`, `Send`; `Pump` is one
round of BotDesk's loop (`toast_check_expiry`, the read, `toast_show`), `take_screenshot`, `Stop`. `LoneMessageShown`: a
message alone in the FIFO is shown as sent; `ToastTimely`: it is away as soon as BotDesk comes
round after its time, unless the clock wraps; `AcceptedIsRead`. Four senders with a message each: short, exactly
fitting, cut, and one not allowed to write. `NotifyTwo.cfg` shows that "one read() here always yields
exactly one complete, unsplit message" (`botdesk.c:600`) fails when two are written
between polls: one toast holds both. Seen: a body is cut at 127 characters in the toast where
the sender's buffer has room for more.

### EventRing, MemPool, Canvas

`EventRing`: `ring`, `head`, `tail`, `used` and the event last taken, `bot_event_push` and
`event_pop`; it implements `EventQueue` under the mapping that reads `used` places from
`tail`. `MemPool`: `freeMap`, `usedBlocks`, the contents and holder of each block; `Alloc`, `Free`,
`WriteBlock`; callers keep to the header. Seen there: a pointer into the middle of a block
frees it, a stale pointer frees its next owner's, and no other code uses the pool.

`Canvas`: one call, its loop step by step (`LineStep`, `CircleStep`), and at once where a
call has no state between pixels. `LineIsNearest`, `CircleIsRound`, `DiscIsFull`,
`RectIsFrame`, `TouchedOnce` and `BlendBetween` state the shape drawn independently of the
loops, `LineGoesOn` and `CircleGoesOn` what a loop under way has drawn of it; all arguments on and around a 4×3 canvas, and channel levels at
0, 1, both sides of the middle, 254 and 255. Seen: a circle's, a disc's and a rectangle's pixels are partly written twice, visible
in colours that are not opaque.

## Fairness

* Resolver, Interpreter, Parser: weak fairness of `Next`, one sequential program.
* BotPkg: weak fairness of each process's `Step`: a started command is scheduled
  until it returns or is killed, but for the steps at which it may stay for ever
  (`Waits`): a download, which a silent TLS server holds, and a manifest whose array
  is never left. None for `Launch`, `Crash`, `Publish`.
* JobControl: weak fairness of the shell and of each process's `Exits`, which a
  stop disables: programs end unless stopped. None for the user, stops,
  continuations and kills, so nothing rescues a stopped process.
* Notify: weak fairness of `Pump`: BotDesk's loop goes round while it runs. None for
  senders.
* Transfer: weak fairness of the client's steps; none for the server, which may stall
  for ever. Timeouts of the socket are steps of the client; a TLS read that times out is retried.
* Canvas, FloodFill: weak fairness of the loop that is under way.
* Toolkit, Terminal: weak fairness of the application's own steps; none for the user,
  the server, the shell. So `OutputShown` and `KeysServed` hold because the loop gets to
  both, and not because the other side helps.

## What is proved

Assumptions are those of the constants: `ResolverAssumption` and its like in the
modules that declare them, evaluated by the runs.

`ResolverProofs`, for all packages, dependency arrays and table sizes: `TypeCorrect`,
`Invariant`, `ResolvesInOrder`, `ErrorsAreDeserved`, `NeverDrops`,
`BoundedRecursion`, `Refinement`. None of the properties is inductive. `IInv` adds
that the stack is a path from the root whose loop indices point just past the
edge taken (`PathInv`), that what a loop has passed is black but for the active
call (`PassedInv`), that what is emitted is needed by something later or by the
stack (`NeededInv`, which gives completeness without induction over paths) and
that nodes are reached from the root through nodes (`NodesInv`). A grey visit then
exhibits the cycle as the stack's tail. Refinement follows: every step stutters
but the last, which answers rightly by the invariant.

`ResolverProofs` also proves `ManifestsAreMeant`, for all characters, packages and rooms of the
fields and of the writer's buffer, from `ManifestAssumption` (the characters JSON gives a meaning are characters, an item
that is no string is no text, a field has room for one character). The invariant `IManifest`
says what the text is at each stage and what was parsed of it; each step is then a fact about
the parser as a function of a text. A text *spells* a value where one character of it stands
behind the other, escaped as it may be, and is a manifest where three entries do
(`IsManifest`); what the repository serves and what the database writes are such texts
(`ServedIsManifest`, `InstalledIsManifest`). A quote inside of a value follows a backslash
(`SpeltQuotes`), so that the first quoted key with a colon is the key (`KeysAreFound`);
`SpeltIsRead` and `ListIsRead` say what the readers make of it, cut to the room, and
`ParseOfAny` that no text of any kind makes a field overflow. The parser's loops are recursive
functions of a position in the text: `RecursionHasFunction` of `RecursionProofs` gives the function its definition speaks
of, for recursion along any rank, and `RecursionHolds` what is inherited along it.

`BotPkgProofs`, for any packages, repository histories and command lines:
`Invariant`, `TypeCorrect`, and `RemovalsAreSafe` for commands that do not overlap,
whatever is cut, killed or published. Its invariant says that at most one process
is busy and that during a scan every dependant of the package to be removed is
among the entries not yet looked at (`ScanOK`); each step of the busy process
leaves it, and others cannot move. Three more invariants say what is on disk, each
under the weakest hypotheses we found, and `FilesAgree` puts them together as
`FilesInv`, which a run checks:

* `ListInv` gives `ListIsRight` (what exists parses, between commands): a file that does
  not parse is being written by a process that is still alive, was torn by the disk, and what that process
  holds parses. Hypothesis `Serial \/ Readable`; commands at once with a manifest that
  came cut really leave one in the database.
* `SumInv` gives `ChecksumIsKept`, under `Serial` and `OwnNames`: each file, and each
  manifest between being parsed and being registered, is one published for its package.
  Without `Serial` a second installer truncates the manifest the first one parses;
  without `OwnNames` a manifest found under one name is registered under another. The
  property speaks of histories without a failed download, as the code does not look at
  the result of that parse.
* `CalmInv` gives `InstallsDeliver`, under `Serial` and `StartsRight`, for the histories
  that are `Calm`: every entry is whole with its dependencies present, and an install
  under way has, for each package left in its order, all before it registered. Updates and
  removals may come before. It gives `EntriesAreClosed` as well: while the history is calm,
  no entry in the files needs a package that has none.

`ImplementsPackageDB`: with no updates, failed downloads or publications, and commands
one at a time, killed wherever they are, the database directory implements `PackageDB`.
Registering maps to adding an entry, which `CalmInv` makes closed; unlinking to
removing one nobody needs, by `ScanOK`; every other step stutters. Each hypothesis is
needed: without `StartsRight` a dependency is rejected for its checksum and its dependant
installed all the same; without the others, one of the behaviours listed as seen in the
section on `BotPkg` leaves a dependency missing.

`JobControlProofs`, for any number of pids, slots and stages: `Invariant`,
`TypeCorrect`, `JobsNameChildren`. `ActiveIsChild` alone is not inductive: the pids
the shell holds in a foreground pipeline have to be children too and disjoint from
every job (`PidsOK`), or the wait would reap one that a job names, and the place in
the executor has to fix which of them exist (`PlaceOK`). `TableInvariant` adds the states:
a slot of one process says what the process does until `waitpid` has news of it or `fg`
waits for it (`SlotTrue`), and a pipeline not in the table yet is one group, none of it
stopped unnoticed (`PipelineTogether`); at the prompt that is `JobStateTrue`
(`JobsTellTheState`). `NoProcessIsLost`: every child is named by a slot or is the command at hand
(`KeptInv`), for shells that run single commands (`MaxStages = 1`; a pipeline is dropped
when its first stage ends, see above) with a slot for every process
(`Cardinality(Pid) <= MaxJobs`); that a slot is free when a job is recorded is then the
pigeonhole principle, applied to the slots and the processes they name.

`DesktopProofs`, for any number of programs, slots, palette rows and queued
events: `WMInvariant`, `TableIsInOrder`, `InputGoesWhereShown`. What the runs check
speaks of states in which BotDesk has caught up; the invariant `WMIInv` says what is
still owed while events are queued. `EventsNameClients`: no event speaks of a
window that was not shown yet, so names can be used again. `ReportsQueued`: a window that
asked has its request queued or under way, and a managed one that is not shown has
the report of it queued. `KeyboardOwed`: the keyboard is with the focused window, or that
window's end is queued. `ReleaseOwed`: behind every press that is queued, and for
whatever is dragged or resized, there is a release queued, the button is still down, or
the window is gone for good (`Buried`). One lemma per action; those that only take or
queue an event share `UserKeeps` and `PoppedKeeps`. TLC found `WMIInv` to hold on the instance
of `Desktop.cfg` before it was proved.

It also has `PaintIsSafe`, for any sizes and contents.

`ServicesProofs`: `FillInvariant` and `FillIsSafe`, for any picture, colours and stack:
`Frontier` says that a pixel next to a filled one is filled, on the stack, in the run under
way, or of another colour, which makes the region closed when the stack is empty.
`RingInvariant` and `RingImplementsQueue`, for any capacity of the ring;
`PoolInvariant` and `PoolRefusesWhenFull`, for any number of blocks and clients.
`DownloadsAreClean`, for any addresses, redirects, buffers and answers: `InPlace` says what the call
holds at each point of it (socket, TLS objects, buffer, response) and what it knows of the
answer, so that every way out is seen to give all of it back. `ToastsLeaveInTime`: `Ticking` relates
clock, expiry and the time shown modulo the wrap. `LoneMessagesAreShown`, a step property: the two
texts are taken apart again at the separator wherever they were cut, which needs the
separator in neither.
`ShapesAreTrue`, for any canvas and any arguments: `err` is how far the loop's point is
from the line or the circle. For a line, its two tests keep that within half a pixel and take one
step along the longer side, so that each column (or row) passed holds its one near
pixel (`OneIsNear`: two would be a whole side apart). For a circle, the points above and
beside the one drawn lie on the other side of it, or further (square arithmetic in the
octant), and at the exit `r² ≤ 2y² - y` says that the diagonal is passed.

`ShellProofs`: `LineIsAsShown`, for any characters, sizes and keys: a screen that shows a
break keeps it, and one that does not shows the line, because every key changes both alike;
the history is the end of the log, one lemma for remembering with and without loss.
`HeroesAddUp`, for any number of shells: every command turns a hero that adds up into one that
does, whatever file it read, in that its level, gear and skills account for one another. What was
earned is another matter: while one shell plays alone, lives and can save, the copy it holds or the file
remembers every coin found and not spent; once another begins, it is killed or a save fails, nothing is claimed.
`CommandsRunOnce`: the table is what was accepted, and the stage reached says how often the
text took effect.

`ProgramsRunAsWritten`, also of `ShellProofs`, for any commands, conditions, limit of iterations
and programs without nested blocks whose blocks fit the buffer with their bytes. `InterpTypes` types the machine,
for every program; `Sim` follows the flat ones: after a number of statements the shell is
between two (`Between`), collects the next (`Collecting`) or executes it (`Executing`), and has
done what these statements mean. `TextOf` fixes where each statement stands in the text (`Places`,
by `FlattenLays`), so a block is complete, by the counts of its words, at its own last line and
not before (`BlockEnds`), and what is cut out of it again is the body that was written
(`FrameIs`). While it is executed, `Under` ties line and turn of the frame to a prefix of the
recursive functions that define its meaning, with one lemma for each way on (`ForGoesOn`,
`WhileGoesOn`, `IfGoesOn`, `UnderLine`, `UnderEnd`). A while that ends early agrees with a meaning
that always counts to `MaxIter` since a condition that failed fails again when nothing ran in
between (`WhileStays`).

`LinesReadAsMeant`, also of `ShellProofs`, for any environment, home directory and pipelines of
any number of commands, words and files, from `ParserAssumption` (the signs are characters and
none of them belongs to a name; a home directory holds no dollar sign, else its own text would be
expanded). The model has no fixed buffers: 64 arguments, 4096 characters and names of 256 are
as far as the code follows it. The invariant has two parts. `ParserTypes` says of any line, meant or not,
that a command is kept only with arguments and while there is room. `AsMeant` says where in
the line that is meant the parser stands: `Left` is what `LineOf` has behind `k` words and `f`
files of the next command, and what was read so far is `SoFar`; each turn of the loop goes to
the next such place (`StepWord`, `StepFile`, `StepMark`, `StepEnd`). What a turn reads
is a fact about the passes: `StyledReads`, that a token in any of the three styles, followed by
a blank, is read as its text (`TakenEscaped` for the backslashes); `WordExpands`, that
the tilde and the variables of a word made of pieces expand piece by piece (`UnitOfPiece`);
`LineStaysWhole`, that no `#` of such a line is taken for a comment, because every
word leads the automaton of quotes from outside to outside (`StyledLeads`).

`AppsProofs`: `ScreenIsPaper`, for any screen, scrollback and output: the scrollback is the end of the
paper, and any view of it is then a piece of paper. `FramesFit`, for any sizes and queue:
whatever makes framebuffer and canvas differ leaves a resize event in the queue or among
the lost, or was a lack of memory. The pump is a recursive function over the X events; what holds of its result is
proved by least counterexample, as are the pieces `fgets` makes of a file.
`CursorAndFile`, for any text, window and file, with a last line end or without: `clamp_cursor` puts any cursor right in a
window that has a row, and a key that leaves the
text unmarked left it unchanged. `EditsAreLocal`, the step property: rows that stay the same, any number of
places further down, make the same tail of the text (`FlatTail`), those above the same
beginning, and what lies between is taken apart at the cursor; the hypotheses are the
property's own, a text with a line and no two lines joined that are too long for one.

## Only model-checked

Liveness (`Terminates`, `EveryCommandEnds`, `PromptReturns`, `ServicesServe`, `AppsServe`,
`ShellEnds`) is out of the provers' reach; `SizesAgree`, a part of
`AppsServe`, is not proved either. Every
other property of a passing run, the invariants, the step properties and the three refinements,
is a theorem too. `OneReadOneMessage` and `PromptReturns` with pipelines are violated, as their
runs show.

## Not modelled

* BotLog: a file pointer and a level; SHA-256, strings and files of libbot: functions
  of bytes that tests cover well.
* `botnet.c` probes interfaces and DNS once; `botpkg list` and `search` change nothing.
* Widgets, text and colours of BotUI; geometry of windows: only drawn, or one
  arithmetic expression.
* Files, info, settings and the BotPkg GUI: each the state of one window, in the main
  loop that `Toolkit` has.
* Builtins but the game: each one system call or print.
* Heredocs and the dispatch of a command in the shell.
* VFS, IPC and init, absent from the repository; boot files and scripts.

Next would come: the resize geometry of frames, and heredocs.
