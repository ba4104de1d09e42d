------------------------------- MODULE BotPkg -------------------------------
(***************************************************************************)
(* The package manager (services/botpkg/src/botpkg.c): any number of       *)
(* botpkg invocations, from shells and from the package GUI, that share    *)
(* the database and the cache on disk without a lock, and a repository     *)
(* that may publish other versions meanwhile.                              *)
(*                                                                         *)
(* A step of a process ends where another process, a network failure or a  *)
(* kill can come between: at each open, write, unlink or rename of a       *)
(* shared file and at each read of one.                                    *)
(*                                                                         *)
(* resolver_resolve is used through the contract that Resolver is proved   *)
(* to implement: manifests are read one at a time, and any install order   *)
(* of the graph they form may be returned.                                 *)
(***************************************************************************)
EXTENDS DepGraph

CONSTANTS
    Process,        \* botpkg processes
    Manifests,      \* versions of each package's manifest in the repository
    Commands,       \* command lines: [op, names]
    NoFile, Empty,  \* no manifest on disk; a truncated one
    NoName, NoSum,  \* a manifest without a name; one without a checksum
    BadSum,         \* a checksum cut short
    Shorter,        \* packages whose names are the beginning of a package's
    MaxNodes,       \* MAX_RESOLVE_DEPTH
    Serial,         \* no two processes run at the same time
    MaxFaults,      \* bound on failures of the network and the disk
    MaxCrashes,     \* bound on killed processes
    MaxPublish      \* bound on changes of the repository

Entry == [name : Package \cup {NoName}, ver : Nat, deps : Seq(Package), sum : Nat \cup {NoSum, BadSum}]

File == Entry \cup {NoFile, Empty}

ASSUME BotPkgAssumption ==
    /\ \A q \in Package : Manifests[q] \in Seq(Entry) \ {<<>>}
    /\ Commands \subseteq [op : {"install", "remove", "update"},
                           names : Seq(Package) \ {<<>>}]
    /\ Serial \in BOOLEAN
    /\ Shorter \in [Package -> SUBSET Package] /\ MaxNodes \in Nat
    /\ MaxFaults \in Nat /\ MaxCrashes \in Nat /\ MaxPublish \in Nat
    /\ NoFile # Empty /\ NoName \notin Package
    /\ NoFile \notin Entry \cup Seq(Package) /\ Empty \notin Entry

VARIABLES
    db,         \* <db_dir>/<package>/manifest.json
    cache,      \* <cache_dir>/<package>/manifest.json
    fresh,      \* <cache_dir>/<package>/manifest.json.new
    archive,    \* <cache_dir>/<package>/<package>.botpkg: the manifest it belongs to
    repo,       \* index of the version the repository serves
    proc,       \* the processes
    faults,     \* how often the network or the disk has failed
    torn,       \* entries of the database that the disk has cut short
    crashes, published

disk == <<db, cache, fresh, archive>>
budget == <<faults, torn, crashes, published>>
vars == <<disk, repo, proc, budget>>

(* A file that manifest_parse accepts. *)
Parses(file) == file \notin {NoFile, Empty} /\ file.name # NoName

(* The deps array after manifest_parse; none when it fails. *)
Deps(file) == IF Parses(file) THEN file.deps ELSE <<>>

Present == {q \in Package : db[q] # NoFile}

(* resolver_is_installed: in g_installed, or with a manifest on disk. *)
IsInstalled(r, q) == q \in r.mem \/ q \in Present

(* A fault to test InstallUndisturbed with: every package asked about is kept. *)
Asked(r, Q) == [r EXCEPT !.mem = @ \cup Q]

(* resolver_is_installed also keeps what it finds on disk in g_installed. *)
Found(r, Q) == [r EXCEPT !.mem = @ \cup (Q \cap Present)]

Served(q) == Manifests[q][repo[q]]

-----------------------------------------------------------------------------
(***************************************************************************)
(* Processes.                                                              *)
(***************************************************************************)

NotRead == [q \in Package |-> NoFile]

Idle == [pc |-> "idle", op |-> "none", names |-> <<>>, ret |-> 0,
         mem |-> {},                     \* g_installed
         view |-> NotRead,               \* dependencies read by the resolver
         order |-> <<>>,                 \* deps.names still to be installed
         pkg |-> NoFile,                 \* the bot_package_t being installed
         cur |-> NoName,                 \* package whose file is open
         body |-> NoFile,                \* what is written to that file
         handle |-> "none",              \* where the open file is now
         next |-> "none",                \* what follows the write
         left |-> {}]                    \* directory entries not scanned yet

Stopped == {"idle", "done", "crashed"}
Busy(p) == proc[p].pc \notin Stopped

Become(p, r) == proc' = [proc EXCEPT ![p] = r]

(* main goes on with the next name, or exits. *)
EndName(r, rc) ==
    LET rest == Tail(r.names)
    IN  [Idle EXCEPT !.pc = IF rest = <<>> THEN "done" ELSE r.op,
                     !.op = r.op, !.names = rest, !.mem = r.mem,
                     !.ret = IF rc # 0 THEN rc ELSE r.ret]

(* fopen of q's file for writing empties it; contents reaches the disk     *)
(* with fclose, after which the process goes on at pc next.                *)
Opened(r, next, q, where, contents) ==
    [r EXCEPT !.pc = "write", !.next = next, !.cur = q,
              !.handle = where, !.body = contents]

(* p goes on as r, having unlinked or renamed files of q, which other      *)
(* processes may have open: where a writer's file is found now.            *)
Moved(p, r, q, where) ==
    proc' = [x \in Process |->
                IF x = p THEN r
                ELSE IF proc[x].cur = q /\ proc[x].handle \in DOMAIN where
                    THEN [proc[x] EXCEPT !.handle = where[@]]
                ELSE proc[x]]

Unlinked(where) == [h \in {where} |-> "gone"]
Renamed == [h \in {"fresh", "db"} |-> IF h = "fresh" THEN "db" ELSE "gone"]

Init ==
    /\ db = [q \in Package |-> NoFile]
    /\ cache = [q \in Package |-> NoFile]
    /\ fresh = [q \in Package |-> NoFile]
    /\ archive = [q \in Package |-> NoFile]
    /\ repo = [q \in Package |-> 1]
    /\ proc = [p \in Process |-> Idle]
    /\ faults = 0 /\ torn = 0 /\ crashes = 0 /\ published = 0

(* A user, or the GUI, runs botpkg. *)
Launch(p) ==
    /\ proc[p].pc = "idle"
    /\ Serial => \A x \in Process : ~Busy(x)
    /\ \E c \in Commands :
          Become(p, [Idle EXCEPT !.pc = c.op, !.op = c.op, !.names = c.names])
    /\ UNCHANGED <<disk, repo, budget>>

(* Kill, or SIGPIPE when the GUI stops reading (botpkg_gui.c).  The file   *)
(* being written stays empty.                                              *)
Crash(p) ==
    /\ Busy(p)
    /\ crashes < MaxCrashes
    /\ crashes' = crashes + 1
    /\ Become(p, [Idle EXCEPT !.pc = "crashed"])
    /\ UNCHANGED <<disk, repo, faults, torn, published>>

(* The repository serves another version of a package. *)
Publish ==
    /\ published < MaxPublish
    /\ published' = published + 1
    /\ \E q \in Package : \E v \in DOMAIN Manifests[q] :
          v # repo[q] /\ repo' = [repo EXCEPT ![q] = v]
    /\ UNCHANGED <<disk, proc, faults, torn, crashes>>

(* The server, the connection or the disk fails. *)
Fault ==
    /\ faults < MaxFaults
    /\ faults' = faults + 1
    /\ UNCHANGED <<torn, crashes, published>>

(* The beginnings of a list of dependencies; the last one may be cut. *)
CutDeps(deps) ==
    UNION {{SubSeq(deps, 1, n)} \cup
               IF n = 0 THEN {} ELSE {[SubSeq(deps, 1, n) EXCEPT ![n] = q] : q \in Shorter[deps[n]]}
           : n \in 0 .. Len(deps)}

Fields(manifest, n, d, s) == [manifest EXCEPT !.name = n, !.deps = d, !.sum = s]

(* What the beginning of a manifest says: some of its fields, in whatever  *)
(* order it has them.  The one that is cut reads as a shorter value, which *)
(* may be the name of another package and is no archive's checksum.        *)
Cut(manifest) ==
    LET names == {NoName, manifest.name}
                    \cup IF manifest.name = NoName THEN {} ELSE Shorter[manifest.name]
        deps  == CutDeps(manifest.deps)
        sums  == {NoSum, manifest.sum} \cup IF manifest.sum = NoSum THEN {} ELSE {BadSum}
    IN  {Empty} \cup {Fields(manifest, n, d, s) : n \in names, d \in deps, s \in sums}

(* bot_http_download opens its destination, which empties it, and is about *)
(* to write the body.  A connection lost after the headers ends the body:  *)
(* the download succeeds with what has arrived (http.c).  A full disk cuts *)
(* the file as well: unnoticed in fclose, or the download fails.           *)
Downloads(p, next, failed, q, where, whole, cut) ==
    \/ /\ Become(p, Opened(proc[p], next, q, where, whole))
       /\ UNCHANGED budget
    \/ /\ \E body \in cut, after \in {next, failed} :
              Become(p, Opened(proc[p], after, q, where, body))
       /\ Fault

(* What a manifest lacks may be found behind its end, where a longer one   *)
(* was written since the file was opened. *)
Mixed(old, body) ==
    {Fields(body, n, d, s) :
        n \in IF body.name = NoName THEN {NoName, old.name} ELSE {body.name},
        d \in IF body.deps = <<>> THEN {<<>>, old.deps} ELSE {body.deps},
        s \in IF body.sum = NoSum THEN {NoSum, old.sum} ELSE {body.sum}}

(* Manifests written over what the file has by now ... *)
Over(old, body) ==
    IF old \in {NoFile, Empty} THEN {body} ELSE IF body = Empty THEN {old} ELSE Mixed(old, body)

(* ... and archives: an archive with another one's end is none. *)
OverArchive(old, body) ==
    IF old \in {NoFile, Empty, body} THEN {body} ELSE {Empty, IF body = Empty THEN old ELSE body}

(* fwrite and fclose write from the start of the file that was opened; what *)
(* goes to an unlinked file is lost. *)
Write(p) ==
    LET r == proc[p]
        Put(dir, where, contents(_, _)) ==
            IF r.handle = where
            THEN {[dir EXCEPT ![r.cur] = file] : file \in contents(dir[r.cur], r.body)}
            ELSE {dir}
    IN  /\ r.pc = "write"
        /\ db' \in Put(db, "db", Over)
        /\ cache' \in Put(cache, "cache", Over)
        /\ fresh' \in Put(fresh, "fresh", Over)
        /\ archive' \in Put(archive, "archive", OverArchive)
        /\ Become(p, [r EXCEPT !.pc = r.next, !.next = "none", !.handle = "none", !.body = NoFile])
        /\ UNCHANGED <<repo, budget>>

-----------------------------------------------------------------------------
(***************************************************************************)
(* resolver_resolve.                                                       *)
(***************************************************************************)

Root(p) == Head(proc[p].names)

(* The packages whose manifests the search still has to read. *)
Unread(p) ==
    LET view == proc[p].view
    IN  {q \in Package : /\ view[q] = NoFile
                         /\ \/ q = Root(p)
                            \/ \E x \in Package : view[x] # NoFile /\ q \in Range(view[x])}

Read(r, q, deps) == [r EXCEPT !.view[q] = deps, !.cur = NoName]

Graph(p) ==
    LET view == proc[p].view
    IN  [q \in Package |-> IF view[q] = NoFile THEN <<>> ELSE view[q]]

(* load_package_deps: the database first, then the cache. *)
LoadLocal(p) ==
    /\ proc[p].pc = "install"
    /\ \E q \in Unread(p) :
          /\ Parses(db[q]) \/ Parses(cache[q])
          /\ Become(p, Read(proc[p], q, IF Parses(db[q]) THEN Deps(db[q]) ELSE Deps(cache[q])))
    /\ UNCHANGED <<disk, repo, budget>>

(* Neither parses: the manifest is downloaded into the cache. *)
LoadDownload(p) ==
    /\ proc[p].pc = "install"
    /\ \E q \in Unread(p) :
          /\ ~Parses(db[q]) /\ ~Parses(cache[q])
          /\ Downloads(p, "loaded", "unloaded", q, "cache", Served(q), Cut(Served(q)))
          /\ cache' = [cache EXCEPT ![q] = Empty]
    /\ UNCHANGED <<db, fresh, archive, repo>>

LoadParse(p) ==
    /\ proc[p].pc = "loaded"
    /\ LET r == [proc[p] EXCEPT !.pc = "install"]
       IN  Become(p, Read(r, r.cur, Deps(cache[r.cur])))
    /\ UNCHANGED <<disk, repo, budget>>

(* A download that failed over the file makes the package a leaf ...       *)
LoadFailed(p) ==
    /\ proc[p].pc = "unloaded"
    /\ LET r == [proc[p] EXCEPT !.pc = "install"]
       IN  Become(p, Read(r, r.cur, <<>>))
    /\ UNCHANGED <<disk, repo, budget>>

(* ... and so does one that failed before.                                 *)
LoadLeaf(p) ==
    /\ proc[p].pc = "install"
    /\ \E q \in Unread(p) :
          /\ ~Parses(db[q]) /\ ~Parses(cache[q])
          /\ Become(p, Read(proc[p], q, <<>>))
    /\ Fault
    /\ UNCHANGED <<disk, repo>>

(* The packages that have a node in the table of the search, or need one.  *)
Nodes(p) == {q \in Package : proc[p].view[q] # NoFile} \cup Unread(p)

(* A cycle, or more packages than the table has room for. *)
ResolveFails(p) ==
    /\ proc[p].pc = "install"
    /\ Cyclic(Graph(p)) \/ Cardinality(Nodes(p)) > MaxNodes
    /\ Become(p, EndName(proc[p], 1))
    /\ UNCHANGED <<disk, repo, budget>>

Orders == UNION {[1 .. n -> Package] : n \in 1 .. Cardinality(Package)}

(* A fault to test PackageDBSpec with: dependents first. *)
ResolvedBackwards(p) ==
    /\ proc[p].pc = "install"
    /\ Unread(p) = {}
    /\ \E order \in Orders :
          /\ IsInstallOrder(Graph(p), Root(p), order)
          /\ LET r == Found(proc[p], Range(order))
             IN  Become(p, IF Range(order) \subseteq r.mem
                             THEN EndName(r, 0)
                             ELSE [r EXCEPT !.pc = "each", !.view = NotRead,
                                            !.order = [i \in DOMAIN order |->
                                                          order[Len(order) + 1 - i]]])
    /\ UNCHANGED <<disk, repo, budget>>

(* The order is known; nothing more is done if all of it is installed. *)
Resolved(p) ==
    /\ proc[p].pc = "install"
    /\ Unread(p) = {}
    /\ Cardinality(Nodes(p)) <= MaxNodes
    /\ \E order \in Orders :
          /\ IsInstallOrder(Graph(p), Root(p), order)
          /\ LET r == Found(proc[p], Range(order))
             IN  Become(p, IF Range(order) \subseteq r.mem
                             THEN EndName(r, 0)
                             ELSE [r EXCEPT !.pc = "each", !.order = order, !.view = NotRead])
    /\ UNCHANGED <<disk, repo, budget>>

-----------------------------------------------------------------------------
(***************************************************************************)
(* botpkg_install: the loop over the install order.                        *)
(***************************************************************************)

NextPackage(r) ==
    [r EXCEPT !.pc = "each", !.order = Tail(@), !.pkg = NoFile, !.cur = NoName]

(* A fault to test EveryCommandEnds with: the package is not passed. *)
StayAtInstalled(p) ==
    LET r == proc[p]
    IN  /\ r.pc = "each"
        /\ r.order # <<>>
        /\ IsInstalled(r, Head(r.order))
        /\ Become(p, Found(r, {Head(r.order)}))
        /\ UNCHANGED <<disk, repo, budget>>

SkipInstalled(p) ==
    LET r == proc[p]
    IN  /\ r.pc = "each"
        /\ r.order # <<>>
        /\ IsInstalled(r, Head(r.order))
        /\ Become(p, NextPackage(Found(r, {Head(r.order)})))
        /\ UNCHANGED <<disk, repo, budget>>

(* The manifest of this install overwrites the cached one ... *)
FetchManifest(p) ==
    LET r == proc[p]
        q == Head(r.order)
    IN  /\ r.pc = "each"
        /\ r.order # <<>>
        /\ ~IsInstalled(r, q)
        /\ Downloads(p, "parse", "parse", q, "cache", Served(q), Cut(Served(q)))
        /\ cache' = [cache EXCEPT ![q] = Empty]
        /\ UNCHANGED <<db, fresh, archive, repo>>

(* ... or, after a failed download, which is only logged, the cached one   *)
(* is used.                                                                *)
FetchManifestFails(p) ==
    LET r == proc[p]
    IN  /\ r.pc = "each"
        /\ r.order # <<>>
        /\ ~IsInstalled(r, Head(r.order))
        /\ Become(p, [r EXCEPT !.pc = "parse", !.cur = Head(r.order)])
        /\ Fault
        /\ UNCHANGED <<disk, repo>>

(* A fault to test ChecksumKept with: the placeholder is registered. *)
IgnoreManifest(p) ==
    LET r == proc[p]
        placeholder == [name |-> r.cur, ver |-> 0, deps |-> <<>>, sum |-> NoSum]
    IN  /\ r.pc = "parse"
        /\ Become(p, [r EXCEPT !.pc = "archive", !.pkg = placeholder])
        /\ UNCHANGED <<disk, repo, budget>>

(* manifest_parse, whose result is ignored: a file it cannot open or that  *)
(* is empty leaves the placeholder, one without a name leaves its checksum *)
(* but no dependencies.                                                    *)
ParseManifest(p) ==
    LET r == proc[p]
        file == cache[r.cur]
        placeholder == [name |-> r.cur, ver |-> 0, deps |-> <<>>, sum |-> NoSum]
    IN  /\ r.pc = "parse"
        /\ Become(p, [r EXCEPT !.pc = "archive",
                               !.pkg = IF file \in {NoFile, Empty} THEN placeholder
                                       ELSE IF Parses(file) THEN file
                                       ELSE [file EXCEPT !.name = r.cur, !.deps = <<>>]])
        /\ UNCHANGED <<disk, repo, budget>>

FetchArchive(p) ==
    LET r == proc[p]
    IN  /\ r.pc = "archive"
        /\ Downloads(p, "verify", "unfetched", r.cur, "archive", Served(r.cur), {Empty})
        /\ archive' = [archive EXCEPT ![r.cur] = Empty]
        /\ UNCHANGED <<db, cache, fresh, repo>>

(* Without its archive, the package is passed: the download failed over    *)
(* the file, or before.                                                    *)
ArchiveFailed(p) ==
    /\ proc[p].pc = "unfetched"
    /\ Become(p, NextPackage(proc[p]))
    /\ UNCHANGED <<disk, repo, budget>>

FetchArchiveFails(p) ==
    /\ proc[p].pc = "archive"
    /\ Become(p, NextPackage(proc[p]))
    /\ Fault
    /\ UNCHANGED <<disk, repo>>

(* sha256_file_hex and the comparison with the manifest's checksum: a      *)
(* version number stands for the digest of that version's archive.         *)
Verified(p) ==
    LET sum == proc[p].pkg.sum
        file == archive[proc[p].cur]
    IN  sum = NoSum \/ (file \notin {NoFile, Empty} /\ file.ver = sum)

(* A fault to test ListAgrees with: the manifest is opened, never written. *)
RegisterUnwritten(p) ==
    LET r == proc[p]
    IN  /\ r.pc = "verify"
        /\ Verified(p)
        /\ Become(p, [r EXCEPT !.pc = "registered"])
        /\ db' = [db EXCEPT ![r.pkg.name] = Empty]
        /\ UNCHANGED <<cache, fresh, archive, repo, budget>>

(* The checksum is right or there is none: db_register_package opens the   *)
(* manifest of the package the manifest names.                             *)
Registers(p, body) ==
    LET r == proc[p]
        name == r.pkg.name
    IN  /\ r.pc = "verify"
        /\ Verified(p)
        /\ Become(p, Opened(r, "registered", name, "db", body))
        /\ db' = [db EXCEPT ![name] = Empty]
        /\ UNCHANGED <<cache, fresh, archive, repo>>

Register(p) == Registers(p, proc[p].pkg) /\ UNCHANGED budget

(* The disk is full: what fputs and fclose return is ignored. *)
RegisterTorn(p) ==
    /\ faults < MaxFaults
    /\ faults' = faults + 1 /\ torn' = torn + 1
    /\ proc[p].pc = "verify"
    /\ \E body \in Cut(proc[p].pkg) : Registers(p, body)
    /\ UNCHANGED <<crashes, published>>

(* No directory, no memory or no file: the package is passed. *)
RegisterFails(p) ==
    /\ proc[p].pc = "verify"
    /\ Verified(p)
    /\ Become(p, NextPackage(proc[p]))
    /\ Fault
    /\ UNCHANGED <<disk, repo>>

Registered(p) ==
    /\ proc[p].pc = "registered"
    /\ Become(p, NextPackage(proc[p]))
    /\ UNCHANGED <<disk, repo, budget>>

(* Wrong checksum: the archive is removed and the next package is tried. *)
Reject(p) ==
    LET r == proc[p]
    IN  /\ r.pc = "verify"
        /\ ~Verified(p)
        /\ archive' = [archive EXCEPT ![r.cur] = NoFile]
        /\ Moved(p, NextPackage(r), r.cur, Unlinked("archive"))
        /\ UNCHANGED <<db, cache, fresh, repo, budget>>

(* The install succeeds, whatever became of the packages. *)
Installed(p) ==
    /\ proc[p].pc = "each"
    /\ proc[p].order = <<>>
    /\ Become(p, EndName(proc[p], 0))
    /\ UNCHANGED <<disk, repo, budget>>

-----------------------------------------------------------------------------
(***************************************************************************)
(* botpkg_remove.                                                          *)
(***************************************************************************)

(* Entries made after opendir need not be seen by readdir. *)
RemoveStart(p) ==
    LET r == proc[p]
    IN  /\ r.pc = "remove"
        /\ Become(p, IF IsInstalled(r, Root(p))
                        THEN [Found(r, {Root(p)}) EXCEPT !.pc = "scan", !.left = Present]
                        ELSE EndName(r, 1))
        /\ UNCHANGED <<disk, repo, budget>>

(* A fault to test RemoveSafe and PackageDBSpec with: no dependent is      *)
(* recognised.                                                             *)
ScanBlindly(p) ==
    LET r == proc[p]
    IN  /\ r.pc = "scan"
        /\ \E q \in r.left : Become(p, [r EXCEPT !.left = @ \ {q}])
        /\ UNCHANGED <<disk, repo, budget>>

(* db_find_reverse_dep reads one manifest; the removal fails on the first  *)
(* dependent.                                                              *)
Scan(p) ==
    LET r == proc[p]
    IN  /\ r.pc = "scan"
        /\ \E q \in r.left :
              Become(p, IF Root(p) \in Range(Deps(db[q]))
                          THEN EndName(r, 1)
                          ELSE [r EXCEPT !.left = @ \ {q}])
        /\ UNCHANGED <<disk, repo, budget>>

Unregister(p) ==
    LET r == proc[p]
    IN  /\ r.pc = "scan"
        /\ r.left = {}
        /\ db' = [db EXCEPT ![Root(p)] = NoFile]
        /\ Moved(p, EndName(r, 0), Root(p), Unlinked("db"))
        /\ UNCHANGED <<cache, fresh, archive, repo, budget>>

-----------------------------------------------------------------------------
(***************************************************************************)
(* botpkg_update.                                                          *)
(***************************************************************************)

UpdateMissing(p) ==
    /\ proc[p].pc = "update"
    /\ ~IsInstalled(proc[p], Root(p))
    /\ Become(p, EndName(proc[p], 1))
    /\ UNCHANGED <<disk, repo, budget>>

FetchUpdate(p) ==
    LET q == Root(p)
    IN  /\ proc[p].pc = "update"
        /\ IsInstalled(proc[p], q)
        /\ Downloads(p, "latest", "unreached", q, "fresh", Served(q), Cut(Served(q)))
        /\ fresh' = [fresh EXCEPT ![q] = Empty]
        /\ UNCHANGED <<db, cache, archive, repo>>

UpdateFailed(p) ==
    /\ proc[p].pc = "unreached"
    /\ Become(p, EndName(proc[p], 1))
    /\ UNCHANGED <<disk, repo, budget>>

FetchUpdateFails(p) ==
    /\ proc[p].pc = "update"
    /\ IsInstalled(proc[p], Root(p))
    /\ Become(p, EndName(proc[p], 1))
    /\ Fault
    /\ UNCHANGED <<disk, repo>>

(* A fault to test ListAgrees with: what manifest_parse says is ignored. *)
AcceptUpdate(p) ==
    /\ proc[p].pc = "latest"
    /\ fresh[Root(p)] # NoFile
    /\ Become(p, [proc[p] EXCEPT !.pc = "replace"])
    /\ UNCHANGED <<disk, repo, budget>>

ParseUpdate(p) ==
    /\ proc[p].pc = "latest"
    /\ Parses(fresh[Root(p)])
    /\ Become(p, [proc[p] EXCEPT !.pc = "replace"])
    /\ UNCHANGED <<disk, repo, budget>>

RejectUpdate(p) ==
    LET q == Root(p)
    IN  /\ proc[p].pc = "latest"
        /\ ~Parses(fresh[q])
        /\ fresh' = [fresh EXCEPT ![q] = NoFile]
        /\ Moved(p, EndName(proc[p], 1), q, Unlinked("fresh"))
        /\ UNCHANGED <<db, cache, archive, repo, budget>>

(* rename over the installed manifest. *)
Replace(p) ==
    LET q == Root(p)
    IN  /\ proc[p].pc = "replace"
        /\ fresh[q] # NoFile /\ db[q] # NoFile
        /\ db' = [db EXCEPT ![q] = fresh[q]]
        /\ fresh' = [fresh EXCEPT ![q] = NoFile]
        /\ Moved(p, EndName(proc[p], 0), q, Renamed)
        /\ UNCHANGED <<cache, archive, repo, budget>>

(* The file or the package's directory is gone; the update still returns 0. *)
ReplaceFails(p) ==
    /\ proc[p].pc = "replace"
    /\ fresh[Root(p)] = NoFile \/ db[Root(p)] = NoFile
    /\ Become(p, EndName(proc[p], 0))
    /\ UNCHANGED <<disk, repo, budget>>

-----------------------------------------------------------------------------

Step(p) ==
    \/ Write(p)
    \/ LoadLocal(p) \/ LoadDownload(p) \/ LoadParse(p) \/ LoadFailed(p) \/ LoadLeaf(p)
    \/ ResolveFails(p) \/ Resolved(p)
    \/ SkipInstalled(p) \/ FetchManifest(p) \/ FetchManifestFails(p)
    \/ ParseManifest(p) \/ FetchArchive(p) \/ ArchiveFailed(p) \/ FetchArchiveFails(p)
    \/ Register(p) \/ RegisterTorn(p) \/ RegisterFails(p)
    \/ Registered(p) \/ Reject(p) \/ Installed(p)
    \/ RemoveStart(p) \/ Scan(p) \/ Unregister(p)
    \/ UpdateMissing(p) \/ FetchUpdate(p) \/ UpdateFailed(p) \/ FetchUpdateFails(p)
    \/ ParseUpdate(p) \/ RejectUpdate(p) \/ Replace(p) \/ ReplaceFails(p)

(* Nothing is left to run: all processes have ended. *)
AllEnded ==
    /\ \A p \in Process : proc[p].pc \in {"done", "crashed"}
    /\ UNCHANGED vars

Next ==
    \/ \E p \in Process : Launch(p) \/ Step(p) \/ Crash(p)
    \/ Publish
    \/ AllEnded

Spec == Init /\ [][Next]_vars

(* The process is about to download a file or to read a manifest.  Neither *)
(* need ever end: SSL_read is called again whenever it asks for it         *)
(* (http.c:237-243), and the scan of the dependencies stays where it finds *)
(* neither a string nor a comma (manifest.c:143-154).                      *)
Waits(p) ==
    LET r == proc[p]
    IN  \/ r.pc = "install" /\ Unread(p) # {}
        \/ r.pc = "each" /\ r.order # <<>> /\ ~IsInstalled(r, Head(r.order))
        \/ r.pc \in {"loaded", "parse", "archive", "latest"}
        \/ r.pc = "scan" /\ r.left # {}
        \/ r.pc = "update" /\ IsInstalled(r, Root(p))

(* A process that runs is scheduled. *)
FairSpec == Spec /\ \A p \in Process : WF_vars(Step(p) /\ ~Waits(p))

-----------------------------------------------------------------------------
(***************************************************************************)
(* Properties.                                                             *)
(***************************************************************************)

PCs == Stopped \cup {"write", "install", "loaded", "each", "parse", "archive", "verify",
                     "registered", "remove", "scan", "update", "latest", "replace",
                     "unloaded", "unfetched", "unreached"}

Handles == {"none", "db", "cache", "fresh", "archive", "gone"}

Proc == [pc : PCs, op : {"none", "install", "remove", "update"}, names : Seq(Package),
         ret : {0, 1}, mem : SUBSET Package,
         view : [Package -> Seq(Package) \cup {NoFile}], order : Seq(Package),
         pkg : Entry \cup {NoFile}, cur : Package \cup {NoName}, body : File,
         handle : Handles, left : SUBSET Package,
         next : {"none", "loaded", "parse", "verify", "registered", "latest",
                 "unloaded", "unfetched", "unreached"}]

(* Types of the files and of what a process holds. *)
TypeOK ==
    /\ db \in [Package -> File]
    /\ cache \in [Package -> File]
    /\ fresh \in [Package -> File]
    /\ archive \in [Package -> File]
    /\ repo \in [Package -> Nat]
    /\ \A q \in Package : repo[q] \in DOMAIN Manifests[q]
    /\ proc \in [Process -> Proc]
    /\ faults \in 0 .. MaxFaults /\ torn \in 0 .. faults
    /\ crashes \in 0 .. MaxCrashes /\ published \in 0 .. MaxPublish

(* Commands run one at a time make and change entries when what they need  *)
(* is there and remove what nothing needs; a file that is not written yet  *)
(* needs nothing.                                                          *)
DB == INSTANCE PackageDB WITH
          Absent <- NoFile,
          entries <- [q \in Package |-> IF q \in Present THEN Deps(db[q]) ELSE NoFile]

PackageDBSpec == DB!Spec

(* A removed package was not needed by any other entry that can be read,   *)
(* when commands do not overlap: neither failed downloads, nor killed      *)
(* commands, nor new versions get past the check (botpkg.c:371-391).       *)
RemoveSafe ==
    [][\A q \in Package :
          db[q] # NoFile /\ db'[q] = NoFile =>
              \A x \in Package : q \notin Range(Deps(db[x]))]_db

(* Name q and all it needs can be used: a set of readable entries, closed  *)
(* under dependencies.                                                     *)
Usable(q) ==
    \E S \in SUBSET Package :
        /\ q \in S
        /\ \A x \in S : Parses(db[x]) /\ Range(Deps(db[x])) \subseteq S

NameDone(p, q) ==
    /\ proc[p].op = "install" /\ Busy(p)
    /\ Head(proc[p].names) = q
    /\ proc'[p].pc \in {"install", "done"}
    /\ proc'[p].names = Tail(proc[p].names)

Delivered(p, q) == NameDone(p, q) /\ proc'[p].ret = 0 => Usable(q)'

(* An install that reports success has made its package usable, when       *)
(* commands run one at a time and nothing failed, was killed or was        *)
(* published so far (botpkg.c:598, 356-360): no history of installs,       *)
(* removals and updates, and nothing that resolver_is_installed remembers, *)
(* makes an install leave out a package.                                   *)
InstallUndisturbed ==
    [][faults' = 0 /\ crashes' = 0 /\ published' = 0 =>
          \A p \in Process, q \in Package : Delivered(p, q)]_proc

Quiet == \A p \in Process : ~Busy(p)

(* Between commands, what `botpkg list` shows (the manifests that parse)   *)
(* is what install, remove and update take to be installed (the manifests  *)
(* that exist), whatever downloads failed, were cut or mixed with others,  *)
(* unless a command was killed or the disk cut an entry short.             *)
ListAgrees == Quiet /\ crashes = 0 /\ torn = 0 => \A q \in Present : Parses(db[q])

(* Every published manifest of q has a checksum. *)
Summed(q) == \A v \in DOMAIN Manifests[q] : Manifests[q][v].sum # NoSum

(* A package whose every published manifest has a checksum is registered   *)
(* with one, and so was verified, when no download was cut or failed: what *)
(* the comment in the install loop (botpkg.c:285-290) calls silently       *)
(* skipping verification does not occur.                                   *)
ChecksumKept ==
    faults = 0 =>
        \A q \in Package : db[q] \in Entry /\ Summed(q) => db[q].sum # NoSum

(* A command that was started ends, whatever it meets, unless it stays for *)
(* ever in one download or in one manifest.                                *)
EveryCommandEnds == \A p \in Process : []<>~Busy(p) \/ <>[]Waits(p)

(***************************************************************************)
(* The inductive invariant behind RemoveSafe.                              *)
(***************************************************************************)

(* Where the process is, or will be when the open file is written. *)
At(r) == IF r.pc = "write" THEN r.next ELSE r.pc

(* What a process has at hand at each point of its command. *)
WorkOK(r) ==
    /\ r.pc \notin Stopped => r.names # <<>> /\ r.op # "none"
    /\ r.pc = "write" => r.next # "none" /\ r.body # NoFile
    /\ At(r) \in {"loaded", "unloaded", "parse", "archive", "verify"} => r.cur \in Package
    /\ At(r) \in {"archive", "verify"} => r.pkg \in Entry
    /\ At(r) \in {"parse", "archive", "verify", "unfetched", "registered"} => r.order # <<>>

(* Every dependent of the package to be removed has yet to be looked at. *)
ScanOK(r) == \A q \in Package : Head(r.names) \in Range(Deps(db[q])) => q \in r.left

OneAtATime == \A p, x \in Process : Busy(p) /\ Busy(x) => p = x

IInv ==
    /\ TypeOK
    /\ \A p \in Process : WorkOK(proc[p])
    /\ Serial => OneAtATime
    /\ Serial => \A p \in Process : proc[p].pc = "scan" => ScanOK(proc[p])

(***************************************************************************)
(* The inductive invariant behind ListAgrees, for commands that do not     *)
(* overlap or a repository all of whose manifests arrive and have a name.  *)
(***************************************************************************)

Readable ==
    /\ MaxFaults = 0
    /\ \A q \in Package : \A v \in DOMAIN Manifests[q] : Manifests[q][v].name # NoName

(* A process has q's file open in that directory. *)
Writes(where, q) == \E p \in Process : proc[p].handle = where /\ proc[p].cur = q

(* An unreadable file of the directory dir is still being written.         *)
BeingWritten(dir, where) ==
    \A q \in Package : dir[q] # NoFile => Parses(dir[q]) \/ Writes(where, q)

ListOK(r) ==
    /\ r.handle # "none" => r.pc = "write"
    /\ r.handle = "db" /\ torn = 0 => Parses(r.body)
    /\ r.handle = "fresh" /\ Readable => Parses(r.body)
    /\ At(r) \in {"archive", "verify"} => Parses(r.pkg)
    /\ r.pc = "replace" /\ Serial => Parses(fresh[Head(r.names)])

ListInv ==
    /\ \A p \in Process : ListOK(proc[p])
    /\ crashes = 0 /\ torn = 0 => BeingWritten(db, "db")
    /\ crashes = 0 /\ Readable => BeingWritten(fresh, "fresh")

(***************************************************************************)
(* The inductive invariant behind ChecksumKept, for commands that do not   *)
(* overlap and a repository where no manifest names another package.       *)
(***************************************************************************)

OwnNames ==
    \A q \in Package : \A v \in DOMAIN Manifests[q] : Manifests[q][v].name \in {q, NoName}

(* What the repository may have served as q's manifest.                    *)
Genuine(q, file) == file.name \in {q, NoName} /\ (Summed(q) => file.sum # NoSum)

AllGenuine(dir) == \A q \in Package : dir[q] \in Entry => Genuine(q, dir[q])

SumOK(r) ==
    /\ r.handle \in {"db", "cache", "fresh"} => r.body \in Entry /\ Genuine(r.cur, r.body)
    /\ r.pc = "write" /\ r.next = "parse" => r.handle = "cache"
    /\ r.pc = "parse" => cache[r.cur] \in Entry
    /\ At(r) \in {"archive", "verify"} => r.pkg.name = r.cur /\ Genuine(r.cur, r.pkg)

SumInv ==
    faults = 0 =>
        /\ AllGenuine(db) /\ AllGenuine(cache) /\ AllGenuine(fresh)
        /\ \A p \in Process : SumOK(proc[p])

(***************************************************************************)
(* The inductive invariant behind InstallUndisturbed and PackageDBSpec:    *)
(* commands do not overlap, and nothing fails or is published.             *)
(***************************************************************************)

(* The repository starts with manifests that name their own package and    *)
(* have its right checksum, if any.                                        *)
StartsRight ==
    \A q \in Package :
        LET first == Manifests[q][1]
        IN  first.name \in {q, NoName} /\ first.sum \in {NoSum, first.ver}

NoUpdates == \A c \in Commands : c.op # "update"

Calm == faults = 0 /\ published = 0 /\ (crashes = 0 \/ NoUpdates)

First(q) == Manifests[q][1]

(* The entry an install of q makes.                                        *)
EntryOf(q) ==
    IF First(q).name = NoName THEN [First(q) EXCEPT !.name = q, !.deps = <<>>] ELSE First(q)

Needs(q) == Range(Deps(First(q)))

(* The packages still in the install order come after what they need.      *)
OrderOK(r) ==
    /\ Head(r.names) \in Present \cup Range(r.order)
    /\ \A i \in DOMAIN r.order : \A d \in Needs(r.order[i]) :
          d \in Present \/ \E j \in DOMAIN r.order : j < i /\ r.order[j] = d

OpOf(pc) ==
    CASE pc \in {"install", "loaded", "each", "parse", "archive", "verify", "registered",
                 "unloaded", "unfetched"} -> "install"
      [] pc \in {"remove", "scan"} -> "remove"
      [] pc \in {"update", "latest", "replace", "unreached"} -> "update"

CalmOK(r) ==
    /\ r.pc \notin Stopped =>
          /\ r.op = OpOf(At(r))
          /\ r.op = "install" => r.mem \subseteq Present
          /\ r.op = "update" => ~NoUpdates
    /\ At(r) \notin {"unloaded", "unfetched", "unreached"}
    /\ \A q \in Package : r.view[q] \in {NoFile, Deps(First(q))}
    /\ r.pc = "write" =>
          /\ r.next \in {"loaded", "parse"} => r.handle = "cache" /\ r.body = First(r.cur)
          /\ r.next = "verify" => r.handle = "archive" /\ r.body = First(r.cur)
          /\ r.next = "latest" =>
                r.handle = "fresh" /\ r.body = First(r.cur) /\ r.cur = Head(r.names)
          /\ r.next = "registered" =>
                r.handle = "db" /\ r.body = EntryOf(r.cur) /\ r.cur = Head(r.order)
    /\ r.pc \in {"loaded", "parse"} => cache[r.cur] = First(r.cur)
    /\ r.pc = "verify" => archive[r.cur] = First(r.cur)
    /\ r.pc \in {"latest", "replace"} => fresh[Head(r.names)] = First(Head(r.names))
    /\ r.pc = "replace" => First(Head(r.names)).name # NoName
    /\ At(r) \in {"parse", "archive", "verify"} => r.cur = Head(r.order)
    /\ At(r) \in {"archive", "verify"} => r.pkg = EntryOf(r.cur)
    /\ At(r) = "registered" => Head(r.order) \in Present
    /\ At(r) \in {"each", "parse", "archive", "verify", "registered"} => OrderOK(r)

CalmDisk ==
    \A q \in Package :
        /\ repo[q] = 1
        /\ db[q] \in {NoFile, Empty, EntryOf(q)}
        /\ {cache[q], fresh[q], archive[q]} \subseteq {NoFile, Empty, First(q)}
        /\ db[q] = Empty /\ crashes = 0 => Writes("db", q)
        /\ Range(Deps(db[q])) \subseteq Present

CalmInv == Calm => CalmDisk /\ \A p \in Process : CalmOK(proc[p])

(* The processes are in order, and what is on disk and what each is about  *)
(* to do with it agree, in each of the three settings above.               *)
FilesInv ==
    /\ IInv
    /\ Serial \/ Readable => ListInv
    /\ Serial /\ OwnNames => SumInv
    /\ Serial /\ StartsRight => ListInv /\ CalmInv
=============================================================================
