---------------------------- MODULE BotPkgProofs ----------------------------
(***************************************************************************)
(* Theorems about BotPkg, for any packages, repository and command lines.  *)
(***************************************************************************)
EXTENDS BotPkg, FiniteSetTheorems, SequenceTheorems, TLAPS

(* The next state of the processes when p goes on as r: others keep what   *)
(* they have, but for where the file they write is found.                  *)
GoesOn(p, r) ==
    /\ proc' \in [Process -> Proc]
    /\ proc'[p] = r
    /\ \A x \in Process \ {p} :
           \E h \in Handles : proc'[x] = [proc[x] EXCEPT !.handle = h]

(* Faults stay within their bound, and are not undone. *)
Budgeted ==
    /\ faults' \in 0 .. MaxFaults /\ torn' \in 0 .. faults'
    /\ faults' = 0 => faults = 0
    /\ torn' = 0 => torn = 0
    /\ UNCHANGED <<crashes, published>>

(* What a step of p establishes. *)
Outcome(p, r) ==
    /\ db' \in [Package -> File]
    /\ cache' \in [Package -> File]
    /\ fresh' \in [Package -> File]
    /\ archive' \in [Package -> File]
    /\ repo' = repo
    /\ Budgeted
    /\ GoesOn(p, r)
    /\ WorkOK(r)
    /\ Serial /\ r.pc = "scan" => ScanOK(r)'

LEMMA BecomeGoesOn ==
    ASSUME TypeOK, NEW p \in Process, NEW r \in Proc, Become(p, r)
    PROVE  GoesOn(p, r)
<1>1. proc' \in [Process -> Proc] /\ proc'[p] = r
  BY DEF TypeOK, Become
<1>2. ASSUME NEW x \in Process \ {p}
      PROVE  \E h \in Handles : proc'[x] = [proc[x] EXCEPT !.handle = h]
  <2>1. proc'[x] = proc[x]
    BY DEF TypeOK, Become
  <2>2. proc[x] \in Proc /\ proc[x].handle \in Handles
    BY DEF TypeOK, Proc
  <2>3. proc[x] = [proc[x] EXCEPT !.handle = proc[x].handle]
    BY <2>2 DEF Proc
  <2> QED
    BY <2>1, <2>2, <2>3
<1> QED
  BY <1>1, <1>2 DEF GoesOn

LEMMA MovedGoesOn ==
    ASSUME TypeOK, NEW p \in Process, NEW r \in Proc, NEW q \in Package, NEW where,
           \A h \in DOMAIN where : where[h] \in Handles,
           Moved(p, r, q, where)
    PROVE  GoesOn(p, r)
<1>1. ASSUME NEW x \in Process \ {p}
      PROVE  /\ proc'[x] \in Proc
             /\ \E h \in Handles : proc'[x] = [proc[x] EXCEPT !.handle = h]
  <2>1. proc[x] \in Proc /\ proc[x].handle \in Handles
    BY DEF TypeOK, Proc
  <2>2. proc[x] = [proc[x] EXCEPT !.handle = proc[x].handle]
    BY <2>1 DEF Proc
  <2>3. proc'[x] = IF proc[x].cur = q /\ proc[x].handle \in DOMAIN where
                      THEN [proc[x] EXCEPT !.handle = where[proc[x].handle]]
                      ELSE proc[x]
    BY <2>1 DEF Moved, Proc
  <2>4. CASE proc[x].cur = q /\ proc[x].handle \in DOMAIN where
    BY <2>1, <2>3, <2>4 DEF Proc
  <2>5. CASE ~(proc[x].cur = q /\ proc[x].handle \in DOMAIN where)
    BY <2>1, <2>2, <2>3, <2>5
  <2> QED
    BY <2>4, <2>5
<1>2. proc' \in [Process -> Proc] /\ proc'[p] = r
  BY <1>1 DEF Moved
<1> QED
  BY <1>1, <1>2 DEF GoesOn

(* A name has been dealt with: the next one, or the end. *)
LEMMA EndNameOK ==
    ASSUME NEW r \in Proc, WorkOK(r), r.pc \notin Stopped, NEW rc \in {0, 1}
    PROVE  /\ EndName(r, rc) \in Proc
           /\ WorkOK(EndName(r, rc))
           /\ EndName(r, rc).pc \notin {"scan", "write"}
<1>1. Idle \in Proc
  BY EmptySeq DEF Idle, Proc, NotRead, PCs, Stopped, Handles, File
<1>2. r.names \in Seq(Package) /\ r.names # <<>> /\ r.op \in {"install", "remove", "update"}
  BY DEF WorkOK, Proc
<1>3. Tail(r.names) \in Seq(Package)
  BY <1>2
<1>4. r.ret \in {0, 1} /\ r.mem \in SUBSET Package
  BY DEF Proc
<1> DEFINE e == EndName(r, rc)
<1>5. /\ e = [Idle EXCEPT !.pc = IF Tail(r.names) = <<>> THEN "done" ELSE r.op,
                          !.op = r.op, !.names = Tail(r.names), !.mem = r.mem,
                          !.ret = IF rc # 0 THEN rc ELSE r.ret]
  BY DEF EndName
<1>6. e \in Proc
  BY <1>1, <1>2, <1>3, <1>4, <1>5 DEF Proc, PCs, Stopped
<1>7. /\ e.pc = IF Tail(r.names) = <<>> THEN "done" ELSE r.op
      /\ e.op = r.op /\ e.names = Tail(r.names)
  BY <1>1, <1>5 DEF Proc
<1>8. WorkOK(e)
  BY <1>2, <1>7 DEF WorkOK, At, Stopped
<1> QED
  BY <1>2, <1>6, <1>7, <1>8

(* Budgets after a step without a failure, and with one. *)
LEMMA CalmBudget ==
    ASSUME TypeOK, UNCHANGED budget
    PROVE  Budgeted
BY DEF TypeOK, budget, Budgeted

LEMMA FaultBudget ==
    ASSUME TypeOK, Fault
    PROVE  Budgeted /\ faults' # 0 /\ MaxFaults # 0
<1>1. MaxFaults \in Nat
  BY BotPkgAssumption
<1> QED
  BY <1>1 DEF TypeOK, Fault, Budgeted

LEMMA TornBudget ==
    ASSUME TypeOK, NEW p \in Process, RegisterTorn(p)
    PROVE  Budgeted /\ faults' # 0 /\ torn' # 0 /\ MaxFaults # 0
<1>1. MaxFaults \in Nat
  BY BotPkgAssumption
<1> QED
  BY <1>1 DEF TypeOK, RegisterTorn, Budgeted

(* What the beginning of a manifest can say is a manifest. *)
LEMMA CutDepsSeq ==
    ASSUME NEW deps \in Seq(Package)
    PROVE  CutDeps(deps) \subseteq Seq(Package)
<1> SUFFICES ASSUME NEW c \in CutDeps(deps) PROVE c \in Seq(Package)
  OBVIOUS
<1>1. PICK n \in 0 .. Len(deps) :
          \/ c = SubSeq(deps, 1, n)
          \/ n # 0 /\ \E q \in Shorter[deps[n]] : c = [SubSeq(deps, 1, n) EXCEPT ![n] = q]
  BY DEF CutDeps
<1>2. SubSeq(deps, 1, n) \in Seq(Package) /\ Len(SubSeq(deps, 1, n)) = n
  BY SubSeqProperties
<1>3. ASSUME n # 0, NEW q \in Shorter[deps[n]]
      PROVE  [SubSeq(deps, 1, n) EXCEPT ![n] = q] \in Seq(Package)
  <2>1. deps[n] \in Package
    BY <1>3
  <2>2. q \in Package
    BY <2>1, <1>3, BotPkgAssumption
  <2>3. PICK t \in Seq(Package) : t = SubSeq(deps, 1, n) /\ Len(t) = n
    BY <1>2
  <2>4. n \in 1 .. Len(t)
    BY <1>3, <2>3
  <2>5. [t EXCEPT ![n] = q] \in Seq(Package)
    BY <2>2, <2>4, ExceptSeq
  <2> QED
    BY <2>3, <2>5
<1> QED
  BY <1>1, <1>2, <1>3

(* A manifest with other fields. *)
LEMMA OtherFields ==
    ASSUME NEW e \in Entry, NEW n \in Package \cup {NoName}, NEW d \in Seq(Package),
           NEW s \in Nat \cup {NoSum, BadSum}
    PROVE  LET o == Fields(e, n, d, s)
           IN  o \in Entry /\ o.name = n /\ o.deps = d /\ o.sum = s /\ o.ver = e.ver
BY DEF Entry, Fields

LEMMA CutEntry ==
    ASSUME NEW e \in Entry
    PROVE  Cut(e) \subseteq Entry \cup {Empty}
<1> SUFFICES ASSUME NEW c \in Cut(e), c # Empty PROVE c \in Entry
  OBVIOUS
<1>0. /\ e.name \in Package \cup {NoName} /\ e.deps \in Seq(Package)
      /\ e.sum \in Nat \cup {NoSum, BadSum}
  BY DEF Entry
<1> DEFINE names == {NoName, e.name} \cup (IF e.name = NoName THEN {} ELSE Shorter[e.name])
           deps == CutDeps(e.deps)
           sums == {NoSum, e.sum} \cup (IF e.sum = NoSum THEN {} ELSE {BadSum})
<1>c. c \in {Fields(e, n, d, s) : n \in names, d \in deps, s \in sums}
  BY DEF Cut
<1>1. PICK n \in names, d \in deps, s \in sums : c = Fields(e, n, d, s)
  BY <1>c
<1>2. n \in Package \cup {NoName}
  <2>1. CASE e.name = NoName
    BY <1>1, <2>1
  <2>2. CASE e.name \in Package
    <3>1. Shorter[e.name] \subseteq Package
      BY <2>2, BotPkgAssumption
    <3> QED
      BY <1>0, <1>1, <3>1
  <2> QED
    BY <1>0, <2>1, <2>2
<1>3. d \in Seq(Package) /\ s \in Nat \cup {NoSum, BadSum}
  BY <1>0, <1>1, CutDepsSeq
<1> QED
  BY <1>1, <1>2, <1>3, OtherFields

(* One manifest written over another is one, whose name, dependencies and  *)
(* checksum are those of the last or, where it has none, of the first.     *)
LEMMA MixedFields ==
    ASSUME NEW old \in Entry, NEW body \in Entry, NEW m \in Mixed(old, body)
    PROVE  /\ m \in Entry
           /\ m.name \in {body.name, old.name} /\ (body.name # NoName => m.name = body.name)
           /\ m.sum \in {body.sum, old.sum} /\ (body.sum # NoSum => m.sum = body.sum)
           /\ old = body => m = body
<1>0. /\ body.name \in Package \cup {NoName} /\ old.name \in Package \cup {NoName}
      /\ body.deps \in Seq(Package) /\ old.deps \in Seq(Package)
      /\ body.sum \in Nat \cup {NoSum, BadSum} /\ old.sum \in Nat \cup {NoSum, BadSum}
  BY DEF Entry
<1> DEFINE names == IF body.name = NoName THEN {NoName, old.name} ELSE {body.name}
           deps == IF body.deps = <<>> THEN {<<>>, old.deps} ELSE {body.deps}
           sums == IF body.sum = NoSum THEN {NoSum, old.sum} ELSE {body.sum}
<1>m. m \in {Fields(body, n, d, s) : n \in names, d \in deps, s \in sums}
  BY DEF Mixed
<1>1. PICK n \in names, d \in deps, s \in sums : m = Fields(body, n, d, s)
  BY <1>m
<1>2. /\ n \in Package \cup {NoName} /\ s \in Nat \cup {NoSum, BadSum}
      /\ d \in Seq(Package)
  BY <1>0, <1>1, EmptySeq
<1>f. n \in {body.name, old.name} /\ (body.name # NoName => n = body.name)
  BY <1>1
<1>g. s \in {body.sum, old.sum} /\ (body.sum # NoSum => s = body.sum)
  BY <1>1
<1>3. m \in Entry /\ m.name = n /\ m.sum = s
  <2>1. Fields(body, n, d, s) \in Entry /\ Fields(body, n, d, s).name = n
        /\ Fields(body, n, d, s).sum = s
    BY <1>2 DEF Fields, Entry
  <2> QED
    BY <1>1, <2>1
<1>4. ASSUME old = body PROVE m = body
  <2>1. n = body.name /\ d = body.deps /\ s = body.sum
    BY <1>1, <1>4, <1>f, <1>g
  <2> QED
    BY <1>1, <2>1 DEF Entry, Fields
<1> QED
  BY <1>f, <1>g, <1>3, <1>4

LEMMA OverFile ==
    ASSUME NEW old \in File, NEW body \in Entry \cup {Empty}, NEW file \in Over(old, body)
    PROVE  /\ file \in Entry \cup {Empty}
           /\ old \in {NoFile, Empty, body} => file = body
           /\ Parses(body) => Parses(file)
<1>1. CASE old \in {NoFile, Empty}
  BY <1>1 DEF Over
<1>2. CASE old \in Entry /\ old # Empty /\ body = Empty
  <2>1. file = old
    BY <1>2, BotPkgAssumption DEF Over
  <2> QED
    BY <1>2, <2>1, BotPkgAssumption DEF Parses
<1>3. CASE old \in Entry /\ old # Empty /\ body # Empty
  <2>1. body \in Entry /\ file \in Mixed(old, body)
    BY <1>3, BotPkgAssumption DEF Over
  <2>2. /\ file \in Entry /\ (body.name # NoName => file.name = body.name)
        /\ old = body => file = body
    BY <1>3, <2>1, MixedFields
  <2>3. Parses(body) => Parses(file)
    BY <2>2, BotPkgAssumption DEF Parses
  <2> QED
    BY <1>3, <2>2, <2>3, BotPkgAssumption
<1> QED
  BY <1>1, <1>2, <1>3, BotPkgAssumption DEF File

LEMMA OverArchiveFile ==
    ASSUME NEW old \in File, NEW body \in Entry \cup {Empty}, NEW file \in OverArchive(old, body)
    PROVE  /\ file \in Entry \cup {Empty}
           /\ old \in {NoFile, Empty, body} => file = body
BY DEF OverArchive, File

(* What a write makes of each directory. *)
LEMMA WriteForm ==
    ASSUME NEW p \in Process, Write(p)
    PROVE  LET r == proc[p]
           IN  /\ r.handle = "db" => \E file \in Over(db[r.cur], r.body) : db' = [db EXCEPT ![r.cur] = file]
               /\ r.handle = "cache" =>
                      \E file \in Over(cache[r.cur], r.body) : cache' = [cache EXCEPT ![r.cur] = file]
               /\ r.handle = "fresh" =>
                      \E file \in Over(fresh[r.cur], r.body) : fresh' = [fresh EXCEPT ![r.cur] = file]
               /\ r.handle = "archive" =>
                      \E file \in OverArchive(archive[r.cur], r.body) :
                          archive' = [archive EXCEPT ![r.cur] = file]
               /\ r.handle # "db" => db' = db
               /\ r.handle # "cache" => cache' = cache
               /\ r.handle # "fresh" => fresh' = fresh
               /\ r.handle # "archive" => archive' = archive
BY DEF Write

(* The written file, in a directory of files. *)
LEMMA WrittenFile ==
    ASSUME NEW dir \in [Package -> File], NEW q \in Package \cup {NoName}, NEW body \in Entry \cup {Empty},
           NEW file, file \in Over(dir[q], body) \/ file \in OverArchive(dir[q], body)
    PROVE  [dir EXCEPT ![q] = file] \in [Package -> File]
<1>1. CASE q \in Package
  <2>1. file \in File
    BY <1>1, OverFile, OverArchiveFile DEF File
  <2> QED
    BY <1>1, <2>1
<1>2. CASE q \notin Package
  BY <1>2
<1> QED
  BY <1>1, <1>2

LEMMA WriteTypes ==
    ASSUME TypeOK, NEW p \in Process, Write(p), WorkOK(proc[p])
    PROVE  /\ db' \in [Package -> File] /\ cache' \in [Package -> File]
           /\ fresh' \in [Package -> File] /\ archive' \in [Package -> File]
           /\ proc[p].body \in Entry \cup {Empty}
<1> DEFINE r == proc[p]
<1>0. /\ db \in [Package -> File] /\ cache \in [Package -> File]
      /\ fresh \in [Package -> File] /\ archive \in [Package -> File]
  BY DEF TypeOK
<1>1. r \in Proc /\ r.pc = "write"
  BY DEF TypeOK, Write
<1>2. r.cur \in Package \cup {NoName} /\ r.body \in Entry \cup {Empty}
  BY <1>1 DEF Proc, WorkOK, File
<1>3. db' \in [Package -> File]
  BY <1>0, <1>2, WriteForm, WrittenFile
<1>4. cache' \in [Package -> File]
  <2>1. CASE r.handle = "cache"
    <3>1. PICK file \in Over(cache[r.cur], r.body) : cache' = [cache EXCEPT ![r.cur] = file]
      BY <2>1, WriteForm
    <3> QED
      BY <1>0, <1>2, <3>1, WrittenFile
  <2>2. CASE r.handle # "cache"
    BY <1>0, <2>2, WriteForm
  <2> QED
    BY <2>1, <2>2
<1>5. fresh' \in [Package -> File]
  <2>1. CASE r.handle = "fresh"
    <3>1. PICK file \in Over(fresh[r.cur], r.body) : fresh' = [fresh EXCEPT ![r.cur] = file]
      BY <2>1, WriteForm
    <3> QED
      BY <1>0, <1>2, <3>1, WrittenFile
  <2>2. CASE r.handle # "fresh"
    BY <1>0, <2>2, WriteForm
  <2> QED
    BY <2>1, <2>2
<1>6. archive' \in [Package -> File]
  <2>1. CASE r.handle = "archive"
    <3>1. PICK file \in OverArchive(archive[r.cur], r.body) : archive' = [archive EXCEPT ![r.cur] = file]
      BY <2>1, WriteForm
    <3> QED
      BY <1>0, <1>2, <3>1, WrittenFile
  <2>2. CASE r.handle # "archive"
    BY <1>0, <2>2, WriteForm
  <2> QED
    BY <2>1, <2>2
<1> QED
  BY <1>2, <1>3, <1>4, <1>5, <1>6

LEMMA ServedEntry ==
    ASSUME TypeOK, NEW q \in Package
    PROVE  Served(q) \in Entry /\ Cut(Served(q)) \subseteq Entry \cup {Empty}
<1>1. Manifests[q] \in Seq(Entry) /\ repo[q] \in DOMAIN Manifests[q]
  BY BotPkgAssumption DEF TypeOK
<1>2. Served(q) \in Entry
  BY <1>1 DEF Served
<1> QED
  BY <1>2, CutEntry

(* What can follow a write. *)
Nexts == {"loaded", "parse", "verify", "registered", "latest", "unloaded", "unfetched", "unreached"}

LEMMA OpenedOK ==
    ASSUME NEW r \in Proc, WorkOK(r), r.pc \notin Stopped, NEW next \in Nexts,
           NEW q \in Package \cup {NoName}, NEW where \in Handles,
           NEW body \in Entry \cup {Empty},
           next \in {"loaded", "unloaded", "parse", "verify"} => q \in Package,
           next = "verify" => r.pkg \in Entry,
           next \in {"parse", "verify", "unfetched", "registered"} => r.order # <<>>
    PROVE  /\ Opened(r, next, q, where, body) \in Proc
           /\ WorkOK(Opened(r, next, q, where, body))
           /\ Opened(r, next, q, where, body).pc = "write"
<1> DEFINE o == Opened(r, next, q, where, body)
<1>1. o \in Proc
  BY DEF Opened, Proc, PCs, Stopped, File, Nexts
<1>2. /\ o.pc = "write" /\ o.next = next /\ o.cur = q /\ o.body = body
      /\ o.names = r.names /\ o.op = r.op /\ o.pkg = r.pkg /\ o.order = r.order
  BY DEF Opened, Proc
<1>3. body # NoFile
  BY BotPkgAssumption
<1>4. WorkOK(o)
  BY <1>2, <1>3 DEF WorkOK, At, Nexts
<1> QED
  BY <1>1, <1>2, <1>4

(* A download leaves the process about to write to the file it opened. *)
LEMMA DownloadsOK ==
    ASSUME TypeOK, NEW p \in Process, WorkOK(proc[p]), Busy(p),
           NEW next \in {"loaded", "parse", "verify", "latest"},
           NEW failed \in {"parse", "unloaded", "unfetched", "unreached"},
           NEW q \in Package, NEW where \in Handles,
           NEW whole \in Entry, NEW cut \in SUBSET (Entry \cup {Empty}),
           next = "verify" => proc[p].pkg \in Entry,
           {next, failed} \cap {"parse", "verify", "unfetched"} # {} => proc[p].order # <<>>,
           Downloads(p, next, failed, q, where, whole, cut)
    PROVE  /\ Budgeted
           /\ \E r \in Proc : GoesOn(p, r) /\ WorkOK(r) /\ r.pc = "write"
<1>1. PICK body \in Entry \cup {Empty}, after \in {next, failed} :
          /\ Become(p, Opened(proc[p], after, q, where, body))
          /\ UNCHANGED budget \/ Fault
  BY DEF Downloads
<1>2. proc[p] \in Proc /\ proc[p].pc \notin Stopped
  BY DEF TypeOK, Busy
<1> DEFINE o == Opened(proc[p], after, q, where, body)
<1>n. /\ after \in Nexts
      /\ after = "verify" => proc[p].pkg \in Entry
      /\ after \in {"parse", "verify", "unfetched", "registered"} => proc[p].order # <<>>
  BY <1>1 DEF Nexts
<1>3. o \in Proc /\ WorkOK(o) /\ o.pc = "write"
  BY <1>2, <1>n, OpenedOK
<1>4. GoesOn(p, o)
  BY <1>1, <1>3, BecomeGoesOn
<1> QED
  BY <1>1, <1>3, <1>4, CalmBudget, FaultBudget

LEMMA FoundOK ==
    ASSUME TypeOK, NEW r \in Proc, WorkOK(r), NEW Q \in SUBSET Package
    PROVE  /\ Found(r, Q) \in Proc
           /\ WorkOK(Found(r, Q))
           /\ Found(r, Q).pc = r.pc
           /\ Found(r, Q).order = r.order
           /\ Found(r, Q).names = r.names
<1>1. Found(r, Q) \in Proc
  BY DEF Found, Proc, Present
<1>2. /\ Found(r, Q).pc = r.pc /\ Found(r, Q).names = r.names /\ Found(r, Q).op = r.op
      /\ Found(r, Q).next = r.next /\ Found(r, Q).body = r.body /\ Found(r, Q).cur = r.cur
      /\ Found(r, Q).pkg = r.pkg /\ Found(r, Q).order = r.order
  BY DEF Found, Proc
<1> QED
  BY <1>1, <1>2 DEF WorkOK, At

LEMMA NextPackageOK ==
    ASSUME NEW r \in Proc, WorkOK(r), r.pc \notin Stopped, r.order # <<>>
    PROVE  NextPackage(r) \in Proc /\ WorkOK(NextPackage(r)) /\ NextPackage(r).pc = "each"
<1>1. r.order \in Seq(Package)
  BY DEF Proc
<1>2. Tail(r.order) \in Seq(Package)
  BY <1>1
<1>3. NextPackage(r) \in Proc
  BY <1>2 DEF NextPackage, Proc, PCs
<1>4. /\ NextPackage(r).pc = "each" /\ NextPackage(r).names = r.names /\ NextPackage(r).op = r.op
  BY DEF NextPackage, Proc
<1> QED
  BY <1>3, <1>4 DEF WorkOK, At

(* A step that leaves the files alone, and one that moves none. *)
LEMMA DiskOutcome ==
    ASSUME TypeOK, NEW p \in Process, NEW r \in Proc, GoesOn(p, r), WorkOK(r),
           r.pc # "scan", repo' = repo,
           Budgeted,
           db' \in [Package -> File], cache' \in [Package -> File],
           fresh' \in [Package -> File], archive' \in [Package -> File]
    PROVE  \E s \in Proc : Outcome(p, s)
BY DEF Outcome

LEMMA QuietOutcome ==
    ASSUME TypeOK, NEW p \in Process, NEW r \in Proc, Become(p, r), WorkOK(r),
           r.pc # "scan", UNCHANGED <<disk, repo>>,
           Budgeted
    PROVE  \E s \in Proc : Outcome(p, s)
<1>1. GoesOn(p, r)
  BY BecomeGoesOn
<1>2. UNCHANGED <<db, cache, fresh, archive, repo>>
  BY DEF disk
<1> QED
  BY <1>1, <1>2 DEF Outcome, TypeOK

LEMMA StepOutcome ==
    ASSUME IInv, NEW p \in Process, Step(p)
    PROVE  Busy(p) /\ \E r \in Proc : Outcome(p, r)
<1> DEFINE r == proc[p]
<1>0. /\ TypeOK /\ r \in Proc /\ WorkOK(r)
      /\ db \in [Package -> File] /\ cache \in [Package -> File]
      /\ fresh \in [Package -> File] /\ archive \in [Package -> File]
  BY DEF IInv, TypeOK
<1>b. Busy(p) <=> r.pc \notin Stopped
  BY DEF Busy
<1>e. Empty \in File /\ NoFile \in File
  BY DEF File
<1>n. r.pc \notin Stopped => r.names \in Seq(Package) /\ r.names # <<>> /\ Root(p) \in Package
  BY <1>0 DEF WorkOK, Proc, Root
<1>w. CASE Write(p)
  <2> DEFINE s == [r EXCEPT !.pc = r.next, !.next = "none", !.handle = "none", !.body = NoFile]
  <2>1. r.pc = "write" /\ Become(p, s) /\ UNCHANGED <<repo, budget>>
    BY <1>w DEF Write
  <2>2. r.next \in Nexts
    BY <1>0, <2>1 DEF WorkOK, Proc, Nexts
  <2>n. r.next \in PCs
    BY <2>2 DEF PCs, Nexts
  <2>3. s \in Proc
    BY <1>0, <1>e, <2>n DEF Proc, Handles, File
  <2>4. /\ s.pc = r.next /\ s.names = r.names /\ s.op = r.op /\ s.cur = r.cur
        /\ s.pkg = r.pkg /\ s.order = r.order
    BY <1>0 DEF Proc
  <2>5. WorkOK(s)
    BY <1>0, <2>1, <2>2, <2>4 DEF WorkOK, At, Stopped, Nexts
  <2>6. /\ db' \in [Package -> File] /\ cache' \in [Package -> File]
        /\ fresh' \in [Package -> File] /\ archive' \in [Package -> File]
    BY <1>w, <1>0, WriteTypes
  <2>7. s.pc # "scan" /\ Busy(p)
    BY <1>b, <2>1, <2>2, <2>4 DEF Stopped, Nexts
  <2> QED
    BY <1>0, <2>1, <2>3, <2>5, <2>6, <2>7, BecomeGoesOn, CalmBudget, DiskOutcome
<1>ll. CASE LoadLocal(p)
  <2>1. PICK q \in Package : Become(p, Read(r, q, IF Parses(db[q]) THEN Deps(db[q]) ELSE Deps(cache[q])))
    BY <1>ll DEF LoadLocal, Unread
  <2>2. r.pc = "install" /\ UNCHANGED <<disk, repo, budget>>
    BY <1>ll DEF LoadLocal
  <2>3. Deps(db[q]) \in Seq(Package) /\ Deps(cache[q]) \in Seq(Package)
    BY <1>0, EmptySeq DEF Deps, Parses, File, Entry
  <2> DEFINE s == Read(r, q, IF Parses(db[q]) THEN Deps(db[q]) ELSE Deps(cache[q]))
  <2>4. s \in Proc
    BY <1>0, <2>3 DEF Read, Proc
  <2>5. s.pc = "install" /\ s.names = r.names /\ s.op = r.op
    BY <1>0, <2>2 DEF Read, Proc
  <2>6. WorkOK(s)
    BY <1>0, <2>2, <2>5 DEF WorkOK, At, Stopped
  <2> QED
    BY <1>0, <1>b, <2>1, <2>2, <2>4, <2>5, <2>6, CalmBudget, QuietOutcome DEF Stopped
<1>ld. CASE LoadDownload(p)
  <2>1. PICK q \in Package : /\ Downloads(p, "loaded", "unloaded", q, "cache", Served(q), Cut(Served(q)))
                             /\ cache' = [cache EXCEPT ![q] = Empty]
    BY <1>ld DEF LoadDownload, Unread
  <2>2. r.pc = "install" /\ UNCHANGED <<db, fresh, archive, repo>>
    BY <1>ld DEF LoadDownload
  <2>3. Busy(p)
    BY <1>b, <2>2 DEF Stopped
  <2>4. /\ Budgeted
        /\ \E s \in Proc : GoesOn(p, s) /\ WorkOK(s) /\ s.pc = "write"
    BY <1>0, <2>1, <2>3, ServedEntry, DownloadsOK DEF Handles
  <2>5. /\ db' \in [Package -> File] /\ cache' \in [Package -> File]
        /\ fresh' \in [Package -> File] /\ archive' \in [Package -> File]
    BY <1>0, <1>e, <2>1, <2>2
  <2> QED
    BY <1>0, <2>2, <2>3, <2>4, <2>5, DiskOutcome
<1>lp. CASE LoadParse(p)
  <2> DEFINE i == [r EXCEPT !.pc = "install"]
             s == Read(i, i.cur, Deps(cache[i.cur]))
  <2>1. r.pc = "loaded" /\ Become(p, s) /\ UNCHANGED <<disk, repo, budget>>
    BY <1>lp DEF LoadParse
  <2>2. i \in Proc /\ i.cur = r.cur /\ r.cur \in Package
    BY <1>0, <2>1 DEF WorkOK, At, Proc, PCs
  <2>3. Deps(cache[i.cur]) \in Seq(Package)
    BY <1>0, <2>2, EmptySeq DEF Deps, Parses, File, Entry
  <2>4. s \in Proc
    BY <2>2, <2>3 DEF Read, Proc
  <2>5. s.pc = "install" /\ s.names = r.names /\ s.op = r.op
    BY <1>0 DEF Read, Proc
  <2>6. WorkOK(s)
    BY <1>0, <2>1, <2>5 DEF WorkOK, At, Stopped
  <2> QED
    BY <1>0, <1>b, <2>1, <2>4, <2>5, <2>6, CalmBudget, QuietOutcome DEF Stopped
<1>lu. CASE LoadFailed(p)
  <2> DEFINE i == [r EXCEPT !.pc = "install"]
             s == Read(i, i.cur, <<>>)
  <2>1. r.pc = "unloaded" /\ Become(p, s) /\ UNCHANGED <<disk, repo, budget>>
    BY <1>lu DEF LoadFailed
  <2>2. i \in Proc /\ i.cur = r.cur /\ r.cur \in Package
    BY <1>0, <2>1 DEF WorkOK, At, Proc, PCs
  <2>4. s \in Proc
    BY <2>2, EmptySeq DEF Read, Proc
  <2>5. s.pc = "install" /\ s.names = r.names /\ s.op = r.op
    BY <1>0 DEF Read, Proc
  <2>6. WorkOK(s)
    BY <1>0, <2>1, <2>5 DEF WorkOK, At, Stopped
  <2> QED
    BY <1>0, <1>b, <2>1, <2>4, <2>5, <2>6, CalmBudget, QuietOutcome DEF Stopped
<1>lf. CASE LoadLeaf(p)
  <2>1. PICK q \in Package : Become(p, Read(r, q, <<>>))
    BY <1>lf DEF LoadLeaf, Unread
  <2>2. r.pc = "install" /\ UNCHANGED <<disk, repo>> /\ Fault
    BY <1>lf DEF LoadLeaf
  <2> DEFINE s == Read(r, q, <<>>)
  <2>4. s \in Proc
    BY <1>0, EmptySeq DEF Read, Proc
  <2>5. s.pc = "install" /\ s.names = r.names /\ s.op = r.op
    BY <1>0, <2>2 DEF Read, Proc
  <2>6. WorkOK(s)
    BY <1>0, <2>2, <2>5 DEF WorkOK, At, Stopped
  <2> QED
    BY <1>0, <1>b, <2>1, <2>2, <2>4, <2>5, <2>6, FaultBudget, QuietOutcome DEF Stopped
<1>rf. CASE ResolveFails(p)
  <2>1. r.pc = "install" /\ Become(p, EndName(r, 1)) /\ UNCHANGED <<disk, repo, budget>>
    BY <1>rf DEF ResolveFails
  <2>2. Busy(p)
    BY <1>b, <2>1 DEF Stopped
  <2> QED
    BY <1>0, <1>b, <2>1, <2>2, EndNameOK, CalmBudget, QuietOutcome
<1>rs. CASE Resolved(p)
  <2>1. PICK order \in Orders :
            LET f == Found(r, Range(order))
            IN  Become(p, IF Range(order) \subseteq f.mem
                            THEN EndName(f, 0)
                            ELSE [f EXCEPT !.pc = "each", !.order = order, !.view = NotRead])
    BY <1>rs DEF Resolved
  <2>2. r.pc = "install" /\ UNCHANGED <<disk, repo, budget>>
    BY <1>rs DEF Resolved
  <2>3. Busy(p)
    BY <1>b, <2>2 DEF Stopped
  <2>4. PICK n \in 1 .. Cardinality(Package) : order \in [1 .. n -> Package]
    BY DEF Orders
  <2>5. order \in Seq(Package) /\ Range(order) \in SUBSET Package
    <3>1. n \in Nat
      OBVIOUS
    <3> QED
      BY <2>4, <3>1 DEF Range
  <2> DEFINE f == Found(r, Range(order))
             g == [f EXCEPT !.pc = "each", !.order = order, !.view = NotRead]
  <2>6. f \in Proc /\ WorkOK(f) /\ f.pc = "install"
    BY <1>0, <2>2, <2>5, FoundOK
  <2>7. g \in Proc /\ g.pc = "each" /\ g.names = f.names /\ g.op = f.op
    BY <2>5, <2>6 DEF Proc, PCs, NotRead
  <2>8. WorkOK(g)
    BY <2>6, <2>7 DEF WorkOK, At, Stopped
  <2>9. EndName(f, 0) \in Proc /\ WorkOK(EndName(f, 0)) /\ EndName(f, 0).pc # "scan"
    BY <2>6, EndNameOK DEF Stopped
  <2>10. \E s \in {EndName(f, 0), g} : Become(p, s)
    BY <2>1
  <2> QED
    BY <1>0, <2>2, <2>3, <2>7, <2>8, <2>9, <2>10, CalmBudget, QuietOutcome
<1>si. CASE SkipInstalled(p)
  <2> DEFINE f == Found(r, {Head(r.order)})
  <2>1. /\ r.pc = "each" /\ r.order # <<>> /\ Become(p, NextPackage(f))
        /\ UNCHANGED <<disk, repo, budget>>
    BY <1>si DEF SkipInstalled
  <2>2. Busy(p) /\ Head(r.order) \in Package
    BY <1>0, <1>b, <2>1 DEF Stopped, Proc
  <2>3. f \in Proc /\ WorkOK(f) /\ f.pc = "each" /\ f.order # <<>>
    BY <1>0, <2>1, <2>2, FoundOK
  <2>4. NextPackage(f) \in Proc /\ WorkOK(NextPackage(f)) /\ NextPackage(f).pc = "each"
    BY <2>3, NextPackageOK DEF Stopped
  <2> QED
    BY <1>0, <2>1, <2>2, <2>4, CalmBudget, QuietOutcome
<1>fm. CASE FetchManifest(p)
  <2> DEFINE q == Head(r.order)
  <2>1. /\ r.pc = "each" /\ r.order # <<>>
        /\ Downloads(p, "parse", "parse", q, "cache", Served(q), Cut(Served(q)))
        /\ cache' = [cache EXCEPT ![q] = Empty]
        /\ UNCHANGED <<db, fresh, archive, repo>>
    BY <1>fm DEF FetchManifest
  <2>2. Busy(p) /\ q \in Package
    BY <1>0, <1>b, <2>1 DEF Stopped, Proc
  <2>4. /\ Budgeted
        /\ \E s \in Proc : GoesOn(p, s) /\ WorkOK(s) /\ s.pc = "write"
    BY <1>0, <2>1, <2>2, ServedEntry, DownloadsOK DEF Handles
  <2>5. /\ db' \in [Package -> File] /\ cache' \in [Package -> File]
        /\ fresh' \in [Package -> File] /\ archive' \in [Package -> File]
    BY <1>0, <1>e, <2>1
  <2> QED
    BY <1>0, <2>1, <2>2, <2>4, <2>5, DiskOutcome
<1>ff. CASE FetchManifestFails(p)
  <2> DEFINE s == [r EXCEPT !.pc = "parse", !.cur = Head(r.order)]
  <2>1. /\ r.pc = "each" /\ r.order # <<>> /\ Become(p, s)
        /\ UNCHANGED <<disk, repo>> /\ Fault
    BY <1>ff DEF FetchManifestFails
  <2>2. Busy(p) /\ Head(r.order) \in Package
    BY <1>0, <1>b, <2>1 DEF Stopped, Proc
  <2>3. s \in Proc
    BY <1>0, <2>2 DEF Proc, PCs
  <2>4. s.pc = "parse" /\ s.cur = Head(r.order) /\ s.names = r.names /\ s.op = r.op /\ s.order = r.order
    BY <1>0 DEF Proc
  <2>5. WorkOK(s)
    BY <1>0, <2>1, <2>2, <2>4 DEF WorkOK, At, Stopped
  <2> QED
    BY <1>0, <2>1, <2>2, <2>3, <2>4, <2>5, FaultBudget, QuietOutcome
<1>pm. CASE ParseManifest(p)
  <2> DEFINE file == cache[r.cur]
             placeholder == [name |-> r.cur, ver |-> 0, deps |-> <<>>, sum |-> NoSum]
             pkg == IF file \in {NoFile, Empty} THEN placeholder
                    ELSE IF Parses(file) THEN file
                    ELSE [file EXCEPT !.name = r.cur, !.deps = <<>>]
             s == [r EXCEPT !.pc = "archive", !.pkg = pkg]
  <2>1. r.pc = "parse" /\ Become(p, s) /\ UNCHANGED <<disk, repo, budget>>
    BY <1>pm DEF ParseManifest
  <2>2. Busy(p) /\ r.cur \in Package
    BY <1>0, <1>b, <2>1 DEF Stopped, WorkOK, At
  <2>3. placeholder \in Entry
    BY <2>2, EmptySeq DEF Entry
  <2>4. file \in File
    BY <1>0, <2>2
  <2>5. file \notin {NoFile, Empty} => file \in Entry /\ [file EXCEPT !.name = r.cur, !.deps = <<>>] \in Entry
    BY <2>2, <2>4, EmptySeq DEF File, Entry
  <2>6. pkg \in Entry
    BY <2>3, <2>5
  <2> HIDE DEF pkg
  <2>7. s \in Proc
    BY <1>0, <2>6 DEF Proc, PCs
  <2>8. /\ s.pc = "archive" /\ s.cur = r.cur /\ s.pkg = pkg /\ s.names = r.names /\ s.op = r.op
        /\ s.order = r.order
    BY <1>0 DEF Proc
  <2>9. WorkOK(s)
    BY <1>0, <2>1, <2>2, <2>6, <2>8 DEF WorkOK, At, Stopped
  <2> QED
    BY <1>0, <2>1, <2>2, <2>7, <2>8, <2>9, CalmBudget, QuietOutcome
<1>fa. CASE FetchArchive(p)
  <2>1. /\ r.pc = "archive"
        /\ Downloads(p, "verify", "unfetched", r.cur, "archive", Served(r.cur), {Empty})
        /\ archive' = [archive EXCEPT ![r.cur] = Empty]
        /\ UNCHANGED <<db, cache, fresh, repo>>
    BY <1>fa DEF FetchArchive
  <2>2. Busy(p) /\ r.cur \in Package /\ r.pkg \in Entry /\ r.order # <<>>
    BY <1>0, <1>b, <2>1 DEF Stopped, WorkOK, At
  <2>4. /\ Budgeted
        /\ \E s \in Proc : GoesOn(p, s) /\ WorkOK(s) /\ s.pc = "write"
    BY <1>0, <2>1, <2>2, ServedEntry, DownloadsOK DEF Handles
  <2>5. /\ db' \in [Package -> File] /\ cache' \in [Package -> File]
        /\ fresh' \in [Package -> File] /\ archive' \in [Package -> File]
    BY <1>0, <1>e, <2>1
  <2> QED
    BY <1>0, <2>1, <2>2, <2>4, <2>5, DiskOutcome
<1>af. CASE ArchiveFailed(p)
  <2>1. r.pc = "unfetched" /\ Become(p, NextPackage(r)) /\ UNCHANGED <<disk, repo, budget>>
    BY <1>af DEF ArchiveFailed
  <2>2. Busy(p) /\ r.order # <<>>
    BY <1>0, <1>b, <2>1 DEF Stopped, WorkOK, At
  <2> QED
    BY <1>0, <1>b, <2>1, <2>2, NextPackageOK, CalmBudget, QuietOutcome
<1>rx. CASE RegisterFails(p)
  <2>1. r.pc = "verify" /\ Become(p, NextPackage(r)) /\ UNCHANGED <<disk, repo>> /\ Fault
    BY <1>rx DEF RegisterFails
  <2>2. Busy(p) /\ r.order # <<>>
    BY <1>0, <1>b, <2>1 DEF Stopped, WorkOK, At
  <2> QED
    BY <1>0, <1>b, <2>1, <2>2, NextPackageOK, FaultBudget, QuietOutcome
<1>fs. CASE FetchArchiveFails(p)
  <2>1. r.pc = "archive" /\ Become(p, NextPackage(r)) /\ UNCHANGED <<disk, repo>> /\ Fault
    BY <1>fs DEF FetchArchiveFails
  <2>2. Busy(p) /\ r.order # <<>>
    BY <1>0, <1>b, <2>1 DEF Stopped, WorkOK, At
  <2> QED
    BY <1>0, <1>b, <2>1, <2>2, NextPackageOK, FaultBudget, QuietOutcome
<1>rg. CASE Register(p) \/ RegisterTorn(p)
  <2>0. r.pc = "verify"
    BY <1>rg DEF Register, RegisterTorn, Registers
  <2>2. Busy(p) /\ r.pkg \in Entry /\ r.order # <<>>
    BY <1>0, <1>b, <2>0 DEF Stopped, WorkOK, At
  <2>1. PICK body \in Entry \cup {Empty} : Registers(p, body)
    BY <1>rg, <2>2, CutEntry DEF Register, RegisterTorn
  <2> DEFINE name == r.pkg.name
             o == Opened(r, "registered", name, "db", body)
  <2>3. name \in Package \cup {NoName}
    BY <2>2 DEF Entry
  <2>4. o \in Proc /\ WorkOK(o) /\ o.pc = "write"
    BY <1>0, <1>b, <2>1, <2>2, <2>3, OpenedOK DEF Handles, Nexts
  <2>6. /\ Become(p, o) /\ db' = [db EXCEPT ![name] = Empty]
        /\ UNCHANGED <<cache, fresh, archive, repo>>
    BY <2>1 DEF Registers
  <2>5. /\ db' \in [Package -> File] /\ cache' \in [Package -> File]
        /\ fresh' \in [Package -> File] /\ archive' \in [Package -> File]
    BY <1>0, <1>e, <2>6
  <2>7. Budgeted
    BY <1>0, <1>rg, CalmBudget, TornBudget DEF Register
  <2> HIDE DEF o
  <2> QED
    BY <1>0, <2>2, <2>4, <2>5, <2>6, <2>7, BecomeGoesOn, DiskOutcome
<1>rd. CASE Registered(p)
  <2>1. r.pc = "registered" /\ Become(p, NextPackage(r)) /\ UNCHANGED <<disk, repo, budget>>
    BY <1>rd DEF Registered
  <2>2. Busy(p) /\ r.order # <<>>
    BY <1>0, <1>b, <2>1 DEF Stopped, WorkOK, At
  <2> QED
    BY <1>0, <1>b, <2>1, <2>2, NextPackageOK, CalmBudget, QuietOutcome
<1>rj. CASE Reject(p)
  <2>1. /\ r.pc = "verify"
        /\ archive' = [archive EXCEPT ![r.cur] = NoFile]
        /\ Moved(p, NextPackage(r), r.cur, Unlinked("archive"))
        /\ UNCHANGED <<db, cache, fresh, repo, budget>>
    BY <1>rj DEF Reject
  <2>2. Busy(p) /\ r.order # <<>> /\ r.cur \in Package
    BY <1>0, <1>b, <2>1 DEF Stopped, WorkOK, At
  <2>3. NextPackage(r) \in Proc /\ WorkOK(NextPackage(r)) /\ NextPackage(r).pc = "each"
    BY <1>0, <1>b, <2>2, NextPackageOK
  <2>4. GoesOn(p, NextPackage(r))
    <3>1. \A h \in DOMAIN Unlinked("archive") : Unlinked("archive")[h] \in Handles
      BY DEF Unlinked, Handles
    <3> QED
      BY <1>0, <2>1, <2>2, <2>3, <3>1, MovedGoesOn
  <2>5. /\ db' \in [Package -> File] /\ cache' \in [Package -> File]
        /\ fresh' \in [Package -> File] /\ archive' \in [Package -> File]
    BY <1>0, <1>e, <2>1
  <2> QED
    BY <1>0, <2>1, <2>2, <2>3, <2>4, <2>5, CalmBudget, DiskOutcome
<1>in. CASE Installed(p)
  <2>1. r.pc = "each" /\ Become(p, EndName(r, 0)) /\ UNCHANGED <<disk, repo, budget>>
    BY <1>in DEF Installed
  <2>2. Busy(p)
    BY <1>b, <2>1 DEF Stopped
  <2> QED
    BY <1>0, <1>b, <2>1, <2>2, EndNameOK, CalmBudget, QuietOutcome
<1>rm. CASE RemoveStart(p)
  <2> DEFINE f == Found(r, {Root(p)})
             g == [f EXCEPT !.pc = "scan", !.left = Present]
  <2>1. /\ r.pc = "remove"
        /\ Become(p, IF IsInstalled(r, Root(p)) THEN g ELSE EndName(r, 1))
        /\ UNCHANGED <<disk, repo, budget>>
    BY <1>rm DEF RemoveStart
  <2>2. Busy(p)
    BY <1>b, <2>1 DEF Stopped
  <2>3. CASE Become(p, EndName(r, 1))
    BY <1>0, <1>b, <2>1, <2>2, <2>3, EndNameOK, CalmBudget, QuietOutcome
  <2>4. CASE Become(p, g)
    <3>1. f \in Proc /\ WorkOK(f) /\ f.pc = "remove" /\ f.names = r.names
      BY <1>0, <1>b, <1>n, <2>1, <2>2, FoundOK
    <3>2. g \in Proc
      BY <3>1 DEF Proc, PCs, Present
    <3>3. g.pc = "scan" /\ g.names = r.names /\ g.op = f.op /\ g.left = Present
      BY <3>1 DEF Proc
    <3>4. WorkOK(g)
      BY <3>1, <3>3 DEF WorkOK, At, Stopped
    <3>5. UNCHANGED <<db, cache, fresh, archive, repo>>
      BY <2>1 DEF disk
    <3>6. PICK s \in Proc : s = g
      BY <3>2
    <3>7. ScanOK(s)'
      <4>1. ASSUME NEW q \in Package, db[q] = NoFile
            PROVE  Range(Deps(db[q])) = {}
        BY <4>1 DEF Deps, Parses, Range
      <4>2. \A q \in Package : Head(s.names) \in Range(Deps(db[q])) => q \in s.left
        BY <3>3, <3>6, <4>1 DEF Present
      <4> QED
        BY <3>5, <4>2 DEF ScanOK, Deps, Parses
    <3>8. GoesOn(p, s)
      BY <1>0, <2>4, <3>6, BecomeGoesOn
    <3>9. Budgeted
      BY <1>0, <2>1, CalmBudget
    <3>10. Outcome(p, s)
      <4> HIDE DEF g
      <4> QED
        BY <1>0, <3>4, <3>5, <3>6, <3>7, <3>8, <3>9 DEF Outcome
    <3> QED
      BY <2>2, <3>10
  <2> QED
    BY <2>1, <2>3, <2>4
<1>sc. CASE Scan(p)
  <2>1. r.pc = "scan" /\ UNCHANGED <<disk, repo, budget>>
    BY <1>sc DEF Scan
  <2>2. Busy(p)
    BY <1>b, <2>1 DEF Stopped
  <2>3. PICK q \in r.left : Become(p, IF Root(p) \in Range(Deps(db[q]))
                                       THEN EndName(r, 1)
                                       ELSE [r EXCEPT !.left = @ \ {q}])
    BY <1>sc DEF Scan
  <2> DEFINE g == [r EXCEPT !.left = @ \ {q}]
  <2>4. CASE Become(p, EndName(r, 1))
    BY <1>0, <1>b, <2>1, <2>2, <2>4, EndNameOK, CalmBudget, QuietOutcome
  <2>5. CASE Root(p) \notin Range(Deps(db[q])) /\ Become(p, g)
    <3>2. g \in Proc
      BY <1>0 DEF Proc
    <3>3. g.pc = "scan" /\ g.names = r.names /\ g.op = r.op /\ g.left = r.left \ {q}
      BY <1>0, <2>1 DEF Proc
    <3>4. WorkOK(g)
      BY <1>0, <2>1, <3>3 DEF WorkOK, At, Stopped
    <3>5. UNCHANGED <<db, cache, fresh, archive, repo>>
      BY <2>1 DEF disk
    <3>6. PICK s \in Proc : s = g
      BY <3>2
    <3>7. Serial => ScanOK(s)'
      <4>1. Serial => \A x \in Package : Head(r.names) \in Range(Deps(db[x])) => x \in r.left
        BY <2>1 DEF IInv, ScanOK
      <4>2. Serial => \A x \in Package : Head(s.names) \in Range(Deps(db[x])) => x \in s.left
        BY <2>5, <3>3, <3>6, <4>1 DEF Root
      <4> QED
        BY <3>5, <4>2 DEF ScanOK, Deps, Parses
    <3>8. GoesOn(p, s)
      BY <1>0, <2>5, <3>6, BecomeGoesOn
    <3>9. Budgeted
      BY <1>0, <2>1, CalmBudget
    <3>10. Outcome(p, s)
      <4> HIDE DEF g
      <4> QED
        BY <1>0, <3>4, <3>5, <3>6, <3>7, <3>8, <3>9 DEF Outcome
    <3> QED
      BY <2>2, <3>10
  <2> QED
    BY <2>3, <2>4, <2>5
<1>un. CASE Unregister(p)
  <2>1. /\ r.pc = "scan"
        /\ db' = [db EXCEPT ![Root(p)] = NoFile]
        /\ Moved(p, EndName(r, 0), Root(p), Unlinked("db"))
        /\ UNCHANGED <<cache, fresh, archive, repo, budget>>
    BY <1>un DEF Unregister
  <2>2. Busy(p) /\ Root(p) \in Package
    BY <1>b, <1>n, <2>1 DEF Stopped
  <2>3. EndName(r, 0) \in Proc /\ WorkOK(EndName(r, 0)) /\ EndName(r, 0).pc # "scan"
    BY <1>0, <1>b, <2>2, EndNameOK
  <2>4. GoesOn(p, EndName(r, 0))
    <3>1. \A h \in DOMAIN Unlinked("db") : Unlinked("db")[h] \in Handles
      BY DEF Unlinked, Handles
    <3> QED
      BY <1>0, <2>1, <2>2, <2>3, <3>1, MovedGoesOn
  <2>5. /\ db' \in [Package -> File] /\ cache' \in [Package -> File]
        /\ fresh' \in [Package -> File] /\ archive' \in [Package -> File]
    BY <1>0, <1>e, <2>1
  <2> QED
    BY <1>0, <2>1, <2>2, <2>3, <2>4, <2>5, CalmBudget, DiskOutcome
<1>um. CASE UpdateMissing(p)
  <2>1. r.pc = "update" /\ Become(p, EndName(r, 1)) /\ UNCHANGED <<disk, repo, budget>>
    BY <1>um DEF UpdateMissing
  <2>2. Busy(p)
    BY <1>b, <2>1 DEF Stopped
  <2> QED
    BY <1>0, <1>b, <2>1, <2>2, EndNameOK, CalmBudget, QuietOutcome
<1>fu. CASE FetchUpdate(p)
  <2> DEFINE q == Root(p)
  <2>1. /\ r.pc = "update"
        /\ Downloads(p, "latest", "unreached", q, "fresh", Served(q), Cut(Served(q)))
        /\ fresh' = [fresh EXCEPT ![q] = Empty]
        /\ UNCHANGED <<db, cache, archive, repo>>
    BY <1>fu DEF FetchUpdate
  <2>2. Busy(p) /\ q \in Package
    BY <1>b, <1>n, <2>1 DEF Stopped
  <2>4. /\ Budgeted
        /\ \E s \in Proc : GoesOn(p, s) /\ WorkOK(s) /\ s.pc = "write"
    BY <1>0, <2>1, <2>2, ServedEntry, DownloadsOK DEF Handles
  <2>5. /\ db' \in [Package -> File] /\ cache' \in [Package -> File]
        /\ fresh' \in [Package -> File] /\ archive' \in [Package -> File]
    BY <1>0, <1>e, <2>1
  <2> QED
    BY <1>0, <2>1, <2>2, <2>4, <2>5, DiskOutcome
<1>ux. CASE UpdateFailed(p)
  <2>1. r.pc = "unreached" /\ Become(p, EndName(r, 1)) /\ UNCHANGED <<disk, repo, budget>>
    BY <1>ux DEF UpdateFailed
  <2>2. Busy(p)
    BY <1>b, <2>1 DEF Stopped
  <2> QED
    BY <1>0, <1>b, <2>1, <2>2, EndNameOK, CalmBudget, QuietOutcome
<1>uf. CASE FetchUpdateFails(p)
  <2>1. r.pc = "update" /\ Become(p, EndName(r, 1)) /\ UNCHANGED <<disk, repo>> /\ Fault
    BY <1>uf DEF FetchUpdateFails
  <2>2. Busy(p)
    BY <1>b, <2>1 DEF Stopped
  <2> QED
    BY <1>0, <1>b, <2>1, <2>2, EndNameOK, FaultBudget, QuietOutcome
<1>pu. CASE ParseUpdate(p)
  <2> DEFINE s == [r EXCEPT !.pc = "replace"]
  <2>1. r.pc = "latest" /\ Become(p, s) /\ UNCHANGED <<disk, repo, budget>>
    BY <1>pu DEF ParseUpdate
  <2>2. Busy(p)
    BY <1>b, <2>1 DEF Stopped
  <2>3. s \in Proc
    BY <1>0 DEF Proc, PCs
  <2>4. s.pc = "replace" /\ s.names = r.names /\ s.op = r.op
    BY <1>0 DEF Proc
  <2>5. WorkOK(s)
    BY <1>0, <2>1, <2>4 DEF WorkOK, At, Stopped
  <2> QED
    BY <1>0, <2>1, <2>2, <2>3, <2>4, <2>5, CalmBudget, QuietOutcome
<1>ru. CASE RejectUpdate(p)
  <2>1. /\ r.pc = "latest"
        /\ fresh' = [fresh EXCEPT ![Root(p)] = NoFile]
        /\ Moved(p, EndName(r, 1), Root(p), Unlinked("fresh"))
        /\ UNCHANGED <<db, cache, archive, repo, budget>>
    BY <1>ru DEF RejectUpdate
  <2>2. Busy(p) /\ Root(p) \in Package
    BY <1>b, <1>n, <2>1 DEF Stopped
  <2>3. EndName(r, 1) \in Proc /\ WorkOK(EndName(r, 1)) /\ EndName(r, 1).pc # "scan"
    BY <1>0, <1>b, <2>2, EndNameOK
  <2>4. GoesOn(p, EndName(r, 1))
    <3>1. \A h \in DOMAIN Unlinked("fresh") : Unlinked("fresh")[h] \in Handles
      BY DEF Unlinked, Handles
    <3> QED
      BY <1>0, <2>1, <2>2, <2>3, <3>1, MovedGoesOn
  <2>5. /\ db' \in [Package -> File] /\ cache' \in [Package -> File]
        /\ fresh' \in [Package -> File] /\ archive' \in [Package -> File]
    BY <1>0, <1>e, <2>1
  <2> QED
    BY <1>0, <2>1, <2>2, <2>3, <2>4, <2>5, CalmBudget, DiskOutcome
<1>rp. CASE Replace(p)
  <2>1. /\ r.pc = "replace"
        /\ db' = [db EXCEPT ![Root(p)] = fresh[Root(p)]]
        /\ fresh' = [fresh EXCEPT ![Root(p)] = NoFile]
        /\ Moved(p, EndName(r, 0), Root(p), Renamed)
        /\ UNCHANGED <<cache, archive, repo, budget>>
    BY <1>rp DEF Replace
  <2>2. Busy(p) /\ Root(p) \in Package
    BY <1>b, <1>n, <2>1 DEF Stopped
  <2>3. EndName(r, 0) \in Proc /\ WorkOK(EndName(r, 0)) /\ EndName(r, 0).pc # "scan"
    BY <1>0, <1>b, <2>2, EndNameOK
  <2>4. GoesOn(p, EndName(r, 0))
    <3>1. \A h \in DOMAIN Renamed : Renamed[h] \in Handles
      BY DEF Renamed, Handles
    <3> QED
      BY <1>0, <2>1, <2>2, <2>3, <3>1, MovedGoesOn
  <2>5. /\ db' \in [Package -> File] /\ cache' \in [Package -> File]
        /\ fresh' \in [Package -> File] /\ archive' \in [Package -> File]
    BY <1>0, <1>e, <2>1, <2>2
  <2> QED
    BY <1>0, <2>1, <2>2, <2>3, <2>4, <2>5, CalmBudget, DiskOutcome
<1>fr. CASE ReplaceFails(p)
  <2>1. r.pc = "replace" /\ Become(p, EndName(r, 0)) /\ UNCHANGED <<disk, repo, budget>>
    BY <1>fr DEF ReplaceFails
  <2>2. Busy(p)
    BY <1>b, <2>1 DEF Stopped
  <2> QED
    BY <1>0, <1>b, <2>1, <2>2, EndNameOK, CalmBudget, QuietOutcome
<1> QED
  BY <1>w, <1>ll, <1>ld, <1>lp, <1>lf, <1>rf, <1>rs, <1>si, <1>fm, <1>ff, <1>pm, <1>fa, <1>fs,
     <1>rg, <1>rd, <1>rj, <1>in, <1>rm, <1>sc, <1>un, <1>um, <1>fu, <1>uf, <1>pu, <1>ru, <1>rp,
     <1>fr, <1>lu, <1>af, <1>rx, <1>ux DEF Step

(* The outcome of a step keeps the invariant. *)
LEMMA OutcomeInv ==
    ASSUME IInv, NEW p \in Process, Busy(p), NEW r \in Proc, Outcome(p, r)
    PROVE  IInv'
<1>1. TypeOK'
  BY DEF IInv, TypeOK, Outcome, GoesOn, Budgeted
<1>2. ASSUME NEW x \in Process \ {p}
      PROVE  /\ proc'[x].pc = proc[x].pc
             /\ proc'[x].names = proc[x].names
             /\ proc'[x].left = proc[x].left
             /\ WorkOK(proc'[x])
  <2>1. PICK h \in Handles : proc'[x] = [proc[x] EXCEPT !.handle = h]
    BY DEF Outcome, GoesOn
  <2>2. proc[x] \in Proc /\ WorkOK(proc[x])
    BY DEF IInv, TypeOK
  <2>3. /\ proc'[x].pc = proc[x].pc /\ proc'[x].names = proc[x].names /\ proc'[x].op = proc[x].op
        /\ proc'[x].next = proc[x].next /\ proc'[x].body = proc[x].body
        /\ proc'[x].cur = proc[x].cur /\ proc'[x].pkg = proc[x].pkg
        /\ proc'[x].order = proc[x].order /\ proc'[x].left = proc[x].left
    BY <2>1, <2>2 DEF Proc
  <2> QED
    BY <2>2, <2>3 DEF WorkOK, At
<1>3. proc'[p] = r /\ WorkOK(r)
  BY DEF Outcome, GoesOn
<1>4. \A x \in Process : WorkOK(proc'[x])
  BY <1>2, <1>3
<1>5. Serial => \A x \in Process \ {p} : proc'[x].pc \in Stopped
  BY <1>2 DEF IInv, OneAtATime, Busy
<1>6. Serial => OneAtATime'
  BY <1>5 DEF OneAtATime, Busy
<1>7. Serial => \A x \in Process : proc'[x].pc = "scan" => ScanOK(r)' /\ x = p
  BY <1>3, <1>5 DEF Outcome, Stopped
<1>8. Serial => (\A x \in Process : proc[x].pc = "scan" => ScanOK(proc[x]))'
  BY <1>3, <1>7 DEF ScanOK
<1>9. (\A x \in Process : WorkOK(proc[x]))'
  BY <1>4 DEF WorkOK, At
<1> QED
  BY <1>1, <1>6, <1>8, <1>9 DEF IInv

LEMMA InitInv == Init => IInv
<1> SUFFICES ASSUME Init PROVE IInv
  OBVIOUS
<1>1. Idle \in Proc
  BY EmptySeq DEF Idle, Proc, NotRead, PCs, Stopped, Handles, File
<1>2. TypeOK
  <2>1. \A q \in Package : 1 \in DOMAIN Manifests[q]
    BY BotPkgAssumption
  <2> QED
    BY <1>1, <2>1, BotPkgAssumption DEF Init, TypeOK, File
<1>3. \A p \in Process : proc[p] = Idle /\ proc[p].pc = "idle"
  BY <1>1 DEF Init, Idle
<1>4. \A p \in Process : WorkOK(proc[p])
  BY <1>3 DEF WorkOK, At, Stopped
<1> QED
  BY <1>2, <1>3, <1>4 DEF IInv, OneAtATime, Busy, Stopped

(* The steps that are not taken by a running process. *)
LEMMA LaunchInv ==
    ASSUME IInv, NEW p \in Process, Launch(p)
    PROVE  IInv'
<1>1. PICK c \in Commands :
          Become(p, [Idle EXCEPT !.pc = c.op, !.op = c.op, !.names = c.names])
  BY DEF Launch
<1> DEFINE s == [Idle EXCEPT !.pc = c.op, !.op = c.op, !.names = c.names]
<1>2. /\ c.op \in {"install", "remove", "update"}
      /\ c.names \in Seq(Package) /\ c.names # <<>>
  BY BotPkgAssumption
<1>3. Idle \in Proc
  BY EmptySeq DEF Idle, Proc, NotRead, PCs, Stopped, Handles, File
<1>4. s \in Proc
  BY <1>2, <1>3 DEF Proc, PCs
<1>5. s.pc = c.op /\ s.op = c.op /\ s.names = c.names
  BY <1>3 DEF Proc
<1>6. WorkOK(s)
  BY <1>2, <1>5 DEF WorkOK, At
<1> HIDE DEF s
<1>7. /\ UNCHANGED <<db, cache, fresh, archive, repo, faults, torn, crashes, published>>
      /\ proc' = [proc EXCEPT ![p] = s]
  BY <1>1 DEF Launch, Become, disk, budget, s
<1>8. TypeOK'
  BY <1>4, <1>7 DEF IInv, TypeOK
<1>9. \A x \in Process : proc'[x] = IF x = p THEN s ELSE proc[x]
  BY <1>7 DEF IInv, TypeOK
<1>10. (\A x \in Process : WorkOK(proc[x]))'
  BY <1>6, <1>9 DEF IInv, WorkOK, At
<1>11. Serial => OneAtATime'
  BY <1>9 DEF Launch, OneAtATime, Busy
<1>12. Serial => \A x \in Process : proc'[x].pc # "scan"
  BY <1>2, <1>5, <1>9 DEF Launch, Busy, Stopped
<1> QED
  BY <1>8, <1>10, <1>11, <1>12 DEF IInv

LEMMA CrashInv ==
    ASSUME IInv, NEW p \in Process, Crash(p)
    PROVE  IInv'
<1> DEFINE s == [Idle EXCEPT !.pc = "crashed"]
<1>1. Idle \in Proc
  BY EmptySeq DEF Idle, Proc, NotRead, PCs, Stopped, Handles, File
<1>2. s \in Proc /\ s.pc = "crashed"
  BY <1>1 DEF Proc, PCs, Stopped
<1>3. WorkOK(s)
  BY <1>2 DEF WorkOK, At, Stopped
<1> HIDE DEF s
<1>4. /\ UNCHANGED <<db, cache, fresh, archive, repo, faults, torn, published>>
      /\ proc' = [proc EXCEPT ![p] = s]
      /\ crashes' \in 0 .. MaxCrashes
  BY BotPkgAssumption DEF IInv, TypeOK, Crash, Become, disk, s
<1>5. TypeOK'
  BY <1>2, <1>4 DEF IInv, TypeOK
<1>6. \A x \in Process : proc'[x] = IF x = p THEN s ELSE proc[x]
  BY <1>4 DEF IInv, TypeOK
<1>7. (\A x \in Process : WorkOK(proc[x]))'
  BY <1>3, <1>6 DEF IInv, WorkOK, At
<1>8. Serial => OneAtATime'
  BY <1>2, <1>6 DEF IInv, OneAtATime, Busy, Stopped
<1>9. Serial => (\A x \in Process : proc[x].pc = "scan" => ScanOK(proc[x]))'
  BY <1>2, <1>4, <1>6 DEF IInv, ScanOK, Deps, Parses
<1> QED
  BY <1>5, <1>7, <1>8, <1>9 DEF IInv

LEMMA PublishInv ==
    ASSUME IInv, Publish
    PROVE  IInv'
<1>0. PICK q \in Package : \E v \in DOMAIN Manifests[q] : repo' = [repo EXCEPT ![q] = v]
  BY DEF Publish
<1>1. PICK v \in DOMAIN Manifests[q] : repo' = [repo EXCEPT ![q] = v]
  BY <1>0
<1>2. /\ UNCHANGED <<db, cache, fresh, archive, proc, faults, torn, crashes>>
      /\ published' \in 0 .. MaxPublish
  BY BotPkgAssumption DEF IInv, TypeOK, Publish, disk
<1>3. v \in Nat
  <2>1. Manifests[q] \in Seq(Entry)
    BY BotPkgAssumption
  <2> QED
    BY <2>1, <1>1
<1>4. TypeOK'
  BY <1>1, <1>2, <1>3 DEF IInv, TypeOK
<1> QED
  BY <1>2, <1>4 DEF IInv, WorkOK, At, OneAtATime, Busy, ScanOK, Deps, Parses

LEMMA StutterInv == IInv /\ UNCHANGED vars => IInv'
BY DEF IInv, TypeOK, WorkOK, At, OneAtATime, Busy, ScanOK, Deps, Parses, vars, disk, budget

LEMMA NextInv == IInv /\ [Next]_vars => IInv'
<1> SUFFICES ASSUME IInv, [Next]_vars PROVE IInv'
  OBVIOUS
<1>1. ASSUME NEW p \in Process, Launch(p) PROVE IInv'
  BY <1>1, LaunchInv
<1>2. ASSUME NEW p \in Process, Step(p) PROVE IInv'
  BY <1>2, StepOutcome, OutcomeInv
<1>3. ASSUME NEW p \in Process, Crash(p) PROVE IInv'
  BY <1>3, CrashInv
<1>4. CASE Publish
  BY <1>4, PublishInv
<1>5. CASE AllEnded
  BY <1>5, StutterInv DEF AllEnded
<1>6. CASE UNCHANGED vars
  BY <1>6, StutterInv
<1> QED
  BY <1>1, <1>2, <1>3, <1>4, <1>5, <1>6 DEF Next

(* The invariant of the package manager: what a command has at hand at     *)
(* each point of its code, and, when commands do not overlap, that a       *)
(* dependent of the package being removed is still in the part of the      *)
(* database that db_find_reverse_dep has not read.                         *)
THEOREM Invariant == Spec => []IInv
<1> QED
  BY InitInv, NextInv, PTL DEF Spec

(* Files and processes keep their types, whatever overlaps, fails, is      *)
(* killed or is published: no point of the install, remove and update code *)
(* uses a name, manifest or list that is not there.                        *)
THEOREM TypeCorrect == Spec => []TypeOK
<1>1. IInv => TypeOK
  BY DEF IInv
<1> QED
  BY <1>1, Invariant, PTL

(* A file of the database goes only by Unregister. *)
LEMMA GoesByUnregister ==
    ASSUME IInv, [Next]_vars, NEW q \in Package, db[q] # NoFile, db'[q] = NoFile
    PROVE  \E p \in Process : Unregister(p) /\ q = Root(p)
<1>1. db' # db
  OBVIOUS
<1>2. PICK p \in Process : Step(p)
  BY <1>1 DEF Next, Launch, Crash, Publish, AllEnded, vars, disk
<1>3. TypeOK /\ WorkOK(proc[p]) /\ proc[p] \in Proc /\ NoFile # Empty
  BY BotPkgAssumption DEF IInv, TypeOK
<1>4. CASE Write(p)
  <2>1. proc[p].body \in Entry \cup {Empty} /\ db[q] \in File
    BY <1>3, <1>4, WriteTypes DEF TypeOK
  <2>2. PICK file \in Over(db[proc[p].cur], proc[p].body) : db' = [db EXCEPT ![proc[p].cur] = file]
    BY <1>1, <1>4, WriteForm
  <2>3. proc[p].cur = q => file # NoFile
    BY <2>1, <2>2, OverFile, BotPkgAssumption
  <2> QED
    BY <1>3, <2>2, <2>3 DEF TypeOK
<1>5. CASE Register(p) \/ RegisterTorn(p)
  BY <1>3, <1>5 DEF Register, RegisterTorn, Registers, TypeOK
<1>6. CASE Unregister(p)
  BY <1>2, <1>3, <1>6 DEF Unregister, TypeOK
<1>7. CASE Replace(p)
  BY <1>3, <1>7 DEF Replace, TypeOK
<1> QED
  BY <1>1, <1>2, <1>4, <1>5, <1>6, <1>7
     DEF Step, LoadLocal, LoadDownload, LoadParse, LoadFailed, LoadLeaf, ResolveFails, Resolved,
         SkipInstalled, FetchManifest, FetchManifestFails, ParseManifest, FetchArchive,
         ArchiveFailed, FetchArchiveFails, RegisterFails, Registered, Reject, Installed, RemoveStart, Scan, UpdateMissing,
         FetchUpdate, UpdateFailed, FetchUpdateFails, ParseUpdate, RejectUpdate, ReplaceFails, disk

(* botpkg remove takes no package away that another installed one needs,   *)
(* for any repository and any sequence of commands that do not overlap,    *)
(* with failed downloads, killed commands and new versions at any point    *)
(* (botpkg.c:377-392).                                                     *)
THEOREM RemovalsAreSafe == ASSUME Serial PROVE Spec => RemoveSafe
<1>1. ASSUME IInv, [Next]_vars, NEW q \in Package, db[q] # NoFile, db'[q] = NoFile,
             NEW x \in Package
      PROVE  q \notin Range(Deps(db[x]))
  <2>1. PICK p \in Process : Unregister(p) /\ q = Root(p)
    BY <1>1, GoesByUnregister
  <2>2. ScanOK(proc[p]) /\ proc[p].left = {}
    BY <1>1, <2>1 DEF IInv, Unregister
  <2> QED
    BY <2>1, <2>2 DEF ScanOK, Root
<1>2. IInv /\ [Next]_vars =>
          [\A q \in Package :
              db[q] # NoFile /\ db'[q] = NoFile =>
                  \A x \in Package : q \notin Range(Deps(db[x]))]_db
  BY <1>1
<1>3. Spec => []IInv
  BY Invariant
<1> QED
  BY <1>2, <1>3, PTL DEF Spec, RemoveSafe

(***************************************************************************)
(* What the steps make of a process.                                       *)
(***************************************************************************)

LEMMA IdleFields ==
    /\ Idle \in Proc
    /\ Idle.pc = "idle" /\ Idle.op = "none" /\ Idle.names = <<>> /\ Idle.mem = {}
    /\ Idle.view = NotRead /\ Idle.order = <<>> /\ Idle.pkg = NoFile /\ Idle.cur = NoName
    /\ Idle.body = NoFile /\ Idle.handle = "none" /\ Idle.next = "none" /\ Idle.ret = 0
<1>1. Idle \in Proc
  BY EmptySeq DEF Idle, Proc, NotRead, PCs, Stopped, Handles, File
<1> QED
  BY <1>1 DEF Idle

LEMMA EndNameFields ==
    ASSUME NEW r \in Proc, NEW rc \in {0, 1}
    PROVE  LET e == EndName(r, rc)
           IN  /\ e.pc = IF Tail(r.names) = <<>> THEN "done" ELSE r.op
               /\ e.op = r.op /\ e.names = Tail(r.names) /\ e.mem = r.mem
               /\ e.ret = IF rc # 0 THEN rc ELSE r.ret
               /\ e.view = NotRead /\ e.order = <<>> /\ e.pkg = NoFile /\ e.cur = NoName
               /\ e.body = NoFile /\ e.handle = "none" /\ e.next = "none"
BY IdleFields DEF EndName, Proc

LEMMA NextPackageFields ==
    ASSUME NEW r \in Proc
    PROVE  LET n == NextPackage(r)
           IN  /\ n.pc = "each" /\ n.order = Tail(r.order) /\ n.cur = NoName
               /\ n.op = r.op /\ n.names = r.names /\ n.mem = r.mem /\ n.view = r.view
               /\ n.ret = r.ret /\ n.handle = r.handle /\ n.next = r.next /\ n.body = r.body
BY DEF NextPackage, Proc

LEMMA FoundFields ==
    ASSUME NEW r \in Proc, NEW Q
    PROVE  LET f == Found(r, Q)
           IN  /\ f.pc = r.pc /\ f.op = r.op /\ f.names = r.names /\ f.ret = r.ret
               /\ f.mem = r.mem \cup (Q \cap Present) /\ f.view = r.view /\ f.order = r.order
               /\ f.pkg = r.pkg /\ f.cur = r.cur /\ f.body = r.body /\ f.handle = r.handle
               /\ f.next = r.next /\ f.left = r.left
BY DEF Found, Proc

LEMMA OpenedFields ==
    ASSUME NEW r \in Proc, NEW next, NEW q, NEW where, NEW body
    PROVE  LET o == Opened(r, next, q, where, body)
           IN  /\ o.pc = "write" /\ o.next = next /\ o.cur = q /\ o.handle = where
               /\ o.body = body /\ o.op = r.op /\ o.names = r.names /\ o.mem = r.mem
               /\ o.view = r.view /\ o.order = r.order /\ o.pkg = r.pkg /\ o.ret = r.ret
BY DEF Opened, Proc

LEMMA ReadFields ==
    ASSUME NEW r \in Proc, NEW q \in Package, NEW deps
    PROVE  LET d == Read(r, q, deps)
           IN  /\ d.pc = r.pc /\ d.op = r.op /\ d.names = r.names /\ d.mem = r.mem
               /\ \A x \in Package : d.view[x] = IF x = q THEN deps ELSE r.view[x]
               /\ d.order = r.order /\ d.handle = r.handle
               /\ d.next = r.next /\ d.body = r.body /\ d.pkg = r.pkg /\ d.cur = NoName
BY DEF Read, Proc

(* A running process that does not write has no file open. *)
LEMMA NoneOpen ==
    ASSUME ListInv, NEW p \in Process, proc[p].pc # "write"
    PROVE  proc[p].handle = "none"
BY DEF ListInv, ListOK

(* Commands that do not overlap: the others have ended or wait. *)
LEMMA OthersStopped ==
    ASSUME IInv, Serial, NEW p \in Process, Busy(p), NEW x \in Process, x # p
    PROVE  proc[x].pc \in Stopped
BY DEF IInv, OneAtATime, Busy

LEMMA StepBusy ==
    ASSUME IInv, NEW p \in Process, Step(p)
    PROVE  Busy(p) /\ TypeOK /\ WorkOK(proc[p]) /\ proc[p] \in Proc /\ crashes' = crashes
           /\ repo' = repo /\ published' = published
           /\ (faults' = 0 => faults = 0) /\ (torn' = 0 => torn = 0)
           /\ Root(p) \in Package /\ proc[p].names \in Seq(Package) /\ proc[p].names # <<>>
<1>1. Busy(p) /\ \E r \in Proc : Outcome(p, r)
  BY StepOutcome
<1>2. TypeOK /\ WorkOK(proc[p]) /\ proc[p] \in Proc
  BY DEF IInv, TypeOK
<1>3. proc[p].names \in Seq(Package) /\ proc[p].names # <<>>
  BY <1>1, <1>2 DEF WorkOK, Busy, Proc
<1> QED
  BY <1>1, <1>2, <1>3 DEF Outcome, Root, Budgeted

(* A download that does not fail writes what the repository serves. *)
LEMMA DownloadsForm ==
    ASSUME TypeOK, NEW p \in Process, NEW next, NEW failed, NEW q \in Package, NEW where,
           NEW whole, NEW cut,
           Downloads(p, next, failed, q, where, whole, cut)
    PROVE  \E body \in {whole} \cup cut, after \in {next, failed} :
              /\ Become(p, Opened(proc[p], after, q, where, body))
              /\ (body = whole /\ after = next) \/ (faults' # 0 /\ MaxFaults # 0)
              /\ faults' = 0 => faults = 0
<1>1. CASE Become(p, Opened(proc[p], next, q, where, whole)) /\ UNCHANGED budget
  BY <1>1 DEF budget
<1>2. CASE /\ \E body \in cut, after \in {next, failed} :
                 Become(p, Opened(proc[p], after, q, where, body))
           /\ Fault
  <2>1. faults' # 0 /\ MaxFaults # 0
    BY <1>2, FaultBudget
  <2> QED
    BY <1>2, <2>1
<1> QED
  BY <1>1, <1>2 DEF Downloads

(* The steps that touch no file and leave the process between two pieces   *)
(* of work.                                                                *)
PlainStep(p) ==
    \/ LoadLocal(p) \/ LoadParse(p) \/ LoadFailed(p) \/ LoadLeaf(p) \/ ResolveFails(p) \/ Resolved(p)
    \/ SkipInstalled(p) \/ ArchiveFailed(p) \/ FetchArchiveFails(p) \/ RegisterFails(p)
    \/ Registered(p) \/ Installed(p) \/ RemoveStart(p) \/ Scan(p)
    \/ UpdateMissing(p) \/ UpdateFailed(p) \/ FetchUpdateFails(p) \/ ReplaceFails(p)

PlainPC == {"done", "install", "each", "remove", "scan", "update"}

LEMMA PlainForm ==
    ASSUME IInv, NEW p \in Process, PlainStep(p)
    PROVE  /\ \E r \in Proc : /\ Become(p, r)
                              /\ r.pc \in PlainPC
                              /\ r.handle \in {"none", proc[p].handle}
           /\ proc[p].pc # "write"
           /\ UNCHANGED disk
           /\ faults' = 0 => faults = 0
<1> DEFINE r == proc[p]
<1>0. Busy(p) /\ TypeOK /\ WorkOK(r) /\ r \in Proc
  BY StepBusy DEF PlainStep, Step
<1>b. r.op \in {"install", "remove", "update"} /\ r.pc \notin Stopped
  BY <1>0 DEF Busy, WorkOK, Proc
<1>c. faults' = 0 => faults = 0
  BY StepBusy DEF PlainStep, Step
<1>1. UNCHANGED disk /\ (faults' = 0 => faults = 0) /\ r.pc # "write"
  BY <1>c DEF PlainStep, LoadLocal, LoadParse, LoadFailed, LoadLeaf, ResolveFails, Resolved,
     SkipInstalled, ArchiveFailed, FetchArchiveFails, RegisterFails, Registered, Installed,
     RemoveStart, Scan, UpdateMissing, UpdateFailed, FetchUpdateFails, ReplaceFails
<1>2. proc' \in [Process -> Proc]
  BY StepOutcome DEF PlainStep, Step, Outcome, GoesOn
<1>3. \A s : Become(p, s) => s = proc'[p] /\ s \in Proc
  BY <1>0, <1>2 DEF Become, TypeOK
<1>e. ASSUME NEW f \in Proc, f.op = r.op, NEW rc \in {0, 1}
      PROVE  EndName(f, rc).pc \in PlainPC /\ EndName(f, rc).handle = "none"
  BY <1>b, <1>e, EndNameFields DEF PlainPC
<1>f. ASSUME NEW Q
      PROVE  /\ Found(r, Q).op = r.op /\ Found(r, Q).handle = r.handle /\ Found(r, Q).pc = r.pc
             /\ Q \subseteq Package => Found(r, Q) \in Proc
  BY <1>0, FoundFields, FoundOK
<1>ll. CASE LoadLocal(p)
  <2>1. PICK q \in Package : Become(p, Read(r, q, IF Parses(db[q]) THEN Deps(db[q]) ELSE Deps(cache[q])))
    BY <1>ll DEF LoadLocal, Unread
  <2> DEFINE s == Read(r, q, IF Parses(db[q]) THEN Deps(db[q]) ELSE Deps(cache[q]))
  <2>2. s.pc = "install" /\ s.handle = r.handle
    BY <1>0, <1>ll, ReadFields DEF LoadLocal
  <2> HIDE DEF s
  <2> QED
    BY <1>1, <1>3, <2>1, <2>2 DEF PlainPC, s
<1>lp. CASE LoadParse(p)
  <2> DEFINE i == [r EXCEPT !.pc = "install"]
  <2>1. i \in Proc /\ i.pc = "install" /\ i.handle = r.handle /\ i.cur = r.cur /\ r.cur \in Package
    BY <1>0, <1>lp DEF LoadParse, Proc, PCs, WorkOK, At
  <2>2. Become(p, Read(i, i.cur, Deps(cache[i.cur])))
    BY <1>lp DEF LoadParse
  <2> HIDE DEF i
  <2> DEFINE s == Read(i, i.cur, Deps(cache[i.cur]))
  <2>3. s.pc = "install" /\ s.handle = r.handle
    BY <2>1, ReadFields
  <2> HIDE DEF s
  <2> QED
    BY <1>1, <1>3, <2>2, <2>3 DEF PlainPC, s
<1>lu. CASE LoadFailed(p)
  <2> DEFINE i == [r EXCEPT !.pc = "install"]
  <2>1. i \in Proc /\ i.pc = "install" /\ i.handle = r.handle /\ i.cur = r.cur /\ r.cur \in Package
    BY <1>0, <1>lu DEF LoadFailed, Proc, PCs, WorkOK, At
  <2>2. Become(p, Read(i, i.cur, <<>>))
    BY <1>lu DEF LoadFailed
  <2> HIDE DEF i
  <2> DEFINE s == Read(i, i.cur, <<>>)
  <2>3. s.pc = "install" /\ s.handle = r.handle
    BY <2>1, ReadFields
  <2> HIDE DEF s
  <2> QED
    BY <1>1, <1>3, <2>2, <2>3 DEF PlainPC, s
<1>lf. CASE LoadLeaf(p)
  <2>1. PICK q \in Package : Become(p, Read(r, q, <<>>))
    BY <1>lf DEF LoadLeaf, Unread
  <2> DEFINE s == Read(r, q, <<>>)
  <2>2. s.pc = "install" /\ s.handle = r.handle
    BY <1>0, <1>lf, ReadFields DEF LoadLeaf
  <2> HIDE DEF s
  <2> QED
    BY <1>1, <1>3, <2>1, <2>2 DEF PlainPC, s
<1>rf. CASE ResolveFails(p)
  BY <1>0, <1>1, <1>3, <1>e, <1>rf DEF ResolveFails
<1>rs. CASE Resolved(p)
  <2>1. PICK order \in Orders :
            LET f == Found(r, Range(order))
            IN  Become(p, IF Range(order) \subseteq f.mem
                            THEN EndName(f, 0)
                            ELSE [f EXCEPT !.pc = "each", !.order = order, !.view = NotRead])
    BY <1>rs DEF Resolved
  <2> DEFINE f == Found(r, Range(order))
             g == [f EXCEPT !.pc = "each", !.order = order, !.view = NotRead]
  <2>2. f \in Proc /\ f.op = r.op /\ f.handle = r.handle
    <3>1. PICK n \in 1 .. Cardinality(Package) : order \in [1 .. n -> Package]
      BY DEF Orders
    <3>2. Range(order) \subseteq Package
      BY <3>1 DEF Range
    <3> QED
      BY <1>f, <3>2
  <2>3. g.pc = "each" /\ g.handle = r.handle
    BY <2>2 DEF Proc
  <2>4. EndName(f, 0).pc \in PlainPC /\ EndName(f, 0).handle = "none"
    BY <1>e, <2>2
  <2>5. Become(p, EndName(f, 0)) \/ Become(p, g)
    BY <2>1
  <2> HIDE DEF f, g
  <2> QED
    BY <1>1, <1>3, <2>3, <2>4, <2>5 DEF PlainPC
<1>si. CASE SkipInstalled(p)
  <2> DEFINE f == Found(r, {Head(r.order)})
  <2>1. Become(p, NextPackage(f)) /\ Head(r.order) \in Package
    BY <1>0, <1>si DEF SkipInstalled, Proc
  <2>2. f \in Proc /\ f.handle = r.handle
    BY <1>f, <2>1
  <2> QED
    BY <1>1, <1>3, <2>1, <2>2, NextPackageFields DEF PlainPC
<1>fs. CASE ArchiveFailed(p) \/ FetchArchiveFails(p) \/ RegisterFails(p)
  BY <1>0, <1>1, <1>3, <1>fs, NextPackageFields
     DEF ArchiveFailed, FetchArchiveFails, RegisterFails, PlainPC
<1>rd. CASE Registered(p)
  BY <1>0, <1>1, <1>3, <1>rd, NextPackageFields DEF Registered, PlainPC
<1>in. CASE Installed(p)
  BY <1>0, <1>1, <1>3, <1>e, <1>in DEF Installed
<1>rm. CASE RemoveStart(p)
  <2> DEFINE f == Found(r, {Root(p)})
             g == [f EXCEPT !.pc = "scan", !.left = Present]
  <2>1. f \in Proc /\ f.handle = r.handle
    BY <1>f, StepBusy DEF PlainStep, Step
  <2>2. g.pc = "scan" /\ g.handle = r.handle
    BY <2>1 DEF Proc
  <2>3. Become(p, g) \/ Become(p, EndName(r, 1))
    BY <1>rm DEF RemoveStart
  <2>4. EndName(r, 1).pc \in PlainPC /\ EndName(r, 1).handle = "none"
    BY <1>0, <1>e
  <2> HIDE DEF g
  <2> QED
    BY <1>1, <1>3, <2>2, <2>3, <2>4 DEF PlainPC
<1>sc. CASE Scan(p)
  <2>1. PICK q \in r.left : Become(p, EndName(r, 1)) \/ Become(p, [r EXCEPT !.left = @ \ {q}])
    BY <1>sc DEF Scan
  <2> DEFINE g == [r EXCEPT !.left = @ \ {q}]
  <2>2. g.pc = "scan" /\ g.handle = r.handle
    BY <1>0, <1>sc DEF Proc, Scan
  <2>4. EndName(r, 1).pc \in PlainPC /\ EndName(r, 1).handle = "none"
    BY <1>0, <1>e
  <2> HIDE DEF g
  <2>5. Become(p, EndName(r, 1)) \/ Become(p, g)
    BY <2>1 DEF g
  <2> QED
    BY <1>1, <1>3, <2>2, <2>4, <2>5 DEF PlainPC
<1>um. CASE UpdateMissing(p)
  BY <1>0, <1>1, <1>3, <1>e, <1>um DEF UpdateMissing
<1>uf. CASE UpdateFailed(p) \/ FetchUpdateFails(p)
  BY <1>0, <1>1, <1>3, <1>e, <1>uf DEF UpdateFailed, FetchUpdateFails
<1>fr. CASE ReplaceFails(p)
  BY <1>0, <1>1, <1>3, <1>e, <1>fr DEF ReplaceFails
<1> QED
  BY <1>ll, <1>lp, <1>lf, <1>rf, <1>rs, <1>si, <1>fs, <1>rd, <1>in, <1>rm, <1>sc, <1>um, <1>uf,
     <1>fr, <1>lu DEF PlainStep

(* When commands do not overlap, no other process has a file open. *)
LEMMA SerialMoved ==
    ASSUME IInv, ListInv, Serial, NEW p \in Process, Busy(p), NEW r \in Proc, NEW q, NEW where,
           "none" \notin DOMAIN where, Moved(p, r, q, where)
    PROVE  Become(p, r)
<1>1. \A x \in Process : x # p => proc[x].handle = "none"
  BY OthersStopped DEF ListInv, ListOK, Stopped
<1>2. proc \in [Process -> Proc]
  BY DEF IInv, TypeOK
<1>3. \A x \in Process : proc'[x] = IF x = p THEN r ELSE proc[x]
  BY <1>1 DEF Moved
<1>4. proc' = [x \in Process |-> IF x = p THEN r ELSE proc[x]]
  BY <1>3 DEF Moved
<1> QED
  BY <1>2, <1>4 DEF Become

(***************************************************************************)
(* What is in the database can be read.                                    *)
(***************************************************************************)

LEMMA OthersListOK ==
    ASSUME IInv, ListInv, NEW p \in Process, Busy(p), NEW x \in Process, x # p,
           proc'[x] = proc[x], torn' = 0 => torn = 0
    PROVE  ListOK(proc[x])'
<1>1. ListOK(proc[x])
  BY DEF ListInv
<1>2. Serial => proc[x].pc # "replace"
  BY OthersStopped DEF Stopped
<1> QED
  BY <1>1, <1>2 DEF ListOK

(* A step that leaves the files as they are. *)
LEMMA ListNoFiles ==
    ASSUME IInv, ListInv, NEW p \in Process, Busy(p), NEW r \in Proc, Become(p, r),
           UNCHANGED disk, crashes' = crashes, torn' = 0 => torn = 0,
           proc[p].handle = "none", ListOK(r)'
    PROVE  ListInv'
<1>1. \A x \in Process : proc'[x] = IF x = p THEN r ELSE proc[x]
  BY DEF Become, IInv, TypeOK
<1>2. (\A x \in Process : ListOK(proc[x]))'
  <2>1. ListOK(proc[p])'
    BY <1>1 DEF ListOK
  <2>2. \A x \in Process : x # p => ListOK(proc[x])'
    BY <1>1, OthersListOK
  <2> QED
    BY <1>1, <2>1, <2>2
<1>3. \A where \in {"db", "fresh"} : \A q : Writes(where, q) => Writes(where, q)'
  BY <1>1 DEF Writes
<1>4. BeingWritten(db, "db") => BeingWritten(db, "db")'
  BY <1>3 DEF BeingWritten, disk
<1>5. BeingWritten(fresh, "fresh") => BeingWritten(fresh, "fresh")'
  BY <1>3 DEF BeingWritten, disk
<1> QED
  BY <1>2, <1>4, <1>5 DEF ListInv

(* A file is opened and emptied. *)
LEMMA ListOpened ==
    ASSUME IInv, ListInv, NEW p \in Process, Busy(p), NEW r \in Proc, Become(p, r),
           crashes' = crashes, torn' = 0 => torn = 0, proc[p].handle = "none", ListOK(r)',
           \/ UNCHANGED <<db, fresh>>
           \/ db' = [db EXCEPT ![r.cur] = Empty] /\ fresh' = fresh /\ r.handle = "db"
           \/ fresh' = [fresh EXCEPT ![r.cur] = Empty] /\ db' = db /\ r.handle = "fresh"
    PROVE  ListInv'
<1>1. \A x \in Process : proc'[x] = IF x = p THEN r ELSE proc[x]
  BY DEF Become, IInv, TypeOK
<1>2. (\A x \in Process : ListOK(proc[x]))'
  <2>1. ListOK(proc[p])'
    BY <1>1 DEF ListOK
  <2>2. \A x \in Process : x # p => ListOK(proc[x])'
    BY <1>1, OthersListOK
  <2> QED
    BY <1>1, <2>1, <2>2
<1>3. \A where \in {"db", "fresh"} : \A q : Writes(where, q) => Writes(where, q)'
  BY <1>1 DEF Writes
<1>4. Writes(r.handle, r.cur)'
  BY <1>1 DEF Writes
<1>5. BeingWritten(db, "db") => BeingWritten(db, "db")'
  BY <1>3, <1>4 DEF BeingWritten, IInv, TypeOK
<1>6. BeingWritten(fresh, "fresh") => BeingWritten(fresh, "fresh")'
  BY <1>3, <1>4 DEF BeingWritten, IInv, TypeOK
<1> QED
  BY <1>2, <1>5, <1>6 DEF ListInv

LEMMA ListPlain ==
    ASSUME IInv, ListInv, NEW p \in Process, PlainStep(p)
    PROVE  ListInv'
<1>1. Busy(p) /\ crashes' = crashes /\ (torn' = 0 => torn = 0)
  BY StepBusy DEF PlainStep, Step
<1>2. PICK r \in Proc : Become(p, r) /\ r.pc \in PlainPC /\ r.handle \in {"none", proc[p].handle}
  BY PlainForm
<1>3. UNCHANGED disk /\ proc[p].pc # "write"
  BY PlainForm
<1>4. proc[p].handle = "none"
  BY <1>3, NoneOpen
<1>5. ListOK(r)'
  BY <1>2, <1>4 DEF ListOK, At, PlainPC
<1> QED
  BY <1>1, <1>2, <1>3, <1>4, <1>5, ListNoFiles

LEMMA ListWrite ==
    ASSUME IInv, ListInv, NEW p \in Process, Write(p)
    PROVE  ListInv'
<1>1. Busy(p) /\ crashes' = crashes /\ (torn' = 0 => torn = 0)
  BY StepBusy DEF Step
<1>r. PICK r \in Proc : r = proc[p] /\ WorkOK(r)
  BY StepBusy DEF Step
<1>s. PICK s : s = [r EXCEPT !.pc = r.next, !.next = "none", !.handle = "none", !.body = NoFile]
  OBVIOUS
<1>2. r.pc = "write" /\ Become(p, s)
  BY <1>r, <1>s DEF Write
<1>t. torn' = torn
  BY DEF Write, budget
<1>3. r.next \in Nexts
  BY <1>r, <1>2 DEF WorkOK, Proc, Nexts
<1>4. s.pc = r.next /\ s.handle = "none" /\ s.pkg = r.pkg
  BY <1>s DEF Proc
<1>5. ListOK(r)
  BY <1>r DEF ListInv
<1>6. ListOK(s)'
  BY <1>2, <1>3, <1>4, <1>5, <1>t DEF ListOK, At, Nexts
<1>7. \A x \in Process : proc'[x] = IF x = p THEN s ELSE proc[x]
  BY <1>2 DEF Become, IInv, TypeOK
<1>8. (\A x \in Process : ListOK(proc[x]))'
  <2>1. ListOK(proc[p])'
    BY <1>6, <1>7 DEF ListOK
  <2>2. \A x \in Process : x # p => ListOK(proc[x])'
    BY <1>1, <1>7, OthersListOK
  <2> QED
    BY <2>1, <2>2
<1>9. \A where, q : Writes(where, q) => Writes(where, q)' \/ (r.handle = where /\ r.cur = q)
  BY <1>r, <1>7 DEF Writes
<1>f. /\ r.body \in Entry \cup {Empty}
      /\ \A q \in Package : db[q] \in File /\ fresh[q] \in File
  BY <1>r, WriteTypes DEF IInv, TypeOK
<1>10. BeingWritten(db, "db") /\ torn = 0 => BeingWritten(db, "db")'
  <2>1. CASE r.handle # "db"
    <3>1. db' = db
      BY <1>r, <2>1, WriteForm
    <3> QED
      BY <1>9, <2>1, <3>1 DEF BeingWritten
  <2>2. CASE r.handle = "db"
    <3>1. PICK file \in Over(db[r.cur], r.body) : db' = [db EXCEPT ![r.cur] = file]
      BY <1>r, <2>2, WriteForm
    <3>2. torn = 0 /\ r.cur \in Package => Parses(file)
      BY <1>5, <1>f, <2>2, <3>1, OverFile DEF ListOK
    <3> QED
      BY <1>9, <3>1, <3>2 DEF BeingWritten, IInv, TypeOK
  <2> QED
    BY <2>1, <2>2
<1>11. Readable => (BeingWritten(fresh, "fresh") => BeingWritten(fresh, "fresh")')
  <2>1. CASE r.handle # "fresh"
    <3>1. fresh' = fresh
      BY <1>r, <2>1, WriteForm
    <3> QED
      BY <1>9, <2>1, <3>1 DEF BeingWritten
  <2>2. CASE r.handle = "fresh"
    <3>1. PICK file \in Over(fresh[r.cur], r.body) : fresh' = [fresh EXCEPT ![r.cur] = file]
      BY <1>r, <2>2, WriteForm
    <3>2. Readable /\ r.cur \in Package => Parses(file)
      BY <1>5, <1>f, <2>2, <3>1, OverFile DEF ListOK
    <3> QED
      BY <1>9, <3>1, <3>2 DEF BeingWritten, IInv, TypeOK
  <2> QED
    BY <2>1, <2>2
<1> QED
  BY <1>1, <1>8, <1>10, <1>11, <1>t DEF ListInv

(* What a download of a readable repository writes can be read. *)
LEMMA ReadableServed ==
    ASSUME TypeOK, Readable, NEW q \in Package
    PROVE  Parses(Served(q))
<1>1. Served(q) \in Entry /\ repo[q] \in DOMAIN Manifests[q]
  BY ServedEntry DEF TypeOK
<1>2. Served(q).name # NoName
  BY <1>1 DEF Readable, Served
<1> QED
  BY <1>1, <1>2, BotPkgAssumption DEF Parses

LEMMA ListDownloads ==
    ASSUME IInv, ListInv, NEW p \in Process,
           LoadDownload(p) \/ FetchManifest(p) \/ FetchArchive(p) \/ FetchUpdate(p)
    PROVE  ListInv'
<1>1. Busy(p) /\ crashes' = crashes /\ (torn' = 0 => torn = 0) /\ TypeOK /\ Root(p) \in Package
  BY StepBusy DEF Step
<1>r. PICK r \in Proc : r = proc[p] /\ WorkOK(r) /\ ListOK(r)
  BY StepBusy DEF Step, ListInv
<1>d. ASSUME NEW next \in {"loaded", "parse", "verify", "latest"},
             NEW failed \in {"parse", "unloaded", "unfetched", "unreached"}, NEW q \in Package,
             NEW where \in {"cache", "archive", "fresh"}, NEW cut,
             next = "verify" => Parses(r.pkg),
             Downloads(p, next, failed, q, where, Served(q), cut), r.pc # "write",
             \/ UNCHANGED <<db, fresh>>
             \/ where = "fresh" /\ fresh' = [fresh EXCEPT ![q] = Empty] /\ db' = db
      PROVE  ListInv'
  <2>0. \E body \in {Served(q)} \cup cut, after \in {next, failed} :
            /\ Become(p, Opened(proc[p], after, q, where, body))
            /\ (body = Served(q) /\ after = next) \/ (faults' # 0 /\ MaxFaults # 0)
            /\ faults' = 0 => faults = 0
    BY <1>1, <1>d, DownloadsForm
  <2>1. PICK body \in {Served(q)} \cup cut, after \in {next, failed} :
            /\ Become(p, Opened(r, after, q, where, body))
            /\ body = Served(q) \/ MaxFaults # 0
    BY <1>r, <2>0
  <2>2. PICK o : o = Opened(r, after, q, where, body)
    OBVIOUS
  <2>3. /\ o.pc = "write" /\ o.next = after /\ o.handle = where /\ o.cur = q /\ o.body = body
        /\ o.pkg = r.pkg
    BY <2>2, OpenedFields
  <2>4. Readable => Parses(body)
    BY <1>1, <2>1, ReadableServed DEF Readable
  <2>5. ListOK(o)'
    BY <1>d, <2>3, <2>4 DEF ListOK, At
  <2>6. o \in Proc
    <3>1. proc' \in [Process -> Proc]
      <4>1. \E x : x = p /\ Step(x)
        BY DEF Step
      <4> QED
        BY <4>1, StepOutcome DEF Outcome, GoesOn
    <3>2. proc'[p] = o
      BY <1>1, <2>1, <2>2 DEF Become, TypeOK
    <3> QED
      BY <3>1, <3>2
  <2>7. proc[p].handle = "none"
    BY <1>r, <1>d, NoneOpen
  <2> QED
    BY <1>1, <1>d, <2>1, <2>2, <2>3, <2>5, <2>6, <2>7, ListOpened
<1>2. CASE LoadDownload(p)
  <2>1. PICK q \in Package : Downloads(p, "loaded", "unloaded", q, "cache", Served(q), Cut(Served(q)))
    BY <1>2 DEF LoadDownload, Unread
  <2> QED
    BY <1>r, <1>d, <1>2, <2>1 DEF LoadDownload
<1>3. CASE FetchManifest(p)
  <2>1. Head(r.order) \in Package
    BY <1>r, <1>3 DEF FetchManifest, Proc
  <2> QED
    BY <1>r, <1>d, <1>3, <2>1 DEF FetchManifest
<1>4. CASE FetchArchive(p)
  <2>1. r.cur \in Package /\ Parses(r.pkg)
    BY <1>r, <1>4 DEF FetchArchive, WorkOK, ListOK, At
  <2> QED
    BY <1>r, <1>d, <1>4, <2>1 DEF FetchArchive
<1>5. CASE FetchUpdate(p)
  BY <1>1, <1>r, <1>d, <1>5 DEF FetchUpdate
<1> QED
  BY <1>2, <1>3, <1>4, <1>5

LEMMA ListRegister ==
    ASSUME IInv, ListInv, NEW p \in Process, Register(p) \/ RegisterTorn(p)
    PROVE  ListInv'
<1>1. Busy(p) /\ crashes' = crashes /\ (torn' = 0 => torn = 0) /\ TypeOK
  BY StepBusy DEF Step
<1>r. PICK r \in Proc : r = proc[p] /\ WorkOK(r) /\ ListOK(r)
  BY StepBusy DEF Step, ListInv
<1>b. PICK body : Registers(p, body) /\ (body = r.pkg \/ torn' # 0)
  BY <1>1, <1>r, TornBudget DEF Register, RegisterTorn
<1>2. PICK o : o = Opened(r, "registered", r.pkg.name, "db", body)
  OBVIOUS
<1>3. /\ r.pc = "verify" /\ Become(p, o) /\ db' = [db EXCEPT ![r.pkg.name] = Empty]
      /\ fresh' = fresh
  BY <1>r, <1>b, <1>2 DEF Registers
<1>4. /\ o.pc = "write" /\ o.next = "registered" /\ o.handle = "db" /\ o.cur = r.pkg.name
      /\ o.body = body
  BY <1>2, OpenedFields
<1>5. Parses(r.pkg)
  BY <1>r, <1>3 DEF ListOK, At
<1>6. ListOK(o)'
  BY <1>b, <1>4, <1>5 DEF ListOK, At
<1>7. o \in Proc
  <2>1. proc' \in [Process -> Proc]
    BY StepOutcome DEF Step, Outcome, GoesOn
  <2>2. proc'[p] = o
    BY <1>1, <1>3 DEF Become, TypeOK
  <2> QED
    BY <2>1, <2>2
<1>8. proc[p].handle = "none"
  BY <1>r, <1>3, NoneOpen
<1> QED
  BY <1>1, <1>3, <1>4, <1>6, <1>7, <1>8, ListOpened

LEMMA ParsedOK ==
    ASSUME NEW file \in File, NEW q \in Package
    PROVE  LET placeholder == [name |-> q, ver |-> 0, deps |-> <<>>, sum |-> NoSum]
           IN  Parses(IF file \in {NoFile, Empty} THEN placeholder
                      ELSE IF Parses(file) THEN file
                      ELSE [file EXCEPT !.name = q, !.deps = <<>>])
<1> DEFINE placeholder == [name |-> q, ver |-> 0, deps |-> <<>>, sum |-> NoSum]
           renamed == [file EXCEPT !.name = q, !.deps = <<>>]
<1>1. placeholder \in Entry /\ placeholder.name = q
  BY EmptySeq DEF Entry
<1>2. file \notin {NoFile, Empty} => renamed \in Entry /\ renamed.name = q
  BY EmptySeq DEF File, Entry
<1>3. \A e \in Entry : e.name = q => Parses(e)
  BY BotPkgAssumption DEF Parses
<1> HIDE DEF placeholder, renamed
<1>4. Parses(IF file \in {NoFile, Empty} THEN placeholder
             ELSE IF Parses(file) THEN file ELSE renamed)
  BY <1>1, <1>2, <1>3
<1> QED
  BY <1>4 DEF placeholder, renamed

LEMMA ListParses ==
    ASSUME IInv, ListInv, NEW p \in Process,
           FetchManifestFails(p) \/ ParseManifest(p) \/ ParseUpdate(p)
    PROVE  ListInv'
<1>1. Busy(p) /\ crashes' = crashes /\ (torn' = 0 => torn = 0) /\ TypeOK
  BY StepBusy DEF Step
<1>r. PICK r \in Proc : r = proc[p] /\ WorkOK(r) /\ ListOK(r)
  BY StepBusy DEF Step, ListInv
<1>2. UNCHANGED disk /\ r.pc # "write"
  BY <1>r DEF FetchManifestFails, ParseManifest, ParseUpdate
<1>3. r.handle = "none"
  BY <1>r, <1>2 DEF ListOK
<1>4. ASSUME NEW s, Become(p, s), ListOK(s)'
      PROVE  ListInv'
  <2>1. s \in Proc
    <3>1. proc' \in [Process -> Proc]
      BY StepOutcome DEF Step, Outcome, GoesOn
    <3>2. proc'[p] = s
      BY <1>1, <1>4 DEF Become, TypeOK
    <3> QED
      BY <3>1, <3>2
  <2> QED
    BY <1>1, <1>r, <1>2, <1>3, <1>4, <2>1, ListNoFiles
<1>5. CASE FetchManifestFails(p)
  <2>1. PICK s : s = [r EXCEPT !.pc = "parse", !.cur = Head(r.order)]
    OBVIOUS
  <2>2. s.pc = "parse" /\ s.handle = "none"
    BY <1>3, <2>1 DEF Proc
  <2>3. ListOK(s)'
    BY <2>2 DEF ListOK, At
  <2>4. Become(p, s)
    BY <1>r, <1>5, <2>1 DEF FetchManifestFails
  <2> QED
    BY <1>4, <2>3, <2>4
<1>6. CASE ParseManifest(p)
  <2> DEFINE file == cache[r.cur]
             placeholder == [name |-> r.cur, ver |-> 0, deps |-> <<>>, sum |-> NoSum]
  <2>1. PICK pkg : pkg = IF file \in {NoFile, Empty} THEN placeholder
                         ELSE IF Parses(file) THEN file
                         ELSE [file EXCEPT !.name = r.cur, !.deps = <<>>]
    OBVIOUS
  <2>2. PICK s : s = [r EXCEPT !.pc = "archive", !.pkg = pkg]
    OBVIOUS
  <2>3. r.cur \in Package /\ file \in File
    BY <1>1, <1>r, <1>6 DEF ParseManifest, WorkOK, At, TypeOK
  <2>4. Parses(pkg)
    BY <2>1, <2>3, ParsedOK
  <2>5. s.pc = "archive" /\ s.handle = "none" /\ s.pkg = pkg
    BY <1>3, <2>2 DEF Proc
  <2>6. ListOK(s)'
    BY <2>4, <2>5 DEF ListOK, At
  <2>7. Become(p, s)
    BY <1>r, <1>6, <2>1, <2>2 DEF ParseManifest
  <2> QED
    BY <1>4, <2>6, <2>7
<1>7. CASE ParseUpdate(p)
  <2>1. PICK s : s = [r EXCEPT !.pc = "replace"]
    OBVIOUS
  <2>2. s.pc = "replace" /\ s.handle = "none" /\ s.names = r.names
    BY <1>3, <2>1 DEF Proc
  <2>3. Parses(fresh[Head(r.names)]) /\ fresh' = fresh
    BY <1>r, <1>7 DEF ParseUpdate, Root, disk
  <2>4. ListOK(s)'
    BY <2>2, <2>3 DEF ListOK, At
  <2>5. Become(p, s)
    BY <1>r, <1>7, <2>1 DEF ParseUpdate
  <2> QED
    BY <1>4, <2>4, <2>5
<1> QED
  BY <1>5, <1>6, <1>7

(* A step that unlinks or renames q's file: the writers of other files go  *)
(* on, and a file that was renamed over the database's has a writer there. *)
LEMMA ListMoved ==
    ASSUME IInv, ListInv, Serial \/ Readable, NEW p \in Process, Busy(p),
           proc[p].pc # "write", NEW r \in Proc, r.pc \in PlainPC, r.handle = "none",
           NEW q \in Package, NEW where, Moved(p, r, q, where), crashes' = crashes,
           torn' = 0 => torn = 0,
           \/ where = Unlinked("archive") /\ UNCHANGED <<db, fresh>>
           \/ where = Unlinked("db") /\ db' = [db EXCEPT ![q] = NoFile] /\ fresh' = fresh
           \/ where = Unlinked("fresh") /\ fresh' = [fresh EXCEPT ![q] = NoFile] /\ db' = db
           \/ /\ where = Renamed
              /\ db' = [db EXCEPT ![q] = fresh[q]] /\ fresh' = [fresh EXCEPT ![q] = NoFile]
              /\ Serial => Parses(fresh[q])
    PROVE  ListInv'
<1>0. /\ db \in [Package -> File] /\ fresh \in [Package -> File]
      /\ proc \in [Process -> Proc] /\ proc[p].handle = "none"
  BY NoneOpen DEF IInv, TypeOK
<1>1. ListOK(r)'
  BY DEF ListOK, At, PlainPC
<1>2. \A x \in Process :
         proc'[x] = IF x = p THEN r
                    ELSE IF proc[x].cur = q /\ proc[x].handle \in DOMAIN where
                        THEN [proc[x] EXCEPT !.handle = where[proc[x].handle]]
                    ELSE proc[x]
  BY <1>0 DEF Moved, Proc
<1>3. /\ \A h \in DOMAIN where : where[h] \in {"db", "gone"}
      /\ "none" \notin DOMAIN where
      /\ \A h \in DOMAIN where : where[h] = "db" => where = Renamed /\ h = "fresh"
  BY DEF Unlinked, Renamed
<1>4. Serial => \A x \in Process : x # p => proc[x].handle = "none" /\ proc'[x] = proc[x]
  BY <1>2, <1>3, OthersStopped DEF ListInv, ListOK, Stopped
<1>5. ASSUME NEW x \in Process, x # p
      PROVE  /\ proc'[x].handle = IF proc[x].cur = q /\ proc[x].handle \in DOMAIN where
                                     THEN where[proc[x].handle] ELSE proc[x].handle
             /\ proc'[x].cur = proc[x].cur /\ proc'[x].pc = proc[x].pc
             /\ proc'[x].body = proc[x].body /\ proc'[x].pkg = proc[x].pkg
             /\ proc'[x].next = proc[x].next
  <2>1. proc[x] \in Proc
    BY <1>0
  <2>2. CASE proc[x].cur = q /\ proc[x].handle \in DOMAIN where
    <3>1. proc'[x] = [proc[x] EXCEPT !.handle = where[proc[x].handle]]
      BY <1>2, <1>5, <2>2
    <3> QED
      BY <2>1, <2>2, <3>1 DEF Proc
  <2>3. CASE ~(proc[x].cur = q /\ proc[x].handle \in DOMAIN where)
    BY <1>2, <1>5, <2>3
  <2> QED
    BY <2>2, <2>3
<1>6. (\A x \in Process : ListOK(proc[x]))'
  <2>1. ListOK(proc[p])'
    BY <1>1, <1>2 DEF ListOK
  <2>2. ASSUME NEW x \in Process, x # p
        PROVE  ListOK(proc[x])'
    <3>1. CASE Serial
      BY <1>4, <2>2, <3>1, OthersListOK
    <3>2. CASE ~Serial /\ Readable
      <4>1. ListOK(proc[x])
        BY DEF ListInv
      <4>2. proc'[x].handle # "none" => proc[x].handle # "none"
        BY <1>3, <1>5, <2>2
      <4>3. proc'[x].handle \in {"db", "fresh"} => proc[x].handle \in {"db", "fresh"}
        BY <1>3, <1>5, <2>2
      <4>4. torn = 0
        BY <3>2 DEF IInv, TypeOK, Readable
      <4> QED
        BY <1>5, <2>2, <3>2, <4>1, <4>2, <4>3, <4>4 DEF ListOK, At
    <3> QED
      BY <3>1, <3>2
  <2> QED
    BY <2>1, <2>2
<1>7. ASSUME NEW c \in Package, c # q, NEW h, h # "none", Writes(h, c)
      PROVE  Writes(h, c)'
  BY <1>0, <1>5, <1>7 DEF Writes
<1>8. ASSUME NEW h, h # "none", h \notin DOMAIN where, Writes(h, q)
      PROVE  Writes(h, q)'
  BY <1>0, <1>5, <1>8 DEF Writes
<1>9. BeingWritten(fresh, "fresh") => BeingWritten(fresh, "fresh")'
  <2>1. CASE fresh' = fresh /\ where \in {Unlinked("archive"), Unlinked("db")}
    BY <1>7, <1>8, <2>1 DEF BeingWritten, Unlinked
  <2>2. CASE fresh' = [fresh EXCEPT ![q] = NoFile]
    BY <1>0, <1>7, <2>2 DEF BeingWritten
  <2> QED
    BY <2>1, <2>2
<1>10. ASSUME crashes = 0, torn = 0
       PROVE  BeingWritten(db, "db")'
  <2>0. BeingWritten(db, "db")
    BY <1>10 DEF ListInv
  <2>1. CASE db' = db /\ where = Unlinked("archive")
    BY <1>7, <1>8, <2>0, <2>1 DEF BeingWritten, Unlinked
  <2>2. CASE db' = db /\ where = Unlinked("fresh")
    BY <1>7, <1>8, <2>0, <2>2 DEF BeingWritten, Unlinked
  <2>3. CASE db' = [db EXCEPT ![q] = NoFile]
    BY <1>0, <1>7, <2>0, <2>3 DEF BeingWritten
  <2>4. CASE /\ where = Renamed
             /\ db' = [db EXCEPT ![q] = fresh[q]]
             /\ Serial => Parses(fresh[q])
    <3>1. ASSUME ~Parses(fresh[q]), fresh[q] # NoFile
          PROVE  Writes("db", q)'
      <4>1. Readable
        BY <2>4, <3>1
      <4>2. Writes("fresh", q)
        BY <1>10, <3>1, <4>1 DEF ListInv, BeingWritten
      <4>3. PICK x \in Process : proc[x].handle = "fresh" /\ proc[x].cur = q
        BY <4>2 DEF Writes
      <4>4. x # p
        BY <1>0, <4>3
      <4>5. "fresh" \in DOMAIN where /\ where["fresh"] = "db"
        BY <2>4 DEF Renamed
      <4>6. proc'[x].handle = "db" /\ proc'[x].cur = q
        BY <1>5, <4>3, <4>4, <4>5
      <4> QED
        BY <4>6 DEF Writes
    <3> QED
      BY <1>0, <1>7, <2>0, <2>4, <3>1 DEF BeingWritten
  <2> QED
    BY <2>1, <2>2, <2>3, <2>4
<1> QED
  BY <1>6, <1>9, <1>10 DEF ListInv

LEMMA ListMoves ==
    ASSUME IInv, ListInv, Serial \/ Readable, NEW p \in Process,
           Reject(p) \/ Unregister(p) \/ RejectUpdate(p) \/ Replace(p)
    PROVE  ListInv'
<1>1. Busy(p) /\ crashes' = crashes /\ (torn' = 0 => torn = 0) /\ Root(p) \in Package
  BY StepBusy DEF Step
<1>r. PICK r \in Proc : r = proc[p] /\ WorkOK(r) /\ ListOK(r)
  BY StepBusy DEF Step, ListInv
<1>2. /\ r.pc \notin Stopped /\ r.op \in {"install", "remove", "update"}
      /\ r.pc # "write" /\ r.handle = "none"
  BY <1>1, <1>r DEF Busy, WorkOK, Proc, ListOK, Reject, Unregister, RejectUpdate, Replace
<1>e. ASSUME NEW rc \in {0, 1}
      PROVE  /\ EndName(r, rc) \in Proc /\ EndName(r, rc).pc \in PlainPC
             /\ EndName(r, rc).handle = "none"
  BY <1>r, <1>2, EndNameOK, EndNameFields DEF PlainPC
<1>3. CASE Reject(p)
  <2>1. r.cur \in Package /\ r.order # <<>> /\ r.pc = "verify"
    BY <1>r, <1>3 DEF Reject, WorkOK, At
  <2>2. NextPackage(r) \in Proc /\ NextPackage(r).pc \in PlainPC /\ NextPackage(r).handle = "none"
    BY <1>r, <1>2, <2>1, NextPackageOK, NextPackageFields DEF PlainPC
  <2>3. Moved(p, NextPackage(r), r.cur, Unlinked("archive")) /\ UNCHANGED <<db, fresh>>
    BY <1>r, <1>3 DEF Reject
  <2> QED
    BY <1>1, <1>r, <1>2, <2>1, <2>2, <2>3, ListMoved
<1>4. CASE Unregister(p)
  <2>1. /\ Moved(p, EndName(r, 0), Root(p), Unlinked("db"))
        /\ db' = [db EXCEPT ![Root(p)] = NoFile] /\ fresh' = fresh
    BY <1>r, <1>4 DEF Unregister
  <2> QED
    BY <1>1, <1>r, <1>2, <1>e, <2>1, ListMoved
<1>5. CASE RejectUpdate(p)
  <2>1. /\ Moved(p, EndName(r, 1), Root(p), Unlinked("fresh"))
        /\ fresh' = [fresh EXCEPT ![Root(p)] = NoFile] /\ db' = db
    BY <1>r, <1>5 DEF RejectUpdate
  <2> QED
    BY <1>1, <1>r, <1>2, <1>e, <2>1, ListMoved
<1>6. CASE Replace(p)
  <2>1. /\ Moved(p, EndName(r, 0), Root(p), Renamed)
        /\ db' = [db EXCEPT ![Root(p)] = fresh[Root(p)]]
        /\ fresh' = [fresh EXCEPT ![Root(p)] = NoFile]
    BY <1>r, <1>6 DEF Replace
  <2>2. Serial => Parses(fresh[Root(p)])
    BY <1>r, <1>6 DEF ListOK, Replace, Root
  <2> QED
    BY <1>1, <1>r, <1>2, <1>e, <2>1, <2>2, ListMoved
<1> QED
  BY <1>3, <1>4, <1>5, <1>6

LEMMA ListStutter ==
    ASSUME ListInv, UNCHANGED <<db, fresh, proc, torn, crashes>>
    PROVE  ListInv'
BY DEF ListInv, ListOK, BeingWritten, Writes

LEMMA ListLaunch ==
    ASSUME IInv, ListInv, NEW p \in Process, Launch(p)
    PROVE  ListInv'
<1>1. PICK c \in Commands :
          Become(p, [Idle EXCEPT !.pc = c.op, !.op = c.op, !.names = c.names])
  BY DEF Launch
<1>2. PICK s : s = [Idle EXCEPT !.pc = c.op, !.op = c.op, !.names = c.names]
  OBVIOUS
<1>3. s.pc \in {"install", "remove", "update"} /\ s.handle = "none"
  BY <1>2, IdleFields, BotPkgAssumption DEF Proc
<1>4. /\ \A x \in Process : proc'[x] = IF x = p THEN s ELSE proc[x]
      /\ UNCHANGED <<db, fresh, torn, crashes>> /\ proc[p].pc = "idle"
  BY <1>1, <1>2 DEF Launch, Become, IInv, TypeOK, disk, budget
<1>5. proc[p].handle = "none"
  BY <1>4, NoneOpen
<1>6. \A where, q : where # "none" => (Writes(where, q) => Writes(where, q)')
  BY <1>4, <1>5 DEF Writes
<1>7. (\A x \in Process : ListOK(proc[x]))'
  BY <1>3, <1>4 DEF ListInv, ListOK, At
<1> QED
  BY <1>4, <1>6, <1>7 DEF ListInv, BeingWritten

LEMMA ListCrash ==
    ASSUME IInv, ListInv, NEW p \in Process, Crash(p)
    PROVE  ListInv'
<1>1. PICK s : s = [Idle EXCEPT !.pc = "crashed"]
  OBVIOUS
<1>2. s.pc = "crashed" /\ s.handle = "none"
  BY <1>1, IdleFields DEF Proc
<1>3. /\ \A x \in Process : proc'[x] = IF x = p THEN s ELSE proc[x]
      /\ UNCHANGED <<db, fresh, torn>> /\ crashes' # 0
  BY <1>1 DEF Crash, Become, IInv, TypeOK, disk
<1>4. (\A x \in Process : ListOK(proc[x]))'
  BY <1>2, <1>3 DEF ListInv, ListOK, At
<1> QED
  BY <1>3, <1>4 DEF ListInv

LEMMA ListNext ==
    ASSUME IInv, ListInv, Serial \/ Readable, [Next]_vars
    PROVE  ListInv'
<1>1. ASSUME NEW p \in Process, Launch(p) PROVE ListInv'
  BY <1>1, ListLaunch
<1>2. ASSUME NEW p \in Process, Crash(p) PROVE ListInv'
  BY <1>2, ListCrash
<1>3. ASSUME NEW p \in Process, Step(p) PROVE ListInv'
  BY <1>3, ListPlain, ListWrite, ListDownloads, ListRegister, ListParses, ListMoves
     DEF Step, PlainStep
<1>4. CASE Publish
  BY <1>4, ListStutter DEF Publish, disk
<1>5. CASE AllEnded \/ UNCHANGED vars
  BY <1>5, ListStutter DEF AllEnded, vars, disk, budget
<1> QED
  BY <1>1, <1>2, <1>3, <1>4, <1>5 DEF Next

LEMMA ListInit == Init => ListInv
BY IdleFields DEF Init, ListInv, ListOK, At, BeingWritten

(* Between commands `botpkg list` agrees with install, remove and update   *)
(* on what is installed unless a command was killed or the disk cut an     *)
(* entry short: for commands that do not overlap, whatever the repository  *)
(* serves and whichever downloads fail; and for any commands at once, when *)
(* manifests arrive whole and have names (botpkg.c:197-213, 423-456).      *)
THEOREM ListIsRight == ASSUME Serial \/ Readable PROVE Spec => []ListAgrees
<1>1. Init => IInv /\ ListInv
  BY InitInv, ListInit
<1>2. IInv /\ ListInv /\ [Next]_vars => (IInv /\ ListInv)'
  BY NextInv, ListNext
<1>3. IInv /\ ListInv => ListAgrees
  <2> SUFFICES ASSUME IInv, ListInv, Quiet, crashes = 0, torn = 0, NEW q \in Present PROVE Parses(db[q])
    BY DEF ListAgrees
  <2>1. \A p \in Process : proc[p].handle = "none"
    BY NoneOpen DEF Quiet, Busy, Stopped
  <2> QED
    BY <2>1 DEF ListInv, BeingWritten, Writes, Present
<1> QED
  BY <1>1, <1>2, <1>3, PTL DEF Spec

(***************************************************************************)
(* A checksum is never left out.                                           *)
(***************************************************************************)

(* When commands do not overlap it is enough to look at the one that goes  *)
(* on, as r, and at the files.                                             *)
LEMMA SumOne ==
    ASSUME IInv, ListInv, Serial, NEW p \in Process, Busy(p), NEW r, Become(p, r),
           faults' = 0 => AllGenuine(db)' /\ AllGenuine(cache)' /\ AllGenuine(fresh)' /\ SumOK(r)'
    PROVE  SumInv'
<1>1. \A x \in Process : proc'[x] = IF x = p THEN r ELSE proc[x]
  BY DEF Become, IInv, TypeOK
<1>2. \A x \in Process : x # p => proc[x].pc \in Stopped /\ proc[x].handle = "none"
  BY OthersStopped DEF ListInv, ListOK, Stopped
<1>3. \A x \in Process : x # p => SumOK(proc[x])'
  BY <1>1, <1>2 DEF SumOK, At, Stopped
<1>4. SumOK(r)' => SumOK(proc[p])'
  BY <1>1 DEF SumOK
<1> QED
  BY <1>3, <1>4 DEF SumInv

LEMMA SumPlain ==
    ASSUME IInv, ListInv, Serial, SumInv, NEW p \in Process, PlainStep(p)
    PROVE  SumInv'
<1>1. Busy(p)
  BY StepBusy DEF PlainStep, Step
<1>2. PICK r \in Proc : Become(p, r) /\ r.pc \in PlainPC /\ r.handle \in {"none", proc[p].handle}
  BY PlainForm
<1>3. UNCHANGED disk /\ proc[p].pc # "write" /\ (faults' = 0 => faults = 0)
  BY PlainForm
<1>4. r.handle = "none"
  BY <1>2, <1>3, NoneOpen
<1>5. SumOK(r)'
  BY <1>2, <1>4 DEF SumOK, At, PlainPC
<1>6. faults = 0 => AllGenuine(db)' /\ AllGenuine(cache)' /\ AllGenuine(fresh)'
  BY <1>3 DEF SumInv, AllGenuine, disk
<1> QED
  BY <1>1, <1>2, <1>3, <1>5, <1>6, SumOne

LEMMA GenuineServed ==
    ASSUME TypeOK, OwnNames, NEW q \in Package
    PROVE  Served(q) \in Entry /\ Genuine(q, Served(q))
<1>1. repo[q] \in DOMAIN Manifests[q]
  BY DEF TypeOK
<1> QED
  BY <1>1, ServedEntry DEF Genuine, OwnNames, Summed, Served

LEMMA SumWrite ==
    ASSUME IInv, ListInv, Serial, SumInv, NEW p \in Process, Write(p)
    PROVE  SumInv'
<1>1. Busy(p) /\ TypeOK
  BY StepBusy DEF Step
<1>r. PICK r \in Proc : r = proc[p] /\ WorkOK(r)
  BY StepBusy DEF Step
<1>s. PICK s : s = [r EXCEPT !.pc = r.next, !.next = "none", !.handle = "none", !.body = NoFile]
  OBVIOUS
<1>2. r.pc = "write" /\ Become(p, s) /\ faults' = faults
  BY <1>r, <1>s DEF Write, budget
<1>3. r.next \in Nexts
  BY <1>r, <1>2 DEF WorkOK, Proc, Nexts
<1>4. s.pc = r.next /\ s.handle = "none" /\ s.pkg = r.pkg /\ s.cur = r.cur
  BY <1>s DEF Proc
<1>5. faults = 0 => SumOK(r)
  BY <1>r DEF SumInv
<1>f. r.body \in Entry \cup {Empty}
  BY <1>1, <1>r, WriteTypes
<1>6. ASSUME NEW dir \in [Package -> File], NEW new, faults = 0, AllGenuine(dir),
             r.handle \in {"db", "cache", "fresh"},
             NEW file \in Over(dir[r.cur], r.body), new = [dir EXCEPT ![r.cur] = file]
      PROVE  AllGenuine(new) /\ (r.cur \in Package => new[r.cur] \in Entry)
  <2>1. r.body \in Entry /\ r.body # Empty /\ Genuine(r.cur, r.body)
    BY <1>5, <1>6, BotPkgAssumption DEF SumOK
  <2>2. r.cur \in Package => file \in Entry /\ Genuine(r.cur, file)
    <3>1. CASE dir[r.cur] \in {NoFile, Empty}
      BY <1>6, <2>1, <3>1 DEF Over
    <3>2. CASE r.cur \in Package /\ dir[r.cur] \in Entry /\ dir[r.cur] # Empty
      <4>1. file \in Mixed(dir[r.cur], r.body) /\ Genuine(r.cur, dir[r.cur])
        BY <1>6, <2>1, <3>2, BotPkgAssumption DEF Over, AllGenuine
      <4> QED
        BY <2>1, <3>2, <4>1, MixedFields DEF Genuine
    <3> QED
      BY <1>6, <3>1, <3>2 DEF File
  <2> QED
    BY <1>6, <2>2 DEF AllGenuine
<1>d. /\ db \in [Package -> File] /\ cache \in [Package -> File] /\ fresh \in [Package -> File]
  BY <1>1 DEF TypeOK
<1>g. faults = 0 => AllGenuine(db) /\ AllGenuine(cache) /\ AllGenuine(fresh)
  BY DEF SumInv
<1>7. faults = 0 => AllGenuine(db)' /\ AllGenuine(cache)' /\ AllGenuine(fresh)'
  <2>1. faults = 0 => AllGenuine(db')
    <3>1. CASE r.handle # "db"
      BY <1>r, <1>g, <3>1, WriteForm DEF AllGenuine
    <3>2. CASE r.handle = "db"
      <4>1. PICK file \in Over(db[r.cur], r.body) : db' = [db EXCEPT ![r.cur] = file]
        BY <1>r, <3>2, WriteForm
      <4> QED
        BY <1>6, <1>d, <1>g, <3>2, <4>1
    <3> QED
      BY <3>1, <3>2
  <2>2. faults = 0 => AllGenuine(cache')
    <3>1. CASE r.handle # "cache"
      BY <1>r, <1>g, <3>1, WriteForm DEF AllGenuine
    <3>2. CASE r.handle = "cache"
      <4>1. PICK file \in Over(cache[r.cur], r.body) : cache' = [cache EXCEPT ![r.cur] = file]
        BY <1>r, <3>2, WriteForm
      <4> QED
        BY <1>6, <1>d, <1>g, <3>2, <4>1
    <3> QED
      BY <3>1, <3>2
  <2>3. faults = 0 => AllGenuine(fresh')
    <3>1. CASE r.handle # "fresh"
      BY <1>r, <1>g, <3>1, WriteForm DEF AllGenuine
    <3>2. CASE r.handle = "fresh"
      <4>1. PICK file \in Over(fresh[r.cur], r.body) : fresh' = [fresh EXCEPT ![r.cur] = file]
        BY <1>r, <3>2, WriteForm
      <4> QED
        BY <1>6, <1>d, <1>g, <3>2, <4>1
    <3> QED
      BY <3>1, <3>2
  <2> QED
    BY <2>1, <2>2, <2>3 DEF AllGenuine
<1>8. faults = 0 => SumOK(s)'
  <2>1. s.pc = "parse" /\ faults = 0 => r.handle = "cache" /\ r.cur \in Package /\ r.body \in Entry
    BY <1>r, <1>2, <1>4, <1>5 DEF SumOK, WorkOK, At
  <2>2. faults = 0 /\ s.pc = "parse" => cache'[s.cur] \in Entry
    <3> SUFFICES ASSUME faults = 0, s.pc = "parse" PROVE cache'[s.cur] \in Entry
      OBVIOUS
    <3>1. PICK file \in Over(cache[r.cur], r.body) : cache' = [cache EXCEPT ![r.cur] = file]
      BY <1>r, <2>1, WriteForm
    <3> QED
      BY <1>4, <1>6, <1>d, <1>g, <2>1, <3>1
  <2> QED
    BY <1>2, <1>3, <1>4, <1>5, <2>2 DEF SumOK, At, Nexts
<1> QED
  BY <1>1, <1>2, <1>7, <1>8, SumOne

LEMMA SumDownloads ==
    ASSUME IInv, ListInv, Serial, OwnNames, SumInv, NEW p \in Process,
           LoadDownload(p) \/ FetchManifest(p) \/ FetchArchive(p) \/ FetchUpdate(p)
    PROVE  SumInv'
<1>1. Busy(p) /\ TypeOK /\ Root(p) \in Package
  BY StepBusy DEF Step
<1>r. PICK r \in Proc : r = proc[p] /\ WorkOK(r) /\ (faults = 0 => SumOK(r))
  BY StepBusy DEF Step, SumInv
<1>d. ASSUME NEW next \in {"loaded", "parse", "verify", "latest"},
             NEW failed \in {"parse", "unloaded", "unfetched", "unreached"}, NEW q \in Package,
             NEW where \in {"cache", "archive", "fresh"}, NEW cut,
             next = "verify" => r.pc = "archive" /\ q = r.cur,
             next = "parse" => where = "cache",
             Downloads(p, next, failed, q, where, Served(q), cut),
             db' = db,
             fresh' = fresh \/ fresh' = [fresh EXCEPT ![q] = Empty],
             cache' = cache \/ cache' = [cache EXCEPT ![q] = Empty]
      PROVE  SumInv'
  <2>0. \E body \in {Served(q)} \cup cut, after \in {next, failed} :
            /\ Become(p, Opened(proc[p], after, q, where, body))
            /\ (body = Served(q) /\ after = next) \/ (faults' # 0 /\ MaxFaults # 0)
            /\ faults' = 0 => faults = 0
    BY <1>1, <1>d, DownloadsForm
  <2>1. PICK body \in {Served(q)} \cup cut, after \in {next, failed} :
            /\ Become(p, Opened(r, after, q, where, body))
            /\ (body = Served(q) /\ after = next) \/ faults' # 0
            /\ faults' = 0 => faults = 0
    BY <1>r, <2>0
  <2>2. PICK o : o = Opened(r, after, q, where, body)
    OBVIOUS
  <2>3. /\ o.pc = "write" /\ o.next = after /\ o.handle = where /\ o.cur = q /\ o.body = body
        /\ o.pkg = r.pkg
    BY <2>2, OpenedFields
  <2>4. faults' = 0 => body \in Entry /\ Genuine(q, body)
    BY <1>1, <2>1, GenuineServed
  <2>5. faults' = 0 => SumOK(o)'
    BY <1>d, <1>r, <2>1, <2>3, <2>4 DEF SumOK, At
  <2>6. faults' = 0 => AllGenuine(db)' /\ AllGenuine(cache)' /\ AllGenuine(fresh)'
    BY <1>1, <1>d, <2>1, BotPkgAssumption DEF SumInv, AllGenuine, TypeOK
  <2> QED
    BY <1>1, <2>1, <2>2, <2>5, <2>6, SumOne
<1>2. CASE LoadDownload(p)
  <2>1. PICK q \in Package : /\ Downloads(p, "loaded", "unloaded", q, "cache", Served(q), Cut(Served(q)))
                             /\ cache' = [cache EXCEPT ![q] = Empty]
    BY <1>2 DEF LoadDownload, Unread
  <2> QED
    BY <1>d, <1>2, <2>1 DEF LoadDownload
<1>3. CASE FetchManifest(p)
  <2>1. Head(r.order) \in Package
    BY <1>r, <1>3 DEF FetchManifest, Proc
  <2> QED
    BY <1>r, <1>d, <1>3, <2>1 DEF FetchManifest
<1>4. CASE FetchArchive(p)
  <2>1. r.cur \in Package /\ r.pc = "archive"
    BY <1>r, <1>4 DEF FetchArchive, WorkOK, At
  <2> QED
    BY <1>r, <1>d, <1>4, <2>1 DEF FetchArchive
<1>5. CASE FetchUpdate(p)
  BY <1>1, <1>r, <1>d, <1>5 DEF FetchUpdate
<1> QED
  BY <1>2, <1>3, <1>4, <1>5

LEMMA SumRegister ==
    ASSUME IInv, ListInv, Serial, SumInv, NEW p \in Process, Register(p)
    PROVE  SumInv'
<1>1. Busy(p) /\ TypeOK
  BY StepBusy DEF Step
<1>r. PICK r \in Proc : r = proc[p] /\ WorkOK(r) /\ (faults = 0 => SumOK(r))
  BY StepBusy DEF Step, SumInv
<1>2. PICK o : o = Opened(r, "registered", r.pkg.name, "db", r.pkg)
  OBVIOUS
<1>3. /\ r.pc = "verify" /\ Become(p, o) /\ db' = [db EXCEPT ![r.pkg.name] = Empty]
      /\ UNCHANGED <<fresh, cache>> /\ faults' = faults
  BY <1>r, <1>2 DEF Register, Registers, budget
<1>4. /\ o.pc = "write" /\ o.next = "registered" /\ o.handle = "db" /\ o.cur = r.pkg.name
      /\ o.body = r.pkg
  BY <1>2, OpenedFields
<1>5. r.pkg \in Entry /\ (faults = 0 => Genuine(r.pkg.name, r.pkg))
  BY <1>r, <1>3 DEF WorkOK, SumOK, At
<1>6. faults = 0 => SumOK(o)'
  BY <1>4, <1>5 DEF SumOK, At
<1>7. faults = 0 => AllGenuine(db)' /\ AllGenuine(cache)' /\ AllGenuine(fresh)'
  BY <1>1, <1>3, BotPkgAssumption DEF SumInv, AllGenuine, TypeOK
<1> QED
  BY <1>1, <1>3, <1>6, <1>7, SumOne

LEMMA SumParses ==
    ASSUME IInv, ListInv, Serial, SumInv, NEW p \in Process,
           FetchManifestFails(p) \/ ParseManifest(p) \/ ParseUpdate(p)
    PROVE  SumInv'
<1>1. Busy(p) /\ TypeOK
  BY StepBusy DEF Step
<1>r. PICK r \in Proc : r = proc[p] /\ WorkOK(r) /\ (faults = 0 => SumOK(r))
  BY StepBusy DEF Step, SumInv
<1>2. UNCHANGED disk /\ r.pc # "write"
  BY <1>r DEF FetchManifestFails, ParseManifest, ParseUpdate
<1>3. r.handle = "none"
  BY <1>r, <1>2, NoneOpen
<1>4. faults = 0 => AllGenuine(db)' /\ AllGenuine(cache)' /\ AllGenuine(fresh)'
  BY <1>2 DEF SumInv, AllGenuine, disk
<1>5. CASE FetchManifestFails(p)
  <2>1. faults' # 0
    BY <1>1, <1>5, FaultBudget DEF FetchManifestFails
  <2> QED
    BY <2>1 DEF SumInv
<1>6. CASE ParseManifest(p)
  <2> DEFINE file == cache[r.cur]
             placeholder == [name |-> r.cur, ver |-> 0, deps |-> <<>>, sum |-> NoSum]
             renamed == [file EXCEPT !.name = r.cur, !.deps = <<>>]
  <2>1. PICK pkg : pkg = IF file \in {NoFile, Empty} THEN placeholder
                         ELSE IF Parses(file) THEN file ELSE renamed
    OBVIOUS
  <2>2. PICK s : s = [r EXCEPT !.pc = "archive", !.pkg = pkg]
    OBVIOUS
  <2>3. r.cur \in Package
    BY <1>1, <1>r, <1>6 DEF ParseManifest, WorkOK, At
  <2>4. faults = 0 => file \in Entry /\ file.name \in {r.cur, NoName}
                      /\ (Summed(r.cur) => file.sum # NoSum)
    BY <1>r, <1>6, <2>3 DEF ParseManifest, SumOK, SumInv, AllGenuine, Genuine
  <2>5. faults = 0 => renamed.name = r.cur /\ renamed.sum = file.sum
    BY <2>4 DEF Entry
  <2>6. faults = 0 => pkg.name = r.cur /\ (Summed(r.cur) => pkg.sum # NoSum)
    <3> HIDE DEF renamed, placeholder
    <3> QED
      BY <2>1, <2>4, <2>5, BotPkgAssumption DEF Parses
  <2>7. s.pc = "archive" /\ s.handle = "none" /\ s.pkg = pkg /\ s.cur = r.cur
    BY <1>3, <2>2 DEF Proc
  <2>8. faults = 0 => SumOK(s)'
    BY <2>6, <2>7 DEF SumOK, At, Genuine
  <2>9. Become(p, s) /\ faults' = faults
    BY <1>r, <1>6, <2>1, <2>2 DEF ParseManifest, budget
  <2> QED
    BY <1>1, <1>4, <2>8, <2>9, SumOne
<1>7. CASE ParseUpdate(p)
  <2>1. PICK s : s = [r EXCEPT !.pc = "replace"]
    OBVIOUS
  <2>2. s.pc = "replace" /\ s.handle = "none"
    BY <1>3, <2>1 DEF Proc
  <2>4. SumOK(s)'
    BY <2>2 DEF SumOK, At
  <2>5. Become(p, s) /\ faults' = faults
    BY <1>r, <1>7, <2>1 DEF ParseUpdate, budget
  <2> QED
    BY <1>1, <1>4, <2>4, <2>5, SumOne
<1> QED
  BY <1>5, <1>6, <1>7

LEMMA SumMoves ==
    ASSUME IInv, ListInv, Serial, SumInv, NEW p \in Process,
           Reject(p) \/ Unregister(p) \/ RejectUpdate(p) \/ Replace(p)
    PROVE  SumInv'
<1>1. Busy(p) /\ TypeOK /\ Root(p) \in Package
  BY StepBusy DEF Step
<1>r. PICK r \in Proc : r = proc[p] /\ WorkOK(r)
  BY StepBusy DEF Step
<1>2. /\ r.pc \notin Stopped /\ r.op \in {"install", "remove", "update"} /\ faults' = faults
      /\ r.handle = "none"
  BY <1>1, <1>r, NoneOpen
     DEF Busy, WorkOK, Proc, Reject, Unregister, RejectUpdate, Replace, budget
<1>3. faults = 0 => AllGenuine(db)' /\ AllGenuine(cache)' /\ AllGenuine(fresh)'
  BY <1>1, <1>r, BotPkgAssumption
     DEF SumInv, AllGenuine, TypeOK, Reject, Unregister, RejectUpdate, Replace
<1>4. \E s \in Proc : Become(p, s) /\ s.handle = "none" /\ s.pc \in PlainPC
  <2>1. ASSUME NEW rc \in {0, 1}
        PROVE  /\ EndName(r, rc) \in Proc /\ EndName(r, rc).pc \in PlainPC
               /\ EndName(r, rc).handle = "none"
    BY <1>r, <1>2, EndNameOK, EndNameFields DEF PlainPC
  <2>2. CASE Reject(p)
    <3>1. /\ NextPackage(r) \in Proc /\ NextPackage(r).handle = "none"
          /\ NextPackage(r).pc \in PlainPC
      BY <1>r, <1>2, <2>2, NextPackageOK, NextPackageFields DEF Reject, WorkOK, At, PlainPC
    <3>2. Moved(p, NextPackage(r), r.cur, Unlinked("archive"))
      BY <1>r, <2>2 DEF Reject
    <3> QED
      BY <1>1, <3>1, <3>2, SerialMoved DEF Unlinked
  <2>3. CASE Unregister(p)
    <3>1. Moved(p, EndName(r, 0), Root(p), Unlinked("db"))
      BY <1>r, <2>3 DEF Unregister
    <3> QED
      BY <1>1, <2>1, <3>1, SerialMoved DEF Unlinked
  <2>4. CASE RejectUpdate(p)
    <3>1. Moved(p, EndName(r, 1), Root(p), Unlinked("fresh"))
      BY <1>r, <2>4 DEF RejectUpdate
    <3> QED
      BY <1>1, <2>1, <3>1, SerialMoved DEF Unlinked
  <2>5. CASE Replace(p)
    <3>1. Moved(p, EndName(r, 0), Root(p), Renamed)
      BY <1>r, <2>5 DEF Replace
    <3> QED
      BY <1>1, <2>1, <3>1, SerialMoved DEF Renamed
  <2> QED
    BY <2>2, <2>3, <2>4, <2>5
<1>5. PICK s \in Proc : Become(p, s) /\ s.handle = "none" /\ s.pc \in PlainPC
  BY <1>4
<1>6. SumOK(s)'
  BY <1>5 DEF SumOK, At, PlainPC
<1> QED
  BY <1>1, <1>2, <1>3, <1>5, <1>6, SumOne

LEMMA SumStutter ==
    ASSUME SumInv, UNCHANGED <<db, cache, fresh, proc, faults>>
    PROVE  SumInv'
BY DEF SumInv, SumOK, AllGenuine

(* A process that starts or is killed has nothing at hand. *)
LEMMA SumEnds ==
    ASSUME IInv, SumInv, NEW p \in Process, Launch(p) \/ Crash(p)
    PROVE  SumInv'
<1>1. \E s : Become(p, s) /\ s.handle = "none" /\ s.pc \in {"install", "remove", "update", "crashed"}
  <2>1. CASE Launch(p)
    <3>1. PICK c \in Commands :
              Become(p, [Idle EXCEPT !.pc = c.op, !.op = c.op, !.names = c.names])
      BY <2>1 DEF Launch
    <3>2. PICK s : s = [Idle EXCEPT !.pc = c.op, !.op = c.op, !.names = c.names]
      OBVIOUS
    <3>3. s.pc \in {"install", "remove", "update"} /\ s.handle = "none"
      BY <3>2, IdleFields, BotPkgAssumption DEF Proc
    <3> QED
      BY <3>1, <3>2, <3>3
  <2>2. CASE Crash(p)
    <3>1. PICK s : s = [Idle EXCEPT !.pc = "crashed"]
      OBVIOUS
    <3>2. s.pc = "crashed" /\ s.handle = "none"
      BY <3>1, IdleFields DEF Proc
    <3> QED
      BY <2>2, <3>1, <3>2 DEF Crash
  <2> QED
    BY <2>1, <2>2
<1>2. PICK s : Become(p, s) /\ s.handle = "none"
               /\ s.pc \in {"install", "remove", "update", "crashed"}
  BY <1>1
<1>3. /\ \A x \in Process : proc'[x] = IF x = p THEN s ELSE proc[x]
      /\ UNCHANGED <<db, cache, fresh, faults>>
  BY <1>2 DEF Launch, Crash, Become, IInv, TypeOK, disk, budget
<1>4. faults = 0 => (\A x \in Process : SumOK(proc[x]))'
  BY <1>2, <1>3 DEF SumInv, SumOK, At
<1> QED
  BY <1>3, <1>4 DEF SumInv, AllGenuine

LEMMA SumNext ==
    ASSUME IInv, ListInv, Serial, OwnNames, SumInv, [Next]_vars
    PROVE  SumInv'
<1>1. ASSUME NEW p \in Process, Launch(p) \/ Crash(p) PROVE SumInv'
  BY <1>1, SumEnds
<1>3. ASSUME NEW p \in Process, Step(p) PROVE SumInv'
  <2>1. ASSUME RegisterTorn(p) PROVE SumInv'
    BY <2>1, TornBudget DEF SumInv, IInv
  <2> QED
    BY <1>3, <2>1, SumPlain, SumWrite, SumDownloads, SumRegister, SumParses, SumMoves
       DEF Step, PlainStep
<1>4. CASE Publish
  BY <1>4, SumStutter DEF Publish, disk
<1>5. CASE AllEnded \/ UNCHANGED vars
  BY <1>5, SumStutter DEF AllEnded, vars, disk, budget
<1> QED
  BY <1>1, <1>3, <1>4, <1>5 DEF Next

LEMMA SumInit == Init => SumInv
BY IdleFields, BotPkgAssumption DEF Init, SumInv, SumOK, At, AllGenuine

(* A package whose published manifests all have a checksum gets into the   *)
(* database only with one, and so only with an archive that was compared   *)
(* with it: for commands that do not overlap, downloads that do not fail   *)
(* and a repository where no manifest names another package, whatever it   *)
(* publishes and whichever commands are killed (botpkg.c:285-290).         *)
THEOREM ChecksumIsKept == ASSUME Serial, OwnNames PROVE Spec => []ChecksumKept
<1>1. Init => IInv /\ ListInv /\ SumInv
  BY InitInv, ListInit, SumInit
<1>2. IInv /\ ListInv /\ SumInv /\ [Next]_vars => (IInv /\ ListInv /\ SumInv)'
  BY NextInv, ListNext, SumNext
<1>3. SumInv => ChecksumKept
  BY DEF SumInv, AllGenuine, Genuine, ChecksumKept
<1> QED
  BY <1>1, <1>2, <1>3, PTL DEF Spec

(***************************************************************************)
(* Nothing fails, is published or overlaps.                                *)
(***************************************************************************)

LEMMA FirstEntry ==
    ASSUME StartsRight, NEW q \in Package
    PROVE  /\ First(q) \in Entry /\ First(q).name \in {q, NoName}
           /\ First(q).sum \in {NoSum, First(q).ver}
           /\ EntryOf(q) \in Entry /\ EntryOf(q).name = q /\ EntryOf(q).sum = First(q).sum
           /\ Parses(EntryOf(q)) /\ Deps(EntryOf(q)) = Deps(First(q))
           /\ First(q).name # NoName => EntryOf(q) = First(q)
           /\ First(q) \notin {NoFile, Empty} /\ EntryOf(q) \notin {NoFile, Empty}
<1>1. Manifests[q] \in Seq(Entry) /\ Manifests[q] # <<>>
  BY BotPkgAssumption
<1>2. First(q) \in Entry
  BY <1>1 DEF First
<1>3. First(q).name \in {q, NoName} /\ First(q).sum \in {NoSum, First(q).ver}
  BY DEF StartsRight, First
<1> DEFINE renamed == [First(q) EXCEPT !.name = q, !.deps = <<>>]
<1>4. /\ renamed \in Entry /\ renamed.name = q /\ renamed.deps = <<>>
      /\ renamed.sum = First(q).sum
  BY <1>2, EmptySeq DEF Entry
<1>5. EntryOf(q) = IF First(q).name = NoName THEN renamed ELSE First(q)
  BY DEF EntryOf
<1> HIDE DEF renamed
<1>6. /\ EntryOf(q) \in Entry /\ EntryOf(q).name = q /\ EntryOf(q).sum = First(q).sum
      /\ First(q).name # NoName => EntryOf(q) = First(q)
  BY <1>2, <1>3, <1>4, <1>5
<1>7. First(q) \notin {NoFile, Empty} /\ EntryOf(q) \notin {NoFile, Empty}
  BY <1>2, <1>6, BotPkgAssumption
<1>8. Parses(EntryOf(q))
  BY <1>6, <1>7, BotPkgAssumption DEF Parses
<1>9. Deps(EntryOf(q)) = Deps(First(q))
  BY <1>4, <1>5, <1>7, <1>8 DEF Deps, Parses
<1> QED
  BY <1>2, <1>3, <1>6, <1>7, <1>8, <1>9

LEMMA NothingNeeded == Range(Deps(Empty)) = {} /\ Range(Deps(NoFile)) = {}
BY DEF Deps, Parses, Range

LEMMA DepsSeq ==
    ASSUME NEW file \in File
    PROVE  Deps(file) \in Seq(Package) /\ Range(Deps(file)) \subseteq Package
<1>1. Deps(file) \in Seq(Package)
  BY EmptySeq DEF Deps, Parses, File, Entry
<1> QED
  BY <1>1 DEF Range

(* Steps do not bring calm back. *)
LEMMA CalmBefore ==
    ASSUME IInv, NEW p \in Process, Step(p), Calm'
    PROVE  Calm /\ faults' = 0
BY StepBusy DEF Calm

(* When commands do not overlap it is enough to look at the one that goes  *)
(* on, as r, and at the files.                                             *)
LEMMA CalmOne ==
    ASSUME IInv, ListInv, Serial, Calm, CalmInv, NEW p \in Process, Busy(p), NEW r, Become(p, r),
           CalmDisk', CalmOK(r)'
    PROVE  CalmInv'
<1>1. \A x \in Process : proc'[x] = IF x = p THEN r ELSE proc[x]
  BY DEF Become, IInv, TypeOK
<1>2. ASSUME NEW x \in Process, x # p
      PROVE  CalmOK(proc[x])'
  <2>1. proc[x].pc \in Stopped /\ proc'[x] = proc[x]
    BY <1>1, <1>2, OthersStopped
  <2>2. \A q \in Package : proc[x].view[q] \in {NoFile, Deps(First(q))}
    BY DEF CalmInv, CalmOK
  <2>3. At(proc[x]) \in Stopped
    BY <2>1 DEF At, Stopped
  <2> QED
    BY <2>1, <2>2, <2>3 DEF CalmOK, At, Stopped
<1>3. CalmOK(proc[p])'
  BY <1>1 DEF CalmOK, OrderOK
<1> QED
  BY <1>1, <1>2, <1>3 DEF CalmInv

(* When nothing was killed, the only file that can be empty is the one     *)
(* that the running command writes.                                        *)
LEMMA OnlyWriter ==
    ASSUME IInv, ListInv, Serial, NEW p \in Process, Busy(p), NEW q, Writes("db", q)
    PROVE  proc[p].pc = "write" /\ proc[p].handle = "db" /\ proc[p].cur = q
<1>1. PICK x \in Process : proc[x].handle = "db" /\ proc[x].cur = q
  BY DEF Writes
<1>2. proc[x].pc = "write"
  BY <1>1 DEF ListInv, ListOK
<1>3. x = p
  BY <1>2, OthersStopped DEF Stopped
<1> QED
  BY <1>1, <1>2, <1>3

(* Neither the database, the cache nor the repository changes. *)
LEMMA CalmDiskStays ==
    ASSUME IInv, ListInv, Serial, Calm, CalmInv, NEW p \in Process, Busy(p),
           proc[p].pc # "write" \/ proc[p].handle # "db",
           UNCHANGED <<db, repo, crashes>>,
           \A q \in Package : {cache'[q], fresh'[q], archive'[q]} \subseteq {NoFile, Empty, First(q)}
    PROVE  CalmDisk'
<1>1. CalmDisk
  BY DEF CalmInv
<1>2. crashes = 0 => \A q \in Package : db[q] # Empty
  BY <1>1, OnlyWriter DEF CalmDisk
<1> QED
  BY <1>1, <1>2 DEF CalmDisk, Present

LEMMA CalmEndName ==
    ASSUME NEW r \in Proc, WorkOK(r), r.pc \notin Stopped, CalmOK(r), NEW rc \in {0, 1},
           r.op = "install" => Present \subseteq Present'
    PROVE  CalmOK(EndName(r, rc))'
<1>e. PICK e : e = EndName(r, rc)
  OBVIOUS
<1>1. /\ e.pc = IF Tail(r.names) = <<>> THEN "done" ELSE r.op
      /\ e.op = r.op /\ e.mem = r.mem /\ e.view = NotRead
  BY <1>e, EndNameFields
<1>2. r.op \in {"install", "remove", "update"}
  BY DEF WorkOK, Proc
<1>3. /\ r.op = "install" => r.mem \subseteq Present'
      /\ r.op = "update" => ~NoUpdates
  BY DEF CalmOK
<1>4. \A q \in Package : e.view[q] = NoFile
  BY <1>1 DEF NotRead
<1>5. e.pc \in {"done", r.op} /\ At(e) = e.pc
  BY <1>1, <1>2 DEF At
<1>6. e.pc = "done" => CalmOK(e)'
  BY <1>4, <1>5 DEF CalmOK, Stopped
<1>7. ASSUME e.pc = r.op PROVE CalmOK(e)'
  <2>1. OpOf(e.pc) = e.op
    BY <1>1, <1>2, <1>7 DEF OpOf
  <2> QED
    BY <1>1, <1>2, <1>3, <1>4, <1>5, <1>7, <2>1 DEF CalmOK
<1>8. CalmOK(e)'
  BY <1>5, <1>6, <1>7
<1> QED
  BY <1>8, <1>e

(* What an install needs stays needed when entries are added. *)
LEMMA OrderMore ==
    ASSUME NEW r, OrderOK(r), Present \subseteq Present'
    PROVE  OrderOK(r)'
BY DEF OrderOK

(* ... and when the first package of the order is there. *)
LEMMA OrderNext ==
    ASSUME NEW r \in Proc, NEW s, OrderOK(r), r.order # <<>>, Head(r.order) \in Present,
           s.order = Tail(r.order), s.names = r.names
    PROVE  OrderOK(s)
<1>1. r.order \in Seq(Package) /\ Len(r.order) \in Nat \ {0}
  BY DEF Proc
<1>2. /\ s.order \in Seq(Package) /\ Len(s.order) = Len(r.order) - 1
      /\ \A i \in 1 .. Len(s.order) : s.order[i] = r.order[i + 1]
  BY <1>1
<1>3. r.order[1] \in Present /\ DOMAIN s.order = 1 .. Len(s.order)
  BY <1>1, <1>2
<1>4. Head(s.names) \in Present \cup Range(s.order)
  <2>1. CASE Head(s.names) \in Range(r.order) \ Present
    <3>1. PICK i \in 1 .. Len(r.order) : r.order[i] = Head(s.names)
      BY <1>1, <2>1 DEF Range
    <3>2. i # 1 /\ i - 1 \in 1 .. Len(s.order) /\ s.order[i - 1] = Head(s.names)
      BY <1>1, <1>2, <1>3, <2>1, <3>1
    <3> QED
      BY <1>3, <3>2 DEF Range
  <2> QED
    BY <2>1 DEF OrderOK
<1>5. ASSUME NEW i \in DOMAIN s.order, NEW d \in Needs(s.order[i])
      PROVE  d \in Present \/ \E j \in DOMAIN s.order : j < i /\ s.order[j] = d
  <2>1. i \in 1 .. Len(s.order) /\ i + 1 \in DOMAIN r.order /\ s.order[i] = r.order[i + 1]
    BY <1>1, <1>2
  <2>2. d \in Present \/ \E j \in DOMAIN r.order : j < i + 1 /\ r.order[j] = d
    BY <1>5, <2>1 DEF OrderOK
  <2>3. ASSUME NEW j \in DOMAIN r.order, j < i + 1, r.order[j] = d, d \notin Present
        PROVE  \E k \in DOMAIN s.order : k < i /\ s.order[k] = d
    <3>1. j # 1 /\ j \in 1 .. Len(r.order)
      BY <1>1, <1>3, <2>3
    <3>2. j - 1 \in 1 .. Len(s.order) /\ j - 1 < i /\ s.order[j - 1] = d
      BY <1>1, <1>2, <2>1, <2>3, <3>1
    <3> QED
      BY <1>2, <3>2
  <2> QED
    BY <2>2, <2>3
<1> QED
  BY <1>4, <1>5 DEF OrderOK

(* A process between two pieces of work. *)
LEMMA CalmPlainOK ==
    ASSUME NEW r, r.pc \in {"install", "each", "remove", "scan", "update"}, r.op = OpOf(r.pc),
           r.op = "install" => r.mem \subseteq Present', r.op = "update" => ~NoUpdates,
           \A q \in Package : r.view[q] \in {NoFile, Deps(First(q))},
           r.pc = "each" => OrderOK(r)'
    PROVE  CalmOK(r)'
<1>1. At(r) = r.pc
  BY DEF At
<1> QED
  BY <1>1 DEF CalmOK

LEMMA OpOfPlain ==
    /\ \A pc \in {"install", "loaded", "each", "parse", "archive", "verify", "registered",
                  "unloaded", "unfetched"} : OpOf(pc) = "install"
    /\ \A pc \in {"remove", "scan"} : OpOf(pc) = "remove"
    /\ \A pc \in {"update", "latest", "replace", "unreached"} : OpOf(pc) = "update"
BY DEF OpOf

(* All that is known of a running process. *)
Running(p, r) ==
    /\ r = proc[p] /\ r \in Proc /\ WorkOK(r) /\ CalmOK(r) /\ CalmDisk
    /\ Busy(p) /\ r.pc \notin Stopped
    /\ r.op = OpOf(At(r)) /\ Head(r.names) = Root(p) /\ Root(p) \in Package
    /\ UNCHANGED <<repo, crashes>>

LEMMA StepRunning ==
    ASSUME IInv, Calm, CalmInv, NEW p \in Process, Step(p)
    PROVE  \E r \in Proc : Running(p, r)
<1>1. /\ Busy(p) /\ TypeOK /\ WorkOK(proc[p]) /\ proc[p] \in Proc /\ UNCHANGED <<repo, crashes>>
      /\ Root(p) \in Package
  BY StepBusy
<1>2. CalmOK(proc[p]) /\ CalmDisk
  BY DEF CalmInv
<1> QED
  BY <1>1, <1>2 DEF Running, Busy, CalmOK, Root

(* A step that leaves the files as they are. *)
LEMMA CalmNoFiles ==
    ASSUME IInv, ListInv, Serial, Calm, CalmInv, NEW p \in Process, Busy(p), NEW r, Become(p, r),
           proc[p].pc # "write", UNCHANGED <<disk, repo, crashes>>, CalmOK(r)'
    PROVE  CalmInv'
<1>1. CalmDisk'
  BY CalmDiskStays DEF disk, CalmInv, CalmDisk
<1> QED
  BY <1>1, CalmOne

LEMMA CalmLoads ==
    ASSUME IInv, ListInv, Serial, StartsRight, Calm, CalmInv, NEW p \in Process,
           LoadLocal(p) \/ LoadParse(p)
    PROVE  CalmInv'
<1>1. PICK r \in Proc : Running(p, r)
  BY StepRunning DEF Step
<1>2. ASSUME NEW s \in Proc, s.pc = "install", s.op = r.op, s.mem = r.mem, r.op = "install",
             NEW q \in Package, NEW i \in Proc, i.view = r.view,
             s = Read(i, q, Deps(First(q))), Become(p, s), r.pc # "write",
             UNCHANGED <<disk, repo>>
      PROVE  CalmInv'
  <2>1. \A x \in Package : s.view[x] = IF x = q THEN Deps(First(q)) ELSE i.view[x]
    BY <1>2, ReadFields
  <2>2. \A x \in Package : r.view[x] \in {NoFile, Deps(First(x))}
    BY <1>1 DEF Running, CalmOK
  <2>3. r.mem \subseteq Present'
    BY <1>1, <1>2 DEF Running, CalmOK, Present, disk
  <2>4. CalmOK(s)'
    BY <1>2, <2>1, <2>2, <2>3, OpOfPlain, CalmPlainOK
  <2> QED
    BY <1>1, <1>2, <2>4, CalmNoFiles DEF Running
<1>3. CASE LoadLocal(p)
  <2>1. PICK q \in Package :
            /\ Parses(db[q]) \/ Parses(cache[q])
            /\ Become(p, Read(r, q, IF Parses(db[q]) THEN Deps(db[q]) ELSE Deps(cache[q])))
    BY <1>1, <1>3 DEF LoadLocal, Unread, Running
  <2>2. Deps(First(q)) = IF Parses(db[q]) THEN Deps(db[q]) ELSE Deps(cache[q])
    BY <1>1, <2>1, FirstEntry DEF Running, CalmDisk, Parses
  <2>3. PICK s : s = Read(r, q, Deps(First(q)))
    OBVIOUS
  <2>4. s.pc = "install" /\ s.op = r.op /\ s.mem = r.mem /\ r.pc = "install"
    BY <1>1, <1>3, <2>3, ReadFields DEF LoadLocal, Running
  <2>5. r.op = "install"
    BY <1>1, <2>4, OpOfPlain DEF Running, At
  <2>6. s \in Proc
    <3>1. Deps(First(q)) \in Seq(Package)
      BY FirstEntry, DepsSeq DEF File
    <3> QED
      BY <2>3, <3>1 DEF Read, Proc
  <2>7. UNCHANGED <<disk, repo>>
    BY <1>3 DEF LoadLocal
  <2> QED
    BY <1>2, <2>1, <2>2, <2>3, <2>4, <2>5, <2>6, <2>7
<1>4. CASE LoadParse(p)
  <2>1. PICK i : i = [r EXCEPT !.pc = "install"]
    OBVIOUS
  <2>2. r.pc = "loaded" /\ Become(p, Read(i, i.cur, Deps(cache[i.cur]))) /\ UNCHANGED <<disk, repo>>
    BY <1>1, <1>4, <2>1 DEF LoadParse, Running
  <2>3. /\ i \in Proc /\ i.pc = "install" /\ i.cur = r.cur /\ i.op = r.op /\ i.mem = r.mem
        /\ i.view = r.view
    BY <2>1 DEF Proc, PCs
  <2>4. r.cur \in Package /\ cache[r.cur] = First(r.cur)
    BY <1>1, <2>2 DEF Running, WorkOK, At, CalmOK
  <2>5. PICK s : s = Read(i, i.cur, Deps(First(r.cur)))
    OBVIOUS
  <2>6. s.pc = "install" /\ s.op = r.op /\ s.mem = r.mem
    BY <2>3, <2>4, <2>5, ReadFields
  <2>7. r.op = "install"
    BY <1>1, <2>2, OpOfPlain DEF Running, At
  <2>8. s \in Proc
    <3>1. Deps(First(r.cur)) \in Seq(Package)
      BY <2>4, FirstEntry, DepsSeq DEF File
    <3> QED
      BY <2>3, <2>4, <2>5, <3>1 DEF Read, Proc
  <2> QED
    BY <1>2, <2>2, <2>3, <2>4, <2>5, <2>6, <2>7, <2>8
<1> QED
  BY <1>3, <1>4

(* The name is dealt with and no file has changed. *)
LEMMA CalmEnds ==
    ASSUME IInv, ListInv, Serial, Calm, CalmInv, NEW p \in Process, NEW rc \in {0, 1},
           Step(p), Become(p, EndName(proc[p], rc)), proc[p].pc # "write", UNCHANGED disk
    PROVE  CalmInv'
<1>1. PICK r \in Proc : Running(p, r)
  BY StepRunning
<1>2. Present' = Present
  BY DEF Present, disk
<1>3. CalmOK(EndName(r, rc))'
  BY <1>1, <1>2, CalmEndName DEF Running
<1> QED
  BY <1>1, <1>3, CalmNoFiles DEF Running

LEMMA CalmResolved ==
    ASSUME IInv, ListInv, Serial, StartsRight, Calm, CalmInv, NEW p \in Process, Resolved(p)
    PROVE  CalmInv'
<1>1. PICK r \in Proc : Running(p, r)
  BY StepRunning DEF Step
<1>2. PICK order \in Orders :
          /\ IsInstallOrder(Graph(p), Root(p), order)
          /\ LET f == Found(r, Range(order))
             IN  Become(p, IF Range(order) \subseteq f.mem
                             THEN EndName(f, 0)
                             ELSE [f EXCEPT !.pc = "each", !.order = order, !.view = NotRead])
  BY <1>1 DEF Resolved, Running
<1>3. r.pc = "install" /\ Unread(p) = {} /\ UNCHANGED <<disk, repo, budget>>
  BY <1>1 DEF Resolved, Running
<1>4. PICK n \in 1 .. Cardinality(Package) : order \in [1 .. n -> Package]
  BY DEF Orders
<1>5. order \in Seq(Package) /\ Range(order) \subseteq Package /\ DOMAIN order = 1 .. n
  <2>1. n \in Nat
    OBVIOUS
  <2> QED
    BY <1>4, <2>1 DEF Range
<1>6. PICK f : f = Found(r, Range(order))
  OBVIOUS
<1>7. /\ f \in Proc /\ WorkOK(f) /\ f.pc = "install" /\ f.op = r.op /\ f.names = r.names
      /\ f.mem = r.mem \cup (Range(order) \cap Present) /\ f.view = r.view
  BY <1>1, <1>3, <1>5, <1>6, FoundOK, FoundFields DEF Running, IInv
<1>8. /\ Present' = Present /\ r.op = "install"
      /\ f.mem \subseteq Present
      /\ \A q \in Package : f.view[q] \in {NoFile, Deps(First(q))}
  BY <1>1, <1>3, <1>7, OpOfPlain DEF Running, CalmOK, At, Present, disk
<1>9. CASE Become(p, EndName(f, 0))
  <2>1. CalmOK(f)
    BY <1>7, <1>8, OpOfPlain DEF CalmOK, At
  <2>2. CalmOK(EndName(f, 0))'
    BY <1>7, <1>8, <2>1, CalmEndName DEF Stopped
  <2> QED
    BY <1>1, <1>3, <1>9, <2>2, CalmNoFiles DEF Running
<1>10. CASE Become(p, [f EXCEPT !.pc = "each", !.order = order, !.view = NotRead])
  <2>1. PICK g : g = [f EXCEPT !.pc = "each", !.order = order, !.view = NotRead]
    OBVIOUS
  <2>2. /\ g.pc = "each" /\ g.order = order /\ g.op = r.op /\ g.names = r.names
        /\ g.mem = f.mem /\ \A q \in Package : g.view[q] = NoFile
    BY <1>7, <2>1 DEF Proc, NotRead
  <2>3. ASSUME NEW q \in Range(order)
        PROVE  proc[p].view[q] # NoFile
    <3>1. PICK i \in DOMAIN order : order[i] = q
      BY DEF Range
    <3>2. CASE order[i] = Root(p)
      BY <1>1, <1>3, <3>1, <3>2 DEF Unread, Running
    <3>3. CASE order[i] # Root(p)
      <4>1. i < Len(order)
        BY <1>2, <1>5, <3>1, <3>3 DEF IsInstallOrder, NothingExtra
      <4>2. PICK j \in DOMAIN order : order[i] \in Range(Graph(p)[order[j]])
        BY <1>2, <4>1 DEF IsInstallOrder, NothingExtra
      <4>3. order[j] \in Package /\ q \in Package
        BY <1>5 DEF Range
      <4>4. proc[p].view[order[j]] # NoFile /\ q \in Range(proc[p].view[order[j]])
        BY <3>1, <4>2, <4>3 DEF Graph, Range
      <4> QED
        BY <1>3, <4>3, <4>4 DEF Unread
    <3> QED
      BY <3>2, <3>3
  <2>4. ASSUME NEW q \in Range(order)
        PROVE  Range(Graph(p)[q]) = Needs(q)
    <3>1. q \in Package
      BY <1>5
    <3>2. proc[p].view[q] = Deps(First(q))
      BY <1>1, <2>3, <3>1 DEF Running, CalmOK
    <3> QED
      BY <2>3, <3>1, <3>2 DEF Graph, Needs
  <2>5. Root(p) \in Range(order)
    BY <1>2, <1>5 DEF IsInstallOrder, NothingExtra, Range
  <2>6. OrderOK(g)
    <3>1. ASSUME NEW i \in DOMAIN order, NEW d \in Needs(order[i])
          PROVE  \E j \in DOMAIN order : j < i /\ order[j] = d
      <4>1. d \in Range(Graph(p)[order[i]])
        BY <2>4 DEF Range
      <4> QED
        BY <1>2, <4>1 DEF IsInstallOrder, DependenciesFirst
    <3> QED
      BY <1>1, <2>2, <2>5, <3>1 DEF OrderOK, Running
  <2>7. CalmOK(g)'
    BY <1>8, <2>2, <2>6, OrderMore, OpOfPlain, CalmPlainOK
  <2> QED
    BY <1>1, <1>3, <1>10, <2>1, <2>7, CalmNoFiles DEF Running
<1> QED
  BY <1>2, <1>6, <1>9, <1>10

LEMMA FaultNotCalm ==
    ASSUME IInv, Fault
    PROVE  ~Calm'
BY FaultBudget DEF Calm, IInv

LEMMA TornNotCalm ==
    ASSUME IInv, NEW p \in Process, RegisterTorn(p)
    PROVE  ~Calm'
BY TornBudget DEF Calm, IInv

LEMMA CalmNextPackage ==
    ASSUME NEW r \in Proc, CalmOK(r), r.pc \notin Stopped, r.op = "install",
           r.order # <<>>, Head(r.order) \in Present, OrderOK(r),
           Present' = Present
    PROVE  CalmOK(NextPackage(r))'
<1>1. PICK n : n = NextPackage(r)
  OBVIOUS
<1>2. /\ n.pc = "each" /\ n.order = Tail(r.order) /\ n.op = r.op /\ n.names = r.names
      /\ n.mem = r.mem /\ n.view = r.view
  BY <1>1, NextPackageFields
<1>3. OrderOK(n)'
  BY <1>2, OrderNext, OrderMore
<1>4. CalmOK(n)'
  <2>1. n.mem \subseteq Present' /\ \A q \in Package : n.view[q] \in {NoFile, Deps(First(q))}
    BY <1>2 DEF CalmOK
  <2> QED
    BY <1>2, <1>3, <2>1, OpOfPlain, CalmPlainOK
<1> QED
  BY <1>1, <1>4

LEMMA CalmPlain ==
    ASSUME IInv, ListInv, Serial, StartsRight, Calm, CalmInv, NEW p \in Process, PlainStep(p), Calm'
    PROVE  CalmInv'
<1>0. Step(p) /\ UNCHANGED disk /\ proc[p].pc # "write"
  BY PlainForm DEF Step, PlainStep
<1>1. PICK r \in Proc : Running(p, r)
  BY <1>0, StepRunning
<1>2. Present' = Present /\ r = proc[p] /\ At(r) = r.pc
  BY <1>0, <1>1 DEF Present, disk, Running, At
<1>3. CASE LoadLeaf(p) \/ FetchArchiveFails(p) \/ RegisterFails(p) \/ FetchUpdateFails(p)
  BY <1>3, FaultNotCalm DEF LoadLeaf, FetchArchiveFails, RegisterFails, FetchUpdateFails
<1>u. CASE LoadFailed(p) \/ ArchiveFailed(p) \/ UpdateFailed(p)
  <2>1. r.pc \notin {"unloaded", "unfetched", "unreached"}
    BY <1>1, <1>2 DEF Running, CalmOK
  <2> QED
    BY <1>2, <1>u, <2>1 DEF LoadFailed, ArchiveFailed, UpdateFailed
<1>4. CASE LoadLocal(p) \/ LoadParse(p) \/ Resolved(p)
  BY <1>4, CalmLoads, CalmResolved
<1>5. CASE ResolveFails(p) \/ Installed(p) \/ UpdateMissing(p) \/ ReplaceFails(p)
  <2>1. \E rc \in {0, 1} : Become(p, EndName(r, rc))
    BY <1>2, <1>5 DEF ResolveFails, Installed, UpdateMissing, ReplaceFails
  <2> QED
    BY <1>0, <1>2, <2>1, CalmEnds
<1>6. CASE SkipInstalled(p)
  <2>1. /\ r.pc = "each" /\ r.order # <<>> /\ IsInstalled(r, Head(r.order))
        /\ Become(p, NextPackage(Found(r, {Head(r.order)})))
    BY <1>2, <1>6 DEF SkipInstalled
  <2>2. Head(r.order) \in Package
    BY <2>1 DEF Proc
  <2>3. PICK f : f = Found(r, {Head(r.order)})
    OBVIOUS
  <2>4. /\ f \in Proc /\ WorkOK(f) /\ f.pc = "each" /\ f.op = r.op /\ f.names = r.names
        /\ f.mem = r.mem \cup ({Head(r.order)} \cap Present) /\ f.view = r.view
        /\ f.order = r.order
    BY <1>1, <2>1, <2>2, <2>3, FoundOK, FoundFields DEF Running, IInv
  <2>5. r.op = "install" /\ r.mem \subseteq Present /\ OrderOK(r)
    BY <1>1, <1>2, <2>1, OpOfPlain DEF Running, CalmOK
  <2>6. Head(r.order) \in Present
    BY <2>1, <2>5 DEF IsInstalled
  <2>7. OrderOK(f)
    BY <2>4, <2>5 DEF OrderOK
  <2>8. CalmOK(f)
    BY <1>1, <2>4, <2>5, <2>7, OpOfPlain DEF Running, CalmOK, At
  <2>9. CalmOK(NextPackage(f))'
    <3>1. /\ f.pc \notin Stopped /\ f.op = "install" /\ f.order # <<>>
          /\ Head(f.order) \in Present
      BY <2>1, <2>4, <2>5, <2>6 DEF Stopped
    <3> QED
      BY <1>2, <2>4, <2>7, <2>8, <3>1, CalmNextPackage
  <2> QED
    BY <1>0, <1>1, <2>1, <2>3, <2>9, CalmNoFiles DEF Running
<1>7. CASE Registered(p)
  <2>1. r.pc = "registered" /\ Become(p, NextPackage(r))
    BY <1>2, <1>7 DEF Registered
  <2>2. r.op = "install" /\ r.order # <<>> /\ Head(r.order) \in Present /\ OrderOK(r)
    BY <1>1, <1>2, <2>1, OpOfPlain DEF Running, CalmOK, WorkOK
  <2>3. CalmOK(NextPackage(r))'
    BY <1>1, <1>2, <2>2, CalmNextPackage DEF Running
  <2> QED
    BY <1>0, <1>1, <2>1, <2>3, CalmNoFiles DEF Running
<1>8. CASE RemoveStart(p)
  <2>1. r.pc = "remove" /\ r.op = "remove"
    BY <1>1, <1>2, <1>8, OpOfPlain DEF RemoveStart, Running
  <2>2. CASE Become(p, EndName(r, 1))
    BY <1>0, <1>2, <2>2, CalmEnds
  <2>3. CASE Become(p, [Found(r, {Root(p)}) EXCEPT !.pc = "scan", !.left = Present])
    <3>1. PICK f : f = Found(r, {Root(p)})
      OBVIOUS
    <3>2. PICK g : g = [f EXCEPT !.pc = "scan", !.left = Present]
      OBVIOUS
    <3>3. f \in Proc /\ f.op = r.op /\ f.view = r.view
      BY <1>1, <3>1, FoundOK, FoundFields DEF Running, IInv
    <3>4. g.pc = "scan" /\ g.op = "remove" /\ g.view = r.view
      BY <2>1, <3>2, <3>3 DEF Proc
    <3>5. CalmOK(g)'
      BY <1>1, <3>4, OpOfPlain, CalmPlainOK DEF Running, CalmOK
    <3> QED
      BY <1>0, <1>1, <2>3, <3>1, <3>2, <3>5, CalmNoFiles DEF Running
  <2> QED
    BY <1>2, <1>8, <2>2, <2>3 DEF RemoveStart
<1>9. CASE Scan(p)
  <2>1. r.pc = "scan" /\ r.op = "remove"
    BY <1>1, <1>2, <1>9, OpOfPlain DEF Scan, Running
  <2>2. PICK q : Become(p, EndName(r, 1)) \/ Become(p, [r EXCEPT !.left = @ \ {q}])
    BY <1>2, <1>9 DEF Scan
  <2>3. CASE Become(p, EndName(r, 1))
    BY <1>0, <1>2, <2>3, CalmEnds
  <2>4. CASE Become(p, [r EXCEPT !.left = @ \ {q}])
    <3>2. PICK g : g = [r EXCEPT !.left = @ \ {q}]
      OBVIOUS
    <3>4. g.pc = "scan" /\ g.op = "remove" /\ g.view = r.view
      BY <2>1, <3>2 DEF Proc
    <3>5. CalmOK(g)'
      BY <1>1, <3>4, OpOfPlain, CalmPlainOK DEF Running, CalmOK
    <3> QED
      BY <1>0, <1>1, <2>4, <3>2, <3>5, CalmNoFiles DEF Running
  <2> QED
    BY <2>2, <2>3, <2>4
<1> QED
  BY <1>3, <1>u, <1>4, <1>5, <1>6, <1>7, <1>8, <1>9 DEF PlainStep

LEMMA CalmParses ==
    ASSUME IInv, ListInv, Serial, StartsRight, Calm, CalmInv, NEW p \in Process, Calm',
           FetchManifestFails(p) \/ ParseManifest(p) \/ ParseUpdate(p)
    PROVE  CalmInv'
<1>1. PICK r \in Proc : Running(p, r)
  BY StepRunning DEF Step
<1>2. UNCHANGED disk /\ r.pc # "write" /\ Present' = Present /\ r = proc[p] /\ At(r) = r.pc
  BY <1>1 DEF FetchManifestFails, ParseManifest, ParseUpdate, Present, disk, Running, At
<1>3. CASE FetchManifestFails(p)
  BY <1>3, FaultNotCalm DEF FetchManifestFails
<1>4. CASE ParseManifest(p)
  <2> DEFINE file == cache[r.cur]
             placeholder == [name |-> r.cur, ver |-> 0, deps |-> <<>>, sum |-> NoSum]
             pkg == IF file \in {NoFile, Empty} THEN placeholder
                    ELSE IF Parses(file) THEN file
                    ELSE [file EXCEPT !.name = r.cur, !.deps = <<>>]
  <2>1. r.pc = "parse" /\ Become(p, [r EXCEPT !.pc = "archive", !.pkg = pkg])
    BY <1>2, <1>4 DEF ParseManifest
  <2>2. r.cur \in Package /\ file = First(r.cur)
    BY <1>1, <2>1 DEF Running, WorkOK, At, CalmOK
  <2>3. pkg = EntryOf(r.cur)
    <3>1. Parses(file) <=> file.name # NoName
      BY <2>2, FirstEntry DEF Parses
    <3>2. file \notin {NoFile, Empty}
      BY <2>2, FirstEntry
    <3>3. CASE Parses(file)
      BY <2>2, <3>1, <3>2, <3>3, FirstEntry
    <3>4. CASE ~Parses(file)
      <4>1. pkg = [First(r.cur) EXCEPT !.name = r.cur, !.deps = <<>>]
        BY <2>2, <3>2, <3>4
      <4> QED
        BY <2>2, <3>1, <3>4, <4>1 DEF EntryOf
    <3> QED
      BY <3>3, <3>4
  <2>4. PICK s : s = [r EXCEPT !.pc = "archive", !.pkg = pkg]
    OBVIOUS
  <2> HIDE DEF pkg
  <2>5. /\ s.pc = "archive" /\ s.pkg = EntryOf(r.cur) /\ s.cur = r.cur /\ s.order = r.order
        /\ s.op = r.op /\ s.mem = r.mem /\ s.view = r.view /\ s.names = r.names
    BY <2>3, <2>4 DEF Proc
  <2>6. r.op = "install" /\ r.mem \subseteq Present /\ OrderOK(r) /\ r.cur = Head(r.order)
    BY <1>1, <1>2, <2>1, OpOfPlain DEF Running, CalmOK
  <2>7. OrderOK(s)'
    BY <1>2, <2>5, <2>6, OrderMore DEF OrderOK
  <2>8. CalmOK(s)'
    <3>1. At(s) = "archive" /\ OpOf("archive") = "install"
      BY <2>5, OpOfPlain DEF At
    <3>2. \A q \in Package : s.view[q] \in {NoFile, Deps(First(q))}
      BY <1>1, <2>5 DEF Running, CalmOK
    <3> QED
      BY <1>2, <2>5, <2>6, <2>7, <3>1, <3>2 DEF CalmOK
  <2> QED
    BY <1>1, <1>2, <2>1, <2>4, <2>8, CalmNoFiles DEF Running
<1>5. CASE ParseUpdate(p)
  <2>1. /\ r.pc = "latest" /\ Become(p, [r EXCEPT !.pc = "replace"])
        /\ Parses(fresh[Root(p)])
    BY <1>2, <1>5 DEF ParseUpdate
  <2>2. PICK s : s = [r EXCEPT !.pc = "replace"]
    OBVIOUS
  <2>3. s.pc = "replace" /\ s.op = r.op /\ s.view = r.view /\ s.names = r.names
    BY <2>2 DEF Proc
  <2>4. r.op = "update" /\ ~NoUpdates
    BY <1>1, <1>2, <2>1, OpOfPlain DEF Running, CalmOK
  <2>5. fresh'[Head(r.names)] = First(Head(r.names)) /\ Head(r.names) = Root(p)
    BY <1>1, <1>2, <2>1 DEF Running, CalmOK, disk
  <2>6. First(Head(r.names)).name # NoName
    BY <1>2, <2>1, <2>5 DEF Parses, disk
  <2>7. CalmOK(s)'
    <3>1. At(s) = "replace" /\ OpOf("replace") = "update"
      BY <2>3, OpOfPlain DEF At
    <3>2. \A q \in Package : s.view[q] \in {NoFile, Deps(First(q))}
      BY <1>1, <2>3 DEF Running, CalmOK
    <3> QED
      BY <2>3, <2>4, <2>5, <2>6, <3>1, <3>2 DEF CalmOK
  <2> QED
    BY <1>1, <1>2, <2>1, <2>2, <2>7, CalmNoFiles DEF Running
<1> QED
  BY <1>3, <1>4, <1>5

(* What the entry being written needs is there. *)
LEMMA FirstNeeds ==
    ASSUME NEW r \in Proc, WorkOK(r), CalmOK(r), At(r) = "registered"
    PROVE  Needs(Head(r.order)) \subseteq Present /\ Head(r.order) \in Package
<1>1. OrderOK(r) /\ r.order # <<>> /\ r.order \in Seq(Package)
  BY DEF CalmOK, WorkOK, Proc
<1>2. 1 \in DOMAIN r.order /\ r.order[1] = Head(r.order) /\ Head(r.order) \in Package
  BY <1>1
<1>3. ~ \E j \in DOMAIN r.order : j < 1
  BY <1>1
<1> QED
  BY <1>1, <1>2, <1>3 DEF OrderOK

LEMMA CalmWrite ==
    ASSUME IInv, ListInv, Serial, StartsRight, Calm, CalmInv, NEW p \in Process, Write(p)
    PROVE  CalmInv'
<1>0. TypeOK
  BY DEF IInv
<1>1. PICK r \in Proc : Running(p, r)
  BY StepRunning DEF Step
<1>2. PICK s : s = [r EXCEPT !.pc = r.next, !.next = "none", !.handle = "none", !.body = NoFile]
  OBVIOUS
<1>3. r.pc = "write" /\ Become(p, s)
  BY <1>1, <1>2 DEF Write, Running
<1>4. r.next \in {"loaded", "parse", "verify", "registered", "latest"} /\ At(r) = r.next
  BY <1>1, <1>3 DEF WorkOK, Proc, Running, At, CalmOK
<1>5. /\ s.pc = r.next /\ s.op = r.op /\ s.pkg = r.pkg /\ s.cur = r.cur /\ s.names = r.names
      /\ s.order = r.order /\ s.mem = r.mem /\ s.view = r.view /\ At(s) = r.next
  <2>1. s.pc = r.next
    BY <1>2 DEF Proc
  <2> QED
    BY <1>2, <1>4, <2>1 DEF Proc, At
<1>7. /\ r.next \in {"loaded", "parse"} => r.handle = "cache" /\ r.body = First(r.cur)
      /\ r.next = "verify" => r.handle = "archive" /\ r.body = First(r.cur)
      /\ r.next = "latest" => r.handle = "fresh" /\ r.body = First(r.cur) /\ r.cur = Head(r.names)
      /\ r.next = "registered" => r.handle = "db" /\ r.body = EntryOf(r.cur) /\ r.cur = Head(r.order)
  BY <1>1, <1>3 DEF Running, CalmOK
<1>8. r.cur \in Package
  <2>1. r.next = "latest" => Head(r.names) \in Package
    BY <1>1 DEF Running
  <2>2. r.next = "registered" => r.order \in Seq(Package) /\ r.order # <<>>
    BY <1>1, <1>4 DEF Running, WorkOK, Proc
  <2> QED
    BY <1>1, <1>4, <1>7, <2>1, <2>2 DEF Running, WorkOK
<1>c. /\ db[r.cur] \in {NoFile, Empty, EntryOf(r.cur)}
      /\ {cache[r.cur], fresh[r.cur], archive[r.cur]} \subseteq {NoFile, Empty, First(r.cur)}
  BY <1>1, <1>8 DEF Running, CalmDisk
<1>e. First(r.cur) \in Entry /\ EntryOf(r.cur) \in Entry /\ EntryOf(r.cur) # NoFile
  BY <1>8, FirstEntry
<1>f. /\ db[r.cur] \in File /\ cache[r.cur] \in File /\ fresh[r.cur] \in File
      /\ archive[r.cur] \in File
  BY <1>0, <1>8 DEF TypeOK
<1>6. /\ db' = IF r.handle = "db" THEN [db EXCEPT ![r.cur] = r.body] ELSE db
      /\ cache' = IF r.handle = "cache" THEN [cache EXCEPT ![r.cur] = r.body] ELSE cache
      /\ fresh' = IF r.handle = "fresh" THEN [fresh EXCEPT ![r.cur] = r.body] ELSE fresh
      /\ archive' = IF r.handle = "archive" THEN [archive EXCEPT ![r.cur] = r.body] ELSE archive
  <2>r. r = proc[p]
    BY <1>1 DEF Running
  <2>1. CASE r.handle = "db"
    <3>1. r.body = EntryOf(r.cur)
      BY <1>4, <1>7, <2>1
    <3>2. PICK file \in Over(db[r.cur], r.body) : db' = [db EXCEPT ![r.cur] = file]
      BY <2>r, <2>1, WriteForm
    <3>3. file = r.body
      BY <1>c, <1>e, <1>f, <3>1, OverFile
    <3> QED
      BY <2>r, <2>1, <3>2, <3>3, WriteForm
  <2>2. CASE r.handle = "cache"
    <3>1. r.body = First(r.cur)
      BY <1>4, <1>7, <2>2
    <3>2. PICK file \in Over(cache[r.cur], r.body) : cache' = [cache EXCEPT ![r.cur] = file]
      BY <2>r, <2>2, WriteForm
    <3>3. file = r.body
      BY <1>c, <1>e, <1>f, <3>1, OverFile
    <3> QED
      BY <2>r, <2>2, <3>2, <3>3, WriteForm
  <2>3. CASE r.handle = "fresh"
    <3>1. r.body = First(r.cur)
      BY <1>4, <1>7, <2>3
    <3>2. PICK file \in Over(fresh[r.cur], r.body) : fresh' = [fresh EXCEPT ![r.cur] = file]
      BY <2>r, <2>3, WriteForm
    <3>3. file = r.body
      BY <1>c, <1>e, <1>f, <3>1, OverFile
    <3> QED
      BY <2>r, <2>3, <3>2, <3>3, WriteForm
  <2>4. CASE r.handle = "archive"
    <3>1. r.body = First(r.cur)
      BY <1>4, <1>7, <2>4
    <3>2. PICK file \in OverArchive(archive[r.cur], r.body) : archive' = [archive EXCEPT ![r.cur] = file]
      BY <2>r, <2>4, WriteForm
    <3>3. file = r.body
      BY <1>c, <1>e, <1>f, <3>1, OverArchiveFile
    <3> QED
      BY <2>r, <2>4, <3>2, <3>3, WriteForm
  <2>5. r.handle \in {"db", "cache", "fresh", "archive"}
    BY <1>4, <1>7
  <2> QED
    BY <2>1, <2>2, <2>3, <2>4, <2>5
<1>9. Present \subseteq Present'
  BY <1>0, <1>6, <1>7, <1>4, <1>8, FirstEntry DEF Present, TypeOK
<1>10. CalmDisk'
  <2>1. \A q \in Package : {cache'[q], fresh'[q], archive'[q]} \subseteq {NoFile, Empty, First(q)}
    <3> SUFFICES ASSUME NEW q \in Package
                 PROVE  {cache'[q], fresh'[q], archive'[q]} \subseteq {NoFile, Empty, First(q)}
      OBVIOUS
    <3>1. {cache[q], fresh[q], archive[q]} \subseteq {NoFile, Empty, First(q)}
      BY <1>1 DEF Running, CalmDisk
    <3>2. r.handle \in {"cache", "fresh", "archive"} => r.body = First(r.cur)
      BY <1>4, <1>7
    <3>3. cache'[q] \in {NoFile, Empty, First(q)}
      BY <1>0, <1>6, <1>8, <3>1, <3>2 DEF TypeOK
    <3>4. fresh'[q] \in {NoFile, Empty, First(q)}
      BY <1>0, <1>6, <1>8, <3>1, <3>2 DEF TypeOK
    <3>5. archive'[q] \in {NoFile, Empty, First(q)}
      BY <1>0, <1>6, <1>8, <3>1, <3>2 DEF TypeOK
    <3> QED
      BY <3>3, <3>4, <3>5
  <2>2. CASE r.handle # "db"
    <3>1. UNCHANGED <<db, repo, crashes>>
      BY <1>1, <1>6, <2>2 DEF Running
    <3> QED
      BY <1>1, <2>1, <2>2, <3>1, CalmDiskStays DEF Running
  <2>3. CASE r.handle = "db"
    <3>1. r.next = "registered" /\ r.cur = Head(r.order) /\ r.body = EntryOf(r.cur)
      BY <1>4, <1>7, <2>3
    <3>2. db' = [db EXCEPT ![r.cur] = EntryOf(r.cur)]
      BY <1>6, <2>3, <3>1
    <3>3. Needs(r.cur) \subseteq Present
      BY <1>1, <1>4, <3>1, FirstNeeds DEF Running
    <3>4. \A q \in Package : Range(Deps(db'[q])) \subseteq Present'
      <4>1. Range(Deps(EntryOf(r.cur))) \subseteq Present'
        BY <1>8, <1>9, <3>3, FirstEntry DEF Needs
      <4>2. \A q \in Package : Range(Deps(db[q])) \subseteq Present'
        BY <1>1, <1>9 DEF Running, CalmDisk
      <4> QED
        BY <1>0, <1>8, <3>2, <4>1, <4>2 DEF TypeOK
    <3>5. ASSUME NEW q \in Package, crashes = 0
          PROVE  db'[q] # Empty
      <4>1. db[q] = Empty => q = r.cur
        BY <1>1, <3>5, OnlyWriter DEF Running, CalmDisk
      <4> QED
        BY <1>0, <1>8, <3>2, <4>1, FirstEntry DEF TypeOK
    <3>6. \A q \in Package : db'[q] \in {NoFile, Empty, EntryOf(q)} /\ repo'[q] = 1
      BY <1>0, <1>1, <1>8, <3>2 DEF Running, CalmDisk, TypeOK
    <3> QED
      BY <1>1, <2>1, <3>4, <3>5, <3>6 DEF CalmDisk, Running
  <2> QED
    BY <2>2, <2>3
<1>11. CalmOK(s)'
  <2>1. r.op = OpOf(r.next) /\ (r.op = "update" => ~NoUpdates)
    BY <1>1, <1>4 DEF Running, CalmOK
  <2>2. r.op = "install" => s.mem \subseteq Present'
    BY <1>1, <1>5, <1>9 DEF Running, CalmOK
  <2>3. \A q \in Package : s.view[q] \in {NoFile, Deps(First(q))}
    BY <1>1, <1>5 DEF Running, CalmOK
  <2>4. s.pc \in {"loaded", "parse"} => cache'[s.cur] = First(s.cur)
    BY <1>0, <1>5, <1>6, <1>7, <1>8 DEF TypeOK
  <2>5. s.pc = "verify" => archive'[s.cur] = First(s.cur)
    BY <1>0, <1>5, <1>6, <1>7, <1>8 DEF TypeOK
  <2>6. s.pc = "latest" => fresh'[Head(s.names)] = First(Head(s.names))
    BY <1>0, <1>5, <1>6, <1>7, <1>8 DEF TypeOK
  <2>7. /\ At(s) \in {"parse", "archive", "verify"} => s.cur = Head(s.order)
        /\ At(s) \in {"archive", "verify"} => s.pkg = EntryOf(s.cur)
        /\ At(s) = "registered" => Head(s.order) \in Present'
    BY <1>1, <1>4, <1>5, <1>9 DEF Running, CalmOK
  <2>8. At(s) \in {"parse", "verify", "registered"} => OrderOK(s)'
    <3>1. At(s) \in {"parse", "verify", "registered"} => OrderOK(s)
      BY <1>1, <1>4, <1>5 DEF Running, CalmOK, OrderOK
    <3> QED
      BY <1>9, <3>1, OrderMore
  <2> QED
    BY <1>4, <1>5, <2>1, <2>2, <2>3, <2>4, <2>5, <2>6, <2>7, <2>8 DEF CalmOK
<1> QED
  BY <1>1, <1>3, <1>10, <1>11, CalmOne DEF Running

LEMMA CalmServed ==
    ASSUME CalmDisk, NEW q \in Package
    PROVE  Served(q) = First(q)
BY DEF CalmDisk, Served, First

LEMMA CalmDownloads ==
    ASSUME IInv, ListInv, Serial, StartsRight, Calm, CalmInv, NEW p \in Process, Calm',
           LoadDownload(p) \/ FetchManifest(p) \/ FetchArchive(p) \/ FetchUpdate(p)
    PROVE  CalmInv'
<1>0. TypeOK
  BY DEF IInv
<1>1. PICK r \in Proc : Running(p, r)
  BY StepRunning DEF Step
<1>d. ASSUME NEW next \in {"loaded", "parse", "verify", "latest"},
             NEW failed \in {"parse", "unloaded", "unfetched", "unreached"}, NEW q \in Package,
             NEW where, NEW cut, r.pc # "write",
             next \in {"loaded", "parse"} => where = "cache" /\ r.op = "install",
             next = "parse" => r.pc = "each" /\ q = Head(r.order),
             next = "verify" => where = "archive" /\ r.pc = "archive" /\ q = r.cur,
             next = "latest" => where = "fresh" /\ r.pc = "update" /\ q = Head(r.names),
             Downloads(p, next, failed, q, where, Served(q), cut),
             db' = db,
             cache' = cache \/ cache' = [cache EXCEPT ![q] = Empty],
             fresh' = fresh \/ fresh' = [fresh EXCEPT ![q] = Empty],
             archive' = archive \/ archive' = [archive EXCEPT ![q] = Empty]
      PROVE  CalmInv'
  <2>0. \E body \in {Served(q)} \cup cut, after \in {next, failed} :
            /\ Become(p, Opened(proc[p], after, q, where, body))
            /\ (body = Served(q) /\ after = next) \/ (faults' # 0 /\ MaxFaults # 0)
            /\ faults' = 0 => faults = 0
    BY <1>0, <1>d, DownloadsForm
  <2>1. PICK body \in {Served(q)} \cup cut, after \in {next, failed} :
            /\ Become(p, Opened(r, after, q, where, body))
            /\ (body = Served(q) /\ after = next) \/ faults' # 0
    BY <1>1, <2>0 DEF Running
  <2>n. after = next /\ body = Served(q)
    BY <2>1 DEF Calm
  <2>2. PICK o : o = Opened(r, after, q, where, body)
    OBVIOUS
  <2>3. /\ o.pc = "write" /\ o.next = next /\ o.handle = where /\ o.cur = q /\ o.body = body
        /\ o.pkg = r.pkg /\ o.op = r.op /\ o.mem = r.mem /\ o.view = r.view
        /\ o.order = r.order /\ o.names = r.names
    BY <2>2, <2>n, OpenedFields
  <2>4. body = First(q)
    BY <1>1, <2>n, CalmServed DEF Running
  <2>5. At(o) = next /\ Present' = Present /\ At(r) = r.pc
    BY <1>d, <2>3 DEF At, Present
  <2>6. r.op = OpOf(next) /\ (r.op = "update" => ~NoUpdates)
    BY <1>1, <1>d, <2>5, OpOfPlain DEF Running, CalmOK
  <2>7. /\ r.op = "install" => o.mem \subseteq Present'
        /\ \A x \in Package : o.view[x] \in {NoFile, Deps(First(x))}
    BY <1>1, <2>3, <2>5 DEF Running, CalmOK
  <2>8. next = "verify" => o.cur = Head(o.order) /\ o.pkg = EntryOf(o.cur)
    BY <1>1, <1>d, <2>3, <2>5 DEF Running, CalmOK
  <2>9. next \in {"parse", "verify"} => OrderOK(o)'
    <3>1. next \in {"parse", "verify"} => OrderOK(r)
      BY <1>1, <1>d, <2>5 DEF Running, CalmOK
    <3>2. next \in {"parse", "verify"} => OrderOK(o)
      BY <2>3, <3>1 DEF OrderOK
    <3> QED
      BY <2>5, <3>2, OrderMore
  <2>10. CalmOK(o)'
    BY <1>d, <2>3, <2>4, <2>5, <2>6, <2>7, <2>8, <2>9 DEF CalmOK
  <2>11. CalmDisk'
    <3>1. \A x \in Package : {cache'[x], fresh'[x], archive'[x]} \subseteq {NoFile, Empty, First(x)}
      BY <1>0, <1>1, <1>d DEF Running, CalmDisk, TypeOK
    <3> QED
      BY <1>1, <1>d, <3>1, CalmDiskStays DEF Running
  <2> QED
    BY <1>1, <2>1, <2>2, <2>10, <2>11, CalmOne DEF Running
<1>o. r.pc # "write" => At(r) = r.pc
  BY DEF At
<1>2. CASE LoadDownload(p)
  <2>1. PICK q \in Package : /\ Downloads(p, "loaded", "unloaded", q, "cache", Served(q), Cut(Served(q)))
                             /\ cache' = [cache EXCEPT ![q] = Empty]
    BY <1>2 DEF LoadDownload, Unread
  <2>2. r.pc = "install" /\ r.op = "install" /\ UNCHANGED <<db, fresh, archive>>
    BY <1>1, <1>o, <1>2, OpOfPlain DEF LoadDownload, Running
  <2> QED
    BY <1>d, <2>1, <2>2
<1>3. CASE FetchManifest(p)
  <2>1. r.pc = "each" /\ r.op = "install" /\ UNCHANGED <<db, fresh, archive>>
        /\ Head(r.order) \in Package
    BY <1>1, <1>o, <1>3, OpOfPlain DEF FetchManifest, Running, Proc
  <2> QED
    BY <1>1, <1>d, <1>3, <2>1 DEF FetchManifest, Running
<1>4. CASE FetchArchive(p)
  <2>1. r.cur \in Package /\ r.pc = "archive"
    BY <1>1, <1>4 DEF FetchArchive, WorkOK, At, Running
  <2> QED
    BY <1>1, <1>d, <1>4, <2>1 DEF FetchArchive, Running
<1>5. CASE FetchUpdate(p)
  <2>1. r.pc = "update" /\ Root(p) = Head(r.names) /\ Root(p) \in Package
    BY <1>1, <1>5 DEF FetchUpdate, Running
  <2> QED
    BY <1>d, <1>5, <2>1 DEF FetchUpdate
<1> QED
  BY <1>2, <1>3, <1>4, <1>5

LEMMA CalmRegister ==
    ASSUME IInv, ListInv, Serial, StartsRight, Calm, CalmInv, NEW p \in Process, Register(p)
    PROVE  CalmInv'
<1>0. TypeOK
  BY DEF IInv
<1>1. PICK r \in Proc : Running(p, r)
  BY StepRunning DEF Step
<1>2. PICK o : o = Opened(r, "registered", r.pkg.name, "db", r.pkg)
  OBVIOUS
<1>3. /\ r.pc = "verify" /\ Become(p, o) /\ db' = [db EXCEPT ![r.pkg.name] = Empty]
      /\ UNCHANGED <<cache, fresh, archive>>
  BY <1>1, <1>2 DEF Register, Registers, Running
<1>4. /\ r.pkg = EntryOf(r.cur) /\ r.cur = Head(r.order) /\ r.cur \in Package /\ OrderOK(r)
      /\ r.op = "install" /\ r.mem \subseteq Present
  BY <1>1, <1>3, OpOfPlain DEF Running, CalmOK, WorkOK, At
<1>5. r.pkg.name = r.cur
  BY <1>4, FirstEntry
<1>6. /\ o.pc = "write" /\ o.next = "registered" /\ o.handle = "db" /\ o.cur = r.cur
      /\ o.body = r.pkg /\ o.op = r.op /\ o.mem = r.mem /\ o.view = r.view /\ o.order = r.order
      /\ o.names = r.names
  BY <1>2, <1>5, OpenedFields
<1>7. /\ \A q \in Package : db'[q] = IF q = r.cur THEN Empty ELSE db[q]
      /\ Present' = Present \cup {r.cur}
  BY <1>0, <1>3, <1>4, <1>5, BotPkgAssumption DEF TypeOK, Present
<1>8. \A x \in Process : proc'[x] = IF x = p THEN o ELSE proc[x]
  BY <1>0, <1>3 DEF Become, TypeOK
<1>9. Writes("db", r.cur)'
  BY <1>6, <1>8 DEF Writes
<1>10. CalmDisk'
  <2>1. crashes = 0 => \A q \in Package : db[q] # Empty
    BY <1>1, <1>3, OnlyWriter DEF Running, CalmDisk
  <2>2. \A q \in Package : Range(Deps(db'[q])) \subseteq Present'
    BY <1>1, <1>7, NothingNeeded DEF Running, CalmDisk
  <2>3. \A q \in Package : /\ repo'[q] = 1
                           /\ db'[q] \in {NoFile, Empty, EntryOf(q)}
                           /\ {cache'[q], fresh'[q], archive'[q]} \subseteq {NoFile, Empty, First(q)}
                           /\ db'[q] = Empty /\ crashes' = 0 => Writes("db", q)'
    BY <1>1, <1>3, <1>7, <1>9, <2>1 DEF Running, CalmDisk
  <2> QED
    BY <2>2, <2>3 DEF CalmDisk
<1>11. CalmOK(o)'
  <2>1. At(o) = "registered"
    BY <1>6 DEF At
  <2>2. OrderOK(o)'
    <3>1. OrderOK(o)
      BY <1>4, <1>6 DEF OrderOK
    <3> QED
      BY <1>7, <3>1, OrderMore
  <2>3. \A x \in Package : o.view[x] \in {NoFile, Deps(First(x))}
    BY <1>1, <1>6 DEF Running, CalmOK
  <2> QED
    BY <1>4, <1>6, <1>7, <2>1, <2>2, <2>3, OpOfPlain DEF CalmOK
<1> QED
  BY <1>1, <1>3, <1>10, <1>11, CalmOne DEF Running

(* The checksums are right. *)
LEMMA CalmVerified ==
    ASSUME IInv, StartsRight, Calm, CalmInv, NEW p \in Process, Step(p), proc[p].pc = "verify"
    PROVE  Verified(p)
<1>1. PICK r \in Proc : Running(p, r)
  BY StepRunning
<1>2. r.pkg = EntryOf(r.cur) /\ archive[r.cur] = First(r.cur) /\ r.cur \in Package
  BY <1>1 DEF Running, CalmOK, WorkOK, At
<1> QED
  BY <1>1, <1>2, FirstEntry DEF Running, Verified

LEMMA CalmMoves ==
    ASSUME IInv, ListInv, Serial, StartsRight, Calm, CalmInv, NEW p \in Process,
           Reject(p) \/ Unregister(p) \/ RejectUpdate(p) \/ Replace(p)
    PROVE  CalmInv'
<1>0. TypeOK
  BY DEF IInv
<1>1. PICK r \in Proc : Running(p, r)
  BY StepRunning DEF Step
<1>2. r = proc[p] /\ r.pc # "write" /\ At(r) = r.pc
  BY <1>1 DEF Running, Reject, Unregister, RejectUpdate, Replace, At
<1>e. ASSUME NEW rc \in {0, 1}
      PROVE  EndName(r, rc) \in Proc
  BY <1>1, EndNameOK DEF Running
<1>3. CASE Reject(p)
  BY <1>3, CalmVerified DEF Reject, Step
<1>4. CASE Unregister(p)
  <2>1. /\ r.pc = "scan" /\ r.left = {} /\ db' = [db EXCEPT ![Root(p)] = NoFile]
        /\ Moved(p, EndName(r, 0), Root(p), Unlinked("db")) /\ UNCHANGED <<cache, fresh, archive>>
    BY <1>2, <1>4 DEF Unregister
  <2>2. Become(p, EndName(r, 0))
    BY <1>1, <1>e, <2>1, SerialMoved DEF Running, Unlinked
  <2>3. r.op = "remove"
    BY <1>1, <1>2, <2>1, OpOfPlain DEF Running
  <2>4. CalmOK(EndName(r, 0))'
    BY <1>1, <2>3, CalmEndName DEF Running
  <2>5. Root(p) \in Package /\ Root(p) = Head(r.names)
    BY <1>1 DEF Running
  <2>6. \A q \in Package : Root(p) \notin Range(Deps(db[q]))
    BY <1>2, <2>1, <2>5 DEF IInv, ScanOK
  <2>7. /\ \A q \in Package : db'[q] = IF q = Root(p) THEN NoFile ELSE db[q]
        /\ Present' = Present \ {Root(p)}
    BY <1>0, <2>1, <2>5 DEF TypeOK, Present
  <2>8. CalmDisk'
    <3>1. crashes = 0 => \A q \in Package : db[q] # Empty
      BY <1>1, <1>2, OnlyWriter DEF Running, CalmDisk
    <3>2. \A q \in Package : Range(Deps(db'[q])) \subseteq Present'
      BY <1>1, <2>6, <2>7, NothingNeeded DEF Running, CalmDisk
    <3>3. \A q \in Package : /\ repo'[q] = 1
                             /\ db'[q] \in {NoFile, Empty, EntryOf(q)}
                             /\ {cache'[q], fresh'[q], archive'[q]} \subseteq {NoFile, Empty, First(q)}
                             /\ db'[q] = Empty => crashes # 0
      BY <1>1, <2>1, <2>7, <3>1, BotPkgAssumption DEF Running, CalmDisk
    <3> QED
      BY <1>1, <3>2, <3>3 DEF CalmDisk, Running
  <2> QED
    BY <1>1, <2>2, <2>4, <2>8, CalmOne DEF Running
<1>5. CASE RejectUpdate(p)
  <2>1. /\ r.pc = "latest" /\ UNCHANGED <<db, cache, archive>>
        /\ fresh' = [fresh EXCEPT ![Root(p)] = NoFile]
        /\ Moved(p, EndName(r, 1), Root(p), Unlinked("fresh"))
    BY <1>2, <1>5 DEF RejectUpdate
  <2>2. Become(p, EndName(r, 1))
    BY <1>1, <1>e, <2>1, SerialMoved DEF Running, Unlinked
  <2>3. CalmOK(EndName(r, 1))'
    BY <1>1, <2>1, CalmEndName DEF Running, Present
  <2>f. \A q \in Package : fresh'[q] \in {NoFile, fresh[q]}
    BY <1>0, <2>1 DEF TypeOK
  <2>4. CalmDisk'
    <3>1. \A q \in Package : {cache'[q], fresh'[q], archive'[q]} \subseteq {NoFile, Empty, First(q)}
      BY <1>1, <2>1, <2>f DEF Running, CalmDisk
    <3> QED
      BY <1>1, <1>2, <2>1, <3>1, CalmDiskStays DEF Running
  <2> QED
    BY <1>1, <2>2, <2>3, <2>4, CalmOne DEF Running
<1>6. CASE Replace(p)
  <2>1. /\ r.pc = "replace" /\ UNCHANGED <<cache, archive>> /\ db[Root(p)] # NoFile
        /\ fresh' = [fresh EXCEPT ![Root(p)] = NoFile]
        /\ db' = [db EXCEPT ![Root(p)] = fresh[Root(p)]]
        /\ Moved(p, EndName(r, 0), Root(p), Renamed)
    BY <1>2, <1>6 DEF Replace
  <2>2. Become(p, EndName(r, 0))
    BY <1>1, <1>e, <2>1, SerialMoved DEF Running, Renamed
  <2>3. r.op = "update" /\ ~NoUpdates
    BY <1>1, <1>2, <2>1, OpOfPlain DEF Running, CalmOK
  <2>4. fresh[Root(p)] = EntryOf(Root(p)) /\ Root(p) \in Package
    BY <1>1, <2>1, FirstEntry DEF Running, CalmOK
  <2>5. db[Root(p)] # Empty
    BY <1>1, <1>2, <2>3, OnlyWriter DEF Running, CalmDisk, Calm
  <2>6. db' = db
    BY <1>0, <1>1, <2>1, <2>4, <2>5 DEF Running, CalmDisk, TypeOK
  <2>7. CalmOK(EndName(r, 0))'
    BY <1>1, <2>6, CalmEndName DEF Running, Present
  <2>f. \A q \in Package : fresh'[q] \in {NoFile, fresh[q]}
    BY <1>0, <2>1 DEF TypeOK
  <2>8. CalmDisk'
    <3>1. \A q \in Package : {cache'[q], fresh'[q], archive'[q]} \subseteq {NoFile, Empty, First(q)}
      BY <1>1, <2>1, <2>f DEF Running, CalmDisk
    <3> QED
      BY <1>1, <1>2, <2>6, <3>1, CalmDiskStays DEF Running
  <2> QED
    BY <1>1, <2>2, <2>7, <2>8, CalmOne DEF Running
<1> QED
  BY <1>3, <1>4, <1>5, <1>6

LEMMA CalmLaunch ==
    ASSUME IInv, ListInv, CalmInv, NEW p \in Process, Launch(p)
    PROVE  CalmInv'
<1>1. PICK c \in Commands :
          Become(p, [Idle EXCEPT !.pc = c.op, !.op = c.op, !.names = c.names])
  BY DEF Launch
<1>2. PICK s : s = [Idle EXCEPT !.pc = c.op, !.op = c.op, !.names = c.names]
  OBVIOUS
<1>3. /\ s.pc = c.op /\ s.op = c.op /\ s.mem = {} /\ s.view = NotRead
      /\ c.op \in {"install", "remove", "update"}
  BY <1>2, IdleFields, BotPkgAssumption DEF Proc
<1>4. /\ \A x \in Process : proc'[x] = IF x = p THEN s ELSE proc[x]
      /\ UNCHANGED <<db, cache, fresh, archive, repo, crashes>> /\ proc[p].pc = "idle"
      /\ Calm' = Calm
  BY <1>1, <1>2 DEF Launch, Become, IInv, TypeOK, disk, budget, Calm
<1>5. Present' = Present /\ proc[p].handle = "none"
  BY <1>4, NoneOpen DEF Present
<1>6. CalmOK(s)'
  <2>1. s.op = OpOf(s.pc)
    BY <1>3 DEF OpOf
  <2>2. s.op = "update" => ~NoUpdates
    BY <1>3 DEF NoUpdates
  <2>3. \A q \in Package : s.view[q] = NoFile
    BY <1>3 DEF NotRead
  <2> QED
    BY <1>3, <2>1, <2>2, <2>3, CalmPlainOK
<1>7. ASSUME NEW x \in Process, CalmOK(proc[x])
      PROVE  CalmOK(proc[x])'
  <2>1. CASE x = p
    BY <1>4, <1>6, <2>1 DEF CalmOK, OrderOK
  <2>2. CASE x # p
    <3>1. PICK t : t = proc[x] /\ t = proc'[x]
      BY <1>4, <2>2
    <3>2. CalmOK(t)
      BY <1>7, <3>1
    <3>3. CalmOK(t)'
      BY <1>4, <1>5, <3>2 DEF CalmOK, OrderOK
    <3> QED
      BY <3>1, <3>3 DEF CalmOK, OrderOK
  <2> QED
    BY <2>1, <2>2
<1>8. CalmDisk => CalmDisk'
  <2>1. \A q : Writes("db", q) => Writes("db", q)'
    BY <1>4, <1>5 DEF Writes
  <2> QED
    BY <1>4, <1>5, <2>1 DEF CalmDisk
<1> QED
  BY <1>4, <1>7, <1>8 DEF CalmInv

LEMMA CalmCrash ==
    ASSUME IInv, ListInv, CalmInv, NEW p \in Process, Crash(p)
    PROVE  CalmInv'
<1>1. PICK s : s = [Idle EXCEPT !.pc = "crashed"]
  OBVIOUS
<1>2. s.pc = "crashed" /\ s.view = NotRead
  BY <1>1, IdleFields DEF Proc
<1>3. /\ \A x \in Process : proc'[x] = IF x = p THEN s ELSE proc[x]
      /\ UNCHANGED <<db, cache, fresh, archive, repo>> /\ crashes' # 0
      /\ Calm' => Calm
  BY <1>1 DEF Crash, Become, IInv, TypeOK, disk, Calm
<1>4. Present' = Present
  BY <1>3 DEF Present
<1>5. CalmOK(s)'
  <2>1. \A q \in Package : s.view[q] = NoFile
    BY <1>2 DEF NotRead
  <2> QED
    BY <1>2, <2>1 DEF CalmOK, At, Stopped
<1>6. ASSUME NEW x \in Process, CalmOK(proc[x])
      PROVE  CalmOK(proc[x])'
  <2>1. CASE x = p
    BY <1>3, <1>5, <2>1 DEF CalmOK, OrderOK
  <2>2. CASE x # p
    <3>1. PICK t : t = proc[x] /\ t = proc'[x]
      BY <1>3, <2>2
    <3>2. CalmOK(t)
      BY <1>6, <3>1
    <3>3. CalmOK(t)'
      BY <1>3, <1>4, <3>2 DEF CalmOK, OrderOK
    <3> QED
      BY <3>1, <3>3 DEF CalmOK, OrderOK
  <2> QED
    BY <2>1, <2>2
<1>7. CalmDisk => CalmDisk'
  BY <1>3, <1>4 DEF CalmDisk
<1> QED
  BY <1>3, <1>6, <1>7 DEF CalmInv

LEMMA CalmNext ==
    ASSUME IInv, ListInv, Serial, StartsRight, CalmInv, [Next]_vars
    PROVE  CalmInv'
<1>1. ASSUME NEW p \in Process, Launch(p) \/ Crash(p) PROVE CalmInv'
  BY <1>1, CalmLaunch, CalmCrash
<1>2. ASSUME NEW p \in Process, Step(p) PROVE CalmInv'
  <2>1. CASE ~Calm'
    BY <2>1 DEF CalmInv
  <2>2. CASE Calm'
    <3>1. Calm
      BY <1>2, <2>2, CalmBefore
    <3> QED
      BY <1>2, <2>2, <3>1, CalmPlain, CalmParses, CalmWrite, CalmDownloads, CalmRegister, CalmMoves,
         TornNotCalm DEF Step, PlainStep
  <2> QED
    BY <2>1, <2>2
<1>3. CASE Publish
  BY <1>3 DEF Publish, CalmInv, Calm, IInv, TypeOK
<1>4. CASE AllEnded \/ UNCHANGED vars
  BY <1>4 DEF AllEnded, vars, disk, budget, CalmInv, Calm, CalmDisk, CalmOK, OrderOK, Present,
     Writes
<1> QED
  BY <1>1, <1>2, <1>3, <1>4 DEF Next

LEMMA CalmInit == Init => CalmInv
<1> SUFFICES ASSUME Init PROVE CalmInv
  OBVIOUS
<1>1. CalmDisk
  BY NothingNeeded, BotPkgAssumption DEF Init, CalmDisk
<1>2. \A q \in Package : Idle.view[q] = NoFile
  BY IdleFields DEF NotRead
<1>3. \A p \in Process : CalmOK(proc[p])
  BY <1>2, IdleFields DEF Init, CalmOK, At, Stopped
<1> QED
  BY <1>1, <1>3 DEF CalmInv

(* An install that is through with a name goes on to the next, or ends. *)
LEMMA DoneBy ==
    ASSUME IInv, ListInv, Serial, StartsRight, CalmInv, [Next]_vars, Calm',
           NEW p \in Process, NEW q \in Package, NameDone(p, q)
    PROVE  /\ Calm
           /\ \/ ResolveFails(p)
              \/ Installed(p)
              \/ /\ Resolved(p)
                 /\ proc'[p].pc # "each"
<1>1. Busy(p) /\ proc[p].op = "install" /\ proc'[p].pc \in {"install", "done"}
      /\ proc'[p].names = Tail(proc[p].names)
  BY DEF NameDone
<1>2. TypeOK /\ proc[p] \in Proc /\ WorkOK(proc[p]) /\ proc[p].names # <<>>
      /\ proc[p].pc \notin Stopped
  BY <1>1 DEF IInv, TypeOK, WorkOK, Busy
<1>3. proc'[p].names # proc[p].names
  <2>1. proc[p].names \in Seq(Package)
    BY <1>2 DEF Proc
  <2>2. PICK n \in Seq(Package) : n = proc[p].names /\ n # <<>>
    BY <1>2, <2>1
  <2>3. Len(Tail(n)) = Len(n) - 1 /\ Len(n) \in Nat
    BY <2>2
  <2>4. Tail(n) # n
    <3>1. SUFFICES ASSUME Tail(n) = n PROVE FALSE
      OBVIOUS
    <3>2. Len(n) = Len(n) - 1
      BY <2>3, <3>1
    <3> QED
      BY <2>3, <3>2
  <2> QED
    BY <1>1, <2>2, <2>4
<1>4. proc'[p] # proc[p]
  BY <1>3
<1>5. Step(p)
  <2>1. \E x \in Process : Launch(x) \/ Step(x) \/ Crash(x)
    BY <1>4 DEF Next, Publish, AllEnded, vars
  <2>2. PICK x \in Process : Launch(x) \/ Step(x) \/ Crash(x)
    BY <2>1
  <2>3. ~Launch(x)
    BY <1>1 DEF Launch
  <2>4. Busy(x)
    BY <2>2, <2>3, StepBusy DEF Crash
  <2>5. x = p
    BY <1>1, <2>4 DEF IInv, OneAtATime
  <2>6. ~Crash(p)
    <3>1. ASSUME Crash(p) PROVE FALSE
      <4>1. PICK s : s = [Idle EXCEPT !.pc = "crashed"]
        OBVIOUS
      <4>2. s.pc = "crashed"
        BY <4>1, IdleFields DEF Proc
      <4>3. proc'[p] = s
        BY <1>2, <3>1, <4>1 DEF Crash, Become, TypeOK
      <4> QED
        BY <1>1, <4>2, <4>3
    <3> QED
      BY <3>1
  <2> QED
    BY <2>2, <2>3, <2>5, <2>6
<1>6. Calm
  BY <1>5, CalmBefore
<1>7. PICK r \in Proc : Running(p, r)
  BY <1>5, <1>6, StepRunning
<1>8. /\ r = proc[p] /\ r.op = "install" /\ OpOf(At(r)) = "install"
      /\ r.pc # "write" => OpOf(r.pc) = "install"
  BY <1>1, <1>7 DEF Running, At
<1>9. \A s : Become(p, s) => /\ s.pc \in {"install", "done"}
                             /\ s.names # r.names
  BY <1>1, <1>2, <1>3, <1>8 DEF Become, TypeOK
<1>10. ~Fault
  BY FaultNotCalm
<1>11. ~Write(p)
  <2>1. ASSUME Write(p) PROVE FALSE
    <3>1. PICK s : s = [r EXCEPT !.pc = r.next, !.next = "none", !.handle = "none", !.body = NoFile]
      OBVIOUS
    <3>2. r.pc = "write" /\ Become(p, s)
      BY <1>8, <2>1, <3>1 DEF Write
    <3>3. s.pc = r.next
      BY <3>1 DEF Proc
    <3>4. r.next \in Nexts
      BY <1>2, <1>8, <3>2 DEF WorkOK, Proc, Nexts
    <3> QED
      BY <1>9, <3>2, <3>3, <3>4 DEF Nexts
  <2> QED
    BY <2>1
<1>12. ~LoadLocal(p) /\ ~LoadParse(p) /\ ~LoadLeaf(p)
  <2>1. ASSUME LoadLocal(p) PROVE FALSE
    <3>1. PICK q1 \in Package : \E deps : Become(p, Read(r, q1, deps))
      BY <1>8, <2>1 DEF LoadLocal, Unread
    <3>d. PICK deps : Become(p, Read(r, q1, deps))
      BY <3>1
    <3>2. Read(r, q1, deps).names = r.names
      BY ReadFields
    <3> QED
      BY <1>9, <3>d, <3>2
  <2>2. ASSUME LoadParse(p) PROVE FALSE
    <3>1. PICK i : i = [r EXCEPT !.pc = "install"]
      OBVIOUS
    <3>2. i \in Proc /\ i.names = r.names /\ i.cur = r.cur
      BY <3>1 DEF Proc, PCs
    <3>3. Become(p, Read(i, i.cur, Deps(cache[i.cur]))) /\ r.cur \in Package
      BY <1>2, <1>8, <2>2, <3>1 DEF LoadParse, WorkOK, At
    <3>4. Read(i, i.cur, Deps(cache[i.cur])).names = r.names
      BY <3>2, <3>3, ReadFields
    <3> QED
      BY <1>9, <3>3, <3>4
  <2> QED
    BY <1>10, <2>1, <2>2 DEF LoadLeaf
<1>13. ~LoadDownload(p) /\ ~FetchManifest(p) /\ ~FetchArchive(p) /\ ~FetchUpdate(p) /\ ~Register(p)
  <2>1. \A next, q1, where, body : ~Become(p, Opened(r, next, q1, where, body))
    BY <1>9, OpenedFields
  <2> QED
    BY <1>8, <2>1 DEF LoadDownload, FetchManifest, FetchArchive, FetchUpdate, Register, Registers,
       Downloads
<1>14. ~SkipInstalled(p) /\ ~Registered(p)
  <2>1. \A f \in Proc : ~Become(p, NextPackage(f))
    BY <1>9, NextPackageFields
  <2>2. r.order # <<>> => Head(r.order) \in Package
    BY DEF Proc
  <2>3. r.order # <<>> => Found(r, {Head(r.order)}) \in Proc
    BY <1>2, <1>8, <2>2, FoundOK
  <2> QED
    BY <1>8, <2>1, <2>3 DEF SkipInstalled, Registered
<1>15. ~ParseManifest(p)
  <2>1. ASSUME ParseManifest(p) PROVE FALSE
    <3>1. PICK pkg : Become(p, [r EXCEPT !.pc = "archive", !.pkg = pkg])
      BY <1>8, <2>1 DEF ParseManifest
    <3>2. PICK s : s = [r EXCEPT !.pc = "archive", !.pkg = pkg]
      OBVIOUS
    <3>3. s.pc = "archive"
      BY <3>2 DEF Proc
    <3> QED
      BY <1>9, <3>1, <3>2, <3>3
  <2> QED
    BY <2>1
<1>16. ~Reject(p) /\ ~LoadFailed(p) /\ ~ArchiveFailed(p) /\ ~UpdateFailed(p) /\ ~RegisterTorn(p)
  <2>1. ~Reject(p)
    BY <1>5, <1>6, CalmVerified DEF Reject
  <2>2. At(r) \notin {"unloaded", "unfetched", "unreached"}
    BY <1>7 DEF Running, CalmOK
  <2>3. ~LoadFailed(p) /\ ~ArchiveFailed(p) /\ ~UpdateFailed(p)
    BY <1>8, <2>2 DEF LoadFailed, ArchiveFailed, UpdateFailed, At
  <2> QED
    BY <2>1, <2>3, TornNotCalm
<1>17. /\ ~RemoveStart(p) /\ ~Scan(p) /\ ~Unregister(p)
       /\ ~UpdateMissing(p) /\ ~ParseUpdate(p) /\ ~RejectUpdate(p) /\ ~Replace(p) /\ ~ReplaceFails(p)
  BY <1>8, OpOfPlain
     DEF RemoveStart, Scan, Unregister, UpdateMissing, ParseUpdate, RejectUpdate, Replace, ReplaceFails
<1> QED
  BY <1>1, <1>5, <1>6, <1>10, <1>11, <1>12, <1>13, <1>14, <1>15, <1>16, <1>17
     DEF Step, FetchManifestFails, FetchArchiveFails, RegisterFails, FetchUpdateFails

LEMMA DoneDelivered ==
    ASSUME IInv, ListInv, Serial, StartsRight, CalmInv, [Next]_vars, Calm', crashes' = 0,
           NEW p \in Process, NEW q \in Package, NameDone(p, q), proc'[p].ret = 0
    PROVE  Usable(q)'
<1>1. /\ Calm
      /\ ResolveFails(p) \/ Installed(p) \/ (Resolved(p) /\ proc'[p].pc # "each")
  BY DoneBy
<1>2. PICK r \in Proc : Running(p, r)
  BY <1>1, StepRunning DEF Step
<1>3. /\ r = proc[p] /\ Root(p) = q /\ r.op = "install" /\ UNCHANGED disk /\ Present' = Present
      /\ proc[p].pc # "write"
  BY <1>1, <1>2 DEF Running, NameDone, Root, ResolveFails, Installed, Resolved, Present, disk
<1>4. \A s : Become(p, s) => s = proc'[p]
  BY DEF Become, IInv, TypeOK
<1>5. q \in Present
  <2>1. CASE ResolveFails(p)
    <3>1. EndName(r, 1).ret = 1
      BY EndNameFields
    <3> QED
      BY <1>3, <1>4, <2>1, <3>1 DEF ResolveFails
  <2>2. CASE Installed(p)
    <3>1. r.pc = "each" /\ r.order = <<>>
      BY <1>3, <2>2 DEF Installed
    <3>2. OrderOK(r) /\ Head(r.names) = q
      BY <1>2, <1>3, <3>1 DEF Running, CalmOK, At
    <3>3. Range(r.order) = {}
      BY <3>1 DEF Range
    <3> QED
      BY <3>2, <3>3 DEF OrderOK
  <2>3. CASE Resolved(p) /\ proc'[p].pc # "each"
    <3>1. PICK order \in Orders :
              /\ IsInstallOrder(Graph(p), q, order)
              /\ LET f == Found(r, Range(order))
                 IN  Become(p, IF Range(order) \subseteq f.mem
                                 THEN EndName(f, 0)
                                 ELSE [f EXCEPT !.pc = "each", !.order = order, !.view = NotRead])
      BY <1>3, <2>3 DEF Resolved
    <3>2. PICK f : f = Found(r, Range(order))
      OBVIOUS
    <3>3. PICK g : g = [f EXCEPT !.pc = "each", !.order = order, !.view = NotRead]
      OBVIOUS
    <3>4. PICK n \in 1 .. Cardinality(Package) : order \in [1 .. n -> Package]
      BY DEF Orders
    <3>5. f.mem = r.mem \cup (Range(order) \cap Present)
      BY <3>2, FoundFields
    <3>6. g.pc = "each"
      <4>1. Range(order) \subseteq Package
        BY <3>4 DEF Range
      <4>2. f \in Proc
        BY <1>2, <3>2, <4>1, FoundOK DEF Running, IInv
      <4> QED
        BY <3>3, <4>2 DEF Proc
    <3>7. ~Become(p, g)
      BY <1>4, <2>3, <3>6
    <3>8. Range(order) \subseteq f.mem
      BY <3>1, <3>2, <3>3, <3>7
    <3>9. r.mem \subseteq Present
      BY <1>2, <1>3 DEF Running, CalmOK
    <3>10. q \in Range(order)
      <4>1. n \in Nat /\ DOMAIN order = 1 .. n /\ Len(order) = n
        BY <3>4
      <4> QED
        BY <3>1, <4>1 DEF IsInstallOrder, NothingExtra, Range
    <3> QED
      BY <3>5, <3>8, <3>9, <3>10
  <2> QED
    BY <1>1, <2>1, <2>2, <2>3
<1>6. CalmDisk'
  BY CalmNext DEF CalmInv
<1>7. ASSUME NEW x \in Package, Writes("db", x)'
      PROVE  FALSE
  <2>1. PICK y \in Process : proc'[y].handle = "db"
    BY <1>7 DEF Writes
  <2>2. ListInv'
    BY ListNext
  <2>3. proc'[y].pc = "write"
    BY <2>1, <2>2 DEF ListInv, ListOK
  <2>4. y # p
    BY <2>3 DEF NameDone
  <2>5. proc'[y] = proc[y]
    BY <1>1, <2>4 DEF ResolveFails, Installed, Resolved, Become, IInv, TypeOK
  <2>6. Busy(p)
    BY <1>2 DEF Running
  <2>7. proc[y].pc \in Stopped
    BY <2>4, <2>6, OthersStopped
  <2> QED
    BY <2>3, <2>5, <2>7 DEF Stopped
<1>8. ASSUME NEW x \in Present'
      PROVE  Parses(db'[x]) /\ Range(Deps(db'[x])) \subseteq Present'
  <2>1. x \in Package /\ db'[x] = EntryOf(x)
    BY <1>6, <1>7, <1>8 DEF CalmDisk, Present
  <2> QED
    BY <1>6, <2>1, FirstEntry DEF CalmDisk
<1>9. Present' \in SUBSET Package /\ q \in Present'
  BY <1>3, <1>5 DEF Present
<1> QED
  BY <1>8, <1>9 DEF Usable

(* An install that reports success has made its package usable, whatever   *)
(* commands came before it, when commands do not overlap, the repository   *)
(* started with manifests that are right, and nothing has failed, been     *)
(* killed or been published so far (botpkg.c:598, 356-360).                *)
THEOREM InstallsDeliver == ASSUME Serial, StartsRight PROVE Spec => InstallUndisturbed
<1>1. Init => IInv /\ ListInv /\ CalmInv
  BY InitInv, ListInit, CalmInit
<1>2. IInv /\ ListInv /\ CalmInv /\ [Next]_vars => (IInv /\ ListInv /\ CalmInv)'
  BY NextInv, ListNext, CalmNext
<1>3. IInv /\ ListInv /\ CalmInv /\ [Next]_vars =>
          [faults' = 0 /\ crashes' = 0 /\ published' = 0 =>
              \A p \in Process, q \in Package : Delivered(p, q)]_proc
  BY DoneDelivered DEF Calm, Delivered
<1> QED
  BY <1>1, <1>2, <1>3, PTL DEF Spec, InstallUndisturbed

(* The files and what the commands are about to do with them agree, in     *)
(* each of the three settings.                                             *)
THEOREM FilesAgree == Spec => []FilesInv
<1>1. Init => FilesInv
  BY InitInv, ListInit, SumInit, CalmInit DEF FilesInv
<1>2. ASSUME FilesInv, [Next]_vars PROVE FilesInv'
  <2>1. IInv /\ IInv'
    BY <1>2, NextInv DEF FilesInv
  <2>2. ASSUME Serial \/ Readable PROVE ListInv'
    BY <1>2, <2>1, <2>2, ListNext DEF FilesInv
  <2>3. ASSUME Serial, OwnNames PROVE SumInv'
    BY <1>2, <2>1, <2>3, SumNext DEF FilesInv
  <2>4. ASSUME Serial, StartsRight PROVE CalmInv'
    BY <1>2, <2>1, <2>4, CalmNext DEF FilesInv
  <2> QED
    BY <2>1, <2>2, <2>3, <2>4 DEF FilesInv
<1> QED
  BY <1>1, <1>2, PTL DEF Spec

(***************************************************************************)
(* The database is a PackageDB.                                            *)
(***************************************************************************)

Entries == [q \in Package |-> IF q \in Present THEN Deps(db[q]) ELSE NoFile]

LEMMA HasIsPresent ==
    ASSUME TypeOK, NEW q \in Package
    PROVE  DB!Has(q) <=> q \in Present
<1>1. Deps(db[q]) # NoFile
  BY DepsSeq, BotPkgAssumption DEF TypeOK
<1> QED
  BY <1>1 DEF DB!Has

LEMMA SameEntries ==
    ASSUME db' = db
    PROVE  Entries' = Entries
BY DEF Entries, Present

(* An entry is opened or written: what it needs is there. *)
LEMMA PutEntry ==
    ASSUME TypeOK, TypeOK', NEW q \in Package, NEW file \in File, file # NoFile,
           db' = [db EXCEPT ![q] = file], Range(Deps(file)) \subseteq Present
    PROVE  DB!Next
<1>1. \A x \in Package : db'[x] = IF x = q THEN file ELSE db[x]
  BY DEF TypeOK
<1>2. Present' = Present \cup {q}
  BY <1>1 DEF Present
<1>3. Entries'[q] = Deps(file)
  BY <1>1, <1>2 DEF Entries
<1>4. Entries' = [Entries EXCEPT ![q] = Entries'[q]]
  <2>1. \A x \in Package : x # q => Entries'[x] = Entries[x]
    BY <1>1, <1>2 DEF Entries
  <2>2. Entries' = [x \in Package |-> IF x = q THEN Entries'[q] ELSE Entries[x]]
    BY <2>1 DEF Entries
  <2> QED
    BY <2>2 DEF Entries
<1>5. Deps(file) \in Seq(Package) /\ Range(Deps(file)) \subseteq Package
  BY DepsSeq
<1>6. DB!Put(q)
  <2>1. \A d \in Range(Entries'[q]) : DB!Has(d)
    BY <1>3, <1>5, HasIsPresent
  <2>2. \A f : DB!Range(f) = Range(f)
    BY DEF Range, DB!Range
  <2> QED
    BY <1>3, <1>4, <1>5, <2>1, <2>2 DEF DB!Put, Entries
<1> QED
  BY <1>6 DEF DB!Next

LEMMA RemoveEntry ==
    ASSUME TypeOK, NEW q \in Package, db' = [db EXCEPT ![q] = NoFile],
           \A x \in Package : q \notin Range(Deps(db[x]))
    PROVE  DB!Next
<1>1. \A x \in Package : db'[x] = IF x = q THEN NoFile ELSE db[x]
  BY DEF TypeOK
<1>2. Present' = Present \ {q}
  BY <1>1 DEF Present
<1>3. Entries' = [Entries EXCEPT ![q] = NoFile]
  <2>1. Entries' = [x \in Package |-> IF x = q THEN NoFile ELSE Entries[x]]
    BY <1>1, <1>2 DEF Entries
  <2> QED
    BY <2>1 DEF Entries
<1>4. ~DB!Needed(q)
  <2>1. \A x \in Package : DB!Has(x) => Entries[x] = Deps(db[x])
    BY HasIsPresent DEF Entries
  <2>2. \A f : DB!Range(f) = Range(f)
    BY DEF Range, DB!Range
  <2> QED
    BY <2>1, <2>2 DEF DB!Needed, Entries
<1>5. DB!Remove(q)
  BY <1>3, <1>4 DEF DB!Remove, Entries
<1> QED
  BY <1>5 DEF DB!Next

LEMMA StepIsPackageDB ==
    ASSUME IInv, IInv', ListInv, Serial, StartsRight, Calm, Calm', CalmInv,
           NEW p \in Process, Step(p)
    PROVE  DB!Next \/ Entries' = Entries
<1>0. TypeOK /\ TypeOK'
  BY DEF IInv
<1>1. PICK r \in Proc : Running(p, r)
  BY StepRunning
<1>2. CASE db' = db
  BY <1>2, SameEntries
<1>3. CASE Write(p) /\ db' # db
  <2>1. r.handle = "db" /\ r.pc = "write" /\ r = proc[p]
    BY <1>1, <1>3, WriteForm DEF Write, Running
  <2>2. r.next \in {"loaded", "parse", "verify", "registered", "latest"} /\ At(r) = r.next
    BY <1>1, <2>1 DEF WorkOK, Proc, Running, At, CalmOK
  <2>3. r.next = "registered" /\ r.cur = Head(r.order) /\ r.body = EntryOf(r.cur)
    BY <1>1, <2>1, <2>2 DEF Running, CalmOK
  <2>4. Needs(r.cur) \subseteq Present /\ r.cur \in Package
    BY <1>1, <2>2, <2>3, FirstNeeds DEF Running
  <2>5. /\ EntryOf(r.cur) \in File /\ EntryOf(r.cur) # NoFile
        /\ Range(Deps(EntryOf(r.cur))) \subseteq Present
    BY <2>4, FirstEntry DEF File, Needs
  <2>6. PICK file \in Over(db[r.cur], r.body) : db' = [db EXCEPT ![r.cur] = file]
    BY <1>3, <2>1, WriteForm
  <2>7. file = r.body
    <3>1. db[r.cur] \in File /\ db[r.cur] \in {NoFile, Empty, EntryOf(r.cur)}
      BY <1>0, <1>1, <2>4 DEF Running, CalmDisk, TypeOK
    <3>2. EntryOf(r.cur) \in Entry
      BY <2>4, FirstEntry
    <3> QED
      BY <2>3, <3>1, <3>2, OverFile
  <2> QED
    BY <1>0, <2>3, <2>4, <2>5, <2>6, <2>7, PutEntry
<1>4. CASE Register(p)
  <2>1. db' = [db EXCEPT ![r.pkg.name] = Empty]
    BY <1>1, <1>4 DEF Register, Registers, Running
  <2>2. r.pkg.name \in Package
    <3>1. r.pkg = EntryOf(r.cur) /\ r.cur \in Package
      BY <1>1, <1>4 DEF Register, Registers, Running, CalmOK, WorkOK, At
    <3> QED
      BY <3>1, FirstEntry
  <2>3. Empty \in File /\ Empty # NoFile
    BY BotPkgAssumption DEF File
  <2> QED
    BY <1>0, <2>1, <2>2, <2>3, NothingNeeded, PutEntry
<1>5. CASE Unregister(p)
  <2>1. db' = [db EXCEPT ![Root(p)] = NoFile] /\ Root(p) \in Package
    BY <1>1, <1>5 DEF Unregister, Running
  <2>2. \A x \in Package : Root(p) \notin Range(Deps(db[x]))
    BY <1>5 DEF IInv, ScanOK, Unregister, Root
  <2> QED
    BY <1>0, <2>1, <2>2, RemoveEntry
<1>6. CASE Replace(p)
  <2>1. /\ r.pc = "replace" /\ db[Root(p)] # NoFile /\ At(r) = "replace"
        /\ db' = [db EXCEPT ![Root(p)] = fresh[Root(p)]]
    BY <1>1, <1>6 DEF Replace, Running, At
  <2>2. r.op = "update" /\ ~NoUpdates
    BY <1>1, <2>1, OpOfPlain DEF Running, CalmOK
  <2>3. fresh[Root(p)] = EntryOf(Root(p)) /\ Root(p) \in Package
    BY <1>1, <2>1, FirstEntry DEF Running, CalmOK
  <2>4. db[Root(p)] # Empty
    BY <1>1, <2>1, <2>2, OnlyWriter DEF Running, CalmDisk, Calm
  <2>5. db' = db
    BY <1>0, <1>1, <2>1, <2>3, <2>4 DEF Running, CalmDisk, TypeOK
  <2> QED
    BY <2>5, SameEntries
<1> QED
  BY <1>2, <1>3, <1>4, <1>5, <1>6, TornNotCalm
     DEF Step, LoadLocal, LoadDownload, LoadParse, LoadFailed, LoadLeaf, ResolveFails, Resolved,
         SkipInstalled, FetchManifest, FetchManifestFails, ParseManifest, FetchArchive,
         ArchiveFailed, FetchArchiveFails, RegisterFails, Registered, Reject, Installed,
         RemoveStart, Scan, UpdateMissing, FetchUpdate, UpdateFailed, FetchUpdateFails,
         ParseUpdate, RejectUpdate, ReplaceFails, disk

(* The package manager's files are a database that keeps the promises of   *)
(* PackageDB, step by step: entries are made and changed when what they    *)
(* need is there, and removed when nothing needs them.  For installs and   *)
(* removals that do not overlap and may be killed at any point, from a     *)
(* repository that is right and answers (botpkg.c:598-601).                *)
THEOREM ImplementsPackageDB ==
    ASSUME Serial, StartsRight, NoUpdates, MaxFaults = 0, MaxPublish = 0
    PROVE  Spec => PackageDBSpec
<1> DEFINE All == IInv /\ ListInv /\ CalmInv
<1>1. Init => All
  BY InitInv, ListInit, CalmInit
<1>2. All /\ [Next]_vars => All'
  BY NextInv, ListNext, CalmNext
<1>3. Init => DB!Init
  BY DEF Init, DB!Init, Present
<1>4. All /\ All' /\ [Next]_vars =>
          [DB!Next]_[q \in Package |-> IF q \in Present THEN Deps(db[q]) ELSE NoFile]
  <2> SUFFICES ASSUME IInv, IInv', ListInv, CalmInv, [Next]_vars
               PROVE  DB!Next \/ Entries' = Entries
    BY DEF Entries
  <2>1. Calm /\ Calm'
    BY DEF IInv, TypeOK, Calm
  <2>2. CASE \E p \in Process : Step(p)
    BY <2>1, <2>2, StepIsPackageDB
  <2>3. CASE ~ \E p \in Process : Step(p)
    <3>1. db' = db
      BY <2>3 DEF Next, Launch, Crash, Publish, AllEnded, vars, disk
    <3> QED
      BY <3>1, SameEntries
  <2> QED
    BY <2>2, <2>3
<1> HIDE DEF All
<1> QED
  BY <1>1, <1>2, <1>3, <1>4, PTL DEF Spec, PackageDBSpec, DB!Spec

(* No entry ever needs a package that is not there, whatever was installed,*)
(* removed and updated, and wherever a command was killed if none of them  *)
(* updates, when commands do not overlap, the repository started with      *)
(* manifests that are right, and nothing has failed or been published so   *)
(* far: what the order of installs and the scan of a removal are for       *)
(* (botpkg.c:252-254, 378-388).                                            *)
THEOREM EntriesAreClosed == ASSUME Serial, StartsRight PROVE Spec => [](Calm => DB!Closed)
<1>1. Init => IInv /\ ListInv /\ CalmInv
  BY InitInv, ListInit, CalmInit
<1>2. IInv /\ ListInv /\ CalmInv /\ [Next]_vars => (IInv /\ ListInv /\ CalmInv)'
  BY NextInv, ListNext, CalmNext
<1>3. IInv /\ ListInv /\ CalmInv => (Calm => DB!Closed)
  <2> SUFFICES ASSUME IInv, Calm, CalmInv PROVE DB!Closed
    OBVIOUS
  <2>1. TypeOK /\ \A q \in Package : Range(Deps(db[q])) \subseteq Present
    BY DEF IInv, CalmInv, CalmDisk
  <2>2. \A q \in Package : DB!Has(q) <=> q \in Present
    BY <2>1, HasIsPresent
  <2>3. \A f : DB!Range(f) = Range(f)
    BY DEF Range, DB!Range
  <2>4. \A q \in Present : Entries[q] = Deps(db[q])
    BY DEF Entries, Present
  <2>5. Present \subseteq Package
    BY DEF Present
  <2> QED
    BY <2>1, <2>2, <2>3, <2>4, <2>5 DEF DB!Closed, Entries
<1> QED
  BY <1>1, <1>2, <1>3, PTL DEF Spec
=============================================================================
