-------------------------- MODULE JobControlProofs --------------------------
(***************************************************************************)
(* Theorems about JobControl, for any process numbers, table size and      *)
(* length of pipelines.                                                    *)
(***************************************************************************)
EXTENDS JobControl, FiniteSetTheorems, SequenceTheorems, TLAPS

(* The shell is where it was and every child of it is still a child. *)
ChildrenStay ==
    /\ child' \in [Pid -> Child]
    /\ \A p \in Pid : child[p].state # "none" => child'[p].state # "none"
    /\ stops' \in 0 .. MaxStops
    /\ UNCHANGED faults

(***************************************************************************)
(* What the processes do, and a builtin that only signals them, keeps the  *)
(* relation of the table and of the shell's list to the children.          *)
(***************************************************************************)
LEMMA StayingChildren ==
    ASSUME IInv, ChildrenStay, UNCHANGED <<jobs, nextId, sh>>
    PROVE  IInv'
<1>1. TypeOK'
  BY DEF IInv, TypeOK, ChildrenStay
<1>2. ActiveIsChild'
  <2>1. \A s \in Slot : JobPids(s)' = JobPids(s)
    BY DEF JobPids
  <2>2. \A s \in Slot : jobs[s].active => JobPids(s) \subseteq Pid
    BY DEF IInv, TypeOK, Job, Groups, JobPids
  <2> QED
    BY <2>1, <2>2 DEF IInv, ActiveIsChild, ChildrenStay
<1>3. PidsOK'
  <2>1. \A i \in DOMAIN sh.pids : sh.pids[i] \in Pid
    BY DEF IInv, TypeOK
  <2>2. \A s \in Slot : JobPids(s)' = JobPids(s)
    BY DEF JobPids
  <2> QED
    BY <2>1, <2>2 DEF IInv, PidsOK, ChildrenStay
<1>4. PlaceOK'
  BY DEF IInv, PlaceOK, At
<1> QED
  BY <1>1, <1>2, <1>3, <1>4 DEF IInv

LEMMA InitInvariant == ASSUME JobControlAssumption, Init PROVE IInv
<1> USE JobControlAssumption DEF JobControlAssumption, Init
<1>1. TypeOK
  <2>1. NoChild \in Child
    BY DEF NoChild, Child, Groups
  <2>2. NoJob \in Job
    BY DEF NoJob, Job, Groups
  <2>3. sh \in [pc : Places, todo : 0 .. MaxStages, pids : Seq(Pid),
                background : BOOLEAN, slot : 0 .. MaxJobs]
    BY DEF Prompt, Places
  <2> QED
    BY <2>1, <2>2, <2>3 DEF TypeOK, Prompt
<1>2. ActiveIsChild
  BY DEF ActiveIsChild, NoJob
<1>3. PidsOK
  BY DEF PidsOK, Prompt, NoJob
<1>4. PlaceOK
  BY DEF PlaceOK, At, Prompt
<1> QED
  BY <1>1, <1>2, <1>3, <1>4 DEF IInv

LEMMA ProcessesInvariant ==
    ASSUME JobControlAssumption, IInv, NEW p \in Pid,
           Exits(p) \/ Killed(p) \/ Stops(p) \/ Continues(p)
    PROVE  IInv'
<1>1. UNCHANGED <<jobs, nextId, sh, faults>>
  BY DEF Exits, Killed, Stops, Continues
<1>2. ChildrenStay
  <2>1. child \in [Pid -> Child] /\ child[p] \in Child
    BY DEF IInv, TypeOK
  <2>2. PICK state \in {"running", "stopped", "zombie"},
             report \in {"none", "stopped", "continued"} : Become(p, state, report)
    BY DEF Exits, Killed, Stops, Continues
  <2>3. [child[p] EXCEPT !.state = state, !.report = report] \in Child
    BY <2>1 DEF Child
  <2>4. child' = [child EXCEPT ![p] = [child[p] EXCEPT !.state = state, !.report = report]]
    BY <2>1, <2>2 DEF Become
  <2>5. child' \in [Pid -> Child]
    BY <2>1, <2>3, <2>4
  <2>6. \A x \in Pid : child[x].state # "none" => child'[x].state # "none"
    BY <2>1, <2>4 DEF Child
  <2>7. stops' \in 0 .. MaxStops
    BY DEF Exits, Killed, Stops, Continues, IInv, TypeOK, JobControlAssumption
  <2> QED
    BY <1>1, <2>5, <2>6, <2>7 DEF ChildrenStay
<1> QED
  BY <1>1, <1>2, StayingChildren

(* SIGCONT to a group only changes the state of children. *)
LEMMA ContinuedIsChild ==
    ASSUME IInv, NEW group
    PROVE  /\ Continued(group) \in [Pid -> Child]
           /\ \A p \in Pid : child[p].state # "none" => Continued(group)[p].state # "none"
<1>1. child \in [Pid -> Child]
  BY DEF IInv, TypeOK
<1>2. ASSUME NEW p \in Pid
      PROVE  /\ [child[p] EXCEPT !.state = "running", !.report = "continued"] \in Child
             /\ [child[p] EXCEPT !.state = "running", !.report = "continued"].state = "running"
  BY <1>1 DEF Child
<1> QED
  BY <1>1, <1>2 DEF Continued

(* What waitpid leaves of a child. *)
LEMMA ReportedIsChild ==
    ASSUME IInv, NEW p \in Pid
    PROVE  /\ Reported(p) \in Child
           /\ child[p].state # "zombie" => Reported(p).state = child[p].state
<1>1. child[p] \in Child
  BY DEF IInv, TypeOK
<1>2. NoChild \in Child
  BY DEF NoChild, Child, Groups
<1> QED
  BY <1>1, <1>2 DEF Reported, Child

LEMMA ReapInvariant == ASSUME JobControlAssumption, IInv, Reap PROVE IInv'
<1>1. PICK p \in Pid : /\ Reportable(p)
                       /\ child' = [child EXCEPT ![p] = Reported(p)]
                       /\ jobs' = Noted(p)
  BY DEF Reap
<1>2. UNCHANGED <<nextId, sh, stops, faults>> /\ At("reap") /\ sh.pids = <<>>
  BY DEF Reap, At, IInv, PlaceOK
<1>3. child' \in [Pid -> Child] /\ child'[p] = Reported(p)
      /\ \A x \in Pid \ {p} : child'[x] = child[x]
  BY <1>1, ReportedIsChild DEF IInv, TypeOK
(* A job that names p is the only one, and is dropped if p has ended. *)
<1>4. ASSUME NEW s \in Slot
      PROVE  /\ jobs'[s] \in Job
             /\ jobs'[s].active => /\ jobs[s].active
                                   /\ p \in JobPids(s) => child[p].state # "zombie"
             /\ JobPids(s)' = JobPids(s)
  <2>1. jobs[s] \in Job /\ child[p] \in Child
    BY DEF IInv, TypeOK
  <2>2. jobs[s].pgid \in Groups /\ jobs[s].last \in Groups
    BY <2>1 DEF Job
  <2>3. jobs[s].active /\ p \in JobPids(s) => Matches(s, p)
    BY <2>2 DEF Matches, JobPids, Groups
  <2>4. \A t \in Slot : t # s /\ Matches(s, p) => ~Matches(t, p)
    BY DEF Matches, IInv, ActiveIsChild, JobPids
  <2>5. Matches(s, p) => child[p].state # "none"
    BY DEF Matches, IInv, ActiveIsChild, JobPids
  <2>6. jobs'[s] = IF Matches(s, p)
                      THEN IF child[p].state = "zombie" THEN [jobs[s] EXCEPT !.active = FALSE]
                           ELSE [jobs[s] EXCEPT !.state = child[p].state]
                      ELSE jobs[s]
    <3>1. \A t \in Slot : t < s => t # s
      BY JobControlAssumption DEF JobControlAssumption, Slot
    <3> QED
      BY <1>1, <2>4, <3>1 DEF Noted
  <2>7. CASE Matches(s, p) /\ child[p].state = "zombie"
    BY <2>1, <2>6, <2>7 DEF Job, JobPids
  <2>8. CASE Matches(s, p) /\ child[p].state # "zombie"
    <3>1. child[p].state \in {"running", "stopped"}
      BY <2>1, <2>5, <2>8 DEF Child
    <3> QED
      BY <2>1, <2>6, <2>8, <3>1 DEF Job, JobPids
  <2>9. CASE ~Matches(s, p)
    BY <2>1, <2>3, <2>6, <2>9 DEF JobPids
  <2> QED
    BY <2>7, <2>8, <2>9
<1>5. TypeOK'
  <2>1. jobs' \in [Slot -> Job]
    BY <1>1, <1>4 DEF Noted
  <2> QED
    BY <1>2, <1>3, <2>1 DEF IInv, TypeOK
<1>6. ActiveIsChild'
  <2>1. ASSUME NEW s \in Slot, jobs'[s].active, NEW x \in JobPids(s)
        PROVE  child'[x].state # "none"
    <3>1. x \in Pid
      <4>1. jobs[s] \in Job
        BY DEF IInv, TypeOK
      <4>2. jobs[s].pgid \subseteq Pid /\ jobs[s].last \subseteq Pid
        BY <4>1 DEF Job, Groups
      <4> QED
        BY <4>2 DEF JobPids
    <3>2. child[x].state # "none"
      BY <1>4, <2>1 DEF IInv, ActiveIsChild
    <3> QED
      BY <1>3, <1>4, <2>1, <3>1, <3>2, ReportedIsChild
  <2> QED
    BY <1>4, <2>1 DEF IInv, ActiveIsChild
<1>7. PidsOK'
  BY <1>2 DEF PidsOK
<1>8. PlaceOK'
  BY <1>2 DEF IInv, PlaceOK, At
<1> QED
  BY <1>5, <1>6, <1>7, <1>8 DEF IInv

(***************************************************************************)
(* Recording a pipeline whose processes are all still children keeps the   *)
(* table true.                                                             *)
(***************************************************************************)
LEMMA RecordedJobs ==
    ASSUME JobControlAssumption, IInv, sh.pids # <<>>, nextId <= MaxId,
           NEW state \in {"running", "stopped"}, Record(state), ChildrenStay
    PROVE  /\ jobs' \in [Slot -> Job]
           /\ nextId' \in 1 .. MaxId + 1
           /\ ActiveIsChild'
<1> DEFINE head == Head(sh.pids)
           last == Last(sh.pids)
           job == [active |-> TRUE, id |-> nextId, pgid |-> {head},
                   last |-> {last}, state |-> state]
<1>1. sh.pids \in Seq(Pid) /\ jobs \in [Slot -> Job] /\ nextId \in 1 .. MaxId + 1
  BY DEF IInv, TypeOK
<1>2. /\ Len(sh.pids) \in Nat /\ Len(sh.pids) > 0
      /\ 1 \in DOMAIN sh.pids /\ Len(sh.pids) \in DOMAIN sh.pids
      /\ head = sh.pids[1] /\ last = sh.pids[Len(sh.pids)]
  BY <1>1 DEF Last
<1>3. head \in Pid /\ last \in Pid
  BY <1>1, <1>2
<1>4. child[head].state # "none" /\ child[last].state # "none"
  BY <1>2 DEF IInv, PidsOK
<1>5. \A s \in Slot : jobs[s].active => JobPids(s) \cap {head, last} = {}
  BY <1>2 DEF IInv, PidsOK
<1>6. job \in Job
  BY <1>1, <1>3, JobControlAssumption DEF Job, Groups, JobControlAssumption
<1>7. \A s \in Slot : JobPids(s) \subseteq Pid
  BY <1>1 DEF Job, Groups, JobPids
<1>8. CASE UNCHANGED <<jobs, nextId>>
  <2>1. \A s \in Slot : JobPids(s)' = JobPids(s)
    BY <1>8 DEF JobPids
  <2> QED
    BY <1>1, <1>7, <1>8, <2>1 DEF IInv, ActiveIsChild, ChildrenStay
<1>9. CASE ~UNCHANGED <<jobs, nextId>>
  <2>1. PICK s \in Slot : /\ ~jobs[s].active
                          /\ jobs' = [jobs EXCEPT ![s] = job]
                          /\ nextId' = nextId + 1
    BY <1>9 DEF Record
  <2>2. /\ jobs'[s] = job
        /\ \A t \in Slot \ {s} : jobs'[t] = jobs[t]
    BY <1>1, <2>1
  <2>3. /\ JobPids(s)' = {head, last}
        /\ \A t \in Slot \ {s} : JobPids(t)' = JobPids(t)
    BY <2>2 DEF JobPids
  <2>4. \A t \in Slot : jobs'[t].active =>
            \A x \in JobPids(t)' : child'[x].state # "none"
    BY <1>3, <1>4, <1>7, <2>2, <2>3 DEF IInv, ActiveIsChild, ChildrenStay
  <2>5. \A t \in Slot, u \in Slot : t # u /\ jobs'[t].active /\ jobs'[u].active
            => JobPids(t)' \cap JobPids(u)' = {}
    BY <1>5, <2>2, <2>3 DEF IInv, ActiveIsChild
  <2>6. ActiveIsChild'
    BY <2>4, <2>5 DEF ActiveIsChild
  <2>7. nextId' \in 1 .. MaxId + 1
    BY <1>1, <2>1, JobControlAssumption DEF JobControlAssumption
  <2> QED
    BY <1>1, <1>6, <2>1, <2>6, <2>7
<1> QED
  BY <1>8, <1>9

LEMMA ForkInvariant == ASSUME JobControlAssumption, IInv, Fork PROVE IInv'
<1> DEFINE mine(p) == [state |-> "running", report |-> "none",
                       group |-> {IF sh.pids = <<>> THEN p ELSE Head(sh.pids)}]
<1>1. PICK p \in Pid : /\ Free(p)
                       /\ child' = [child EXCEPT ![p] = mine(p)]
                       /\ sh' = [sh EXCEPT !.todo = @ - 1, !.pids = Append(@, p)]
  BY DEF Fork
<1>2. UNCHANGED <<jobs, nextId, stops, faults>> /\ At("fork") /\ sh.todo > 0
      /\ child[p].state = "none"
  BY <1>1 DEF Fork, Free
<1>3. /\ child \in [Pid -> Child] /\ jobs \in [Slot -> Job]
      /\ sh \in [pc : Places, todo : 0 .. MaxStages, pids : Seq(Pid),
                 background : BOOLEAN, slot : 0 .. MaxJobs]
      /\ Len(sh.pids) \in Nat /\ sh.todo \in 1 .. MaxStages
  BY <1>2, JobControlAssumption DEF IInv, TypeOK, JobControlAssumption
<1>4. child' \in [Pid -> Child] /\ child'[p].state = "running"
      /\ \A x \in Pid \ {p} : child'[x] = child[x]
  <2>1. sh.pids # <<>> => Head(sh.pids) \in Pid
    BY <1>3
  <2>2. mine(p) \in Child
    BY <2>1 DEF Child, Groups
  <2> QED
    BY <1>1, <1>3, <2>2
<1>5. /\ sh'.pc = sh.pc /\ sh'.background = sh.background /\ sh'.slot = sh.slot
      /\ sh'.todo = sh.todo - 1
      /\ sh'.pids = Append(sh.pids, p) /\ sh'.pids \in Seq(Pid)
      /\ Len(sh'.pids) = Len(sh.pids) + 1
      /\ DOMAIN sh'.pids = 1 .. Len(sh.pids) + 1
      /\ sh'.pids[Len(sh.pids) + 1] = p
      /\ \A i \in DOMAIN sh.pids : sh'.pids[i] = sh.pids[i]
  BY <1>1, <1>3
<1>6. TypeOK'
  <2>1. sh' \in [pc : Places, todo : 0 .. MaxStages, pids : Seq(Pid),
                 background : BOOLEAN, slot : 0 .. MaxJobs]
    <3>1. sh.todo - 1 \in 0 .. MaxStages /\ Append(sh.pids, p) \in Seq(Pid)
      BY <1>3, JobControlAssumption DEF JobControlAssumption
    <3>2. sh' = [pc |-> sh.pc, todo |-> sh.todo - 1, pids |-> Append(sh.pids, p),
                 background |-> sh.background, slot |-> sh.slot]
      BY <1>1, <1>3
    <3> QED
      BY <1>3, <3>1, <3>2
  <2>2. Len(sh'.pids) + sh'.todo <= MaxStages
    BY <1>3, <1>5, JobControlAssumption DEF IInv, TypeOK, JobControlAssumption
  <2> QED
    BY <1>2, <1>3, <1>4, <2>1, <2>2 DEF IInv, TypeOK
(* The new child was nobody's. *)
<1>7. \A s \in Slot : /\ JobPids(s) \subseteq Pid
                      /\ JobPids(s)' = JobPids(s)
                      /\ jobs[s].active => p \notin JobPids(s)
  BY <1>2, <1>3 DEF JobPids, Job, Groups, IInv, ActiveIsChild
<1>8. ActiveIsChild'
  BY <1>2, <1>4, <1>7 DEF IInv, ActiveIsChild
<1>9. PidsOK'
  <2>1. \A i \in DOMAIN sh.pids : /\ sh.pids[i] \in Pid
                                  /\ sh.pids[i] # p
                                  /\ child[sh.pids[i]].state # "none"
    BY <1>2, <1>3 DEF IInv, PidsOK
  <2>2. DOMAIN sh'.pids = DOMAIN sh.pids \cup {Len(sh.pids) + 1}
    BY <1>3, <1>5
  <2>3. {sh'.pids[i] : i \in DOMAIN sh'.pids} = {sh.pids[i] : i \in DOMAIN sh.pids} \cup {p}
    BY <1>5, <2>2
  <2>4. \A x \in {sh'.pids[i] : i \in DOMAIN sh'.pids} : child'[x].state # "none"
    BY <1>4, <2>1, <2>3
  <2>5. \A i, j \in DOMAIN sh'.pids : sh'.pids[i] = sh'.pids[j] => i = j
    BY <1>5, <2>1, <2>2 DEF IInv, PidsOK
  <2>6. \A s \in Slot : jobs'[s].active =>
            JobPids(s)' \cap {sh'.pids[i] : i \in DOMAIN sh'.pids} = {}
    BY <1>2, <1>7, <2>3 DEF IInv, PidsOK
  <2> QED
    BY <2>4, <2>5, <2>6 DEF PidsOK
<1>10. PlaceOK'
  BY <1>2, <1>3, <1>5 DEF IInv, PlaceOK, At
<1> QED
  BY <1>6, <1>8, <1>9, <1>10 DEF IInv

(***************************************************************************)
(* Back at the prompt with a table that is right, the shell has nothing    *)
(* left to wait for.                                                       *)
(***************************************************************************)
LEMMA BackAtPrompt ==
    ASSUME JobControlAssumption, IInv, sh' = Prompt,
           child' \in [Pid -> Child], stops' = stops, faults' = faults,
           jobs' \in [Slot -> Job], nextId' \in 1 .. MaxId + 1, ActiveIsChild'
    PROVE  IInv'
<1>1. sh' \in [pc : Places, todo : 0 .. MaxStages, pids : Seq(Pid),
              background : BOOLEAN, slot : 0 .. MaxJobs]
      /\ Len(sh'.pids) + sh'.todo <= MaxStages
  BY JobControlAssumption DEF Prompt, Places, JobControlAssumption
<1>2. TypeOK'
  BY <1>1 DEF TypeOK, IInv
<1>3. PidsOK'
  BY DEF PidsOK, Prompt
<1>4. PlaceOK'
  BY DEF PlaceOK, At, Prompt
<1> QED
  BY <1>2, <1>3, <1>4 DEF IInv

(* The steps of the shell that touch neither children nor table and move   *)
(* it on: it has no more pids to wait for than before.                     *)
LEMMA MovedInvariant ==
    ASSUME JobControlAssumption, IInv, UNCHANGED <<child, jobs, nextId, stops, faults>>,
           sh' \in [pc : Places, todo : 0 .. MaxStages, pids : Seq(Pid),
                   background : BOOLEAN, slot : 0 .. MaxJobs],
           Len(sh'.pids) + sh'.todo <= MaxStages,
           sh'.pids \in {<<>>, sh.pids}, PlaceOK'
    PROVE  IInv'
<1>1. \A s \in Slot : JobPids(s)' = JobPids(s)
  BY DEF JobPids
<1>2. TypeOK'
  BY DEF IInv, TypeOK
<1>3. ActiveIsChild'
  BY <1>1 DEF IInv, ActiveIsChild
<1>4. CASE sh'.pids = <<>>
  BY <1>2, <1>3, <1>4 DEF IInv, PidsOK
<1>5. CASE sh'.pids = sh.pids
  <2>1. PidsOK'
    BY <1>1, <1>5 DEF IInv, PidsOK
  <2> QED
    BY <1>2, <1>3, <2>1 DEF IInv
<1> QED
  BY <1>4, <1>5

LEMMA MovesInvariant ==
    ASSUME JobControlAssumption, IInv,
           \/ \E n \in 1 .. MaxStages, b \in BOOLEAN : Run(n, b)
           \/ Reaped \/ ForkFails \/ Foreground \/ Finished
    PROVE  IInv'
<1>1. sh \in [pc : Places, todo : 0 .. MaxStages, pids : Seq(Pid),
             background : BOOLEAN, slot : 0 .. MaxJobs]
      /\ Len(sh.pids) + sh.todo <= MaxStages
  BY DEF IInv, TypeOK
<1>2. ASSUME NEW n \in 1 .. MaxStages, NEW b \in BOOLEAN, Run(n, b)
      PROVE  IInv'
  <2>1. sh' = [pc |-> "reap", todo |-> n, pids |-> <<>>, background |-> b, slot |-> 0]
        /\ UNCHANGED <<child, jobs, nextId, stops, faults>> /\ nextId <= MaxId
    BY <1>2 DEF Run, Prompt
  <2>2. sh' \in [pc : Places, todo : 0 .. MaxStages, pids : Seq(Pid),
                background : BOOLEAN, slot : 0 .. MaxJobs]
        /\ Len(sh'.pids) + sh'.todo <= MaxStages
    BY <2>1, JobControlAssumption DEF Places, JobControlAssumption
  <2>3. PlaceOK'
    BY <2>1, JobControlAssumption DEF PlaceOK, At, JobControlAssumption
  <2> QED
    BY <2>1, <2>2, <2>3, MovedInvariant
<1>3. ASSUME Reaped \/ Foreground
      PROVE  IInv'
  <2>1. PICK pc \in {"fork", "wait"} : sh' = [sh EXCEPT !.pc = pc]
    BY <1>3 DEF Reaped, Foreground
  <2>2. sh' = [pc |-> pc, todo |-> sh.todo, pids |-> sh.pids,
               background |-> sh.background, slot |-> sh.slot]
    BY <1>1, <2>1
  <2>3. UNCHANGED <<child, jobs, nextId, stops, faults>>
    BY <1>3 DEF Reaped, Foreground
  <2>4. sh' \in [pc : Places, todo : 0 .. MaxStages, pids : Seq(Pid),
                background : BOOLEAN, slot : 0 .. MaxJobs]
    BY <1>1, <2>2 DEF Places
  <2>5. PlaceOK'
    <3>1. CASE Reaped
      BY <3>1, <1>1, <2>1, <2>2, <2>3 DEF IInv, PlaceOK, At, Reaped
    <3>2. CASE Foreground
      BY <3>2, <1>1, <2>1, <2>2, <2>3 DEF IInv, PlaceOK, At, Foreground
    <3> QED
      BY <1>3, <3>1, <3>2
  <2> QED
    BY <1>1, <2>2, <2>3, <2>4, <2>5, MovedInvariant
<1>4. ASSUME ForkFails \/ Finished
      PROVE  IInv'
  <2>1. sh' = Prompt /\ UNCHANGED <<child, jobs, nextId, stops>>
    BY <1>4 DEF ForkFails, Finished
  <2>2. faults' \in 0 .. MaxFaults
    BY <1>4, JobControlAssumption
    DEF ForkFails, Finished, IInv, TypeOK, JobControlAssumption
  <2>3. sh' \in [pc : Places, todo : 0 .. MaxStages, pids : Seq(Pid),
                background : BOOLEAN, slot : 0 .. MaxJobs]
        /\ Len(sh'.pids) + sh'.todo <= MaxStages
    BY <2>1, JobControlAssumption DEF Prompt, Places, JobControlAssumption
  <2>4. TypeOK'
    BY <2>1, <2>2, <2>3 DEF IInv, TypeOK
  <2>5. \A s \in Slot : JobPids(s)' = JobPids(s)
    BY <2>1 DEF JobPids
  <2>6. ActiveIsChild'
    BY <2>1, <2>5 DEF IInv, ActiveIsChild
  <2>7. PidsOK' /\ PlaceOK'
    BY <2>1 DEF PidsOK, PlaceOK, At, Prompt
  <2> QED
    BY <2>4, <2>6, <2>7 DEF IInv
<1> QED
  BY <1>2, <1>3, <1>4

LEMMA RecordInvariant ==
    ASSUME JobControlAssumption, IInv, Background \/ Suspended PROVE IInv'
<1>1. /\ sh.pids # <<>> /\ nextId <= MaxId
      /\ sh' = Prompt /\ UNCHANGED <<stops, faults>>
      /\ \E state \in {"running", "stopped"} : Record(state)
  BY DEF Background, Suspended, IInv, PlaceOK, At
<1>2. ChildrenStay
  <2>1. CASE Background
    BY <2>1 DEF Background, ChildrenStay, IInv, TypeOK
  <2>2. CASE Suspended
    <3>1. Last(sh.pids) \in Pid /\ child[Last(sh.pids)].state # "none"
      <4>1. sh.pids \in Seq(Pid)
        BY DEF IInv, TypeOK
      <4>2. Len(sh.pids) \in DOMAIN sh.pids
        BY <1>1, <4>1
      <4> QED
        BY <4>1, <4>2 DEF Last, IInv, PidsOK
    <3>2. PICK p \in Pid : /\ child[p].state # "none"
                           /\ child' = [child EXCEPT ![p] = Reported(p)]
                           /\ StopSeen(p)
      BY <2>2, <3>1 DEF Suspended
    <3>3. Reported(p) \in Child /\ (child[p].state # "zombie" => Reported(p).state = child[p].state)
      BY ReportedIsChild
    <3>4. child[p].state # "zombie"
      BY <3>2 DEF StopSeen
    <3> QED
      BY <2>2, <3>2, <3>3, <3>4 DEF Suspended, ChildrenStay, IInv, TypeOK
  <2> QED
    BY <2>1, <2>2
<1>3. /\ jobs' \in [Slot -> Job]
      /\ nextId' \in 1 .. MaxId + 1
      /\ ActiveIsChild'
  BY <1>1, <1>2, RecordedJobs
<1> QED
  BY <1>1, <1>2, <1>3, BackAtPrompt DEF ChildrenStay

(* Waiting for the stages of a foreground pipeline, which no job names. *)
LEMMA WaitInvariant ==
    ASSUME JobControlAssumption, IInv, Ended \/ WaitRest PROVE IInv'
<1>1. /\ child \in [Pid -> Child] /\ jobs \in [Slot -> Job]
      /\ sh \in [pc : Places, todo : 0 .. MaxStages, pids : Seq(Pid),
                 background : BOOLEAN, slot : 0 .. MaxJobs]
      /\ Len(sh.pids) \in Nat
  BY DEF IInv, TypeOK
<1>2. sh.pids # <<>> /\ Len(sh.pids) > 0 /\ nextId <= MaxId
      /\ UNCHANGED <<jobs, nextId, stops, faults>>
  <2>1. sh.pids # <<>>
    BY DEF Ended, WaitRest, IInv, PlaceOK, At
  <2>2. nextId <= MaxId
    BY DEF Ended, WaitRest, IInv, PlaceOK, At
  <2> QED
    BY <1>1, <2>1, <2>2 DEF Ended, WaitRest
(* Which of the pids is waited for, and how the others move up. *)
<1>3. PICK k \in DOMAIN sh.pids, d \in {0, 1} :
          /\ child' = [child EXCEPT ![sh.pids[k]] = NoChild]
          /\ sh'.pids \in Seq(Pid) /\ Len(sh'.pids) = Len(sh.pids) - 1
          /\ \A i \in DOMAIN sh'.pids : /\ i + d \in DOMAIN sh.pids \ {k}
                                        /\ sh'.pids[i] = sh.pids[i + d]
  <2>1. CASE Ended
    <3> DEFINE k == Len(sh.pids)
    <3>1. k \in DOMAIN sh.pids /\ sh.pids[k] = Last(sh.pids)
      BY <1>1, <1>2 DEF Last
    <3>2. child' = [child EXCEPT ![sh.pids[k]] = NoChild] /\ sh'.pids = Front(sh.pids)
      BY <1>1, <2>1, <3>1 DEF Ended, Reported
    <3>3. /\ Front(sh.pids) \in Seq(Pid) /\ Len(Front(sh.pids)) = k - 1
          /\ \A i \in 1 .. k - 1 : Front(sh.pids)[i] = sh.pids[i]
      <4>1. \A i \in 1 .. k - 1 : sh.pids[i] \in Pid
        BY <1>1
      <4>2. /\ SubSeq(sh.pids, 1, k - 1) \in Seq(Pid)
            /\ Len(SubSeq(sh.pids, 1, k - 1)) = IF 1 <= k - 1 THEN k - 1 - 1 + 1 ELSE 0
            /\ \A i \in 1 .. k - 1 - 1 + 1 : SubSeq(sh.pids, 1, k - 1)[i] = sh.pids[1 + i - 1]
        BY <1>1, <4>1, SubSeqProperties
      <4>3. k - 1 - 1 + 1 = k - 1 /\ \A i \in 1 .. k - 1 : 1 + i - 1 = i
        BY <1>1
      <4>4. Front(sh.pids) = SubSeq(sh.pids, 1, k - 1)
        BY DEF Front
      <4>5. k \in Nat /\ k > 0
        BY <1>1, <1>2
      <4> HIDE DEF k
      <4>6. Front(sh.pids) \in Seq(Pid) /\ Len(Front(sh.pids)) = k - 1
        BY <4>2, <4>3, <4>4, <4>5
      <4>7. \A i \in 1 .. k - 1 : Front(sh.pids)[i] = sh.pids[i]
        BY <4>2, <4>3, <4>4
      <4> QED
        BY <4>6, <4>7
    <3>4. \A i \in 1 .. k - 1 : i + 0 \in DOMAIN sh.pids \ {k} /\ i + 0 = i
      BY <1>1, <1>2
    <3>5. DOMAIN sh'.pids = 1 .. k - 1
      BY <3>2, <3>3
    <3> QED
      BY <3>1, <3>2, <3>3, <3>4, <3>5
  <2>2. CASE WaitRest
    <3>1. 1 \in DOMAIN sh.pids /\ sh.pids[1] = Head(sh.pids)
      BY <1>1, <1>2
    <3>2. child' = [child EXCEPT ![sh.pids[1]] = NoChild] /\ sh'.pids = Tail(sh.pids)
      BY <1>1, <2>2, <3>1 DEF WaitRest
    <3>3. /\ Tail(sh.pids) \in Seq(Pid) /\ Len(Tail(sh.pids)) = Len(sh.pids) - 1
          /\ \A i \in 1 .. Len(sh.pids) - 1 : Tail(sh.pids)[i] = sh.pids[i + 1]
      BY <1>1, <1>2
    <3>4. \A i \in 1 .. Len(sh.pids) - 1 : i + 1 \in DOMAIN sh.pids \ {1}
      BY <1>1, <1>2
    <3>5. DOMAIN sh'.pids = 1 .. Len(sh.pids) - 1
      BY <1>1, <3>2, <3>3
    <3> QED
      BY <3>1, <3>2, <3>3, <3>4, <3>5
  <2> QED
    BY <2>1, <2>2
<1> DEFINE p == sh.pids[k]
<1>4. p \in Pid /\ child' \in [Pid -> Child]
      /\ \A x \in Pid \ {p} : child'[x] = child[x]
  <2>1. NoChild \in Child
    BY DEF NoChild, Child, Groups
  <2> QED
    BY <1>1, <1>3, <2>1
<1>5. \A s \in Slot : /\ JobPids(s) \subseteq Pid
                      /\ JobPids(s)' = JobPids(s)
                      /\ jobs[s].active => p \notin JobPids(s)
  BY <1>1, <1>2, <1>3 DEF JobPids, Job, Groups, IInv, PidsOK
<1>6. TypeOK'
  <2>1. sh' = [pc |-> "rest", todo |-> sh.todo, pids |-> sh'.pids,
               background |-> sh.background, slot |-> sh.slot]
    BY <1>1 DEF Ended, WaitRest, At
  <2>2. sh' \in [pc : Places, todo : 0 .. MaxStages, pids : Seq(Pid),
                background : BOOLEAN, slot : 0 .. MaxJobs]
    BY <1>1, <1>3, <2>1 DEF Places
  <2>3. Len(sh'.pids) + sh'.todo <= MaxStages
    <3>1. sh'.todo = sh.todo /\ sh.todo \in Nat
      BY <1>1, <2>1, JobControlAssumption DEF JobControlAssumption
    <3>2. Len(sh.pids) + sh.todo <= MaxStages
      BY DEF IInv, TypeOK
    <3> QED
      BY <1>1, <1>3, <3>1, <3>2, JobControlAssumption DEF JobControlAssumption
  <2> QED
    BY <1>2, <1>4, <2>2, <2>3 DEF IInv, TypeOK
<1>7. ActiveIsChild'
  BY <1>2, <1>4, <1>5 DEF IInv, ActiveIsChild
<1>8. PidsOK'
  <2>1. \A i \in DOMAIN sh'.pids : sh'.pids[i] # p /\ sh'.pids[i] \in Pid
    BY <1>1, <1>3 DEF IInv, PidsOK
  <2>2. {sh'.pids[i] : i \in DOMAIN sh'.pids} \subseteq {sh.pids[i] : i \in DOMAIN sh.pids}
    BY <1>3
  <2>3. \A i \in DOMAIN sh'.pids : child'[sh'.pids[i]].state # "none"
    BY <1>3, <1>4, <2>1 DEF IInv, PidsOK
  <2>4. \A i, j \in DOMAIN sh'.pids : sh'.pids[i] = sh'.pids[j] => i = j
    <3>1. \A i \in DOMAIN sh'.pids : i \in Nat
      BY <1>3
    <3>2. \A i, j \in DOMAIN sh'.pids : sh'.pids[i] = sh'.pids[j] => i + d = j + d
      BY <1>3 DEF IInv, PidsOK
    <3> QED
      BY <3>1, <3>2
  <2>5. \A s \in Slot : jobs'[s].active =>
            JobPids(s)' \cap {sh'.pids[i] : i \in DOMAIN sh'.pids} = {}
    BY <1>2, <1>5, <2>2 DEF IInv, PidsOK
  <2> QED
    BY <2>3, <2>4, <2>5 DEF PidsOK
<1>9. PlaceOK'
  <2>1. sh'.pc = "rest"
    BY <1>1 DEF Ended, WaitRest, At
  <2> QED
    BY <1>2, <2>1 DEF PlaceOK, At
<1> QED
  BY <1>6, <1>7, <1>8, <1>9 DEF IInv

(* Continuing a job, in the foreground or in the background. *)
LEMMA ContinueInvariant ==
    ASSUME JobControlAssumption, IInv, NEW s \in Slot, Fg(s) \/ Bg(s) PROVE IInv'
<1>1. jobs[s].active /\ At("prompt") /\ UNCHANGED <<nextId, stops, faults>>
      /\ child' = Continued(jobs[s].pgid)
  BY DEF Fg, Bg
<1>2. ChildrenStay
  BY <1>1, ContinuedIsChild DEF ChildrenStay, IInv, TypeOK
<1>3. jobs \in [Slot -> Job] /\ nextId \in 1 .. MaxId + 1 /\ s \in 0 .. MaxJobs
  BY JobControlAssumption DEF IInv, TypeOK, Slot, JobControlAssumption
<1>4. /\ jobs' \in [Slot -> Job]
      /\ \A t \in Slot : jobs'[t].active = jobs[t].active /\ JobPids(t)' = JobPids(t)
  <2>1. CASE jobs' = jobs
    BY <1>3, <2>1 DEF JobPids
  <2>2. CASE jobs' = [jobs EXCEPT ![s].state = "running"]
    BY <1>3, <2>2 DEF Job, JobPids
  <2> QED
    BY <2>1, <2>2 DEF Fg, Bg
<1>5. ActiveIsChild'
  <2>1. \A t \in Slot : JobPids(t) \subseteq Pid
    BY <1>3 DEF Job, Groups, JobPids
  <2> QED
    BY <1>2, <1>4, <2>1 DEF IInv, ActiveIsChild, ChildrenStay
<1>6. CASE Fg(s)
  <2>1. sh' = [pc |-> "fg", todo |-> 0, pids |-> <<>>, background |-> FALSE, slot |-> s]
        /\ jobs' = jobs
    BY <1>6 DEF Fg, Prompt
  <2>2. sh' \in [pc : Places, todo : 0 .. MaxStages, pids : Seq(Pid),
                background : BOOLEAN, slot : 0 .. MaxJobs]
        /\ Len(sh'.pids) + sh'.todo <= MaxStages
    BY <1>3, <2>1, JobControlAssumption DEF Places, JobControlAssumption
  <2>3. TypeOK'
    BY <1>1, <1>2, <1>4, <2>2 DEF IInv, TypeOK, ChildrenStay
  <2>4. PidsOK' /\ PlaceOK'
    BY <1>1, <2>1 DEF PidsOK, PlaceOK, At
  <2> QED
    BY <1>5, <2>3, <2>4 DEF IInv
<1>7. CASE Bg(s)
  <2>1. UNCHANGED sh /\ sh.pids = <<>>
    BY <1>7 DEF Bg, At, IInv, PlaceOK
  <2>2. TypeOK'
    BY <1>1, <1>2, <1>4, <2>1 DEF IInv, TypeOK, ChildrenStay
  <2>3. PidsOK' /\ PlaceOK'
    BY <1>1, <2>1 DEF PidsOK, PlaceOK, At
  <2> QED
    BY <1>5, <2>2, <2>3 DEF IInv
<1> QED
  BY <1>6, <1>7

(* The waitpid of fg: the job leaves the table with its last process. *)
LEMMA FgInvariant ==
    ASSUME JobControlAssumption, IInv, FgEnded \/ FgStopped PROVE IInv'
<1> DEFINE s == sh.slot
<1>1. s \in Slot /\ jobs[s].active /\ sh' = Prompt /\ UNCHANGED <<nextId, stops, faults>>
  BY DEF FgEnded, FgStopped, At, IInv, PlaceOK
<1>2. child \in [Pid -> Child] /\ jobs \in [Slot -> Job] /\ nextId \in 1 .. MaxId + 1
  BY DEF IInv, TypeOK
<1>3. PICK p \in jobs[s].last :
          /\ child' = [child EXCEPT ![p] = Reported(p)]
          /\ FgStopped => StopSeen(p)
  BY DEF FgEnded, FgStopped
<1>4. p \in Pid /\ p \in JobPids(s) /\ Reported(p) \in Child
      /\ (child[p].state # "zombie" => Reported(p).state = child[p].state)
  <2>1. jobs[s].last \in Groups
    BY <1>1, <1>2 DEF Job
  <2> QED
    BY <1>3, <2>1, ReportedIsChild DEF Groups, JobPids
<1>5. child' \in [Pid -> Child] /\ child'[p] = Reported(p)
      /\ \A x \in Pid \ {p} : child'[x] = child[x]
  BY <1>2, <1>3, <1>4
<1>6. /\ jobs' \in [Slot -> Job]
      /\ \A t \in Slot : JobPids(t)' = JobPids(t) /\ JobPids(t) \subseteq Pid
      /\ \A t \in Slot : jobs'[t].active => jobs[t].active
      /\ jobs'[s].active => child[p].state # "zombie"
  <2>1. CASE FgEnded
    <3>1. jobs' = [jobs EXCEPT ![s].active = FALSE]
      BY <2>1 DEF FgEnded
    <3> HIDE DEF s
    <3>2. /\ jobs' \in [Slot -> Job] /\ jobs'[s].active = FALSE
          /\ \A t \in Slot : jobs[t] \in Job /\ jobs'[t] \in Job
      BY <1>1, <1>2, <3>1 DEF Job
    <3>3. \A t \in Slot : jobs'[t].pgid = jobs[t].pgid /\ jobs'[t].last = jobs[t].last
      BY <1>1, <1>2, <3>1 DEF Job
    <3>4. \A t \in Slot : jobs'[t].active => jobs[t].active
      BY <1>1, <1>2, <3>1 DEF Job
    <3>5. \A t \in Slot : jobs[t].pgid \subseteq Pid /\ jobs[t].last \subseteq Pid
      BY <1>2 DEF Job, Groups
    <3> QED
      BY <3>2, <3>3, <3>4, <3>5 DEF JobPids
  <2>2. CASE FgStopped
    <3>1. jobs' = [jobs EXCEPT ![s].state = "stopped"] /\ child[p].state # "zombie"
      BY <1>3, <2>2 DEF FgStopped, StopSeen
    <3> QED
      BY <1>1, <1>2, <3>1 DEF Job, Groups, JobPids
  <2> QED
    BY <2>1, <2>2
<1>7. ActiveIsChild'
  <2>1. \A t \in Slot \ {s} : jobs[t].active => p \notin JobPids(t)
    BY <1>1, <1>4 DEF IInv, ActiveIsChild
  <2>2. ASSUME NEW t \in Slot, jobs'[t].active, NEW x \in JobPids(t)
        PROVE  child'[x].state # "none"
    <3>1. x \in Pid /\ child[x].state # "none"
      BY <1>6, <2>2 DEF IInv, ActiveIsChild
    <3> QED
      BY <1>4, <1>5, <1>6, <2>1, <2>2, <3>1
  <2> QED
    BY <1>6, <2>2 DEF IInv, ActiveIsChild
<1> QED
  BY <1>1, <1>2, <1>5, <1>6, <1>7, BackAtPrompt

(* The shell ends with an empty table. *)
LEMMA ExitInvariant ==
    ASSUME JobControlAssumption, IInv, Exit PROVE IInv'
<1>1. NoChild \in Child /\ NoJob \in Job
  BY JobControlAssumption DEF NoChild, Child, NoJob, Job, Groups, JobControlAssumption
<1>2. child' \in [Pid -> Child] /\ jobs' \in [Slot -> Job]
  BY <1>1 DEF Exit, IInv, TypeOK
<1>3. sh' = [pc |-> "exited", todo |-> 0, pids |-> <<>>, background |-> FALSE, slot |-> 0]
      /\ \A s \in Slot : ~jobs'[s].active
      /\ UNCHANGED <<nextId, stops, faults>>
  BY DEF Exit, Prompt, NoJob
<1>4. TypeOK'
  <2>1. sh' \in [pc : Places, todo : 0 .. MaxStages, pids : Seq(Pid),
                background : BOOLEAN, slot : 0 .. MaxJobs]
        /\ Len(sh'.pids) + sh'.todo <= MaxStages
    BY <1>3, JobControlAssumption DEF Places, JobControlAssumption
  <2>2. nextId' \in 1 .. MaxId + 1 /\ stops' \in 0 .. MaxStops /\ faults' \in 0 .. MaxFaults
    BY DEF Exit, IInv, TypeOK
  <2> QED
    BY <1>2, <2>1, <2>2 DEF TypeOK
<1>5. ActiveIsChild' /\ PidsOK' /\ PlaceOK'
  BY <1>3 DEF ActiveIsChild, PidsOK, PlaceOK, At
<1> QED
  BY <1>4, <1>5 DEF IInv

-----------------------------------------------------------------------------

(* The invariant of the specification, for every number of processes,      *)
(* slots of g_bg_jobs and stages of a pipeline.                            *)
THEOREM Invariant == ASSUME JobControlAssumption PROVE Spec => []IInv
<1>1. Init => IInv
  BY InitInvariant
<1>2. ASSUME IInv, Next
      PROVE  IInv'
  <2>1. CASE Shell
    BY <1>2, <2>1, ReapInvariant, ForkInvariant, MovesInvariant, RecordInvariant,
       WaitInvariant, FgInvariant DEF Shell
  <2>2. CASE User
    BY <1>2, <2>2, MovesInvariant, ContinueInvariant, ExitInvariant DEF User
  <2>3. CASE Processes
    BY <1>2, <2>3, ProcessesInvariant DEF Processes
  <2>4. CASE Exited
    <3>1. UNCHANGED vars
      BY <2>4 DEF Exited
    <3> QED
      BY <1>2, <3>1 DEF vars, IInv, TypeOK, ActiveIsChild, PidsOK, PlaceOK, At, JobPids
  <2> QED
    BY <1>2, <2>1, <2>2, <2>3, <2>4 DEF Next
<1>3. IInv /\ UNCHANGED vars => IInv'
  BY DEF vars, IInv, TypeOK, ActiveIsChild, PidsOK, PlaceOK, At, JobPids
<1> QED
  BY <1>1, <1>2, <1>3, PTL DEF Spec

(* The records of the executor keep their types, and child_pids never      *)
(* overflows, however many stages and jobs there are.                      *)
THEOREM TypeCorrect == ASSUME JobControlAssumption PROVE Spec => []TypeOK
<1>1. IInv => TypeOK
  BY DEF IInv
<1> QED
  BY <1>1, Invariant, PTL

(* The processes that an active job of g_bg_jobs names are always children *)
(* of the shell it has not reaped, and no two jobs share one.              *)
THEOREM JobsNameChildren == ASSUME JobControlAssumption PROVE Spec => []ActiveIsChild
<1>1. IInv => ActiveIsChild
  BY DEF IInv
<1> QED
  BY <1>1, Invariant, PTL

-----------------------------------------------------------------------------
(***************************************************************************)
(* The state that jobs shows.                                              *)
(***************************************************************************)

LEMMA RecordTypes ==
    ASSUME IInv
    PROVE  /\ child \in [Pid -> Child] /\ jobs \in [Slot -> Job]
           /\ \A s \in Slot : jobs[s].last \subseteq Pid /\ JobPids(s) \subseteq Pid
                              /\ jobs[s].last \subseteq JobPids(s)
           /\ sh.pids \in Seq(Pid) /\ Len(sh.pids) \in Nat
           /\ \A i \in DOMAIN sh.pids : sh.pids[i] \in Pid
BY DEF IInv, TypeOK, Job, Groups, JobPids

(* News of a child is never worse for the table: what changes it tells     *)
(* waitpid.                                                                *)
LEMMA NewsKeepState ==
    ASSUME IInv, StateInv, UNCHANGED sh,
           \A p \in Pid : /\ child'[p].group = child[p].group
                          /\ child'[p] = child[p] \/ Reportable(p)',
           \A s \in Slot : jobs[s].last = jobs'[s].last /\ jobs'[s].pgid = jobs[s].pgid
                           /\ (jobs'[s].active => jobs[s].active),
           \A s \in Slot : \/ jobs'[s].state = jobs[s].state
                           \/ \A p \in jobs[s].last : 
                                 child[p].group = {p} /\ jobs[s].pgid = {p} =>
                                     Reportable(p)' \/ jobs'[s].state = child'[p].state
    PROVE  StateInv'
<1>1. \A p \in Pid : child'[p] = child[p] => Reportable(p)' = Reportable(p)
  BY DEF Reportable
<1>2. ASSUME NEW s \in Slot
      PROVE  SlotTrue(s)'
  <2> SUFFICES ASSUME NEW p \in jobs'[s].last, jobs'[s].active, jobs'[s].pgid = {p}
               PROVE  /\ child'[p].group = {p}
                      /\ Reportable(p)' \/ (At("fg")' /\ sh'.slot = s) \/ jobs'[s].state = child'[p].state
    BY DEF SlotTrue
  <2>1. p \in Pid /\ p \in jobs[s].last /\ jobs[s].active /\ jobs[s].pgid = {p}
    BY RecordTypes
  <2>2. /\ child[p].group = {p}
        /\ Reportable(p) \/ (At("fg") /\ sh.slot = s) \/ jobs[s].state = child[p].state
    BY <2>1 DEF StateInv, SlotTrue
  <2>3. CASE child'[p] = child[p]
    BY <1>1, <2>1, <2>2, <2>3 DEF At
  <2>4. CASE Reportable(p)'
    BY <2>1, <2>2, <2>4
  <2> QED
    BY <2>1, <2>3, <2>4
<1>3. PipelineTogether'
  <2> SUFFICES ASSUME At("fork") \/ At("wait"), NEW i \in DOMAIN sh.pids
               PROVE  /\ child'[sh.pids[i]].group = {Head(sh.pids)}
                      /\ child'[sh.pids[i]].state = "stopped" => child'[sh.pids[i]].report # "none"
    BY DEF PipelineTogether, At
  <2>1. sh.pids[i] \in Pid
    BY RecordTypes
  <2>2. /\ child[sh.pids[i]].group = {Head(sh.pids)}
        /\ child[sh.pids[i]].state = "stopped" => child[sh.pids[i]].report # "none"
    BY DEF StateInv, PipelineTogether
  <2> QED
    BY <2>1, <2>2 DEF Reportable
<1> QED
  BY <1>2, <1>3 DEF StateInv

LEMMA ProcessesKeepState ==
    ASSUME IInv, StateInv, NEW p \in Pid, Exits(p) \/ Killed(p) \/ Stops(p) \/ Continues(p)
    PROVE  StateInv'
<1>1. UNCHANGED <<jobs, sh>>
  BY DEF Exits, Killed, Stops, Continues
<1>2. PICK state \in {"running", "stopped", "zombie"}, report \in {"none", "stopped", "continued"} :
          Become(p, state, report) /\ (state = "zombie" \/ report # "none")
  BY DEF Exits, Killed, Stops, Continues
<1>3. child \in [Pid -> Child]
  BY RecordTypes
<1>4. child' = [child EXCEPT ![p] = [child[p] EXCEPT !.state = state, !.report = report]]
  BY <1>2, <1>3 DEF Become
<1>5. /\ [child[p] EXCEPT !.state = state, !.report = report].state = state
      /\ [child[p] EXCEPT !.state = state, !.report = report].report = report
      /\ [child[p] EXCEPT !.state = state, !.report = report].group = child[p].group
  BY <1>3 DEF Child
<1>6. \A q \in Pid : /\ child'[q].group = child[q].group
                     /\ child'[q] = child[q] \/ Reportable(q)'
  BY <1>2, <1>3, <1>4, <1>5 DEF Reportable
<1> QED
  BY <1>1, <1>6, NewsKeepState

LEMMA ContinueKeepsState ==
    ASSUME IInv, StateInv, NEW s \in Slot, Fg(s) \/ Bg(s)
    PROVE  StateInv'
<1>1. child \in [Pid -> Child] /\ jobs \in [Slot -> Job] /\ jobs[s].active /\ At("prompt")
      /\ child' = Continued(jobs[s].pgid)
  BY RecordTypes DEF Fg, Bg
<1>2. \A q \in Pid : /\ child'[q].group = child[q].group
                     /\ child'[q] = child[q] \/ Reportable(q)'
                     /\ child[q].group = jobs[s].pgid => child'[q].state # "stopped"
  <2>1. ASSUME NEW q \in Pid
        PROVE  LET c == [child[q] EXCEPT !.state = "running", !.report = "continued"]
               IN c.state = "running" /\ c.report = "continued" /\ c.group = child[q].group
    BY <1>1 DEF Child
  <2>2. \A q \in Pid : child'[q] = IF child[q].state = "stopped" /\ child[q].group = jobs[s].pgid
                      THEN [child[q] EXCEPT !.state = "running", !.report = "continued"]
                      ELSE child[q]
    BY <1>1 DEF Continued
  <2> QED
    BY <2>1, <2>2 DEF Reportable
<1>3. CASE Bg(s)
  <2>1. jobs' = [jobs EXCEPT ![s].state = "running"] /\ UNCHANGED sh
    BY <1>3 DEF Bg
  <2>2. \A t \in Slot : /\ jobs[t].last = jobs'[t].last /\ jobs'[t].pgid = jobs[t].pgid
                        /\ jobs'[t].active = jobs[t].active
                        /\ t # s => jobs'[t].state = jobs[t].state
                        /\ jobs'[s].state = "running"
    BY <1>1, <2>1 DEF Job
  <2>3. \A p \in jobs[s].last : 
            child[p].group = {p} /\ jobs[s].pgid = {p} =>
                Reportable(p)' \/ jobs'[s].state = child'[p].state
    <3> SUFFICES ASSUME NEW p \in jobs[s].last, child[p].group = {p}, jobs[s].pgid = {p}
                 PROVE  Reportable(p)' \/ jobs'[s].state = child'[p].state
      OBVIOUS
    <3>1. p \in Pid /\ child[p].state # "none" /\ child[p] \in Child
      BY <1>1, RecordTypes DEF IInv, ActiveIsChild
    <3>2. child'[p].state \in {"running", "zombie", "none", "stopped"} /\ child'[p].state # "none"
      BY <1>1, <3>1, ContinuedIsChild DEF Child
    <3> QED
      BY <1>2, <2>2, <3>1, <3>2 DEF Reportable
  <2> QED
    BY <1>2, <2>1, <2>2, <2>3, NewsKeepState
<1>4. CASE Fg(s)
  <2>1. UNCHANGED jobs /\ sh'.pc = "fg" /\ sh'.slot = s
    BY <1>4 DEF Fg, Prompt
  <2>2. ASSUME NEW t \in Slot, NEW p \in jobs[t].last, jobs[t].active, jobs[t].pgid = {p}
        PROVE  /\ child'[p].group = {p}
               /\ Reportable(p)' \/ t = s \/ jobs[t].state = child'[p].state
    <3>1. p \in Pid
      BY RecordTypes
    <3>2. child[p].group = {p} /\ (Reportable(p) \/ jobs[t].state = child[p].state)
      BY <1>1, <2>2 DEF StateInv, SlotTrue, At
    <3> QED
      BY <1>2, <3>1, <3>2 DEF Reportable
  <2> QED
    BY <2>1, <2>2 DEF StateInv, SlotTrue, PipelineTogether, At
<1> QED
  BY <1>3, <1>4

LEMMA ReapKeepsState == ASSUME IInv, JobControlAssumption, StateInv, Reap PROVE StateInv'
<1>1. PICK p \in Pid : /\ Reportable(p)
                       /\ child' = [child EXCEPT ![p] = Reported(p)]
                       /\ jobs' = Noted(p)
  BY DEF Reap
<1>2. At("reap") /\ UNCHANGED sh
  BY DEF Reap
<1>3. child \in [Pid -> Child] /\ jobs \in [Slot -> Job] /\ child'[p] = Reported(p)
      /\ \A x \in Pid \ {p} : child'[x] = child[x]
  BY <1>1, RecordTypes
<1>4. child[p].state # "zombie" => /\ Reported(p).group = child[p].group
                                   /\ Reported(p).state = child[p].state
  BY <1>3 DEF Reported, Child
<1>5. ASSUME NEW s \in Slot
      PROVE  SlotTrue(s)'
  <2> SUFFICES ASSUME NEW q \in jobs'[s].last, jobs'[s].active, jobs'[s].pgid = {q}
               PROVE  child'[q].group = {q} /\ (Reportable(q)' \/ jobs'[s].state = child'[q].state)
    BY DEF SlotTrue
  <2>1. jobs'[s] = IF Matches(s, p) /\ \A t \in Slot : t < s => ~Matches(t, p)
                      THEN IF child[p].state = "zombie" THEN [jobs[s] EXCEPT !.active = FALSE]
                           ELSE [jobs[s] EXCEPT !.state = child[p].state]
                      ELSE jobs[s]
    BY <1>1 DEF Noted
  <2>2. jobs[s].active /\ jobs[s].pgid = {q} /\ q \in jobs[s].last
    BY <1>3, <2>1 DEF Job
  <2>3. q \in Pid
    BY <2>2, RecordTypes
  <2>4. child[q].group = {q} /\ (Reportable(q) \/ jobs[s].state = child[q].state)
    BY <1>2, <2>2 DEF StateInv, SlotTrue, At
  <2>5. CASE q # p
    <3>1. ~Matches(s, p)
      <4>1. jobs[s].last \in Groups
        BY <1>3 DEF Job
      <4> QED
        BY <2>2, <2>5, <4>1 DEF Matches, Groups
    <3> QED
      BY <1>3, <2>1, <2>3, <2>4, <2>5, <3>1 DEF Reportable
  <2>6. CASE q = p
    <3>1. \A t \in Slot : t < s => ~Matches(t, p)
      <4>1. \A t \in Slot : t < s => t # s
        BY JobControlAssumption DEF Slot, JobControlAssumption
      <4> QED
        BY <2>2, <2>6, <4>1 DEF Matches, IInv, ActiveIsChild, JobPids
    <3>2. Matches(s, p)
      BY <2>2, <2>6 DEF Matches
    <3>3. child[p].state # "zombie"
      BY <1>3, <2>1, <3>1, <3>2 DEF Job
    <3> QED
      BY <1>3, <1>4, <2>1, <2>4, <2>6, <3>1, <3>2, <3>3 DEF Job
  <2> QED
    BY <2>5, <2>6
<1>6. PipelineTogether'
  BY <1>2 DEF PipelineTogether, At
<1> QED
  BY <1>5, <1>6 DEF StateInv

LEMMA ForkKeepsState == ASSUME IInv, JobControlAssumption, StateInv, Fork PROVE StateInv'
<1> DEFINE new(p) == [state |-> "running", report |-> "none",
                      group |-> {IF sh.pids = <<>> THEN p ELSE Head(sh.pids)}]
<1>1. PICK p \in Pid : /\ Free(p)
                       /\ child' = [child EXCEPT ![p] = new(p)]
                       /\ sh' = [sh EXCEPT !.todo = @ - 1, !.pids = Append(@, p)]
  BY DEF Fork
<1>2. At("fork") /\ UNCHANGED jobs /\ child[p].state = "none"
  BY <1>1 DEF Fork, Free
<1>3. child'[p] = new(p) /\ \A x \in Pid \ {p} : child'[x] = child[x] /\ Reportable(x)' = Reportable(x)
  BY <1>1, RecordTypes DEF Reportable
<1>4. ASSUME NEW s \in Slot
      PROVE  SlotTrue(s)'
  <2> SUFFICES ASSUME NEW q \in jobs[s].last, jobs[s].active, jobs[s].pgid = {q}
               PROVE  child'[q].group = {q} /\ (Reportable(q)' \/ jobs[s].state = child'[q].state)
    BY <1>2 DEF SlotTrue
  <2>1. q \in Pid /\ q # p
    BY <1>2, RecordTypes DEF IInv, ActiveIsChild
  <2> QED
    BY <1>2, <1>3, <2>1 DEF StateInv, SlotTrue, At
<1>5. PipelineTogether'
  <2>1. /\ sh'.pids = Append(sh.pids, p) /\ DOMAIN sh.pids = 1 .. Len(sh.pids)
        /\ DOMAIN sh'.pids = DOMAIN sh.pids \cup {Len(sh.pids) + 1}
        /\ sh'.pids[Len(sh.pids) + 1] = p
        /\ \A i \in DOMAIN sh.pids : sh'.pids[i] = sh.pids[i] /\ sh.pids[i] \in Pid
    <3>1. sh'.pids = Append(sh.pids, p)
      BY <1>1 DEF IInv, TypeOK
    <3> QED
      BY <3>1, RecordTypes
  <2>2. Head(sh'.pids) = IF sh.pids = <<>> THEN p ELSE Head(sh.pids)
    BY <2>1, RecordTypes
  <2>3. \A i \in DOMAIN sh.pids : sh.pids[i] # p
    BY <1>2 DEF IInv, PidsOK
  <2>4. ASSUME NEW i \in DOMAIN sh.pids
        PROVE  /\ child'[sh'.pids[i]].group = {Head(sh'.pids)}
               /\ child'[sh'.pids[i]].state = "stopped" => child'[sh'.pids[i]].report # "none"
    <3>1. /\ child[sh.pids[i]].group = {Head(sh.pids)}
          /\ child[sh.pids[i]].state = "stopped" => child[sh.pids[i]].report # "none"
      BY <1>2 DEF StateInv, PipelineTogether
    <3>2. sh.pids # <<>>
      BY <2>1, RecordTypes
    <3> QED
      BY <1>3, <2>1, <2>2, <2>3, <3>1, <3>2
  <2>5. child'[p].group = {Head(sh'.pids)} /\ child'[p].state = "running"
    BY <1>3, <2>2
  <2> QED
    BY <2>1, <2>4, <2>5 DEF PipelineTogether
<1> QED
  BY <1>4, <1>5 DEF StateInv

(* The steps of the shell alone. *)
LEMMA MovesKeepState ==
    ASSUME IInv, StateInv,
           \/ \E n \in 1 .. MaxStages, b \in BOOLEAN : Run(n, b)
           \/ Reaped \/ ForkFails \/ Foreground \/ Finished
    PROVE  StateInv'
<1>1. UNCHANGED <<child, jobs>>
  BY DEF Run, Reaped, ForkFails, Foreground, Finished
<1>2. ~At("fg") /\ ~At("fg")'
  <2>1. sh'.pc \in {"reap", "fork", "wait", "prompt"}
    <3>1. CASE Reaped \/ Foreground
      BY <3>1 DEF Reaped, Foreground, IInv, TypeOK
    <3>2. CASE ForkFails \/ Finished
      BY <3>2 DEF ForkFails, Finished, Prompt
    <3>3. ASSUME NEW n \in 1 .. MaxStages, NEW b \in BOOLEAN, Run(n, b)
          PROVE  sh'.pc = "reap"
      BY <3>3 DEF Run, Prompt
    <3> QED
      BY <3>1, <3>2, <3>3
  <2> QED
    BY <2>1 DEF Run, Reaped, ForkFails, Foreground, Finished, At
<1>3. \A s \in Slot : SlotTrue(s)'
  BY <1>1, <1>2 DEF StateInv, SlotTrue, Reportable
<1>4. PipelineTogether'
  <2>1. CASE Reaped
    BY <2>1 DEF Reaped, IInv, PlaceOK, TypeOK, At, PipelineTogether
  <2>2. CASE Foreground
    BY <2>2, <1>1 DEF Foreground, IInv, TypeOK, At, StateInv, PipelineTogether, Reportable
  <2>3. CASE \E n \in 1 .. MaxStages, b \in BOOLEAN : Run(n, b)
    BY <2>3 DEF Run, Prompt, At, PipelineTogether
  <2>4. CASE ForkFails \/ Finished
    BY <2>4 DEF ForkFails, Finished, Prompt, At, PipelineTogether
  <2> QED
    BY <2>1, <2>2, <2>3, <2>4
<1> QED
  BY <1>3, <1>4 DEF StateInv

(* A pipeline is recorded in the state its last process is in. *)
LEMMA RecordKeepsState ==
    ASSUME IInv, StateInv, Background \/ Suspended
    PROVE  StateInv'
<1>1. PICK head \in Pid, last \in Pid :
          /\ sh.pids # <<>> /\ sh' = Prompt /\ ~At("fg")
          /\ Len(sh.pids) \in DOMAIN sh.pids /\ last = sh.pids[Len(sh.pids)]
          /\ head = Head(sh.pids) /\ last = Last(sh.pids)
  <2>1. sh.pids # <<>> /\ sh' = Prompt /\ ~At("fg")
    BY DEF Background, Suspended, IInv, PlaceOK, At
  <2> QED
    BY <2>1, RecordTypes DEF Last
<1>2. child[last].group = {head} /\ (child[last].state = "stopped" => child[last].report # "none")
  BY <1>1 DEF Background, Suspended, StateInv, PipelineTogether
<1>3. /\ child[last].state # "none" /\ child[last] \in Child
      /\ \A s \in Slot : jobs[s].active => last \notin JobPids(s)
  BY <1>1, RecordTypes DEF IInv, PidsOK
<1>4. PICK state \in {"running", "stopped"} :
          /\ Record(state)
          /\ \A q \in Pid \ {last} : child'[q] = child[q]
          /\ child'[last].group = child[last].group
          /\ Reportable(last)' \/ child'[last].state = state
  <2>1. CASE Background
    <3>1. Record("running") /\ child' = child
      BY <1>1, <2>1 DEF Background
    <3>2. Reportable(last)' \/ child'[last].state = "running"
      BY <1>2, <1>3, <3>1 DEF Reportable, Child
    <3> QED
      BY <3>1, <3>2
  <2>2. CASE Suspended
    <3>1. Record("stopped") /\ child' = [child EXCEPT ![last] = Reported(last)] /\ StopSeen(last)
      BY <1>1, <2>2 DEF Suspended
    <3>2. child'[last] = Reported(last) /\ \A q \in Pid \ {last} : child'[q] = child[q]
      BY <1>1, <3>1, RecordTypes
    <3>3. Reported(last).state = "stopped" /\ Reported(last).group = child[last].group
      BY <1>3, <3>1 DEF Reported, StopSeen, Child
    <3> QED
      BY <3>1, <3>2, <3>3
  <2> QED
    BY <2>1, <2>2
<1>5. ASSUME NEW s \in Slot
      PROVE  SlotTrue(s)'
  <2> SUFFICES ASSUME NEW q \in jobs'[s].last, jobs'[s].active, jobs'[s].pgid = {q}
               PROVE  child'[q].group = {q} /\ (Reportable(q)' \/ jobs'[s].state = child'[q].state)
    BY DEF SlotTrue
  <2>1. CASE jobs'[s] = jobs[s]
    <3>1. q \in Pid /\ q # last
      BY <1>3, <2>1, RecordTypes
    <3>2. child[q].group = {q} /\ (Reportable(q) \/ jobs[s].state = child[q].state)
      BY <1>1, <2>1 DEF StateInv, SlotTrue, At
    <3> QED
      BY <1>4, <2>1, <3>1, <3>2 DEF Reportable
  <2>2. CASE jobs'[s] # jobs[s]
    <3>1. jobs'[s] = [active |-> TRUE, id |-> nextId, pgid |-> {head},
                      last |-> {last}, state |-> state]
      BY <1>1, <1>4, <2>2, RecordTypes DEF Record
    <3> QED
      BY <1>2, <1>4, <3>1
  <2> QED
    BY <2>1, <2>2
<1> QED
  BY <1>1, <1>5 DEF StateInv, PipelineTogether, At, Prompt

LEMMA WaitKeepsState == ASSUME IInv, StateInv, Ended \/ WaitRest PROVE StateInv'
<1>1. /\ sh.pids # <<>> /\ sh'.pc = "rest" /\ ~At("fg") /\ UNCHANGED jobs
      /\ Len(sh.pids) \in DOMAIN sh.pids /\ Last(sh.pids) = sh.pids[Len(sh.pids)]
      /\ 1 \in DOMAIN sh.pids /\ Head(sh.pids) = sh.pids[1]
  <2>1. sh.pids # <<>> /\ sh'.pc = "rest" /\ ~At("fg") /\ UNCHANGED jobs
    BY DEF Ended, WaitRest, IInv, PlaceOK, TypeOK, At
  <2> QED
    BY <2>1, RecordTypes DEF Last
<1>2. PICK i \in DOMAIN sh.pids : \A q \in Pid : q # sh.pids[i] => child'[q] = child[q]
  BY <1>1, RecordTypes DEF Ended, WaitRest
<1>3. ASSUME NEW s \in Slot
      PROVE  SlotTrue(s)'
  <2>1. \A q \in jobs[s].last : jobs[s].active => q # sh.pids[i] /\ q \in Pid
    BY <1>2, RecordTypes DEF IInv, PidsOK
  <2> QED
    BY <1>1, <1>2, <2>1 DEF StateInv, SlotTrue, Reportable, At
<1> QED
  BY <1>1, <1>3 DEF StateInv, PipelineTogether, At

(* The waitpid of fg sets the state it was told. *)
LEMMA FgKeepsState == ASSUME IInv, StateInv, FgEnded \/ FgStopped PROVE StateInv'
<1> DEFINE s == sh.slot
<1>1. s \in Slot /\ jobs[s].active /\ sh' = Prompt
  BY DEF FgEnded, FgStopped, At, IInv, PlaceOK
<1>2. PICK p \in jobs[s].last : /\ child' = [child EXCEPT ![p] = Reported(p)]
                                /\ FgStopped => StopSeen(p)
  BY DEF FgEnded, FgStopped
<1>3. p \in Pid /\ p \in JobPids(s) /\ child'[p] = Reported(p)
      /\ \A q \in Pid \ {p} : child'[q] = child[q]
  BY <1>1, <1>2, RecordTypes
<1>4. /\ \A t \in Slot \ {s} : jobs'[t] = jobs[t]
      /\ FgStopped => /\ jobs'[s].state = "stopped" /\ jobs'[s].last = jobs[s].last
                      /\ jobs'[s].pgid = jobs[s].pgid
      /\ FgEnded => ~jobs'[s].active
  <2>1. jobs \in [Slot -> Job] /\ jobs[s] \in Job
    BY <1>1, RecordTypes
  <2> QED
    BY <1>1, <2>1 DEF FgStopped, FgEnded, Job
<1> HIDE DEF s
<1>5. ASSUME NEW t \in Slot
      PROVE  SlotTrue(t)'
  <2> SUFFICES ASSUME NEW q \in jobs'[t].last, jobs'[t].active, jobs'[t].pgid = {q}
               PROVE  child'[q].group = {q} /\ (Reportable(q)' \/ jobs'[t].state = child'[q].state)
    BY DEF SlotTrue
  <2>1. CASE t # s
    <3>1. q \in Pid /\ q # p /\ jobs'[t] = jobs[t]
      BY <1>1, <1>3, <1>4, <2>1, RecordTypes DEF IInv, ActiveIsChild
    <3> QED
      BY <1>3, <2>1, <3>1 DEF StateInv, SlotTrue, Reportable, s
  <2>2. CASE t = s
    <3>1. FgStopped /\ StopSeen(p)
      BY <1>2, <1>4, <2>2
    <3>2. q = p
      <4>1. jobs[s].last \in Groups
        BY <1>1, RecordTypes DEF Job
      <4> QED
        BY <1>2, <1>4, <2>2, <3>1, <4>1 DEF Groups
    <3>3. child[p].group = {p}
      BY <1>1, <1>2, <1>4, <2>2, <3>1, <3>2 DEF StateInv, SlotTrue
    <3>4. Reported(p).state = "stopped" /\ Reported(p).group = child[p].group
      BY <1>3, <3>1, RecordTypes DEF Reported, StopSeen, Child
    <3> QED
      BY <1>3, <1>4, <2>2, <3>1, <3>2, <3>3, <3>4
  <2> QED
    BY <2>1, <2>2
<1> QED
  BY <1>1, <1>5 DEF StateInv, PipelineTogether, At, Prompt

LEMMA ExitKeepsState == ASSUME StateInv, Exit PROVE StateInv'
BY DEF Exit, StateInv, SlotTrue, PipelineTogether, NoJob, Prompt, At

(* The invariant with what the table says of the processes, for every      *)
(* order of stops, continuations, exits and waits.                         *)
THEOREM TableInvariant == ASSUME JobControlAssumption PROVE Spec => []TableInv
<1>1. Init => StateInv
  BY DEF Init, StateInv, SlotTrue, PipelineTogether, NoJob, Prompt, At
<1>2. ASSUME IInv, StateInv, [Next]_vars
      PROVE  StateInv'
  <2>1. CASE UNCHANGED vars
    BY <1>2, <2>1 DEF vars, StateInv, SlotTrue, PipelineTogether, At, Reportable
  <2>2. CASE Next
    <3>1. CASE Shell
      BY <1>2, <3>1, ReapKeepsState, ForkKeepsState, MovesKeepState, RecordKeepsState,
         WaitKeepsState, FgKeepsState DEF Shell
    <3>2. CASE User
      BY <1>2, <3>2, MovesKeepState, ContinueKeepsState, ExitKeepsState DEF User
    <3>3. CASE Processes
      BY <1>2, <3>3, ProcessesKeepState DEF Processes
    <3> QED
      BY <2>1, <2>2, <3>1, <3>2, <3>3 DEF Next, Exited
  <2> QED
    BY <1>2, <2>1, <2>2
<1>3. IInv /\ StateInv => TableInv
  BY DEF TableInv
<1> QED
  BY <1>1, <1>2, <1>3, Invariant, PTL DEF Spec

(* What jobs says of a job of one process is what that process does.       *)
THEOREM JobsTellTheState == ASSUME JobControlAssumption PROVE Spec => []JobStateTrue
<1>1. TableInv => JobStateTrue
  BY DEF TableInv, StateInv, SlotTrue, JobStateTrue, At
<1> QED
  BY <1>1, TableInvariant, PTL

-----------------------------------------------------------------------------
(***************************************************************************)
(* No process is lost, when pipelines have one stage.                      *)
(***************************************************************************)

(* A child that stays is found where it was. *)
LEMMA StillKept ==
    ASSUME KeptInv, ~At("exited"),
           \A p \in Pid : child'[p].state # "none" =>
               child[p].state # "none" /\ child'[p].group = child[p].group,
           \A s \in Slot, p \in Pid :
               jobs[s].active /\ jobs[s].pgid = {p} /\ jobs[s].last = {p} /\ child'[p].state # "none"
                   => jobs'[s].active /\ jobs'[s].pgid = {p} /\ jobs'[s].last = {p},
           \A i \in DOMAIN sh.pids : child'[sh.pids[i]].state # "none" =>
               \/ \E j \in DOMAIN sh'.pids : sh'.pids[j] = sh.pids[i]
               \/ \E s \in Slot : /\ jobs'[s].active /\ jobs'[s].pgid = {sh.pids[i]}
                                  /\ jobs'[s].last = {sh.pids[i]},
           \A s \in Slot : jobs'[s].active => jobs'[s].pgid # {}
    PROVE  KeptInv'
<1>1. ASSUME NEW p \in Pid, child'[p].state # "none"
      PROVE  \/ \E s \in Slot : /\ jobs'[s].active /\ jobs'[s].pgid = {p} /\ jobs'[s].last = {p}
                                /\ child'[p].group = {p}
             \/ \E i \in DOMAIN sh'.pids : sh'.pids[i] = p /\ child'[p].group = {p}
  <2>1. child'[p].group = child[p].group /\ child[p].state # "none"
    BY <1>1
  <2>2. CASE \E s \in Slot : /\ jobs[s].active /\ jobs[s].pgid = {p} /\ jobs[s].last = {p}
                            /\ child[p].group = {p}
    BY <1>1, <2>1, <2>2
  <2>3. CASE \E i \in DOMAIN sh.pids : sh.pids[i] = p /\ child[p].group = {p}
    BY <1>1, <2>1, <2>3
  <2> QED
    BY <2>1, <2>2, <2>3 DEF KeptInv
<1> QED
  BY <1>1 DEF KeptInv

LEMMA OneStage ==
    ASSUME JobControlAssumption, MaxStages = 1, IInv
    PROVE  /\ sh.todo > 0 => sh.pids = <<>>
           /\ sh.pids # <<>> => DOMAIN sh.pids = {1} /\ Head(sh.pids) = sh.pids[1] /\ Last(sh.pids) = sh.pids[1]
<1>1. sh.pids \in Seq(Pid) /\ sh.todo \in Nat /\ Len(sh.pids) + sh.todo <= 1
  BY JobControlAssumption DEF IInv, TypeOK, JobControlAssumption
<1> QED
  BY <1>1 DEF Last

LEMMA ReapKeepsJobs ==
    ASSUME JobControlAssumption, IInv, KeptInv, Reap PROVE KeptInv'
<1>1. PICK p \in Pid : /\ Reportable(p)
                       /\ child' = [child EXCEPT ![p] = Reported(p)]
                       /\ jobs' = Noted(p)
  BY DEF Reap
<1>2. At("reap") /\ UNCHANGED sh
  BY DEF Reap
<1>3. child \in [Pid -> Child] /\ jobs \in [Slot -> Job] /\ child'[p] = Reported(p)
      /\ \A x \in Pid \ {p} : child'[x] = child[x]
  BY <1>1, RecordTypes
<1>4. /\ Reported(p).state # "none" => child[p].state # "none" /\ Reported(p).group = child[p].group
      /\ child[p].state = "zombie" => Reported(p).state = "none"
  BY <1>3 DEF Reported, Child, NoChild
<1>5. ASSUME NEW s \in Slot, NEW q \in Pid, jobs[s].active, jobs[s].pgid = {q}, jobs[s].last = {q},
             child'[q].state # "none"
      PROVE  jobs'[s].active /\ jobs'[s].pgid = {q} /\ jobs'[s].last = {q}
  <2>1. jobs'[s] = IF Matches(s, p) /\ \A t \in Slot : t < s => ~Matches(t, p)
                      THEN IF child[p].state = "zombie" THEN [jobs[s] EXCEPT !.active = FALSE]
                           ELSE [jobs[s] EXCEPT !.state = child[p].state]
                      ELSE jobs[s]
    BY <1>1 DEF Noted
  <2>2. Matches(s, p) => q = p
    BY <1>5 DEF Matches
  <2> QED
    BY <1>3, <1>4, <1>5, <2>1, <2>2 DEF Job
<1>6. \A s \in Slot : jobs'[s].active => jobs'[s].pgid # {}
  <2>1. \A s \in Slot : jobs'[s].pgid = jobs[s].pgid /\ (jobs'[s].active => jobs[s].active)
    BY <1>1, <1>3 DEF Noted, Job
  <2> QED
    BY <2>1 DEF KeptInv
<1> QED
  BY <1>2, <1>3, <1>4, <1>5, <1>6, StillKept DEF At

LEMMA ForkKeepsJobs ==
    ASSUME JobControlAssumption, MaxStages = 1, IInv, KeptInv, Fork PROVE KeptInv'
<1>1. sh.pids = <<>> /\ At("fork") /\ UNCHANGED jobs
  BY OneStage DEF Fork
<1>2. PICK p \in Pid : /\ Free(p)
                       /\ child' = [child EXCEPT ![p] = [state |-> "running", report |-> "none", group |-> {p}]]
                       /\ 1 \in DOMAIN sh'.pids /\ sh'.pids[1] = p /\ sh'.pc = "fork"
  <2>1. sh \in [pc : Places, todo : 0 .. MaxStages, pids : Seq(Pid),
               background : BOOLEAN, slot : 0 .. MaxJobs] /\ sh.pc = "fork"
    BY <1>1 DEF IInv, TypeOK, At
  <2>2. PICK p \in Pid : /\ Free(p)
                         /\ child' = [child EXCEPT ![p] = [state |-> "running", report |-> "none",
                                                          group |-> {p}]]
                         /\ sh' = [sh EXCEPT !.todo = @ - 1, !.pids = Append(@, p)]
    BY <1>1 DEF Fork
  <2>3. sh'.pids = Append(<<>>, p) /\ sh'.pc = "fork"
    BY <1>1, <2>1, <2>2
  <2>4. 1 \in DOMAIN Append(<<>>, p) /\ Append(<<>>, p)[1] = p
    BY <2>2
  <2> QED
    BY <2>2, <2>3, <2>4
<1>3. child'[p].group = {p} /\ \A q \in Pid \ {p} : child'[q] = child[q]
  BY <1>2, RecordTypes
<1>4. 1 \in DOMAIN sh'.pids /\ sh'.pids[1] = p
  BY <1>2
<1>5. ASSUME NEW q \in Pid, child'[q].state # "none"
      PROVE  \/ \E s \in Slot : /\ jobs'[s].active /\ jobs'[s].pgid = {q} /\ jobs'[s].last = {q}
                                /\ child'[q].group = {q}
             \/ \E i \in DOMAIN sh'.pids : sh'.pids[i] = q /\ child'[q].group = {q}
  <2>1. CASE q = p
    BY <1>3, <1>4, <2>1
  <2>2. CASE q # p
    BY <1>1, <1>3, <1>5, <2>2 DEF KeptInv, At
  <2> QED
    BY <2>1, <2>2
<1> QED
  BY <1>1, <1>5 DEF KeptInv

(* The jobs in the table and the process at hand are different processes,  *)
(* so a table with a slot for each has one left.                           *)
LEMMA SlotLeft ==
    ASSUME JobControlAssumption, IInv, IsFiniteSet(Pid), Cardinality(Pid) <= MaxJobs,
           NEW p \in Pid, \A s \in Slot : jobs[s].active => p \notin JobPids(s) /\ JobPids(s) # {}
    PROVE  \E s \in Slot : ~jobs[s].active
<1> SUFFICES ASSUME \A s \in Slot : jobs[s].active
             PROVE  FALSE
  OBVIOUS
<1> DEFINE named == [s \in Slot |-> CHOOSE q \in JobPids(s) : TRUE]
<1>1. \A s \in Slot : named[s] \in JobPids(s) /\ named[s] \in Pid \ {p}
  BY RecordTypes
<1>2. \A s, t \in Slot : s # t => JobPids(s) \cap JobPids(t) = {}
  BY DEF IInv, ActiveIsChild
<1>3. IsFiniteSet(Pid \ {p}) /\ Cardinality(Pid \ {p}) = Cardinality(Pid) - 1
  BY FS_RemoveElement
<1>4. IsFiniteSet(Slot) /\ Cardinality(Slot) = MaxJobs
  BY FS_Interval, JobControlAssumption DEF Slot, JobControlAssumption
<1>5. Cardinality(Pid) \in Nat
  BY FS_CardinalityType
<1>6. named \in [Slot -> Pid \ {p}]
  BY <1>1
<1> HIDE DEF named
<1>7. \E s, t \in Slot : s # t /\ named[s] = named[t]
  BY <1>3, <1>4, <1>5, <1>6, FS_PigeonHole, JobControlAssumption DEF JobControlAssumption
<1> QED
  BY <1>1, <1>2, <1>7

LEMMA RecordKeepsJobs ==
    ASSUME JobControlAssumption, MaxStages = 1, IsFiniteSet(Pid), Cardinality(Pid) <= MaxJobs,
           IInv, KeptInv, Background \/ Suspended
    PROVE  KeptInv'
<1>1. /\ sh.pids # <<>> /\ sh'.pids = <<>> /\ ~At("exited")
      /\ DOMAIN sh.pids = {1}
  BY OneStage DEF Background, Suspended, IInv, PlaceOK, At, Prompt
<1>2. PICK p \in Pid : p = sh.pids[1] /\ Head(sh.pids) = p /\ Last(sh.pids) = p
  BY <1>1, OneStage, RecordTypes
<1>3. /\ \A q \in Pid : child'[q].state # "none" =>
              child[q].state # "none" /\ child'[q].group = child[q].group
      /\ \E state \in {"running", "stopped"} : Record(state)
  <2>1. CASE Background
    BY <2>1 DEF Background
  <2>2. CASE Suspended
    <3>1. Record("stopped") /\ child' = [child EXCEPT ![p] = Reported(p)] /\ StopSeen(p)
      BY <1>2, <2>2 DEF Suspended
    <3>2. child[p].state = "stopped" /\ Reported(p).group = child[p].group
      BY <3>1, RecordTypes DEF Reported, StopSeen, Child
    <3> QED
      BY <3>1, <3>2, RecordTypes
  <2> QED
    BY <2>1, <2>2
<1>4. \A s \in Slot : jobs[s].active => p \notin JobPids(s)
  BY <1>1, <1>2 DEF IInv, PidsOK
<1>5. \E s \in Slot : ~jobs[s].active
  BY <1>4, SlotLeft DEF KeptInv, JobPids
<1>6. PICK s \in Slot, state \in {"running", "stopped"} :
          /\ ~jobs[s].active
          /\ jobs' = [jobs EXCEPT ![s] = [active |-> TRUE, id |-> nextId, pgid |-> {p},
                                        last |-> {p}, state |-> state]]
  <2>1. PICK state \in {"running", "stopped"} : Record(state)
    BY <1>3
  <2>2. {s \in Slot : ~jobs[s].active} # {}
    BY <1>5
  <2> QED
    BY <1>2, <2>1, <2>2 DEF Record
<1>7. /\ jobs'[s].active /\ jobs'[s].pgid = {p} /\ jobs'[s].last = {p}
      /\ \A t \in Slot \ {s} : jobs'[t] = jobs[t]
  BY <1>6, RecordTypes
<1>8. \A t \in Slot : jobs'[t].active => jobs'[t].pgid # {}
  BY <1>7 DEF KeptInv
<1>9. \A t \in Slot : jobs[t].active => t # s
  BY <1>6
<1> QED
  BY <1>1, <1>2, <1>3, <1>7, <1>8, <1>9, StillKept

(* The only stage ends, and is waited for; or the job in the foreground.   *)
LEMMA WaitKeepsJobs ==
    ASSUME JobControlAssumption, MaxStages = 1, IInv, KeptInv, Ended \/ WaitRest
    PROVE  KeptInv'
<1>1. /\ sh.pids # <<>> /\ ~At("exited") /\ UNCHANGED jobs
      /\ DOMAIN sh.pids = {1} /\ Head(sh.pids) = sh.pids[1] /\ Last(sh.pids) = sh.pids[1]
  BY OneStage DEF Ended, WaitRest, IInv, PlaceOK, At
<1>2. sh.pids[1] \in Pid /\ child' = [child EXCEPT ![sh.pids[1]] = NoChild]
  BY <1>1, RecordTypes DEF Ended, WaitRest, Reported
<1>3. child'[sh.pids[1]].state = "none" /\ \A q \in Pid : q # sh.pids[1] => child'[q] = child[q]
  BY <1>2, RecordTypes DEF NoChild
<1> QED
  BY <1>1, <1>2, <1>3, StillKept DEF KeptInv

LEMMA FgKeepsJobs ==
    ASSUME JobControlAssumption, IInv, KeptInv, FgEnded \/ FgStopped
    PROVE  KeptInv'
<1> DEFINE s == sh.slot
<1>1. s \in Slot /\ jobs[s].active /\ sh.pids = <<>> /\ ~At("exited")
  BY DEF FgEnded, FgStopped, At, IInv, PlaceOK
<1>2. PICK p \in jobs[s].last : /\ child' = [child EXCEPT ![p] = Reported(p)]
                                /\ FgEnded => child[p].state = "zombie"
  BY DEF FgEnded, FgStopped
<1>3. p \in Pid /\ child'[p] = Reported(p)
      /\ \A q \in Pid \ {p} : child'[q] = child[q]
  BY <1>1, <1>2, RecordTypes
<1>4. /\ Reported(p).state # "none" => child[p].state # "none" /\ Reported(p).group = child[p].group
      /\ FgEnded => Reported(p).state = "none"
  BY <1>2, <1>3, RecordTypes DEF Reported, Child, NoChild
<1>5. /\ \A t \in Slot : /\ jobs'[t].pgid = jobs[t].pgid /\ jobs'[t].last = jobs[t].last
                         /\ jobs'[t].active => jobs[t].active
      /\ \A t \in Slot : t # s \/ FgStopped => jobs'[t].active = jobs[t].active
  <2>1. jobs \in [Slot -> Job]
    BY RecordTypes
  <2>2. CASE FgEnded
    <3>1. jobs' = [jobs EXCEPT ![s].active = FALSE]
      BY <2>2 DEF FgEnded
    <3>2. ~FgStopped \/ jobs' = [jobs EXCEPT ![s].state = "stopped"]
      BY DEF FgStopped
    <3> HIDE DEF s
    <3> QED
      BY <1>1, <2>1, <3>1, <3>2 DEF Job
  <2>3. CASE FgStopped
    BY <1>1, <2>1, <2>3 DEF FgStopped, Job
  <2> QED
    BY <2>2, <2>3
<1> HIDE DEF s
<1>6. \A t \in Slot : jobs'[t].active => jobs'[t].pgid # {}
  BY <1>5 DEF KeptInv
<1>7. ASSUME NEW t \in Slot, NEW q \in Pid, jobs[t].active, jobs[t].pgid = {q}, jobs[t].last = {q},
             child'[q].state # "none"
      PROVE  jobs'[t].active
  BY <1>1, <1>2, <1>3, <1>4, <1>5, <1>7
<1> QED
  BY <1>1, <1>3, <1>4, <1>5, <1>6, <1>7, StillKept

(* Everything else leaves each child where it is. *)
LEMMA OthersKeepJobs ==
    ASSUME JobControlAssumption, MaxStages = 1, IInv, KeptInv,
           \/ \E n \in 1 .. MaxStages, b \in BOOLEAN : Run(n, b)
           \/ Reaped \/ ForkFails \/ Foreground \/ Finished \/ Exit
           \/ \E s \in Slot : Fg(s) \/ Bg(s)
           \/ \E p \in Pid : Exits(p) \/ Killed(p) \/ Stops(p) \/ Continues(p)
    PROVE  KeptInv'
<1>1. CASE Exit
  BY <1>1 DEF Exit, KeptInv, NoJob, Prompt, At
<1>2. ASSUME Reaped \/ Foreground
      PROVE  KeptInv'
  <2>1. sh'.pids = sh.pids /\ UNCHANGED <<child, jobs>> /\ ~At("exited")
    BY <1>2 DEF Reaped, Foreground, IInv, TypeOK, At
  <2> QED
    BY <2>1, StillKept DEF KeptInv
<1>3. ASSUME \/ \E n \in 1 .. MaxStages, b \in BOOLEAN : Run(n, b)
             \/ ForkFails \/ Finished
      PROVE  KeptInv'
  <2>1. sh.pids = <<>> /\ UNCHANGED <<child, jobs>> /\ ~At("exited")
    BY <1>3, OneStage DEF Run, ForkFails, Finished, IInv, PlaceOK, At
  <2>2. DOMAIN sh.pids = {}
    BY <2>1
  <2> QED
    BY <2>1, <2>2, StillKept DEF KeptInv
<1>4. ASSUME NEW s \in Slot, Fg(s) \/ Bg(s)
      PROVE  KeptInv'
  <2>1. sh.pids = <<>> /\ ~At("exited") /\ child' = Continued(jobs[s].pgid)
    BY <1>4 DEF Fg, Bg, IInv, PlaceOK, At
  <2>2. \A q \in Pid : child'[q].group = child[q].group
                      /\ (child[q].state = "none" => child'[q] = child[q])
    BY <2>1, RecordTypes DEF Continued, Child
  <2>3. \A t \in Slot : /\ jobs[t].last = jobs'[t].last /\ jobs'[t].pgid = jobs[t].pgid
                        /\ jobs'[t].active = jobs[t].active
    <3>1. jobs' = jobs \/ jobs' = [jobs EXCEPT ![s].state = "running"]
      BY <1>4 DEF Fg, Bg
    <3> QED
      BY <3>1, RecordTypes DEF Job
  <2>4. DOMAIN sh.pids = {}
    BY <2>1
  <2>5. \A t \in Slot : jobs'[t].active => jobs'[t].pgid # {}
    BY <2>3 DEF KeptInv
  <2>6. \A q \in Pid : child'[q].state # "none" => child[q].state # "none"
    BY <2>2
  <2> QED
    BY <2>1, <2>2, <2>3, <2>4, <2>5, <2>6, StillKept
<1>5. ASSUME NEW p \in Pid, Exits(p) \/ Killed(p) \/ Stops(p) \/ Continues(p)
      PROVE  KeptInv'
  <2>1. UNCHANGED <<jobs, sh>> /\ child[p].state # "none"
    BY <1>5 DEF Exits, Killed, Stops, Continues
  <2>2. PICK state, report : Become(p, state, report)
    BY <1>5 DEF Exits, Killed, Stops, Continues
  <2>3. \A q \in Pid : child'[q].group = child[q].group
                      /\ (child[q].state = "none" => child'[q] = child[q])
    BY <2>1, <2>2, RecordTypes DEF Become, Child
  <2>4. CASE At("exited")
    BY <2>1, <2>4 DEF KeptInv, At
  <2>5. CASE ~At("exited")
    BY <2>1, <2>3, <2>5, StillKept DEF KeptInv
  <2> QED
    BY <2>4, <2>5
<1> QED
  BY <1>1, <1>2, <1>3, <1>4, <1>5

(* A shell that runs single commands, with a slot for every process it can *)
(* have, keeps each that is alive in the table, where jobs, fg and bg      *)
(* reach it.                                                               *)
THEOREM NoProcessIsLost ==
    ASSUME JobControlAssumption, MaxStages = 1, IsFiniteSet(Pid), Cardinality(Pid) <= MaxJobs
    PROVE  Spec => []JobsKept
<1>1. Init => KeptInv
  BY DEF Init, KeptInv, NoJob, NoChild
<1>2. ASSUME IInv, KeptInv, [Next]_vars
      PROVE  KeptInv'
  <2>1. CASE UNCHANGED vars
    BY <1>2, <2>1 DEF vars, KeptInv, At
  <2>2. CASE Next
    <3>1. CASE Shell
      BY <1>2, <3>1, ReapKeepsJobs, ForkKeepsJobs, RecordKeepsJobs, WaitKeepsJobs, FgKeepsJobs,
         OthersKeepJobs DEF Shell
    <3>2. CASE User \/ Processes
      BY <1>2, <3>2, OthersKeepJobs DEF User, Processes
    <3> QED
      BY <2>1, <2>2, <3>1, <3>2 DEF Next, Exited
  <2> QED
    BY <1>2, <2>1, <2>2
<1>3. IInv /\ KeptInv => JobsKept
  <2>1. IInv /\ At("prompt") => DOMAIN sh.pids = {}
    BY DEF IInv, PlaceOK, At
  <2> QED
    BY <2>1 DEF KeptInv, JobsKept, Alive, At
<1> QED
  BY <1>1, <1>2, <1>3, Invariant, PTL DEF Spec
=============================================================================
