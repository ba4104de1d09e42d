----------------------------- MODULE JobControl -----------------------------
(***************************************************************************)
(* Job control of BotShell (shell/src/executor.c): the shell forks the     *)
(* stages of a pipeline, waits for those in the foreground and keeps those *)
(* in the background, or stopped, in a table of jobs, while the processes  *)
(* exit, stop and continue when they or other programs please.             *)
(*                                                                         *)
(* A step of the shell ends at each system call that forks, signals or     *)
(* waits.  The kernel keeps for each child what waitpid has not reported   *)
(* yet; a child's pid is free again when it was reaped and no process is   *)
(* in the group of that number.  Exit codes, the terminal's owner and      *)
(* redirections are left out.                                              *)
(***************************************************************************)
EXTENDS Naturals, Sequences, FiniteSets, SequencesExt

CONSTANTS
    Pid,        \* process numbers
    MaxJobs,    \* EXEC_MAX_BG_JOBS
    MaxStages,  \* PARSER_MAX_PIPES
    MaxId,      \* bound on job numbers
    MaxStops,   \* bound on processes stopped
    MaxFaults   \* bound on failures of fork or pipe

ASSUME JobControlAssumption ==
    /\ MaxJobs \in Nat /\ MaxStages \in Nat \ {0} /\ MaxId \in Nat
    /\ MaxStops \in Nat /\ MaxFaults \in Nat

VARIABLES
    child,      \* the kernel's view of the shell's children
    jobs,       \* g_bg_jobs
    nextId,     \* g_next_job_id
    sh,         \* where the shell is in the executor
    stops, faults

vars == <<child, jobs, nextId, sh, stops, faults>>

Slot == 1 .. MaxJobs

(* A child: its state, the stop or continuation that waitpid can report,   *)
(* and its process group.                                                  *)
NoChild == [state |-> "none", report |-> "none", group |-> {}]

NoJob == [active |-> FALSE, id |-> 0, pgid |-> {}, last |-> {}, state |-> "running"]

Prompt == [pc |-> "prompt", todo |-> 0, pids |-> <<>>, background |-> FALSE, slot |-> 0]

Alive(p) == child[p].state \in {"running", "stopped"}

(* Pids are kept in singleton sets, the empty one for none. *)
Members(group) == {p \in Pid : child[p].state # "none" /\ child[p].group = group}

Free(p) == child[p].state = "none" /\ Members({p}) = {}

Init ==
    /\ child = [p \in Pid |-> NoChild]
    /\ jobs = [s \in Slot |-> NoJob]
    /\ nextId = 1
    /\ sh = Prompt
    /\ stops = 0 /\ faults = 0

-----------------------------------------------------------------------------
(***************************************************************************)
(* The processes.                                                          *)
(***************************************************************************)

Become(p, state, report) ==
    child' = [child EXCEPT ![p].state = state, ![p].report = report]

Exits(p) ==
    /\ child[p].state = "running"
    /\ Become(p, "zombie", "none")
    /\ UNCHANGED <<jobs, nextId, sh, stops, faults>>

(* SIGKILL, which also ends a stopped process. *)
Killed(p) ==
    /\ child[p].state = "stopped"
    /\ Become(p, "zombie", "none")
    /\ UNCHANGED <<jobs, nextId, sh, stops, faults>>

(* Ctrl-Z, or SIGSTOP from anywhere; members of a group stop one by one. *)
Stops(p) ==
    /\ child[p].state = "running"
    /\ stops < MaxStops
    /\ stops' = stops + 1
    /\ Become(p, "stopped", "stopped")
    /\ UNCHANGED <<jobs, nextId, sh, faults>>

(* SIGCONT from another program. *)
Continues(p) ==
    /\ child[p].state = "stopped"
    /\ Become(p, "running", "continued")
    /\ UNCHANGED <<jobs, nextId, sh, stops, faults>>

(* kill(-pgid, SIGCONT) *)
Continued(group) ==
    [p \in Pid |-> IF child[p].state = "stopped" /\ child[p].group = group
                      THEN [child[p] EXCEPT !.state = "running", !.report = "continued"]
                      ELSE child[p]]

(* What waitpid can return for p; a zombie it returns is gone. *)
Reportable(p) == child[p].state = "zombie" \/ child[p].report # "none"

StopSeen(p) == child[p].state = "stopped" /\ child[p].report = "stopped"

Reported(p) ==
    IF child[p].state = "zombie" THEN NoChild ELSE [child[p] EXCEPT !.report = "none"]

-----------------------------------------------------------------------------
(***************************************************************************)
(* executor_run_pipeline.                                                  *)
(***************************************************************************)

At(pc) == sh.pc = pc

Run(stages, background) ==
    /\ At("prompt")
    /\ nextId <= MaxId
    /\ sh' = [Prompt EXCEPT !.pc = "reap", !.todo = stages, !.background = background]
    /\ UNCHANGED <<child, jobs, nextId, stops, faults>>

Matches(s, p) == jobs[s].active /\ {p} \in {jobs[s].last, jobs[s].pgid}

(* One iteration of bg_reap_completed: the first job that the child leads  *)
(* or ends is done, stopped or running.                                    *)
Noted(p) ==
    [s \in Slot |->
        IF Matches(s, p) /\ \A t \in Slot : t < s => ~Matches(t, p)
            THEN IF child[p].state = "zombie" THEN [jobs[s] EXCEPT !.active = FALSE]
                 ELSE [jobs[s] EXCEPT !.state = child[p].state]
            ELSE jobs[s]]

Reap ==
    /\ At("reap")
    /\ \E p \in Pid :
          /\ Reportable(p)
          /\ child' = [child EXCEPT ![p] = Reported(p)]
          /\ jobs' = Noted(p)
    /\ UNCHANGED <<nextId, sh, stops, faults>>

Reaped ==
    /\ At("reap")
    /\ \A p \in Pid : ~Reportable(p)
    /\ sh' = [sh EXCEPT !.pc = "fork"]
    /\ UNCHANGED <<child, jobs, nextId, stops, faults>>

(* The first child leads the process group; setpgid in parent and child    *)
(* makes the others join it.                                               *)
Fork ==
    /\ At("fork")
    /\ sh.todo > 0
    /\ \E p \in Pid :
          /\ Free(p)
          /\ child' = [child EXCEPT ![p] =
                          [state |-> "running", report |-> "none",
                           group |-> {IF sh.pids = <<>> THEN p ELSE Head(sh.pids)}]]
          /\ sh' = [sh EXCEPT !.todo = @ - 1, !.pids = Append(@, p)]
    /\ UNCHANGED <<jobs, nextId, stops, faults>>

(* pipe or fork fails, for one because no pid is left: the stages already  *)
(* forked are left to themselves.                                          *)
ForkFails ==
    /\ At("fork")
    /\ sh.todo > 0
    /\ \/ faults < MaxFaults /\ faults' = faults + 1
       \/ (\A p \in Pid : ~Free(p)) /\ UNCHANGED faults
    /\ sh' = Prompt
    /\ UNCHANGED <<child, jobs, nextId, stops>>

(* bg_alloc_job: the first free slot; without one the pipeline goes        *)
(* unrecorded.                                                             *)
Record(state) ==
    LET free == {s \in Slot : ~jobs[s].active}
        job == [active |-> TRUE, id |-> nextId, pgid |-> {Head(sh.pids)},
                last |-> {Last(sh.pids)}, state |-> state]
    IN  IF free = {}
            THEN UNCHANGED <<jobs, nextId>>
            ELSE /\ \E s \in free : /\ \A t \in free : s <= t
                                    /\ jobs' = [jobs EXCEPT ![s] = job]
                 /\ nextId' = nextId + 1

Background ==
    /\ At("fork")
    /\ sh.todo = 0 /\ sh.background
    /\ Record("running")
    /\ sh' = Prompt
    /\ UNCHANGED <<child, stops, faults>>

Foreground ==
    /\ At("fork")
    /\ sh.todo = 0 /\ ~sh.background
    /\ sh' = [sh EXCEPT !.pc = "wait"]
    /\ UNCHANGED <<child, jobs, nextId, stops, faults>>

(* Mutant of Ended: the loop over the other stages includes the last one. *)
EndedAll ==
    /\ At("wait")
    /\ child[Last(sh.pids)].state = "zombie"
    /\ child' = [child EXCEPT ![Last(sh.pids)] = NoChild]
    /\ sh' = [sh EXCEPT !.pc = "rest"]
    /\ UNCHANGED <<jobs, nextId, stops, faults>>

(* waitpid(last_pid, WUNTRACED) returns: the other stages are next. *)
Ended ==
    LET last == Last(sh.pids)
    IN  /\ At("wait")
        /\ child[last].state = "zombie"
        /\ child' = [child EXCEPT ![last] = Reported(last)]
        /\ sh' = [sh EXCEPT !.pc = "rest", !.pids = Front(@)]
        /\ UNCHANGED <<jobs, nextId, stops, faults>>

(* Mutant of Suspended: the stopped pipeline is not recorded. *)
SuspendUnrecorded ==
    /\ At("wait")
    /\ StopSeen(Last(sh.pids))
    /\ child' = [child EXCEPT ![Last(sh.pids)].report = "none"]
    /\ sh' = Prompt
    /\ UNCHANGED <<jobs, nextId, stops, faults>>

(* waitpid returns because the last stage stopped. *)
Suspended ==
    LET last == Last(sh.pids)
    IN  /\ At("wait")
        /\ StopSeen(last)
        /\ child' = [child EXCEPT ![last] = Reported(last)]
        /\ Record("stopped")
        /\ sh' = Prompt
        /\ UNCHANGED <<stops, faults>>

(* waitpid(child_pids[i], NULL, 0) returns for a child that has ended. *)
WaitRest ==
    /\ At("rest")
    /\ sh.pids # <<>>
    /\ child[Head(sh.pids)].state = "zombie"
    /\ child' = [child EXCEPT ![Head(sh.pids)] = NoChild]
    /\ sh' = [sh EXCEPT !.pids = Tail(@)]
    /\ UNCHANGED <<jobs, nextId, stops, faults>>

Finished ==
    /\ At("rest")
    /\ sh.pids = <<>>
    /\ sh' = Prompt
    /\ UNCHANGED <<child, jobs, nextId, stops, faults>>

-----------------------------------------------------------------------------
(***************************************************************************)
(* The fg, bg and exit builtins.                                           *)
(***************************************************************************)

(* Mutant of Fg: the job is not continued. *)
FgUncontinued(s) ==
    /\ At("prompt")
    /\ jobs[s].active
    /\ sh' = [Prompt EXCEPT !.pc = "fg", !.slot = s]
    /\ UNCHANGED <<child, jobs, nextId, stops, faults>>

(* executor_fg of a job in the table, up to its waitpid. *)
Fg(s) ==
    /\ At("prompt")
    /\ jobs[s].active
    /\ child' = Continued(jobs[s].pgid)
    /\ sh' = [Prompt EXCEPT !.pc = "fg", !.slot = s]
    /\ UNCHANGED <<jobs, nextId, stops, faults>>

FgEnded ==
    /\ At("fg")
    /\ \E p \in jobs[sh.slot].last :
          /\ child[p].state = "zombie"
          /\ child' = [child EXCEPT ![p] = Reported(p)]
    /\ jobs' = [jobs EXCEPT ![sh.slot].active = FALSE]
    /\ sh' = Prompt
    /\ UNCHANGED <<nextId, stops, faults>>

(* Mutant of FgStopped: the job's state is not set. *)
FgStoppedUnmarked ==
    /\ At("fg")
    /\ \E p \in jobs[sh.slot].last :
          /\ StopSeen(p)
          /\ child' = [child EXCEPT ![p] = Reported(p)]
    /\ sh' = Prompt
    /\ UNCHANGED <<jobs, nextId, stops, faults>>

FgStopped ==
    /\ At("fg")
    /\ \E p \in jobs[sh.slot].last :
          /\ StopSeen(p)
          /\ child' = [child EXCEPT ![p] = Reported(p)]
    /\ jobs' = [jobs EXCEPT ![sh.slot].state = "stopped"]
    /\ sh' = Prompt
    /\ UNCHANGED <<nextId, stops, faults>>

Bg(s) ==
    /\ At("prompt")
    /\ jobs[s].active
    /\ child' = Continued(jobs[s].pgid)
    /\ jobs' = [jobs EXCEPT ![s].state = "running"]
    /\ UNCHANGED <<nextId, sh, stops, faults>>

(* executor_cleanup: what has ended is reaped and the table cleared. The   *)
(* SIGTERM before it takes effect, if it does, when the process exits.     *)
Exit ==
    /\ At("prompt")
    /\ child' = [p \in Pid |-> IF child[p].state = "zombie" THEN NoChild ELSE child[p]]
    /\ jobs' = [s \in Slot |-> NoJob]
    /\ sh' = [Prompt EXCEPT !.pc = "exited"]
    /\ UNCHANGED <<nextId, stops, faults>>

Exited == At("exited") /\ UNCHANGED vars

-----------------------------------------------------------------------------

Shell ==
    \/ Reap \/ Reaped \/ Fork \/ ForkFails \/ Background \/ Foreground
    \/ Ended \/ Suspended \/ WaitRest \/ Finished
    \/ FgEnded \/ FgStopped

User ==
    \/ \E n \in 1 .. MaxStages, b \in BOOLEAN : Run(n, b)
    \/ \E s \in Slot : Fg(s) \/ Bg(s)
    \/ Exit

Processes == \E p \in Pid : Exits(p) \/ Killed(p) \/ Stops(p) \/ Continues(p)

Next == Shell \/ User \/ Processes \/ Exited

Spec == Init /\ [][Next]_vars

(* The shell keeps going, and a program that is not stopped comes to its   *)
(* end.                                                                    *)
FairSpec == Spec /\ WF_vars(Shell) /\ \A p \in Pid : WF_vars(Exits(p))

-----------------------------------------------------------------------------
(***************************************************************************)
(* Properties.                                                             *)
(***************************************************************************)

Groups == {{p} : p \in Pid} \cup {{}}

Child == [state : {"none", "running", "stopped", "zombie"},
          report : {"none", "stopped", "continued"}, group : Groups]

Job == [active : BOOLEAN, id : 0 .. MaxId, pgid : Groups, last : Groups,
        state : {"running", "stopped"}]

Places == {"prompt", "reap", "fork", "wait", "rest", "fg", "exited"}

(* The types of the kernel's and the shell's records, and the room they    *)
(* take: child_pids never holds more than PARSER_MAX_PIPES processes.      *)
TypeOK ==
    /\ child \in [Pid -> Child]
    /\ jobs \in [Slot -> Job]
    /\ nextId \in 1 .. MaxId + 1
    /\ sh \in [pc : Places, todo : 0 .. MaxStages, pids : Seq(Pid),
               background : BOOLEAN, slot : 0 .. MaxJobs]
    /\ Len(sh.pids) + sh.todo <= MaxStages
    /\ stops \in 0 .. MaxStops /\ faults \in 0 .. MaxFaults

JobPids(s) == jobs[s].pgid \cup jobs[s].last

(* The processes an active job names, its leader and its last stage, are   *)
(* children the shell has not reaped, and belong to no other job: fg and   *)
(* bg never signal the group of a stranger that took over the number, and  *)
(* the waitpid of fg never fails, which would leave the job for ever.      *)
ActiveIsChild ==
    \A s \in Slot : jobs[s].active =>
        /\ \A p \in JobPids(s) : child[p].state # "none"
        /\ \A t \in Slot \ {s} : jobs[t].active => JobPids(s) \cap JobPids(t) = {}

(* The pids the shell is still going to wait for, in a foreground          *)
(* pipeline, are its children and belong to no job.                        *)
PidsOK ==
    LET mine == {sh.pids[i] : i \in DOMAIN sh.pids}
    IN  /\ \A p \in mine : child[p].state # "none"
        /\ \A i, j \in DOMAIN sh.pids : sh.pids[i] = sh.pids[j] => i = j
        /\ \A s \in Slot : jobs[s].active => JobPids(s) \cap mine = {}

(* Each place in the executor has what it needs. *)
PlaceOK ==
    /\ At("fork") \/ At("wait") \/ At("rest") \/ sh.pids = <<>>
    /\ At("fork") /\ sh.todo = 0 => sh.pids # <<>>
    /\ At("reap") => sh.todo > 0
    /\ At("wait") => sh.pids # <<>>
    /\ At("fg") => sh.slot \in Slot /\ jobs[sh.slot].active
    /\ ~At("prompt") /\ ~At("exited") => \/ At("fg") \/ nextId <= MaxId

(* The inductive invariant. *)
IInv == TypeOK /\ ActiveIsChild /\ PidsOK /\ PlaceOK

(* What the table says of a job of one process is what the process does,   *)
(* until waitpid has news of it, or fg waits for it.                       *)
SlotTrue(s) ==
    \A p \in jobs[s].last : jobs[s].active /\ jobs[s].pgid = {p} =>
        /\ child[p].group = {p}
        /\ Reportable(p) \/ (At("fg") /\ sh.slot = s) \/ jobs[s].state = child[p].state

(* A pipeline that is not in the table yet is one group, and none of it is *)
(* stopped unnoticed.                                                      *)
PipelineTogether ==
    At("fork") \/ At("wait") =>
        \A i \in DOMAIN sh.pids :
            /\ child[sh.pids[i]].group = {Head(sh.pids)}
            /\ child[sh.pids[i]].state = "stopped" => child[sh.pids[i]].report # "none"

StateInv == (\A s \in Slot : SlotTrue(s)) /\ PipelineTogether

TableInv == IInv /\ StateInv

(* Every child of a shell that runs single commands is the job that a slot *)
(* names, or the command at hand.                                          *)
KeptInv ==
    /\ \A s \in Slot : jobs[s].active => jobs[s].pgid # {}
    /\ ~At("exited") =>
          \A p \in Pid : child[p].state # "none" =>
              \/ \E s \in Slot : /\ jobs[s].active /\ jobs[s].pgid = {p} /\ jobs[s].last = {p}
                                /\ child[p].group = {p}
              \/ \E i \in DOMAIN sh.pids : sh.pids[i] = p /\ child[p].group = {p}

(* At the prompt, jobs shows a job of one process as Stopped exactly when  *)
(* the process is stopped, once waitpid has nothing more to tell of it:    *)
(* no order of stops, continuations, fg and bg leaves the two apart.       *)
JobStateTrue ==
    At("prompt") =>
        \A s \in Slot : \A p \in jobs[s].last :
            jobs[s].active /\ jobs[s].pgid = {p} /\ ~Reportable(p)
                => jobs[s].state = child[p].state

(* "List all active background and stopped jobs" (executor.h): at the      *)
(* prompt every process the shell started and that is alive belongs to a   *)
(* job of the table, so that jobs, fg and bg can reach it.                 *)
JobsKept ==
    At("prompt") =>
        \A p \in Pid : Alive(p) =>
            \E s \in Slot : jobs[s].active /\ child[p].group = jobs[s].pgid

(* The shell comes back to its prompt after every command, when programs   *)
(* end unless they are stopped: "Reap other children in the pipeline (only *)
(* if they did not stop)" (executor_run_pipeline).                         *)
PromptReturns == []<>(At("prompt") \/ At("exited"))
=============================================================================
