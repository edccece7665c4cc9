----------------------------- MODULE Case5Runner -----------------------------
(***************************************************************************)
(* The durable Case 5.1 runner of tools/case5ctl.py: the commands `start`  *)
(* and `run`, the detached workers `start` launches, the flock they share, *)
(* the JSON state file they replace atomically, and the stages they        *)
(* execute in the locked order.                                            *)
(*                                                                         *)
(* A process is a member of Proc.  Its pc says where it is:                *)
(*   idle     no such process (the slot is a free process id)              *)
(*   check    start holds the lock and has yet to read the state           *)
(*   spawn    start has written "starting"                                 *)
(*   queue    start has launched the worker it keeps in its copy's pid     *)
(*   wait     a detached worker (run --wait-lock) blocked in flock         *)
(*   begin    run_pipeline holds the lock                                  *)
(*   space    it has recorded the attempt                                  *)
(*   next     it looks for the first stage that is not completed           *)
(*   action   it executes the stage it has recorded as active              *)
(*   commit   the stage's action has returned a result                     *)
(*   verify   it has written "complete" and re-verifies the checkpoint     *)
(*   except   it is in the `except Exception` handler of run_pipeline      *)
(* Between two reads or writes of a shared thing there is one step.  Every *)
(* process may be killed in any of them, and every write of the state file *)
(* in run_pipeline's `try` may fail (a full disk).  A write that fails     *)
(* elsewhere ends its process and leaves the file: it is a Kill.           *)
(*                                                                         *)
(* Abstracted: what a stage does (its effect is the artifact it leaves in  *)
(* `made`), the attempt counter, time stamps, tooling history and log.     *)
(* An unreadable state file is not an action: Loadable, an invariant, says *)
(* that load_state never refuses what these processes wrote.               *)
(***************************************************************************)
EXTENDS Integers, FiniteSets

CONSTANTS
  N,            \* number of stages (12 in the code)
  Proc,         \* process ids, used again after a process has ended
  NoProc,       \* None in the pid field; no owner of the lock
  Result,       \* what a stage may return
  NoResult,     \* a stage without a recorded result
  ChildStages,  \* stages whose work is done by a subprocess
  PowerCuts,    \* may the machine lose power?
  MaxFaults     \* bound on kills, failures and power cuts of a behavior

ASSUME NAssumption == N \in Nat \ {0}
ASSUME ProcAssumption == NoProc \notin Proc
ASSUME ResultAssumption == NoResult \notin Result
ASSUME ChildStagesAssumption == ChildStages \subseteq 1 .. N
ASSUME PowerCutsAssumption == PowerCuts \in BOOLEAN
ASSUME MaxFaultsAssumption == MaxFaults \in Nat

VARIABLES
  lock,      \* owner of the flock on the run lock
  disk,      \* state/case5-1.json as every process sees it
  made,      \* stages whose artifact is in the workspace
  durable,   \* the state file and artifacts that survive a power cut
  seen,      \* history: stages ever recorded as completed in disk
  role,      \* what each process is
  pc,        \* where it is
  mem,       \* its copy of the state
  orphans,   \* stages a subprocess of a killed worker still executes
  faults     \* faults so far

vars == <<lock, disk, made, durable, seen, role, pc, mem, orphans, faults>>

Stages    == 1 .. N
NoStage   == 0
NoFailure == -1

Role    == {"none", "start", "worker", "run"}
StartPC == {"check", "spawn", "queue"}
RunPC   == {"begin", "space", "next", "action", "commit", "verify", "except"}
PC      == {"idle", "wait"} \cup StartPC \cup RunPC
Locked  == StartPC \cup RunPC

\* "absent" stands for a state file that does not exist.
Status == {"absent", "initialized", "starting", "queued", "running",
           "failed", "complete"}

State == [status           : Status,
          active_stage     : Stages \cup {NoStage},
          completed_stages : SUBSET Stages,
          stage_results    : [Stages -> Result \cup {NoResult}],
          pid              : Proc \cup {NoProc},
          failure          : Stages \cup {NoStage, NoFailure}]

\* initial_state, which replaces a missing file.
initial_state ==
  [status           |-> "absent",
   active_stage     |-> NoStage,
   completed_stages |-> {},
   stage_results    |-> [k \in Stages |-> NoResult],
   pid              |-> NoProc,
   failure          |-> NoFailure]

\* What load_state accepts: the completed stages are a prefix of the order,
\* exactly they have results, and the active stage is not one of them.
load_state_accepts(s) ==
  /\ \E n \in 0 .. N : s.completed_stages = 1 .. n
  /\ \A k \in Stages : (s.stage_results[k] # NoResult) <=> (k \in s.completed_stages)
  /\ s.active_stage \notin s.completed_stages

\* Mutant: no order check.
IsNextStage_AnyOrder(k, s) == k \notin s.completed_stages

\* The first stage that is not completed, and execute_stage's order check.
IsNextStage(k, s) == k \notin s.completed_stages /\ 1 .. (k - 1) \subseteq s.completed_stages

\* Mutant: any recorded pid passes for a live worker.
process_is_live_PidOnly(s) == s.pid # NoProc

\* _process_is_live: the recorded pid runs a command line that names
\* case5ctl.py, run and the data directory.  A worker's does; that of a
\* foreground `run SOURCE` names only the source directory.
process_is_live(s) == s.pid \in Proc /\ role[s.pid] = "worker"

TypeOK ==
  /\ lock \in Proc \cup {NoProc}
  /\ disk \in State
  /\ made \in SUBSET Stages
  /\ durable \in [disk : State, made : SUBSET Stages]
  /\ seen \in SUBSET Stages
  /\ role \in [Proc -> Role]
  /\ pc \in [Proc -> PC]
  /\ mem \in [Proc -> State]
  /\ orphans \in SUBSET Stages
  /\ faults \in 0 .. MaxFaults

Init ==
  /\ lock = NoProc
  /\ disk = initial_state
  /\ made = {}
  /\ durable = [disk |-> initial_state, made |-> {}]
  /\ seen = {}
  /\ role = [p \in Proc |-> "none"]
  /\ pc = [p \in Proc |-> "idle"]
  /\ mem = [p \in Proc |-> initial_state]
  /\ orphans = {}
  /\ faults = 0

-----------------------------------------------------------------------------
Goto(p, label) == pc' = [pc EXCEPT ![p] = label]

Fault == faults < MaxFaults /\ faults' = faults + 1

\* _atomic_json: m, the new content of p's copy, replaces the state file.
Write(p, m) ==
  /\ disk' = m
  /\ mem' = [mem EXCEPT ![p] = m]
  /\ seen' = seen \cup m.completed_stages

\* _atomic_json raises: p's copy is changed, the file is not.
WriteFails(p, m) ==
  /\ Fault
  /\ mem' = [mem EXCEPT ![p] = m]
  /\ UNCHANGED <<disk, seen>>

\* The write of m in run_pipeline's try: go on at label, or to the handler.
WriteThen(p, m, label) ==
  \/ Write(p, m) /\ Goto(p, label) /\ UNCHANGED faults
  \/ WriteFails(p, m) /\ Goto(p, "except")

\* Mutant: the end of any process releases the lock.
End_ReleasesAnyLock(p) ==
  /\ role' = [role EXCEPT ![p] = "none"]
  /\ pc' = [pc EXCEPT ![p] = "idle"]
  /\ lock' = NoProc

\* p ends; the kernel releases its lock.
End(p) ==
  /\ role' = [role EXCEPT ![p] = "none"]
  /\ pc' = [pc EXCEPT ![p] = "idle"]
  /\ lock' = IF lock = p THEN NoProc ELSE lock

Acquire(p, label) ==
  /\ lock = NoProc
  /\ lock' = p
  /\ Goto(p, label)

-----------------------------------------------------------------------------
(* start *)

\* The bound on processes: start begins only if it could launch a worker.
StartLock(p) ==
  /\ pc[p] = "idle"
  /\ \E w \in Proc \ {p} : pc[w] = "idle"
  /\ Acquire(p, "check")
  /\ role' = [role EXCEPT ![p] = "start"]
  /\ UNCHANGED <<disk, made, durable, seen, mem, orphans, faults>>

\* A live worker, or a complete state: start reports it and changes nothing.
StartReturn(p) ==
  /\ pc[p] = "check"
  /\ process_is_live(disk) \/ disk.status = "complete"
  /\ End(p)
  /\ mem' = [mem EXCEPT ![p] = initial_state]
  /\ UNCHANGED <<disk, made, durable, seen, orphans, faults>>

\* Mutant: start begins from initial_state although there is a state.
StartWrite_FromInitial(p) ==
  /\ pc[p] = "check"
  /\ ~process_is_live(disk)
  /\ disk.status # "complete"
  /\ Write(p, [initial_state EXCEPT !.status = "starting"])
  /\ Goto(p, "spawn")
  /\ UNCHANGED <<lock, made, durable, role, orphans, faults>>

StartWrite(p) ==
  /\ pc[p] = "check"
  /\ load_state_accepts(disk)
  /\ ~process_is_live(disk)
  /\ disk.status # "complete"
  /\ Write(p, [disk EXCEPT !.status = "starting", !.active_stage = NoStage, !.pid = NoProc])
  /\ Goto(p, "spawn")
  /\ UNCHANGED <<lock, made, durable, role, orphans, faults>>

StartSpawn(p, w) ==
  /\ pc[p] = "spawn"
  /\ pc[w] = "idle"
  /\ pc' = [pc EXCEPT ![p] = "queue", ![w] = "wait"]
  /\ role' = [role EXCEPT ![w] = "worker"]
  /\ mem' = [mem EXCEPT ![p].status = "queued", ![p].pid = w]
  /\ UNCHANGED <<lock, disk, made, durable, seen, orphans, faults>>

\* start writes the child's pid, leaves the `with` of the lock and exits.
StartQueue(p) ==
  /\ pc[p] = "queue"
  /\ disk' = mem[p]
  /\ seen' = seen \cup mem[p].completed_stages
  /\ End(p)
  /\ mem' = [mem EXCEPT ![p] = initial_state]
  /\ UNCHANGED <<made, durable, orphans, faults>>

-----------------------------------------------------------------------------
(* run_pipeline *)

\* `run` in the foreground takes the lock at once or fails.
RunLock(p) ==
  /\ pc[p] = "idle"
  /\ Acquire(p, "begin")
  /\ role' = [role EXCEPT ![p] = "run"]
  /\ UNCHANGED <<disk, made, durable, seen, mem, orphans, faults>>

\* A detached worker waits for it.
WorkerLock(p) ==
  /\ pc[p] = "wait"
  /\ Acquire(p, "begin")
  /\ UNCHANGED <<disk, made, durable, seen, role, mem, orphans, faults>>

\* Load the state and record this attempt.
RunBegin(p) ==
  /\ pc[p] = "begin"
  /\ load_state_accepts(disk)
  /\ Write(p, [disk EXCEPT !.status = "running", !.pid = p])
  /\ Goto(p, "space")
  /\ UNCHANGED <<lock, made, durable, role, orphans, faults>>

\* runtime_space_check, and the write that records it.
SpaceCheck(p) ==
  /\ pc[p] = "space"
  /\ \/ Goto(p, "next") /\ UNCHANGED faults
     \/ Goto(p, "except") /\ Fault
  /\ UNCHANGED <<lock, disk, made, durable, seen, role, mem, orphans>>

\* Mutant: the failure of an earlier attempt is not dropped.
StageBegin_KeepsFailure(p, k) ==
  /\ pc[p] = "next"
  /\ IsNextStage(k, mem[p])
  /\ WriteThen(p, [mem[p] EXCEPT !.status = "running", !.active_stage = k], "action")
  /\ UNCHANGED <<lock, made, durable, role, orphans>>

StageBegin(p, k) ==
  /\ pc[p] = "next"
  /\ IsNextStage(k, mem[p])
  /\ WriteThen(p, [mem[p] EXCEPT !.status = "running", !.active_stage = k,
                                 !.failure = NoFailure], "action")
  /\ UNCHANGED <<lock, made, durable, role, orphans>>

StageSucceeds(p) ==
  /\ pc[p] = "action"
  /\ made' = made \cup {mem[p].active_stage}
  /\ Goto(p, "commit")
  /\ UNCHANGED <<lock, disk, durable, seen, role, mem, orphans, faults>>

\* Mutant: the exception is swallowed and the stage is committed.
StageFails_Swallowed(p) ==
  /\ pc[p] = "action"
  /\ Fault
  /\ Goto(p, "commit")
  /\ UNCHANGED <<lock, disk, made, durable, seen, role, mem, orphans>>

\* The action raises, having left its artifact or not.
StageFails(p) ==
  /\ pc[p] = "action"
  /\ Fault
  /\ made' \in {made, made \cup {mem[p].active_stage}}
  /\ LET m == [mem[p] EXCEPT !.status = "failed", !.failure = mem[p].active_stage]
     IN  \/ Write(p, m)
         \/ mem' = [mem EXCEPT ![p] = m] /\ UNCHANGED <<disk, seen>>
  /\ Goto(p, "except")
  /\ UNCHANGED <<lock, durable, role, orphans>>

\* Mutant: the commit leaves the stage active.
StageCommit_KeepsActive(p, r) ==
  /\ pc[p] = "commit"
  /\ LET k == mem[p].active_stage
     IN  WriteThen(p, [mem[p] EXCEPT !.stage_results[k] = r,
                                     !.completed_stages = @ \cup {k}], "next")
  /\ UNCHANGED <<lock, made, durable, role, orphans>>

\* Mutant: the commit already names the following stage as active.
StageCommit_AdvancesActive(p, r) ==
  /\ pc[p] = "commit"
  /\ LET k == mem[p].active_stage
     IN  WriteThen(p, [mem[p] EXCEPT !.stage_results[k] = r,
                                     !.completed_stages = @ \cup {k},
                                     !.active_stage = k + 1], "next")
  /\ UNCHANGED <<lock, made, durable, role, orphans>>

StageCommit(p, r) ==
  /\ pc[p] = "commit"
  /\ LET k == mem[p].active_stage
     IN  WriteThen(p, [mem[p] EXCEPT !.stage_results[k] = r,
                                     !.completed_stages = @ \cup {k},
                                     !.active_stage = NoStage], "next")
  /\ UNCHANGED <<lock, made, durable, role, orphans>>

PipelineComplete(p) ==
  /\ pc[p] = "next"
  /\ mem[p].completed_stages = Stages
  /\ WriteThen(p, [mem[p] EXCEPT !.status = "complete", !.active_stage = NoStage,
                                 !.pid = NoProc], "verify")
  /\ UNCHANGED <<lock, made, durable, role, orphans>>

\* verify_checkpoint after "complete" is on disk.
PipelineVerify(p) ==
  /\ pc[p] = "verify"
  /\ \/ /\ End(p)
        /\ mem' = [mem EXCEPT ![p] = initial_state]
        /\ UNCHANGED faults
     \/ /\ Fault
        /\ Goto(p, "except")
        /\ UNCHANGED <<lock, role, mem>>
  /\ UNCHANGED <<disk, made, durable, seen, orphans>>

\* The handler records the failure under whatever stage the copy names as
\* active, if it can, and the process ends.
PipelineExcept(p) ==
  /\ pc[p] = "except"
  /\ LET m == [mem[p] EXCEPT !.status = "failed", !.pid = NoProc,
                             !.failure = mem[p].active_stage]
     IN  \/ disk' = m /\ seen' = seen \cup m.completed_stages /\ UNCHANGED faults
         \/ Fault /\ UNCHANGED <<disk, seen>>
  /\ End(p)
  /\ mem' = [mem EXCEPT ![p] = initial_state]
  /\ UNCHANGED <<made, durable, orphans>>

-----------------------------------------------------------------------------
(* The environment *)

\* A process is killed (or interrupted: KeyboardInterrupt is no Exception).
\* The subprocess of the stage it executes may live on, without the lock.
Kill(p) ==
  /\ pc[p] # "idle"
  /\ Fault
  /\ End(p)
  /\ mem' = [mem EXCEPT ![p] = initial_state]
  /\ \/ UNCHANGED orphans
     \/ /\ pc[p] = "action"
        /\ mem[p].active_stage \in ChildStages
        /\ orphans' = orphans \cup {mem[p].active_stage}
  /\ UNCHANGED <<disk, made, durable, seen>>

\* An orphan ends, having published its artifact or not.
OrphanEnds(k) ==
  /\ k \in orphans
  /\ orphans' = orphans \ {k}
  /\ made' \in {made, made \cup {k}}
  /\ UNCHANGED <<lock, disk, durable, seen, role, pc, mem, faults>>

\* Mutant: the new content is not synced before it is renamed, and what is
\* found under the name is not what was written.
SyncState_Unsynced ==
  /\ PowerCuts
  /\ durable.disk # disk
  /\ durable' \in {[durable EXCEPT !.disk = disk],
                  [durable EXCEPT !.disk.completed_stages = disk.completed_stages]}
  /\ UNCHANGED <<lock, disk, made, seen, role, pc, mem, orphans, faults>>

\* _atomic_json fsyncs the new content, not the directory: the rename gets
\* durable when the file system writes it back.
SyncState ==
  /\ PowerCuts
  /\ durable.disk # disk
  /\ durable' = [durable EXCEPT !.disk = disk]
  /\ UNCHANGED <<lock, disk, made, seen, role, pc, mem, orphans, faults>>

\* The artifact of stage k gets durable, sooner or later than the state file:
\* nothing the runner does waits for it.
SyncArtifact(k) ==
  /\ PowerCuts
  /\ k \in made \ durable.made
  /\ durable' = [durable EXCEPT !.made = @ \cup {k}]
  /\ UNCHANGED <<lock, disk, made, seen, role, pc, mem, orphans, faults>>

\* The machine comes back with what was durable: perhaps with an older state
\* file, perhaps without the artifact of a stage the state file records.
PowerCut ==
  /\ PowerCuts
  /\ Fault
  /\ disk' = durable.disk
  /\ made' = durable.made
  /\ lock' = NoProc
  /\ role' = [p \in Proc |-> "none"]
  /\ pc' = [p \in Proc |-> "idle"]
  /\ mem' = [p \in Proc |-> initial_state]
  /\ orphans' = {}
  /\ UNCHANGED <<durable, seen>>

-----------------------------------------------------------------------------
StartStep(p) ==
  \/ StartReturn(p)
  \/ StartWrite(p)
  \/ \E w \in Proc : StartSpawn(p, w)
  \/ StartQueue(p)

RunStep(p) ==
  \/ RunBegin(p)
  \/ SpaceCheck(p)
  \/ \E k \in Stages : StageBegin(p, k)
  \/ StageSucceeds(p)
  \/ StageFails(p)
  \/ \E r \in Result : StageCommit(p, r)
  \/ PipelineComplete(p)
  \/ PipelineVerify(p)
  \/ PipelineExcept(p)

Next ==
  \/ \E p \in Proc : \/ StartLock(p)
                     \/ RunLock(p)
                     \/ WorkerLock(p)
                     \/ StartStep(p)
                     \/ RunStep(p)
                     \/ Kill(p)
  \/ \E k \in Stages : OrphanEnds(k) \/ SyncArtifact(k)
  \/ SyncState
  \/ PowerCut

Spec == Init /\ [][Next]_vars

-----------------------------------------------------------------------------
(* Properties *)

\* Lock and program counter agree: a process is inside a `with` of the run
\* lock (start, run_pipeline) exactly while it owns the flock, so that no two
\* of them execute, or write the state file, at the same time.
LockIsExclusive == \A p \in Proc : pc[p] \in Locked <=> lock = p

\* Whatever was killed, failed to write or came back after a power cut,
\* load_state accepts the state file that was left behind.
Loadable == load_state_accepts(disk)

\* A stage is recorded as completed only when its artifact is in the
\* workspace, and "complete" only when every stage is, with nobody named as
\* running it.  Only as long as the machine keeps its power: what has become
\* durable of the artifacts is not what has of the state file.
CompletedIsMade ==
  /\ disk.completed_stages \subseteq made
  /\ disk.status = "complete" =>
       /\ disk.completed_stages = Stages
       /\ disk.active_stage = NoStage
       /\ disk.pid = NoProc

\* A process that works on its own copy of the state (run_pipeline, start)
\* never holds one that misses a stage the file has, or has it with another
\* result: no write of a copy undoes the commit of another process.
CopyIsCurrent ==
  \A p \in Proc : pc[p] \in Locked \ {"check", "begin"} =>
    \A k \in disk.completed_stages :
      /\ k \in mem[p].completed_stages
      /\ mem[p].stage_results[k] = disk.stage_results[k]

\* The failure the state file reports names the stage at which the pipeline
\* resumes, never one that is committed or one beyond it, although the
\* handler takes the name from an active stage an earlier attempt may have
\* left behind.
FailureNamesResumeStage ==
  disk.failure \in Stages => IsNextStage(disk.failure, disk)

\* "If power, terminal, or a subprocess interrupts a stage, only that
\* uncommitted stage is repeated": no process executes a stage the state
\* file has ever shown as completed.
OnlyUncommittedRepeats ==
  \A p \in Proc : pc[p] = "action" => mem[p].active_stage \notin seen

\* "an active worker is not duplicated": there are never two detached
\* workers.
WorkerNotDuplicated ==
  \A p, q \in Proc : role[p] = "worker" /\ role[q] = "worker" => p = q

\* The state file keeps what DurablePipeline promises: stages are committed
\* in order, one at a time, and a committed result never changes.
Pipeline == INSTANCE DurablePipeline
              WITH recorded <- disk.stage_results, MayLoseTail <- PowerCuts
ImplementsPipeline == Pipeline!Spec

-----------------------------------------------------------------------------
(* Liveness *)

\* The scheduler runs every process, a stage's action returns, and a process
\* blocked in flock gets a lock that is released again and again.
ProcessFairness ==
  \A p \in Proc : WF_vars(StartStep(p) \/ RunStep(p)) /\ SF_vars(WorkerLock(p))

\* Somebody runs `start` again after a failure (the resume instruction of
\* docs/CASE-5-1-CHECKPOINT.md).
OperatorFairness == SF_vars(\E p \in Proc : StartLock(p))

LiveSpec == Spec /\ ProcessFairness /\ OperatorFairness

\* With finitely many faults the pipeline is complete again and again,
\* wherever the faults struck: no state file is one nobody can resume from.
PipelineCompletes == []<>(disk.status = "complete")
=============================================================================
