-------------------------- MODULE Case5Runner_proofs --------------------------
(***************************************************************************)
(* What TLAPS proves of Case5Runner, for every number of stages, every set *)
(* of processes and results and every bound on the faults.                 *)
(***************************************************************************)
EXTENDS Case5Runner, TLAPS

\* A state content that any process may load and continue from: load_state
\* accepts it, its status "complete" is earned, and the stages named by its
\* active_stage and failure are the one at which the pipeline resumes.
Sound(s) ==
  /\ load_state_accepts(s)
  /\ s.status = "complete" =>
       s.completed_stages = Stages /\ s.active_stage = NoStage /\ s.pid = NoProc
  /\ s.active_stage \in Stages => IsNextStage(s.active_stage, s)
  /\ s.failure \in Stages => IsNextStage(s.failure, s)

\* t has the results of s and one more, that of the next stage.
OneAhead(s, t) ==
  \E k \in Stages, r \in Result :
    /\ IsNextStage(k, s)
    /\ t.stage_results = [s.stage_results EXCEPT ![k] = r]

\* The stages of S have their artifacts, as long as the machine keeps its
\* power: what of the state file and what of the artifacts is durable are two
\* things.
Backed(S) == ~PowerCuts => S \subseteq made

DiskInv ==
  /\ Sound(disk)
  /\ Backed(disk.completed_stages)
  /\ ~PowerCuts => seen = disk.completed_stages

DurableInv ==
  /\ Sound(durable.disk)
  /\ \A k \in durable.disk.completed_stages :
       durable.disk.stage_results[k] = disk.stage_results[k]

\* The copy of a process that has loaded the state.
CopyInv(p) ==
  pc[p] \in Locked \ {"check", "begin"} =>
    /\ Sound(mem[p])
    /\ Backed(mem[p].completed_stages)
    /\ \/ mem[p].stage_results = disk.stage_results
       \/ pc[p] = "except" /\ OneAhead(disk, mem[p])
    /\ pc[p] \in {"action", "commit"} =>
         mem[p].active_stage \in Stages /\ mem[p].failure = NoFailure
    /\ pc[p] = "commit" => Backed({mem[p].active_stage})

IInv ==
  /\ TypeOK
  /\ LockIsExclusive
  /\ DiskInv
  /\ DurableInv
  /\ \A p \in Proc : CopyInv(p)
-----------------------------------------------------------------------------
(* Type correctness *)

USE NAssumption DEF Stages, NoStage, NoFailure, Backed

LEMMA InitialState == initial_state \in State
  BY DEF initial_state, State, Status

\* A process that ends or moves on keeps its variables well typed.
LEMMA EndType ==
  ASSUME TypeOK, NEW p \in Proc, End(p)
  PROVE  role' \in [Proc -> Role] /\ pc' \in [Proc -> PC] /\ lock' \in Proc \cup {NoProc}
  BY DEF TypeOK, End, Role, PC

LEMMA GotoType ==
  ASSUME TypeOK, NEW p \in Proc, NEW label \in PC, Goto(p, label)
  PROVE  pc' \in [Proc -> PC]
  BY DEF TypeOK, Goto

LEMMA FaultType ==
  ASSUME TypeOK, Fault
  PROVE  faults' \in 0 .. MaxFaults
  BY MaxFaultsAssumption DEF TypeOK, Fault

LEMMA WriteThenType ==
  ASSUME TypeOK, NEW p \in Proc, NEW m \in State, NEW label \in PC, WriteThen(p, m, label)
  PROVE  /\ disk' \in State
         /\ mem' \in [Proc -> State]
         /\ seen' \in SUBSET Stages
         /\ pc' \in [Proc -> PC]
         /\ faults' \in 0 .. MaxFaults
<1>1. m.completed_stages \in SUBSET Stages
  BY DEF State
<1>2. "except" \in PC
  BY DEF PC, RunPC
<1>3. CASE Write(p, m) /\ Goto(p, label) /\ UNCHANGED faults
  BY <1>1, <1>3, GotoType DEF TypeOK, Write
<1>4. CASE WriteFails(p, m) /\ Goto(p, "except")
  <2>1. faults' \in 0 .. MaxFaults
    BY <1>4, FaultType DEF WriteFails
  <2>2. pc' \in [Proc -> PC]
    BY <1>2, <1>4, GotoType
  <2> QED BY <2>1, <2>2, <1>4 DEF WriteFails, TypeOK
<1> QED BY <1>3, <1>4 DEF WriteThen

LEMMA StartType ==
  ASSUME TypeOK, NEW p \in Proc, StartLock(p) \/ StartStep(p)
  PROVE  TypeOK'
<1>1. CASE StartLock(p)
  BY <1>1 DEF StartLock, Acquire, Goto, TypeOK, PC, StartPC, Role
<1>2. CASE StartReturn(p)
  BY <1>2, EndType, InitialState DEF StartReturn, TypeOK
<1>3. CASE StartWrite(p)
  <2>1. [disk EXCEPT !.status = "starting", !.active_stage = NoStage, !.pid = NoProc] \in State
    BY DEF TypeOK, State, Status
  <2>2. [disk EXCEPT !.status = "starting", !.active_stage = NoStage,
                     !.pid = NoProc].completed_stages \in SUBSET Stages
    BY <2>1 DEF State
  <2>3. pc' \in [Proc -> PC]
    BY <1>3 DEF StartWrite, Goto, TypeOK, PC, StartPC
  <2> QED BY <1>3, <2>1, <2>2, <2>3 DEF StartWrite, Write, TypeOK
<1>4. ASSUME NEW w \in Proc, StartSpawn(p, w)
      PROVE  TypeOK'
  <2>1. [mem[p] EXCEPT !.status = "queued", !.pid = w] \in State
    BY DEF TypeOK, State, Status
  <2>2. mem' = [mem EXCEPT ![p] = [mem[p] EXCEPT !.status = "queued", !.pid = w]]
    BY <1>4 DEF StartSpawn, TypeOK
  <2>3. mem' \in [Proc -> State]
    BY <2>1, <2>2 DEF TypeOK
  <2>4. pc' \in [Proc -> PC] /\ role' \in [Proc -> Role]
    BY <1>4 DEF StartSpawn, TypeOK, PC, StartPC, Role
  <2> QED BY <1>4, <2>3, <2>4 DEF StartSpawn, TypeOK
<1>5. CASE StartQueue(p)
  <2>1. mem[p] \in State /\ mem[p].completed_stages \in SUBSET Stages
    BY DEF TypeOK, State
  <2> QED BY <1>5, <2>1, EndType, InitialState DEF StartQueue, TypeOK
<1> QED BY <1>1, <1>2, <1>3, <1>4, <1>5 DEF StartStep

LEMMA RunType ==
  ASSUME TypeOK, NEW p \in Proc, CopyInv(p), RunLock(p) \/ WorkerLock(p) \/ RunStep(p)
  PROVE  TypeOK'
<1>0. mem[p] \in State /\ disk \in State
  BY DEF TypeOK
<1>a. pc[p] \in {"action", "commit"} => mem[p].active_stage \in Stages
  BY DEF CopyInv, Locked, RunPC
<1>1. CASE RunLock(p)
  BY <1>1 DEF RunLock, Acquire, Goto, TypeOK, PC, RunPC, Role
<1>2. CASE WorkerLock(p)
  BY <1>2 DEF WorkerLock, Acquire, Goto, TypeOK, PC, RunPC
<1>3. CASE RunBegin(p)
  <2>1. [disk EXCEPT !.status = "running", !.pid = p] \in State
    BY <1>0 DEF State, Status
  <2>2. [disk EXCEPT !.status = "running", !.pid = p].completed_stages \in SUBSET Stages
    BY <2>1 DEF State
  <2>3. pc' \in [Proc -> PC]
    BY <1>3 DEF RunBegin, Goto, TypeOK, PC, RunPC
  <2> QED BY <1>3, <2>1, <2>2, <2>3 DEF RunBegin, Write, TypeOK
<1>4. CASE SpaceCheck(p)
  <2>1. pc' \in [Proc -> PC]
    BY <1>4 DEF SpaceCheck, Goto, TypeOK, PC, RunPC
  <2> QED BY <1>4, <2>1, FaultType DEF SpaceCheck, TypeOK
<1>5. ASSUME NEW k \in Stages, StageBegin(p, k)
      PROVE  TypeOK'
  <2>1. [mem[p] EXCEPT !.status = "running", !.active_stage = k, !.failure = NoFailure] \in State
    BY <1>0 DEF State, Status
  <2>2. "action" \in PC
    BY DEF PC, RunPC
  <2> QED BY <1>5, <2>1, <2>2, WriteThenType DEF StageBegin, TypeOK
<1>6. CASE StageSucceeds(p)
  <2>1. pc' \in [Proc -> PC]
    BY <1>6 DEF StageSucceeds, Goto, TypeOK, PC, RunPC
  <2>2. made' \in SUBSET Stages
    BY <1>6, <1>a DEF StageSucceeds, TypeOK
  <2> QED BY <1>6, <2>1, <2>2 DEF StageSucceeds, TypeOK
<1>7. CASE StageFails(p)
  <2> DEFINE m == [mem[p] EXCEPT !.status = "failed", !.failure = mem[p].active_stage]
  <2>1. mem[p].active_stage \in Stages
    BY <1>7, <1>a DEF StageFails
  <2>2. m \in State
    BY <1>0 DEF State, Status
  <2>3. m.completed_stages \in SUBSET Stages
    BY <2>2 DEF State
  <2>4. Write(p, m) \/ (mem' = [mem EXCEPT ![p] = m] /\ UNCHANGED <<disk, seen>>)
    BY <1>7 DEF StageFails
  <2>5. disk' \in State /\ seen' \in SUBSET Stages /\ mem' \in [Proc -> State]
    <3> HIDE DEF m
    <3> QED BY <2>2, <2>3, <2>4 DEF Write, TypeOK
  <2>6. made' \in SUBSET Stages
    BY <1>7, <2>1 DEF StageFails, TypeOK
  <2>7. pc' \in [Proc -> PC]
    BY <1>7 DEF StageFails, Goto, TypeOK, PC, RunPC
  <2>8. faults' \in 0 .. MaxFaults
    BY <1>7, FaultType DEF StageFails
  <2> QED BY <1>7, <2>5, <2>6, <2>7, <2>8 DEF StageFails, TypeOK
<1>8. ASSUME NEW r \in Result, StageCommit(p, r)
      PROVE  TypeOK'
  <2> DEFINE k == mem[p].active_stage
             m == [mem[p] EXCEPT !.stage_results[k] = r,
                                 !.completed_stages = @ \cup {k},
                                 !.active_stage = NoStage]
  <2>1. k \in Stages
    BY <1>8, <1>a DEF StageCommit
  <2>2. m \in State
    BY <1>0, <2>1 DEF State
  <2>3. WriteThen(p, m, "next") /\ "next" \in PC
    BY <1>8 DEF StageCommit, PC, RunPC
  <2> HIDE DEF m
  <2> QED BY <1>8, <2>2, <2>3, WriteThenType DEF StageCommit, TypeOK
<1>9. CASE PipelineComplete(p)
  <2>1. [mem[p] EXCEPT !.status = "complete", !.active_stage = NoStage, !.pid = NoProc] \in State
    BY <1>0 DEF State, Status
  <2>2. "verify" \in PC
    BY DEF PC, RunPC
  <2> QED BY <1>9, <2>1, <2>2, WriteThenType DEF PipelineComplete, TypeOK
<1>10. CASE PipelineVerify(p)
  <2>1. pc' \in [Proc -> PC] /\ role' \in [Proc -> Role] /\ lock' \in Proc \cup {NoProc}
    <3>1. CASE End(p)
      BY <3>1, EndType
    <3>2. CASE Goto(p, "except") /\ UNCHANGED <<lock, role, mem>>
      BY <3>2 DEF Goto, TypeOK, PC, RunPC
    <3> QED BY <1>10, <3>1, <3>2 DEF PipelineVerify
  <2>2. faults' \in 0 .. MaxFaults
    BY <1>10, FaultType DEF PipelineVerify, TypeOK
  <2>3. mem' \in [Proc -> State]
    BY <1>10, InitialState DEF PipelineVerify, TypeOK
  <2> QED BY <1>10, <2>1, <2>2, <2>3 DEF PipelineVerify, TypeOK
<1>11. CASE PipelineExcept(p)
  <2> DEFINE m == [mem[p] EXCEPT !.status = "failed", !.pid = NoProc,
                                 !.failure = mem[p].active_stage]
  <2>1. m \in State
    BY <1>0 DEF State, Status
  <2>2. m.completed_stages \in SUBSET Stages
    BY <2>1 DEF State
  <2>3. \/ disk' = m /\ seen' = seen \cup m.completed_stages /\ UNCHANGED faults
        \/ Fault /\ UNCHANGED <<disk, seen>>
    BY <1>11 DEF PipelineExcept
  <2>4. disk' \in State /\ seen' \in SUBSET Stages /\ faults' \in 0 .. MaxFaults
    <3> HIDE DEF m
    <3> QED BY <2>1, <2>2, <2>3, FaultType DEF TypeOK
  <2> QED BY <1>11, <2>4, EndType, InitialState DEF PipelineExcept, TypeOK
<1> QED BY <1>1, <1>2, <1>3, <1>4, <1>5, <1>6, <1>7, <1>8, <1>9, <1>10, <1>11 DEF RunStep

LEMMA EnvironmentType ==
  ASSUME TypeOK,
         \/ \E p \in Proc : Kill(p)
         \/ \E k \in Stages : OrphanEnds(k) \/ SyncArtifact(k)
         \/ SyncState
         \/ PowerCut
  PROVE  TypeOK'
<1>1. ASSUME NEW p \in Proc, Kill(p)
      PROVE  TypeOK'
  <2>1. orphans' \in SUBSET Stages
    BY <1>1, ChildStagesAssumption DEF Kill, TypeOK
  <2> QED BY <1>1, <2>1, EndType, FaultType, InitialState DEF Kill, TypeOK
<1>2. ASSUME NEW k \in Stages, OrphanEnds(k)
      PROVE  TypeOK'
  BY <1>2 DEF OrphanEnds, TypeOK
<1>3. CASE SyncState \/ \E k \in Stages : SyncArtifact(k)
  BY <1>3 DEF SyncState, SyncArtifact, TypeOK
<1>4. CASE PowerCut
  BY <1>4, InitialState, FaultType DEF PowerCut, TypeOK, Role, PC
<1> QED BY <1>1, <1>2, <1>3, <1>4

-----------------------------------------------------------------------------
(* The lock *)

LEMMA OthersUnlocked ==
  ASSUME LockIsExclusive, NEW p \in Proc, pc[p] \in Locked, NEW q \in Proc, q # p
  PROVE  pc[q] \notin Locked /\ lock = p
  BY DEF LockIsExclusive

\* A step of the owner that does not let go of the lock.
LEMMA OwnerStays ==
  ASSUME TypeOK, LockIsExclusive, NEW p \in Proc, pc[p] \in Locked,
         NEW label \in Locked, Goto(p, label), UNCHANGED lock
  PROVE  LockIsExclusive'
  BY DEF TypeOK, LockIsExclusive, Goto

LEMMA EndReleases ==
  ASSUME TypeOK, LockIsExclusive, NEW p \in Proc, End(p)
  PROVE  LockIsExclusive'
  BY ProcAssumption DEF TypeOK, LockIsExclusive, End, Locked, StartPC, RunPC

LEMMA AcquireOwns ==
  ASSUME TypeOK, LockIsExclusive, NEW p \in Proc, NEW label \in Locked, Acquire(p, label)
  PROVE  LockIsExclusive'
  BY ProcAssumption DEF TypeOK, LockIsExclusive, Acquire, Goto

LEMMA LockStep ==
  ASSUME TypeOK, LockIsExclusive, Next
  PROVE  LockIsExclusive'
<1>1. ASSUME NEW p \in Proc, StartLock(p) \/ RunLock(p) \/ WorkerLock(p)
      PROVE  LockIsExclusive'
  <2>1. {"check", "begin"} \subseteq Locked
    BY DEF Locked, StartPC, RunPC
  <2> QED BY <1>1, <2>1, AcquireOwns DEF StartLock, RunLock, WorkerLock
<1>2. ASSUME NEW p \in Proc, StartReturn(p) \/ StartQueue(p) \/ PipelineExcept(p) \/ Kill(p)
      PROVE  LockIsExclusive'
  BY <1>2, EndReleases DEF StartReturn, StartQueue, PipelineExcept, Kill
<1>3. ASSUME NEW p \in Proc, NEW w \in Proc, StartSpawn(p, w)
      PROVE  LockIsExclusive'
  BY <1>3 DEF StartSpawn, TypeOK, LockIsExclusive, Locked, StartPC, RunPC
<1>4. ASSUME NEW p \in Proc, PipelineVerify(p)
      PROVE  LockIsExclusive'
  <2>1. CASE End(p)
    BY <2>1, EndReleases
  <2>2. CASE Goto(p, "except") /\ UNCHANGED lock
    BY <1>4, <2>2, OwnerStays DEF PipelineVerify, Locked, RunPC
  <2> QED BY <1>4, <2>1, <2>2 DEF PipelineVerify
<1>5. ASSUME NEW p \in Proc,
             \/ StartWrite(p) \/ RunBegin(p) \/ SpaceCheck(p) \/ StageSucceeds(p)
             \/ StageFails(p) \/ PipelineComplete(p)
             \/ \E k \in Stages : StageBegin(p, k)
             \/ \E r \in Result : StageCommit(p, r)
      PROVE  LockIsExclusive'
  <2>1. pc[p] \in Locked /\ UNCHANGED lock
    BY <1>5 DEF StartWrite, RunBegin, SpaceCheck, StageSucceeds, StageFails, PipelineComplete,
                StageBegin, StageCommit, Locked, StartPC, RunPC
  <2>2. \E label \in Locked : Goto(p, label)
    BY <1>5 DEF StartWrite, RunBegin, SpaceCheck, StageSucceeds, StageFails, PipelineComplete,
                StageBegin, StageCommit, WriteThen, Locked, StartPC, RunPC
  <2> QED BY <2>1, <2>2, OwnerStays
<1>6. CASE \E k \in Stages : OrphanEnds(k)
  BY <1>6 DEF OrphanEnds, LockIsExclusive
<1>7. CASE SyncState \/ \E k \in Stages : SyncArtifact(k)
  BY <1>7 DEF SyncState, SyncArtifact, LockIsExclusive
<1>8. CASE PowerCut
  BY <1>8, ProcAssumption DEF PowerCut, LockIsExclusive, Locked, StartPC, RunPC
<1> QED BY <1>1, <1>2, <1>3, <1>4, <1>5, <1>6, <1>7, <1>8 DEF Next, StartStep, RunStep

-----------------------------------------------------------------------------
(* Contents of the state file *)

\* In a content load_state accepts the completed stages end before the next.
LEMMA NextAfterPrefix ==
  ASSUME NEW s \in State, load_state_accepts(s), NEW k \in Stages, IsNextStage(k, s)
  PROVE  s.completed_stages = 1 .. (k - 1)
<1>1. PICK n \in 0 .. N : s.completed_stages = 1 .. n
  BY DEF load_state_accepts
<1>2. k > n
  BY <1>1 DEF IsNextStage
<1>3. k - 1 <= n
  <2>1. CASE k = 1
    BY <2>1
  <2>2. CASE k > 1
    BY <2>2, <1>1 DEF IsNextStage
  <2> QED BY <2>1, <2>2
<1> QED BY <1>1, <1>2, <1>3

\* Changes of status, pid and the like keep a content sound.
LEMMA SoundStarting ==
  ASSUME NEW s \in State, Sound(s)
  PROVE  Sound([s EXCEPT !.status = "starting", !.active_stage = NoStage, !.pid = NoProc])
  BY DEF Sound, load_state_accepts, IsNextStage, State

LEMMA SoundQueued ==
  ASSUME NEW s \in State, Sound(s), NEW w \in Proc
  PROVE  Sound([s EXCEPT !.status = "queued", !.pid = w])
  BY DEF Sound, load_state_accepts, IsNextStage, State

LEMMA SoundRunning ==
  ASSUME NEW s \in State, Sound(s), NEW p \in Proc
  PROVE  Sound([s EXCEPT !.status = "running", !.pid = p])
  BY DEF Sound, load_state_accepts, IsNextStage, State

LEMMA SoundActive ==
  ASSUME NEW s \in State, Sound(s), NEW k \in Stages, IsNextStage(k, s)
  PROVE  Sound([s EXCEPT !.status = "running", !.active_stage = k, !.failure = NoFailure])
  BY DEF Sound, load_state_accepts, IsNextStage, State

LEMMA SoundFailedStage ==
  ASSUME NEW s \in State, Sound(s)
  PROVE  Sound([s EXCEPT !.status = "failed", !.failure = s.active_stage])
  BY DEF Sound, load_state_accepts, IsNextStage, State

LEMMA SoundFailed ==
  ASSUME NEW s \in State, Sound(s)
  PROVE  Sound([s EXCEPT !.status = "failed", !.pid = NoProc, !.failure = s.active_stage])
  BY DEF Sound, load_state_accepts, IsNextStage, State

LEMMA SoundComplete ==
  ASSUME NEW s \in State, Sound(s), s.completed_stages = Stages
  PROVE  Sound([s EXCEPT !.status = "complete", !.active_stage = NoStage, !.pid = NoProc])
  BY DEF Sound, load_state_accepts, IsNextStage, State

\* The commit of the active stage.
LEMMA SoundCommit ==
  ASSUME NEW s \in State, Sound(s), s.active_stage \in Stages, s.failure = NoFailure,
         NEW r \in Result
  PROVE  LET k == s.active_stage
             t == [s EXCEPT !.stage_results[k] = r, !.completed_stages = @ \cup {k},
                            !.active_stage = NoStage]
         IN  Sound(t) /\ OneAhead(s, t)
<1> DEFINE k == s.active_stage
           t == [s EXCEPT !.stage_results[k] = r, !.completed_stages = @ \cup {k},
                          !.active_stage = NoStage]
<1>1. IsNextStage(k, s) /\ load_state_accepts(s) /\ s.status # "complete"
  BY DEF Sound
<1>2. s.completed_stages = 1 .. (k - 1)
  BY <1>1, NextAfterPrefix
<1>3. /\ t.completed_stages = 1 .. k
      /\ t.stage_results = [s.stage_results EXCEPT ![k] = r]
      /\ t.active_stage = NoStage
      /\ t.failure = NoFailure
      /\ t.status = s.status
  BY <1>2 DEF State
<1>4. t.active_stage \notin t.completed_stages
  BY <1>3
<1>5. \A j \in Stages : (t.stage_results[j] # NoResult) <=> (j \in t.completed_stages)
  BY <1>1, <1>2, <1>3, ResultAssumption DEF load_state_accepts, State
<1>6. \E n \in 0 .. N : t.completed_stages = 1 .. n
  BY <1>3
<1>7. Sound(t)
  BY <1>1, <1>3, <1>4, <1>5, <1>6 DEF Sound, load_state_accepts
<1>8. OneAhead(s, t)
  BY <1>1, <1>3 DEF OneAhead
<1> QED BY <1>7, <1>8

-----------------------------------------------------------------------------
(* Every step preserves the invariant *)

\* Steps that leave the state file alone and only add artifacts.
LEMMA FileUntouched ==
  ASSUME DiskInv, DurableInv, UNCHANGED <<disk, seen, durable>>, made \subseteq made'
  PROVE  DiskInv' /\ DurableInv'
  BY DEF DiskInv, DurableInv

\* Publishing a sound content with the file's results, or one more.
LEMMA FileReplaced ==
  ASSUME TypeOK, DiskInv, DurableInv,
         NEW m \in State, Sound(m), Backed(m.completed_stages),
         m.stage_results = disk.stage_results \/ OneAhead(disk, m),
         disk' = m, seen' = seen \cup m.completed_stages,
         UNCHANGED durable, made \subseteq made'
  PROVE  DiskInv' /\ DurableInv'
<1>1. \A k \in disk.completed_stages :
        k \in m.completed_stages /\ m.stage_results[k] = disk.stage_results[k]
  <2>1. CASE m.stage_results = disk.stage_results
    BY <2>1 DEF DiskInv, Sound, load_state_accepts, State, TypeOK
  <2>2. CASE OneAhead(disk, m)
    <3>1. PICK j \in Stages, r \in Result :
                 IsNextStage(j, disk) /\ m.stage_results = [disk.stage_results EXCEPT ![j] = r]
      BY <2>2 DEF OneAhead
    <3>2. ASSUME NEW k \in disk.completed_stages
          PROVE  k \in Stages /\ m.stage_results[k] = disk.stage_results[k]
      BY <3>1 DEF IsNextStage, TypeOK, State
    <3> QED BY <3>2 DEF DiskInv, Sound, load_state_accepts
  <2> QED BY <2>1, <2>2
<1>2. ~PowerCuts => seen' = m.completed_stages
  BY <1>1 DEF DiskInv
<1>3. DiskInv'
  BY <1>2 DEF DiskInv
<1>4. \A k \in durable.disk.completed_stages : k \in disk.completed_stages
  BY DEF DurableInv, DiskInv, Sound, load_state_accepts, TypeOK, State
<1>5. DurableInv'
  BY <1>1, <1>4 DEF DurableInv
<1> QED BY <1>3, <1>5

\* The other processes while p holds the lock: none of them has a copy.
LEMMA OthersKeepCopies ==
  ASSUME LockIsExclusive, NEW p \in Proc, pc[p] \in Locked,
         NEW q \in Proc, q # p, pc'[q] = pc[q]
  PROVE  CopyInv(q)'
  BY OthersUnlocked DEF CopyInv

\* The copy of an ended process does not matter.
LEMMA EndedCopy ==
  ASSUME TypeOK, NEW p \in Proc, End(p)
  PROVE  CopyInv(p)' /\ \A q \in Proc \ {p} : pc'[q] = pc[q]
  BY DEF TypeOK, End, CopyInv, Locked, StartPC, RunPC

LEMMA GotoOthers ==
  ASSUME TypeOK, NEW p \in Proc, NEW label, Goto(p, label)
  PROVE  pc'[p] = label /\ \A q \in Proc \ {p} : pc'[q] = pc[q]
  BY DEF TypeOK, Goto

\* A write in run_pipeline's try, whether it succeeds or not.
LEMMA WriteThenKeeps ==
  ASSUME IInv, NEW p \in Proc, pc[p] \in Locked,
         NEW m \in State, Sound(m), Backed(m.completed_stages),
         m.stage_results = disk.stage_results \/ OneAhead(disk, m),
         NEW label \in RunPC, WriteThen(p, m, label), UNCHANGED <<made, durable>>,
         label \in {"action", "commit"} => m.active_stage \in Stages /\ m.failure = NoFailure,
         label = "commit" => Backed({m.active_stage})
  PROVE  DiskInv' /\ DurableInv' /\ \A q \in Proc : CopyInv(q)'
<1>1. CASE Write(p, m) /\ Goto(p, label)
  <2>1. disk' = m /\ seen' = seen \cup m.completed_stages /\ mem'[p] = m
    BY <1>1 DEF Write, IInv, TypeOK
  <2>2. DiskInv' /\ DurableInv'
    BY <2>1, FileReplaced DEF IInv
  <2>3. pc'[p] = label /\ \A q \in Proc \ {p} : pc'[q] = pc[q]
    BY <1>1, GotoOthers DEF IInv
  <2>4. CopyInv(p)'
    BY <2>1, <2>3 DEF CopyInv
  <2> QED BY <2>2, <2>3, <2>4, OthersKeepCopies DEF IInv
<1>2. CASE WriteFails(p, m) /\ Goto(p, "except")
  <2>1. disk' = disk /\ seen' = seen /\ mem'[p] = m
    BY <1>2 DEF WriteFails, IInv, TypeOK
  <2>2. DiskInv' /\ DurableInv'
    BY <2>1, FileUntouched DEF IInv
  <2>3. pc'[p] = "except" /\ \A q \in Proc \ {p} : pc'[q] = pc[q]
    BY <1>2, GotoOthers DEF IInv
  <2>4. OneAhead(disk, m) => OneAhead(disk, m)'
    BY <2>1 DEF OneAhead, IsNextStage
  <2>5. CopyInv(p)'
    BY <2>1, <2>3, <2>4 DEF CopyInv, OneAhead, IsNextStage
  <2> QED BY <2>2, <2>3, <2>5, OthersKeepCopies DEF IInv
<1> QED BY <1>1, <1>2 DEF WriteThen

Kept == DiskInv' /\ DurableInv' /\ \A q \in Proc : CopyInv(q)'

\* Taking the lock, or being idle, wait, check or begin, asks for no copy.
LEMMA LockKeeps ==
  ASSUME IInv, NEW p \in Proc, StartLock(p) \/ RunLock(p) \/ WorkerLock(p)
  PROVE  Kept
<1>1. UNCHANGED <<disk, made, durable, seen, mem>> /\ lock = NoProc
  BY DEF StartLock, RunLock, WorkerLock, Acquire
<1>2. DiskInv' /\ DurableInv'
  BY <1>1, FileUntouched DEF IInv
<1>3. pc'[p] \in {"check", "begin"} /\ \A q \in Proc \ {p} : pc'[q] = pc[q]
  BY GotoOthers DEF StartLock, RunLock, WorkerLock, Acquire, IInv
<1>4. \A q \in Proc : pc[q] \notin Locked
  BY <1>1, ProcAssumption DEF IInv, LockIsExclusive
<1>5. \A q \in Proc : CopyInv(q)'
  BY <1>3, <1>4 DEF CopyInv
<1> QED BY <1>2, <1>5 DEF Kept

LEMMA StartKeeps ==
  ASSUME IInv, NEW p \in Proc, StartStep(p)
  PROVE  Kept
<1>0. disk \in State /\ mem[p] \in State /\ CopyInv(p) /\ TypeOK /\ LockIsExclusive /\ Sound(disk)
  BY DEF IInv, TypeOK, DiskInv
<1>1. CASE StartReturn(p)
  <2>1. DiskInv' /\ DurableInv'
    BY <1>1, FileUntouched DEF StartReturn, IInv
  <2>2. CopyInv(p)' /\ \A q \in Proc \ {p} : pc'[q] = pc[q]
    BY <1>0, <1>1, EndedCopy DEF StartReturn
  <2>3. pc[p] \in Locked
    BY <1>1 DEF StartReturn, Locked, StartPC
  <2> QED BY <1>0, <2>1, <2>2, <2>3, OthersKeepCopies DEF Kept
<1>2. CASE StartWrite(p)
  <2> DEFINE m == [disk EXCEPT !.status = "starting", !.active_stage = NoStage, !.pid = NoProc]
  <2>1. m \in State /\ m.completed_stages = disk.completed_stages
                    /\ m.stage_results = disk.stage_results
    BY <1>0 DEF State, Status
  <2>2. Sound(m)
    BY <1>0, SoundStarting
  <2>3. Write(p, m) /\ Goto(p, "spawn") /\ UNCHANGED <<made, durable>> /\ pc[p] \in Locked
    BY <1>2 DEF StartWrite, Locked, StartPC
  <2> HIDE DEF m
  <2>4. disk' = m /\ seen' = seen \cup m.completed_stages /\ mem'[p] = m
    BY <1>0, <2>3 DEF Write, TypeOK
  <2>5. Backed(m.completed_stages)
    BY <2>1 DEF IInv, DiskInv
  <2>6. DiskInv' /\ DurableInv'
    BY <1>0, <2>1, <2>2, <2>3, <2>4, <2>5, FileReplaced DEF IInv
  <2>7. pc'[p] = "spawn" /\ \A q \in Proc \ {p} : pc'[q] = pc[q]
    BY <1>0, <2>3, GotoOthers
  <2>8. CopyInv(p)'
    BY <2>2, <2>3, <2>4, <2>5, <2>7 DEF CopyInv
  <2> QED BY <1>0, <2>3, <2>6, <2>7, <2>8, OthersKeepCopies DEF Kept
<1>3. ASSUME NEW w \in Proc, StartSpawn(p, w)
      PROVE  Kept
  <2> DEFINE m == [mem[p] EXCEPT !.status = "queued", !.pid = w]
  <2>1. mem[p].stage_results = disk.stage_results /\ Sound(mem[p])
                    /\ Backed(mem[p].completed_stages) /\ pc[p] \in Locked
    BY <1>0, <1>3 DEF StartSpawn, CopyInv, Locked, StartPC
  <2>2. m.stage_results = disk.stage_results /\ Backed(m.completed_stages)
    BY <1>0, <2>1 DEF State
  <2>3. Sound(m)
    BY <1>0, <2>1, SoundQueued
  <2>4. mem'[p] = m /\ UNCHANGED <<disk, made, seen, durable>>
    BY <1>0, <1>3 DEF StartSpawn, TypeOK
  <2> HIDE DEF m
  <2>5. /\ pc'[p] = "queue" /\ pc'[w] = "wait" /\ w # p
        /\ \A q \in Proc \ {p, w} : pc'[q] = pc[q]
    BY <1>0, <1>3 DEF StartSpawn, TypeOK
  <2>6. DiskInv' /\ DurableInv'
    BY <2>4, FileUntouched DEF IInv
  <2>7. CopyInv(p)'
    BY <2>2, <2>3, <2>4, <2>5 DEF CopyInv
  <2>8. CopyInv(w)'
    BY <2>5 DEF CopyInv, Locked, StartPC, RunPC
  <2> QED BY <1>0, <2>1, <2>5, <2>6, <2>7, <2>8, OthersKeepCopies DEF Kept
<1>4. CASE StartQueue(p)
  <2>1. mem[p].stage_results = disk.stage_results /\ Sound(mem[p])
                    /\ Backed(mem[p].completed_stages) /\ pc[p] \in Locked
    BY <1>0, <1>4 DEF StartQueue, CopyInv, Locked, StartPC
  <2>2. DiskInv' /\ DurableInv'
    BY <1>0, <1>4, <2>1, FileReplaced DEF StartQueue, IInv
  <2>3. CopyInv(p)' /\ \A q \in Proc \ {p} : pc'[q] = pc[q]
    BY <1>0, <1>4, EndedCopy DEF StartQueue
  <2> QED BY <1>0, <2>1, <2>2, <2>3, OthersKeepCopies DEF Kept
<1> QED BY <1>1, <1>2, <1>3, <1>4 DEF StartStep

LEMMA RunKeeps ==
  ASSUME IInv, NEW p \in Proc, RunStep(p)
  PROVE  Kept
<1> DEFINE s == mem[p]
<1>0. /\ disk \in State /\ s \in State /\ CopyInv(p) /\ TypeOK /\ LockIsExclusive
      /\ Sound(disk) /\ Backed(disk.completed_stages)
  BY DEF IInv, TypeOK, DiskInv
<1>a. pc[p] \in Locked
  BY DEF RunStep, RunBegin, SpaceCheck, StageBegin, StageSucceeds, StageFails, StageCommit,
         PipelineComplete, PipelineVerify, PipelineExcept, Locked, RunPC
<1>b. pc[p] # "begin" /\ pc[p] \in RunPC =>
        /\ Sound(s)
        /\ Backed(s.completed_stages)
        /\ s.stage_results = disk.stage_results \/ (pc[p] = "except" /\ OneAhead(disk, s))
  BY <1>0, <1>a DEF CopyInv, RunPC
<1>1. CASE RunBegin(p)
  <2> DEFINE m == [disk EXCEPT !.status = "running", !.pid = p]
  <2>1. m \in State /\ m.completed_stages = disk.completed_stages
                    /\ m.stage_results = disk.stage_results
    BY <1>0 DEF State, Status
  <2>2. Sound(m)
    BY <1>0, SoundRunning
  <2>3. Write(p, m) /\ Goto(p, "space") /\ UNCHANGED <<made, durable>>
    BY <1>1 DEF RunBegin
  <2> HIDE DEF m
  <2>4. disk' = m /\ seen' = seen \cup m.completed_stages /\ mem'[p] = m
    BY <1>0, <2>3 DEF Write, TypeOK
  <2>5. DiskInv' /\ DurableInv'
    BY <1>0, <2>1, <2>2, <2>3, <2>4, FileReplaced DEF IInv
  <2>6. pc'[p] = "space" /\ \A q \in Proc \ {p} : pc'[q] = pc[q]
    BY <1>0, <2>3, GotoOthers
  <2>7. CopyInv(p)'
    BY <1>0, <2>1, <2>2, <2>3, <2>4, <2>6 DEF CopyInv
  <2> QED BY <1>0, <1>a, <2>5, <2>6, <2>7, OthersKeepCopies DEF Kept
<1>2. CASE SpaceCheck(p)
  <2>1. DiskInv' /\ DurableInv'
    BY <1>2, FileUntouched DEF SpaceCheck, IInv
  <2>2. pc'[p] \in {"next", "except"} /\ \A q \in Proc \ {p} : pc'[q] = pc[q]
    BY <1>0, <1>2, GotoOthers DEF SpaceCheck
  <2>3. CopyInv(p)'
    BY <1>2, <1>b, <2>2 DEF SpaceCheck, CopyInv, RunPC
  <2> QED BY <1>0, <1>a, <2>1, <2>2, <2>3, OthersKeepCopies DEF Kept
<1>3. ASSUME NEW k \in Stages, StageBegin(p, k)
      PROVE  Kept
  <2> DEFINE m == [s EXCEPT !.status = "running", !.active_stage = k, !.failure = NoFailure]
  <2>1. /\ m \in State /\ m.completed_stages = s.completed_stages
        /\ m.stage_results = s.stage_results /\ m.active_stage = k /\ m.failure = NoFailure
    BY <1>0 DEF State, Status
  <2>2. Sound(s) /\ Backed(s.completed_stages) /\ s.stage_results = disk.stage_results
    BY <1>3, <1>b DEF StageBegin, RunPC
  <2>3. Sound(m)
    BY <1>0, <1>3, <2>2, SoundActive DEF StageBegin
  <2>4. WriteThen(p, m, "action") /\ UNCHANGED <<made, durable>> /\ "action" \in RunPC
    BY <1>3 DEF StageBegin, RunPC
  <2> HIDE DEF m
  <2> QED BY <1>a, <2>1, <2>2, <2>3, <2>4, WriteThenKeeps DEF Kept
<1>4. CASE StageSucceeds(p)
  <2>1. DiskInv' /\ DurableInv'
    BY <1>4, FileUntouched DEF StageSucceeds, IInv
  <2>2. pc'[p] = "commit" /\ \A q \in Proc \ {p} : pc'[q] = pc[q]
    BY <1>0, <1>4, GotoOthers DEF StageSucceeds
  <2>3. CopyInv(p)'
    BY <1>4, <1>a, <1>0, <2>2 DEF StageSucceeds, CopyInv
  <2> QED BY <1>0, <1>a, <2>1, <2>2, <2>3, OthersKeepCopies DEF Kept
<1>5. CASE StageFails(p)
  <2> DEFINE m == [s EXCEPT !.status = "failed", !.failure = s.active_stage]
  <2>1. m \in State /\ m.completed_stages = s.completed_stages
                    /\ m.stage_results = s.stage_results
    BY <1>0 DEF State, Status
  <2>2. Sound(s) /\ Backed(s.completed_stages) /\ s.stage_results = disk.stage_results
    BY <1>5, <1>b DEF StageFails, RunPC
  <2>3. Sound(m)
    BY <1>0, <2>2, SoundFailedStage
  <2>4. /\ Write(p, m) \/ (mem' = [mem EXCEPT ![p] = m] /\ UNCHANGED <<disk, seen>>)
        /\ made \subseteq made' /\ UNCHANGED durable /\ Goto(p, "except")
    BY <1>5 DEF StageFails
  <2> HIDE DEF m
  <2>5. mem'[p] = m
    BY <1>0, <2>4 DEF Write, TypeOK
  <2>6. DiskInv' /\ DurableInv' /\ m.stage_results = disk'.stage_results
    <3>1. CASE Write(p, m)
      BY <1>0, <2>1, <2>2, <2>3, <2>4, <3>1, FileReplaced DEF Write, IInv
    <3>2. CASE UNCHANGED <<disk, seen>>
      BY <2>1, <2>2, <2>4, <3>2, FileUntouched DEF IInv
    <3> QED BY <2>4, <3>1, <3>2
  <2>7. pc'[p] = "except" /\ \A q \in Proc \ {p} : pc'[q] = pc[q]
    BY <1>0, <2>4, GotoOthers
  <2>8. CopyInv(p)'
    BY <2>1, <2>2, <2>3, <2>4, <2>5, <2>6, <2>7 DEF CopyInv
  <2> QED BY <1>0, <1>a, <2>6, <2>7, <2>8, OthersKeepCopies DEF Kept
<1>6. ASSUME NEW r \in Result, StageCommit(p, r)
      PROVE  Kept
  <2> DEFINE k == s.active_stage
             m == [s EXCEPT !.stage_results[k] = r, !.completed_stages = @ \cup {k},
                            !.active_stage = NoStage]
  <2>1. /\ Sound(s) /\ Backed(s.completed_stages)
        /\ s.stage_results = disk.stage_results
        /\ k \in Stages /\ s.failure = NoFailure /\ Backed({k})
    BY <1>0, <1>6, <1>b DEF StageCommit, RunPC, CopyInv, Locked
  <2>2. m \in State /\ m.completed_stages = s.completed_stages \cup {k}
    BY <1>0, <2>1 DEF State
  <2>3. Sound(m) /\ OneAhead(s, m)
    BY <1>0, <2>1, SoundCommit
  <2>4. WriteThen(p, m, "next") /\ UNCHANGED <<made, durable>> /\ "next" \in RunPC
    BY <1>6 DEF StageCommit, RunPC
  <2> HIDE DEF m, k
  <2>5. s.completed_stages = disk.completed_stages
    BY <1>0, <2>1 DEF Sound, load_state_accepts, State
  <2>6. OneAhead(disk, m)
    BY <2>1, <2>3, <2>5 DEF OneAhead, IsNextStage
  <2>7. Backed(m.completed_stages)
    BY <2>1, <2>2
  <2> QED BY <1>a, <2>2, <2>3, <2>4, <2>6, <2>7, WriteThenKeeps DEF Kept
<1>7. CASE PipelineComplete(p)
  <2> DEFINE m == [s EXCEPT !.status = "complete", !.active_stage = NoStage, !.pid = NoProc]
  <2>1. m \in State /\ m.completed_stages = s.completed_stages
                    /\ m.stage_results = s.stage_results
    BY <1>0 DEF State, Status
  <2>2. Sound(s) /\ Backed(s.completed_stages) /\ s.stage_results = disk.stage_results
    BY <1>7, <1>b DEF PipelineComplete, RunPC
  <2>3. Sound(m)
    BY <1>0, <1>7, <2>2, SoundComplete DEF PipelineComplete
  <2>4. WriteThen(p, m, "verify") /\ UNCHANGED <<made, durable>> /\ "verify" \in RunPC
    BY <1>7 DEF PipelineComplete, RunPC
  <2> HIDE DEF m
  <2> QED BY <1>a, <2>1, <2>2, <2>3, <2>4, WriteThenKeeps DEF Kept
<1>8. CASE PipelineVerify(p)
  <2>1. DiskInv' /\ DurableInv'
    BY <1>8, FileUntouched DEF PipelineVerify, IInv
  <2>2. CASE End(p)
    BY <1>0, <1>a, <2>1, <2>2, EndedCopy, OthersKeepCopies DEF Kept
  <2>3. CASE Goto(p, "except") /\ UNCHANGED mem
    <3>1. pc'[p] = "except" /\ \A q \in Proc \ {p} : pc'[q] = pc[q]
      BY <1>0, <2>3, GotoOthers
    <3>2. CopyInv(p)'
      BY <1>8, <1>b, <2>3, <3>1 DEF PipelineVerify, CopyInv, RunPC
    <3> QED BY <1>0, <1>a, <2>1, <3>1, <3>2, OthersKeepCopies DEF Kept
  <2> QED BY <1>8, <2>2, <2>3 DEF PipelineVerify
<1>9. CASE PipelineExcept(p)
  <2> DEFINE m == [s EXCEPT !.status = "failed", !.pid = NoProc, !.failure = s.active_stage]
  <2>1. m \in State /\ m.completed_stages = s.completed_stages
                    /\ m.stage_results = s.stage_results
    BY <1>0 DEF State, Status
  <2>2. /\ Sound(s) /\ Backed(s.completed_stages)
        /\ s.stage_results = disk.stage_results \/ OneAhead(disk, s)
    BY <1>9, <1>b DEF PipelineExcept, RunPC
  <2>3. Sound(m)
    BY <1>0, <2>2, SoundFailed
  <2>4. m.stage_results = disk.stage_results \/ OneAhead(disk, m)
    BY <2>1, <2>2 DEF OneAhead
  <2>5. /\ \/ disk' = m /\ seen' = seen \cup m.completed_stages
           \/ UNCHANGED <<disk, seen>>
        /\ End(p) /\ UNCHANGED <<made, durable>>
    BY <1>9 DEF PipelineExcept
  <2> HIDE DEF m
  <2>6. DiskInv' /\ DurableInv'
    <3>1. CASE disk' = m /\ seen' = seen \cup m.completed_stages
      BY <1>0, <2>1, <2>2, <2>3, <2>4, <2>5, <3>1, FileReplaced DEF IInv
    <3>2. CASE UNCHANGED <<disk, seen>>
      BY <2>5, <3>2, FileUntouched DEF IInv
    <3> QED BY <2>5, <3>1, <3>2
  <2> QED BY <1>0, <1>a, <2>5, <2>6, EndedCopy, OthersKeepCopies DEF Kept
<1> QED BY <1>1, <1>2, <1>3, <1>4, <1>5, <1>6, <1>7, <1>8, <1>9 DEF RunStep

\* A step that touches neither p's copy nor the file.
LEMMA CopyUntouched ==
  ASSUME NEW p \in Proc, CopyInv(p), disk' = disk, mem'[p] = mem[p], pc'[p] = pc[p],
         made \subseteq made'
  PROVE  CopyInv(p)'
<1>1. OneAhead(disk, mem[p]) => OneAhead(disk, mem[p])'
  BY DEF OneAhead, IsNextStage
<1>2. Sound(mem[p]) => Sound(mem[p])'
  OBVIOUS
<1> QED BY <1>1, <1>2 DEF CopyInv

LEMMA EnvironmentKeeps ==
  ASSUME IInv,
         \/ \E p \in Proc : Kill(p)
         \/ \E k \in Stages : OrphanEnds(k) \/ SyncArtifact(k)
         \/ SyncState
         \/ PowerCut
  PROVE  Kept
<1>0. TypeOK /\ LockIsExclusive /\ DiskInv /\ DurableInv /\ \A q \in Proc : CopyInv(q)
  BY DEF IInv
<1>1. ASSUME NEW p \in Proc, Kill(p)
      PROVE  Kept
  <2>1. UNCHANGED <<disk, made, durable, seen>> /\ \A q \in Proc \ {p} : mem'[q] = mem[q]
    BY <1>0, <1>1 DEF Kill, TypeOK
  <2>2. DiskInv' /\ DurableInv'
    BY <1>0, <2>1, FileUntouched
  <2>3. CopyInv(p)' /\ \A q \in Proc \ {p} : pc'[q] = pc[q]
    BY <1>0, <1>1, EndedCopy DEF Kill
  <2>4. ASSUME NEW q \in Proc \ {p}
        PROVE  CopyInv(q)'
    BY <1>0, <2>1, <2>3, CopyUntouched
  <2> QED BY <2>2, <2>3, <2>4 DEF Kept
<1>2. ASSUME NEW k \in Stages, OrphanEnds(k)
      PROVE  Kept
  <2>1. UNCHANGED <<disk, durable, seen, mem, pc>> /\ made \subseteq made'
    BY <1>2 DEF OrphanEnds
  <2>2. DiskInv' /\ DurableInv'
    BY <1>0, <2>1, FileUntouched
  <2>3. ASSUME NEW q \in Proc
        PROVE  CopyInv(q)'
    BY <1>0, <2>1, CopyUntouched
  <2> QED BY <2>2, <2>3 DEF Kept
<1>3. CASE SyncState \/ \E k \in Stages : SyncArtifact(k)
  <2>1. UNCHANGED <<disk, made, seen, mem, pc>> /\ durable'.disk \in {disk, durable.disk}
    BY <1>0, <1>3 DEF SyncState, SyncArtifact, TypeOK
  <2>2. DiskInv' /\ DurableInv'
    BY <1>0, <2>1 DEF DiskInv, DurableInv
  <2>3. ASSUME NEW q \in Proc
        PROVE  CopyInv(q)'
    BY <1>0, <2>1, CopyUntouched
  <2> QED BY <2>2, <2>3 DEF Kept
<1>4. CASE PowerCut
  <2>1. DiskInv' /\ DurableInv'
    BY <1>0, <1>4 DEF PowerCut, DiskInv, DurableInv
  <2>2. ASSUME NEW q \in Proc
        PROVE  CopyInv(q)'
    BY <1>4 DEF PowerCut, CopyInv, Locked, StartPC, RunPC
  <2> QED BY <2>1, <2>2 DEF Kept
<1> QED BY <1>1, <1>2, <1>3, <1>4

LEMMA InitialInvariant == Init => IInv
<1> SUFFICES ASSUME Init PROVE IInv
  OBVIOUS
<1>1. TypeOK
  BY InitialState, MaxFaultsAssumption DEF Init, TypeOK, Role, PC
<1>2. LockIsExclusive /\ \A p \in Proc : CopyInv(p)
  BY ProcAssumption DEF Init, LockIsExclusive, CopyInv, Locked, StartPC, RunPC
<1>3. Sound(initial_state)
  BY DEF Sound, load_state_accepts, initial_state
<1>4. DiskInv /\ DurableInv
  BY <1>3 DEF Init, DiskInv, DurableInv, initial_state
<1> QED BY <1>1, <1>2, <1>4 DEF IInv

LEMMA InvariantStep == IInv /\ [Next]_vars => IInv'
<1> SUFFICES ASSUME IInv, [Next]_vars PROVE IInv'
  OBVIOUS
<1>1. CASE Next
  <2>1. LockIsExclusive'
    BY <1>1, LockStep DEF IInv
  <2>2. CASE \E p \in Proc : StartLock(p) \/ StartStep(p)
    BY <2>1, <2>2, StartType, LockKeeps, StartKeeps DEF IInv, Kept
  <2>3. CASE \E p \in Proc : RunLock(p) \/ WorkerLock(p) \/ RunStep(p)
    BY <2>1, <2>3, RunType, LockKeeps, RunKeeps DEF IInv, Kept
  <2>4. CASE \/ \E p \in Proc : Kill(p)
             \/ \E k \in Stages : OrphanEnds(k) \/ SyncArtifact(k)
             \/ SyncState
             \/ PowerCut
    BY <2>1, <2>4, EnvironmentType, EnvironmentKeeps DEF IInv, Kept
  <2> QED BY <1>1, <2>2, <2>3, <2>4 DEF Next
<1>2. CASE UNCHANGED vars
  <2>1. TypeOK' /\ LockIsExclusive' /\ DiskInv' /\ DurableInv'
    BY <1>2 DEF vars, IInv, TypeOK, LockIsExclusive, DiskInv, DurableInv
  <2>2. \A p \in Proc : CopyInv(p)'
    BY <1>2, CopyUntouched DEF vars, IInv
  <2> QED BY <2>1, <2>2 DEF IInv
<1> QED BY <1>1, <1>2

\* IInv, the inductive invariant, holds in every reachable state.
THEOREM Invariance == Spec => []IInv
  BY InitialInvariant, InvariantStep, PTL DEF Spec

-----------------------------------------------------------------------------
(* What it implies *)

\* Every variable keeps its type: among others, no stage outside the locked
\* order is ever recorded as active, completed or failed.
THEOREM TypeCorrect == Spec => []TypeOK
<1>1. IInv => TypeOK
  BY DEF IInv
<1> QED BY <1>1, Invariance, PTL

\* Commands and workers are inside the run lock one at a time, and exactly
\* the owner of the flock is inside.
THEOREM LockExclusion == Spec => []LockIsExclusive
<1>1. IInv => LockIsExclusive
  BY DEF IInv
<1> QED BY <1>1, Invariance, PTL

\* Whatever was killed, failed or lost, load_state accepts the state file.
THEOREM StateLoads == Spec => []Loadable
<1>1. IInv => Loadable
  BY DEF IInv, DiskInv, Sound, Loadable
<1> QED BY <1>1, Invariance, PTL

\* Where the machine keeps its power, a completed stage has its artifact and
\* "complete" is only written over all stages.
THEOREM CompletionIsEarned ==
  ASSUME ~PowerCuts
  PROVE  Spec => []CompletedIsMade
<1>1. IInv => CompletedIsMade
  BY DEF IInv, DiskInv, Sound, CompletedIsMade
<1> QED BY <1>1, Invariance, PTL

\* No process works on a copy that lacks a commit of the state file, so no
\* write loses one.
THEOREM CopiesAreCurrent == Spec => []CopyIsCurrent
<1>1. ASSUME IInv, NEW p \in Proc, pc[p] \in Locked \ {"check", "begin"},
             NEW k \in disk.completed_stages
      PROVE  k \in mem[p].completed_stages /\ mem[p].stage_results[k] = disk.stage_results[k]
  <2>1. k \in Stages /\ disk \in State /\ mem[p] \in State /\ Sound(disk) /\ CopyInv(p)
    BY <1>1 DEF IInv, TypeOK, DiskInv, State
  <2>2. Sound(mem[p]) /\ (mem[p].stage_results = disk.stage_results \/ OneAhead(disk, mem[p]))
    BY <1>1, <2>1 DEF CopyInv
  <2>3. disk.stage_results[k] # NoResult
    BY <1>1, <2>1 DEF Sound, load_state_accepts
  <2>4. mem[p].stage_results[k] = disk.stage_results[k]
    <3>1. ASSUME NEW j \in Stages, NEW r \in Result, IsNextStage(j, disk),
                 mem[p].stage_results = [disk.stage_results EXCEPT ![j] = r]
          PROVE  mem[p].stage_results[k] = disk.stage_results[k]
      BY <1>1, <3>1, <2>1 DEF IsNextStage, State
    <3> QED BY <2>2, <3>1 DEF OneAhead
  <2>5. k \in mem[p].completed_stages
    BY <2>1, <2>2, <2>3, <2>4 DEF Sound, load_state_accepts
  <2> QED BY <2>4, <2>5
<1>2. IInv => CopyIsCurrent
  BY <1>1 DEF CopyIsCurrent
<1> QED BY <1>2, Invariance, PTL

\* A recorded failure names the stage at which the next attempt resumes.
THEOREM FailureIsResumeStage == Spec => []FailureNamesResumeStage
<1>1. IInv => FailureNamesResumeStage
  BY DEF IInv, DiskInv, Sound, FailureNamesResumeStage
<1> QED BY <1>1, Invariance, PTL

\* Without power cuts (kills, write failures and every interleaving of
\* commands allowed) no committed stage is executed again.
THEOREM NoCommittedStageRepeats ==
  ASSUME ~PowerCuts
  PROVE  Spec => []OnlyUncommittedRepeats
<1>1. ASSUME IInv, NEW p \in Proc, pc[p] = "action"
      PROVE  mem[p].active_stage \notin seen
  <2>1. /\ seen = disk.completed_stages /\ disk \in State /\ mem[p] \in State
        /\ Sound(disk) /\ CopyInv(p)
    BY <1>1 DEF IInv, TypeOK, DiskInv
  <2>2. /\ Sound(mem[p]) /\ mem[p].stage_results = disk.stage_results
        /\ mem[p].active_stage \in Stages
    BY <1>1, <2>1 DEF CopyInv, Locked, RunPC
  <2>3. mem[p].active_stage \notin mem[p].completed_stages
    BY <2>2 DEF Sound, load_state_accepts
  <2> QED BY <2>1, <2>2, <2>3 DEF Sound, load_state_accepts
<1>2. IInv => OnlyUncommittedRepeats
  BY <1>1 DEF OnlyUncommittedRepeats
<1> QED BY <1>2, Invariance, PTL

-----------------------------------------------------------------------------
(* The state file implements DurablePipeline *)

\* A write of a content one stage ahead is a Record of the pipeline.
LEMMA OneAheadRecords ==
  ASSUME IInv, NEW m, OneAhead(disk, m), disk'.stage_results = m.stage_results
  PROVE  Pipeline!Next
<1>1. PICK k \in Stages, r \in Result :
             IsNextStage(k, disk) /\ m.stage_results = [disk.stage_results EXCEPT ![k] = r]
  BY DEF OneAhead
<1>2. \A j \in Stages : (disk.stage_results[j] # NoResult) <=> (j \in disk.completed_stages)
  BY DEF IInv, DiskInv, Sound, load_state_accepts
<1>3. disk.stage_results[k] = NoResult /\ \A j \in 1 .. (k - 1) : disk.stage_results[j] # NoResult
  BY <1>1, <1>2 DEF IsNextStage
<1>4. Pipeline!Record(k, r)
  BY <1>1, <1>3 DEF Pipeline!Record
<1> QED BY <1>4 DEF Pipeline!Next, Pipeline!Stages

\* A power cut loses a tail of the committed stages.
LEMMA PowerCutLosesTail ==
  ASSUME IInv, PowerCut
  PROVE  Pipeline!Next \/ UNCHANGED disk.stage_results
<1> DEFINE d == durable.disk
<1>0. /\ d \in State /\ disk \in State /\ Sound(d) /\ Sound(disk) /\ DurableInv
      /\ disk' = d /\ PowerCuts
  BY DEF IInv, TypeOK, DurableInv, DiskInv, PowerCut
<1>1. PICK n \in 0 .. N : d.completed_stages = 1 .. n
  BY <1>0 DEF Sound, load_state_accepts
<1>2. \A j \in Stages : d.stage_results[j] = IF j \in 1 .. n THEN disk.stage_results[j] ELSE NoResult
  BY <1>0, <1>1 DEF DurableInv, Sound, load_state_accepts
<1>3. CASE n = N
  <2>1. \A j \in Stages : d.stage_results[j] = disk.stage_results[j]
    BY <1>2, <1>3
  <2> QED BY <1>0, <2>1 DEF State
<1>4. CASE n < N
  <2>1. n + 1 \in Stages
    BY <1>4
  <2>2. d.stage_results = [j \in Stages |-> IF j < n + 1 THEN disk.stage_results[j] ELSE NoResult]
    BY <1>0, <1>2 DEF State
  <2>3. Pipeline!LoseTail(n + 1)
    BY <1>0, <2>1, <2>2 DEF Pipeline!LoseTail, Pipeline!Stages
  <2> QED BY <2>1, <2>3 DEF Pipeline!Next, Pipeline!Stages
<1> QED BY <1>3, <1>4

LEMMA StepImplements ==
  ASSUME IInv, [Next]_vars
  PROVE  Pipeline!Next \/ UNCHANGED disk.stage_results
<1>0. disk \in State /\ mem \in [Proc -> State]
  BY DEF IInv, TypeOK
<1>1. ASSUME NEW p \in Proc, StartWrite(p) \/ RunBegin(p)
      PROVE  UNCHANGED disk.stage_results
  BY <1>0, <1>1 DEF StartWrite, RunBegin, Write, State
<1>2. ASSUME NEW p \in Proc, StartQueue(p)
      PROVE  UNCHANGED disk.stage_results
  BY <1>2 DEF StartQueue, IInv, CopyInv, Locked, StartPC
<1>3. ASSUME NEW p \in Proc, pc[p] \in RunPC \ {"begin"},
             NEW m \in State, m.stage_results = mem[p].stage_results,
             disk' = m \/ disk' = disk
      PROVE  Pipeline!Next \/ UNCHANGED disk.stage_results
  <2>1. mem[p].stage_results = disk.stage_results \/ OneAhead(disk, mem[p])
    BY <1>3 DEF IInv, CopyInv, Locked, RunPC
  <2>2. OneAhead(disk, mem[p]) => OneAhead(disk, m)
    BY <1>3 DEF OneAhead
  <2> QED BY <1>3, <2>1, <2>2, OneAheadRecords
<1>4. ASSUME NEW p \in Proc, NEW k \in Stages, StageBegin(p, k)
      PROVE  Pipeline!Next \/ UNCHANGED disk.stage_results
  <2> DEFINE m == [mem[p] EXCEPT !.status = "running", !.active_stage = k, !.failure = NoFailure]
  <2>1. m \in State /\ m.stage_results = mem[p].stage_results
    BY <1>0 DEF State, Status
  <2>2. WriteThen(p, m, "action") /\ pc[p] \in RunPC \ {"begin"}
    BY <1>4 DEF StageBegin, RunPC
  <2> HIDE DEF m
  <2>3. disk' = m \/ disk' = disk
    BY <2>2 DEF WriteThen, Write, WriteFails
  <2> QED BY <1>3, <2>1, <2>2, <2>3
<1>5. ASSUME NEW p \in Proc, StageFails(p)
      PROVE  Pipeline!Next \/ UNCHANGED disk.stage_results
  <2> DEFINE m == [mem[p] EXCEPT !.status = "failed", !.failure = mem[p].active_stage]
  <2>1. m \in State /\ m.stage_results = mem[p].stage_results
    BY <1>0, <1>5 DEF State, Status
  <2>2. (Write(p, m) \/ UNCHANGED disk) /\ pc[p] \in RunPC \ {"begin"}
    BY <1>5 DEF StageFails, RunPC
  <2> HIDE DEF m
  <2> QED BY <1>3, <2>1, <2>2 DEF Write
<1>6. ASSUME NEW p \in Proc, NEW r \in Result, StageCommit(p, r)
      PROVE  Pipeline!Next \/ UNCHANGED disk.stage_results
  <2> DEFINE k == mem[p].active_stage
             m == [mem[p] EXCEPT !.stage_results[k] = r, !.completed_stages = @ \cup {k},
                                 !.active_stage = NoStage]
  <2>1. /\ mem[p].stage_results = disk.stage_results /\ Sound(mem[p]) /\ Sound(disk)
        /\ k \in Stages /\ mem[p].failure = NoFailure /\ mem[p] \in State
    BY <1>0, <1>6 DEF StageCommit, IInv, DiskInv, CopyInv, Locked, RunPC
  <2>2. OneAhead(mem[p], m)
    BY <2>1, SoundCommit
  <2>3. WriteThen(p, m, "next")
    BY <1>6 DEF StageCommit
  <2> HIDE DEF m, k
  <2>4. mem[p].completed_stages = disk.completed_stages
    BY <1>0, <2>1 DEF Sound, load_state_accepts, State
  <2>5. OneAhead(disk, m)
    BY <2>1, <2>2, <2>4 DEF OneAhead, IsNextStage
  <2>6. disk' = m \/ disk' = disk
    BY <2>3 DEF WriteThen, Write, WriteFails
  <2> QED BY <2>5, <2>6, OneAheadRecords
<1>7. ASSUME NEW p \in Proc, PipelineComplete(p)
      PROVE  Pipeline!Next \/ UNCHANGED disk.stage_results
  <2> DEFINE m == [mem[p] EXCEPT !.status = "complete", !.active_stage = NoStage, !.pid = NoProc]
  <2>1. m \in State /\ m.stage_results = mem[p].stage_results
    BY <1>0 DEF State, Status
  <2>2. WriteThen(p, m, "verify") /\ pc[p] \in RunPC \ {"begin"}
    BY <1>7 DEF PipelineComplete, RunPC
  <2> HIDE DEF m
  <2>3. disk' = m \/ disk' = disk
    BY <2>2 DEF WriteThen, Write, WriteFails
  <2> QED BY <1>3, <2>1, <2>2, <2>3
<1>8. ASSUME NEW p \in Proc, PipelineExcept(p)
      PROVE  Pipeline!Next \/ UNCHANGED disk.stage_results
  <2> DEFINE m == [mem[p] EXCEPT !.status = "failed", !.pid = NoProc,
                                 !.failure = mem[p].active_stage]
  <2>1. m \in State /\ m.stage_results = mem[p].stage_results
    BY <1>0 DEF State, Status
  <2>2. (disk' = m \/ disk' = disk) /\ pc[p] \in RunPC \ {"begin"}
    BY <1>8 DEF PipelineExcept, RunPC
  <2> HIDE DEF m
  <2> QED BY <1>3, <2>1, <2>2
<1>9. CASE PowerCut
  BY <1>9, PowerCutLosesTail
<1>10. CASE \/ \E p \in Proc : \/ StartLock(p) \/ RunLock(p) \/ WorkerLock(p) \/ Kill(p)
                               \/ StartReturn(p) \/ \E w \in Proc : StartSpawn(p, w)
                               \/ SpaceCheck(p) \/ StageSucceeds(p) \/ PipelineVerify(p)
            \/ \E k \in Stages : OrphanEnds(k) \/ SyncArtifact(k)
            \/ SyncState
            \/ UNCHANGED vars
  BY <1>10 DEF StartLock, RunLock, WorkerLock, Kill, StartReturn, StartSpawn, SpaceCheck,
               StageSucceeds, PipelineVerify, OrphanEnds, SyncState, SyncArtifact, vars
<1> QED BY <1>1, <1>2, <1>4, <1>5, <1>6, <1>7, <1>8, <1>9, <1>10 DEF Next, StartStep, RunStep

\* The runner commits stages in the locked order, one at a time, and never
\* replaces a committed result; only a power cut may forget a tail of them.
THEOREM PipelineImplemented == Spec => ImplementsPipeline
<1>1. Init => Pipeline!Init
  BY DEF Init, initial_state, Pipeline!Init, Pipeline!Stages
<1>2. IInv /\ [Next]_vars => [Pipeline!Next]_(disk.stage_results)
  BY StepImplements
<1> QED BY <1>1, <1>2, Invariance, PTL DEF Spec, ImplementsPipeline, Pipeline!Spec
=============================================================================
