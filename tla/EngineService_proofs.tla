-------------------------- MODULE EngineService_proofs --------------------------
(***************************************************************************)
(* Theorems about the engine-service: about how it runs the testing engine *)
(* (EngineRunner), for any number of jobs and edits, on both kinds of      *)
(* platform, and for any combination of the faults each theorem does not   *)
(* rule out by name; and about its job manager (EngineJobs), for any       *)
(* number of jobs, specifications, request threads and captured requests.  *)
(***************************************************************************)
EXTENDS EngineRunner, EngineJobs, TLAPS

-----------------------------------------------------------------------------
(* Running the engine (EngineRunner).                                      *)

\* The contents a file can have are contents.
LEMMA ContentsAreContent ==
    /\ Absent \in Content
    /\ Torn \in Content
    /\ \A v \in Nat : UserCfg(v) \in Content /\ JobCfg(v) \in Content
BY DEF Absent, Torn, UserCfg, JobCfg, Content

\* Type correctness: every variable keeps its type in every behaviour.
THEOREM RunnerTypeCorrect == RunnerSpec => []RunnerTypeOK
<1>1. RunnerInit => RunnerTypeOK
  BY RunnerAssumption, ContentsAreContent DEF RunnerInit, RunnerTypeOK, Stages
<1>2. RunnerTypeOK /\ [RunnerNext]_runnerVars => RunnerTypeOK'
  <2> SUFFICES ASSUME RunnerTypeOK, [RunnerNext]_runnerVars PROVE RunnerTypeOK'
    OBVIOUS
  <2> USE RunnerAssumption, ContentsAreContent DEF RunnerTypeOK, Stages, JobNumbers,
      files, user, engine, slot, signal, Advance, Raises
  <2>a. env' = env
    BY DEF RunnerNext, runnerVars
  <2> USE <2>a
  <2>1. CASE Begin
    BY <2>1 DEF Begin
  <2>2. CASE PromoteResidue
    BY <2>2 DEF PromoteResidue, MoveBackup
  <2>3. CASE CopyToBackup
    BY <2>3 DEF CopyToBackup
  <2>4. CASE WriteJobConfig
    BY <2>4 DEF WriteJobConfig
  <2>5. CASE Spawn
    BY <2>5 DEF Spawn
  <2>6. CASE Register
    BY <2>6 DEF Register
  <2>7. CASE EngineFinished
    BY <2>7 DEF EngineFinished
  <2>8. CASE EngineTimedOut
    BY <2>8 DEF EngineTimedOut, KillTree
  <2>9. CASE Release
    BY <2>9 DEF Release
  <2>10. CASE Restore
    BY <2>10 DEF Restore, MoveBackup
  <2>11. CASE EngineStep
    BY <2>11 DEF EngineStep, EngineReadsConfig, EngineExits
  <2>12. CASE ServiceKilled \/ StopExits
    BY <2>12 DEF ServiceKilled, StopExits, ProcessDies
  <2>13. CASE StopReadsSlot \/ StopKills \/ Restart
    BY <2>13 DEF StopReadsSlot, StopKills, KillTree, Restart
  <2>14. CASE UserEdits
    BY <2>14 DEF UserEdits
  <2>15. CASE UNCHANGED runnerVars
    BY <2>15 DEF runnerVars
  <2>16. QED
    BY <2>1, <2>2, <2>3, <2>4, <2>5, <2>6, <2>7, <2>8, <2>9, <2>10, <2>11,
       <2>12, <2>13, <2>14, <2>15 DEF RunnerNext, RunStep, ServiceStep
<1>3. QED
  BY <1>1, <1>2, PTL DEF RunnerSpec

-----------------------------------------------------------------------------
(* The two files.  Between the moment run_real starts to overwrite         *)
(* configurations.toml and the moment it has put it back, the user's       *)
(* configuration is in the backup; before and after, it is in the file     *)
(* itself; and between runs it is in the backup if there is a whole one    *)
(* and in the file if there is none, which is what lets the next run tell  *)
(* the two cases apart.  After a torn backup was put back, the torn file   *)
(* takes the place of the user's in all of this.                           *)

Overwritten == {"promoteCopying", "writing", "spawn", "register", "wait",
                "release", "restore", "restoreCopying"}

BetweenRuns == {"idle", "down", "promote"}

Careful == Without({"lateEdit"}) /\ userCfg # Absent

\* What the two files hand to and fro: the user's file, or the torn one that
\* has taken its place.
Handed(file) == file = userCfg \/ (putBack = "torn" /\ file = Torn)

FilesInv ==
    /\ userCfg.by = "user"
    /\ backup \in {Absent, Torn, userCfg}
    /\ stage \in BetweenRuns /\ backup = Absent => Handed(coreToml)
    /\ stage \in BetweenRuns /\ backup = Torn => putBack = "torn" \/ coreToml = userCfg
    /\ stage \in Overwritten => Handed(backup)
    /\ stage \in {"write", "promoteUnlink", "restoreUnlink"} =>
          Handed(backup) /\ coreToml = backup
    /\ stage = "copy" => backup = Absent /\ Handed(coreToml)
    /\ stage = "copying" => backup = Torn /\ Handed(coreToml)

\* FilesInv holds in every behaviour, whatever dies or fails, while there is a
\* user's file and the user leaves a dead run's residue alone.
LEMMA FilesInvariant == RunnerSpec => [](Careful => FilesInv)
<1> USE DEF FilesInv, Overwritten, BetweenRuns, Handed, Absent, Torn, UserCfg
<1>1. RunnerInit => FilesInv
  BY DEF RunnerInit
<1>2. RunnerTypeOK /\ (Careful => FilesInv) /\ [RunnerNext]_runnerVars => (Careful => FilesInv)'
  <2> SUFFICES ASSUME RunnerTypeOK, Careful => FilesInv, [RunnerNext]_runnerVars,
                      Careful'
               PROVE  FilesInv'
    OBVIOUS
  <2>a. "lateEdit" \notin env.faults /\ userCfg' # Absent
    BY DEF RunnerNext, runnerVars, Careful, Without
  <2>b. userCfg' = userCfg => FilesInv
    BY <2>a DEF Careful, Without
  <2> USE <2>a, <2>b
  <2> USE DEF files, user, engine, slot, signal, Advance, Raises
  <2>1. CASE Begin
    BY <2>1 DEF Begin
  <2>2. CASE PromoteResidue
    BY <2>2 DEF PromoteResidue, MoveBackup
  <2>3. CASE CopyToBackup
    BY <2>3 DEF CopyToBackup
  <2>4. CASE WriteJobConfig
    BY <2>4 DEF WriteJobConfig
  <2>5. CASE Spawn
    BY <2>5 DEF Spawn
  <2>6. CASE Register \/ EngineFinished \/ EngineTimedOut \/ Release
    BY <2>6 DEF Register, EngineFinished, EngineTimedOut, KillTree, Release
  <2>7. CASE Restore
    BY <2>7 DEF Restore, MoveBackup
  <2>8. CASE EngineStep
    BY <2>8 DEF EngineStep, EngineReadsConfig, EngineExits
  <2>9. CASE ServiceKilled \/ StopExits
    BY <2>9 DEF ServiceKilled, StopExits, ProcessDies, Up, RunnerTypeOK, Stages
  <2>10. CASE StopReadsSlot \/ StopKills \/ Restart
    BY <2>10 DEF StopReadsSlot, StopKills, KillTree, Restart
  <2>11. CASE UserEdits
    BY <2>11, \A v : UserCfg(v) # Torn DEF UserEdits
  <2>12. CASE UNCHANGED runnerVars
    BY <2>12 DEF runnerVars
  <2>13. QED
    BY <2>1, <2>2, <2>3, <2>4, <2>5, <2>6, <2>7, <2>8, <2>9, <2>10, <2>11,
       <2>12 DEF RunnerNext, RunStep, ServiceStep
<1>3. QED
  BY <1>1, <1>2, RunnerTypeCorrect, PTL DEF RunnerSpec

\* No kill of the service, no request to stop, no file operation that fails
\* and no later run loses the user's configuration, wherever it strikes, unless
\* a torn backup is put back; and whatever happens the backup is torn or the
\* user's latest, never a job's.  The user leaves a dead run's residue alone.
THEOREM ConfigIsKept == RunnerSpec => []UserConfigKept
<1>1. RunnerTypeOK /\ (Careful => FilesInv) => UserConfigKept
  BY DEF RunnerTypeOK, Careful, FilesInv, Overwritten, BetweenRuns, Handed, Stages, Torn,
         UserConfigKept, UserConfigIsThere, BackupIsGenuine
<1>2. QED
  BY <1>1, RunnerTypeCorrect, FilesInvariant, PTL
-----------------------------------------------------------------------------
(* The engines.  A job that has not reached Popen has no engine, and the   *)
(* file holds the job's configuration from before Popen until the worker   *)
(* stops waiting; an engine of an earlier, dead run may read the file at   *)
(* any time, but never the present job's engine before it was started.     *)

BeforeSpawn == {"promote", "promoteCopying", "promoteUnlink", "copy",
                "copying", "write", "writing", "spawn"}

EnginesInv ==
    /\ stage \in Stages => job \in JobNumbers
    /\ \A j \in JobNumbers : j > job => procs[j] = "none"
    /\ stage \in BeforeSpawn => procs[job] = "none"
    /\ activeProc # 0 => procs[activeProc] # "none"
    /\ victim # 0 => procs[victim] # "none"
    /\ \A j \in tied : j \in JobNumbers /\ procs[j] # "none"
    /\ stage = "register" => procs[job] # "none"
    /\ stage \in {"spawn", "register", "wait"} => coreToml = JobCfg(job)
    /\ stage \in {"register", "wait"} /\ procs[job] = "running"
          => seen[job] = JobCfg(job)

\* EnginesInv holds in every behaviour, whatever the faults.
LEMMA EnginesInvariant == RunnerSpec => []EnginesInv
<1> USE RunnerAssumption DEF EnginesInv, BeforeSpawn, Stages, JobNumbers
<1>1. RunnerInit => EnginesInv
  BY DEF RunnerInit
<1>2. RunnerTypeOK /\ EnginesInv /\ [RunnerNext]_runnerVars => EnginesInv'
  <2> SUFFICES ASSUME RunnerTypeOK, EnginesInv, [RunnerNext]_runnerVars PROVE EnginesInv'
    OBVIOUS
  <2> USE DEF RunnerTypeOK, files, user, engine, slot, signal, Advance, Raises
  <2>1. CASE Begin
    BY <2>1 DEF Begin
  <2>2. CASE PromoteResidue
    BY <2>2 DEF PromoteResidue, MoveBackup
  <2>3. CASE CopyToBackup
    BY <2>3 DEF CopyToBackup
  <2>4. CASE WriteJobConfig
    BY <2>4 DEF WriteJobConfig
  <2>5. CASE Spawn
    BY <2>5 DEF Spawn
  <2>6. CASE Register \/ EngineFinished \/ Release
    BY <2>6 DEF Register, EngineFinished, Release
  <2>7. CASE EngineTimedOut
    BY <2>7 DEF EngineTimedOut, KillTree
  <2>8. CASE Restore
    BY <2>8 DEF Restore, MoveBackup
  <2>9. CASE EngineStep
    <3>1. PICK j \in JobNumbers : EngineReadsConfig(j) \/ EngineExits(j)
      BY <2>9 DEF EngineStep
    <3>2. CASE EngineReadsConfig(j)
      BY <3>2 DEF EngineReadsConfig
    <3>3. CASE EngineExits(j)
      BY <3>3 DEF EngineExits, Alive
    <3>4. QED
      BY <3>1, <3>2, <3>3
  <2>10. CASE ServiceKilled \/ StopExits
    BY <2>10 DEF ServiceKilled, StopExits, ProcessDies, Up
  <2>11. CASE StopReadsSlot \/ Restart
    BY <2>11 DEF StopReadsSlot, Restart
  <2>12. CASE StopKills
    BY <2>12 DEF StopKills, KillTree
  <2>13. CASE UserEdits
    BY <2>13 DEF UserEdits
  <2>14. CASE UNCHANGED runnerVars
    BY <2>14 DEF runnerVars
  <2>15. QED
    BY <2>1, <2>2, <2>3, <2>4, <2>5, <2>6, <2>7, <2>8, <2>9, <2>10, <2>11,
       <2>12, <2>13, <2>14 DEF RunnerNext, RunStep, ServiceStep
<1>3. QED
  BY <1>1, <1>2, RunnerTypeCorrect, PTL DEF RunnerSpec

\* Whatever died before it, and whatever engines are still alive, the engine
\* the worker waits for read its own job's configuration: no fault excluded.
THEOREM OwnConfig == RunnerSpec => []EngineReadsOwnConfig
<1>1. EnginesInv => EngineReadsOwnConfig
  BY DEF EnginesInv, EngineReadsOwnConfig
<1>2. QED
  BY <1>1, EnginesInvariant, PTL

\* The only engine alive is the one of the job in hand, from Popen until the
\* worker has seen it exit or has killed it.
OnlyCurrentAlive ==
    Without({"crash", "stop", "killFail"}) =>
    /\ stage # "down"
    /\ stopping = "no"
    /\ \A j \in JobNumbers : Alive(j) => j = job /\ stage \in {"register", "wait"}

\* In a service that is neither killed nor stopped, engines run one at a time:
\* a run that exceeds its budget is killed before the next one begins.
THEOREM Serialized == RunnerSpec => []OneEngineAtATime
<1> USE RunnerAssumption DEF OnlyCurrentAlive, Alive, JobNumbers
<1>1. RunnerInit => OnlyCurrentAlive
  BY DEF RunnerInit
<1>2. RunnerTypeOK /\ EnginesInv /\ OnlyCurrentAlive /\ [RunnerNext]_runnerVars
        => OnlyCurrentAlive'
  <2> SUFFICES ASSUME RunnerTypeOK, EnginesInv, OnlyCurrentAlive, [RunnerNext]_runnerVars
               PROVE  OnlyCurrentAlive'
    OBVIOUS
  <2>a. env' = env
    BY DEF RunnerNext, runnerVars
  <2> USE <2>a DEF Without
  <2> USE DEF RunnerTypeOK, EnginesInv, Stages, files, user, engine, slot, signal, Advance, Raises
  <2>1. CASE Begin \/ PromoteResidue \/ Restore
    BY <2>1 DEF Begin, PromoteResidue, Restore, MoveBackup
  <2>2. CASE CopyToBackup \/ WriteJobConfig
    BY <2>2 DEF CopyToBackup, WriteJobConfig
  <2>3. CASE Spawn
    BY <2>3 DEF Spawn
  <2>4. CASE Register \/ EngineFinished \/ Release
    BY <2>4 DEF Register, EngineFinished, Release
  <2>5. CASE EngineTimedOut
    BY <2>5 DEF EngineTimedOut, KillTree
  <2>6. CASE EngineStep
    BY <2>6 DEF EngineStep, EngineReadsConfig, EngineExits
  <2>7. CASE ServiceStep
    BY <2>7 DEF ServiceStep, ServiceKilled, StopReadsSlot, StopKills, KillTree,
         StopExits, Restart
  <2>8. CASE UserEdits
    BY <2>8 DEF UserEdits
  <2>9. CASE UNCHANGED runnerVars
    BY <2>9 DEF runnerVars
  <2>10. QED
    BY <2>1, <2>2, <2>3, <2>4, <2>5, <2>6, <2>7, <2>8, <2>9 DEF RunnerNext, RunStep
<1>3. OnlyCurrentAlive => OneEngineAtATime
  BY DEF OneEngineAtATime
<1>4. QED
  BY <1>1, <1>2, <1>3, RunnerTypeCorrect, EnginesInvariant, PTL DEF RunnerSpec

-----------------------------------------------------------------------------
(* A service that goes on.  With no run cut short there is no residue to   *)
(* promote, and the user's file, if there is one, is in the backup exactly *)
(* while a run has the other.                                              *)

Undisturbed == Without({"crash", "stop", "ioFail", "lateEdit"})

InPlace == {"idle", "promote", "copy", "copying", "write", "restoreUnlink"}

UndisturbedInv ==
    /\ stage \notin {"down", "promoteCopying", "promoteUnlink"} /\ stopping = "no"
    /\ stage \in {"idle", "promote", "copy"} => backup = Absent
    /\ stage \in InPlace /\ userCfg # Absent => coreToml = userCfg
    /\ stage \in {"write", "writing", "spawn", "register", "wait", "release", "restore",
              "restoreCopying"} /\ userCfg # Absent => backup = userCfg

\* Where nothing cuts a run short, the service leaves the user's file in place
\* between runs: timeouts and failed spawns included, and whether or not the
\* platform's rename replaces its target.
THEOREM Restored == RunnerSpec => []RestoredBetweenRuns
<1> USE DEF UndisturbedInv, InPlace, Absent, Torn, UserCfg
<1>1. RunnerInit => UndisturbedInv
  BY DEF RunnerInit
<1>2. RunnerTypeOK /\ (Undisturbed => UndisturbedInv) /\ [RunnerNext]_runnerVars
        => (Undisturbed => UndisturbedInv)'
  <2> SUFFICES ASSUME RunnerTypeOK, Undisturbed => UndisturbedInv,
                      [RunnerNext]_runnerVars, Undisturbed'
               PROVE  UndisturbedInv'
    OBVIOUS
  <2>a. Undisturbed
    BY DEF RunnerNext, runnerVars, Undisturbed, Without
  <2>b. UndisturbedInv /\ {"crash", "stop", "ioFail", "lateEdit"} \cap env.faults = {}
    BY <2>a DEF Undisturbed, Without
  <2> USE <2>b DEF RunnerTypeOK, Stages, files, user, engine, slot, signal, Advance, Raises
  <2>1. CASE Begin \/ Spawn \/ Register \/ EngineFinished \/ EngineTimedOut \/ Release
    BY <2>1 DEF Begin, Spawn, Register, EngineFinished, EngineTimedOut, KillTree, Release
  <2>2. CASE PromoteResidue
    BY <2>2 DEF PromoteResidue, MoveBackup
  <2>3. CASE CopyToBackup
    BY <2>3 DEF CopyToBackup
  <2>4. CASE WriteJobConfig
    BY <2>4 DEF WriteJobConfig
  <2>5. CASE Restore
    BY <2>5 DEF Restore, MoveBackup
  <2>6. CASE EngineStep
    BY <2>6 DEF EngineStep, EngineReadsConfig, EngineExits
  <2>7. CASE ServiceStep
    BY <2>7 DEF ServiceStep, ServiceKilled, StopReadsSlot, StopKills, KillTree,
         StopExits, Restart
  <2>8. CASE UserEdits
    BY <2>8 DEF UserEdits
  <2>9. CASE UNCHANGED runnerVars
    BY <2>9 DEF runnerVars
  <2>10. QED
    BY <2>1, <2>2, <2>3, <2>4, <2>5, <2>6, <2>7, <2>8, <2>9 DEF RunnerNext, RunStep
<1>3. (Undisturbed => UndisturbedInv) => RestoredBetweenRuns
  BY DEF Undisturbed, RestoredBetweenRuns
<1>4. QED
  BY <1>1, <1>2, <1>3, RunnerTypeCorrect, PTL DEF RunnerSpec

-----------------------------------------------------------------------------
(* The job manager (EngineJobs).                                           *)

Executing == {"prepare", "capture", "engine", "unwind", "collect", "publish",
              "failing", "marking"}

\* The part of the type invariant the other proofs rest on.
Types ==
    /\ submitted \subseteq Jobs
    /\ registered \subseteq submitted
    /\ status \in [Jobs -> {"pending", "running", "completed", "failed"}]
    /\ queue \in Seq(Jobs)
    /\ pc \in Executing \cup {"idle", "claimed", "dead"}
    /\ cur \in Jobs \cup {"none"}
    /\ pc \in Executing \cup {"claimed"} => cur \in Jobs

LEMMA TypesInvariant == Spec => []Types
<1> USE JobsAssumption DEF Types, Executing
<1>1. Init => Types
  BY DEF Init
<1>2. Types /\ [Next]_vars => Types'
  <2> SUFFICES ASSUME Types, [Next]_vars PROVE Types'
    OBVIOUS
  <2> USE DEF registry, worker, capture, captured, rest, Goto
  <2>1. ASSUME NEW j \in Jobs, Submit(j) PROVE Types'
    BY <2>1 DEF Submit
  <2>2. ASSUME NEW j \in Jobs, DeleteUnregisters(j) \/ DeleteRemovesDir(j)
        PROVE  Types'
    BY <2>2 DEF DeleteUnregisters, DeleteRemovesDir
  <2>3. CASE Claim
    <3>1. queue' \in Seq(Jobs) /\ cur' \in Jobs
      BY <2>3 DEF Claim
    <3>2. QED
      BY <3>1, <2>3 DEF Claim
  <2>4. CASE StartRun \/ Publish \/ FailMarks
    BY <2>4 DEF StartRun, Publish, FailMarks, Transition
  <2>5. CASE Prepare \/ BeginCapture \/ EngineEnds \/ EndCapture
    BY <2>5 DEF Prepare, BeginCapture, EngineEnds, EndCapture
  <2>6. CASE Collect \/ FailLooksUp
    BY <2>6 DEF Collect, FailLooksUp
  <2>7. CASE CallStep
    BY <2>7 DEF CallStep, CallArrives, CallForwarded, CallRecords
  <2>8. CASE Crash
    BY <2>8 DEF Crash
  <2>9. ASSUME NEW j \in Jobs, OrphanEnds(j) PROVE Types'
    BY <2>9 DEF OrphanEnds
  <2>10. CASE UNCHANGED vars
    BY <2>10 DEF vars
  <2>11. QED
    BY <2>1, <2>2, <2>3, <2>4, <2>5, <2>6, <2>7, <2>8, <2>9, <2>10
       DEF Next, ApiStep, WorkerStep
<1>3. QED
  BY <1>1, <1>2, PTL DEF Spec

-----------------------------------------------------------------------------
(* Who is where.  A job is pending while it waits in the queue and until   *)
(* the worker starts it, and running exactly while the worker executes it; *)
(* the queue never holds a job twice, nor the one the worker has.          *)

QueueInv ==
    /\ \A i \in 1..Len(queue) :
          /\ queue[i] \in submitted
          /\ status[queue[i]] = "pending"
          /\ pc # "idle" => queue[i] # cur
    /\ \A i, k \in 1..Len(queue) : queue[i] = queue[k] => i = k

WorkerInv ==
    /\ pc # "idle" => cur \in submitted
    /\ pc = "claimed" => status[cur] = "pending"
    /\ pc \in Executing \ {"failing", "marking"} => status[cur] = "running"
    /\ pc \in {"failing", "marking"} => status[cur] \in {"running", "completed"}
    /\ \A j \in registered : status[j] = "running" => pc \in Executing /\ j = cur

LEMMA WhoIsWhere == Spec => [](QueueInv /\ WorkerInv)
<1> USE JobsAssumption DEF QueueInv, WorkerInv, Types, Executing
<1>1. Init => QueueInv /\ WorkerInv
  BY DEF Init
<1>2. Types /\ QueueInv /\ WorkerInv /\ [Next]_vars => (QueueInv /\ WorkerInv)'
  <2> SUFFICES ASSUME Types, QueueInv, WorkerInv, [Next]_vars
               PROVE  QueueInv' /\ WorkerInv'
    OBVIOUS
  <2> USE DEF registry, worker, capture, captured, rest, Goto
  <2>1. ASSUME NEW j \in Jobs, Submit(j) PROVE QueueInv' /\ WorkerInv'
    <3>1. \A i \in 1..Len(queue') :
              \/ i \in 1..Len(queue) /\ queue'[i] = queue[i]
              \/ i = Len(queue) + 1 /\ queue'[i] = j
      BY <2>1 DEF Submit
    <3>2. /\ j \notin submitted
          /\ submitted' = submitted \cup {j}
          /\ registered' = registered \cup {j}
          /\ status' = [status EXCEPT ![j] = "pending"]
          /\ pc' = pc /\ cur' = cur
      BY <2>1 DEF Submit
    <3>3. pc # "idle" => cur # j
      BY <3>2
    <3>4. QueueInv'
      BY <3>1, <3>2, <3>3
    <3>5. WorkerInv'
      BY <3>2
    <3>6. QED
      BY <3>4, <3>5
  <2>2. ASSUME NEW j \in Jobs, DeleteUnregisters(j) \/ DeleteRemovesDir(j)
        PROVE  QueueInv' /\ WorkerInv'
    BY <2>2 DEF DeleteUnregisters, DeleteRemovesDir
  <2>3. CASE Claim
    <3>1. queue # <<>> /\ 1 \in 1..Len(queue) /\ cur' = queue[1]
      BY <2>3 DEF Claim
    <3>2. \A i \in 1..Len(queue') : i + 1 \in 1..Len(queue) /\ queue'[i] = queue[i + 1]
      BY <2>3, <3>1 DEF Claim
    <3>3. QueueInv'
      BY <2>3, <3>1, <3>2 DEF Claim
    <3>4. WorkerInv'
      BY <2>3, <3>1 DEF Claim
    <3>5. QED
      BY <3>3, <3>4
  <2>4. CASE StartRun \/ Publish \/ FailMarks
    BY <2>4 DEF StartRun, Publish, FailMarks, Transition
  <2>5. CASE Prepare \/ BeginCapture \/ EngineEnds \/ EndCapture
    BY <2>5 DEF Prepare, BeginCapture, EngineEnds, EndCapture
  <2>6. CASE Collect \/ FailLooksUp
    BY <2>6 DEF Collect, FailLooksUp
  <2>7. CASE CallStep
    BY <2>7 DEF CallStep, CallArrives, CallForwarded, CallRecords
  <2>8. CASE Crash
    BY <2>8 DEF Crash
  <2>9. ASSUME NEW j \in Jobs, OrphanEnds(j) PROVE QueueInv' /\ WorkerInv'
    BY <2>9 DEF OrphanEnds
  <2>10. CASE UNCHANGED vars
    BY <2>10 DEF vars
  <2>11. QED
    BY <2>1, <2>2, <2>3, <2>4, <2>5, <2>6, <2>7, <2>8, <2>9, <2>10
       DEF Next, ApiStep, WorkerStep
<1>3. QED
  BY <1>1, <1>2, TypesInvariant, PTL DEF Spec

\* A capture file that gets a line, and a set of numbers that gets one more,
\* keep their types.
LEMMA Extended ==
    ASSUME NEW j \in Jobs, NEW n \in Nat
    PROVE  /\ \A f \in [Jobs -> Seq(Nat)] :
                 [f EXCEPT ![j] = Append(@, n)] \in [Jobs -> Seq(Nat)]
           /\ \A f \in [Jobs -> SUBSET Nat] :
                 [f EXCEPT ![j] = @ \cup {n}] \in [Jobs -> SUBSET Nat]
<1>1. ASSUME NEW f \in [Jobs -> Seq(Nat)]
      PROVE  [f EXCEPT ![j] = Append(@, n)] \in [Jobs -> Seq(Nat)]
  <2>1. Append(f[j], n) \in Seq(Nat)
    OBVIOUS
  <2>2. QED
    BY <2>1
<1>2. ASSUME NEW f \in [Jobs -> SUBSET Nat]
      PROVE  [f EXCEPT ![j] = @ \cup {n}] \in [Jobs -> SUBSET Nat]
  <2>1. f[j] \cup {n} \in SUBSET Nat
    OBVIOUS
  <2>2. QED
    BY <2>1
<1>3. QED
  BY <1>1, <1>2

-----------------------------------------------------------------------------
\* The job manager implements the status protocol: however API calls, the
\* worker, the proxy's threads, deletions and crashes interleave, and wherever
\* a write of status.json fails, a poller sees every job go from pending to
\* running to a final status, one job running at a time.
THEOREM Refinement == Spec => ImplementsProtocol
<1> USE JobsAssumption DEF ReportedStatus
<1>1. Init => Protocol!StatusInit
  BY DEF Init, Protocol!StatusInit
<1>2. Types /\ QueueInv /\ WorkerInv /\ Types' /\ [Next]_vars
        => [Protocol!StatusNext]_(Protocol!statusVars)
  <2> SUFFICES ASSUME Types, QueueInv, WorkerInv, Types', [Next]_vars
               PROVE  Protocol!StatusNext \/ UNCHANGED Protocol!statusVars
    OBVIOUS
  <2> USE DEF registry, worker, capture, captured, rest, Goto, Types
  <2>1. ASSUME NEW j \in Jobs, Submit(j) PROVE Protocol!Submit(j)
    BY <2>1 DEF Submit, Protocol!Submit
  <2>2. ASSUME NEW j \in Jobs, DeleteUnregisters(j) PROVE Protocol!Delete(j)
    BY <2>2 DEF DeleteUnregisters, Protocol!Delete
  <2>3. ASSUME NEW j \in Jobs, DeleteRemovesDir(j)
        PROVE  UNCHANGED <<ReportedStatus, submitted>>
    BY <2>3 DEF DeleteRemovesDir
  <2>4. CASE StartRun
    <3>1. status' = [status EXCEPT ![cur] = "running"] /\ UNCHANGED <<submitted, registered>>
      BY <2>4 DEF StartRun, Transition
    <3>2. pc = "claimed" /\ cur \in Jobs /\ status[cur] = "pending"
      BY <2>4 DEF StartRun, Transition, WorkerInv
    <3>3. PICK j \in Jobs : j = cur
      BY <3>2
    <3>4. ASSUME j \in registered PROVE Protocol!Start(j)
      BY ZenonT(60), <3>1, <3>2, <3>4, <3>3 DEF Protocol!Start, WorkerInv, Executing
    <3>5. ASSUME cur \notin registered PROVE UNCHANGED Protocol!statusVars
      <4>1. \A k \in registered : status'[k] = status[k]
        BY <3>1, <3>5
      <4>2. UNCHANGED ReportedStatus
        BY <4>1, <3>1, <3>5
      <4>3. QED
        BY <4>2, <3>1, <3>5 DEF Protocol!statusVars
    <3>6. QED
      BY <3>4, <3>5, <3>3 DEF Protocol!StatusNext
  <2>5. CASE Publish \/ FailMarks
    <3>1. PICK s \in {"completed", "failed"} :
              /\ status' = [status EXCEPT ![cur] = s]
              /\ status[cur] = "completed" => s = "failed"
      BY <2>5 DEF Publish, FailMarks, Transition, WorkerInv, Executing
    <3>2. UNCHANGED <<submitted, registered>>
      BY <2>5 DEF Publish, FailMarks
    <3>3. cur \in Jobs /\ status[cur] \in {"running", "completed"}
      BY <2>5 DEF Publish, FailMarks, Transition, WorkerInv, Executing
    <3>4. PICK j \in Jobs : j = cur
      BY <3>3
    <3>5. ASSUME j \in registered PROVE Protocol!Finish(j) \/ Protocol!Retract(j)
      <4>1. ReportedStatus' = [ReportedStatus EXCEPT ![j] = s]
        BY <3>2, <3>1, <3>3, <3>5, <3>4
      <4>2. CASE status[cur] = "running"
        BY <4>1, <4>2, <3>2, <3>5, <3>4 DEF Protocol!Finish
      <4>3. CASE status[cur] = "completed"
        BY <4>1, <4>3, <3>1, <3>2, <3>5, <3>4 DEF Protocol!Retract
      <4>4. QED
        BY <4>2, <4>3, <3>3
    <3>6. ASSUME cur \notin registered PROVE UNCHANGED Protocol!statusVars
      <4>1. \A k \in registered : status'[k] = status[k]
        BY <3>2, <3>1, <3>6
      <4>2. UNCHANGED ReportedStatus
        BY <4>1, <3>2, <3>1, <3>6
      <4>3. QED
        BY <4>2, <3>2, <3>1, <3>6 DEF Protocol!statusVars
    <3>7. QED
      BY <3>5, <3>6, <3>4 DEF Protocol!StatusNext
  <2>6. CASE Claim \/ Prepare \/ BeginCapture \/ EngineEnds \/ EndCapture
             \/ Collect \/ FailLooksUp
    BY <2>6 DEF Claim, Prepare, BeginCapture, EngineEnds, EndCapture, Collect,
                FailLooksUp, Protocol!statusVars
  <2>7. CASE CallStep
    BY <2>7 DEF CallStep, CallArrives, CallForwarded, CallRecords, Protocol!statusVars
  <2>8. CASE Crash
    BY <2>8 DEF Crash, Protocol!Restart, Protocol!StatusNext
  <2>9. ASSUME NEW j \in Jobs, OrphanEnds(j) PROVE UNCHANGED Protocol!statusVars
    BY <2>9 DEF OrphanEnds, Protocol!statusVars
  <2>10. CASE UNCHANGED vars
    BY <2>10 DEF vars, Protocol!statusVars
  <2>11. QED
    BY <2>1, <2>2, <2>3, <2>4, <2>5, <2>6, <2>7, <2>8, <2>9, <2>10
       DEF Next, ApiStep, WorkerStep, Protocol!StatusNext, Protocol!statusVars
<1>3. QED
  BY <1>1, <1>2, TypesInvariant, WhoIsWhere, PTL
     DEF Spec, ImplementsProtocol, Protocol!StatusSpec
-----------------------------------------------------------------------------
\* Every variable of the job manager keeps its type, for all faults.
THEOREM TypeCorrect == Spec => []TypeOK
<1> USE JobsAssumption DEF TypeOK, Types, Executing
<1>1. Init => TypeOK
  <2> SUFFICES ASSUME Init PROVE TypeOK
    OBVIOUS
  <2>1. raised \in BOOLEAN
    BY DEF Init
  <2>2. /\ calls \in [Calls -> [job : Jobs, at : {"forwarding", "recording"}] \cup {Idle}]
        /\ log \in [Jobs -> Seq(Nat)] /\ queue \in Seq(Jobs)
    BY DEF Init
  <2>3. result \in [Jobs -> Jobs \cup {NoReport, NoResult}]
        /\ output \in [Specs -> Jobs \cup {NoReport}]
    BY DEF Init
  <2>4. QED
    BY <2>1, <2>2, <2>3 DEF Init
<1>2. Types /\ Types' /\ TypeOK /\ [Next]_vars => TypeOK'
  <2> SUFFICES ASSUME Types, Types', TypeOK, [Next]_vars PROVE TypeOK'
    OBVIOUS
  <2> USE DEF registry, worker, capture, captured, rest, Goto
  <2>1. ASSUME NEW j \in Jobs, Submit(j) PROVE TypeOK'
    BY <2>1 DEF Submit
  <2>2. ASSUME NEW j \in Jobs, DeleteUnregisters(j) PROVE TypeOK'
    BY <2>2 DEF DeleteUnregisters
  <2>3. ASSUME NEW j \in Jobs, DeleteRemovesDir(j) PROVE TypeOK'
    BY <2>3 DEF DeleteRemovesDir
  <2>4. CASE Claim
    BY <2>4 DEF Claim
  <2>5. CASE StartRun \/ Publish \/ FailMarks
    BY <2>5 DEF StartRun, Publish, FailMarks, Transition
  <2>6. CASE Prepare \/ EngineEnds \/ EndCapture
    <3>1. cur \in Jobs /\ SpecOf[cur] \in Specs
      BY <2>6 DEF Prepare, EngineEnds, EndCapture
    <3>2. output' \in [Specs -> Jobs \cup {NoReport}]
      BY <2>6, <3>1 DEF Prepare, EngineEnds, EndCapture
    <3>3. raised' \in BOOLEAN
      BY <2>6 DEF Prepare, EngineEnds, EndCapture
    <3>4. QED
      BY <2>6, <3>2, <3>3 DEF Prepare, EngineEnds, EndCapture
  <2>7. CASE BeginCapture
    <3>1. /\ log' \in [Jobs -> Seq(Nat)] /\ nextSeq' \in [Jobs -> Nat]
          /\ unwritten' \in [Jobs -> SUBSET Nat]
      BY <2>7 DEF BeginCapture
    <3>2. raised' \in BOOLEAN
      BY <2>7 DEF BeginCapture
    <3>3. spoiled' \subseteq Jobs /\ capturing' \subseteq Jobs
      BY <2>7 DEF BeginCapture
    <3>4. QED
      BY <2>7, <3>1, <3>2, <3>3 DEF BeginCapture
  <2>8. CASE Collect \/ FailLooksUp
    <3>1. CASE Collect
      <4>1. result' \in [Jobs -> Jobs \cup {NoReport, NoResult}]
        BY ZenonT(60), <3>1 DEF Collect
      <4>2. QED
        BY <3>1, <4>1 DEF Collect
    <3>2. CASE FailLooksUp
      BY <3>2 DEF FailLooksUp
    <3>3. QED
      BY <2>8, <3>1, <3>2
  <2>9. ASSUME NEW c \in Calls, CallArrives(c) \/ CallForwarded(c) PROVE TypeOK'
    <3>1. ASSUME CallArrives(c)
          PROVE  calls' \in [Calls -> [job : Jobs, at : {"forwarding", "recording"}] \cup {Idle}]
      BY <3>1 DEF CallArrives
    <3>2. ASSUME CallForwarded(c)
          PROVE  calls' \in [Calls -> [job : Jobs, at : {"forwarding", "recording"}] \cup {Idle}]
      <4>1. calls[c] \in [job : Jobs, at : {"forwarding", "recording"}]
        BY <3>2 DEF CallForwarded, Idle
      <4>2. [calls[c] EXCEPT !.at = "recording"] \in [job : Jobs, at : {"forwarding", "recording"}]
        BY <4>1
      <4>3. QED
        BY <3>2, <4>2 DEF CallForwarded
    <3>3. QED
      BY <2>9, <3>1, <3>2 DEF CallArrives, CallForwarded
  <2>10. ASSUME NEW c \in Calls, CallRecords(c) PROVE TypeOK'
    <3>1. calls[c].job \in Jobs
      BY <2>10 DEF CallRecords, Idle
    <3>2. nextSeq' \in [Jobs -> Nat] /\ nextSeq[calls[c].job] \in Nat
      BY <2>10, <3>1 DEF CallRecords
    <3>a. PICK j \in Jobs, n \in Nat : j = calls[c].job /\ n = nextSeq[j]
      BY <3>1, <3>2
    <3>3. log' \in [Jobs -> Seq(Nat)]
      <4>1. log' = log \/ log' = [log EXCEPT ![j] = Append(@, n)]
        BY <2>10, <3>a DEF CallRecords
      <4>2. [log EXCEPT ![j] = Append(@, n)] \in [Jobs -> Seq(Nat)]
        BY Extended
      <4>3. QED
        BY <4>1, <4>2
    <3>4. unwritten' \in [Jobs -> SUBSET Nat]
      <4>1. unwritten' = unwritten \/ unwritten' = [unwritten EXCEPT ![j] = @ \cup {n}]
        BY <2>10, <3>a DEF CallRecords
      <4>2. [unwritten EXCEPT ![j] = @ \cup {n}] \in [Jobs -> SUBSET Nat]
        BY Extended
      <4>3. QED
        BY <4>1, <4>2
    <3>5. spoiled' \subseteq Jobs
      BY <2>10, <3>1 DEF CallRecords
    <3>6. calls' \in [Calls -> [job : Jobs, at : {"forwarding", "recording"}] \cup {Idle}]
      BY <2>10 DEF CallRecords
    <3>7. QED
      BY <2>10, <3>2, <3>3, <3>4, <3>5, <3>6 DEF CallRecords
  <2>11. CASE Crash
    <3>1. orphans' \subseteq Jobs
      BY <2>11 DEF Crash
    <3>2. QED
      BY <2>11, <3>1 DEF Crash
  <2>12. ASSUME NEW j \in Jobs, OrphanEnds(j) PROVE TypeOK'
    <3>1. output' \in [Specs -> Jobs \cup {NoReport}]
      BY <2>12 DEF OrphanEnds
    <3>2. QED
      BY <2>12, <3>1 DEF OrphanEnds
  <2>13. CASE UNCHANGED vars
    BY <2>13 DEF vars
  <2>14. QED
    BY <2>1, <2>2, <2>3, <2>4, <2>5, <2>6, <2>7, <2>8, <2>9, <2>10, <2>11, <2>12,
       <2>13 DEF Next, ApiStep, WorkerStep, CallStep
<1>3. QED
  BY <1>1, <1>2, TypesInvariant, PTL DEF Spec
-----------------------------------------------------------------------------
(* Captures.  A call in flight is of a job that was handed out, and a job   *)
(* not handed out yet has captured nothing; the numbers of a capture file   *)
(* and those of the requests that could not be written are together those   *)
(* the counter has given out, each once.                                    *)

Numbers(s) == {s[i] : i \in 1..Len(s)}
Ascending(s) == \A i, k \in 1..Len(s) : i < k => s[i] < s[k]

InOrder(s, next, lost) ==
    /\ Ascending(s)
    /\ Numbers(s) = (0..(next - 1)) \ lost
    /\ lost \subseteq 0..(next - 1)

CaptureInv ==
    /\ deleting \subseteq submitted \ registered
    /\ \A j \in Jobs \ submitted : log[j] = <<>> /\ nextSeq[j] = 0 /\ unwritten[j] = {}
    /\ \A c \in Calls : calls[c] # Idle => calls[c].job \in submitted
    /\ \A j \in registered : InOrder(log[j], nextSeq[j], unwritten[j])

\* A new line takes the next number; a line that is lost takes it too.
LEMMA NextNumber ==
    ASSUME NEW s \in Seq(Nat), NEW n \in Nat, NEW lost, InOrder(s, n, lost)
    PROVE  /\ InOrder(Append(s, n), n + 1, lost)
           /\ InOrder(s, n + 1, lost \cup {n})
<1> DEFINE t == Append(s, n)
<1>1. /\ Len(t) = Len(s) + 1 /\ t[Len(s) + 1] = n
      /\ \A i \in 1..Len(s) : t[i] = s[i] /\ s[i] \in Nat
  OBVIOUS
<1>2. \A i \in 1..Len(s) : s[i] \in 0..(n - 1)
  BY DEF InOrder, Numbers
<1>3. 0..((n + 1) - 1) = (0..(n - 1)) \cup {n} /\ n \notin 0..(n - 1)
  OBVIOUS
<1>4. InOrder(t, n + 1, lost)
  <2>1. ASSUME NEW i \in 1..Len(t), NEW k \in 1..Len(t), i < k PROVE t[i] < t[k]
    <3>1. i \in 1..Len(s)
      BY <1>1, <2>1
    <3>2. CASE k = Len(s) + 1
      BY <1>1, <1>2, <3>1, <3>2
    <3>3. CASE k \in 1..Len(s)
      BY <1>1, <2>1, <3>1, <3>3 DEF InOrder, Ascending
    <3>4. QED
      BY <1>1, <3>2, <3>3
  <2>2. Numbers(t) = Numbers(s) \cup {n}
    BY <1>1 DEF Numbers
  <2>3. QED
    BY <2>1, <2>2, <1>3 DEF InOrder, Ascending
<1>5. InOrder(s, n + 1, lost \cup {n})
  BY <1>3 DEF InOrder
<1>6. QED
  BY <1>4, <1>5

\* The captured requests of a job stand in the order of their numbers, none
\* twice and none missing but those whose write failed, whichever threads
\* recorded them, through deletions, crashes and failing writes.
THEOREM CapturesInOrder == Spec => []CapturedInOrder
<1> USE JobsAssumption DEF CaptureInv, TypeOK
<1>1. Init => CaptureInv
  BY DEF Init
<1>2. TypeOK /\ WorkerInv /\ CaptureInv /\ [Next]_vars => CaptureInv'
  <2> SUFFICES ASSUME TypeOK, WorkerInv, CaptureInv, [Next]_vars
               PROVE  CaptureInv'
    OBVIOUS
  <2> USE DEF registry, worker, capture, captured, rest, Goto, WorkerInv
  <2>1. ASSUME NEW j \in Jobs, Submit(j) PROVE CaptureInv'
    <3>1. InOrder(<<>>, 0, {})
      BY DEF InOrder, Ascending, Numbers
    <3>2. QED
      BY <2>1, <3>1 DEF Submit
  <2>2. ASSUME NEW j \in Jobs, DeleteUnregisters(j) PROVE CaptureInv'
    BY <2>2 DEF DeleteUnregisters
  <2>3. ASSUME NEW j \in Jobs, DeleteRemovesDir(j) PROVE CaptureInv'
    BY <2>3 DEF DeleteRemovesDir
  <2>4. CASE Claim \/ FailLooksUp \/ Collect
    BY <2>4 DEF Claim, FailLooksUp, Collect
  <2>5. CASE StartRun \/ Publish \/ FailMarks
    BY <2>5 DEF StartRun, Publish, FailMarks, Transition
  <2>6. CASE Prepare \/ EngineEnds \/ EndCapture
    BY <2>6 DEF Prepare, EngineEnds, EndCapture
  <2>7. CASE BeginCapture
    <3>1. InOrder(<<>>, 0, {})
      BY DEF InOrder, Ascending, Numbers
    <3>2. QED
      BY <2>7, <3>1 DEF BeginCapture, Executing
  <2>8. ASSUME NEW c \in Calls, CallArrives(c) \/ CallForwarded(c) PROVE CaptureInv'
    <3>1. ASSUME NEW d \in Calls, calls'[d] # Idle
          PROVE  calls'[d].job \in submitted
      <4>1. CASE d # c
        <5>1. calls'[d] = calls[d]
          BY <2>8, <4>1 DEF CallArrives, CallForwarded
        <5>2. QED
          BY <5>1, <3>1
      <4>2. CASE d = c /\ CallArrives(c)
        <5>1. calls'[d].job = cur
          BY <4>2 DEF CallArrives
        <5>2. QED
          BY <5>1, <4>2 DEF CallArrives
      <4>3. CASE d = c /\ CallForwarded(c)
        <5>1. calls[c] # Idle /\ calls'[c].job = calls[c].job
          BY <4>3, <3>1 DEF CallForwarded, Idle
        <5>2. QED
          BY <5>1, <4>3
      <4>4. QED
        BY <4>1, <4>2, <4>3, <2>8
    <3>2. QED
      BY <2>8, <3>1 DEF CallArrives, CallForwarded
  <2>9. ASSUME NEW c \in Calls, CallRecords(c) PROVE CaptureInv'
    <3>1. PICK j \in Jobs : j = calls[c].job /\ j \in submitted
      BY <2>9 DEF CallRecords, Idle
    <3>2. \A k \in Jobs : k # j =>
              log'[k] = log[k] /\ nextSeq'[k] = nextSeq[k] /\ unwritten'[k] = unwritten[k]
      BY <2>9, <3>1 DEF CallRecords
    <3>3. /\ nextSeq'[j] = nextSeq[j] + 1
          /\ \/ log'[j] = Append(log[j], nextSeq[j]) /\ unwritten'[j] = unwritten[j]
             \/ log'[j] = log[j] /\ unwritten'[j] = unwritten[j] \cup {nextSeq[j]}
      BY <2>9, <3>1 DEF CallRecords
    <3>4. ASSUME j \in registered PROVE InOrder(log'[j], nextSeq'[j], unwritten'[j])
      <4>1. /\ log[j] \in Seq(Nat) /\ nextSeq[j] \in Nat
            /\ InOrder(log[j], nextSeq[j], unwritten[j])
        BY <3>4
      <4>2. /\ InOrder(Append(log[j], nextSeq[j]), nextSeq[j] + 1, unwritten[j])
            /\ InOrder(log[j], nextSeq[j] + 1, unwritten[j] \cup {nextSeq[j]})
        BY <4>1, NextNumber
      <4>3. QED
        BY <3>3, <4>2
    <3>5. QED
      BY <2>9, <3>1, <3>2, <3>4 DEF CallRecords
  <2>10. CASE Crash
    BY <2>10 DEF Crash
  <2>11. ASSUME NEW j \in Jobs, OrphanEnds(j) PROVE CaptureInv'
    BY <2>11 DEF OrphanEnds
  <2>12. CASE UNCHANGED vars
    BY <2>12 DEF vars
  <2>13. QED
    BY <2>1, <2>2, <2>3, <2>4, <2>5, <2>6, <2>7, <2>8, <2>9, <2>10, <2>11, <2>12
       DEF Next, ApiStep, WorkerStep, CallStep
<1>3. CaptureInv => CapturedInOrder
  BY DEF CaptureInv, CapturedInOrder, InOrder, Ascending, Numbers
<1>4. QED
  BY <1>1, <1>2, <1>3, TypeCorrect, WhoIsWhere, PTL DEF Spec

-----------------------------------------------------------------------------
(* Results.  The output directory the worker is about to collect from holds *)
(* no report, its own job's, or that of a job that was lost: forgotten by   *)
(* the service while running, so that nobody will ask for it again.  Lost   *)
(* jobs stay lost, and the engines that outlive a crash are theirs.         *)

LostJobs ==
    {i \in submitted \ registered :
        status[i] = "running" /\ (i = cur => pc \in {"idle", "dead"})}

ResultInv ==
    /\ deleting \subseteq submitted \ registered
    /\ orphans \subseteq LostJobs
    /\ pc \in {"capture", "engine", "unwind", "collect"} =>
          output[SpecOf[cur]] \in {NoReport, cur} \cup LostJobs
    /\ pc \in {"publish", "failing", "marking"} /\ cur \in registered =>
          result[cur] # NoResult \/ (pc # "publish" /\ status[cur] # "completed")
    /\ CompletedHasResult
    /\ \A j \in Jobs : result[j] \in {j, NoReport, NoResult} \cup LostJobs

LEMMA LostStaysLost ==
    ASSUME Types, QueueInv, WorkerInv, [Next]_vars
    PROVE  LostJobs \subseteq LostJobs'
<1> SUFFICES ASSUME NEW i \in Jobs, i \in LostJobs PROVE i \in LostJobs'
  BY DEF LostJobs, Types
<1> USE JobsAssumption DEF Types, Executing, LostJobs, Goto, registry, worker, capture, captured, rest
<1>1. ASSUME NEW j \in Jobs, Submit(j) PROVE i \in LostJobs'
  BY <1>1 DEF Submit
<1>2. ASSUME NEW j \in Jobs, DeleteUnregisters(j) \/ DeleteRemovesDir(j) PROVE i \in LostJobs'
  BY <1>2 DEF DeleteUnregisters, DeleteRemovesDir
<1>3. CASE Claim
  <2>1. 1 \in 1..Len(queue) /\ cur' = queue[1]
    BY <1>3 DEF Claim
  <2>2. cur' # i
    BY <2>1 DEF QueueInv
  <2>3. QED
    BY <1>3, <2>2 DEF Claim
<1>4. CASE StartRun \/ Publish \/ FailMarks
  BY <1>4 DEF StartRun, Publish, FailMarks, Transition
<1>5. CASE Prepare \/ BeginCapture \/ EngineEnds \/ EndCapture
  BY <1>5 DEF Prepare, BeginCapture, EngineEnds, EndCapture
<1>6. CASE Collect \/ FailLooksUp
  BY <1>6 DEF Collect, FailLooksUp
<1>7. CASE CallStep
  BY <1>7 DEF CallStep, CallArrives, CallForwarded, CallRecords
<1>8. CASE Crash
  BY <1>8 DEF Crash
<1>9. ASSUME NEW j \in Jobs, OrphanEnds(j) PROVE i \in LostJobs'
  BY <1>9 DEF OrphanEnds
<1>10. CASE UNCHANGED vars
  BY <1>10 DEF vars
<1>11. QED
  BY <1>1, <1>2, <1>3, <1>4, <1>5, <1>6, <1>7, <1>8, <1>9, <1>10
     DEF Next, ApiStep, WorkerStep

\* Whoever is told "completed" finds a result, and it was made of the job's own
\* report or of none, though the runs of a specification share a directory;
\* only what an engine left there that outlived a crash, its job lost, may
\* stand in its place.
THEOREM ResultsOfOwnRun == Spec => []ResultsAreOwn
<1> USE JobsAssumption DEF ResultInv, CompletedHasResult, TypeOK
<1>1. Init => ResultInv
  BY DEF Init
<1>2. Types /\ TypeOK /\ QueueInv /\ WorkerInv /\ ResultInv /\ [Next]_vars => ResultInv'
  <2> SUFFICES ASSUME Types, TypeOK, QueueInv, WorkerInv, ResultInv, [Next]_vars
               PROVE  ResultInv'
    OBVIOUS
  <2>0. LostJobs \subseteq LostJobs'
    BY LostStaysLost
  <2>a. NoReport # NoResult /\ NoResult \notin Jobs
    BY DEF NoReport, NoResult
  <2> USE DEF registry, worker, capture, captured, rest, Goto
  <2>1. ASSUME NEW j \in Jobs, Submit(j) PROVE ResultInv'
    BY <2>1, <2>0 DEF Submit, WorkerInv, Executing
  <2>2. ASSUME NEW j \in Jobs, DeleteUnregisters(j) PROVE ResultInv'
    BY <2>2, <2>0 DEF DeleteUnregisters
  <2>3. ASSUME NEW j \in Jobs, DeleteRemovesDir(j) PROVE ResultInv'
    BY <2>3, <2>0 DEF DeleteRemovesDir
  <2>4. CASE Claim \/ FailLooksUp
    BY <2>4, <2>0 DEF Claim, FailLooksUp
  <2>5. CASE StartRun
    BY <2>5, <2>0 DEF StartRun, Transition
  <2>6. CASE Publish \/ FailMarks
    BY <2>6, <2>0 DEF Publish, FailMarks, Transition
  <2>7. CASE Prepare \/ EngineEnds
    <3>1. cur \in Jobs /\ SpecOf[cur] \in Specs /\ status[cur] = "running"
      BY <2>7 DEF Prepare, EngineEnds, Types, Executing, WorkerInv
    <3>2. QED
      BY <2>7, <2>0, <3>1 DEF Prepare, EngineEnds
  <2>8. CASE BeginCapture \/ EndCapture
    <3>1. status[cur] = "running"
      BY <2>8 DEF BeginCapture, EndCapture, Executing, WorkerInv
    <3>2. QED
      BY <2>8, <2>0, <3>1 DEF BeginCapture, EndCapture
  <2>9. CASE Collect
    <3>1. cur \in Jobs /\ SpecOf[cur] \in Specs /\ status[cur] = "running"
      BY <2>9 DEF Collect, Types, Executing, WorkerInv
    <3>2. output[SpecOf[cur]] \in {NoReport, cur} \cup LostJobs
          /\ output[SpecOf[cur]] # NoResult
      BY <2>9, <3>1, <2>a DEF Collect
    <3>3. QED
      BY <2>9, <2>0, <3>1, <3>2 DEF Collect
  <2>10. CASE CallStep
    BY <2>10, <2>0 DEF CallStep, CallArrives, CallForwarded, CallRecords
  <2>11. CASE Crash
    <3>1. pc = "engine" => cur \in LostJobs'
      BY <2>11 DEF Crash, LostJobs, WorkerInv, Executing
    <3>2. QED
      BY <2>11, <2>0, <3>1 DEF Crash
  <2>12. ASSUME NEW j \in Jobs, OrphanEnds(j) PROVE ResultInv'
    <3>1. j \in LostJobs'
      BY <2>12, <2>0 DEF OrphanEnds
    <3>2. pc \in {"capture", "engine", "unwind", "collect"} =>
            output'[SpecOf[cur]] \in {NoReport, cur} \cup LostJobs'
      BY <2>12, <2>0, <3>1 DEF OrphanEnds, Types, Executing
    <3>3. QED
      BY <2>12, <2>0, <3>2 DEF OrphanEnds
  <2>13. CASE UNCHANGED vars
    BY <2>13, <2>0 DEF vars
  <2>14. QED
    BY <2>1, <2>2, <2>3, <2>4, <2>5, <2>6, <2>7, <2>8, <2>9, <2>10, <2>11, <2>12, <2>13
       DEF Next, ApiStep, WorkerStep
<1>3. ResultInv => ResultsAreOwn
  BY DEF ResultsAreOwn, ResultIsOwn, LostJobs
<1>4. QED
  BY <1>1, <1>2, <1>3, TypesInvariant, TypeCorrect, WhoIsWhere, PTL DEF Spec
=================================================================================
