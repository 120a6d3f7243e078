---------------------------- MODULE EngineRunner ----------------------------
(***************************************************************************)
(* How the engine-service runs the testing engine                          *)
(* (engine-service/engine_service/runner.py, wsgi.py).                     *)
(*                                                                         *)
(* The engine reads one global configurations.toml, which is the user's.   *)
(* run_real copies it aside, overwrites it with the job's configuration,   *)
(* starts the engine, waits for it, and puts the user's file back.  A file *)
(* operation may raise, which ends the run; the service may be killed      *)
(* between any two of them, may be asked to stop (the SIGTERM handler of   *)
(* wsgi.py), and is started again later; an engine is a process of its own *)
(* that can outlive it.                                                    *)
(*                                                                         *)
(* A file's content is a record: who wrote it and which version.           *)
(***************************************************************************)
EXTENDS Naturals

CONSTANTS
    MaxJobs,       \* bound: runs handed to run_real
    MaxEdits,      \* bound: times the user edits configurations.toml
    Environments   \* the platforms and the faults considered

AllFaults == {"crash",      \* the service is killed outright
              "copyCrash",  \* ... even in the middle of the backup copy
              "stop",       \* SIGTERM / Ctrl-C
              "ioFail",     \* a copy, move or write of run_real raises (disk full)
              "killFail",   \* _kill_tree, which is best-effort, leaves the engine alive
              "lateEdit",   \* the user edits while a dead run's residue is there
              "delete"}     \* the user's edit may be to remove the file

ASSUME RunnerAssumption ==
    /\ MaxJobs \in Nat
    /\ MaxEdits \in Nat
    /\ Environments \subseteq
          [renameReplaces : BOOLEAN,  \* a rename replaces its target (POSIX, not Windows)
           killOnClose : BOOLEAN,     \* _assign_kill_on_close_job took effect (Windows)
           faults : SUBSET AllFaults]

JobNumbers == 1..MaxJobs

Absent    == [by |-> "absent", n |-> 0]
Torn      == [by |-> "torn", n |-> 0]       \* opened for writing, not yet written
UserCfg(v) == [by |-> "user", n |-> v]
JobCfg(j)  == [by |-> "job", n |-> j]
Content   == [by : {"absent", "torn", "user", "job"}, n : Nat]

VARIABLES
    env,         \* where the service runs, the same throughout a behaviour
    coreToml,    \* core_dir/configurations.toml
    backup,      \* core_dir/configurations.toml.engine-service.bak
    userCfg,     \* history: what the user last left in configurations.toml
    putBack,     \* history: "torn" once half a backup was moved over the user's file
    edits,       \* how many edits the user made
    stage,       \* where the worker thread is in run_real
    job,         \* the job in hand, or the last one
    procs,       \* the engine process of each job
    seen,        \* history: the configuration each engine read
    activeProc,  \* _active_proc: the job whose engine is registered, 0 if None
    tied,        \* the jobs whose engine is in a job object of this process
    stopping,    \* the signal handler: "no", "killing" or "exiting"
    victim       \* the process shutdown_active_engine took from the slot

files  == <<coreToml, backup, putBack>>
user   == <<userCfg, edits>>
engine == <<procs, seen>>
slot   == <<activeProc, tied>>
signal == <<stopping, victim>>
runnerVars == <<env, coreToml, backup, putBack, userCfg, edits, stage, job,
                procs, seen, activeProc, tied, stopping, victim>>

Up == stage # "down"
Alive(j) == procs[j] \in {"starting", "running"}

RunnerInit ==
    /\ env \in Environments
    /\ coreToml = UserCfg(0)
    /\ backup = Absent
    /\ putBack = "whole"
    /\ userCfg = UserCfg(0)
    /\ edits = 0
    /\ stage = "idle"
    /\ job = 0
    /\ procs = [j \in JobNumbers |-> "none"]
    /\ seen = [j \in JobNumbers |-> Absent]
    /\ activeProc = 0
    /\ tied = {}
    /\ stopping = "no"
    /\ victim = 0

-----------------------------------------------------------------------------
(* run_real, one step per file operation or call that can be interrupted.  *)

Advance(from, to) == stage = from /\ stage' = to

\* The worker takes the next job off the queue and enters run_real.
Begin ==
    /\ Advance("idle", "promote")
    /\ job < MaxJobs
    /\ job' = job + 1
    /\ UNCHANGED <<files, user, engine, slot, signal>>

\* A copy, move or write raises.  All of them stand outside the try or in its
\* finally, so run_real ends there and leaves the two files as they are.
Raises(from) ==
    /\ "ioFail" \in env.faults
    /\ Advance(from, "idle")
    /\ UNCHANGED files

\* shutil.move(backup, core_toml), taken when the backup exists.  It renames;
\* where a rename cannot replace its target it copies and then unlinks.
MoveBackup(start, copying, unlink, done) ==
    /\ \/ /\ Advance(start, done)
          /\ backup = Absent
          /\ UNCHANGED files
       \/ /\ Advance(start, done)
          /\ backup # Absent
          /\ env.renameReplaces \/ coreToml = Absent
          /\ coreToml' = backup
          /\ backup' = Absent
          /\ putBack' = IF backup = Torn THEN "torn" ELSE putBack
       \/ /\ Advance(start, copying)
          /\ backup # Absent
          /\ ~env.renameReplaces /\ coreToml # Absent
          /\ coreToml' = Torn
          /\ putBack' = IF backup = Torn THEN "torn" ELSE putBack
          /\ UNCHANGED backup
       \/ /\ Advance(copying, unlink)
          /\ coreToml' = backup
          /\ UNCHANGED <<backup, putBack>>
       \/ /\ Advance(unlink, done)
          /\ backup' = Absent
          /\ UNCHANGED <<coreToml, putBack>>
       \/ backup # Absent /\ Raises(start)
       \/ Raises(copying)
       \/ Raises(unlink)
    /\ UNCHANGED <<user, job, engine, slot, signal>>

\* Wrong: what a dead run left behind is ignored, so its own configuration is
\* copied over the backup.
PromoteResidue_Ignored ==
    /\ Advance("promote", "copy")
    /\ UNCHANGED <<files, user, job, engine, slot, signal>>

\* A backup on disk is the residue of a run that died: put it back first.
PromoteResidue == MoveBackup("promote", "promoteCopying", "promoteUnlink", "copy")

\* shutil.copy2(core_toml, backup): the target is truncated, then filled.  When
\* it raises half-way, what it has written so far stays where the next run
\* looks for the residue of a dead one.
CopyToBackup ==
    /\ \/ /\ Advance("copy", "write")
          /\ coreToml = Absent
          /\ UNCHANGED backup
       \/ /\ Advance("copy", "copying")
          /\ coreToml # Absent
          /\ backup' = Torn
       \/ /\ Advance("copying", "write")
          /\ backup' = coreToml
       \/ coreToml # Absent /\ Raises("copy")
       \/ Raises("copying")
    /\ UNCHANGED <<coreToml, putBack, user, job, engine, slot, signal>>

\* Wrong: the engine is started before the text reaches the file.
WriteJobConfig_Unflushed ==
    /\ Advance("write", "spawn")
    /\ coreToml' = Torn
    /\ UNCHANGED <<backup, putBack, user, job, engine, slot, signal>>

\* core_toml.write_text(toml_text).
WriteJobConfig ==
    /\ \/ /\ Advance("write", "writing")
          /\ coreToml' = Torn
       \/ /\ Advance("writing", "spawn")
          /\ coreToml' = JobCfg(job)
       \/ Raises("write")
       \/ Raises("writing")
    /\ UNCHANGED <<backup, putBack, user, job, engine, slot, signal>>

\* subprocess.Popen, which may itself raise.
Spawn ==
    /\ \/ /\ Advance("spawn", "register")
          /\ procs' = [procs EXCEPT ![job] = "starting"]
       \/ /\ Advance("spawn", "release")
          /\ UNCHANGED procs
    /\ UNCHANGED <<files, user, job, seen, slot, signal>>

\* The engine goes into the slot only after it is already running.
Register ==
    /\ Advance("register", "wait")
    /\ activeProc' = job
    /\ tied' = IF env.killOnClose THEN tied \cup {job} ELSE tied
    /\ UNCHANGED <<files, user, job, engine, signal>>

\* proc.wait returned; a nonzero code raises, with the same effect on state.
EngineFinished ==
    /\ Advance("wait", "release")
    /\ procs[job] = "exited"
    /\ UNCHANGED <<files, user, job, engine, slot, signal>>

\* Wrong: the run goes on without killing the engine; waits for ever.
EngineTimedOut_NotKilled ==
    /\ Advance("wait", "release")
    /\ Alive(job)
    /\ UNCHANGED <<files, user, job, engine, slot, signal>>

EngineTimedOut_Never == FALSE /\ UNCHANGED runnerVars

\* _kill_tree(proc): the whole tree is killed, or an error is swallowed and
\* only the direct child dies, leaving the engine to itself.
KillTree(j) ==
    \/ procs' = [procs EXCEPT ![j] = "exited"]
    \/ "killFail" \in env.faults /\ UNCHANGED procs

\* TimeoutExpired: the engine is killed.
EngineTimedOut ==
    /\ Advance("wait", "release")
    /\ Alive(job)
    /\ KillTree(job)
    /\ UNCHANGED <<files, user, job, seen, slot, signal>>

\* finally: empty the slot, then put the user's file back.  The handle of the
\* job object is a plain number: dropping it closes nothing.
Release ==
    /\ Advance("release", "restore")
    /\ activeProc' = 0
    /\ UNCHANGED <<files, user, job, engine, tied, signal>>

\* Wrong: the user's file is left in the backup.
Restore_Skipped ==
    /\ Advance("restore", "idle")
    /\ UNCHANGED <<files, user, job, engine, slot, signal>>

Restore == MoveBackup("restore", "restoreCopying", "restoreUnlink", "idle")

-----------------------------------------------------------------------------
(* The engine process.                                                     *)

\* get_config: the engine reads configurations.toml once, while it starts.
EngineReadsConfig(j) ==
    /\ procs[j] = "starting"
    /\ procs' = [procs EXCEPT ![j] = "running"]
    /\ seen' = [seen EXCEPT ![j] = coreToml]
    /\ UNCHANGED <<files, user, stage, job, slot, signal>>

EngineExits(j) ==
    /\ Alive(j)
    /\ procs' = [procs EXCEPT ![j] = "exited"]
    /\ UNCHANGED <<files, user, stage, job, seen, slot, signal>>

-----------------------------------------------------------------------------
(* The service process.                                                    *)

\* The process ends.  The engines the kernel tied to it go with it.
ProcessDies ==
    /\ stage' = "down"
    /\ procs' = [j \in JobNumbers |-> IF j \in tied THEN "exited" ELSE procs[j]]
    /\ activeProc' = 0
    /\ tied' = {}
    /\ stopping' = "no"
    /\ victim' = 0

ServiceKilled ==
    /\ "crash" \in env.faults
    /\ Up
    /\ stage = "copying" => "copyCrash" \in env.faults
    /\ ProcessDies
    /\ UNCHANGED <<files, user, job, seen>>

\* shutdown_active_engine, called from the signal handler in the main thread
\* while the worker goes on: read the slot, kill what it held, leave.
StopReadsSlot ==
    /\ "stop" \in env.faults
    /\ Up /\ stopping = "no"
    /\ stopping' = "killing"
    /\ victim' = activeProc
    /\ UNCHANGED <<files, user, stage, job, engine, slot>>

StopKills ==
    /\ stopping = "killing"
    /\ stopping' = "exiting"
    /\ IF victim # 0 THEN KillTree(victim) ELSE UNCHANGED procs
    /\ UNCHANGED <<files, user, stage, job, seen, slot, victim>>

StopExits ==
    /\ stopping = "exiting"
    /\ stage = "copying" => "copyCrash" \in env.faults
    /\ ProcessDies
    /\ UNCHANGED <<files, user, job, seen>>

\* The service is started again; its queue and its slot were in memory.
Restart ==
    /\ Advance("down", "idle")
    /\ UNCHANGED <<files, user, job, engine, slot, signal>>

-----------------------------------------------------------------------------
(* The user edits configurations.toml while no run is in progress: by      *)
(* default only when the file is the user's own, with "lateEdit" also when *)
(* a dead run's job configuration is what they find there.                 *)

UserEdits ==
    /\ stage \in {"idle", "down"}
    /\ edits < MaxEdits
    /\ backup = Absent \/ "lateEdit" \in env.faults
    /\ edits' = edits + 1
    /\ \E c \in {UserCfg(edits + 1)} \cup (IF "delete" \in env.faults THEN {Absent} ELSE {}) :
          coreToml' = c /\ userCfg' = c
    /\ putBack' = IF backup = Absent THEN "whole" ELSE putBack
    /\ UNCHANGED <<backup, stage, job, engine, slot, signal>>

-----------------------------------------------------------------------------
RunStep ==
    \/ Begin \/ PromoteResidue \/ CopyToBackup \/ WriteJobConfig \/ Spawn
    \/ Register \/ EngineFinished \/ EngineTimedOut \/ Release \/ Restore

EngineStep == \E j \in JobNumbers : EngineReadsConfig(j) \/ EngineExits(j)

ServiceStep == ServiceKilled \/ StopReadsSlot \/ StopKills \/ StopExits \/ Restart

RunnerNext == (RunStep \/ EngineStep \/ ServiceStep \/ UserEdits) /\ UNCHANGED env

RunnerSpec == RunnerInit /\ [][RunnerNext]_runnerVars

\* The worker thread keeps running, and wait() returns by its timeout at the
\* latest: EngineTimedOut stays enabled until the engine exits.
FairRunnerSpec == RunnerSpec /\ WF_runnerVars(RunStep /\ UNCHANGED env)

-----------------------------------------------------------------------------
Stages == {"promote", "promoteCopying", "promoteUnlink", "copy", "copying",
           "write", "writing", "spawn", "register", "wait", "release",
           "restore", "restoreCopying", "restoreUnlink"}

RunnerTypeOK ==
    /\ env \in Environments
    /\ coreToml \in Content
    /\ backup \in Content
    /\ putBack \in {"whole", "torn"}
    /\ userCfg \in Content
    /\ edits \in 0..MaxEdits
    /\ stage \in Stages \cup {"idle", "down"}
    /\ job \in 0..MaxJobs
    /\ procs \in [JobNumbers -> {"none", "starting", "running", "exited"}]
    /\ seen \in [JobNumbers -> Content]
    /\ activeProc \in 0..MaxJobs
    /\ tied \subseteq 0..MaxJobs
    /\ stopping \in {"no", "killing", "exiting"}
    /\ victim \in 0..MaxJobs

Without(excluded) == env.faults \cap excluded = {}

\* What the user last wrote is always in one of the two files: no crash, no
\* file operation that fails, and no later run that recovers from either, loses
\* the user's configuration, but for one way: a copy to the backup that was cut
\* short is taken for "the genuine user config" by the next run and put over it.
\* A user who edits a dead run's residue is on their own.
UserConfigIsThere ==
    Without({"lateEdit"}) /\ userCfg # Absent /\ putBack = "whole"
        => userCfg \in {coreToml, backup}

\* The backup never holds a job's configuration: it is cut short, or it is the
\* user's latest.  This is what a run relies on when it puts a backup back, and
\* it survives even a torn backup that was put back before.
BackupIsGenuine ==
    Without({"lateEdit"}) /\ userCfg # Absent => backup \in {Absent, Torn, userCfg}

\* The user's configuration outlives the runs, and no job's is kept in its place.
UserConfigKept == UserConfigIsThere /\ BackupIsGenuine

\* "Backed up and restored around each run": between runs, with no crash
\* behind it, the service has left the user's file in place.  Where there is
\* no file there is nothing to restore, and the job's configuration stays.
RestoredBetweenRuns ==
    Without({"crash", "stop", "ioFail", "lateEdit"}) =>
        (stage = "idle" /\ userCfg # Absent => coreToml = userCfg /\ backup = Absent)

\* The engine the worker waits for read the configuration of its own job,
\* whatever runs died before it.
EngineReadsOwnConfig ==
    stage = "wait" /\ procs[job] = "running" => seen[job] = JobCfg(job)

\* "Runs must be serialized": in a service that is neither killed nor stopped,
\* and whose kills succeed, no two engines are alive at once.
OneEngineAtATime ==
    Without({"crash", "stop", "killFail"}) => \A i, j \in JobNumbers : Alive(i) /\ Alive(j) => i = j

\* A run that has touched the file gives it back, unless it is cut short.
ConfigComesBack ==
    Without({"crash", "stop", "ioFail", "lateEdit"}) /\ stage \in Stages /\ userCfg # Absent
        ~> (coreToml = userCfg /\ backup = Absent)
=============================================================================
