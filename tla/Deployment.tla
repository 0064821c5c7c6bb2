----------------------------- MODULE Deployment -----------------------------
(***************************************************************************)
(* An installation and the three scripts that work on it: Updater, and     *)
(* with it scripts/backup.sh, which archives the data of a stopped         *)
(* container, and scripts/rollback.sh, which goes back to an older image   *)
(* with the data of such an archive.  Neither takes the update lock: that  *)
(* their operator runs one script at a time is the constant Overlap again. *)
(***************************************************************************)
EXTENDS Updater

VARIABLES
    archive,   \* the data in the operator's last archive, or Null
    backup,    \* backup.sh: where it is, and whether it found a container running
    rollback   \* rollback.sh: where it is, its two images and its stage

deploymentVars == <<updaterVars, archive, backup, rollback>>

NoBackup == [at |-> "idle", wasRunning |-> FALSE]
NoRollback == [at |-> "idle", target |-> 1, candidate |-> 1, stage |-> Null]

DeploymentInit ==
    /\ UpdaterInit
    /\ archive = Null
    /\ backup = NoBackup
    /\ rollback = NoRollback

\* The operator waits for one script before starting another.
NoUpdate == \A u \in Updaters : At(u, "idle")
NoOther == backup.at = "idle" /\ rollback.at = "idle"
OnlyScript == Overlap \/ (NoUpdate /\ NoOther)

-----------------------------------------------------------------------------
\* backup.sh

\* compose ps and docker inspect find a running container, which is stopped, or
\* cannot be; or none runs, or one of the two failed, which looks the same.
BackupStop ==
    /\ OnlyScript /\ backup.at = "idle" /\ live # Null
    /\ \/ /\ container.running
          /\ \/ backup' = [at |-> "archive", wasRunning |-> TRUE] /\ Stop
             \/ /\ backup' = [at |-> "restart", wasRunning |-> TRUE]
                /\ Stop \/ UNCHANGED container
       \/ /\ backup' = [at |-> "archive", wasRunning |-> FALSE]
          /\ UNCHANGED container
    /\ UNCHANGED <<lock, run, override, live, kept, written, archive, rollback>>

\* tar, and the rename that makes the archive visible; or neither.
BackupArchive ==
    /\ backup.at = "archive" /\ live # Null
    /\ archive' \in {archive, [live EXCEPT !.whole = @ /\ ~InUse]}
    /\ backup' = [backup EXCEPT !.at = "restart"]
    /\ UNCHANGED <<updaterVars, rollback>>

\* The trap on EXIT; it may fail, and a killed script has none.
BackupRestart ==
    /\ backup.at = "restart"
    /\ backup' = NoBackup
    /\ \/ backup.wasRunning /\ Start(container.image)
       \/ UNCHANGED <<container, live>>
    /\ UNCHANGED <<lock, run, override, kept, written, archive, rollback>>

-----------------------------------------------------------------------------
\* rollback.sh

\* docs/rollback.md: for a failed upgrade, with an archive from before it that was
\* taken with KeyPage stopped.  All this is the operator's word: of the archive the
\* script checks only that it can be unpacked, and of the candidate, which is the
\* checkout's HEAD and may be ahead of the image, that it descends from the target.
ByTheRunbook(target, candidate) ==
    /\ archive.whole /\ archive.schema <= target
    /\ target <= override /\ override <= candidate

\* Everything that can be checked is checked, and the archive staged, before the
\* container is touched.
RollbackStage(target, candidate) ==
    /\ OnlyScript /\ rollback.at = "idle"
    /\ target <= candidate
    /\ archive # Null /\ ByTheRunbook(target, candidate)
    /\ rollback' = [at |-> "down", target |-> target, candidate |-> candidate,
                    stage |-> archive]
    /\ UNCHANGED <<updaterVars, archive, backup>>

RollbackDown ==
    /\ rollback.at = "down"
    /\ Stop
    /\ rollback' = [rollback EXCEPT !.at = "aside"]
    /\ UNCHANGED <<lock, run, override, live, kept, written, archive, backup>>

RollbackAside ==
    /\ rollback.at = "aside"
    /\ PutAside
    /\ rollback' = [rollback EXCEPT !.at = "install"]
    /\ UNCHANGED <<lock, run, override, written, archive, backup>>

RollbackInstall ==
    /\ rollback.at = "install"
    /\ IF live = Null
       THEN live' = rollback.stage /\ UNCHANGED kept
       ELSE kept' = kept \cup {rollback.stage} /\ UNCHANGED live
    /\ rollback' = [rollback EXCEPT !.at = "start", !.stage = Null]
    /\ UNCHANGED <<lock, run, container, override, written, archive, backup>>

\* start_revision: of the target, or of the candidate when that is the recovery.  As
\* the condition of an if, it goes on when write_image_override fails: compose up
\* then starts what the old override names.
StartRevision(from, image, next, otherwise) ==
    /\ rollback.at = from
    /\ override' \in {override, image}
    /\ \/ /\ Start(override')
          /\ rollback' = [rollback EXCEPT !.at = next]
       \/ /\ StartFails(override')
          /\ rollback' = [rollback EXCEPT !.at = otherwise]
          /\ UNCHANGED live
    /\ UNCHANGED <<lock, run, kept, written, archive, backup>>

RollbackStart == StartRevision("start", rollback.target, "probe", "recover")

RollbackHealthy ==
    /\ rollback.at = "probe" /\ Healthy
    /\ rollback' = [rollback EXCEPT !.at = "healthy"]
    /\ UNCHANGED <<updaterVars, archive, backup>>

RollbackUnhealthy ==
    /\ rollback.at = "probe"
    /\ rollback' = [rollback EXCEPT !.at = "recover"]
    /\ UNCHANGED <<updaterVars, archive, backup>>

\* forward_recover: compose down || true.
ForwardDown ==
    /\ rollback.at = "recover"
    /\ Stop \/ UNCHANGED container
    /\ rollback' = [rollback EXCEPT !.at = "forward"]
    /\ UNCHANGED <<lock, run, override, live, kept, written, archive, backup>>

ForwardStart == StartRevision("forward", rollback.candidate, "over", "over")

\* The last command, set -e, a signal or a kill, at any place; the trap, if it runs,
\* removes the stage.
RollbackEnds ==
    /\ rollback.at # "idle"
    /\ rollback' = NoRollback
    /\ UNCHANGED <<updaterVars, archive, backup>>

-----------------------------------------------------------------------------
Update ==
    /\ UpdaterNext
    /\ \A u \in Updaters : At(u, "idle") /\ run'[u] # run[u] => Overlap \/ NoOther
    /\ UNCHANGED <<archive, backup, rollback>>

Next ==
    \/ Update
    \/ BackupStop \/ BackupArchive \/ BackupRestart
    \/ \E target, candidate \in Images : RollbackStage(target, candidate)
    \/ RollbackDown \/ RollbackAside \/ RollbackInstall \/ RollbackStart
    \/ RollbackHealthy \/ RollbackUnhealthy \/ ForwardDown \/ ForwardStart
    \/ RollbackEnds

Spec == DeploymentInit /\ [][Next]_deploymentVars

-----------------------------------------------------------------------------
\* Every variable has its type.
TypeOK ==
    /\ UpdaterTypeOK
    /\ archive \in Data \cup {Null}
    /\ backup \in [at : {"idle", "archive", "restart"}, wasRunning : BOOLEAN]
    /\ rollback \in
         [at : {"idle", "down", "aside", "install", "start", "probe", "recover",
                "forward", "over", "healthy"},
          target : Images, candidate : Images, stage : Data \cup {Null}]

\* What update.sh and rollback.sh go back to is a whole copy of the data of a stopped
\* server, and the image that is started on it is not older than it.
CopiesMatch ==
    /\ SnapshotMatches
    /\ rollback.at = "start" =>
           live # Null /\ live.whole /\ live.schema <= rollback.target

\* backup.sh: "Create a consistent, encrypted-vault data backup".  A failing look-up
\* refutes it (README).
ArchiveWhole == archive # Null => archive.whole

\* "rollback: healthy target=...": the image that was found healthy is the target's.  A
\* failing selection refutes it (README).
HealthyTarget == rollback.at = "healthy" => container.image = rollback.target
=============================================================================
