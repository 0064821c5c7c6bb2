------------------------------ MODULE Updater ------------------------------
(***************************************************************************)
(* scripts/update.sh: replacing the image of an installation that is in    *)
(* use, with a data snapshot to go back to.  Each updater is a run of the  *)
(* script, one action per command whose failure or interruption matters;   *)
(* the container, the override file and the directories are what the runs  *)
(* share.  A data directory is a record: the schema of the newest image    *)
(* that opened it, the number of the last write in it, and whether it is   *)
(* a whole copy.                                                           *)
(***************************************************************************)
EXTENDS Integers, FiniteSets

CONSTANTS
    Updaters,    \* runs of the script that may overlap in time
    MaxImage,    \* images are numbered by age, image i has schema i
    MaxWrites,   \* bound on the writes of the vault's users
    MaxProbes,   \* KEYPAGE_HEALTH_ATTEMPTS
    MaxSignals,  \* bound on the interrupts of one run
    Overlap,     \* a second run may start in the two gaps of Quiet
    Downgrades,  \* an update may name an image older than the selected one
    Null

ASSUME UpdaterAssumption ==
    /\ MaxImage \in Nat \ {0} /\ MaxWrites \in Nat
    /\ MaxProbes \in Nat \ {0} /\ MaxSignals \in Nat
    /\ Overlap \in BOOLEAN /\ Downgrades \in BOOLEAN
    /\ Null \notin Nat \cup [schema : Nat, rev : Nat, whole : BOOLEAN]

Images == 1..MaxImage
Data == [schema : 0..MaxImage, rev : 0..MaxWrites, whole : BOOLEAN]
Blank == [schema |-> 0, rev |-> 0, whole |-> TRUE]

VARIABLES
    lock,       \* the directory .keypage/update.lock exists
    run,        \* per updater, where it is and the script's variables
    container,  \* its image, whether it runs, and the directory it works on
                \* when that was moved away under it (Null: it is data)
    override,   \* the image that docker-compose.override.yml names
    live,       \* the directory data, or Null
    kept,       \* what the directories put aside have held: snapshots, failed data
    written     \* the number of the last write a user saw accepted

hostVars == <<container, override, live, kept, written>>
updaterVars == <<lock, run, hostVars>>

Restoring == {"r_stop", "r_stage", "r_aside", "r_install", "r_select", "r_up", "r_probe"}
Trapped == Restoring \cup
    {"locked", "stop", "snapshot", "select", "up", "probe", "state", "s_restart", "s_unlock"}
Places == Trapped \cup {"idle", "prepared", "exit", "s_exit"}

Runs == [at : Places, candidate : Images, old : Images \cup {Null},
         snapshot : Data \cup {Null}, stage : Data \cup {Null},
         rollbackReady : BOOLEAN, oldStopStarted : BOOLEAN,
         cutoverStarted : BOOLEAN, containerStarted : BOOLEAN,
         interrupted : BOOLEAN, hurt : BOOLEAN,
         probes : 0..MaxProbes, signals : 0..MaxSignals]

\* A run that has not begun, or is over.
Fresh == [at |-> "idle", candidate |-> 1, old |-> Null, snapshot |-> Null, stage |-> Null,
          rollbackReady |-> FALSE, oldStopStarted |-> FALSE, cutoverStarted |-> FALSE,
          containerStarted |-> FALSE, interrupted |-> FALSE, hurt |-> FALSE,
          probes |-> 0, signals |-> 0]

UpdaterInit ==
    /\ lock = FALSE
    /\ run = [u \in Updaters |-> Fresh]
    /\ container = [image |-> 1, running |-> TRUE, moved |-> Null]
    /\ override = 1
    /\ live = [schema |-> 1, rev |-> 0, whole |-> TRUE]
    /\ kept = {}
    /\ written = 0

At(u, place) == run[u].at = place
Goto(u, place) == run' = [run EXCEPT ![u].at = place]
\* set -e, or a failure the script reports: what was done so far stays.
Fail(u, place) == run' = [run EXCEPT ![u].at = place, ![u].hurt = TRUE]

\* The data that the bind mount of the container refers to.
Mounted == IF container.moved = Null THEN live ELSE container.moved
InUse == container.running /\ container.moved = Null

\* compose up or start: a container made or started mounts what is now data, and
\* makes it when it is missing; one that runs as configured is left alone.
Start(image) ==
    \/ /\ container.running /\ container.image = image
       /\ UNCHANGED <<container, live>>
    \/ /\ container' = [image |-> image, running |-> TRUE, moved |-> Null]
       /\ live' = IF live = Null THEN Blank ELSE live
Stop == container' = [container EXCEPT !.running = FALSE, !.moved = Null]

\* compose up exits with an error, before or after it replaced the container.
StartFails(image) ==
    \/ UNCHANGED container
    \/ \E made \in {container.image, image} :
         container' = [image |-> made, running |-> FALSE, moved |-> Null]

\* mv of data: the mount of a running container goes with the directory.
PutAside ==
    /\ live' = Null
    /\ kept' = kept \cup ({live} \ {Null})
    /\ container' = IF InUse THEN [container EXCEPT !.moved = live] ELSE container

-----------------------------------------------------------------------------
\* The server in the container: migrations first, then the users' writes.

Healthy ==
    container.running /\ Mounted # Null /\ Mounted.schema >= container.image

Modify(data) ==
    IF container.moved = Null
    THEN live' = data /\ UNCHANGED <<container, kept>>
    ELSE /\ container' = [container EXCEPT !.moved = data]
         /\ kept' = kept \cup {data}
         /\ UNCHANGED live

\* A database of a newer schema is taken as it is.
Migrate ==
    /\ container.running /\ Mounted # Null
    /\ Mounted.schema < container.image
    /\ Modify([Mounted EXCEPT !.schema = container.image])
    /\ UNCHANGED <<lock, run, override, written>>

Write ==
    /\ Healthy /\ written < MaxWrites
    /\ written' = written + 1
    /\ Modify([Mounted EXCEPT !.rev = written + 1])
    /\ UNCHANGED <<lock, run, override>>

-----------------------------------------------------------------------------
\* From the start of the script to the cut-over.

OlderThanInstalled(image) == image < override \/ image < container.image

\* Nothing keeps a second run out of two gaps of the first: while a restore has
\* moved data away and not yet installed the snapshot, and between the two
\* removals of the lock after a signal.  Nor does the script look again, once it
\* has the lock, whether the release it fetched before is still the newest.
Quiet(u) ==
    Overlap \/ /\ \A v \in Updaters \ {u} : run[v].at \notin {"r_install", "s_exit"}
               /\ At(u, "prepared") /\ ~Downgrades => ~OlderThanInstalled(run[u].candidate)

\* The candidate is the image of KEYPAGE_REF, by default the newest release, or
\* KEYPAGE_IMAGE: the script does not ask which of the two images is older, so
\* only an operator who names an older one, or goes from main back to a release,
\* takes a Downgrade.  mkdir -p data comes before the lock.
Prepare(u) ==
    /\ At(u, "idle") /\ Quiet(u)
    /\ live' = IF live = Null THEN Blank ELSE live
    /\ \E image \in Images :
         /\ OlderThanInstalled(image) => Downgrades
         /\ run' = [run EXCEPT ![u] = [Fresh EXCEPT !.at = "prepared", !.candidate = image]]
    /\ UNCHANGED <<lock, container, override, kept, written>>

\* Fault: the trap that removes the lock is set before the lock is taken.
TakeLockTrapped(u) ==
    /\ At(u, "prepared") /\ Quiet(u)
    /\ lock' = TRUE
    /\ Goto(u, IF lock THEN "exit" ELSE "locked")
    /\ UNCHANGED hostVars

TakeLock(u) ==
    /\ At(u, "prepared") /\ Quiet(u)
    /\ lock' = TRUE
    /\ IF lock THEN run' = [run EXCEPT ![u] = Fresh] ELSE Goto(u, "locked")
    /\ UNCHANGED hostVars

\* The pull, an inspection of the image, the tag or the snapshot directory fails.
Refuse(u) ==
    /\ At(u, "locked")
    /\ Goto(u, "exit")
    /\ UNCHANGED <<lock, hostVars>>

AlreadyCurrent(u) ==
    /\ At(u, "locked")
    /\ container.running /\ container.image = run[u].candidate
    /\ override' = run[u].candidate
    /\ Goto(u, "probe")
    /\ UNCHANGED <<lock, container, live, kept, written>>

\* Fault: the old image is tagged, and its tag not kept.
CutoverUntagged(u) ==
    /\ At(u, "locked")
    /\ container.running => container.image # run[u].candidate
    /\ run' = [run EXCEPT ![u].at = IF container.running THEN "stop" ELSE "select",
                          ![u].oldStopStarted = container.running]
    /\ UNCHANGED <<lock, hostVars>>

\* compose ps and docker inspect name the image of a running container: it can be
\* rolled back to.  None runs, or one of the two failed, which looks the same:
\* nothing is stopped and no snapshot taken.
Cutover(u) ==
    /\ At(u, "locked")
    /\ \/ /\ container.running /\ container.image # run[u].candidate
          /\ run' = [run EXCEPT ![u].at = "stop", ![u].old = container.image,
                                ![u].oldStopStarted = TRUE]
       \/ Goto(u, "select")
    /\ UNCHANGED <<lock, hostVars>>

\* Fault: the data of the running container is copied.
StopOldLater(u) ==
    /\ At(u, "stop")
    /\ run' = [run EXCEPT ![u].at = "snapshot", ![u].cutoverStarted = TRUE]
    /\ UNCHANGED <<lock, hostVars>>

StopOld(u) ==
    /\ At(u, "stop")
    /\ \/ run' = [run EXCEPT ![u].at = "snapshot", ![u].cutoverStarted = TRUE] /\ Stop
       \/ Fail(u, "exit") /\ (Stop \/ UNCHANGED container)
    /\ UNCHANGED <<lock, override, live, kept, written>>

\* cp -a of the data of a stopped container; of a running one it is torn.
TakeSnapshot(u) ==
    /\ At(u, "snapshot") /\ live # Null
    /\ LET copy == [live EXCEPT !.whole = @ /\ ~InUse] IN
         /\ run' = [run EXCEPT ![u].at = "select", ![u].snapshot = copy,
                               ![u].rollbackReady = TRUE]
         /\ kept' = kept \cup {copy}
    /\ UNCHANGED <<lock, container, override, live, written>>

SnapshotFails(u) ==
    /\ At(u, "snapshot")
    /\ run' = [run EXCEPT ![u].at = "exit", ![u].oldStopStarted = FALSE,
                          ![u].cutoverStarted = FALSE, ![u].hurt = TRUE]
    /\ Start(container.image) \/ UNCHANGED <<container, live>>
    /\ UNCHANGED <<lock, override, kept, written>>

Select(u) ==
    /\ At(u, "select")
    /\ \/ Goto(u, "up") /\ override' = run[u].candidate
       \/ Fail(u, "exit") /\ UNCHANGED override
    /\ UNCHANGED <<lock, container, live, kept, written>>

Up(u) ==
    /\ At(u, "up")
    /\ Start(override)
    /\ run' = [run EXCEPT ![u].at = "probe", ![u].containerStarted = TRUE]
    /\ UNCHANGED <<lock, override, kept, written>>

\* Fault: a container that does not start ends the script.
UpFailsForGood(u) ==
    /\ At(u, "up")
    /\ Goto(u, "exit")
    /\ StartFails(override)
    /\ UNCHANGED <<lock, override, live, kept, written>>

UpFails(u) ==
    /\ At(u, "up")
    /\ Goto(u, IF run[u].rollbackReady THEN "r_stop" ELSE "exit")
    /\ StartFails(override)
    /\ UNCHANGED <<lock, override, live, kept, written>>

-----------------------------------------------------------------------------
\* keypage_wait_for_health: a miss may be the path's fault, not the server's.

ProbeMisses(u) ==
    /\ run[u].at \in {"probe", "r_probe"}
    /\ run[u].probes < MaxProbes
    /\ run' = [run EXCEPT ![u].probes = @ + 1]
    /\ UNCHANGED <<lock, hostVars>>

ProbeAnswers(u) ==
    /\ At(u, "probe") /\ run[u].probes < MaxProbes /\ Healthy
    /\ run' = [run EXCEPT ![u].at = "state", ![u].cutoverStarted = FALSE]
    /\ UNCHANGED <<lock, hostVars>>

\* Only what this run started is stopped.
GiveUp(u) ==
    /\ At(u, "probe") /\ run[u].probes = MaxProbes
    /\ Goto(u, IF run[u].cutoverStarted THEN "r_stop" ELSE "exit")
    /\ IF ~run[u].cutoverStarted /\ run[u].containerStarted
       THEN Stop \/ UNCHANGED container
       ELSE UNCHANGED container
    /\ UNCHANGED <<lock, override, live, kept, written>>

WriteState(u) ==
    /\ At(u, "state")
    /\ Goto(u, "exit")
    /\ UNCHANGED <<lock, hostVars>>

-----------------------------------------------------------------------------
\* restore_previous: stage the snapshot, move the data aside, install the stage.

\* return: to the handler of the signal, or to the fail that ends the script.
After(u) == IF run[u].interrupted THEN "s_unlock" ELSE "exit"

\* compose stop || true: the restore goes on when nothing was stopped.
RestoreStop(u) ==
    /\ At(u, "r_stop")
    /\ Stop \/ UNCHANGED container
    /\ Goto(u, "r_stage")
    /\ UNCHANGED <<lock, override, live, kept, written>>

\* Fault: a snapshot that cannot be copied leaves the data as it is, and the old
\* image is started on it.
StageOrSkip(u) ==
    /\ At(u, "r_stage")
    /\ \/ run' = [run EXCEPT ![u].at = "r_aside", ![u].stage = run[u].snapshot]
       \/ Goto(u, "r_select")
    /\ UNCHANGED <<lock, hostVars>>

StageSnapshot(u) ==
    /\ At(u, "r_stage")
    /\ \/ run' = [run EXCEPT ![u].at = "r_aside", ![u].stage = run[u].snapshot]
       \/ Fail(u, After(u))
    /\ UNCHANGED <<lock, hostVars>>

\* Fault: rm -rf data.
RemoveLive(u) ==
    /\ At(u, "r_aside")
    /\ Goto(u, "r_install")
    /\ live' = Null
    /\ UNCHANGED <<lock, container, override, kept, written>>

MoveAside(u) ==
    /\ At(u, "r_aside")
    /\ Goto(u, "r_install")
    /\ PutAside
    /\ UNCHANGED <<lock, override, written>>

MoveAsideFails(u) ==
    /\ At(u, "r_aside") /\ live # Null
    /\ run' = [run EXCEPT ![u].at = After(u), ![u].stage = Null, ![u].hurt = TRUE]
    /\ UNCHANGED <<lock, hostVars>>

\* mv of a directory onto one that exists puts it inside.
InstallStage(u) ==
    /\ At(u, "r_install")
    /\ run' = [run EXCEPT ![u].at = "r_select", ![u].stage = Null]
    /\ IF live = Null
       THEN live' = run[u].stage /\ UNCHANGED kept
       ELSE kept' = kept \cup {run[u].stage} /\ UNCHANGED live
    /\ UNCHANGED <<lock, container, override, written>>

InstallFails(u) ==
    /\ At(u, "r_install")
    /\ Fail(u, After(u))
    /\ UNCHANGED <<lock, hostVars>>

RestoreSelect(u) ==
    /\ At(u, "r_select")
    /\ \/ Goto(u, "r_up") /\ override' = run[u].old
       \/ Fail(u, After(u)) /\ UNCHANGED override
    /\ UNCHANGED <<lock, container, live, kept, written>>

RestoreUp(u) ==
    /\ At(u, "r_up")
    /\ \/ /\ Start(override)
          /\ run' = [run EXCEPT ![u].at = "r_probe", ![u].probes = 0,
                                ![u].containerStarted = TRUE]
       \/ /\ Fail(u, After(u))
          /\ StartFails(override)
          /\ UNCHANGED live
    /\ UNCHANGED <<lock, override, kept, written>>

RestoreAnswers(u) ==
    /\ At(u, "r_probe") /\ run[u].probes < MaxProbes /\ Healthy
    /\ run' = [run EXCEPT ![u].at = After(u), ![u].oldStopStarted = FALSE,
                          ![u].cutoverStarted = FALSE]
    /\ UNCHANGED <<lock, hostVars>>

RestoreGivesUp(u) ==
    /\ At(u, "r_probe") /\ run[u].probes = MaxProbes
    /\ Goto(u, After(u))
    /\ UNCHANGED <<lock, hostVars>>

-----------------------------------------------------------------------------
\* Signals and the end of a run.

\* on_signal, also in the middle of a restore and after the new image is healthy.
Interrupt(u) ==
    /\ run[u].at \in Trapped /\ run[u].signals < MaxSignals
    /\ run' = [run EXCEPT ![u].at = IF run[u].rollbackReady THEN "r_stop"
                                    ELSE IF run[u].oldStopStarted THEN "s_restart"
                                    ELSE "s_unlock",
                          ![u].interrupted = TRUE, ![u].hurt = TRUE,
                          ![u].signals = @ + 1]
    /\ UNCHANGED <<lock, hostVars>>

RestartOld(u) ==
    /\ At(u, "s_restart")
    /\ Goto(u, "s_unlock")
    /\ Start(container.image) \/ UNCHANGED <<container, live>>
    /\ UNCHANGED <<lock, override, kept, written>>

\* cleanup_lock in the handler; the trap on EXIT then calls it again.
HandlerUnlock(u) ==
    /\ At(u, "s_unlock")
    /\ lock' = FALSE
    /\ Goto(u, "s_exit")
    /\ UNCHANGED hostVars

Exit(u) ==
    /\ run[u].at \in {"exit", "s_exit"}
    /\ lock' = FALSE
    /\ run' = [run EXCEPT ![u] = Fresh]
    /\ UNCHANGED hostVars

\* SIGKILL or a power cut: no trap runs, the lock and the stage stay.
Kill(u) ==
    /\ ~At(u, "idle")
    /\ run' = [run EXCEPT ![u] = Fresh]
    /\ kept' = IF run[u].stage = Null THEN kept ELSE kept \cup {run[u].stage}
    /\ UNCHANGED <<lock, container, override, live, written>>

\* The operator removes the lock that a killed run has left.
RemoveStaleLock ==
    /\ lock /\ \A u \in Updaters : At(u, "idle")
    /\ lock' = FALSE
    /\ UNCHANGED <<run, hostVars>>

-----------------------------------------------------------------------------
Proceed(u) ==
    \/ TakeLock(u) \/ Refuse(u) \/ AlreadyCurrent(u) \/ Cutover(u) \/ StopOld(u)
    \/ TakeSnapshot(u) \/ SnapshotFails(u) \/ Select(u) \/ Up(u) \/ UpFails(u)
    \/ ProbeMisses(u) \/ ProbeAnswers(u) \/ GiveUp(u) \/ WriteState(u)
    \/ RestoreStop(u) \/ StageSnapshot(u) \/ MoveAside(u) \/ MoveAsideFails(u)
    \/ InstallStage(u) \/ InstallFails(u) \/ RestoreSelect(u) \/ RestoreUp(u)
    \/ RestoreAnswers(u) \/ RestoreGivesUp(u) \/ RestartOld(u)
    \/ HandlerUnlock(u) \/ Exit(u)

UpdaterNext ==
    \/ Migrate \/ Write \/ RemoveStaleLock
    \/ \E u \in Updaters : Prepare(u) \/ Proceed(u) \/ Interrupt(u) \/ Kill(u)

UpdaterSpec == UpdaterInit /\ [][UpdaterNext]_updaterVars

-----------------------------------------------------------------------------
\* Every variable has its type.
UpdaterTypeOK ==
    /\ lock \in BOOLEAN
    /\ run \in [Updaters -> Runs]
    /\ container \in [image : Images, running : BOOLEAN, moved : Data \cup {Null}]
    /\ override \in Images
    /\ live \in Data \cup {Null}
    /\ kept \subseteq Data
    /\ written \in 0..MaxWrites

\* update.sh never deletes vault data: the last write that a user saw accepted is
\* in the live directory or in a whole copy that was put aside, wherever a run
\* was interrupted, failed or was killed, and also when a container went on
\* working on a directory that was moved away under it.
DataKept ==
    \E d \in kept \cup ({live} \ {Null}) : d.whole /\ d.rev = written

\* docs/rollback.md: never run an older binary against data already opened by a
\* newer schema.
OldNeverOpensNew ==
    container.running => container.image >= Mounted.schema

\* "the previous healthy version and matching data were restored": the snapshot that
\* a run can go back to is whole, has what users had written when the old container
\* stopped, and was never opened by a newer image; what a restore starts is the old
\* image on that snapshot.
SnapshotMatches ==
    \A u \in Updaters : run[u].rollbackReady =>
        /\ run[u].snapshot.whole
        /\ run[u].snapshot.schema <= run[u].old
        /\ run[u].at \in {"select", "up", "r_up"} => live = run[u].snapshot
        /\ At(u, "r_up") => override = run[u].old

\* The repository's README: "The updater snapshots the stopped data directory", and
\* when health does not come back it restores the previous image and that snapshot.
\* So what still runs when a run is about to start its image is of no use any more:
\* there is a snapshot to go back to.  A failing look-up refutes it (README).
SnapshotBeforeUp ==
    \A u \in Updaters : At(u, "up") /\ container.running => run[u].rollbackReady

\* README: if startup or health validation fails, the updater restores the previous
\* image.  A run that stopped a container and then met no failing command of its own
\* and no signal ends with a container that runs.
ServiceComesBack ==
    \A u \in Updaters :
        At(u, "exit") /\ run[u].old # Null /\ ~run[u].hurt => container.running

\* "another KeyPage update is already running": one run at a time works on the
\* installation, and holds the lock while it does.
OneUpdateAtATime ==
    \A u, v \in Updaters :
        run[u].at \in Trapped => lock /\ (run[v].at \in Trapped => u = v)
=============================================================================
