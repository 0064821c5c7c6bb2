-------------------------- MODULE DeploymentProofs --------------------------
(***************************************************************************)
(* Theorems about Deployment, for any number of runs of the updater, any   *)
(* images, writes, probes and signals: as long as one script at a time     *)
(* works in the gaps that the update lock leaves, the last accepted write  *)
(* is never lost and an update that nothing disturbed leaves a container   *)
(* that runs.  An old image never opens newer data when, besides, no       *)
(* update is told to install one (~Downgrades).                            *)
(***************************************************************************)
EXTENDS Deployment, TLAPS

(* The places where a run has the installation to itself.                  *)
Works(u) == run[u].at \notin {"idle", "prepared"}

OneWorks ==
  /\ \A u \in Updaters : Works(u) => lock \/ At(u, "s_exit")
  /\ \A u, v \in Updaters : Works(u) /\ Works(v) => u = v

OneScript ==
  /\ backup.at # "idle" => NoUpdate /\ rollback.at = "idle"
  /\ rollback.at # "idle" => NoUpdate

(* Data no newer than an image that a script may start on it, nor than the *)
(* image that works on it: lost with the first downgrade.                  *)
HostAges ==
  /\ live # Null => live.schema <= override \/ live.schema <= container.image
  /\ container.running /\ live # Null => live.schema <= container.image
  /\ container.moved # Null => container.moved.schema <= container.image

(* What every script finds: whole data, also where a container goes on     *)
(* working on a directory that was moved away under it.                    *)
HostInv ==
  /\ live # Null => live.whole
  /\ container.running /\ container.moved = Null => live # Null
  /\ container.moved # Null => container.running /\ container.moved.whole
  /\ ~Downgrades => HostAges

BackupInv ==
  ~Downgrades /\ backup.at # "idle" /\ backup.wasRunning /\ live # Null =>
    live.schema <= container.image

(* The operator chose an archive, a target and a candidate by the runbook. *)
RollbackInv ==
  /\ rollback.at \in {"down", "aside", "install", "start"} =>
       rollback.target <= override
  /\ rollback.at \in {"down", "aside", "install", "start", "probe", "recover", "forward"} =>
       override <= rollback.candidate
  /\ rollback.at \in {"down", "aside", "install"} =>
       rollback.stage # Null /\ rollback.stage.whole
         /\ rollback.stage.schema <= rollback.target
  /\ rollback.at \in {"aside", "install", "start"} => ~container.running
  /\ rollback.at = "install" => live = Null
  /\ rollback.at = "start" =>
       live # Null /\ live.whole /\ live.schema <= rollback.target
  /\ rollback.at \in {"probe", "recover", "forward"} =>
       /\ container.running => container.image = override
       /\ container.moved = Null
       /\ live # Null => live.schema <= override

(* A run before its cut-over has touched nothing.                          *)
FreshRun(u) ==
  run[u].at \in {"idle", "prepared", "locked"} =>
    /\ ~run[u].rollbackReady /\ ~run[u].oldStopStarted /\ ~run[u].cutoverStarted
    /\ run[u].old = Null /\ ~run[u].interrupted

CutoverRun(u) ==
  /\ run[u].at \in {"stop", "snapshot"} =>
       run[u].old = container.image /\ ~run[u].rollbackReady /\ run[u].oldStopStarted
  /\ At(u, "snapshot") => ~container.running
  /\ run[u].at \in {"select", "up"} /\ run[u].rollbackReady => ~container.running
  /\ run[u].at \in {"select", "up", "probe"} /\ run[u].cutoverStarted =>
       run[u].rollbackReady
  /\ run[u].at \in {"select", "up"} /\ run[u].oldStopStarted =>
       run[u].rollbackReady
  /\ At(u, "s_restart") => run[u].oldStopStarted /\ ~run[u].rollbackReady

RestoreRun(u) ==
  /\ run[u].rollbackReady =>
       run[u].old # Null /\ run[u].snapshot # Null /\ run[u].snapshot.whole
  /\ run[u].at \in Restoring => run[u].rollbackReady
  /\ run[u].at \in {"r_aside", "r_install"} => run[u].stage = run[u].snapshot
  /\ run[u].at \in {"r_install", "r_select", "r_up"} /\ container.running =>
       container.moved # Null
  /\ At(u, "r_install") => live = Null
  /\ run[u].rollbackReady /\ run[u].at \in {"select", "up", "r_select", "r_up"} =>
       live = run[u].snapshot
  /\ At(u, "r_up") => override = run[u].old

(* A run that stopped a container and is not hurt is on its way to one     *)
(* that runs.                                                              *)
ServiceRun(u) ==
  run[u].old # Null /\ ~run[u].hurt =>
    /\ ~run[u].interrupted
    /\ run[u].at \notin {"s_restart", "s_unlock", "s_exit"}
    /\ run[u].at \in {"snapshot", "select", "up", "probe"} => run[u].cutoverStarted
    /\ run[u].at \in {"probe", "state", "r_probe", "exit"} => container.running

(* The candidate of a run is no older than what was selected and installed *)
(* before, and the image it can go back to no older than its snapshot.     *)
AgesRun(u) ==
  /\ run[u].at \in {"locked", "stop", "snapshot", "select", "up"} =>
       override <= run[u].candidate /\ container.image <= run[u].candidate
  /\ At(u, "up") => override = run[u].candidate
  /\ run[u].at \in Trapped /\ run[u].oldStopStarted /\ ~run[u].rollbackReady
       /\ live # Null => live.schema <= container.image
  /\ run[u].rollbackReady =>
       run[u].snapshot.schema <= run[u].old
  /\ run[u].rollbackReady /\ Works(u) => run[u].old <= container.image

RunInv(u) ==
  /\ FreshRun(u) /\ CutoverRun(u) /\ RestoreRun(u) /\ ServiceRun(u)
  /\ ~Downgrades => AgesRun(u)

ScriptsInv ==
  /\ OneWorks /\ OneScript
  /\ HostInv /\ BackupInv /\ RollbackInv
  /\ \A u \in Updaters : RunInv(u)

DeploymentInv == TypeOK /\ DataKept /\ ScriptsInv

-----------------------------------------------------------------------------
(* What a step of one run does                                             *)

(* Only the run u changes.                                                 *)
Moves(u) ==
  /\ run' \in [Updaters -> Runs]
  /\ \A v \in Updaters \ {u} : run'[v] = run[v]

(* It keeps what it found out, and what it is going to go back to.         *)
KeepsFinds(u) ==
  /\ run'[u].candidate = run[u].candidate
  /\ run'[u].old = run[u].old
  /\ run'[u].snapshot = run[u].snapshot
  /\ run'[u].rollbackReady = run[u].rollbackReady

KeepsFlags(u) ==
  /\ run'[u].oldStopStarted = run[u].oldStopStarted
  /\ run'[u].cutoverStarted = run[u].cutoverStarted
  /\ run'[u].interrupted = run[u].interrupted

Containers == [image : Images, running : BOOLEAN, moved : Data \cup {Null}]

HostTypes ==
  /\ lock \in BOOLEAN
  /\ container \in Containers
  /\ override \in Images
  /\ live \in Data \cup {Null}
  /\ kept \subseteq Data
  /\ written \in 0..MaxWrites

LEMMA NullIsNoData == Null \notin Data /\ Null \notin Images /\ Blank \in Data
  BY UpdaterAssumption DEF Data, Images, Blank

LEMMA GotoMoves ==
  ASSUME TypeOK, NEW u \in Updaters, NEW place \in Places, Goto(u, place)
  PROVE  /\ Moves(u) /\ KeepsFinds(u) /\ KeepsFlags(u)
         /\ run'[u].at = place /\ run'[u].hurt = run[u].hurt
         /\ run'[u].stage = run[u].stage
  <1> DEFINE new == [run[u] EXCEPT !.at = place]
  <1>1. run[u] \in Runs /\ run \in [Updaters -> Runs]
    BY DEF TypeOK, UpdaterTypeOK
  <1>2. new \in Runs
    BY <1>1 DEF Runs
  <1>3. run' = [run EXCEPT ![u] = new]
    BY DEF Goto
  <1>4. run' \in [Updaters -> Runs] /\ run'[u] = new
        /\ \A v \in Updaters \ {u} : run'[v] = run[v]
    BY <1>1, <1>2, <1>3
  <1>5. /\ new.at = place /\ new.hurt = run[u].hurt /\ new.stage = run[u].stage
        /\ new.candidate = run[u].candidate /\ new.old = run[u].old
        /\ new.snapshot = run[u].snapshot
        /\ new.rollbackReady = run[u].rollbackReady
        /\ new.oldStopStarted = run[u].oldStopStarted
        /\ new.cutoverStarted = run[u].cutoverStarted
        /\ new.interrupted = run[u].interrupted
    BY <1>1 DEF Runs
  <1> QED
    BY <1>4, <1>5 DEF Moves, KeepsFinds, KeepsFlags

LEMMA FailMoves ==
  ASSUME TypeOK, NEW u \in Updaters, NEW place \in Places, Fail(u, place)
  PROVE  /\ Moves(u) /\ KeepsFinds(u) /\ KeepsFlags(u)
         /\ run'[u].at = place /\ run'[u].hurt = TRUE
         /\ run'[u].stage = run[u].stage
  <1> DEFINE new == [run[u] EXCEPT !.at = place, !.hurt = TRUE]
  <1>1. run[u] \in Runs /\ run \in [Updaters -> Runs]
    BY DEF TypeOK, UpdaterTypeOK
  <1>2. new \in Runs
    BY <1>1 DEF Runs
  <1>3. run' = [run EXCEPT ![u] = new]
    BY DEF Fail
  <1>4. run' \in [Updaters -> Runs] /\ run'[u] = new
        /\ \A v \in Updaters \ {u} : run'[v] = run[v]
    BY <1>1, <1>2, <1>3
  <1>5. /\ new.at = place /\ new.hurt = TRUE /\ new.stage = run[u].stage
        /\ new.candidate = run[u].candidate /\ new.old = run[u].old
        /\ new.snapshot = run[u].snapshot
        /\ new.rollbackReady = run[u].rollbackReady
        /\ new.oldStopStarted = run[u].oldStopStarted
        /\ new.cutoverStarted = run[u].cutoverStarted
        /\ new.interrupted = run[u].interrupted
    BY <1>1 DEF Runs
  <1> QED
    BY <1>4, <1>5 DEF Moves, KeepsFinds, KeepsFlags

(* A run that is over, or was killed.                                      *)
LEMMA FreshMoves ==
  ASSUME TypeOK, NEW u \in Updaters, run' = [run EXCEPT ![u] = Fresh]
  PROVE  Moves(u) /\ run'[u] = Fresh /\ Fresh \in Runs
  <1>1. Fresh \in Runs
    BY UpdaterAssumption DEF Fresh, Runs, Places, Images
  <1> QED
    BY <1>1 DEF Moves, TypeOK, UpdaterTypeOK

-----------------------------------------------------------------------------
(* The parts of the invariant that a step of one run cannot disturb        *)

LEMMA WorksAlone ==
  ASSUME ScriptsInv, NEW u \in Updaters, Works(u)
  PROVE  /\ NoOther /\ ~At(u, "idle")
         /\ \A v \in Updaters \ {u} : ~Works(v)
         /\ RunInv(u)
  <1>1. ~At(u, "idle")
    BY DEF Works, At
  <1> QED
    BY <1>1 DEF ScriptsInv, OneScript, OneWorks, NoUpdate, NoOther

(* One run moves, the others wait, and no other script runs.               *)
LEMMA RunStep ==
  ASSUME DeploymentInv, NEW u \in Updaters, ~At(u, "idle"), Moves(u),
         \A v \in Updaters \ {u} : ~Works(v),
         UNCHANGED <<archive, backup, rollback>>,
         HostTypes', HostInv', DataKept', RunInv(u)',
         Works(u)' => lock' \/ At(u, "s_exit")'
  PROVE  DeploymentInv'
  <1>1. TypeOK'
    BY DEF DeploymentInv, TypeOK, UpdaterTypeOK, HostTypes, Containers, Moves
  <1>2. NoOther
    BY DEF DeploymentInv, ScriptsInv, OneScript, NoUpdate, NoOther
  <1>3. OneScript' /\ BackupInv' /\ RollbackInv'
    BY <1>2 DEF OneScript, BackupInv, RollbackInv, NoOther
  <1>4. \A v \in Updaters \ {u} : ~Works(v)' /\ RunInv(v)'
    <2> TAKE v \in Updaters \ {u}
    <2>1. ~Works(v)' /\ FreshRun(v)' /\ run'[v] \in Runs
      BY DEF Moves, Works, FreshRun, RunInv, DeploymentInv, ScriptsInv
    <2> QED
      BY <2>1 DEF Works, FreshRun, RunInv, CutoverRun, RestoreRun, ServiceRun, AgesRun, At,
                  Trapped, Restoring
  <1>5. OneWorks'
    BY <1>4 DEF OneWorks
  <1> QED
    BY <1>1, <1>3, <1>4, <1>5 DEF DeploymentInv, ScriptsInv

(* The same when the step leaves the installation alone.                   *)
LEMMA ScriptStep ==
  ASSUME DeploymentInv, NEW u \in Updaters, ~At(u, "idle"), Moves(u),
         \A v \in Updaters \ {u} : ~Works(v),
         UNCHANGED <<archive, backup, rollback, hostVars>>, lock' \in BOOLEAN,
         RunInv(u)', Works(u)' => lock' \/ At(u, "s_exit")'
  PROVE  DeploymentInv'
  <1>1. HostTypes' /\ HostInv' /\ DataKept'
    BY DEF DeploymentInv, ScriptsInv, TypeOK, UpdaterTypeOK, HostTypes, HostInv,
           HostAges, Containers, DataKept, hostVars
  <1> QED
    BY <1>1, RunStep

(* What was accepted last is where it was, or was put aside.               *)
LEMMA KeptStep ==
  ASSUME DataKept, kept \subseteq kept', written' = written,
         live' = live \/ live = Null \/ live \in kept'
  PROVE  DataKept'
  BY DEF DataKept

(* A run is over: the others find what they had found.                     *)
LEMMA QuitStep ==
  ASSUME DeploymentInv, NEW u \in Updaters, run' = [run EXCEPT ![u] = Fresh],
         UNCHANGED <<container, override, live, written, archive, backup, rollback>>,
         lock' \in BOOLEAN, lock' = lock \/ Works(u),
         kept \subseteq kept', kept' \subseteq Data
  PROVE  DeploymentInv'
  <1>1. Moves(u) /\ run'[u] = Fresh /\ Fresh \in Runs
    BY FreshMoves DEF DeploymentInv
  <1>2. TypeOK' /\ DataKept'
    BY <1>1 DEF DeploymentInv, TypeOK, UpdaterTypeOK, Moves, DataKept
  <1>3. RunInv(u)' /\ ~Works(u)' /\ At(u, "idle")'
    BY <1>1 DEF Fresh, Works, RunInv, FreshRun, CutoverRun, RestoreRun,
                ServiceRun, AgesRun, At, Trapped, Restoring
  <1>4. \A v \in Updaters \ {u} : RunInv(v)' /\ (Works(v)' <=> Works(v))
    BY <1>1 DEF Moves, DeploymentInv, ScriptsInv, Works, RunInv, FreshRun,
                CutoverRun, RestoreRun, ServiceRun, AgesRun, At
  <1>5. OneWorks'
    <2>1. CASE lock' = lock
      <3>1. \A v \in Updaters \ {u} : At(v, "s_exit")' <=> At(v, "s_exit")
        BY <1>1 DEF Moves, At
      <3> QED
        BY <2>1, <3>1, <1>3, <1>4 DEF DeploymentInv, ScriptsInv, OneWorks
    <2>2. CASE Works(u)
      <3>1. \A v \in Updaters : ~Works(v)'
        BY <2>2, <1>3, <1>4 DEF DeploymentInv, ScriptsInv, OneWorks
      <3> QED
        BY <3>1 DEF OneWorks
    <2> QED
      BY <2>1, <2>2
  <1>6. OneScript'
    BY <1>1, <1>3 DEF OneScript, NoUpdate, At, Moves, DeploymentInv, ScriptsInv
  <1>7. HostInv' /\ BackupInv' /\ RollbackInv'
    BY DEF DeploymentInv, ScriptsInv, HostInv, HostAges, BackupInv, RollbackInv
  <1> QED
    BY <1>2, <1>3, <1>4, <1>5, <1>6, <1>7 DEF DeploymentInv, ScriptsInv

-----------------------------------------------------------------------------
(* The steps of a run that leave the installation alone                    *)

LEMMA TakeLockStep ==
  ASSUME DeploymentInv, ~Overlap, NEW u \in Updaters, TakeLock(u),
         UNCHANGED <<archive, backup, rollback>>
  PROVE  DeploymentInv'
  <1>1. TypeOK /\ ScriptsInv /\ RunInv(u) /\ ~At(u, "idle")
    BY DEF DeploymentInv, ScriptsInv, TakeLock, At
  <1>2. /\ \A v \in Updaters \ {u} : run[v].at # "s_exit"
        /\ ~Downgrades => ~OlderThanInstalled(run[u].candidate)
        /\ lock' = TRUE /\ UNCHANGED hostVars
    BY DEF TakeLock, Quiet
  <1>3. CASE lock
    <2>1. lock' = lock /\ run' = [run EXCEPT ![u] = Fresh] /\ kept \subseteq Data
      BY <1>1, <1>2, <1>3 DEF TakeLock, TypeOK, UpdaterTypeOK
    <2> QED
      BY <1>2, <2>1, QuitStep DEF hostVars
  <1>4. CASE ~lock
    <2>1. /\ Moves(u) /\ KeepsFinds(u) /\ KeepsFlags(u)
          /\ run'[u].at = "locked" /\ run'[u].hurt = run[u].hurt
      BY <1>1, <1>4, GotoMoves DEF TakeLock, Places, Trapped
    <2>2. \A v \in Updaters \ {u} : ~Works(v)
      BY <1>1, <1>2, <1>4 DEF ScriptsInv, OneWorks, At
    <2>3. /\ override' = override /\ container' = container /\ live' = live
          /\ ~Downgrades => /\ override <= run[u].candidate
                            /\ container.image <= run[u].candidate
      BY <1>1, <1>2 DEF hostVars, TypeOK, UpdaterTypeOK, Runs, Images, OlderThanInstalled
    <2>4. RunInv(u)'
      BY <1>1, <2>1, <2>3 DEF TakeLock, KeepsFinds, KeepsFlags, RunInv, FreshRun,
         CutoverRun, RestoreRun, ServiceRun, AgesRun, At, Trapped, Restoring, Works
    <2> QED
      BY <1>1, <1>2, <2>1, <2>2, <2>4, ScriptStep
  <1> QED
    BY <1>3, <1>4

(* Where a run ends up, with nothing else changed.                         *)
LEMMA GotoStep ==
  ASSUME DeploymentInv, NEW u \in Updaters, Works(u), NEW place \in Places,
         Goto(u, place), place \notin {"idle", "prepared"},
         UNCHANGED <<archive, backup, rollback, lock, hostVars>>,
         ~At(u, "s_exit"), RunInv(u)'
  PROVE  DeploymentInv'
  <1>1. Moves(u)
    BY GotoMoves DEF DeploymentInv
  <1>2. lock \in BOOLEAN /\ lock
    BY DEF DeploymentInv, ScriptsInv, OneWorks, TypeOK, UpdaterTypeOK
  <1> QED
    BY <1>1, <1>2, WorksAlone, ScriptStep DEF DeploymentInv

LEMMA RefuseStep ==
  ASSUME DeploymentInv, NEW u \in Updaters, Refuse(u),
         UNCHANGED <<archive, backup, rollback>>
  PROVE  DeploymentInv'
  <1>1. TypeOK /\ Works(u) /\ ~At(u, "s_exit") /\ RunInv(u)
    BY DEF DeploymentInv, ScriptsInv, Refuse, At, Works
  <1>2. /\ Moves(u) /\ KeepsFinds(u) /\ KeepsFlags(u)
        /\ run'[u].at = "exit" /\ run'[u].hurt = run[u].hurt
    BY <1>1, GotoMoves DEF Refuse, Places
  <1>3. RunInv(u)'
    BY <1>1, <1>2 DEF Refuse, KeepsFinds, KeepsFlags, RunInv, FreshRun,
       CutoverRun, RestoreRun, ServiceRun, AgesRun, At, Trapped, Restoring, Works
  <1> QED
    BY <1>1, <1>3, GotoStep DEF Refuse, Places

(* A run whose record becomes new.                                         *)
LEMMA SetMoves ==
  ASSUME TypeOK, NEW u \in Updaters, NEW new \in Runs, run' = [run EXCEPT ![u] = new]
  PROVE  Moves(u) /\ run'[u] = new
  BY DEF Moves, TypeOK, UpdaterTypeOK

(* The same with the installation left alone.                              *)
LEMMA SetStep ==
  ASSUME DeploymentInv, NEW u \in Updaters, Works(u), ~At(u, "s_exit"),
         NEW new \in Runs, run' = [run EXCEPT ![u] = new],
         UNCHANGED <<archive, backup, rollback, lock, hostVars>>, RunInv(u)'
  PROVE  DeploymentInv'
  <1>1. Moves(u)
    BY SetMoves DEF DeploymentInv
  <1>2. lock \in BOOLEAN /\ lock
    BY DEF DeploymentInv, ScriptsInv, OneWorks, TypeOK, UpdaterTypeOK
  <1> QED
    BY <1>1, <1>2, WorksAlone, ScriptStep DEF DeploymentInv

LEMMA CutoverStep ==
  ASSUME DeploymentInv, NEW u \in Updaters, Cutover(u),
         UNCHANGED <<archive, backup, rollback>>
  PROVE  DeploymentInv'
  <1>1. /\ TypeOK /\ HostInv /\ Works(u) /\ ~At(u, "s_exit") /\ RunInv(u)
        /\ run[u] \in Runs /\ run[u].at = "locked" /\ container.image \in Images
    BY DEF DeploymentInv, ScriptsInv, TypeOK, UpdaterTypeOK, Cutover, At, Works
  <1>2. /\ UNCHANGED <<lock, hostVars>>
        /\ override' = override /\ container' = container /\ live' = live
    BY DEF Cutover, hostVars
  <1>3. CASE /\ container.running
             /\ run' = [run EXCEPT ![u].at = "stop", ![u].old = container.image,
                                   ![u].oldStopStarted = TRUE]
    <2> DEFINE new == [run[u] EXCEPT !.at = "stop", !.old = container.image,
                                     !.oldStopStarted = TRUE]
    <2>1. run' = [run EXCEPT ![u] = new]
      BY <1>3
    <2>2. new \in Runs
      BY <1>1 DEF Runs, Places, Trapped
    <2>3. /\ new.at = "stop" /\ new.candidate = run[u].candidate
          /\ new.old = container.image /\ new.oldStopStarted
          /\ new.rollbackReady = run[u].rollbackReady
          /\ new.cutoverStarted = run[u].cutoverStarted
          /\ new.interrupted = run[u].interrupted
      BY <1>1 DEF Runs
    <2>4. run'[u] = new
      BY <1>1, <2>1, <2>2, SetMoves
    <2>6. RunInv(u)'
      <3> HIDE DEF new
      <3> QED
        BY <1>1, <1>2, <1>3, <2>3, <2>4 DEF RunInv, HostInv, HostAges, FreshRun, CutoverRun,
           RestoreRun, ServiceRun, AgesRun, At, Trapped, Restoring, Works
    <2> QED
      BY <1>1, <1>2, <2>1, <2>2, <2>6, SetStep
  <1>4. CASE Goto(u, "select")
    <2>1. /\ Moves(u) /\ KeepsFinds(u) /\ KeepsFlags(u)
          /\ run'[u].at = "select"
      BY <1>1, <1>4, GotoMoves DEF Places, Trapped
    <2>3. RunInv(u)'
      BY <1>1, <1>2, <2>1 DEF KeepsFinds, KeepsFlags, RunInv, FreshRun,
         CutoverRun, RestoreRun, ServiceRun, AgesRun, At, Trapped, Restoring, Works
    <2> QED
      BY <1>1, <1>2, <1>4, <2>3, GotoStep DEF Places, Trapped
  <1> QED
    BY <1>3, <1>4 DEF Cutover

LEMMA ProbeStep ==
  ASSUME DeploymentInv, NEW u \in Updaters,
         ProbeMisses(u) \/ ProbeAnswers(u) \/ RestoreAnswers(u),
         UNCHANGED <<archive, backup, rollback>>
  PROVE  DeploymentInv'
  <1>1. /\ TypeOK /\ Works(u) /\ ~At(u, "s_exit") /\ RunInv(u)
        /\ run[u] \in Runs /\ run[u].at \in {"probe", "r_probe"}
    BY DEF DeploymentInv, ScriptsInv, TypeOK, UpdaterTypeOK, ProbeMisses,
           ProbeAnswers, RestoreAnswers, At, Works
  <1>2. /\ UNCHANGED <<lock, hostVars>>
        /\ container' = container /\ live' = live /\ override' = override
    BY DEF ProbeMisses, ProbeAnswers, RestoreAnswers, hostVars
  <1>3. CASE ProbeMisses(u)
    <2> DEFINE new == [run[u] EXCEPT !.probes = run[u].probes + 1]
    <2>1. run' = [run EXCEPT ![u] = new]
      BY <1>3 DEF ProbeMisses
    <2>2. new \in Runs
      BY <1>1, <1>3, UpdaterAssumption DEF Runs, ProbeMisses
    <2>3. /\ new.at = run[u].at /\ new.candidate = run[u].candidate
          /\ new.old = run[u].old /\ new.snapshot = run[u].snapshot
          /\ new.stage = run[u].stage
          /\ new.rollbackReady = run[u].rollbackReady
          /\ new.oldStopStarted = run[u].oldStopStarted
          /\ new.cutoverStarted = run[u].cutoverStarted
          /\ new.interrupted = run[u].interrupted /\ new.hurt = run[u].hurt
      BY <1>1 DEF Runs
    <2>4. run'[u] = new
      BY <1>1, <2>1, <2>2, SetMoves
    <2>5. RunInv(u)'
      <3> HIDE DEF new
      <3> QED
        BY <1>1, <1>2, <2>3, <2>4 DEF RunInv, FreshRun, CutoverRun,
           RestoreRun, ServiceRun, AgesRun, At, Trapped, Restoring, Works
    <2> QED
      BY <1>1, <1>2, <2>1, <2>2, <2>5, SetStep
  <1>4. CASE ProbeAnswers(u)
    <2> DEFINE new == [run[u] EXCEPT !.at = "state", !.cutoverStarted = FALSE]
    <2>1. run' = [run EXCEPT ![u] = new]
      BY <1>4 DEF ProbeAnswers
    <2>2. new \in Runs
      BY <1>1 DEF Runs, Places, Trapped
    <2>3. /\ new.at = "state"
          /\ new.old = run[u].old /\ new.snapshot = run[u].snapshot
          /\ new.rollbackReady = run[u].rollbackReady
          /\ new.oldStopStarted = run[u].oldStopStarted
          /\ new.interrupted = run[u].interrupted /\ new.hurt = run[u].hurt
      BY <1>1 DEF Runs
    <2>4. run'[u] = new /\ run[u].at = "probe" /\ container.running
      BY <1>1, <1>4, <2>1, <2>2, SetMoves DEF ProbeAnswers, Healthy, At
    <2>5. RunInv(u)'
      <3> HIDE DEF new
      <3>1. FreshRun(u)' /\ CutoverRun(u)'
        BY <1>1, <1>2, <2>3, <2>4 DEF RunInv, FreshRun, CutoverRun, At, Trapped
      <3>2. RestoreRun(u)'
        BY <1>1, <1>2, <2>3, <2>4 DEF RunInv, RestoreRun, At, Restoring, Works
      <3>3. ServiceRun(u)'
        BY <1>1, <1>2, <2>3, <2>4 DEF RunInv, ServiceRun
      <3>4. ~Downgrades => AgesRun(u)'
        BY <1>1, <1>2, <2>3, <2>4 DEF RunInv, AgesRun, At, Trapped, Works
      <3> QED
        BY <3>1, <3>2, <3>3, <3>4 DEF RunInv
    <2> QED
      BY <1>1, <1>2, <2>1, <2>2, <2>5, SetStep
  <1>5. CASE RestoreAnswers(u)
    <2> DEFINE new == [run[u] EXCEPT !.at = After(u), !.oldStopStarted = FALSE,
                                     !.cutoverStarted = FALSE]
    <2>1. run' = [run EXCEPT ![u] = new]
      BY <1>5 DEF RestoreAnswers
    <2>2. new \in Runs
      <3>1. After(u) \in Places
        BY DEF After, Places, Trapped
      <3> QED
        BY <1>1, <3>1 DEF Runs
    <2>3. /\ new.at = IF run[u].interrupted THEN "s_unlock" ELSE "exit"
          /\ new.old = run[u].old /\ new.snapshot = run[u].snapshot
          /\ new.rollbackReady = run[u].rollbackReady
          /\ ~new.oldStopStarted
          /\ new.interrupted = run[u].interrupted /\ new.hurt = run[u].hurt
      BY <1>1 DEF Runs, After
    <2>4. run'[u] = new /\ run[u].at = "r_probe" /\ container.running
      BY <1>1, <1>5, <2>1, <2>2, SetMoves DEF RestoreAnswers, Healthy, At
    <2>5. RunInv(u)'
      <3> HIDE DEF new
      <3> QED
        BY <1>1, <1>2, <2>3, <2>4 DEF RunInv, FreshRun, CutoverRun,
           RestoreRun, ServiceRun, AgesRun, At, Trapped, Restoring, Works
    <2> QED
      BY <1>1, <1>2, <2>1, <2>2, <2>5, SetStep
  <1> QED
    BY <1>3, <1>4, <1>5

LEMMA EndStep ==
  ASSUME DeploymentInv, NEW u \in Updaters, WriteState(u) \/ RestoreGivesUp(u),
         UNCHANGED <<archive, backup, rollback>>
  PROVE  DeploymentInv'
  <1>1. /\ TypeOK /\ Works(u) /\ ~At(u, "s_exit") /\ RunInv(u)
        /\ run[u] \in Runs
        /\ After(u) \in {"exit", "s_unlock"} /\ {"exit", "s_unlock"} \subseteq Places
    BY DEF DeploymentInv, ScriptsInv, TypeOK, UpdaterTypeOK, WriteState,
           RestoreGivesUp, At, Works, After, Places, Trapped
  <1>2. PICK place \in {"exit", "s_unlock"} :
          /\ Goto(u, place)
          /\ place = IF At(u, "state") THEN "exit" ELSE After(u)
    BY <1>1 DEF WriteState, RestoreGivesUp, At
  <1>3. /\ Moves(u) /\ KeepsFinds(u) /\ KeepsFlags(u)
        /\ run'[u].at = place /\ run'[u].hurt = run[u].hurt
    BY <1>1, <1>2, GotoMoves
  <1>4. /\ UNCHANGED <<lock, hostVars>>
        /\ container' = container /\ live' = live /\ override' = override
        /\ run[u].at \in {"state", "r_probe"}
    BY DEF WriteState, RestoreGivesUp, hostVars, At
  <1>5. RunInv(u)'
    BY <1>1, <1>2, <1>3, <1>4 DEF KeepsFinds, KeepsFlags, RunInv, FreshRun,
       CutoverRun, RestoreRun, ServiceRun, AgesRun, At, Trapped, Restoring, Works, After
  <1> QED
    BY <1>1, <1>2, <1>4, <1>5, GotoStep

(* A run that met a failing command has little left to keep.               *)
LEMMA FailedRun ==
  ASSUME NEW u \in Updaters, RunInv(u), KeepsFinds(u), run'[u].hurt = TRUE,
         run'[u].at \in {"exit", "s_unlock"},
         run'[u].at = "s_unlock" => run[u].rollbackReady,
         ~Downgrades /\ run[u].rollbackReady => run[u].old <= container'.image
  PROVE  RunInv(u)'
  BY DEF KeepsFinds, RunInv, FreshRun, CutoverRun, RestoreRun, ServiceRun, AgesRun, At,
         Trapped, Restoring, Works

LEMMA AfterPlaces ==
  ASSUME NEW u \in Updaters
  PROVE  After(u) \in {"exit", "s_unlock"} /\ {"exit", "s_unlock"} \subseteq Places
  BY DEF After, Places, Trapped

(* fail, in the middle of a restore.                                       *)
LEMMA RestoreFailsStep ==
  ASSUME DeploymentInv, NEW u \in Updaters,
         run[u].at \in Restoring, Fail(u, After(u)),
         UNCHANGED <<archive, backup, rollback, lock, hostVars>>
  PROVE  DeploymentInv'
  <1>1. /\ TypeOK /\ Works(u) /\ ~At(u, "s_exit") /\ RunInv(u) /\ lock /\ lock \in BOOLEAN
    BY DEF DeploymentInv, ScriptsInv, TypeOK, UpdaterTypeOK, OneWorks, Restoring, At, Works
  <1>2. /\ Moves(u) /\ KeepsFinds(u) /\ run'[u].hurt = TRUE
        /\ run'[u].at = After(u) /\ container' = container
    BY <1>1, FailMoves, AfterPlaces DEF hostVars
  <1>3. RunInv(u)'
    BY <1>1, <1>2, FailedRun, AfterPlaces DEF RunInv, RestoreRun, AgesRun
  <1> QED
    BY <1>1, <1>2, <1>3, WorksAlone, ScriptStep DEF DeploymentInv

LEMMA StageSnapshotStep ==
  ASSUME DeploymentInv, NEW u \in Updaters, StageSnapshot(u),
         UNCHANGED <<archive, backup, rollback>>
  PROVE  DeploymentInv'
  <1>1. /\ TypeOK /\ Works(u) /\ ~At(u, "s_exit") /\ RunInv(u)
        /\ run[u] \in Runs /\ run[u].at = "r_stage"
    BY DEF DeploymentInv, ScriptsInv, TypeOK, UpdaterTypeOK, StageSnapshot, At, Works
  <1>2. /\ UNCHANGED <<lock, hostVars>>
        /\ container' = container /\ live' = live /\ override' = override
    BY DEF StageSnapshot, hostVars
  <1>3. CASE Fail(u, After(u))
    BY <1>1, <1>2, <1>3, RestoreFailsStep DEF Restoring
  <1>4. CASE run' = [run EXCEPT ![u].at = "r_aside", ![u].stage = run[u].snapshot]
    <2> DEFINE new == [run[u] EXCEPT !.at = "r_aside", !.stage = run[u].snapshot]
    <2>1. run' = [run EXCEPT ![u] = new]
      BY <1>4
    <2>2. new \in Runs
      BY <1>1 DEF Runs, Places, Trapped, Restoring
    <2>3. /\ new.at = "r_aside" /\ new.stage = run[u].snapshot
          /\ new.old = run[u].old /\ new.snapshot = run[u].snapshot
          /\ new.rollbackReady = run[u].rollbackReady
          /\ new.interrupted = run[u].interrupted /\ new.hurt = run[u].hurt
      BY <1>1 DEF Runs
    <2>4. run'[u] = new
      BY <1>1, <2>1, <2>2, SetMoves
    <2>5. RunInv(u)'
      <3> HIDE DEF new
      <3> QED
        BY <1>1, <1>2, <2>3, <2>4 DEF RunInv, FreshRun, CutoverRun,
           RestoreRun, ServiceRun, AgesRun, At, Trapped, Restoring, Works
    <2> QED
      BY <1>1, <1>2, <2>1, <2>2, <2>5, SetStep
  <1> QED
    BY <1>3, <1>4 DEF StageSnapshot

LEMMA MoveAsideFailsStep ==
  ASSUME DeploymentInv, NEW u \in Updaters, MoveAsideFails(u),
         UNCHANGED <<archive, backup, rollback>>
  PROVE  DeploymentInv'
  <1>1. /\ TypeOK /\ Works(u) /\ ~At(u, "s_exit") /\ RunInv(u)
        /\ run[u] \in Runs /\ run[u].at = "r_aside"
    BY DEF DeploymentInv, ScriptsInv, TypeOK, UpdaterTypeOK, MoveAsideFails, At, Works
  <1>2. UNCHANGED <<lock, hostVars>> /\ container' = container
    BY DEF MoveAsideFails, hostVars
  <1> DEFINE new == [run[u] EXCEPT !.at = After(u), !.stage = Null, !.hurt = TRUE]
  <1>3. run' = [run EXCEPT ![u] = new]
    BY DEF MoveAsideFails
  <1>4. new \in Runs
    BY <1>1, AfterPlaces DEF Runs
  <1>5. /\ new.at = After(u) /\ new.hurt = TRUE /\ new.candidate = run[u].candidate
        /\ new.old = run[u].old /\ new.snapshot = run[u].snapshot
        /\ new.rollbackReady = run[u].rollbackReady
    BY <1>1 DEF Runs
  <1>6. run'[u] = new
    BY <1>1, <1>3, <1>4, SetMoves
  <1>7. RunInv(u)'
    <2> HIDE DEF new
    <2> QED
      BY <1>1, <1>2, <1>5, <1>6, FailedRun, AfterPlaces
      DEF KeepsFinds, RunInv, RestoreRun, AgesRun, Restoring, Works
  <1> QED
    BY <1>1, <1>2, <1>3, <1>4, <1>7, SetStep

LEMMA InterruptStep ==
  ASSUME DeploymentInv, NEW u \in Updaters, Interrupt(u),
         UNCHANGED <<archive, backup, rollback>>
  PROVE  DeploymentInv'
  <1>1. /\ TypeOK /\ Works(u) /\ ~At(u, "s_exit") /\ RunInv(u)
        /\ run[u] \in Runs /\ run[u].at \in Trapped
    BY DEF DeploymentInv, ScriptsInv, TypeOK, UpdaterTypeOK, Interrupt, At, Works,
           Trapped, Restoring
  <1>2. /\ UNCHANGED <<lock, hostVars>>
        /\ container' = container /\ live' = live /\ override' = override
    BY DEF Interrupt, hostVars
  <1> DEFINE place == IF run[u].rollbackReady THEN "r_stop"
                      ELSE IF run[u].oldStopStarted THEN "s_restart" ELSE "s_unlock"
             new == [run[u] EXCEPT !.at = place, !.interrupted = TRUE, !.hurt = TRUE,
                                   !.signals = run[u].signals + 1]
  <1>3. run' = [run EXCEPT ![u] = new]
    BY DEF Interrupt
  <1>4. new \in Runs
    <2>1. place \in Places
      BY DEF Places, Trapped, Restoring
    <2>2. run[u].signals + 1 \in 0..MaxSignals
      BY <1>1, UpdaterAssumption DEF Interrupt, Runs
    <2> HIDE DEF place
    <2> QED
      BY <1>1, <2>1, <2>2 DEF Runs
  <1>5. /\ new.at = place /\ new.hurt = TRUE /\ new.candidate = run[u].candidate
        /\ new.old = run[u].old /\ new.snapshot = run[u].snapshot
        /\ new.rollbackReady = run[u].rollbackReady
        /\ new.oldStopStarted = run[u].oldStopStarted
    BY <1>1 DEF Runs
  <1>6. run'[u] = new
    BY <1>1, <1>3, <1>4, SetMoves
  <1>7. RunInv(u)'
    <2> HIDE DEF new
    <2> QED
      BY <1>1, <1>2, <1>5, <1>6 DEF RunInv, FreshRun, CutoverRun,
         RestoreRun, ServiceRun, AgesRun, At, Trapped, Restoring, Works
  <1> QED
    BY <1>1, <1>2, <1>3, <1>4, <1>7, SetStep

LEMMA HandlerUnlockStep ==
  ASSUME DeploymentInv, NEW u \in Updaters, HandlerUnlock(u),
         UNCHANGED <<archive, backup, rollback>>
  PROVE  DeploymentInv'
  <1>1. TypeOK /\ Works(u) /\ RunInv(u) /\ run[u].at = "s_unlock"
    BY DEF DeploymentInv, ScriptsInv, HandlerUnlock, At, Works
  <1>2. /\ Moves(u) /\ KeepsFinds(u) /\ KeepsFlags(u)
        /\ run'[u].at = "s_exit" /\ run'[u].hurt = run[u].hurt
    BY <1>1, GotoMoves DEF HandlerUnlock, Places
  <1>3. /\ UNCHANGED hostVars /\ lock' \in BOOLEAN /\ At(u, "s_exit")'
        /\ container' = container /\ live' = live /\ override' = override
    BY <1>2 DEF HandlerUnlock, hostVars, At
  <1>4. RunInv(u)'
    BY <1>1, <1>2, <1>3 DEF KeepsFinds, KeepsFlags, RunInv, FreshRun,
       CutoverRun, RestoreRun, ServiceRun, AgesRun, At, Trapped, Restoring, Works
  <1> QED
    BY <1>1, <1>2, <1>3, <1>4, WorksAlone, ScriptStep DEF DeploymentInv

LEMMA OverStep ==
  ASSUME DeploymentInv, NEW u \in Updaters, Exit(u) \/ Kill(u),
         UNCHANGED <<archive, backup, rollback>>
  PROVE  DeploymentInv'
  <1>1. kept \subseteq Data /\ run[u] \in Runs /\ lock \in BOOLEAN
    BY DEF DeploymentInv, TypeOK, UpdaterTypeOK
  <1>2. CASE Exit(u)
    BY <1>1, <1>2, QuitStep DEF Exit, hostVars, Works
  <1>3. CASE Kill(u)
    <2>1. run[u].stage \in Data \cup {Null}
      BY <1>1 DEF Runs
    <2> QED
      BY <1>1, <1>3, <2>1, QuitStep DEF Kill
  <1> QED
    BY <1>2, <1>3

-----------------------------------------------------------------------------
(* The steps of a run that change the installation                         *)

LEMMA WorkStep ==
  ASSUME DeploymentInv, NEW u \in Updaters, Works(u), ~At(u, "s_exit"), Moves(u),
         UNCHANGED <<lock, written, archive, backup, rollback>>,
         container' \in Containers, override' \in Images,
         live' \in Data \cup {Null}, live' = live \/ live = Null \/ live \in kept',
         kept \subseteq kept', kept' \subseteq Data, HostInv', RunInv(u)'
  PROVE  DeploymentInv'
  <1>1. HostTypes' /\ lock'
    BY DEF HostTypes, DeploymentInv, TypeOK, UpdaterTypeOK, ScriptsInv, OneWorks
  <1>2. DataKept'
    BY KeptStep DEF DeploymentInv
  <1> QED
    BY <1>1, <1>2, WorksAlone, RunStep DEF DeploymentInv

(* compose up or start of an image that the data is not newer than.        *)
LEMMA StartHost ==
  ASSUME TypeOK, HostInv, NEW image \in Images, Start(image),
         ~Downgrades /\ live # Null => live.schema <= image
  PROVE  /\ container' \in Containers
         /\ container'.running /\ container'.image = image
         /\ live' \in Data \cup {Null} /\ (live' = live \/ live = Null)
         /\ live # Null => live' = live
         /\ ~container.running => container'.moved = Null /\ live' # Null
         /\ live = Null => live' \in {Null, Blank}
         /\ HostInv'
  <1>0. /\ container \in Containers /\ live \in Data \cup {Null}
        /\ Blank.whole /\ Blank.schema <= image
    BY DEF TypeOK, UpdaterTypeOK, Containers, Blank, Images
  <1>1. CASE /\ container.running /\ container.image = image
             /\ UNCHANGED <<container, live>>
    BY <1>0, <1>1 DEF HostInv, HostAges
  <1>2. CASE /\ container' = [image |-> image, running |-> TRUE, moved |-> Null]
             /\ live' = IF live = Null THEN Blank ELSE live
    <2>1. /\ container' \in Containers /\ container'.moved = Null
          /\ container'.running /\ container'.image = image
      BY <1>2 DEF Containers
    <2>2. CASE live = Null
      BY <1>0, <1>2, <2>1, <2>2, NullIsNoData DEF HostInv, HostAges
    <2>3. CASE live # Null
      BY <1>0, <1>2, <2>1, <2>3 DEF HostInv, HostAges
    <2> QED
      BY <2>2, <2>3
  <1> QED
    BY <1>1, <1>2 DEF Start

(* compose stop or down, that may have failed.                             *)
LEMMA StopHost ==
  ASSUME TypeOK, HostInv, Stop \/ UNCHANGED container, UNCHANGED <<override, live>>
  PROVE  /\ container' \in Containers /\ container'.image = container.image
         /\ container'.running => container' = container
         /\ container'.running => container.running
         /\ HostInv'
  <1>1. container \in Containers /\ live' = live /\ override' = override
    BY DEF TypeOK, UpdaterTypeOK, Containers
  <1>2. CASE Stop
    <2>1. /\ container' \in Containers /\ container'.image = container.image
          /\ ~container'.running /\ container'.moved = Null
      BY <1>1, <1>2 DEF Stop, Containers
    <2> QED
      BY <1>1, <2>1 DEF HostInv, HostAges
  <1>3. CASE UNCHANGED container
    BY <1>1, <1>3 DEF HostInv, HostAges
  <1> QED
    BY <1>2, <1>3

LEMMA StoppedHost ==
  ASSUME TypeOK, Stop
  PROVE  ~container'.running /\ container'.moved = Null
  BY DEF Stop, TypeOK, UpdaterTypeOK

(* compose up that ends with an error.                                     *)
LEMMA FailHost ==
  ASSUME TypeOK, HostInv, NEW image \in Images, StartFails(image), override' = image,
         live' = live, ~Downgrades /\ live # Null => live.schema <= image
  PROVE  /\ container' \in Containers /\ container'.image \in {container.image, image}
         /\ container' = container \/ (~container'.running /\ container'.moved = Null)
         /\ HostInv'
  <1>1. container \in Containers
    BY DEF TypeOK, UpdaterTypeOK, Containers
  <1>2. CASE UNCHANGED container
    BY <1>1, <1>2 DEF HostInv, HostAges
  <1>3. CASE \E made \in {container.image, image} :
               container' = [image |-> made, running |-> FALSE, moved |-> Null]
    <2>1. /\ container' \in Containers /\ container'.image \in {container.image, image}
          /\ ~container'.running /\ container'.moved = Null
      BY <1>1, <1>3 DEF Containers
    <2> QED
      BY <2>1 DEF HostInv, HostAges
  <1> QED
    BY <1>2, <1>3 DEF StartFails

(* mv of the directory data.                                               *)
LEMMA AsideHost ==
  ASSUME TypeOK, HostInv, PutAside, override' = override
  PROVE  /\ container' \in Containers /\ container'.image = container.image
         /\ container'.running = container.running
         /\ container'.running => container'.moved # Null
         /\ live' = Null /\ kept \subseteq kept' /\ kept' \subseteq Data
         /\ live = Null \/ live \in kept'
         /\ HostInv'
  <1>1. /\ container \in Containers /\ live \in Data \cup {Null} /\ kept \subseteq Data
        /\ live' = Null /\ kept' = kept \cup ({live} \ {Null})
    BY DEF TypeOK, UpdaterTypeOK, Containers, PutAside
  <1>2. CASE InUse
    <2>1. container' = [container EXCEPT !.moved = live] /\ live # Null
      BY <1>2 DEF PutAside, InUse, HostInv
    <2>2. /\ container' \in Containers /\ container'.image = container.image
          /\ container'.running /\ container'.moved = live /\ container.running
      BY <1>1, <1>2, <2>1 DEF Containers, InUse
    <2> QED
      BY <1>1, <2>1, <2>2 DEF HostInv, HostAges
  <1>3. CASE ~InUse
    <2>1. container' = container /\ (container.running => container.moved # Null)
      BY <1>1, <1>3 DEF PutAside, InUse, Containers
    <2> QED
      BY <1>1, <2>1 DEF HostInv, HostAges
  <1> QED
    BY <1>2, <1>3

(* What a step of a run that is at work may rely on.                       *)
LEMMA AtWork ==
  ASSUME DeploymentInv, NEW u \in Updaters, NEW place, At(u, place),
         place \notin {"idle", "prepared", "s_exit"}
  PROVE  /\ TypeOK /\ HostInv /\ Works(u) /\ ~At(u, "s_exit") /\ RunInv(u)
         /\ run[u] \in Runs /\ run[u].at = place
         /\ container \in Containers
         /\ override \in Images /\ live \in Data \cup {Null} /\ kept \subseteq Data
  BY DEF DeploymentInv, ScriptsInv, TypeOK, UpdaterTypeOK, Containers, At, Works

LEMMA AlreadyCurrentStep ==
  ASSUME DeploymentInv, NEW u \in Updaters, AlreadyCurrent(u),
         UNCHANGED <<archive, backup, rollback>>
  PROVE  DeploymentInv'
  <1>1. At(u, "locked")
    BY DEF AlreadyCurrent
  <1>0. run[u].candidate \in Images
    BY <1>1, AtWork DEF Runs
  <1>2. /\ Moves(u) /\ KeepsFinds(u) /\ KeepsFlags(u)
        /\ run'[u].at = "probe" /\ run'[u].hurt = run[u].hurt
    BY <1>1, AtWork, GotoMoves DEF AlreadyCurrent, Places, Trapped
  <1>3. /\ container.running /\ override' = run[u].candidate
        /\ UNCHANGED <<lock, container, live, kept, written>>
    BY DEF AlreadyCurrent
  <1>4. HostInv'
    BY <1>1, <1>3, AtWork DEF HostInv, HostAges
  <1>5. RunInv(u)'
    BY <1>1, <1>2, <1>3, AtWork DEF KeepsFinds, KeepsFlags, RunInv,
       FreshRun, CutoverRun, RestoreRun, ServiceRun, AgesRun, At, Trapped, Restoring, Works
  <1> QED
    BY <1>0, <1>1, <1>2, <1>3, <1>4, <1>5, AtWork, WorkStep

LEMMA StopOldStep ==
  ASSUME DeploymentInv, NEW u \in Updaters, StopOld(u),
         UNCHANGED <<archive, backup, rollback>>
  PROVE  DeploymentInv'
  <1>1. At(u, "stop")
    BY DEF StopOld
  <1>2. /\ UNCHANGED <<lock, override, live, kept, written>>
        /\ Stop \/ UNCHANGED container
    BY DEF StopOld
  <1>3. /\ container' \in Containers /\ container'.image = container.image
        /\ HostInv'
    BY <1>1, <1>2, AtWork, StopHost
  <1>4. CASE Fail(u, "exit")
    <2>1. Moves(u) /\ KeepsFinds(u) /\ run'[u].hurt = TRUE /\ run'[u].at = "exit"
      BY <1>1, <1>4, AtWork, FailMoves DEF Places
    <2>2. RunInv(u)'
      BY <1>1, <1>2, <2>1, AtWork, FailedRun DEF RunInv, CutoverRun
    <2> QED
      BY <1>1, <1>2, <1>3, <2>1, <2>2, AtWork, WorkStep
  <1>5. CASE run' = [run EXCEPT ![u].at = "snapshot", ![u].cutoverStarted = TRUE] /\ Stop
    <2> DEFINE new == [run[u] EXCEPT !.at = "snapshot", !.cutoverStarted = TRUE]
    <2>1. run' = [run EXCEPT ![u] = new]
      BY <1>5
    <2>0. run[u] \in Runs
      BY <1>1, AtWork
    <2>2. new \in Runs
      BY <2>0 DEF Runs, Places, Trapped
    <2>3. /\ new.at = "snapshot" /\ new.cutoverStarted = TRUE
          /\ new.candidate = run[u].candidate
          /\ new.old = run[u].old /\ new.snapshot = run[u].snapshot
          /\ new.rollbackReady = run[u].rollbackReady
          /\ new.oldStopStarted = run[u].oldStopStarted
          /\ new.interrupted = run[u].interrupted /\ new.hurt = run[u].hurt
      BY <2>0 DEF Runs
    <2>4. Moves(u) /\ run'[u] = new
      BY <1>1, <2>1, <2>2, AtWork, SetMoves
    <2>5. ~container'.running
      BY <1>1, <1>5, AtWork, StoppedHost
    <2>6. RunInv(u)'
      <3> HIDE DEF new
      <3> QED
        BY <1>1, <1>2, <1>3, <2>3, <2>4, <2>5, AtWork DEF RunInv, FreshRun,
           CutoverRun, RestoreRun, ServiceRun, AgesRun, At, Trapped, Restoring, Works
    <2> QED
      BY <1>1, <1>2, <1>3, <2>4, <2>6, AtWork, WorkStep
  <1> QED
    BY <1>4, <1>5 DEF StopOld

LEMMA TakeSnapshotStep ==
  ASSUME DeploymentInv, NEW u \in Updaters, TakeSnapshot(u),
         UNCHANGED <<archive, backup, rollback>>
  PROVE  DeploymentInv'
  <1>1. At(u, "snapshot") /\ live # Null
    BY DEF TakeSnapshot
  <1> DEFINE copy == [live EXCEPT !.whole = live.whole /\ ~InUse]
             new == [run[u] EXCEPT !.at = "select", !.snapshot = live,
                                   !.rollbackReady = TRUE]
  <1>2. copy = live
    <2>1. live.whole = (live.whole /\ ~InUse) /\ live \in Data
      BY <1>1, AtWork DEF HostInv, RunInv, CutoverRun, InUse, Data
    <2> QED
      BY <2>1 DEF Data
  <1>3. /\ run' = [run EXCEPT ![u] = new] /\ kept' = kept \cup {live}
        /\ UNCHANGED <<lock, container, override, live, written>>
    BY <1>2 DEF TakeSnapshot
  <1>0. run[u] \in Runs /\ live \in Data \cup {Null}
    BY <1>1, AtWork
  <1>4. new \in Runs
    BY <1>0 DEF Runs, Places, Trapped
  <1>5. /\ new.at = "select" /\ new.candidate = run[u].candidate
        /\ new.old = run[u].old /\ new.snapshot = live
        /\ new.rollbackReady = TRUE
        /\ new.oldStopStarted = run[u].oldStopStarted
        /\ new.cutoverStarted = run[u].cutoverStarted
        /\ new.interrupted = run[u].interrupted /\ new.hurt = run[u].hurt
    BY <1>0 DEF Runs
  <1>6. Moves(u) /\ run'[u] = new
    BY <1>1, <1>3, <1>4, AtWork, SetMoves
  <1>7. HostInv' /\ live' \in Data /\ live.whole
    BY <1>1, <1>3, AtWork DEF HostInv, HostAges
  <1>8. /\ run[u].old = container.image /\ container.image # Null
        /\ ~container.running /\ container.image <= container.image
    BY <1>1, AtWork, NullIsNoData DEF RunInv, CutoverRun, Containers, Images
  <1>9. ~Downgrades => live.schema <= container.image
    BY <1>1, AtWork DEF RunInv, CutoverRun, AgesRun, Trapped, At
  <1>10. RunInv(u)'
    <2> HIDE DEF new, copy
    <2> QED
      BY <1>1, <1>3, <1>5, <1>6, <1>7, <1>8, <1>9, AtWork DEF RunInv, FreshRun,
         CutoverRun, RestoreRun, ServiceRun, AgesRun, At, Trapped, Restoring, Works
  <1> QED
    BY <1>1, <1>3, <1>6, <1>7, <1>10, AtWork, WorkStep

LEMMA SnapshotFailsStep ==
  ASSUME DeploymentInv, NEW u \in Updaters, SnapshotFails(u),
         UNCHANGED <<archive, backup, rollback>>
  PROVE  DeploymentInv'
  <1>1. At(u, "snapshot")
    BY DEF SnapshotFails
  <1>2. /\ TypeOK /\ HostInv /\ run[u] \in Runs /\ container.image \in Images
        /\ container \in Containers /\ live \in Data \cup {Null}
        /\ override \in Images /\ kept \subseteq Data
        /\ ~Downgrades /\ live # Null => live.schema <= container.image
    BY <1>1, AtWork DEF RunInv, CutoverRun, AgesRun, Containers, Trapped, At
  <1>3. /\ UNCHANGED <<lock, override, kept, written>>
        /\ Start(container.image) \/ UNCHANGED <<container, live>>
    BY DEF SnapshotFails
  <1> DEFINE new == [run[u] EXCEPT !.at = "exit", !.oldStopStarted = FALSE,
                                   !.cutoverStarted = FALSE, !.hurt = TRUE]
  <1>4. run' = [run EXCEPT ![u] = new]
    BY DEF SnapshotFails
  <1>5. new \in Runs
    BY <1>2 DEF Runs, Places
  <1>6. /\ new.at = "exit" /\ new.hurt = TRUE /\ new.candidate = run[u].candidate
        /\ new.old = run[u].old /\ new.snapshot = run[u].snapshot
        /\ new.rollbackReady = run[u].rollbackReady
    BY <1>2 DEF Runs
  <1>7. Moves(u) /\ run'[u] = new
    BY <1>2, <1>4, <1>5, SetMoves
  <1>8. RunInv(u)'
    <2> HIDE DEF new
    <2> QED
      BY <1>1, <1>3, <1>6, <1>7, AtWork, FailedRun DEF KeepsFinds, RunInv, CutoverRun
  <1>9. /\ HostInv' /\ container' \in Containers
        /\ live' \in Data \cup {Null} /\ (live' = live \/ live = Null)
    <2>1. CASE Start(container.image)
      BY <1>2, <2>1, StartHost
    <2>2. CASE UNCHANGED <<container, live>>
      BY <1>2, <1>3, <2>2 DEF HostInv, HostAges
    <2> QED
      BY <1>3, <2>1, <2>2
  <1> QED
    BY <1>1, <1>2, <1>3, <1>7, <1>8, <1>9, AtWork, WorkStep

LEMMA SelectStep ==
  ASSUME DeploymentInv, NEW u \in Updaters, Select(u),
         UNCHANGED <<archive, backup, rollback>>
  PROVE  DeploymentInv'
  <1>1. At(u, "select")
    BY DEF Select
  <1>2. /\ TypeOK /\ HostInv /\ RunInv(u) /\ run[u] \in Runs /\ Works(u)
        /\ container \in Containers /\ container.image \in Images
        /\ run[u].candidate \in Images /\ override \in Images /\ kept \subseteq Data
        /\ live \in Data \cup {Null} /\ run[u].at = "select"
        /\ run[u].candidate <= run[u].candidate
    BY <1>1, AtWork DEF Runs, Containers, Images, At
  <1>3. UNCHANGED <<lock, container, live, kept, written>>
    BY DEF Select
  <1>4. CASE Goto(u, "up") /\ override' = run[u].candidate
    <2>1. /\ Moves(u) /\ KeepsFinds(u) /\ KeepsFlags(u)
          /\ run'[u].at = "up" /\ run'[u].hurt = run[u].hurt
      BY <1>2, <1>4, GotoMoves DEF Places, Trapped
    <2>2. HostInv'
      <3>1. ~Downgrades => override <= run[u].candidate
        BY <1>2 DEF RunInv, AgesRun
      <3> QED
        BY <1>2, <1>3, <1>4, <3>1 DEF HostInv, HostAges, Images, Data
    <2>3. RunInv(u)'
      BY <1>2, <1>3, <1>4, <2>1 DEF KeepsFinds, KeepsFlags, RunInv,
         FreshRun, CutoverRun, RestoreRun, ServiceRun, AgesRun, At, Trapped, Restoring, Works
    <2> QED
      BY <1>1, <1>2, <1>3, <1>4, <2>1, <2>2, <2>3, AtWork, WorkStep
  <1>5. CASE Fail(u, "exit") /\ UNCHANGED override
    <2>1. Moves(u) /\ KeepsFinds(u) /\ run'[u].hurt = TRUE /\ run'[u].at = "exit"
      BY <1>2, <1>5, FailMoves DEF Places
    <2>2. RunInv(u)' /\ HostInv'
      BY <1>2, <1>3, <1>5, <2>1, FailedRun DEF RunInv, AgesRun, HostInv, HostAges
    <2> QED
      BY <1>1, <1>2, <1>3, <1>5, <2>1, <2>2, AtWork, WorkStep
  <1> QED
    BY <1>4, <1>5 DEF Select

(* What compose up may rely on: the candidate is the newest of all.        *)
LEMMA AtUp ==
  ASSUME DeploymentInv, NEW u \in Updaters, At(u, "up")
  PROVE  /\ ~Downgrades /\ live # Null => live.schema <= override
         /\ ~Downgrades /\ run[u].rollbackReady =>
              run[u].old <= override /\ run[u].old <= container.image
  <1>1. /\ RunInv(u) /\ HostInv /\ Works(u) /\ container.image \in Images
        /\ override \in Images /\ live \in Data \cup {Null} /\ run[u].at = "up"
    BY AtWork DEF Containers
  <1>2. ~Downgrades =>
          /\ override = run[u].candidate /\ container.image <= override
          /\ run[u].rollbackReady => run[u].old <= container.image
          /\ HostAges
    BY <1>1 DEF RunInv, AgesRun, HostInv, At
  <1>3. run[u].rollbackReady => run[u].old \in Images
    BY <1>1, AtWork DEF RunInv, RestoreRun, Runs
  <1> QED
    BY <1>1, <1>2, <1>3 DEF HostAges, Images, Data

LEMMA UpStep ==
  ASSUME DeploymentInv, NEW u \in Updaters, Up(u),
         UNCHANGED <<archive, backup, rollback>>
  PROVE  DeploymentInv'
  <1>1. At(u, "up")
    BY DEF Up
  <1>2. /\ TypeOK /\ HostInv /\ RunInv(u) /\ run[u] \in Runs /\ Works(u)
        /\ override \in Images /\ kept \subseteq Data /\ run[u].at = "up"
    BY <1>1, AtWork DEF At
  <1>3. /\ UNCHANGED <<lock, override, kept, written>> /\ Start(override)
    BY DEF Up
  <1>0. ~Downgrades /\ live # Null => live.schema <= override
    BY <1>1, AtUp
  <1>4. /\ HostInv' /\ container' \in Containers
        /\ live' \in Data \cup {Null} /\ (live' = live \/ live = Null)
        /\ container'.running /\ container'.image = override
    BY <1>0, <1>2, <1>3, StartHost
  <1> DEFINE new == [run[u] EXCEPT !.at = "probe", !.containerStarted = TRUE]
  <1>5. run' = [run EXCEPT ![u] = new]
    BY DEF Up
  <1>6. new \in Runs
    BY <1>2 DEF Runs, Places, Trapped
  <1>7. /\ new.at = "probe" /\ new.hurt = run[u].hurt /\ new.candidate = run[u].candidate
        /\ new.old = run[u].old /\ new.snapshot = run[u].snapshot
        /\ new.rollbackReady = run[u].rollbackReady
        /\ new.oldStopStarted = run[u].oldStopStarted
        /\ new.cutoverStarted = run[u].cutoverStarted
        /\ new.interrupted = run[u].interrupted
    BY <1>2 DEF Runs
  <1>8. Moves(u) /\ run'[u] = new
    BY <1>2, <1>5, <1>6, SetMoves
  <1>9. ~Downgrades /\ run[u].rollbackReady => run[u].old <= container'.image
    BY <1>1, <1>4, AtUp
  <1>10. RunInv(u)'
    <2> HIDE DEF new
    <2> QED
      BY <1>2, <1>3, <1>4, <1>7, <1>8, <1>9 DEF RunInv, FreshRun, CutoverRun,
         RestoreRun, ServiceRun, AgesRun, At, Trapped, Restoring, Works
  <1> QED
    BY <1>1, <1>2, <1>3, <1>4, <1>8, <1>10, AtWork, WorkStep

LEMMA UpFailsStep ==
  ASSUME DeploymentInv, NEW u \in Updaters, UpFails(u),
         UNCHANGED <<archive, backup, rollback>>
  PROVE  DeploymentInv'
  <1>1. At(u, "up")
    BY DEF UpFails
  <1>2. /\ TypeOK /\ HostInv /\ RunInv(u) /\ run[u] \in Runs /\ Works(u)
        /\ override \in Images /\ kept \subseteq Data /\ run[u].at = "up"
        /\ live \in Data \cup {Null}
    BY <1>1, AtWork DEF At
  <1>3. UNCHANGED <<lock, override, live, kept, written>> /\ StartFails(override)
    BY DEF UpFails
  <1>0. /\ ~Downgrades /\ live # Null => live.schema <= override
        /\ ~Downgrades /\ run[u].rollbackReady =>
             run[u].old <= override /\ run[u].old <= container.image
    BY <1>1, AtUp
  <1>4. /\ container' \in Containers /\ container'.image \in {container.image, override}
        /\ HostInv'
    BY <1>0, <1>2, <1>3, FailHost
  <1> DEFINE place == IF run[u].rollbackReady THEN "r_stop" ELSE "exit"
  <1>6. place \in Places /\ Goto(u, place)
    BY DEF UpFails, Places, Trapped, Restoring
  <1>7. /\ Moves(u) /\ KeepsFinds(u) /\ KeepsFlags(u)
        /\ run'[u].at = place /\ run'[u].hurt = run[u].hurt
    <2> HIDE DEF place
    <2> QED
      BY <1>2, <1>6, GotoMoves
  <1>8. RunInv(u)'
    BY <1>0, <1>2, <1>3, <1>4, <1>7 DEF KeepsFinds, KeepsFlags, RunInv, FreshRun,
       CutoverRun, RestoreRun, ServiceRun, AgesRun, At, Trapped, Restoring, Works
  <1> QED
    BY <1>1, <1>2, <1>3, <1>4, <1>7, <1>8, AtWork, WorkStep

LEMMA GiveUpStep ==
  ASSUME DeploymentInv, NEW u \in Updaters, GiveUp(u),
         UNCHANGED <<archive, backup, rollback>>
  PROVE  DeploymentInv'
  <1>1. At(u, "probe")
    BY DEF GiveUp
  <1>2. /\ TypeOK /\ HostInv /\ RunInv(u) /\ run[u] \in Runs /\ Works(u)
        /\ override \in Images /\ kept \subseteq Data /\ run[u].at = "probe"
        /\ live \in Data \cup {Null}
    BY <1>1, AtWork DEF At
  <1>3. /\ UNCHANGED <<lock, override, live, kept, written>>
        /\ Stop \/ UNCHANGED container
        /\ run[u].cutoverStarted => container' = container
    BY DEF GiveUp
  <1>4. /\ container' \in Containers /\ container'.image = container.image
        /\ HostInv'
    BY <1>2, <1>3, StopHost
  <1> DEFINE place == IF run[u].cutoverStarted THEN "r_stop" ELSE "exit"
  <1>6. place \in Places /\ Goto(u, place)
    BY DEF GiveUp, Places, Trapped, Restoring
  <1>7. /\ Moves(u) /\ KeepsFinds(u) /\ KeepsFlags(u)
        /\ run'[u].at = place /\ run'[u].hurt = run[u].hurt
    <2> HIDE DEF place
    <2> QED
      BY <1>2, <1>6, GotoMoves
  <1>8. RunInv(u)'
    BY <1>2, <1>3, <1>4, <1>7 DEF KeepsFinds, KeepsFlags, RunInv,
       FreshRun, CutoverRun, RestoreRun, ServiceRun, AgesRun, At, Trapped, Restoring, Works
  <1> QED
    BY <1>1, <1>2, <1>3, <1>4, <1>7, <1>8, AtWork, WorkStep

LEMMA RestoreStopStep ==
  ASSUME DeploymentInv, NEW u \in Updaters, RestoreStop(u),
         UNCHANGED <<archive, backup, rollback>>
  PROVE  DeploymentInv'
  <1>1. At(u, "r_stop")
    BY DEF RestoreStop
  <1>2. /\ TypeOK /\ HostInv /\ RunInv(u) /\ run[u] \in Runs /\ Works(u)
        /\ override \in Images /\ kept \subseteq Data /\ run[u].at = "r_stop"
        /\ live \in Data \cup {Null}
    BY <1>1, AtWork DEF At
  <1>3. /\ UNCHANGED <<lock, override, live, kept, written>>
        /\ Stop \/ UNCHANGED container
    BY DEF RestoreStop
  <1>4. /\ container' \in Containers /\ container'.image = container.image
        /\ HostInv'
    BY <1>2, <1>3, StopHost
  <1>6. /\ Moves(u) /\ KeepsFinds(u) /\ KeepsFlags(u)
        /\ run'[u].at = "r_stage" /\ run'[u].hurt = run[u].hurt
    BY <1>2, GotoMoves DEF RestoreStop, Places, Trapped, Restoring
  <1>7. RunInv(u)'
    BY <1>2, <1>3, <1>4, <1>6 DEF KeepsFinds, KeepsFlags, RunInv,
       FreshRun, CutoverRun, RestoreRun, ServiceRun, AgesRun, At, Trapped, Restoring, Works
  <1> QED
    BY <1>1, <1>2, <1>3, <1>4, <1>6, <1>7, AtWork, WorkStep

LEMMA MoveAsideStep ==
  ASSUME DeploymentInv, NEW u \in Updaters, MoveAside(u),
         UNCHANGED <<archive, backup, rollback>>
  PROVE  DeploymentInv'
  <1>1. At(u, "r_aside")
    BY DEF MoveAside
  <1>2. /\ TypeOK /\ HostInv /\ RunInv(u) /\ run[u] \in Runs /\ Works(u)
        /\ override \in Images /\ run[u].at = "r_aside"
    BY <1>1, AtWork DEF At
  <1>3. UNCHANGED <<lock, override, written>> /\ PutAside
    BY DEF MoveAside
  <1>4. /\ container' \in Containers /\ container'.image = container.image
        /\ container'.running = container.running
        /\ container'.running => container'.moved # Null
        /\ live' = Null /\ kept \subseteq kept' /\ kept' \subseteq Data
        /\ live = Null \/ live \in kept'
        /\ HostInv'
    BY <1>2, <1>3, AsideHost
  <1>6. /\ Moves(u) /\ KeepsFinds(u) /\ KeepsFlags(u) /\ run'[u].stage = run[u].stage
        /\ run'[u].at = "r_install" /\ run'[u].hurt = run[u].hurt
    BY <1>2, GotoMoves DEF MoveAside, Places, Trapped, Restoring
  <1>7. RunInv(u)'
    BY <1>2, <1>3, <1>4, <1>6 DEF KeepsFinds, KeepsFlags, RunInv,
       FreshRun, CutoverRun, RestoreRun, ServiceRun, AgesRun, At, Trapped, Restoring, Works
  <1>8. live' \in Data \cup {Null} /\ (live' = live \/ live = Null \/ live \in kept')
    BY <1>4
  <1> QED
    BY <1>1, <1>2, <1>3, <1>4, <1>6, <1>7, <1>8, AtWork, WorkStep

LEMMA InstallStageStep ==
  ASSUME DeploymentInv, NEW u \in Updaters, InstallStage(u),
         UNCHANGED <<archive, backup, rollback>>
  PROVE  DeploymentInv'
  <1>1. At(u, "r_install")
    BY DEF InstallStage
  <1>2. /\ TypeOK /\ HostInv /\ RunInv(u) /\ run[u] \in Runs /\ Works(u)
        /\ container \in Containers /\ container.image \in Images
        /\ override \in Images /\ kept \subseteq Data /\ run[u].at = "r_install"
    BY <1>1, AtWork DEF At, Containers
  <1>3. /\ run[u].rollbackReady /\ run[u].stage = run[u].snapshot
        /\ container.running => container.moved # Null
        /\ live = Null
        /\ run[u].snapshot \in Data /\ run[u].snapshot.whole /\ run[u].snapshot # Null
    BY <1>2, NullIsNoData DEF RunInv, RestoreRun, Restoring, Runs, At
  <1>4. /\ UNCHANGED <<lock, container, override, kept, written>>
        /\ live' = run[u].snapshot
    BY <1>3 DEF InstallStage
  <1>5. ~Downgrades => live'.schema <= container.image
    <2>1. ~Downgrades => /\ run[u].snapshot.schema <= run[u].old
                        /\ run[u].old <= container.image
      BY <1>2, <1>3 DEF RunInv, AgesRun
    <2>2. run[u].old \in Images
      BY <1>2, <1>3 DEF RunInv, RestoreRun, Runs
    <2> QED
      BY <1>2, <1>3, <1>4, <2>1, <2>2 DEF Images, Data
  <1> DEFINE new == [run[u] EXCEPT !.at = "r_select", !.stage = Null]
  <1>6. run' = [run EXCEPT ![u] = new]
    BY DEF InstallStage
  <1>7. new \in Runs
    BY <1>2 DEF Runs, Places, Trapped, Restoring
  <1>8. /\ new.at = "r_select" /\ new.hurt = run[u].hurt /\ new.candidate = run[u].candidate
        /\ new.old = run[u].old /\ new.snapshot = run[u].snapshot
        /\ new.rollbackReady = run[u].rollbackReady
        /\ new.interrupted = run[u].interrupted
    BY <1>2 DEF Runs
  <1>9. Moves(u) /\ run'[u] = new
    BY <1>2, <1>6, <1>7, SetMoves
  <1>10. HostInv'
    BY <1>2, <1>3, <1>4, <1>5 DEF HostInv, HostAges
  <1>11. RunInv(u)'
    <2> HIDE DEF new
    <2> QED
      BY <1>2, <1>3, <1>4, <1>8, <1>9 DEF RunInv, FreshRun, CutoverRun,
         RestoreRun, ServiceRun, AgesRun, At, Trapped, Restoring, Works
  <1> QED
    BY <1>1, <1>2, <1>3, <1>4, <1>9, <1>10, <1>11, AtWork, WorkStep

LEMMA RestoreSelectStep ==
  ASSUME DeploymentInv, NEW u \in Updaters, RestoreSelect(u),
         UNCHANGED <<archive, backup, rollback>>
  PROVE  DeploymentInv'
  <1>1. At(u, "r_select")
    BY DEF RestoreSelect
  <1>2. /\ TypeOK /\ HostInv /\ RunInv(u) /\ run[u] \in Runs /\ Works(u)
        /\ container \in Containers
        /\ override \in Images /\ kept \subseteq Data /\ run[u].at = "r_select"
        /\ live \in Data \cup {Null}
    BY <1>1, AtWork DEF At
  <1>3. /\ run[u].rollbackReady /\ live = run[u].snapshot /\ live # Null
        /\ run[u].old \in Images
        /\ ~Downgrades => live.schema <= run[u].old
    BY <1>2, NullIsNoData DEF RunInv, RestoreRun, AgesRun, Restoring, Runs
  <1>4. UNCHANGED <<lock, container, live, kept, written>>
    BY DEF RestoreSelect
  <1>5. CASE Goto(u, "r_up") /\ override' = run[u].old
    <2>1. /\ Moves(u) /\ KeepsFinds(u) /\ KeepsFlags(u)
          /\ run'[u].at = "r_up" /\ run'[u].hurt = run[u].hurt
      BY <1>2, <1>5, GotoMoves DEF Places, Trapped, Restoring
    <2>2. HostInv'
      BY <1>2, <1>3, <1>4, <1>5 DEF HostInv, HostAges
    <2>3. RunInv(u)'
      BY <1>2, <1>3, <1>4, <1>5, <2>1 DEF KeepsFinds, KeepsFlags, RunInv, FreshRun,
         CutoverRun, RestoreRun, ServiceRun, AgesRun, At, Trapped, Restoring, Works
    <2> QED
      BY <1>1, <1>2, <1>3, <1>4, <1>5, <2>1, <2>2, <2>3, AtWork, WorkStep
  <1>6. CASE Fail(u, After(u)) /\ UNCHANGED override
    <2>1. UNCHANGED <<archive, backup, rollback, lock, hostVars>>
      BY <1>4, <1>6 DEF hostVars
    <2> QED
      BY <1>2, <1>6, <2>1, RestoreFailsStep DEF Restoring
  <1> QED
    BY <1>5, <1>6 DEF RestoreSelect

LEMMA RestoreUpStep ==
  ASSUME DeploymentInv, NEW u \in Updaters, RestoreUp(u),
         UNCHANGED <<archive, backup, rollback>>
  PROVE  DeploymentInv'
  <1>1. At(u, "r_up")
    BY DEF RestoreUp
  <1>2. /\ TypeOK /\ HostInv /\ RunInv(u) /\ run[u] \in Runs /\ Works(u)
        /\ override \in Images /\ kept \subseteq Data /\ run[u].at = "r_up"
        /\ override <= override /\ live \in Data \cup {Null}
    BY <1>1, AtWork DEF At, Images
  <1>3. UNCHANGED <<lock, override, kept, written>>
    BY DEF RestoreUp
  <1>0. /\ run[u].rollbackReady /\ override = run[u].old
        /\ ~Downgrades /\ live # Null => live.schema <= override
        /\ ~Downgrades => run[u].old <= container.image
    BY <1>2 DEF RunInv, RestoreRun, AgesRun, Restoring, At
  <1>4. CASE Fail(u, After(u)) /\ StartFails(override) /\ UNCHANGED live
    <2>1. /\ container' \in Containers /\ container'.image \in {container.image, override}
          /\ HostInv'
      BY <1>0, <1>2, <1>3, <1>4, FailHost
    <2>2. /\ Moves(u) /\ KeepsFinds(u) /\ run'[u].hurt = TRUE /\ run'[u].at = After(u)
      BY <1>2, <1>4, FailMoves, AfterPlaces
    <2>3. RunInv(u)'
      BY <1>0, <1>2, <2>1, <2>2, FailedRun, AfterPlaces
    <2> QED
      BY <1>1, <1>2, <1>3, <1>4, <2>1, <2>2, <2>3, AtWork, WorkStep
  <1>5. CASE /\ Start(override)
             /\ run' = [run EXCEPT ![u].at = "r_probe", ![u].probes = 0,
                                   ![u].containerStarted = TRUE]
    <2> DEFINE new == [run[u] EXCEPT !.at = "r_probe", !.probes = 0,
                                     !.containerStarted = TRUE]
    <2>1. run' = [run EXCEPT ![u] = new]
      BY <1>5
    <2>0. 0 \in 0..MaxProbes /\ "r_probe" \in Places
      BY UpdaterAssumption DEF Places, Trapped, Restoring
    <2>2. new \in Runs
      BY <1>2, <2>0 DEF Runs
    <2>3. /\ new.at = "r_probe" /\ new.hurt = run[u].hurt /\ new.candidate = run[u].candidate
          /\ new.old = run[u].old /\ new.snapshot = run[u].snapshot
          /\ new.rollbackReady = run[u].rollbackReady
          /\ new.interrupted = run[u].interrupted
      BY <1>2 DEF Runs
    <2>4. Moves(u) /\ run'[u] = new
      BY <1>2, <2>1, <2>2, SetMoves
    <2>5. /\ HostInv' /\ container' \in Containers
          /\ live' \in Data \cup {Null} /\ (live' = live \/ live = Null)
          /\ container'.running /\ container'.image = override
      BY <1>0, <1>2, <1>5, StartHost
    <2>6. RunInv(u)'
      <3> HIDE DEF new
      <3> QED
        BY <1>0, <1>2, <1>3, <2>3, <2>4, <2>5 DEF RunInv, FreshRun, CutoverRun,
           RestoreRun, ServiceRun, AgesRun, At, Trapped, Restoring, Works
    <2> QED
      BY <1>1, <1>2, <1>3, <2>4, <2>5, <2>6, AtWork, WorkStep
  <1> QED
    BY <1>4, <1>5 DEF RestoreUp

LEMMA RestartOldStep ==
  ASSUME DeploymentInv, NEW u \in Updaters, RestartOld(u),
         UNCHANGED <<archive, backup, rollback>>
  PROVE  DeploymentInv'
  <1>1. At(u, "s_restart")
    BY DEF RestartOld
  <1>2. /\ TypeOK /\ HostInv /\ RunInv(u) /\ run[u] \in Runs /\ Works(u)
        /\ container \in Containers /\ container.image \in Images
        /\ override \in Images /\ kept \subseteq Data /\ run[u].at = "s_restart"
        /\ live \in Data \cup {Null}
        /\ ~run[u].rollbackReady /\ (run[u].old = Null \/ run[u].hurt = TRUE)
    BY <1>1, AtWork DEF At, Containers, RunInv, CutoverRun, ServiceRun, Runs
  <1>0. ~Downgrades /\ live # Null => live.schema <= container.image
    BY <1>2 DEF RunInv, CutoverRun, AgesRun, At, Trapped
  <1>3. /\ UNCHANGED <<lock, override, kept, written>>
        /\ Start(container.image) \/ UNCHANGED <<container, live>>
    BY DEF RestartOld
  <1>4. /\ HostInv' /\ container' \in Containers
        /\ live' \in Data \cup {Null} /\ (live' = live \/ live = Null)
        /\ container'.image = container.image
        /\ ~Downgrades /\ live' # Null => live'.schema <= container'.image
    <2>1. CASE Start(container.image)
      <3>1. Blank.schema <= container.image
        BY <1>2 DEF Blank, Images
      <3> QED
        BY <1>0, <1>2, <2>1, <3>1, StartHost
    <2>2. CASE UNCHANGED <<container, live>>
      BY <1>0, <1>2, <1>3, <2>2 DEF HostInv, HostAges
    <2> QED
      BY <1>3, <2>1, <2>2
  <1>5. /\ Moves(u) /\ KeepsFinds(u) /\ KeepsFlags(u)
        /\ run'[u].at = "s_unlock" /\ run'[u].hurt = run[u].hurt
    BY <1>2, GotoMoves DEF RestartOld, Places, Trapped
  <1>6. RunInv(u)'
    BY <1>2, <1>3, <1>4, <1>5 DEF KeepsFinds, KeepsFlags, RunInv, FreshRun,
       CutoverRun, RestoreRun, ServiceRun, AgesRun, At, Trapped, Restoring, Works
  <1> QED
    BY <1>1, <1>2, <1>3, <1>4, <1>5, <1>6, AtWork, WorkStep

(* Every command of a run, until its end.                                  *)
LEMMA ProceedStep ==
  ASSUME DeploymentInv, ~Overlap, NEW u \in Updaters, Proceed(u),
         UNCHANGED <<archive, backup, rollback>>
  PROVE  DeploymentInv'
  <1>1. CASE InstallFails(u)
    <2>1. At(u, "r_install") /\ Fail(u, After(u))
          /\ UNCHANGED <<archive, backup, rollback, lock, hostVars>>
      BY <1>1 DEF InstallFails
    <2> QED
      BY <2>1, RestoreFailsStep DEF At, Restoring
  <1>2. CASE TakeLock(u) \/ Refuse(u) \/ AlreadyCurrent(u) \/ Cutover(u) \/ StopOld(u)
    BY <1>2, TakeLockStep, RefuseStep, AlreadyCurrentStep, CutoverStep, StopOldStep
  <1>3. CASE \/ TakeSnapshot(u) \/ SnapshotFails(u) \/ Select(u) \/ Up(u)
             \/ UpFails(u) \/ GiveUp(u)
    BY <1>3, TakeSnapshotStep, SnapshotFailsStep, SelectStep, UpStep, UpFailsStep,
       GiveUpStep
  <1>4. CASE \/ ProbeMisses(u) \/ ProbeAnswers(u) \/ RestoreAnswers(u)
             \/ WriteState(u) \/ RestoreGivesUp(u) \/ HandlerUnlock(u) \/ Exit(u)
    BY <1>4, ProbeStep, EndStep, HandlerUnlockStep, OverStep
  <1>5. CASE \/ RestoreStop(u) \/ StageSnapshot(u) \/ MoveAside(u) \/ MoveAsideFails(u)
             \/ InstallStage(u) \/ RestoreSelect(u) \/ RestoreUp(u) \/ RestartOld(u)
    BY <1>5, RestoreStopStep, StageSnapshotStep, MoveAsideStep, MoveAsideFailsStep,
       InstallStageStep, RestoreSelectStep, RestoreUpStep, RestartOldStep
  <1> QED
    BY <1>1, <1>2, <1>3, <1>4, <1>5 DEF Proceed

-----------------------------------------------------------------------------
(* The server, the operator, and the start of a run                        *)

LEMMA ServerStep ==
  ASSUME DeploymentInv, Migrate \/ Write, UNCHANGED <<archive, backup, rollback>>
  PROVE  DeploymentInv'
  <1>1. /\ TypeOK /\ HostInv /\ DataKept /\ container \in Containers
        /\ container.image \in Images /\ kept \subseteq Data
        /\ override \in Images /\ live \in Data \cup {Null} /\ written \in 0..MaxWrites
    BY DEF DeploymentInv, ScriptsInv, TypeOK, UpdaterTypeOK, Containers
  <1>2. /\ container.running /\ Mounted # Null
        /\ Mounted \in Data /\ Mounted.whole
        /\ UNCHANGED <<lock, run, override>>
    BY <1>1 DEF Migrate, Write, Healthy, Mounted, HostInv, Containers
  <1>3. ~Downgrades => Mounted.schema <= container.image
    BY <1>1, <1>2 DEF Mounted, HostInv, HostAges
  <1>4. PICK data \in Data :
          /\ Modify(data) /\ data.whole
          /\ ~Downgrades => data.schema <= container.image
          /\ written' \in 0..MaxWrites
          /\ data.schema \in {Mounted.schema, container.image}
          /\ data.rev = written' \/ (written' = written /\ data.rev = Mounted.rev)
    <2>1. CASE Migrate
      <3> DEFINE data == [Mounted EXCEPT !.schema = container.image]
      <3>1. /\ data \in Data /\ data.whole /\ data.schema = container.image
            /\ data.rev = Mounted.rev /\ container.image <= container.image
        BY <1>1, <1>2 DEF Data, Images
      <3>2. Modify(data) /\ written' = written
        BY <2>1 DEF Migrate
      <3> HIDE DEF data
      <3> QED
        BY <1>1, <3>1, <3>2
    <2>2. CASE Write
      <3> DEFINE data == [Mounted EXCEPT !.rev = written + 1]
      <3>0. written < MaxWrites
        BY <2>2 DEF Write
      <3>1. /\ data \in Data /\ data.whole /\ data.schema = Mounted.schema
            /\ data.rev = written + 1 /\ written + 1 \in 0..MaxWrites
        BY <1>1, <1>2, <3>0, UpdaterAssumption DEF Data
      <3>2. Modify(data) /\ written' = written + 1
        BY <2>2 DEF Write
      <3> HIDE DEF data
      <3> QED
        BY <1>3, <3>1, <3>2
    <2> QED
      BY <2>1, <2>2
  <1>5. data # Null
    BY NullIsNoData
  <1>6. \/ /\ container.moved = Null /\ live' = data /\ live # Null /\ Mounted = live
           /\ UNCHANGED <<container, kept>>
        \/ /\ container.moved # Null /\ Mounted = container.moved
           /\ container' = [container EXCEPT !.moved = data]
           /\ kept' = kept \cup {data} /\ live' = live
    BY <1>2, <1>4 DEF Modify, Mounted
  <1>7. /\ container' \in Containers /\ container'.image = container.image
        /\ container'.running
        /\ container'.moved \in {container.moved, data}
        /\ container.moved = Null <=> container'.moved = Null
        /\ container.moved = Null => container' = container
        /\ container.moved # Null => container'.moved = data /\ live' = live
        /\ live' = data \/ live' = live
        /\ live = Null <=> live' = Null
        /\ kept' \subseteq Data /\ live' \in Data \cup {Null}
    BY <1>1, <1>2, <1>5, <1>6 DEF Containers
  <1>8. DataKept'
    <2>1. CASE data.rev = written'
      BY <1>4, <1>5, <1>6, <2>1 DEF DataKept
    <2>2. CASE written' = written /\ data.rev = Mounted.rev
      BY <1>1, <1>4, <1>5, <1>6, <2>2 DEF DataKept
    <2> QED
      BY <1>4, <2>1, <2>2
  <1>9. TypeOK' /\ HostInv'
    <2>1. TypeOK'
      BY <1>1, <1>2, <1>4, <1>7 DEF TypeOK, UpdaterTypeOK, Containers
    <2>2. HostInv'
      <3>1. CASE container.moved = Null
        BY <1>1, <1>2, <1>4, <1>6, <1>7, <3>1 DEF HostInv, HostAges
      <3>2. CASE container.moved # Null
        BY <1>1, <1>2, <1>4, <1>6, <1>7, <3>2 DEF HostInv, HostAges
      <3> QED
        BY <3>1, <3>2
    <2> QED
      BY <2>1, <2>2
  <1>10. OneWorks' /\ OneScript'
    BY <1>2 DEF DeploymentInv, ScriptsInv, OneWorks, OneScript, NoUpdate, Works, At
  <1>11. BackupInv'
    BY <1>4, <1>7 DEF DeploymentInv, ScriptsInv, BackupInv
  <1>12. RollbackInv'
    <2>1. RollbackInv
      BY DEF DeploymentInv, ScriptsInv
    <2>2. CASE rollback.at \in {"probe", "recover", "forward"}
      <3>1. /\ container.moved = Null /\ container' = container
            /\ live.schema <= override /\ container.image = override
        BY <1>2, <1>6, <1>7, <2>1, <2>2 DEF RollbackInv
      <3>2. live'.schema <= override
        BY <1>1, <1>4, <1>6, <3>1 DEF Images
      <3> QED
        BY <1>2, <1>7, <2>1, <2>2, <3>1, <3>2 DEF RollbackInv
    <2>3. CASE rollback.at \notin {"probe", "recover", "forward"}
      BY <1>2, <1>7, <2>1, <2>3 DEF RollbackInv
    <2> QED
      BY <2>2, <2>3
  <1>13. \A u \in Updaters : RunInv(u)'
    <2> TAKE u \in Updaters
    <2>1. RunInv(u) /\ run'[u] = run[u]
      BY <1>2 DEF DeploymentInv, ScriptsInv
    <2>2. FreshRun(u)' /\ CutoverRun(u)' /\ ServiceRun(u)'
      BY <1>2, <1>7, <2>1 DEF RunInv, FreshRun, CutoverRun, ServiceRun, At
    <2>3. RestoreRun(u)'
      BY <1>2, <1>7, <2>1 DEF RunInv, CutoverRun, RestoreRun, At, Restoring
    <2>4. ~Downgrades => AgesRun(u)'
      BY <1>2, <1>4, <1>7, <2>1 DEF RunInv, AgesRun, At, Works
    <2> QED
      BY <2>2, <2>3, <2>4 DEF RunInv
  <1> QED
    BY <1>8, <1>9, <1>10, <1>11, <1>12, <1>13 DEF DeploymentInv, ScriptsInv

LEMMA RemoveStaleLockStep ==
  ASSUME DeploymentInv, RemoveStaleLock, UNCHANGED <<archive, backup, rollback>>
  PROVE  DeploymentInv'
  <1>1. /\ lock' = FALSE /\ UNCHANGED <<run, hostVars>>
        /\ UNCHANGED <<run, container, override, live, kept, written>>
        /\ \A u \in Updaters : run[u].at = "idle"
    BY DEF RemoveStaleLock, hostVars, At
  <1>2. TypeOK' /\ DataKept' /\ OneScript'
    BY <1>1 DEF DeploymentInv, ScriptsInv, TypeOK, UpdaterTypeOK, DataKept,
       OneScript, NoUpdate, At
  <1>5. HostInv' /\ BackupInv' /\ RollbackInv'
    BY <1>1 DEF DeploymentInv, ScriptsInv, HostInv, HostAges, BackupInv, RollbackInv
  <1>3. OneWorks'
    BY <1>1 DEF OneWorks, Works
  <1>4. \A u \in Updaters : RunInv(u)'
    BY <1>1 DEF DeploymentInv, ScriptsInv, RunInv, FreshRun, CutoverRun, RestoreRun,
       ServiceRun, AgesRun, At, Works
  <1> QED
    BY <1>2, <1>3, <1>4, <1>5 DEF DeploymentInv, ScriptsInv

LEMMA PrepareStep ==
  ASSUME DeploymentInv, ~Overlap, NEW u \in Updaters, Prepare(u), NoOther,
         UNCHANGED <<archive, backup, rollback>>
  PROVE  DeploymentInv'
  <1>1. /\ TypeOK /\ HostInv /\ DataKept /\ At(u, "idle") /\ container.image \in Images
        /\ UNCHANGED <<lock, container, override, kept, written>>
        /\ \A v \in Updaters \ {u} : run[v].at # "r_install"
        /\ live' = IF live = Null THEN Blank ELSE live
    BY DEF DeploymentInv, ScriptsInv, TypeOK, UpdaterTypeOK, Prepare, Quiet
  <1>2. PICK image \in Images :
          run' = [run EXCEPT ![u] = [Fresh EXCEPT !.at = "prepared", !.candidate = image]]
    BY DEF Prepare
  <1> DEFINE new == [Fresh EXCEPT !.at = "prepared", !.candidate = image]
  <1>3. Fresh \in Runs
    BY UpdaterAssumption DEF Fresh, Runs, Places, Images
  <1>4. new \in Runs
    BY <1>3 DEF Runs, Places
  <1>5. /\ new.at = "prepared" /\ new.old = Null
        /\ ~new.rollbackReady /\ ~new.oldStopStarted /\ ~new.cutoverStarted
        /\ ~new.interrupted
    BY DEF Fresh
  <1>6. Moves(u) /\ run'[u] = new
    BY <1>1, <1>2, <1>4, SetMoves
  <1>7. /\ live' \in Data \cup {Null} /\ (live' = live \/ live = Null)
        /\ live # Null => live' = live
        /\ live' # Null /\ live'.whole
        /\ live = Null => live'.schema <= container.image
    <2>1. CASE live = Null
      <3>1. Blank.whole /\ Blank.schema <= container.image /\ live' = Blank
        BY <1>1, <2>1 DEF Blank, Images
      <3> QED
        BY <2>1, <3>1, NullIsNoData
    <2>2. CASE live # Null
      BY <1>1, <2>2 DEF HostInv, TypeOK, UpdaterTypeOK
    <2> QED
      BY <2>1, <2>2
  <1>8. TypeOK' /\ DataKept' /\ HostInv'
    <2>1. DataKept'
      BY <1>1, <1>7, KeptStep
    <2>2. TypeOK'
      BY <1>1, <1>6, <1>7 DEF TypeOK, UpdaterTypeOK, Moves
    <2>3. HostInv'
      BY <1>1, <1>7 DEF HostInv, HostAges
    <2> QED
      BY <2>1, <2>2, <2>3
  <1>9. RunInv(u)' /\ ~Works(u)'
    <2> HIDE DEF new
    <2> QED
      BY <1>5, <1>6 DEF RunInv, FreshRun, CutoverRun, RestoreRun, ServiceRun, AgesRun, At,
         Trapped, Restoring, Works
  <1>10. \A v \in Updaters \ {u} : RunInv(v)'
    <2> TAKE v \in Updaters \ {u}
    <2>1. RunInv(v) /\ run'[v] = run[v] /\ run[v].at # "r_install"
      BY <1>1, <1>6 DEF DeploymentInv, ScriptsInv, Moves
    <2>2. run[v].snapshot \in Data \cup {Null}
      BY <1>1 DEF TypeOK, UpdaterTypeOK, Runs
    <2> QED
      BY <1>1, <1>7, <2>1, <2>2 DEF RunInv, FreshRun, CutoverRun, RestoreRun, ServiceRun, AgesRun, At,
         Trapped, Restoring, Works
  <1>11. OneWorks'
    BY <1>1, <1>6, <1>9 DEF DeploymentInv, ScriptsInv, OneWorks, Works, At, Moves
  <1>12. OneScript' /\ BackupInv' /\ RollbackInv'
    BY DEF OneScript, BackupInv, RollbackInv, NoOther
  <1> QED
    BY <1>8, <1>9, <1>10, <1>11, <1>12 DEF DeploymentInv, ScriptsInv

-----------------------------------------------------------------------------
(* backup.sh and rollback.sh: no run is under way                          *)

LEMMA OperatorStep ==
  ASSUME DeploymentInv, NoUpdate, UNCHANGED <<lock, run>>, TypeOK', DataKept',
         HostInv', BackupInv', RollbackInv',
         backup'.at # "idle" => rollback'.at = "idle"
  PROVE  DeploymentInv'
  <1>1. \A u \in Updaters : run[u].at = "idle" /\ run'[u].at = "idle" /\ FreshRun(u)
    BY DEF NoUpdate, At, DeploymentInv, ScriptsInv, RunInv
  <1>2. OneWorks' /\ OneScript'
    BY <1>1 DEF OneWorks, Works, OneScript, NoUpdate, At
  <1>3. \A u \in Updaters : RunInv(u)'
    BY <1>1 DEF RunInv, FreshRun, CutoverRun, RestoreRun, ServiceRun, AgesRun, At, Works,
       Trapped, Restoring
  <1> QED
    BY <1>2, <1>3 DEF DeploymentInv, ScriptsInv

LEMMA BackupStopStep ==
  ASSUME DeploymentInv, ~Overlap, BackupStop
  PROVE  DeploymentInv'
  <1>1. /\ TypeOK /\ DataKept /\ HostInv /\ NoUpdate /\ rollback.at = "idle"
        /\ live \in Data \cup {Null}
        /\ UNCHANGED <<lock, run, override, live, kept, written, archive, rollback>>
        /\ Stop \/ UNCHANGED container
    BY DEF DeploymentInv, ScriptsInv, TypeOK, UpdaterTypeOK, BackupStop, OnlyScript, NoOther
  <1>2. /\ container' \in Containers /\ container'.image = container.image /\ HostInv'
    BY <1>1, StopHost
  <1>3. /\ backup' \in [at : {"idle", "archive", "restart"}, wasRunning : BOOLEAN]
        /\ backup'.wasRunning => container.running
    <2>1. \/ /\ container.running
             /\ \E place \in {"archive", "restart"} :
                  backup' = [at |-> place, wasRunning |-> TRUE]
          \/ backup' = [at |-> "archive", wasRunning |-> FALSE]
      BY DEF BackupStop
    <2>2. CASE /\ container.running
               /\ \E place \in {"archive", "restart"} :
                    backup' = [at |-> place, wasRunning |-> TRUE]
      BY <2>2
    <2>3. CASE backup' = [at |-> "archive", wasRunning |-> FALSE]
      <3>1. ~backup'.wasRunning
        BY <2>3
      <3> QED
        BY <2>3, <3>1
    <2> QED
      BY <2>1, <2>2, <2>3
  <1>4. TypeOK' /\ DataKept' /\ RollbackInv'
    BY <1>1, <1>2, <1>3 DEF TypeOK, UpdaterTypeOK, Containers, DataKept, RollbackInv
  <1>5. BackupInv'
    BY <1>1, <1>2, <1>3 DEF BackupInv, HostInv, HostAges
  <1> QED
    BY <1>1, <1>2, <1>4, <1>5, OperatorStep

LEMMA BackupArchiveStep ==
  ASSUME DeploymentInv, BackupArchive
  PROVE  DeploymentInv'
  <1>1. /\ TypeOK /\ DataKept /\ HostInv /\ BackupInv
        /\ NoUpdate /\ rollback.at = "idle" /\ live \in Data /\ backup.at # "idle"
        /\ UNCHANGED <<updaterVars, rollback>>
        /\ backup' = [backup EXCEPT !.at = "restart"]
        /\ archive' \in {archive, [live EXCEPT !.whole = live.whole /\ ~InUse]}
    BY DEF DeploymentInv, ScriptsInv, TypeOK, UpdaterTypeOK, BackupArchive, OneScript
  <1>2. UNCHANGED <<lock, run, container, override, live, kept, written>>
    BY <1>1 DEF updaterVars, hostVars
  <1>3. archive' \in Data \cup {Null}
    <2>1. (live.whole /\ ~InUse) \in BOOLEAN
      BY <1>1 DEF Data
    <2>2. [live EXCEPT !.whole = live.whole /\ ~InUse] \in Data
      BY <1>1, <2>1 DEF Data
    <2> QED
      BY <1>1, <2>2 DEF TypeOK
  <1>4. /\ backup' \in [at : {"idle", "archive", "restart"}, wasRunning : BOOLEAN]
        /\ backup'.wasRunning = backup.wasRunning
    BY <1>1 DEF TypeOK
  <1>5. TypeOK' /\ DataKept' /\ HostInv' /\ BackupInv' /\ RollbackInv'
    BY <1>1, <1>2, <1>3, <1>4 DEF TypeOK, UpdaterTypeOK, DataKept, HostInv, HostAges,
       BackupInv, RollbackInv
  <1> QED
    BY <1>1, <1>2, <1>5, OperatorStep

LEMMA BackupRestartStep ==
  ASSUME DeploymentInv, BackupRestart
  PROVE  DeploymentInv'
  <1>1. /\ TypeOK /\ DataKept /\ HostInv /\ BackupInv /\ container.image \in Images
        /\ container \in Containers /\ live \in Data \cup {Null}
        /\ NoUpdate /\ rollback.at = "idle" /\ backup' = NoBackup
        /\ UNCHANGED <<lock, run, override, kept, written, archive, rollback>>
        /\ \/ backup.wasRunning /\ backup.at # "idle" /\ Start(container.image)
           \/ UNCHANGED <<container, live>>
    BY DEF DeploymentInv, ScriptsInv, TypeOK, UpdaterTypeOK, Containers, BackupRestart,
           OneScript
  <1>2. /\ HostInv' /\ container' \in Containers
        /\ live' \in Data \cup {Null} /\ (live' = live \/ live = Null)
    <2>1. CASE backup.wasRunning /\ backup.at # "idle" /\ Start(container.image)
      BY <1>1, <2>1, StartHost DEF BackupInv
    <2>2. CASE UNCHANGED <<container, live>>
      BY <1>1, <2>2 DEF HostInv, HostAges
    <2> QED
      BY <1>1, <2>1, <2>2
  <1>3. DataKept'
    BY <1>1, <1>2, KeptStep
  <1>4. TypeOK' /\ BackupInv' /\ RollbackInv'
    BY <1>1, <1>2 DEF TypeOK, UpdaterTypeOK, Containers, BackupInv, RollbackInv, NoBackup
  <1> QED
    BY <1>1, <1>2, <1>3, <1>4, OperatorStep DEF NoBackup

(* What a step of rollback.sh may rely on.                                 *)
LEMMA AtRollback ==
  ASSUME DeploymentInv, rollback.at # "idle"
  PROVE  /\ TypeOK /\ DataKept /\ HostInv /\ RollbackInv
         /\ NoUpdate /\ backup.at = "idle"
         /\ container \in Containers
         /\ override \in Images /\ live \in Data \cup {Null} /\ kept \subseteq Data
         /\ rollback.target \in Images /\ rollback.candidate \in Images
         /\ rollback.stage \in Data \cup {Null}
  BY DEF DeploymentInv, ScriptsInv, TypeOK, UpdaterTypeOK, Containers, OneScript

RollbackPlaces ==
  {"idle", "down", "aside", "install", "start", "probe", "recover", "forward", "over",
   "healthy"}

Rollbacks == [at : RollbackPlaces, target : Images, candidate : Images,
              stage : Data \cup {Null}]

(* It goes on, with what it works on unchanged.                            *)
LEMMA RollbackGoes ==
  ASSUME TypeOK, NEW place \in RollbackPlaces,
         rollback' = [rollback EXCEPT !.at = place]
  PROVE  /\ rollback' \in Rollbacks
         /\ rollback'.at = place /\ rollback'.target = rollback.target
         /\ rollback'.candidate = rollback.candidate
         /\ rollback'.stage = rollback.stage
  BY DEF TypeOK, Rollbacks, RollbackPlaces

LEMMA RollbackStageStep ==
  ASSUME DeploymentInv, ~Overlap, NEW target \in Images, NEW candidate \in Images,
         RollbackStage(target, candidate)
  PROVE  DeploymentInv'
  <1>1. /\ NoUpdate /\ backup.at = "idle" /\ rollback.at = "idle"
        /\ archive # Null /\ archive.whole /\ archive.schema <= target
        /\ target <= override /\ override <= candidate
        /\ UNCHANGED <<updaterVars, archive, backup>>
        /\ rollback' = [at |-> "down", target |-> target, candidate |-> candidate,
                        stage |-> archive]
    BY DEF RollbackStage, OnlyScript, NoOther, ByTheRunbook
  <1>2. UNCHANGED <<lock, run, container, override, live, kept, written>>
    BY <1>1 DEF updaterVars, hostVars
  <1>3. TypeOK /\ DataKept /\ HostInv
    BY DEF DeploymentInv, ScriptsInv
  <1>4. TypeOK' /\ DataKept' /\ HostInv' /\ BackupInv' /\ RollbackInv'
    BY <1>1, <1>2, <1>3 DEF TypeOK, UpdaterTypeOK, DataKept, HostInv, HostAges, BackupInv,
       RollbackInv
  <1> QED
    BY <1>1, <1>2, <1>4, OperatorStep

(* The steps that stop the container.                                      *)
LEMMA RollbackDownStep ==
  ASSUME DeploymentInv, RollbackDown \/ ForwardDown
  PROVE  DeploymentInv'
  <1>1. /\ rollback.at \in {"down", "recover"} /\ (Stop \/ UNCHANGED container)
        /\ UNCHANGED <<lock, run, override, live, kept, written, archive, backup>>
    BY DEF RollbackDown, ForwardDown
  <1>2. PICK place \in {"aside", "forward"} :
          /\ rollback' = [rollback EXCEPT !.at = place]
          /\ place = "aside" => rollback.at = "down" /\ Stop
          /\ place = "forward" => rollback.at = "recover"
    BY DEF RollbackDown, ForwardDown
  <1>3. /\ rollback' \in Rollbacks
        /\ rollback'.at = place /\ rollback'.target = rollback.target
        /\ rollback'.candidate = rollback.candidate
        /\ rollback'.stage = rollback.stage
    BY <1>1, <1>2, AtRollback, RollbackGoes DEF RollbackPlaces
  <1>4. /\ container' \in Containers /\ container'.image = container.image
        /\ container'.running => container' = container
        /\ HostInv'
    BY <1>1, AtRollback, StopHost
  <1>5. /\ place = "aside" => ~container'.running
        /\ place = "forward" /\ container.moved = Null => container'.moved = Null
    BY <1>1, <1>2, AtRollback, StoppedHost
  <1>6. TypeOK' /\ DataKept' /\ BackupInv'
    BY <1>1, <1>3, <1>4, AtRollback DEF TypeOK, UpdaterTypeOK, Rollbacks,
       RollbackPlaces, Containers, DataKept, BackupInv
  <1>7. RollbackInv'
    BY <1>1, <1>2, <1>3, <1>4, <1>5, AtRollback DEF RollbackInv
  <1> QED
    BY <1>1, <1>4, <1>6, <1>7, AtRollback, OperatorStep

LEMMA RollbackAsideStep ==
  ASSUME DeploymentInv, RollbackAside
  PROVE  DeploymentInv'
  <1>1. /\ rollback.at = "aside" /\ PutAside
        /\ rollback' = [rollback EXCEPT !.at = "install"]
        /\ UNCHANGED <<lock, run, override, written, archive, backup>>
    BY DEF RollbackAside
  <1>2. /\ rollback' \in Rollbacks
        /\ rollback'.at = "install" /\ rollback'.target = rollback.target
        /\ rollback'.candidate = rollback.candidate
        /\ rollback'.stage = rollback.stage
    BY <1>1, AtRollback, RollbackGoes DEF RollbackPlaces
  <1>3. /\ container' \in Containers /\ container'.running = container.running
        /\ live' = Null /\ kept' \subseteq Data /\ kept \subseteq kept'
        /\ live = Null \/ live \in kept'
        /\ HostInv'
    BY <1>1, AtRollback, AsideHost
  <1>4. DataKept'
    BY <1>1, <1>3, AtRollback, KeptStep
  <1>5. TypeOK' /\ BackupInv'
    BY <1>1, <1>2, <1>3, AtRollback DEF TypeOK, UpdaterTypeOK, Rollbacks,
       RollbackPlaces, Containers, BackupInv
  <1>6. RollbackInv'
    BY <1>1, <1>2, <1>3, AtRollback DEF RollbackInv
  <1> QED
    BY <1>1, <1>3, <1>4, <1>5, <1>6, AtRollback, OperatorStep

LEMMA RollbackInstallStep ==
  ASSUME DeploymentInv, RollbackInstall
  PROVE  DeploymentInv'
  <1>1. /\ rollback.at = "install" /\ live = Null /\ ~container.running
        /\ rollback.stage \in Data /\ rollback.stage # Null /\ rollback.stage.whole
        /\ rollback.stage.schema <= rollback.target /\ rollback.target <= override
    BY AtRollback DEF RollbackInstall, RollbackInv
  <1>2. /\ live' = rollback.stage
        /\ UNCHANGED <<lock, run, container, override, kept, written, archive, backup>>
        /\ rollback' = [rollback EXCEPT !.at = "start", !.stage = Null]
    BY <1>1 DEF RollbackInstall
  <1>3. /\ rollback' \in Rollbacks
        /\ rollback'.at = "start" /\ rollback'.target = rollback.target
        /\ rollback'.candidate = rollback.candidate
    BY <1>1, <1>2, AtRollback DEF TypeOK, Rollbacks, RollbackPlaces
  <1>4. DataKept'
    BY <1>1, <1>2, AtRollback, KeptStep
  <1>5. live'.schema <= override
    BY <1>1, <1>2, AtRollback DEF Data, Images
  <1>6. TypeOK' /\ HostInv' /\ BackupInv'
    BY <1>1, <1>2, <1>3, <1>5, AtRollback DEF TypeOK, UpdaterTypeOK, Rollbacks,
       RollbackPlaces, HostInv, HostAges, BackupInv
  <1>7. RollbackInv'
    BY <1>1, <1>2, <1>3, AtRollback DEF RollbackInv
  <1> QED
    BY <1>1, <1>2, <1>4, <1>6, <1>7, AtRollback, OperatorStep

(* The image of a revision that the data is not newer than, whether or not *)
(* the override was written.                                               *)
LEMMA RevisionHost ==
  ASSUME DeploymentInv, NEW from, NEW image \in Images, NEW next \in RollbackPlaces,
         NEW otherwise \in RollbackPlaces, from # "idle",
         StartRevision(from, image, next, otherwise),
         live # Null => live.schema <= override /\ live.schema <= image
  PROVE  /\ NoUpdate /\ UNCHANGED <<lock, run, archive, backup>> /\ backup.at = "idle"
         /\ TypeOK' /\ HostInv' /\ DataKept' /\ BackupInv'
         /\ override' \in {override, image} /\ rollback'.at \in {next, otherwise}
         /\ rollback'.candidate = rollback.candidate
         /\ live # Null => live' = live
         /\ ~container.running /\ container.moved = Null =>
              container'.moved = Null /\ (container'.running => container'.image = override')
  <1>1. /\ UNCHANGED <<lock, run, kept, written, archive, backup>> /\ rollback.at # "idle"
        /\ override' \in {override, image} /\ override' \in Images
        /\ live # Null => live.schema <= override'
    BY AtRollback DEF StartRevision
  <1>2. CASE Start(override') /\ rollback' = [rollback EXCEPT !.at = next]
    <2>1. /\ rollback' \in Rollbacks /\ rollback'.at = next
          /\ rollback'.candidate = rollback.candidate
      BY <1>1, <1>2, AtRollback, RollbackGoes
    <2>2. /\ HostInv' /\ container' \in Containers
          /\ live' \in Data \cup {Null} /\ (live' = live \/ live = Null)
          /\ container'.image = override'
          /\ ~container.running => container'.moved = Null
          /\ live # Null => live' = live
      BY <1>1, <1>2, AtRollback, StartHost
    <2>3. DataKept'
      BY <1>1, <2>2, AtRollback, KeptStep
    <2>4. TypeOK' /\ BackupInv'
      BY <1>1, <2>1, <2>2, AtRollback DEF TypeOK, UpdaterTypeOK, Rollbacks,
         RollbackPlaces, Containers, BackupInv
    <2> QED
      BY <1>1, <2>1, <2>2, <2>3, <2>4, AtRollback
  <1>3. CASE /\ StartFails(override') /\ UNCHANGED live
             /\ rollback' = [rollback EXCEPT !.at = otherwise]
    <2>1. /\ rollback' \in Rollbacks /\ rollback'.at = otherwise
          /\ rollback'.candidate = rollback.candidate
      BY <1>1, <1>3, AtRollback, RollbackGoes
    <2>2. /\ HostInv' /\ container' \in Containers
          /\ container' = container \/ (~container'.running /\ container'.moved = Null)
      BY <1>1, <1>3, AtRollback, FailHost
    <2>3. DataKept' /\ TypeOK' /\ BackupInv'
      BY <1>1, <1>3, <2>1, <2>2, AtRollback DEF TypeOK, UpdaterTypeOK, Rollbacks,
         RollbackPlaces, Containers, BackupInv, DataKept
    <2> QED
      BY <1>1, <1>3, <2>1, <2>2, <2>3, AtRollback
  <1> QED
    BY <1>2, <1>3 DEF StartRevision

LEMMA StartRevisionStep ==
  ASSUME DeploymentInv, RollbackStart \/ ForwardStart
  PROVE  DeploymentInv'
  <1>1. CASE RollbackStart
    <2>1. StartRevision("start", rollback.target, "probe", "recover") /\ rollback.at = "start"
      BY <1>1 DEF RollbackStart, StartRevision
    <2>2. /\ HostInv /\ rollback.target \in Images /\ rollback.candidate \in Images
          /\ override \in Images /\ live \in Data /\ live # Null
          /\ live.schema <= rollback.target /\ rollback.target <= override
          /\ override <= rollback.candidate /\ ~container.running /\ container.moved = Null
      BY <2>1, AtRollback DEF RollbackInv, HostInv
    <2>3. /\ live.schema <= override /\ rollback.target <= rollback.candidate
          /\ {"probe", "recover"} \subseteq RollbackPlaces
      BY <2>2 DEF Images, Data, RollbackPlaces
    <2>4. /\ NoUpdate /\ UNCHANGED <<lock, run>> /\ backup' = backup /\ backup.at = "idle"
          /\ TypeOK' /\ HostInv' /\ DataKept' /\ BackupInv'
          /\ override' \in {override, rollback.target}
          /\ rollback'.at \in {"probe", "recover"}
          /\ rollback'.candidate = rollback.candidate
          /\ live' = live /\ container'.moved = Null
          /\ container'.running => container'.image = override'
      BY <2>1, <2>2, <2>3, RevisionHost
    <2>5. RollbackInv'
      BY <2>2, <2>3, <2>4 DEF RollbackInv
    <2> QED
      BY <2>4, <2>5, OperatorStep
  <1>2. CASE ForwardStart
    <2>1. /\ StartRevision("forward", rollback.candidate, "over", "over")
          /\ rollback.at = "forward"
      BY <1>2 DEF ForwardStart, StartRevision
    <2>2. /\ rollback.candidate \in Images /\ override \in Images
          /\ live \in Data \cup {Null} /\ override <= rollback.candidate
          /\ live # Null => live.schema <= override
      BY <2>1, AtRollback DEF RollbackInv
    <2>3. /\ live # Null => live.schema <= rollback.candidate
          /\ "over" \in RollbackPlaces
      BY <2>2 DEF Images, Data, RollbackPlaces
    <2>4. /\ NoUpdate /\ UNCHANGED <<lock, run>> /\ backup' = backup /\ backup.at = "idle"
          /\ TypeOK' /\ HostInv' /\ DataKept' /\ BackupInv' /\ rollback'.at = "over"
      BY <2>1, <2>2, <2>3, RevisionHost
    <2>5. RollbackInv'
      BY <2>4 DEF RollbackInv
    <2> QED
      BY <2>4, <2>5, OperatorStep
  <1> QED
    BY <1>1, <1>2

(* The steps that look, and the end.                                       *)
LEMMA RollbackLooksStep ==
  ASSUME DeploymentInv, RollbackHealthy \/ RollbackUnhealthy \/ RollbackEnds
  PROVE  DeploymentInv'
  <1>1. /\ rollback.at # "idle"
        /\ \/ rollback' = NoRollback
           \/ /\ rollback.at = "probe"
              /\ \E place \in {"recover", "healthy"} :
                   rollback' = [rollback EXCEPT !.at = place]
        /\ UNCHANGED <<updaterVars, archive, backup>>
    BY DEF RollbackHealthy, RollbackUnhealthy, RollbackEnds
  <1>2. UNCHANGED <<lock, run, container, override, live, kept, written>>
    BY <1>1 DEF updaterVars, hostVars
  <1>3. /\ rollback' \in Rollbacks
        /\ rollback'.at \in {"idle", "recover", "healthy"}
        /\ rollback'.at = "recover" =>
             rollback.at = "probe" /\ rollback'.candidate = rollback.candidate
    <2>1. CASE rollback' = NoRollback
      BY <2>1, UpdaterAssumption DEF NoRollback, Images, Rollbacks, RollbackPlaces
    <2>2. CASE rollback.at = "probe" /\ \E place \in {"recover", "healthy"} :
                 rollback' = [rollback EXCEPT !.at = place]
      BY <1>1, <2>2, AtRollback, RollbackGoes DEF RollbackPlaces
    <2> QED
      BY <1>1, <2>1, <2>2
  <1>4. TypeOK' /\ DataKept' /\ HostInv' /\ BackupInv' /\ RollbackInv'
    BY <1>1, <1>2, <1>3, AtRollback DEF TypeOK, UpdaterTypeOK, Rollbacks,
       RollbackPlaces, DataKept, HostInv, HostAges, BackupInv, RollbackInv
  <1> QED
    BY <1>1, <1>2, <1>4, AtRollback, OperatorStep

-----------------------------------------------------------------------------
(* The invariant, and what follows from it                                 *)

LEMMA DeploymentInitial ==
  ASSUME DeploymentInit
  PROVE  DeploymentInv
  <1>1. 1 \in Images /\ 1 \in 0..MaxImage /\ 0 \in 0..MaxWrites /\ Null \notin Data
    BY UpdaterAssumption, NullIsNoData DEF Images
  <1>2. Fresh \in Runs
    BY UpdaterAssumption DEF Fresh, Runs, Places, Images
  <1>3. /\ lock = FALSE /\ override = 1
        /\ container = [image |-> 1, running |-> TRUE, moved |-> Null]
        /\ live = [schema |-> 1, rev |-> 0, whole |-> TRUE] /\ kept = {} /\ written = 0
        /\ archive = Null /\ backup = NoBackup /\ rollback = NoRollback
        /\ run = [u \in Updaters |-> Fresh]
    BY DEF DeploymentInit, UpdaterInit
  <1>4. live \in Data /\ live # Null
    <2>1. [schema |-> 1, rev |-> 0, whole |-> TRUE] \in Data
      BY <1>1 DEF Data
    <2> QED
      BY <1>1, <1>3, <2>1
  <1>5. TypeOK
    BY <1>1, <1>2, <1>3, <1>4 DEF TypeOK, UpdaterTypeOK, NoBackup, NoRollback
  <1>6. DataKept
    BY <1>3, <1>4 DEF DataKept
  <1>7. \A u \in Updaters : run[u] = Fresh
    BY <1>3
  <1>8. \A u \in Updaters : RunInv(u) /\ ~Works(u) /\ At(u, "idle")
    BY <1>7 DEF Fresh, RunInv, FreshRun, CutoverRun, RestoreRun, ServiceRun, AgesRun, At, Works,
       Trapped, Restoring
  <1>9. HostInv /\ BackupInv /\ RollbackInv /\ OneWorks /\ OneScript
    BY <1>3, <1>4, <1>8 DEF HostInv, HostAges, BackupInv, RollbackInv, OneWorks, OneScript,
       NoBackup, NoRollback
  <1> QED
    BY <1>5, <1>6, <1>8, <1>9 DEF DeploymentInv, ScriptsInv

LEMMA DeploymentStep ==
  ASSUME DeploymentInv, ~Overlap, [Next]_deploymentVars
  PROVE  DeploymentInv'
  <1>1. CASE Update
    <2>1. UNCHANGED <<archive, backup, rollback>> /\ UpdaterNext
      BY <1>1 DEF Update
    <2>2. ASSUME NEW u \in Updaters, Prepare(u)
          PROVE  DeploymentInv'
      <3>1. At(u, "idle") /\ run'[u].at = "prepared"
        BY <2>2 DEF Prepare, DeploymentInv, TypeOK, UpdaterTypeOK, Fresh
      <3>2. NoOther
        BY <1>1, <3>1 DEF Update, At
      <3> QED
        BY <2>1, <2>2, <3>2, PrepareStep
    <2>3. ASSUME NEW u \in Updaters, Proceed(u) \/ Interrupt(u) \/ Kill(u)
          PROVE  DeploymentInv'
      BY <2>1, <2>3, ProceedStep, InterruptStep, OverStep
    <2> QED
      BY <2>1, <2>2, <2>3, ServerStep, RemoveStaleLockStep DEF UpdaterNext
  <1>2. CASE BackupStop \/ BackupArchive \/ BackupRestart
    BY <1>2, BackupStopStep, BackupArchiveStep, BackupRestartStep
  <1>3. CASE \E target, candidate \in Images : RollbackStage(target, candidate)
    BY <1>3, RollbackStageStep
  <1>4. CASE \/ RollbackDown \/ RollbackAside \/ RollbackInstall \/ RollbackStart
             \/ RollbackHealthy \/ RollbackUnhealthy \/ ForwardDown \/ ForwardStart
             \/ RollbackEnds
    BY <1>4, RollbackDownStep, RollbackAsideStep, RollbackInstallStep,
       StartRevisionStep, RollbackLooksStep
  <1>5. CASE UNCHANGED deploymentVars
    <2>1. /\ UNCHANGED <<lock, run, container, override, live, kept, written>>
          /\ UNCHANGED <<archive, backup, rollback>>
      BY <1>5 DEF deploymentVars, updaterVars, hostVars
    <2>2. TypeOK' /\ DataKept' /\ HostInv' /\ BackupInv' /\ RollbackInv'
      BY <2>1 DEF DeploymentInv, ScriptsInv, TypeOK, UpdaterTypeOK, DataKept, HostInv,
         HostAges, BackupInv, RollbackInv
    <2>3. OneWorks' /\ OneScript' /\ \A u \in Updaters : RunInv(u)'
      BY <2>1 DEF DeploymentInv, ScriptsInv, OneWorks, OneScript, NoUpdate, Works, At,
         RunInv, FreshRun, CutoverRun, RestoreRun, ServiceRun, AgesRun
    <2> QED
      BY <2>2, <2>3 DEF DeploymentInv, ScriptsInv
  <1> QED
    BY <1>1, <1>2, <1>3, <1>4, <1>5 DEF Next

(* What update.sh, backup.sh and rollback.sh rely on when they start, and   *)
(* what they leave behind wherever they stop: the invariant of the rest.    *)
(* Its part about the ages of images and data is there without Downgrades.  *)
THEOREM DeploymentInvariance == ~Overlap => (Spec => []DeploymentInv)
  <1> SUFFICES ASSUME ~Overlap PROVE Spec => []DeploymentInv
    OBVIOUS
  <1>1. DeploymentInv /\ [Next]_deploymentVars => DeploymentInv'
    BY DeploymentStep
  <1> QED
    BY <1>1, DeploymentInitial, PTL DEF Spec

(* Every variable of the scripts' model keeps its type.                    *)
THEOREM DeploymentTypesKept == ~Overlap => (Spec => []TypeOK)
  <1> SUFFICES ASSUME ~Overlap PROVE Spec => []TypeOK
    OBVIOUS
  <1>1. DeploymentInv => TypeOK
    BY DEF DeploymentInv
  <1> QED
    BY <1>1, DeploymentInvariance, PTL

(* update.sh, backup.sh and rollback.sh never delete vault data: wherever   *)
(* they fail, are interrupted or killed, the last accepted write is in the  *)
(* live directory or in a whole copy.                                       *)
THEOREM NoWriteIsLost == ~Overlap => (Spec => []DataKept)
  <1> SUFFICES ASSUME ~Overlap PROVE Spec => []DataKept
    OBVIOUS
  <1>1. DeploymentInv => DataKept
    BY DEF DeploymentInv
  <1> QED
    BY <1>1, DeploymentInvariance, PTL

(* update.sh's lock: one run at a time works on the installation.          *)
THEOREM UpdatesAreAlone == ~Overlap => (Spec => []OneUpdateAtATime)
  <1> SUFFICES ASSUME ~Overlap PROVE Spec => []OneUpdateAtATime
    OBVIOUS
  <1>1. DeploymentInv => OneUpdateAtATime
    BY DEF DeploymentInv, ScriptsInv, OneWorks, OneUpdateAtATime, Works, At, Trapped,
           Restoring
  <1> QED
    BY <1>1, DeploymentInvariance, PTL

(* docs/rollback.md: where no update is told to install an older image, no  *)
(* image ever opens data that a newer one has opened, in any update, failed *)
(* update, restore or rollback.  Nothing in update.sh refuses a downgrade:  *)
(* with Downgrades the property is false, as the run downgrade shows.       *)
THEOREM NewDataIsSafe == ~Overlap /\ ~Downgrades => (Spec => []OldNeverOpensNew)
  <1> SUFFICES ASSUME ~Overlap, ~Downgrades PROVE Spec => []OldNeverOpensNew
    OBVIOUS
  <1>1. DeploymentInv => OldNeverOpensNew
    BY DEF DeploymentInv, ScriptsInv, HostInv, HostAges, OldNeverOpensNew, Mounted,
           TypeOK, UpdaterTypeOK, Data, Images
  <1> QED
    BY <1>1, DeploymentInvariance, PTL

(* Where no update is told to install an older image: the snapshot that a   *)
(* failed update goes back to is a whole copy of the stopped data, which no *)
(* newer image than the one restored has opened, and it is what that image  *)
(* is started on; a rollback puts a whole archive in place before it starts *)
(* the target.  The archive is the operator's: that it is whole and from    *)
(* before the upgrade is ByTheRunbook, not a work of backup.sh.             *)
THEOREM RestoresMatch == ~Overlap /\ ~Downgrades => (Spec => []CopiesMatch)
  <1> SUFFICES ASSUME ~Overlap, ~Downgrades PROVE Spec => []CopiesMatch
    OBVIOUS
  <1>1. DeploymentInv => CopiesMatch
    BY DEF DeploymentInv, ScriptsInv, RollbackInv, RunInv, RestoreRun, AgesRun,
           CopiesMatch, SnapshotMatches, At
  <1> QED
    BY <1>1, DeploymentInvariance, PTL

(* A run that stopped a container and met no failing command and no signal  *)
(* ends with a container that runs.                                         *)
THEOREM UpdatesEndServing == ~Overlap => (Spec => []ServiceComesBack)
  <1> SUFFICES ASSUME ~Overlap PROVE Spec => []ServiceComesBack
    OBVIOUS
  <1>1. DeploymentInv => ServiceComesBack
    BY DEF DeploymentInv, ScriptsInv, RunInv, ServiceRun, ServiceComesBack, At
  <1> QED
    BY <1>1, DeploymentInvariance, PTL
=============================================================================
