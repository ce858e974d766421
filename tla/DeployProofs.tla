---------------------------- MODULE DeployProofs ----------------------------
(***************************************************************************)
(* What holds of the deploy wrapper for any releases, migrations, retention *)
(* and number of failing steps, and for hosts with and without edge or web. *)
(*                                                                         *)
(* The argument follows the script: how far the apply has come says which  *)
(* parts of the host are already the target's (Forward), which backups are *)
(* those of the previous release (Backups) and, in a rollback without a    *)
(* failed step, which parts are the previous release's again (Restored).   *)
(* What is recorded is tied to the parts that serve outside the switch     *)
(* (Recorded), and the database is never behind them (Migrated).  What     *)
(* serves is in the directories, because only what is there is put into    *)
(* service and pruning keeps what was just recorded (Retained).            *)
(***************************************************************************)
EXTENDS DeployWrapper, SequenceTheorems, TLAPS

-----------------------------------------------------------------------------
(* The inductive invariant. *)

Shape ==
  /\ host \in Host /\ schema \in Nat /\ cur \in Record /\ ap \in Apply
  /\ lapsed \in BOOLEAN /\ astray \in BOOLEAN
  /\ ~At("idle") => ap.sha \in Releases
  /\ ap.pc \in {"fbackup", "install", "test"} => EdgeHere
  /\ At("undo_files") => ap.nginx

\* the steps at which what serves has not been touched, or is on record again
Quiet == {"idle", "mark", "prune"} \cup Early \cup Undo

\* outside the switch the record is true, unless an earlier apply lapsed
Recorded ==
  /\ ap.pc \notin Quiet => cur.status \in {"transitioning", "failed"}
  /\ cur.status = "deployed" => ServesBehind(cur.sha) /\ (astray \/ Serves(cur.sha))
  /\ ~lapsed /\ ap.pc \in Quiet =>
       /\ cur.status \in {"none", "deployed", "rolled_back_to"}
       /\ Serves(cur.sha)
       /\ ap.pc \notin {"idle", "prune"} => cur.sha = ap.prev
  /\ At("prune") => cur.sha = ap.sha

\* parts that are the target's
Forward ==
  /\ ap.pc \in {"fbackup", "install", "test", "mark", "record", "prune"} \cup Late =>
       host.config = ap.sha
  /\ EdgeHere /\ ap.pc \in {"test", "mark", "record", "prune"} \cup Late => host.files = ap.sha
  /\ ap.pc \in {"publish", "switch", "reload", "check", "record"} =>
       host.api = ap.sha /\ host.conf = ap.sha
  /\ WebHere /\ ap.pc \in {"reload", "check", "record"} => host.web = ap.sha
  /\ EdgeHere /\ ap.pc \in {"check", "record"} => host.edge = ap.sha
  /\ ap.pc \in {"check", "record"} => ~astray

\* what can be gone back to
Backups ==
  ~lapsed =>
    /\ At("idle") => host.config = cur.sha /\ (EdgeHere => host.files = cur.sha)
    /\ ap.pc \in {"backup", "undo_files"} => host.config = ap.prev
    /\ EdgeHere /\ ap.pc \in {"backup", "config", "fbackup"} => host.files = ap.prev
    /\ EdgeHere /\ At("undo_config") /\ ~ap.nginx => host.files = ap.prev
    /\ ap.pc \notin {"idle", "backup"} => ap.cfg = ap.prev
    /\ ap.pc \in {"install", "test"} => ap.nginx
    /\ ap.nginx => ap.files = ap.prev
    /\ EdgeHere /\ ap.pc \notin {"idle", "backup", "config", "fbackup"} \cup Undo =>
         ap.files = ap.prev

\* parts that a rollback without a failed step brought back
Restored ==
  ~lapsed /\ ap.ok =>
    /\ ap.pc \in {"rb_files", "rb_web", "rb_up", "rb_reload", "rb_check", "rb_record"} =>
         host.config = ap.prev
    /\ EdgeHere /\ ap.pc \in {"rb_web", "rb_up", "rb_reload", "rb_check", "rb_record"} =>
         host.files = ap.prev
    /\ WebHere /\ ap.pc \in {"rb_up", "rb_reload", "rb_check", "rb_record"} =>
         host.web = ap.prev
    /\ ap.pc \in {"rb_reload", "rb_check", "rb_record"} =>
         host.api = ap.prev /\ host.conf = ap.prev
    /\ EdgeHere /\ ap.pc \in {"rb_check", "rb_record"} => host.edge = ap.prev

Migrated ==
  /\ At("up") => Level[ap.sha] <= schema
  /\ ~lapsed /\ host.api # None => Level[host.api] <= schema
  /\ ~lapsed /\ ap.prev # None => Level[ap.prev] <= schema

IInv == Shape /\ Recorded /\ Forward /\ Backups /\ Restored /\ Migrated

-----------------------------------------------------------------------------
(* What a step does, field by field. *)

ApplyIs(pc, cfg, files, nginx, ok) ==
  /\ ap' \in Apply /\ ap'.pc = pc /\ ap'.sha = ap.sha /\ ap'.prev = ap.prev
  /\ ap'.cfg = cfg /\ ap'.files = files /\ ap'.nginx = nginx /\ ap'.ok = ok

Proceeds(pc) == ApplyIs(pc, ap.cfg, ap.files, ap.nginx, ap.ok)

Exited == ap' \in Apply /\ ap'.pc = "idle" /\ ap'.prev = None /\ ~ap'.nginx /\ ap'.ok

HostIs(config, files, conf, edge, api, web) ==
  /\ host' \in Host
  /\ host'.config = config /\ host'.files = files /\ host'.conf = conf
  /\ host'.edge = edge /\ host'.api = api /\ host'.web = web

HostKept == HostIs(host.config, host.files, host.conf, host.edge, host.api, host.web)

Unrecorded == cur' = cur /\ schema' = schema /\ lapsed' = lapsed /\ astray' = astray

\* A step that only moves the script on.
LEMMA GoEffect ==
  ASSUME Shape, NEW pc \in Steps, Go(pc)
  PROVE  Proceeds(pc)
  BY DEF Shape, Apply, Go, Proceeds, ApplyIs

\* The end of an apply.
LEMMA ExitEffect ==
  ASSUME Exit
  PROVE  Exited
  BY DEF Exit, Exited, NoApply, Apply, Steps, Files

\* A step that leaves the host alone.
LEMMA HostKeptEffect == ASSUME Shape, UNCHANGED host PROVE HostKept
  BY DEF Shape, HostKept, HostIs

\* What is left of a step that fails: the parts it does not write are as before.
LEMMA HalfEffect ==
  ASSUME Shape, host' \in Half
  PROVE  /\ host' \in Host
         /\ host'.web = host.web /\ host'.edge = host.edge
         /\ ap.pc \notin {"config", "undo_config", "rb_config"} => host'.config = host.config
         /\ ap.pc \notin {"install", "undo_files", "rb_files"} => host'.files = host.files
         /\ ap.pc \notin {"up", "rb_up"} => host'.api = host.api /\ host'.conf = host.conf
         /\ At("up") => host'.api \in {host.api, ap.sha}
         /\ At("rb_up") => host'.api \in {host.api, ap.prev}
  <1>1. CASE ap.pc \in {"config", "undo_config", "rb_config"}
    <2>1. host' = host \/ host' = [host EXCEPT !.config = Mixed]
      BY <1>1 DEF Half
    <2>2. QED
      BY <1>1, <2>1 DEF Shape, Host, Files, At
  <1>2. CASE ap.pc \in {"install", "undo_files", "rb_files"}
    <2>1. host' = host \/ host' = [host EXCEPT !.files = Mixed]
      BY <1>2 DEF Half
    <2>2. QED
      BY <1>2, <2>1 DEF Shape, Host, Files, At
  <1>3. CASE ap.pc = "up"
    <2>1. host' = host \/ host' = [host EXCEPT !.api = ap.sha, !.conf = host.config]
      BY <1>3 DEF Half, Running
    <2>2. QED
      BY <1>3, <2>1 DEF Shape, Host, Apply, At
  <1>4. CASE ap.pc = "rb_up"
    <2>1. host' = host \/ host' = [host EXCEPT !.api = ap.prev, !.conf = host.config]
      BY <1>4 DEF Half, Running
    <2>2. QED
      BY <1>4, <2>1 DEF Shape, Host, Apply, At
  <1>5. CASE ap.pc \notin {"config", "undo_config", "rb_config", "install", "undo_files",
                          "rb_files", "up", "rb_up"}
    <2>1. host' = host
      BY <1>5 DEF Half
    <2>2. QED
      BY <1>5, <2>1 DEF Shape, At
  <1>6. QED
    BY <1>1, <1>2, <1>3, <1>4, <1>5

-----------------------------------------------------------------------------
(* The preparation. *)

\* The backup of the config is the previous release's.
LEMMA BackupConfigKeeps == ASSUME IInv, BackupConfig PROVE IInv'
  <1>1. At("backup") /\ ApplyIs("config", host.config, ap.files, ap.nginx, ap.ok)
    BY DEF IInv, Shape, BackupConfig, ApplyIs, Apply, Host, Steps, Early, At
  <1>2. HostKept
    BY HostKeptEffect DEF IInv, BackupConfig
  <1>3. Unrecorded
    BY DEF BackupConfig, HostOnly, Unrecorded
  <1>4. QED
    BY <1>1, <1>2, <1>3
    DEF IInv, Shape, Recorded, Forward, Backups, Restored, Migrated, Exited, Quiet, Early,
        Late, Undo, At, Serves, ServesBehind, Proceeds, ApplyIs, HostKept, HostIs, Unrecorded

\* The config becomes the target's.
LEMMA InstallConfigKeeps == ASSUME IInv, InstallConfig PROVE IInv'
  <1>1. At("config") /\ Proceeds(IF EdgeHere THEN "fbackup" ELSE "mark")
    BY GoEffect DEF IInv, InstallConfig, Steps, Early, Late, Undo, Rollback, Writes, At
  <1>2. HostIs(ap.sha, host.files, host.conf, host.edge, host.api, host.web)
    BY DEF IInv, Shape, InstallConfig, HostIs, Host, Apply, Files
  <1>3. Unrecorded
    BY DEF InstallConfig, HostOnly, Unrecorded
  <1>4. QED
    BY <1>1, <1>2, <1>3, DeployAssumption
    DEF IInv, Shape, Recorded, Forward, Backups, Restored, Migrated, Exited, Quiet, Early,
        Late, Undo, At, Serves, ServesBehind, Proceeds, ApplyIs, HostKept, HostIs, Unrecorded

\* The backup of the nginx files is the previous release's.
LEMMA BackupNginxKeeps == ASSUME IInv, BackupNginx PROVE IInv'
  <1>1. At("fbackup") /\ ApplyIs("install", ap.cfg, host.files, TRUE, ap.ok)
    BY DEF IInv, Shape, BackupNginx, ApplyIs, Apply, Host, Steps, Early, At
  <1>2. HostKept
    BY HostKeptEffect DEF IInv, BackupNginx
  <1>3. Unrecorded
    BY DEF BackupNginx, HostOnly, Unrecorded
  <1>4. QED
    BY <1>1, <1>2, <1>3
    DEF IInv, Shape, Recorded, Forward, Backups, Restored, Migrated, Exited, Quiet, Early,
        Late, Undo, At, Serves, ServesBehind, Proceeds, ApplyIs, HostKept, HostIs, Unrecorded

\* The nginx files become the target's.
LEMMA InstallNginxKeeps == ASSUME IInv, InstallNginx PROVE IInv'
  <1>1. At("install") /\ Proceeds("test")
    BY GoEffect DEF IInv, InstallNginx, Steps, Early, Late, Undo, Rollback, Writes, At
  <1>2. HostIs(host.config, ap.sha, host.conf, host.edge, host.api, host.web)
    BY DEF IInv, Shape, InstallNginx, HostIs, Host, Apply, Files
  <1>3. Unrecorded
    BY DEF InstallNginx, HostOnly, Unrecorded
  <1>4. QED
    BY <1>1, <1>2, <1>3
    DEF IInv, Shape, Recorded, Forward, Backups, Restored, Migrated, Exited, Quiet, Early,
        Late, Undo, At, Serves, ServesBehind, Proceeds, ApplyIs, HostKept, HostIs, Unrecorded

\* nginx -t changes nothing.
LEMMA TestNginxKeeps == ASSUME IInv, TestNginx PROVE IInv'
  <1>1. At("test") /\ Proceeds("mark")
    BY GoEffect DEF IInv, TestNginx, Steps, Early, Late, Undo, Rollback, Writes, At
  <1>2. HostKept
    BY HostKeptEffect DEF IInv, TestNginx
  <1>3. Unrecorded
    BY DEF TestNginx, HostOnly, Unrecorded
  <1>4. QED
    BY <1>1, <1>2, <1>3
    DEF IInv, Shape, Recorded, Forward, Backups, Restored, Migrated, Exited, Quiet, Early,
        Late, Undo, At, Serves, ServesBehind, Proceeds, ApplyIs, HostKept, HostIs, Unrecorded

\* The marker says that a switch has begun.
LEMMA WriteMarkerKeeps == ASSUME IInv, WriteMarker PROVE IInv'
  <1>1. At("mark") /\ Proceeds("load")
    BY GoEffect DEF IInv, WriteMarker, Steps, Early, Late, Undo, Rollback, Writes, At
  <1>2. HostKept
    BY HostKeptEffect DEF IInv, WriteMarker
  <1>3. /\ schema' = schema /\ lapsed' = lapsed /\ astray' = astray /\ cur' \in Record
        /\ cur'.status = "transitioning" /\ cur'.sha = ap.prev
    BY DEF WriteMarker, IInv, Shape, Apply, Record, disk
  <1>4. QED
    BY <1>1, <1>2, <1>3
    DEF IInv, Shape, Recorded, Forward, Backups, Restored, Migrated, Exited, Quiet, Early,
        Late, Undo, At, Serves, ServesBehind, Proceeds, ApplyIs, HostKept, HostIs, Unrecorded

-----------------------------------------------------------------------------
(* A failure before the switch. *)

\* A failure before the marker undoes what was installed, and records nothing.
LEMMA EarlyFailureKeeps == ASSUME IInv, EarlyFailure PROVE IInv'
  <1>1. ap.pc \in Early /\ Unrecorded
    BY DEF EarlyFailure, Fault, Unrecorded
  <1>2. Shape /\ host' \in Half
    BY DEF IInv, EarlyFailure
  <1>3. CASE At("backup")
    <2>1. Exited
      BY <1>3, ExitEffect DEF EarlyFailure
    <2>2. QED
      BY <1>1, <1>2, <1>3, <2>1, HalfEffect
      DEF IInv, Shape, Recorded, Forward, Backups, Restored, Migrated, Exited, Quiet,
          Early, Late, Undo, At, Serves, ServesBehind, Unrecorded
  <1>4. CASE ~At("backup")
    <2>1. Proceeds("undo_config")
      BY <1>4, GoEffect DEF IInv, EarlyFailure, Steps, Undo
    <2>2. QED
      BY <1>1, <1>2, <1>4, <2>1, HalfEffect
      DEF IInv, Shape, Recorded, Forward, Backups, Restored, Migrated, Exited, Quiet,
          Early, Late, Undo, At, Serves, ServesBehind, Proceeds, ApplyIs, Unrecorded
  <1>5. QED
    BY <1>3, <1>4

\* The config is the previous release's again.
LEMMA UndoConfigKeeps == ASSUME IInv, UndoConfig PROVE IInv'
  <1>1. At("undo_config") /\ Unrecorded
    BY DEF UndoConfig, HostOnly, Unrecorded
  <1>2. HostIs(ap.cfg, host.files, host.conf, host.edge, host.api, host.web)
    BY DEF IInv, Shape, UndoConfig, HostIs, Host, Apply
  <1>3. CASE ap.nginx
    <2>1. Proceeds("undo_files")
      BY <1>1, <1>3, GoEffect DEF IInv, UndoConfig, NextUndo, Steps, Undo
    <2>2. QED
      BY <1>1, <1>2, <1>3, <2>1
      DEF IInv, Shape, Recorded, Forward, Backups, Restored, Migrated, Exited, Quiet,
          Early, Late, Undo, At, Serves, ServesBehind, Proceeds, ApplyIs, HostKept, HostIs, Unrecorded
  <1>4. CASE ~ap.nginx
    <2>1. Exited
      BY <1>1, <1>4, ExitEffect DEF UndoConfig, NextUndo
    <2>2. QED
      BY <1>1, <1>2, <1>4, <2>1
      DEF IInv, Shape, Recorded, Forward, Backups, Restored, Migrated, Exited, Quiet,
          Early, Late, Undo, At, Serves, ServesBehind, Proceeds, ApplyIs, HostKept, HostIs, Unrecorded
  <1>5. QED
    BY <1>3, <1>4

\* The nginx files are the previous release's again.
LEMMA UndoNginxKeeps == ASSUME IInv, UndoNginx PROVE IInv'
  <1>1. At("undo_files") /\ Unrecorded
    BY DEF UndoNginx, HostOnly, Unrecorded
  <1>2. HostIs(host.config, ap.files, host.conf, host.edge, host.api, host.web)
    BY DEF IInv, Shape, UndoNginx, HostIs, Host, Apply
  <1>3. Exited
    BY <1>1, ExitEffect DEF UndoNginx, NextUndo, At
  <1>4. QED
    BY <1>1, <1>2, <1>3
    DEF IInv, Shape, Recorded, Forward, Backups, Restored, Migrated, Exited, Quiet, Early,
        Late, Undo, At, Serves, ServesBehind, Proceeds, ApplyIs, HostKept, HostIs, Unrecorded

\* An undo that fails is a lapse: from then on only the record is vouched for.
LEMMA UndoFailureKeeps == ASSUME IInv, UndoFailure PROVE IInv'
  <1>1. ap.pc \in Undo /\ cur' = cur /\ schema' = schema /\ lapsed' /\ astray' = astray
    BY DEF UndoFailure
  <1>2. Shape /\ host' \in Half
    BY DEF IInv, UndoFailure
  <1>3. ap' \in Apply /\ (Exited \/ (ap.nginx /\ Proceeds("undo_files")))
    BY GoEffect, ExitEffect
    DEF IInv, UndoFailure, NextUndo, Steps, Undo, Proceeds, ApplyIs, Exited
  <1>4. QED
    BY <1>1, <1>2, <1>3, HalfEffect
    DEF IInv, Shape, Recorded, Forward, Backups, Restored, Migrated, Exited, Quiet, Early,
        Late, Undo, At, Serves, ServesBehind, Proceeds, ApplyIs

-----------------------------------------------------------------------------
(* The switch. *)

\* Loading the image touches nothing that serves.
LEMMA LoadImageKeeps == ASSUME IInv, LoadImage PROVE IInv'
  <1>1. At("load") /\ Proceeds("migrate")
    BY GoEffect DEF IInv, LoadImage, Steps, Early, Late, Undo, Rollback, Writes, At
  <1>2. HostKept
    BY HostKeptEffect DEF IInv, LoadImage
  <1>3. Unrecorded
    BY DEF LoadImage, Unrecorded
  <1>4. QED
    BY <1>1, <1>2, <1>3
    DEF IInv, Shape, Recorded, Forward, Backups, Restored, Migrated, Exited, Quiet, Early,
        Late, Undo, At, Serves, ServesBehind, Proceeds, ApplyIs, HostKept, HostIs, Unrecorded

\* A migration only moves the schema forward; one that is refused fails the apply.
LEMMA MigrateKeeps == ASSUME IInv, Migrate PROVE IInv'
  <1>1. HostKept
    BY HostKeptEffect DEF IInv, Migrate
  <1>2. cur' = cur /\ lapsed' = lapsed /\ astray' = astray /\ At("migrate")
    BY DEF Migrate
  <1>3. Level[ap.sha] \in Nat /\ schema \in Nat
    BY <1>2, DeployAssumption DEF IInv, Shape, At
  <1>4. CASE schema <= Level[ap.sha]
    <2>1. schema' = Level[ap.sha] /\ Proceeds("up")
      BY <1>4, GoEffect DEF IInv, Migrate, Steps, Late
    <2>2. Migrated'
      <3>1. \A r \in Releases : Level[r] <= schema => Level[r] <= schema'
        BY <1>3, <1>4, <2>1, DeployAssumption
      <3>2. QED
        BY <1>1, <1>2, <1>3, <2>1, <3>1
        DEF IInv, Shape, Migrated, Host, Apply, Proceeds, ApplyIs, HostKept, HostIs, At
    <2>3. QED
      BY <1>1, <1>2, <1>3, <2>1, <2>2
      DEF IInv, Shape, Recorded, Forward, Backups, Restored, Exited, Quiet, Early, Late,
          Undo, At, Serves, ServesBehind, Proceeds, ApplyIs, HostKept, HostIs
  <1>5. CASE ~(schema <= Level[ap.sha])
    <2>1. schema' = schema /\ Proceeds("failed")
      BY <1>5, GoEffect DEF IInv, Migrate, Steps, Writes
    <2>2. QED
      BY <1>1, <1>2, <2>1
      DEF IInv, Shape, Recorded, Forward, Backups, Restored, Migrated, Exited, Quiet,
          Early, Late, Undo, At, Serves, ServesBehind, Proceeds, ApplyIs, HostKept, HostIs
  <1>6. QED
    BY <1>4, <1>5

\* The new containers read the config that is installed.
LEMMA ComposeUpKeeps == ASSUME IInv, ComposeUp PROVE IInv'
  <1>1. At("up") /\ Proceeds(IF WebHere THEN "publish" ELSE "reload")
    BY GoEffect DEF IInv, ComposeUp, Steps, Early, Late, Undo, Rollback, Writes, At
  <1>2. HostIs(host.config, host.files, host.config, host.edge, ap.sha, host.web)
    BY DEF IInv, Shape, ComposeUp, HostIs, Host, Apply, Files, Running
  <1>3. Unrecorded
    BY DEF ComposeUp, HostOnly, Unrecorded
  <1>4. QED
    BY <1>1, <1>2, <1>3, DeployAssumption
    DEF IInv, Shape, Recorded, Forward, Backups, Restored, Migrated, Exited, Quiet, Early,
        Late, Undo, At, Serves, ServesBehind, Proceeds, ApplyIs, HostKept, HostIs, Unrecorded

\* Publishing does not switch.
LEMMA PublishWebKeeps == ASSUME IInv, PublishWeb PROVE IInv'
  <1>1. At("publish") /\ Proceeds("switch")
    BY GoEffect DEF IInv, PublishWeb, Steps, Early, Late, Undo, Rollback, Writes, At
  <1>2. HostKept
    BY HostKeptEffect DEF IInv, PublishWeb
  <1>3. Unrecorded
    BY DEF PublishWeb, Unrecorded
  <1>4. QED
    BY <1>1, <1>2, <1>3
    DEF IInv, Shape, Recorded, Forward, Backups, Restored, Migrated, Exited, Quiet, Early,
        Late, Undo, At, Serves, ServesBehind, Proceeds, ApplyIs, HostKept, HostIs, Unrecorded

\* The web tree becomes the target's.
LEMMA SwitchWebKeeps == ASSUME IInv, SwitchWeb PROVE IInv'
  <1>1. At("switch") /\ Proceeds("reload")
    BY GoEffect DEF IInv, SwitchWeb, Steps, Early, Late, Undo, Rollback, Writes, At
  <1>2. HostIs(host.config, host.files, host.conf, host.edge, host.api, ap.sha)
    BY DEF IInv, Shape, SwitchWeb, HostIs, Host, Apply, Files
  <1>3. Unrecorded
    BY DEF SwitchWeb, HostOnly, Unrecorded
  <1>4. QED
    BY <1>1, <1>2, <1>3
    DEF IInv, Shape, Recorded, Forward, Backups, Restored, Migrated, Exited, Quiet, Early,
        Late, Undo, At, Serves, ServesBehind, Proceeds, ApplyIs, HostKept, HostIs, Unrecorded

\* nginx loads the files that are installed.
LEMMA ReloadKeeps == ASSUME IInv, At("reload"), Reload("check") PROVE IInv'
  <1>1. Proceeds("check") /\ cur' = cur /\ schema' = schema /\ lapsed' = lapsed /\ astray' = FALSE
    BY GoEffect DEF IInv, Reload, Steps, Late, Rollback
  <1>2. HostIs(host.config, host.files, host.conf,
             IF EdgeHere THEN host.files ELSE host.edge, host.api, host.web)
    BY DeployAssumption DEF IInv, Shape, Reload, HostIs, Host
  <1>3. QED
    BY <1>1, <1>2, DeployAssumption
    DEF IInv, Shape, Recorded, Forward, Backups, Restored, Migrated, Exited, Quiet, Early,
        Late, Undo, At, Serves, ServesBehind, Proceeds, ApplyIs, HostKept, HostIs, Unrecorded

\* The health check changes nothing.
LEMMA CheckHealthKeeps == ASSUME IInv, CheckHealth PROVE IInv'
  <1>1. At("check") /\ Proceeds("record")
    BY GoEffect DEF IInv, CheckHealth, Steps, Early, Late, Undo, Rollback, Writes, At
  <1>2. HostKept
    BY HostKeptEffect DEF IInv, CheckHealth
  <1>3. Unrecorded
    BY DEF CheckHealth, HostOnly, Unrecorded
  <1>4. QED
    BY <1>1, <1>2, <1>3
    DEF IInv, Shape, Recorded, Forward, Backups, Restored, Migrated, Exited, Quiet, Early,
        Late, Undo, At, Serves, ServesBehind, Proceeds, ApplyIs, HostKept, HostIs, Unrecorded

\* The record names what now serves.
LEMMA WriteDeployedKeeps == ASSUME IInv, WriteDeployed PROVE IInv'
  <1>1. At("record") /\ Proceeds("prune")
    BY GoEffect DEF IInv, WriteDeployed, Steps, Early, Late, Undo, Rollback, Writes, At
  <1>2. HostKept
    BY HostKeptEffect DEF IInv, WriteDeployed
  <1>3. /\ schema' = schema /\ lapsed' = lapsed /\ astray' = astray /\ cur' \in Record
        /\ cur'.status = "deployed" /\ cur'.sha = ap.sha
    BY DEF WriteDeployed, IInv, Shape, Apply, Record
  <1>4. QED
    BY <1>1, <1>2, <1>3
    DEF IInv, Shape, Recorded, Forward, Backups, Restored, Migrated, Exited, Quiet, Early,
        Late, Undo, At, Serves, ServesBehind, Proceeds, ApplyIs, HostKept, HostIs, Unrecorded

\* Pruning touches nothing that serves.
LEMMA PruneKeeps == ASSUME IInv, Prune PROVE IInv'
  <1>1. At("prune") /\ Unrecorded
    BY DEF Prune, Unrecorded
  <1>2. HostKept
    BY HostKeptEffect DEF IInv, Prune
  <1>3. Exited
    BY ExitEffect DEF Prune
  <1>4. QED
    BY <1>1, <1>2, <1>3
    DEF IInv, Shape, Recorded, Forward, Backups, Restored, Migrated, Exited, Quiet, Early,
        Late, Undo, At, Serves, ServesBehind, Proceeds, ApplyIs, HostKept, HostIs, Unrecorded

\* A step of the switch that fails leaves the backups as they are.
LEMMA LateFailureKeeps == ASSUME IInv, LateFailure PROVE IInv'
  <1>1. ap.pc \in Late /\ Proceeds("failed") /\ Unrecorded
    BY GoEffect DEF IInv, LateFailure, Steps, Writes, Fault, Unrecorded
  <1>2. Shape /\ host' \in Half
    BY DEF IInv, LateFailure
  <1>3. QED
    BY <1>1, <1>2, HalfEffect
    DEF IInv, Shape, Recorded, Forward, Backups, Restored, Migrated, Exited, Quiet, Early,
        Late, Undo, At, Serves, ServesBehind, Proceeds, ApplyIs, Unrecorded

-----------------------------------------------------------------------------
(* The rollback. *)

\* The failure is recorded before anything is rolled back.
LEMMA WriteFailedKeeps == ASSUME IInv, WriteFailed PROVE IInv'
  <1>1. At("failed") /\ Proceeds("rb_config")
    BY GoEffect DEF IInv, WriteFailed, Steps, Early, Late, Undo, Rollback, Writes, At
  <1>2. HostKept
    BY HostKeptEffect DEF IInv, WriteFailed
  <1>3. /\ schema' = schema /\ lapsed' = lapsed /\ astray' = astray /\ cur' \in Record
        /\ cur'.status = "failed" /\ cur'.sha = ap.sha
    BY DEF WriteFailed, IInv, Shape, Apply, Record
  <1>4. QED
    BY <1>1, <1>2, <1>3
    DEF IInv, Shape, Recorded, Forward, Backups, Restored, Migrated, Exited, Quiet, Early,
        Late, Undo, At, Serves, ServesBehind, Proceeds, ApplyIs, HostKept, HostIs, Unrecorded

\* The config is the previous release's again.
LEMMA RollbackConfigKeeps == ASSUME IInv, RollbackConfig PROVE IInv'
  <1>1. At("rb_config") /\ Proceeds(IF EdgeHere THEN "rb_files" ELSE "rb_web")
    BY GoEffect, DeployAssumption DEF IInv, RollbackConfig, AfterConfig, Steps, Rollback, At
  <1>2. HostIs(ap.cfg, host.files, host.conf, host.edge, host.api, host.web)
    BY DEF IInv, Shape, RollbackConfig, HostIs, Host, Apply, Files
  <1>3. Unrecorded
    BY DEF RollbackConfig, HostOnly, Unrecorded
  <1>4. QED
    BY <1>1, <1>2, <1>3, DeployAssumption
    DEF IInv, Shape, Recorded, Forward, Backups, Restored, Migrated, Exited, Quiet, Early,
        Late, Undo, At, Serves, ServesBehind, Proceeds, ApplyIs, HostKept, HostIs, Unrecorded

\* The nginx files are the previous release's again.
LEMMA RollbackNginxKeeps == ASSUME IInv, RollbackNginx PROVE IInv'
  <1>1. At("rb_files") /\ Proceeds("rb_web")
    BY GoEffect DEF IInv, RollbackNginx, Steps, Early, Late, Undo, Rollback, Writes, At
  <1>2. HostIs(host.config, ap.files, host.conf, host.edge, host.api, host.web)
    BY DEF IInv, Shape, RollbackNginx, HostIs, Host, Apply, Files
  <1>3. Unrecorded
    BY DEF RollbackNginx, HostOnly, Unrecorded
  <1>4. QED
    BY <1>1, <1>2, <1>3
    DEF IInv, Shape, Recorded, Forward, Backups, Restored, Migrated, Exited, Quiet, Early,
        Late, Undo, At, Serves, ServesBehind, Proceeds, ApplyIs, HostKept, HostIs, Unrecorded

\* The web tree is the previous release's again.
LEMMA RollbackWebKeeps == ASSUME IInv, RollbackWeb PROVE IInv'
  <1>1. At("rb_web") /\ Proceeds("rb_up")
    BY GoEffect DEF IInv, RollbackWeb, Steps, Early, Late, Undo, Rollback, Writes, At
  <1>2. HostIs(host.config, host.files, host.conf,
             host.edge, host.api, IF WebHere THEN ap.prev ELSE host.web)
    BY DEF IInv, Shape, RollbackWeb, HostIs, Host, Apply, Files
  <1>3. Unrecorded
    BY DEF RollbackWeb, HostOnly, Unrecorded
  <1>4. QED
    BY <1>1, <1>2, <1>3, DeployAssumption
    DEF IInv, Shape, Recorded, Forward, Backups, Restored, Migrated, Exited, Quiet, Early,
        Late, Undo, At, Serves, ServesBehind, Proceeds, ApplyIs, HostKept, HostIs, Unrecorded

\* The containers run the previous release with the config that is installed.
LEMMA RollbackUpKeeps == ASSUME IInv, RollbackUp PROVE IInv'
  <1>1. At("rb_up") /\ Proceeds("rb_reload")
    BY GoEffect DEF IInv, RollbackUp, Steps, Early, Late, Undo, Rollback, Writes, At
  <1>2. HostIs(host.config, host.files, host.config, host.edge, ap.prev, host.web)
    BY DEF IInv, Shape, RollbackUp, HostIs, Host, Apply, Files, Running
  <1>3. Unrecorded
    BY DEF RollbackUp, HostOnly, Unrecorded
  <1>4. QED
    BY <1>1, <1>2, <1>3
    DEF IInv, Shape, Recorded, Forward, Backups, Restored, Migrated, Exited, Quiet, Early,
        Late, Undo, At, Serves, ServesBehind, Proceeds, ApplyIs, HostKept, HostIs, Unrecorded

\* nginx loads the files that were restored.
LEMMA RollbackReloadKeeps == ASSUME IInv, At("rb_reload"), Reload("rb_check") PROVE IInv'
  <1>1. /\ Proceeds("rb_check")
        /\ cur' = cur /\ schema' = schema /\ lapsed' = lapsed /\ astray' = FALSE
    BY GoEffect DEF IInv, Reload, Steps, Late, Rollback
  <1>2. HostIs(host.config, host.files, host.conf,
             IF EdgeHere THEN host.files ELSE host.edge, host.api, host.web)
    BY DeployAssumption DEF IInv, Shape, Reload, HostIs, Host
  <1>3. QED
    BY <1>1, <1>2, DeployAssumption
    DEF IInv, Shape, Recorded, Forward, Backups, Restored, Migrated, Exited, Quiet, Early,
        Late, Undo, At, Serves, ServesBehind, Proceeds, ApplyIs, HostKept, HostIs, Unrecorded

\* The health check changes nothing.
LEMMA RollbackCheckKeeps == ASSUME IInv, RollbackCheck PROVE IInv'
  <1>1. At("rb_check") /\ Proceeds("rb_record")
    BY GoEffect DEF IInv, RollbackCheck, Steps, Early, Late, Undo, Rollback, Writes, At
  <1>2. HostKept
    BY HostKeptEffect DEF IInv, RollbackCheck
  <1>3. Unrecorded
    BY DEF RollbackCheck, HostOnly, Unrecorded
  <1>4. QED
    BY <1>1, <1>2, <1>3
    DEF IInv, Shape, Recorded, Forward, Backups, Restored, Migrated, Exited, Quiet, Early,
        Late, Undo, At, Serves, ServesBehind, Proceeds, ApplyIs, HostKept, HostIs, Unrecorded

\* A rollback step that failed is not forgotten.
LEMMA RollbackStepFailsKeeps == ASSUME IInv, RollbackStepFails PROVE IInv'
  <1>1. ap.pc \in Rollback /\ Unrecorded
    BY DEF RollbackStepFails, Unrecorded
  <1>2. Shape /\ host' \in Half
    BY DEF IInv, RollbackStepFails
  <1>3. After[ap.pc] \in (Rollback \cup {"rb_record"}) \ {"rb_config"}
    BY <1>1 DEF After, AfterConfig, Rollback
  <1>4. ApplyIs(After[ap.pc], ap.cfg, ap.files, ap.nginx, FALSE)
    BY <1>2, <1>3 DEF RollbackStepFails, Shape, Apply, ApplyIs, Steps, Rollback, Writes
  <1>5. QED
    BY <1>1, <1>2, <1>3, <1>4, HalfEffect
    DEF IInv, Shape, Recorded, Forward, Backups, Restored, Migrated, Rollback, Exited,
        Quiet, Early, Late, Undo, At, Serves, ServesBehind, ApplyIs, Unrecorded

\* Only a rollback without a failed step is recorded as complete.
LEMMA WriteRolledBackKeeps == ASSUME IInv, WriteRolledBack PROVE IInv'
  <1>1. At("rb_record") /\ schema' = schema /\ astray' = astray
    BY DEF WriteRolledBack
  <1>2. HostKept
    BY HostKeptEffect DEF IInv, WriteRolledBack
  <1>3. Exited
    BY ExitEffect DEF WriteRolledBack
  <1>4. CASE ap.ok
    <2>1. /\ cur' \in Record /\ cur'.status = "rolled_back_to" /\ cur'.sha = ap.prev
          /\ lapsed' = lapsed
      BY <1>4 DEF IInv, Shape, Apply, Record, WriteRolledBack
    <2>2. QED
      BY <1>1, <1>2, <1>3, <1>4, <2>1
      DEF IInv, Shape, Recorded, Forward, Backups, Restored, Migrated, Exited, Quiet,
          Early, Late, Undo, At, Serves, ServesBehind, HostKept, HostIs
  <1>5. CASE ~ap.ok
    <2>1. cur' = cur /\ lapsed'
      BY <1>5 DEF WriteRolledBack
    <2>2. QED
      BY <1>1, <1>2, <1>3, <2>1
      DEF IInv, Shape, Recorded, Forward, Backups, Restored, Migrated, Exited, Quiet,
          Early, Late, Undo, At, Serves, ServesBehind, HostKept, HostIs
  <1>6. QED
    BY <1>4, <1>5 DEF IInv, Shape, Apply

-----------------------------------------------------------------------------
(* Everything else. *)

\* A record that cannot be written is a lapse.
LEMMA WriteFailureKeeps == ASSUME IInv, WriteFailure PROVE IInv'
  <1>1. cur' = cur /\ schema' = schema /\ lapsed' /\ astray' = astray
    BY DEF WriteFailure
  <1>2. HostKept
    BY HostKeptEffect DEF IInv, WriteFailure
  <1>3. Exited
    BY ExitEffect DEF WriteFailure
  <1>4. QED
    BY <1>1, <1>2, <1>3
    DEF IInv, Shape, Recorded, Forward, Backups, Restored, Migrated, Exited, Quiet, Early,
        Late, Undo, At, Serves, ServesBehind, HostKept, HostIs

\* A crash is a lapse; while a release is on record as deployed it touches no part
\* that serves.
LEMMA CrashKeeps == ASSUME IInv, Crash PROVE IInv'
  <1>1. cur' = cur /\ schema' = schema /\ lapsed' /\ astray' = astray
    BY DEF Crash
  <1>2. Shape /\ host' \in Half
    BY DEF IInv, Crash
  <1>3. Exited
    BY ExitEffect DEF Crash
  <1>4. QED
    BY <1>1, <1>2, <1>3, HalfEffect
    DEF IInv, Shape, Recorded, Forward, Backups, Restored, Migrated, Exited, Quiet, Early,
        Late, Undo, At, Serves, ServesBehind

\* What a restart leaves: the edge has loaded the files that are installed, the rest is
\* as after a crash.
LEMMA RestartEffect ==
  ASSUME Shape, HostRestarts
  PROVE  /\ host' \in Host /\ Exited
         /\ cur' = cur /\ schema' = schema /\ lapsed' \in BOOLEAN /\ astray' \in BOOLEAN
         /\ lapsed' <=> lapsed \/ ~At("idle")
         /\ host'.web = host.web /\ (host'.edge = host.edge \/ astray')
         /\ astray' = astray \/ (astray' /\ EdgeHere)
         /\ At("idle") => /\ host'.config = host.config /\ host'.files = host.files
                          /\ EdgeHere => host'.edge = host.files
         /\ ap.pc \notin {"up", "rb_up"} => host'.api = host.api /\ host'.conf = host.conf
         /\ At("up") => host'.api \in {host.api, ap.sha}
         /\ At("rb_up") => host'.api \in {host.api} \cup (images \cap {ap.prev})
  <1>1. PICK left \in Half :
          host' = IF EdgeHere THEN [left EXCEPT !.edge = left.files] ELSE left
    BY DEF HostRestarts
  <1>2. \/ left = host
        \/ left = [host EXCEPT !.config = Mixed] \/ left = [host EXCEPT !.files = Mixed]
        \/ At("up") /\ left = [host EXCEPT !.api = ap.sha, !.conf = host.config]
        \/ At("rb_up") /\ ap.prev \in images
           /\ left = [host EXCEPT !.api = ap.prev, !.conf = host.config]
    BY <1>1 DEF Half, Running, At
  <1>3. At("idle") => left = host
    BY <1>1 DEF Half, At
  <1>4. ap.sha \in Releases \cup {None} /\ ap.prev \in Releases \cup {None}
    BY DEF Shape, Apply
  <1>5. left \in Host
    BY <1>2, <1>4 DEF Shape, Host, Files
  <1>6. /\ left.web = host.web /\ left.edge = host.edge
        /\ ap.pc \notin {"up", "rb_up"} => left.api = host.api /\ left.conf = host.conf
        /\ At("up") => left.api \in {host.api, ap.sha}
        /\ At("rb_up") => left.api \in {host.api} \cup (images \cap {ap.prev})
    BY <1>2 DEF Shape, Host, At
  <1>7. /\ host' \in Host
        /\ host'.config = left.config /\ host'.files = left.files /\ host'.web = left.web
        /\ host'.api = left.api /\ host'.conf = left.conf
        /\ host'.edge = IF EdgeHere THEN left.files ELSE left.edge
    BY <1>1, <1>5, DeployAssumption DEF Host
  <1>8. /\ Exited /\ cur' = cur /\ schema' = schema /\ lapsed' = (lapsed \/ ~At("idle"))
        /\ astray' = (astray \/ host'.edge # host.edge)
    BY ExitEffect DEF HostRestarts
  <1>9. lapsed' \in BOOLEAN /\ astray' \in BOOLEAN /\ (lapsed' <=> lapsed \/ ~At("idle"))
    BY <1>8 DEF Shape
  <1>10. (host'.edge = host.edge \/ astray') /\ (astray' = astray \/ (astray' /\ EdgeHere))
    BY <1>6, <1>7, <1>8, DeployAssumption DEF Shape
  <1>11. At("idle") => /\ host'.config = host.config /\ host'.files = host.files
                       /\ EdgeHere => host'.edge = host.files
    BY <1>3, <1>7
  <1>12. /\ host'.web = host.web
         /\ ap.pc \notin {"up", "rb_up"} => host'.api = host.api /\ host'.conf = host.conf
         /\ At("up") => host'.api \in {host.api, ap.sha}
         /\ At("rb_up") => host'.api \in {host.api} \cup (images \cap {ap.prev})
    BY <1>6, <1>7
  <1>13. QED
    BY <1>7, <1>8, <1>9, <1>10, <1>11, <1>12

\* A restart puts the edge on the installed files, which are those of the release on
\* record unless an apply lapsed.
LEMMA RestartKeeps == ASSUME IInv, HostRestarts PROVE IInv'
  <1>1. Shape
    BY DEF IInv
  <1>2. /\ Exited /\ cur' = cur /\ schema' = schema
        /\ lapsed' \in BOOLEAN /\ astray' \in BOOLEAN /\ host' \in Host
    BY <1>1, RestartEffect
  <1>3. Shape' /\ Forward'
    BY <1>1, <1>2 DEF Shape, Forward, Exited, Early, Late, Undo, At
  <1>4. Recorded'
    <2>1. ~lapsed' => /\ At("idle") /\ ~lapsed
                      /\ host'.api = host.api /\ host'.conf = host.conf /\ host'.web = host.web
                      /\ EdgeHere => host'.edge = host.files
      BY <1>1, RestartEffect DEF At
    <2>2. ~lapsed' => /\ cur'.status \in {"none", "deployed", "rolled_back_to"}
                      /\ Serves(cur.sha)'
      BY <1>2, <2>1 DEF IInv, Recorded, Backups, Quiet, Serves, ServesBehind, At
    <2>3. cur.status = "deployed" =>
            /\ ap.pc \notin {"up", "rb_up"}
            /\ ServesBehind(cur.sha) /\ (astray \/ Serves(cur.sha))
      BY DEF IInv, Recorded, Quiet, Early, Undo
    <2>4. cur'.status = "deployed" =>
            ServesBehind(cur.sha)' /\ (astray' \/ Serves(cur.sha)')
      BY <1>1, <1>2, <2>3, RestartEffect DEF Serves, ServesBehind
    <2>5. QED
      BY <1>2, <2>2, <2>4 DEF Recorded, Exited, Quiet, At
  <1>5. Backups' /\ Restored'
    BY <1>1, <1>2, RestartEffect DEF IInv, Backups, Restored, Exited, Undo, At
  <1>6. Migrated'
    BY <1>1, <1>2, RestartEffect DEF IInv, Migrated, Exited, At
  <1>7. QED
    BY <1>3, <1>4, <1>5, <1>6 DEF IInv

\* receive-v1 does not touch the host.
LEMMA ReceiveKeeps ==
  ASSUME IInv, NEW r \in Releases, Receive(r) \/ ReceiveMove(r) PROVE IInv'
  <1>1. ap' = ap /\ host' = host /\ Unrecorded
    BY DEF Receive, ReceiveMove, Unrecorded
  <1>2. QED
    BY <1>1
    DEF IInv, Shape, Recorded, Forward, Backups, Restored, Migrated, At, Serves, ServesBehind,
        Unrecorded

\* An apply takes the release on record as the one to go back to.
LEMMA ApplyStartKeeps == ASSUME IInv, NEW r \in Releases, ApplyStart(r) PROVE IInv'
  <1>1. /\ At("idle") /\ ap' \in Apply /\ ap'.pc = "backup" /\ ap'.sha = r
        /\ ap'.prev = cur.sha /\ ~ap'.nginx /\ ap'.ok
    BY DEF IInv, Shape, ApplyStart, NoApply, Apply, Record, Files, Steps, Early
  <1>2. HostKept
    BY HostKeptEffect DEF IInv, ApplyStart
  <1>3. Unrecorded
    BY DEF ApplyStart, HostOnly, Unrecorded
  <1>4. QED
    BY <1>1, <1>2, <1>3
    DEF IInv, Shape, Recorded, Forward, Backups, Restored, Migrated, Exited, Quiet, Early,
        Late, Undo, At, Serves, ServesBehind, HostKept, HostIs, Unrecorded

-----------------------------------------------------------------------------
(* The invariant and what follows from it. *)

LEMMA Start == Init => IInv
  <1> SUFFICES ASSUME Init PROVE IInv
    OBVIOUS
  <1>1. Shape
    BY DEF Init, Shape, Host, Record, Apply, NoApply, Files, Steps, At
  <1>2. ap.pc = "idle" /\ ap.prev = None /\ ~ap.nginx /\ cur.status = "none" /\ cur.sha = None
    BY DEF Init, NoApply
  <1>3. /\ host.config = None /\ host.files = None /\ host.conf = None
        /\ host.edge = None /\ host.api = None /\ host.web = None
    BY DEF Init
  <1>4. QED
    BY <1>1, <1>2, <1>3
    DEF IInv, Recorded, Forward, Backups, Restored, Migrated, Exited, Quiet, Early, Late,
        Undo, At, Serves, ServesBehind

LEMMA Step == IInv /\ [Next]_vars => IInv'
  <1> SUFFICES ASSUME IInv, [Next]_vars PROVE IInv'
    OBVIOUS
  <1>1. CASE UNCHANGED vars
    BY <1>1
    DEF vars, IInv, Shape, Recorded, Forward, Backups, Restored, Migrated, At, Serves, ServesBehind
  <1>2. CASE \E r \in Releases : Receive(r) \/ ReceiveMove(r) \/ ApplyStart(r)
    BY <1>2, ReceiveKeeps, ApplyStartKeeps
  <1>3. CASE Prepare
    BY <1>3, BackupConfigKeeps, InstallConfigKeeps, BackupNginxKeeps, InstallNginxKeeps,
       TestNginxKeeps, WriteMarkerKeeps, EarlyFailureKeeps, UndoConfigKeeps,
       UndoNginxKeeps, UndoFailureKeeps
    DEF Prepare
  <1>4. CASE Switch
    BY <1>4, LoadImageKeeps, MigrateKeeps, ComposeUpKeeps, PublishWebKeeps, SwitchWebKeeps,
       ReloadKeeps, CheckHealthKeeps, WriteDeployedKeeps, PruneKeeps, LateFailureKeeps
    DEF Switch
  <1>5. CASE RollBack
    BY <1>5, WriteFailedKeeps, RollbackConfigKeeps, RollbackNginxKeeps, RollbackWebKeeps,
       RollbackUpKeeps, RollbackReloadKeeps, RollbackCheckKeeps, RollbackStepFailsKeeps,
       WriteRolledBackKeeps
    DEF RollBack
  <1>6. CASE WriteFailure \/ Crash \/ HostRestarts
    BY <1>6, WriteFailureKeeps, CrashKeeps, RestartKeeps
  <1>7. QED
    BY <1>1, <1>2, <1>3, <1>4, <1>5, <1>6 DEF Next

LEMMA Inductive == Spec => []IInv
  BY Start, Step, PTL DEF Spec

\* The record never calls a release deployed whose containers and web tree do not serve,
\* whatever fails or is cut short, nor one that does not serve in every part unless nginx
\* was restarted over what a broken-off apply had installed (current.json).
THEOREM RecordIsTrue == Spec => []DeployedIsLive
  <1>1. IInv => DeployedIsLive
    BY DEF IInv, Recorded, DeployedIsLive
  <1>2. QED
    BY Inductive, <1>1, PTL

\* A rollback that is recorded as complete restored every part, unless an apply before
\* it was cut short (rollback_previous).
THEOREM RollbackComplete == Spec => []RollbackRestores
  <1>1. IInv => RollbackRestores
    <2>1. cur.status = "rolled_back_to" => cur.status \notin {"transitioning", "failed"}
      OBVIOUS
    <2>2. QED
      BY <2>1 DEF IInv, Recorded, RollbackRestores
  <1>2. QED
    BY Inductive, <1>1, PTL

\* Between applies the installed files are those of the release on record, also after a
\* failure that was undone or rolled back (fail_pre_transition, rollback_previous).
THEOREM BaselineHolds == Spec => []BaselineKept
  <1>1. IInv => BaselineKept
    BY DEF IInv, Recorded, Backups, BaselineKept, Quiet, At
  <1>2. QED
    BY Inductive, <1>1, PTL

\* What runs never expects a later schema than the database has (step 4a of apply-v1).
THEOREM SchemaAhead == Spec => []SchemaReady
  <1>1. IInv => SchemaReady
    BY DEF IInv, Migrated, SchemaReady
  <1>2. QED
    BY Inductive, <1>1, PTL

-----------------------------------------------------------------------------
(* Retention.  What serves was published and loaded before it did, the      *)
(* release that is applied stays staged, and pruning keeps the one that was *)
(* just recorded, so that what is on record and served is still there.      *)

Retained ==
  /\ staged \in Seq(Releases) /\ published \in Seq(Releases)
  /\ RetentionSafe
  /\ ~At("idle") => Has(staged, ap.sha)
  /\ ap.pc \in {"migrate", "up"} => ap.sha \in images
  /\ ap.pc \in {"publish", "switch"} => WebHere
  /\ At("switch") => Has(published, ap.sha)
  /\ ~WebHere => host.web = None
  /\ At("prune") => cur.status = "deployed"

\* What is in one directory is in the other.
Within(s, t) == \A x : Has(s, x) => Has(t, x)

\* What is in a part is in the whole.
LEMMA HasConcat ==
  ASSUME NEW s \in Seq(Releases), NEW t \in Seq(Releases)
  PROVE  s \o t \in Seq(Releases) /\ Within(s, s \o t) /\ Within(t, s \o t)
  <1>1. /\ s \o t \in Seq(Releases) /\ Len(s) \in Nat /\ Len(t) \in Nat
        /\ DOMAIN s = 1..Len(s) /\ DOMAIN t = 1..Len(t)
        /\ DOMAIN (s \o t) = 1..(Len(s) + Len(t))
    BY ConcatProperties, LenProperties
  <1>2. \A i \in 1..(Len(s) + Len(t)) : (s \o t)[i] = IF i <= Len(s) THEN s[i] ELSE t[i - Len(s)]
    BY ConcatProperties
  <1>3. ASSUME NEW x, NEW i \in DOMAIN s, s[i] = x
        PROVE  Has(s \o t, x)
    <2>1. i \in 1..(Len(s) + Len(t)) /\ (s \o t)[i] = x
      BY <1>1, <1>2, <1>3
    <2>2. QED
      BY <1>1, <2>1 DEF Has
  <1>4. ASSUME NEW x, NEW i \in DOMAIN t, t[i] = x
        PROVE  Has(s \o t, x)
    <2>1. /\ Len(s) + i \in 1..(Len(s) + Len(t)) /\ ~(Len(s) + i <= Len(s))
          /\ (Len(s) + i) - Len(s) = i
      BY <1>1
    <2>2. (s \o t)[Len(s) + i] = x
      BY <1>2, <1>4, <2>1
    <2>3. QED
      BY <1>1, <2>1, <2>2 DEF Has
  <1>5. QED
    BY <1>1, <1>3, <1>4 DEF Within, Has

\* A stretch of a directory holds what stands there.
LEMMA HasPart ==
  ASSUME NEW s \in Seq(Releases), NEW m \in Nat \ {0}, NEW n \in 0..Len(s)
  PROVE  /\ SubSeq(s, m, n) \in Seq(Releases)
         /\ \A i \in m..n : Has(SubSeq(s, m, n), s[i])
  <1>1. Len(s) \in Nat /\ \A i \in 1..Len(s) : s[i] \in Releases
    BY LenProperties, ElementOfSeq
  <1>2. m \in Int /\ n \in Int /\ \A i \in m..n : s[i] \in Releases
    BY <1>1
  <1> DEFINE t == SubSeq(s, m, n)
  <1>3. /\ t \in Seq(Releases) /\ Len(t) = IF m <= n THEN n - m + 1 ELSE 0
        /\ \A i \in 1..(n - m + 1) : t[i] = s[m + i - 1]
    BY <1>2, SubSeqProperties
  <1>4. DOMAIN t = 1..Len(t)
    BY <1>3, LenProperties
  <1> HIDE DEF t
  <1>5. ASSUME NEW i \in m..n
        PROVE  Has(t, s[i])
    <2>1. i - m + 1 \in 1..(n - m + 1) /\ m + (i - m + 1) - 1 = i /\ m <= n
      BY <1>1, <1>2
    <2>2. t[i - m + 1] = s[i] /\ i - m + 1 \in DOMAIN t
      BY <1>3, <1>4, <2>1
    <2>3. QED
      BY <2>2 DEF Has
  <1>6. QED
    BY <1>3, <1>5 DEF t

\* A release becomes the newest: it is there, and all that was.
LEMMA NewestKeeps ==
  ASSUME NEW s \in Seq(Releases), NEW r \in Releases
  PROVE  Newest(s, r) \in Seq(Releases) /\ Has(Newest(s, r), r) /\ Within(s, Newest(s, r))
  <1> DEFINE at == CHOOSE i \in DOMAIN s : s[i] = r
             a == SubSeq(s, 1, at - 1)
             b == SubSeq(s, at + 1, Len(s))
             rest == IF Has(s, r) THEN a \o b ELSE s
  <1>1. Len(s) \in Nat /\ DOMAIN s = 1..Len(s)
    BY LenProperties
  <1>2. rest \in Seq(Releases) /\ \A x : x # r /\ Has(s, x) => Has(rest, x)
    <2>1. CASE Has(s, r)
      <3>1. at \in 1..Len(s) /\ s[at] = r
        BY <1>1, <2>1 DEF Has
      <3> HIDE DEF at
      <3>2. a \in Seq(Releases) /\ \A i \in 1..(at - 1) : Has(a, s[i])
        BY <1>1, <3>1, HasPart
      <3>3. b \in Seq(Releases) /\ \A i \in (at + 1)..Len(s) : Has(b, s[i])
        <4>1. at + 1 \in Nat \ {0} /\ Len(s) \in 0..Len(s)
          BY <1>1, <3>1
        <4>2. QED
          BY <4>1, HasPart
      <3> HIDE DEF a, b
      <3>4. a \o b \in Seq(Releases) /\ Within(a, a \o b) /\ Within(b, a \o b)
        BY <3>2, <3>3, HasConcat
      <3>5. ASSUME NEW x, x # r, Has(s, x)
            PROVE  Has(a \o b, x)
        <4>1. PICK i \in 1..Len(s) : s[i] = x /\ i # at
          BY <1>1, <3>1, <3>5 DEF Has
        <4>2. i \in 1..(at - 1) \/ i \in (at + 1)..Len(s)
          BY <1>1, <3>1, <4>1
        <4>3. Has(a, x) \/ Has(b, x)
          BY <3>2, <3>3, <4>1, <4>2
        <4>4. QED
          BY <3>4, <4>3 DEF Within
      <3>6. QED
        BY <2>1, <3>4, <3>5
    <2>2. CASE ~Has(s, r)
      BY <2>2
    <2>3. QED
      BY <2>1, <2>2
  <1>3. Newest(s, r) = <<r>> \o rest
    BY DEF Newest
  <1> HIDE DEF rest
  <1>4. <<r>> \in Seq(Releases) /\ Has(<<r>>, r)
    BY DEF Has
  <1>5. /\ <<r>> \o rest \in Seq(Releases)
        /\ Within(<<r>>, <<r>> \o rest) /\ Within(rest, <<r>> \o rest)
    BY <1>2, <1>4, HasConcat
  <1>6. Has(<<r>> \o rest, r)
    BY <1>4, <1>5 DEF Within
  <1>7. QED
    BY <1>2, <1>3, <1>5, <1>6 DEF Within

\* Pruning keeps the release it is told to keep.
LEMMA KeptKeeps ==
  ASSUME NEW s \in Seq(Releases), NEW r \in Releases
  PROVE  Kept(s, r) \in Seq(Releases) /\ (Has(s, r) => Has(Kept(s, r), r))
  <1>1. \A n \in Nat : First(s, n) \in Seq(Releases)
    <2>1. SUFFICES ASSUME NEW n \in Nat PROVE First(s, n) \in Seq(Releases)
      OBVIOUS
    <2> DEFINE m == IF n < Len(s) THEN n ELSE Len(s)
    <2>2. m \in 0..Len(s) /\ 1 \in Nat \ {0}
      BY LenProperties
    <2> HIDE DEF m
    <2>3. SubSeq(s, 1, m) \in Seq(Releases)
      BY <2>2, HasPart
    <2>4. QED
      BY <2>3 DEF First, m
  <1>2. Keep \in Nat /\ Keep - 1 \in Nat
    BY DeployAssumption
  <1>3. <<r>> \in Seq(Releases) /\ Has(<<r>>, r)
    BY DEF Has
  <1>4. CASE Has(First(s, Keep), r)
    BY <1>1, <1>2, <1>4 DEF Kept
  <1>5. CASE ~Has(First(s, Keep), r)
    <2> DEFINE a == First(s, Keep - 1)
    <2>1. a \in Seq(Releases)
      BY <1>1, <1>2
    <2>2. CASE Has(s, r)
      <3>1. Kept(s, r) = a \o <<r>>
        BY <1>5, <2>2 DEF Kept
      <3> HIDE DEF a
      <3>2. a \o <<r>> \in Seq(Releases) /\ Within(<<r>>, a \o <<r>>)
        BY <1>3, <2>1, HasConcat
      <3>3. QED
        BY <1>3, <3>1, <3>2 DEF Within
    <2>3. CASE ~Has(s, r)
      <3>1. Kept(s, r) = a \o << >>
        BY <1>5, <2>3 DEF Kept
      <3> HIDE DEF a
      <3>2. QED
        BY <2>1, <2>3, <3>1, ConcatEmptySeq
    <2>4. QED
      BY <2>2, <2>3
  <1>6. QED
    BY <1>4, <1>5

\* the apply goes on to a step that needs nothing of the directories
Easily ==
  /\ ~At("idle") /\ ap'.sha = ap.sha /\ ap'.prev = ap.prev
  /\ ap'.pc \notin {"migrate", "up", "publish", "switch", "prune"}

\* A step that leaves the directories alone and lets nothing else serve but what is there.
LEMMA DiskKept ==
  ASSUME IInv, Retained, staged' = staged, published' = published, images \subseteq images',
         cur' = cur \/ cur'.status # "deployed", lapsed' \/ lapsed' = lapsed,
         host'.web = host.web, host'.api = host.api \/ host'.api \in images',
         Exited \/ Easily
  PROVE  Retained'
  <1>1. /\ host'.web # None => Has(published', host'.web)
        /\ host'.api # None => host'.api \in images'
        /\ cur'.status = "deployed" => Has(staged', cur'.sha)
    BY DEF Retained, RetentionSafe
  <1>2. ~lapsed' /\ ap'.prev # None =>
          ap'.prev \in images' /\ (WebHere => Has(published', ap'.prev))
    BY DEF Retained, RetentionSafe, Exited, Easily
  <1>3. ~At("idle")' => Has(staged', ap'.sha)
    BY DEF Retained, Exited, Easily, At
  <1>4. ap'.pc \notin {"migrate", "up", "publish", "switch", "prune"}
    BY DEF Exited, Easily
  <1>5. QED
    BY <1>1, <1>2, <1>3, <1>4 DEF Retained, RetentionSafe, At

\* Steps of the preparation and the undoing of it, that touch neither directories nor
\* what serves.
LEMMA PrepareRetains ==
  ASSUME IInv, Retained, Prepare
  PROVE  Retained'
  <1>1. staged' = staged /\ published' = published /\ images' = images
    BY DEF Prepare, BackupConfig, InstallConfig, BackupNginx, InstallNginx, TestNginx,
           WriteMarker, EarlyFailure, UndoConfig, UndoNginx, UndoFailure, HostOnly, disk
  <1>2. /\ cur' = cur \/ cur'.status # "deployed"
        /\ lapsed' \/ lapsed' = lapsed
    BY DEF Prepare, BackupConfig, InstallConfig, BackupNginx, InstallNginx, TestNginx,
           WriteMarker, EarlyFailure, UndoConfig, UndoNginx, UndoFailure, HostOnly
  <1>3. host'.web = host.web /\ host'.api = host.api
    <2>1. ASSUME host' \in Half, ap.pc \notin {"up", "rb_up"}
          PROVE  host'.web = host.web /\ host'.api = host.api
      BY <2>1, HalfEffect DEF IInv
    <2>2. EarlyFailure \/ UndoFailure => host' \in Half /\ ap.pc \notin {"up", "rb_up"}
      BY DEF EarlyFailure, UndoFailure, Early, Undo
    <2>3. CASE EarlyFailure \/ UndoFailure
      BY <2>1, <2>2, <2>3
    <2>4. CASE ~(EarlyFailure \/ UndoFailure)
      BY <2>4 DEF Prepare, BackupConfig, InstallConfig, BackupNginx, InstallNginx, TestNginx,
           WriteMarker, UndoConfig, UndoNginx, IInv, Shape, Host
    <2>5. QED
      BY <2>3, <2>4
  <1>4. Exited \/ Easily
    <2>1. ASSUME NEW pc \in Steps \ {"migrate", "up", "publish", "switch", "prune"}, Go(pc),
                 ~At("idle")
          PROVE  Easily
      BY <2>1, GoEffect DEF IInv, Easily, Proceeds, ApplyIs
    <2>2. CASE BackupConfig \/ BackupNginx
      BY <2>2 DEF BackupConfig, BackupNginx, IInv, Shape, Apply, Easily, At
    <2>3. CASE InstallConfig \/ InstallNginx \/ TestNginx \/ WriteMarker
      BY <2>1, <2>3 DEF InstallConfig, InstallNginx, TestNginx, WriteMarker, Steps, Early, Late,
                        Writes, At
    <2>4. CASE EarlyFailure
      BY <2>1, <2>4, ExitEffect DEF EarlyFailure, Steps, Undo, Early, At
    <2>5. CASE UndoConfig \/ UndoNginx \/ UndoFailure
      BY <2>1, <2>5, ExitEffect DEF UndoConfig, UndoNginx, UndoFailure, NextUndo, Steps, Undo, At
    <2>6. QED
      BY <2>2, <2>3, <2>4, <2>5 DEF Prepare
  <1>5. QED
    BY <1>1, <1>2, <1>3, <1>4, DiskKept

\* The rollback takes what it needs from the directories, or fails.
LEMMA RollBackRetains ==
  ASSUME IInv, Retained, RollBack
  PROVE  Retained'
  <1>1. staged' = staged /\ published' = published /\ images' = images
    BY DEF RollBack, WriteFailed, RollbackConfig, RollbackNginx, RollbackWeb, RollbackUp, Reload,
           RollbackCheck, RollbackStepFails, WriteRolledBack, HostOnly, disk
  <1>2. /\ cur' = cur \/ cur'.status # "deployed"
        /\ lapsed' \/ lapsed' = lapsed
    <2>1. CASE WriteFailed
      BY <2>1 DEF WriteFailed
    <2>2. CASE WriteRolledBack
      BY <2>2 DEF WriteRolledBack, IInv, Shape
    <2>3. CASE RollbackStepFails
      BY <2>3 DEF RollbackStepFails
    <2>4. QED
      BY <2>1, <2>2, <2>3 DEF RollBack, RollbackConfig, RollbackNginx, RollbackWeb, RollbackUp,
           Reload, RollbackCheck, HostOnly
  <1>3. ASSUME NEW pc \in Steps \ {"migrate", "up", "publish", "switch", "prune"}, Go(pc),
               ~At("idle")
        PROVE  Easily
    BY <1>3, GoEffect DEF IInv, Easily, Proceeds, ApplyIs
  <1>4. CASE RollbackWeb
    <2>1. Easily
      BY <1>3, <1>4 DEF RollbackWeb, Steps, Rollback, At
    <2>2. host'.api = host.api /\ host'.web = IF WebHere THEN ap.prev ELSE host.web
      BY <1>4, DeployAssumption DEF RollbackWeb, IInv, Shape, Host
    <2>3. /\ host'.web # None => Has(published', host'.web)
          /\ ~WebHere => host'.web = None
      BY <1>1, <1>4, <2>2, DeployAssumption DEF RollbackWeb, Retained, RetentionSafe
    <2>4. cur' = cur /\ lapsed' = lapsed
      BY <1>4 DEF RollbackWeb, HostOnly
    <2>5. QED
      BY <1>1, <2>1, <2>2, <2>3, <2>4 DEF Retained, RetentionSafe, Easily, At
  <1>5. CASE RollbackUp
    <2>1. Easily
      BY <1>3, <1>5 DEF RollbackUp, Steps, Rollback, At
    <2>2. host'.web = host.web /\ host'.api = ap.prev /\ ap.prev \in images
      BY <1>5 DEF RollbackUp, Running, IInv, Shape, Host
    <2>3. QED
      BY <1>1, <1>2, <2>1, <2>2, DiskKept
  <1>6. CASE RollbackStepFails
    <2>1. After[ap.pc] \in (Rollback \cup {"rb_record"}) \ {"rb_config"}
      BY <1>6 DEF RollbackStepFails, After, AfterConfig, Rollback
    <2>2. Easily
      BY <1>6, <2>1 DEF RollbackStepFails, IInv, Shape, Apply, Rollback, Easily, At
    <2>3. host'.web = host.web /\ (host'.api = host.api \/ host'.api \in images)
      <3>1. CASE At("rb_up")
        BY <1>6, <3>1, HalfEffect DEF RollbackStepFails, IInv, Half, Running, Shape, Host, At
      <3>2. CASE ~At("rb_up")
        BY <1>6, <3>2, HalfEffect DEF RollbackStepFails, IInv, Rollback, At
      <3>3. QED
        BY <3>1, <3>2
    <2>4. QED
      BY <1>1, <1>2, <2>2, <2>3, DiskKept
  <1>7. CASE WriteRolledBack
    BY <1>1, <1>2, <1>7, ExitEffect, DiskKept DEF WriteRolledBack
  <1>8. CASE \/ WriteFailed \/ RollbackConfig \/ RollbackNginx \/ RollbackCheck
             \/ At("rb_reload") /\ Reload("rb_check")
    <2>1. Easily
      BY <1>3, <1>8 DEF WriteFailed, RollbackConfig, RollbackNginx, RollbackCheck, Reload,
                        AfterConfig, Steps, Rollback, Writes, At
    <2>2. host'.web = host.web /\ host'.api = host.api
      BY <1>8 DEF WriteFailed, RollbackConfig, RollbackNginx, RollbackCheck, Reload, IInv, Shape,
                  Host
    <2>3. QED
      BY <1>1, <1>2, <2>1, <2>2, DiskKept
  <1>9. QED
    BY <1>4, <1>5, <1>6, <1>7, <1>8 DEF RollBack

\* What is loaded, published and recorded serves afterwards.
LEMMA SwitchRetains ==
  ASSUME IInv, Retained, Switch
  PROVE  Retained'
  <1>1. ASSUME NEW pc \in Steps, Go(pc), ~At("idle")
        PROVE  ap'.pc = pc /\ ap'.sha = ap.sha /\ ap'.prev = ap.prev
    BY <1>1, GoEffect DEF IInv, Proceeds, ApplyIs
  <1>2. CASE LoadImage
    <2>1. /\ ap'.pc = "migrate" /\ ap'.sha = ap.sha /\ ap'.prev = ap.prev /\ ~At("idle")
      BY <1>1, <1>2 DEF LoadImage, Steps, Late, At
    <2>2. images' = images \cup {ap.sha} /\ UNCHANGED <<host, staged, published, cur, lapsed>>
      BY <1>2 DEF LoadImage
    <2>3. QED
      BY <2>1, <2>2 DEF Retained, RetentionSafe, At
  <1>3. CASE Migrate
    <2>1. /\ ap'.pc \in {"up", "failed"} /\ ap'.sha = ap.sha /\ ap'.prev = ap.prev
          /\ At("migrate")
      BY <1>1, <1>3 DEF Migrate, Steps, Late, Writes, At
    <2>2. UNCHANGED <<host, staged, published, images, cur, lapsed>>
      BY <1>3 DEF Migrate, disk
    <2>3. QED
      BY <2>1, <2>2 DEF Retained, RetentionSafe, At
  <1>4. CASE ComposeUp
    <2>1. /\ ap'.pc \in {"publish", "reload"} /\ (ap'.pc = "publish" => WebHere)
          /\ ap'.sha = ap.sha /\ ap'.prev = ap.prev /\ At("up")
      BY <1>1, <1>4, DeployAssumption DEF ComposeUp, Steps, Late, At
    <2>2. UNCHANGED <<staged, published, images, cur, lapsed>>
      BY <1>4 DEF ComposeUp, HostOnly, disk
    <2>3. host'.web = host.web /\ host'.api = ap.sha
      BY <1>4 DEF ComposeUp, Running, IInv, Shape, Host
    <2>4. QED
      BY <2>1, <2>2, <2>3 DEF Retained, RetentionSafe, At
  <1>5. CASE PublishWeb
    <2>1. ap'.pc = "switch" /\ ap'.sha = ap.sha /\ ap'.prev = ap.prev /\ At("publish")
      BY <1>1, <1>5 DEF PublishWeb, Steps, Late, At
    <2>2. /\ UNCHANGED <<host, staged, images, cur, lapsed>> /\ ap.sha \in Releases
          /\ published' = IF Has(published, ap.sha) THEN published ELSE Newest(published, ap.sha)
      BY <1>5, <2>1 DEF PublishWeb, IInv, Shape, At
    <2>3. /\ published' \in Seq(Releases) /\ Has(published', ap.sha)
          /\ \A x : Has(published, x) => Has(published', x)
      BY <2>2, NewestKeeps DEF Within, Retained
    <2>4. QED
      BY <2>1, <2>2, <2>3 DEF Retained, RetentionSafe, At
  <1>6. CASE SwitchWeb
    <2>1. ap'.pc = "reload" /\ ap'.sha = ap.sha /\ ap'.prev = ap.prev /\ At("switch")
      BY <1>1, <1>6 DEF SwitchWeb, Steps, Late, At
    <2>2. /\ UNCHANGED <<staged, published, images, cur, lapsed>>
          /\ host'.web = ap.sha /\ host'.api = host.api
      BY <1>6 DEF SwitchWeb, HostOnly, disk, IInv, Shape, Host
    <2>3. QED
      BY <2>1, <2>2 DEF Retained, RetentionSafe, At
  <1>7. CASE (At("reload") /\ Reload("check")) \/ CheckHealth
    <2>1. /\ ap'.pc \in {"check", "record"} /\ ap'.sha = ap.sha /\ ap'.prev = ap.prev
          /\ ~At("idle")
      BY <1>1, <1>7 DEF Reload, CheckHealth, Steps, Late, Writes, At
    <2>2. /\ UNCHANGED <<staged, published, images, cur, lapsed>>
          /\ host'.web = host.web /\ host'.api = host.api
      BY <1>7, DeployAssumption DEF Reload, CheckHealth, HostOnly, disk, IInv, Shape, Host
    <2>3. QED
      BY <2>1, <2>2, DiskKept DEF Easily
  <1>8. CASE WriteDeployed
    <2>1. ap'.pc = "prune" /\ ap'.sha = ap.sha /\ ap'.prev = ap.prev /\ At("record")
      BY <1>1, <1>8 DEF WriteDeployed, Steps, Late, Writes, At
    <2>2. /\ UNCHANGED <<host, staged, published, images, lapsed>>
          /\ cur'.status = "deployed" /\ cur'.sha = ap.sha
      BY <1>8 DEF WriteDeployed, disk
    <2>3. QED
      BY <2>1, <2>2 DEF Retained, RetentionSafe, At
  <1>9. CASE Prune
    <2>1. /\ At("prune") /\ ap.sha \in Releases /\ cur.sha = ap.sha
          /\ cur.status = "deployed" /\ UNCHANGED <<host, cur, lapsed>> /\ Exited
      BY <1>9, ExitEffect DEF Prune, IInv, Shape, Recorded, Retained, At
    <2> DEFINE touched == Newest(staged, ap.sha)
    <2>2. touched \in Seq(Releases) /\ Has(touched, ap.sha)
      BY <2>1, NewestKeeps DEF Retained
    <2>3. staged' = Kept(touched, ap.sha) /\ published' = Kept(published, ap.sha)
      BY <1>9 DEF Prune
    <2> HIDE DEF touched
    <2>4. /\ staged' \in Seq(Releases) /\ Has(staged', ap.sha)
          /\ published' \in Seq(Releases)
          /\ Has(published, ap.sha) => Has(published', ap.sha)
      BY <2>1, <2>2, <2>3, KeptKeeps DEF Retained
    <2>5. host.web # None => Has(published', host.web)
      BY <2>1, <2>4 DEF Retained, RetentionSafe, IInv, Recorded, Serves, ServesBehind
    <2>6. host.api # None => host.api \in images'
      BY <1>9 DEF Prune, Retained, RetentionSafe
    <2>7. QED
      BY <2>1, <2>4, <2>5, <2>6 DEF Retained, RetentionSafe, Exited, At
  <1>10. CASE LateFailure
    <2>1. /\ ap'.pc = "failed" /\ ap'.sha = ap.sha /\ ap'.prev = ap.prev /\ ap.pc \in Late
      BY <1>1, <1>10 DEF LateFailure, Steps, Late, Writes, At
    <2>2. UNCHANGED <<staged, published, cur, lapsed>> /\ images \subseteq images'
      BY <1>10 DEF LateFailure, HalfLoaded
    <2>3. host'.web = host.web /\ (host'.api = host.api \/ (At("up") /\ host'.api = ap.sha))
      BY <1>10, <2>1, HalfEffect DEF LateFailure, IInv, Late, At
    <2>4. host'.api = host.api \/ host'.api \in images'
      BY <2>2, <2>3 DEF Retained, At
    <2>5. QED
      BY <2>1, <2>2, <2>3, <2>4, DiskKept DEF Easily, Late, At
  <1>11. QED
    BY <1>2, <1>3, <1>4, <1>5, <1>6, <1>7, <1>8, <1>9, <1>10 DEF Switch

\* A failed record, a crash or a restart leaves the directories alone.
LEMMA BreakRetains ==
  ASSUME IInv, Retained, WriteFailure \/ Crash \/ HostRestarts
  PROVE  Retained'
  <1>1. /\ staged' = staged /\ published' = published /\ images \subseteq images'
        /\ cur' = cur /\ (lapsed' \/ lapsed' = lapsed) /\ Exited
    BY ExitEffect DEF WriteFailure, Crash, HostRestarts, HalfLoaded, disk, IInv, Shape
  <1>2. host'.web = host.web /\ (host'.api = host.api \/ host'.api \in images)
    <2>1. CASE WriteFailure
      BY <2>1 DEF WriteFailure
    <2>2. CASE Crash
      <3>1. CASE At("rb_up")
        BY <2>2, <3>1, HalfEffect DEF Crash, IInv, Half, Running, Shape, Host, At
      <3>2. CASE ~At("rb_up")
        BY <2>2, <3>2, HalfEffect DEF Crash, IInv, Retained, At
      <3>3. QED
        BY <3>1, <3>2
    <2>3. CASE HostRestarts
      BY <2>3, RestartEffect DEF IInv, Retained, At
    <2>4. QED
      BY <2>1, <2>2, <2>3
  <1>3. QED
    BY <1>1, <1>2, DiskKept

\* receive-v1 only adds to what is staged; an apply takes a staged release, and what it
\* would go back to is what serves.
LEMMA ReceiveRetains ==
  ASSUME IInv, Retained, NEW r \in Releases, Receive(r) \/ ReceiveMove(r) \/ ApplyStart(r)
  PROVE  Retained'
  <1>1. CASE Receive(r) \/ ReceiveMove(r)
    <2>1. UNCHANGED <<host, published, images, cur, ap, lapsed>>
      BY <1>1 DEF Receive, ReceiveMove, disk
    <2>2. staged' \in Seq(Releases) /\ \A x : Has(staged, x) => Has(staged', x)
      BY <1>1, NewestKeeps DEF Receive, ReceiveMove, Within, Retained, disk
    <2>3. QED
      BY <2>1, <2>2 DEF Retained, RetentionSafe, At
  <1>2. CASE ApplyStart(r)
    <2>1. /\ UNCHANGED <<host, staged, published, images, cur, lapsed>> /\ At("idle")
          /\ ap'.pc = "backup" /\ ap'.sha = r /\ ap'.prev = cur.sha /\ Has(staged, r)
      BY <1>2 DEF ApplyStart, HostOnly, disk, NoApply
    <2>2. ~lapsed /\ cur.sha # None =>
            cur.sha \in images /\ (WebHere => Has(published, cur.sha))
      BY <2>1 DEF IInv, Recorded, Quiet, Serves, ServesBehind, Retained, RetentionSafe, At
    <2>3. QED
      BY <2>1, <2>2 DEF Retained, RetentionSafe, At
  <1>3. QED
    BY <1>1, <1>2

\* Retention keeps what is needed, whatever fails and wherever an apply breaks off: the web
\* tree and the image that serve, the release on record, and, unless an earlier apply
\* lapsed, what a rollback of the apply in progress goes back to; prune_releases counts
\* out the release that was just recorded and prune_images follows it.
THEOREM RetentionHolds == Spec => []RetentionSafe
  <1>1. Init => Retained
    BY DEF Init, Retained, RetentionSafe, NoApply, At
  <1>2. IInv /\ Retained /\ [Next]_vars => Retained'
    <2> SUFFICES ASSUME IInv, Retained, [Next]_vars
                 PROVE  Retained'
      OBVIOUS
    <2>1. CASE UNCHANGED vars
      BY <2>1 DEF vars, disk, Retained, RetentionSafe, At
    <2>2. CASE Next
      BY <2>2, PrepareRetains, SwitchRetains, RollBackRetains, BreakRetains, ReceiveRetains
      DEF Next
    <2>3. QED
      BY <2>1, <2>2
  <1>3. Retained => RetentionSafe
    BY DEF Retained
  <1>4. QED
    BY <1>1, <1>2, <1>3, Start, Step, PTL DEF Spec

-----------------------------------------------------------------------------
(* The refinement.  Each step is one before the switch or after its record, *)
(* where what serves is left alone (Outside), one of the switch that leaves *)
(* the record alone (Inside), one that is cut short (Broken), or one of the *)
(* four that write the record.                                              *)

\* what a switch in progress says on record
Announced ==
  /\ ap.pc \in Early \cup {"mark"} => cur.sha = ap.prev
  /\ ap.pc \in Late \cup {"record", "failed"} => cur.status = "transitioning"
  /\ ap.pc \in Rollback \cup {"rb_record"} => cur.status = "failed"

\* the steps at which what serves is being changed
Open == Late \cup Rollback \cup {"record", "failed", "rb_record"}

\* a step keeps this, and is a step of the abstract deploy or none
Maps == Announced' /\ (deploys!Next \/ UNCHANGED <<cur, Live, Behind, astray, GoesBack, lapsed>>)

\* what serves, in each of its parts, is untouched
Untouched ==
  /\ host'.api = host.api /\ host'.conf = host.conf /\ host'.web = host.web
  /\ host'.edge = host.edge

\* What serves is then what served.
LEMMA UntouchedLive == ASSUME Untouched PROVE Live' = Live /\ Behind' = Behind
  BY DEF Untouched, Live, Behind, Serves, ServesBehind

\* It is a release or none.
LEMMA LiveType == Shape => Live \in Releases \cup {None} /\ Behind \in Releases \cup {None}
  BY DEF Shape, Host, Live, Behind

\* a step while no switch is on
Outside ==
  /\ ap.pc \notin Open /\ ap'.pc \notin Open
  /\ Untouched /\ cur' = cur /\ astray' = astray /\ (lapsed' = lapsed \/ lapsed')
  /\ ap'.pc \in Early \cup {"mark"} => cur.sha = ap'.prev

\* a step of the switch that is not about the record
Inside ==
  /\ ap'.prev = ap.prev /\ cur' = cur /\ lapsed' = lapsed /\ (astray' = astray \/ ~astray')
  /\ \/ ap.pc \in Late /\ ap'.pc \in Late \cup {"record", "failed"}
     \/ ap.pc \in Rollback /\ ap'.pc \in Rollback \cup {"rb_record"}

\* what serves behind the edge is untouched, and so is the edge or it is astray
UntouchedBehind ==
  /\ host'.api = host.api /\ host'.conf = host.conf /\ host'.web = host.web
  /\ host'.edge = host.edge \/ astray'

\* the apply is cut short
Broken ==
  /\ ap'.pc = "idle" /\ cur' = cur /\ lapsed' /\ (astray' = astray \/ astray')
  /\ ap.pc \notin Open => UntouchedBehind

\* The groups of steps are disjoint.
LEMMA StepsApart ==
  /\ "idle" \notin Open /\ "prune" \notin Open /\ "mark" \notin Open
  /\ Early \cap Open = {} /\ Undo \cap Open = {}
  /\ Late \cap Rollback = {} /\ Early \cap Late = {} /\ Early \cap Rollback = {}
  /\ Writes \cap (Early \cup Late \cup Rollback) = {}
  /\ "idle" \notin Early \cup {"mark"} /\ "prune" \notin Early \cup {"mark"}
  /\ Undo \cap (Early \cup {"mark"}) = {}
  BY DEF Open, Late, Rollback, Early, Undo, Writes

\* Outside the switch nothing happens, or a lapse.
LEMMA OutsideMaps ==
  ASSUME IInv, Announced, Outside
  PROVE  Maps
  <1>1. /\ Live' = Live /\ Live \in Releases \cup {None}
        /\ Behind' = Behind /\ Behind \in Releases \cup {None}
    BY UntouchedLive, LiveType DEF Outside, IInv
  <1>2. GoesBack = {} /\ GoesBack' = {}
    BY DEF Outside, Open, GoesBack
  <1>3. deploys!Next \/ UNCHANGED <<cur, Live, Behind, astray, GoesBack, lapsed>>
    <2> HIDE DEF GoesBack, Live, Behind
    <2>1. CASE lapsed' = lapsed
      BY <1>1, <1>2, <2>1 DEF Outside
    <2>2. CASE lapsed' # lapsed
      <3>1. lapsed' = TRUE
        BY <2>2 DEF Outside
      <3>2. deploys!Lapse
        BY <1>1, <1>2, <3>1 DEF deploys!Lapse, Outside
      <3>3. QED
        BY <3>2 DEF deploys!Next
    <2>3. QED
      BY <2>1, <2>2
  <1>4. Announced'
    BY DEF Announced, Outside, Open
  <1>5. QED
    BY <1>3, <1>4 DEF Maps

\* Within it what serves changes.
LEMMA InsideMaps ==
  ASSUME IInv, IInv', Announced, Inside
  PROVE  Maps
  <1>1. Live' \in Releases \cup {None} /\ Behind' \in Releases \cup {None}
    <2>1. (Shape => Live \in Releases \cup {None} /\ Behind \in Releases \cup {None})'
      BY LiveType, PTL
    <2>2. QED
      BY <2>1 DEF IInv
  <1>2. GoesBack = {ap.prev} /\ GoesBack' = GoesBack
    BY DEF Inside, GoesBack
  <1>3. deploys!Change
    <2> HIDE DEF GoesBack, Live, Behind
    <2>1. astray' \in {astray, FALSE}
      BY DEF Inside, IInv, Shape
    <2>2. QED
      BY <1>1, <1>2, <2>1 DEF deploys!Change, Inside
  <1>4. Announced'
    BY StepsApart DEF Announced, Inside, Writes
  <1>5. QED
    BY <1>3, <1>4 DEF Maps, deploys!Next

\* Cut short, the apply lapses.
LEMMA BrokenMaps ==
  ASSUME IInv, IInv', Announced, Broken
  PROVE  Maps
  <1>1. Live' \in Releases \cup {None} /\ Behind' \in Releases \cup {None}
    <2>1. (Shape => Live \in Releases \cup {None} /\ Behind \in Releases \cup {None})'
      BY LiveType, PTL
    <2>2. QED
      BY <2>1 DEF IInv
  <1>2. GoesBack' = {} /\ (GoesBack = {} => ap.pc \notin Open)
    BY StepsApart DEF Broken, GoesBack, Open
  <1>3. GoesBack = {} => /\ Behind' = Behind
                         /\ Live' = Live \/ (astray' /\ Live' \in {None, Behind})
    <2> SUFFICES ASSUME GoesBack = {}
                 PROVE  /\ Behind' = Behind
                        /\ Live' = Live \/ (astray' /\ Live' \in {None, Behind})
      OBVIOUS
    <2>1. UntouchedBehind
      BY <1>2 DEF Broken
    <2>2. Behind' = Behind
      BY <2>1 DEF UntouchedBehind, Behind, ServesBehind
    <2>3. CASE host'.edge = host.edge
      BY <2>1, <2>3, UntouchedLive DEF UntouchedBehind, Untouched
    <2>4. CASE astray'
      <3>1. Live' \in {None, Behind'}
        BY DEF Live, Behind, Serves
      <3>2. QED
        BY <2>2, <2>4, <3>1
    <2>5. QED
      BY <2>1, <2>2, <2>3, <2>4 DEF UntouchedBehind
  <1>4. lapsed' = TRUE /\ astray' \in {astray, TRUE}
    BY DEF Broken, IInv, Shape
  <1>5. deploys!Lapse
    <2> HIDE DEF GoesBack, Live, Behind
    <2>1. QED
      BY <1>1, <1>2, <1>3, <1>4 DEF deploys!Lapse, Broken
  <1>6. Announced'
    BY StepsApart DEF Announced, Broken, Open
  <1>7. QED
    BY <1>5, <1>6 DEF Maps, deploys!Next

\* The marker announces the switch.
LEMMA MarkerMaps ==
  ASSUME IInv, Announced, WriteMarker
  PROVE  Maps
  <1>1. /\ At("mark") /\ cur' = [status |-> "transitioning", sha |-> ap.prev]
        /\ UNCHANGED <<host, lapsed, astray>> /\ cur.sha = ap.prev
    BY DEF WriteMarker, Announced, At
  <1>2. ap'.pc = "load" /\ ap'.prev = ap.prev
    BY GoEffect DEF WriteMarker, IInv, Proceeds, ApplyIs, Steps, Late
  <1>3. GoesBack = {} /\ GoesBack' = {ap.prev}
    BY <1>1, <1>2 DEF GoesBack, Late, Rollback, At
  <1>4. Live' = Live /\ Behind' = Behind
    BY <1>1 DEF Live, Behind, Serves, ServesBehind
  <1>5. deploys!Announce
    BY <1>1, <1>3, <1>4 DEF deploys!Announce
  <1>6. Announced'
    BY <1>1, <1>2 DEF Announced, Early, Late, Rollback
  <1>7. QED
    BY <1>5, <1>6 DEF Maps, deploys!Next

\* The end of the switch is recorded ...
LEMMA DeployedMaps ==
  ASSUME IInv, Announced, WriteDeployed
  PROVE  Maps
  <1>1. /\ At("record") /\ cur' = [status |-> "deployed", sha |-> ap.sha]
        /\ UNCHANGED <<host, lapsed, astray>> /\ cur.status = "transitioning"
    BY DEF WriteDeployed, Announced, At
  <1>2. ap'.pc = "prune"
    BY GoEffect DEF WriteDeployed, IInv, Proceeds, ApplyIs, Steps
  <1>3. GoesBack # {} /\ GoesBack' = {}
    BY <1>1, <1>2 DEF GoesBack, Late, Rollback, At
  <1>4. Live = ap.sha /\ ap.sha # None /\ Live' = Live /\ Behind' = Behind /\ ~astray
    BY <1>1, DeployAssumption DEF Live, Behind, Serves, ServesBehind, IInv, Shape, Forward, At
  <1>5. deploys!Finish
    BY <1>1, <1>3, <1>4 DEF deploys!Finish
  <1>6. Announced'
    BY <1>2 DEF Announced, Early, Late, Rollback
  <1>7. QED
    BY <1>5, <1>6 DEF Maps, deploys!Next

\* ... or its failure ...
LEMMA FailedMaps ==
  ASSUME IInv, Announced, WriteFailed
  PROVE  Maps
  <1>1. /\ At("failed") /\ cur' = [status |-> "failed", sha |-> ap.sha]
        /\ UNCHANGED <<host, lapsed, astray>> /\ cur.status = "transitioning" /\ ap.sha \in Releases
    BY DEF WriteFailed, Announced, At, IInv, Shape
  <1>2. ap'.pc = "rb_config" /\ ap'.prev = ap.prev
    BY GoEffect DEF WriteFailed, IInv, Proceeds, ApplyIs, Steps, Rollback
  <1>3. GoesBack = {ap.prev} /\ GoesBack' = GoesBack
    BY <1>1, <1>2 DEF GoesBack, Late, Rollback, At
  <1>4. Live' = Live /\ Behind' = Behind
    BY <1>1 DEF Live, Behind, Serves, ServesBehind
  <1>5. deploys!Fail(ap.sha)
    BY <1>1, <1>3, <1>4 DEF deploys!Fail
  <1>6. Announced'
    BY <1>1, <1>2 DEF Announced, Early, Late, Rollback
  <1>7. QED
    BY <1>1, <1>5, <1>6 DEF Maps, deploys!Next

\* ... and what the rollback of it brought back, or that it was incomplete.
LEMMA RolledBackMaps ==
  ASSUME IInv, IInv', Announced, WriteRolledBack
  PROVE  Maps
  <1>1. /\ At("rb_record") /\ UNCHANGED <<host, astray>> /\ cur.status = "failed"
        /\ lapsed' = (lapsed \/ ~ap.ok)
        /\ cur' = IF ap.ok THEN [status |-> "rolled_back_to", sha |-> ap.prev] ELSE cur
    BY DEF WriteRolledBack, Announced, At
  <1>2. ap'.pc = "idle" /\ Exited
    BY ExitEffect DEF WriteRolledBack, Exited
  <1>3. CASE ap.ok
    <2>1. GoesBack = {ap.prev} /\ GoesBack' = {}
      BY <1>1, <1>2 DEF GoesBack, Late, Rollback, At
    <2>2. Live' = Live /\ Behind' = Behind /\ lapsed' = lapsed
      BY <1>1, <1>3 DEF Live, Behind, Serves, ServesBehind, IInv, Shape
    <2>3. Live = ap.prev \/ lapsed
      BY <1>1, <1>3 DEF Live, Behind, Serves, ServesBehind, IInv, Restored, At
    <2>4. deploys!Restore
      BY <1>1, <1>3, <2>1, <2>2, <2>3 DEF deploys!Restore
    <2>5. Announced'
      BY <1>2 DEF Announced, Early, Late, Rollback
    <2>6. QED
      BY <2>4, <2>5 DEF Maps, deploys!Next
  <1>4. CASE ~ap.ok
    <2>1. Broken
      BY <1>1, <1>2, <1>4 DEF Broken, UntouchedBehind
    <2>2. QED
      BY <2>1, BrokenMaps
  <1>5. QED
    BY <1>3, <1>4 DEF IInv, Shape, Apply

\* What is left of a failed step outside the switch serves nothing else.
LEMMA HalfUntouched ==
  ASSUME IInv, host' \in Half, ap.pc \notin {"up", "rb_up"}
  PROVE  Untouched
  BY HalfEffect DEF IInv, Untouched

\* Preparing a switch and undoing the preparation.
LEMMA PrepareMaps ==
  ASSUME IInv, Announced, Prepare
  PROVE  Maps
  <1>1. ASSUME NEW pc \in Steps, Go(pc)
        PROVE  ap'.pc = pc /\ ap'.prev = ap.prev
    BY <1>1, GoEffect DEF IInv, Proceeds, ApplyIs
  <1>2. ASSUME Prepare, ~WriteMarker
        PROVE  Outside
    <2>1. ap.pc \in Early \cup Undo
      BY <1>2 DEF Prepare, BackupConfig, InstallConfig, BackupNginx, InstallNginx, TestNginx,
                  EarlyFailure, UndoConfig, UndoNginx, UndoFailure, Early, Undo, At
    <2>2. cur' = cur /\ astray' = astray /\ (lapsed' = lapsed \/ lapsed')
      BY <1>2 DEF Prepare, BackupConfig, InstallConfig, BackupNginx, InstallNginx, TestNginx,
                  EarlyFailure, UndoConfig, UndoNginx, UndoFailure, HostOnly
    <2>3. Untouched
      <3>1. CASE EarlyFailure \/ UndoFailure
        <4>1. host' \in Half /\ ap.pc \notin {"up", "rb_up"}
          BY <3>1 DEF EarlyFailure, UndoFailure, Early, Undo
        <4>2. QED
          BY <4>1, HalfUntouched
      <3>2. CASE ~(EarlyFailure \/ UndoFailure)
        BY <1>2, <3>2 DEF Prepare, BackupConfig, InstallConfig, BackupNginx, InstallNginx,
                          TestNginx, UndoConfig, UndoNginx, IInv, Shape, Host, Untouched
      <3>3. QED
        BY <3>1, <3>2
    <2>4. \/ ap.pc \in Early /\ ap'.pc \in Early \cup {"mark"} /\ ap'.prev = ap.prev
          \/ ap'.pc \in Undo \cup {"idle"}
      <3>1. CASE BackupConfig \/ BackupNginx
        BY <3>1 DEF BackupConfig, BackupNginx, IInv, Shape, Apply, Early, At
      <3>2. CASE InstallConfig \/ InstallNginx \/ TestNginx
        BY <1>1, <3>2 DEF InstallConfig, InstallNginx, TestNginx, Steps, Early, Writes, At
      <3>3. CASE EarlyFailure
        BY <1>1, <3>3, ExitEffect DEF EarlyFailure, Exited, Steps, Undo
      <3>4. CASE UndoConfig \/ UndoNginx \/ UndoFailure
        BY <1>1, <3>4, ExitEffect DEF UndoConfig, UndoNginx, UndoFailure, NextUndo, Exited,
                                      Steps, Undo
      <3>5. QED
        BY <1>2, <3>1, <3>2, <3>3, <3>4 DEF Prepare
    <2>5. QED
      BY <2>1, <2>2, <2>3, <2>4, StepsApart DEF Outside, Announced
  <1>3. QED
    BY <1>2, MarkerMaps, OutsideMaps

\* The switch goes on to its end; what is pruned serves nothing.
LEMMA SwitchMaps ==
  ASSUME IInv, IInv', Announced, Switch
  PROVE  Maps
  <1>1. ASSUME NEW pc \in Steps, Go(pc)
        PROVE  ap'.pc = pc /\ ap'.prev = ap.prev
    BY <1>1, GoEffect DEF IInv, Proceeds, ApplyIs
  <1>2. CASE Prune
    <2>1. Exited /\ At("prune") /\ UNCHANGED <<host, cur, lapsed, astray>>
      BY <1>2, ExitEffect DEF Prune
    <2>2. Outside
      BY <2>1, StepsApart DEF Outside, Exited, Untouched, At
    <2>3. QED
      BY <2>2, OutsideMaps
  <1>3. CASE WriteDeployed
    BY <1>3, DeployedMaps
  <1>4. ASSUME Switch, ~Prune, ~WriteDeployed
        PROVE  Inside
    <2>1. ap.pc \in Late /\ cur' = cur /\ lapsed' = lapsed /\ (astray' = astray \/ ~astray')
      BY <1>4 DEF Switch, LoadImage, Migrate, ComposeUp, PublishWeb, SwitchWeb, Reload,
                  CheckHealth, LateFailure, HostOnly, Late, At
    <2>2. ap'.prev = ap.prev /\ ap'.pc \in Late \cup {"record", "failed"}
      <3>1. CASE LoadImage \/ Migrate \/ ComposeUp
        BY <1>1, <3>1 DEF LoadImage, Migrate, ComposeUp, Steps, Late, Writes
      <3>2. CASE PublishWeb \/ SwitchWeb \/ CheckHealth \/ LateFailure
        BY <1>1, <3>2 DEF PublishWeb, SwitchWeb, CheckHealth, LateFailure, Steps, Late, Writes
      <3>3. CASE Reload("check")
        BY <1>1, <3>3 DEF Reload, Steps, Late
      <3>4. QED
        BY <1>4, <3>1, <3>2, <3>3 DEF Switch
    <2>3. QED
      BY <2>1, <2>2 DEF Inside
  <1>5. QED
    BY <1>2, <1>3, <1>4, InsideMaps

\* The rollback goes through all its steps.
LEMMA RollBackMaps ==
  ASSUME IInv, IInv', Announced, RollBack
  PROVE  Maps
  <1>1. ASSUME NEW pc \in Steps, Go(pc)
        PROVE  ap'.pc = pc /\ ap'.prev = ap.prev
    BY <1>1, GoEffect DEF IInv, Proceeds, ApplyIs
  <1>2. ASSUME RollBack, ~WriteFailed, ~WriteRolledBack
        PROVE  Inside
    <2>1. ap.pc \in Rollback /\ cur' = cur /\ lapsed' = lapsed /\ (astray' = astray \/ ~astray')
      BY <1>2 DEF RollBack, RollbackConfig, RollbackNginx, RollbackWeb, RollbackUp, Reload,
                  RollbackCheck, RollbackStepFails, HostOnly, Rollback, At
    <2>2. ap'.prev = ap.prev /\ ap'.pc \in Rollback \cup {"rb_record"}
      <3>1. CASE RollbackConfig \/ RollbackNginx \/ RollbackWeb \/ RollbackUp
        BY <1>1, <3>1 DEF RollbackConfig, RollbackNginx, RollbackWeb, RollbackUp, AfterConfig,
                          Steps, Rollback
      <3>2. CASE Reload("rb_check") \/ RollbackCheck
        BY <1>1, <3>2 DEF Reload, RollbackCheck, Steps, Rollback, Writes
      <3>3. CASE RollbackStepFails
        <4>1. After[ap.pc] \in Rollback \cup {"rb_record"}
          BY <3>3 DEF RollbackStepFails, After, AfterConfig, Rollback
        <4>2. QED
          BY <3>3, <4>1 DEF RollbackStepFails, IInv, Shape, Apply
      <3>4. QED
        BY <1>2, <3>1, <3>2, <3>3 DEF RollBack
    <2>3. QED
      BY <2>1, <2>2 DEF Inside
  <1>3. QED
    BY <1>2, InsideMaps, FailedMaps, RolledBackMaps

\* A failed record or a crash cuts the apply short.
LEMMA BreakMaps ==
  ASSUME IInv, IInv', Announced, WriteFailure \/ Crash
  PROVE  Maps
  <1>1. /\ Exited /\ cur' = cur /\ lapsed' /\ astray' = astray
        /\ host' = host \/ host' \in Half
    BY ExitEffect DEF WriteFailure, Crash
  <1>2. ap.pc \notin Open => UntouchedBehind
    BY <1>1, HalfUntouched DEF Untouched, UntouchedBehind, Open, Late, Rollback
  <1>3. Broken
    BY <1>1, <1>2 DEF Broken, Exited
  <1>4. QED
    BY <1>3, BrokenMaps

\* A restart cuts the apply in progress short; between two applies it may put the edge
\* astray after one that lapsed, and changes nothing otherwise.
LEMMA RestartMaps ==
  ASSUME IInv, IInv', Announced, HostRestarts
  PROVE  Maps
  <1>1. /\ Exited /\ cur' = cur /\ (astray' = astray \/ astray')
        /\ lapsed' <=> lapsed \/ ~At("idle")
    BY RestartEffect DEF IInv, Shape
  <1>2. ap.pc \notin Open => UntouchedBehind
    BY RestartEffect DEF IInv, UntouchedBehind, Open, Late, Rollback, At
  <1>3. CASE lapsed'
    <2>1. Broken
      BY <1>1, <1>2, <1>3 DEF Broken, Exited
    <2>2. QED
      BY <2>1, BrokenMaps
  <1>4. CASE ~lapsed'
    <2>1. At("idle") /\ ~lapsed
      BY <1>1, <1>4
    <2>2. host'.edge = host.edge /\ astray' = astray
      <3>1. EdgeHere => host'.edge = host.edge
        BY <2>1, RestartEffect DEF IInv, Recorded, Backups, Quiet, Serves, At
      <3>2. ~EdgeHere => host'.edge = host.edge
        BY <2>1, DeployAssumption DEF HostRestarts, Half, At
      <3>3. QED
        BY <3>1, <3>2 DEF HostRestarts, IInv, Shape
    <2>3. Live' = Live /\ Behind' = Behind
      BY <1>2, <2>1, <2>2, StepsApart, UntouchedLive DEF UntouchedBehind, Untouched, At
    <2>4. GoesBack = {} /\ GoesBack' = {}
      BY <1>1, <2>1, StepsApart DEF GoesBack, Open, Exited, At
    <2>5. Announced'
      BY <1>1, StepsApart DEF Announced, Exited, Open
    <2>6. QED
      BY <1>1, <1>4, <2>1, <2>2, <2>3, <2>4, <2>5 DEF Maps, IInv, Shape
  <1>5. QED
    BY <1>3, <1>4

\* An apply that starts goes back, if it fails, to what is on record.
LEMMA ReceiveMaps ==
  ASSUME IInv, Announced, NEW r \in Releases, Receive(r) \/ ReceiveMove(r) \/ ApplyStart(r)
  PROVE  Maps
  <1>1. CASE Receive(r) \/ ReceiveMove(r)
    <2>1. UNCHANGED <<host, cur, ap, lapsed, astray>>
      BY <1>1 DEF Receive, ReceiveMove
    <2>2. QED
      BY <2>1 DEF Maps, Announced, Live, Behind, Serves, ServesBehind, GoesBack
  <1>2. CASE ApplyStart(r)
    <2>1. /\ UNCHANGED <<host, cur, lapsed, astray>> /\ At("idle")
          /\ ap'.pc = "backup" /\ ap'.prev = cur.sha
      BY <1>2 DEF ApplyStart, HostOnly, NoApply
    <2>2. Outside
      BY <2>1, StepsApart DEF Outside, Untouched, At, Early
    <2>3. QED
      BY <2>2, OutsideMaps
  <1>3. QED
    BY <1>1, <1>2

\* Read from current.json, a deploy is announced, ends in what serves or goes back to what
\* was on record before, wherever a step fails or the wrapper is cut short (write_current
\* around the switch, rollback_previous).
THEOREM ReleasesRefined == Spec => ImplementsReleases
  <1>1. Init => Announced /\ deploys!Init
    BY DEF Init, Announced, deploys!Init, NoApply, Live, Behind, Serves, ServesBehind, GoesBack, Early, Late, Rollback
  <1>2. IInv /\ IInv' /\ Announced /\ [Next]_vars
          => Announced' /\ [deploys!Next]_<<cur, Live, Behind, astray, GoesBack, lapsed>>
    <2> SUFFICES ASSUME IInv, IInv', Announced, [Next]_vars
                 PROVE  Maps
      BY DEF Maps
    <2>1. CASE UNCHANGED vars
      BY <2>1 DEF vars, Maps, Announced, Live, Behind, Serves, ServesBehind, GoesBack
    <2>2. CASE Next
      BY <2>2, PrepareMaps, SwitchMaps, RollBackMaps, BreakMaps, RestartMaps, ReceiveMaps
      DEF Next
    <2>3. QED
      BY <2>1, <2>2
  <1>3. QED
    BY <1>1, <1>2, Inductive, PTL DEF Spec, ImplementsReleases, deploys!Spec
=============================================================================
