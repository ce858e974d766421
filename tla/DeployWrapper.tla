--------------------------- MODULE DeployWrapper ---------------------------
(***************************************************************************)
(* The root-owned deploy entry point of the VPS (deploy/vps/deploy-wrapper):*)
(* receive-v1 stages verified releases, apply-v1 switches the host to one  *)
(* of them, and rolls back when a step after the switch fails.  Any step   *)
(* can fail or be cut short by a crash, which leaves it done in part; the  *)
(* host may restart, and nginx then loads the files it finds.  A lock      *)
(* admits one apply at a time, receive-v1 takes no lock.                   *)
(***************************************************************************)
EXTENDS Integers, Sequences, FiniteSets

CONSTANTS
  Releases,   \* the git shas that are ever deployed
  Level,      \* [Releases -> Nat] the last migration a release's image knows
  Keep,       \* KEEP_RELEASES
  EdgeHere,   \* STROY_DEPLOY_EDGE = nginx: the TLS edge is on this host
  WebHere,    \* STROY_DEPLOY_WEB = local: the web assets are on this host
  Receivers,  \* bound on the receive-v1 that move a release into place at once
  MaxFaults,  \* bound on failing steps, crashes and restarts
  Mixed,      \* files of an install or a restore that was cut short
  None

ASSUME DeployAssumption ==
  /\ Level \in [Releases -> Nat] /\ Keep \in Nat \ {0}
  /\ Receivers \in Nat /\ MaxFaults \in Nat
  /\ EdgeHere \in BOOLEAN /\ WebHere \in BOOLEAN
  /\ None \notin Releases \cup {Mixed} /\ Mixed \notin Releases

VARIABLES
  host,       \* what is installed and what serves, each named by its release
  schema,     \* the migration the database is stamped with
  staged,     \* RELEASES_DIR, newest first
  published,  \* WEB_ROOT/releases, newest first
  images,     \* tags of stroy-api
  incoming,   \* how many receive-v1 found a release absent and are moving it into place
  cur,        \* current.json: the sha the wrapper believes live, and its status
  ap,         \* the apply in progress
  faults,
  lapsed,     \* history: some apply ended without undoing or recording all it did
  astray      \* history: nginx was restarted over files that no apply had it load

disk == <<staged, published, images>>
vars == <<host, schema, disk, incoming, cur, ap, faults, lapsed, astray>>

Files == Releases \cup {None, Mixed}

\* config and files: CONFIG_DIR and the nginx files; conf, api, web and edge: the
\* compose config and image of the running containers, the `current` symlink and
\* what nginx has loaded
Host == [config : Files, files : Files, conf : Files, edge : Files,
         api : Releases \cup {None}, web : Releases \cup {None}]

Record == [status : {"none", "transitioning", "failed", "rolled_back_to", "deployed"},
           sha : Releases \cup {None}]

Early    == {"backup", "config", "fbackup", "install", "test"}
Late     == {"load", "migrate", "up", "publish", "switch", "reload", "check"}
Undo     == {"undo_config", "undo_files"}
Rollback == {"rb_config", "rb_files", "rb_web", "rb_up", "rb_reload", "rb_check"}
Writes   == {"mark", "record", "failed", "rb_record"}
Steps    == {"idle", "prune"} \cup Early \cup Late \cup Undo \cup Rollback \cup Writes

\* cfg and files: the backups; nginx: its files may have been replaced; ok: no
\* rollback step failed so far (rc=0)
Apply == [pc : Steps, sha : Releases \cup {None}, prev : Releases \cup {None},
          cfg : Files, files : Files, nginx : BOOLEAN, ok : BOOLEAN]

NoApply == [pc |-> "idle", sha |-> None, prev |-> None, cfg |-> None, files |-> None,
            nginx |-> FALSE, ok |-> TRUE]

At(pc) == ap.pc = pc
Go(pc) == ap' = [ap EXCEPT !.pc = pc]
Exit == ap' = NoApply
Fault == faults < MaxFaults /\ faults' = faults + 1
HostOnly == UNCHANGED <<schema, disk, incoming, cur, faults, lapsed, astray>>

-----------------------------------------------------------------------------
(* receive-v1 *)

Has(s, r) == \E i \in DOMAIN s : s[i] = r

\* the n newest of s
First(s, n) == SubSeq(s, 1, IF n < Len(s) THEN n ELSE Len(s))

\* r becomes the newest of s
Newest(s, r) ==
  LET at == CHOOSE i \in DOMAIN s : s[i] = r
  IN <<r>> \o IF Has(s, r) THEN SubSeq(s, 1, at - 1) \o SubSeq(s, at + 1, Len(s)) ELSE s

Moving == {m \in Releases \X (1..Receivers) : m[2] <= incoming[m[1]]}

\* the envelope is verified and the release is not there; a release that is there
\* is verified once more and nothing changes
Receive(r) ==
  /\ ~Has(staged, r) /\ Cardinality(Moving) < Receivers
  /\ incoming' = [incoming EXCEPT ![r] = @ + 1]
  /\ UNCHANGED <<host, schema, disk, cur, ap, faults, lapsed, astray>>

\* mv into place; a second mv of the same release lands inside the directory of the
\* first, which verifies as before and counts as just changed
ReceiveMove(r) ==
  /\ incoming[r] > 0
  /\ incoming' = [incoming EXCEPT ![r] = @ - 1]
  /\ staged' = Newest(staged, r)
  /\ UNCHANGED <<host, schema, published, images, cur, ap, faults, lapsed, astray>>

-----------------------------------------------------------------------------
(* apply-v1 up to the transition marker *)

\* the lock is taken, the staged release verified and the previous sha read
ApplyStart(r) ==
  /\ At("idle") /\ Has(staged, r)
  /\ ap' = [NoApply EXCEPT !.pc = "backup", !.sha = r, !.prev = cur.sha]
  /\ UNCHANGED host /\ HostOnly

BackupConfig ==
  /\ At("backup")
  /\ ap' = [ap EXCEPT !.pc = "config", !.cfg = host.config]
  /\ UNCHANGED host /\ HostOnly

InstallConfig ==
  /\ At("config")
  /\ host' = [host EXCEPT !.config = ap.sha]
  /\ Go(IF EdgeHere THEN "fbackup" ELSE "mark")
  /\ HostOnly

BackupNginx ==
  /\ At("fbackup")
  /\ ap' = [ap EXCEPT !.pc = "install", !.files = host.files, !.nginx = TRUE]
  /\ UNCHANGED host /\ HostOnly

InstallNginx ==
  /\ At("install")
  /\ host' = [host EXCEPT !.files = ap.sha]
  /\ Go("test")
  /\ HostOnly

TestNginx ==
  /\ At("test")
  /\ Go("mark")
  /\ UNCHANGED host /\ HostOnly

\* a switch that starts before it is recorded
WriteNoMarker ==
  /\ At("mark")
  /\ Go("load")
  /\ UNCHANGED <<host, schema, disk, incoming, cur, faults, lapsed, astray>>

WriteMarker ==
  /\ At("mark")
  /\ cur' = [status |-> "transitioning", sha |-> ap.prev]
  /\ Go("load")
  /\ UNCHANGED <<host, schema, disk, incoming, faults, lapsed, astray>>

-----------------------------------------------------------------------------
(* apply-v1: the switch *)

\* a switch that leaves the migration to the container's start
LoadThenUp ==
  /\ At("load")
  /\ images' = images \cup {ap.sha}
  /\ Go("up")
  /\ UNCHANGED <<host, schema, staged, published, incoming, cur, faults, lapsed, astray>>

LoadImage ==
  /\ At("load")
  /\ images' = images \cup {ap.sha}
  /\ Go("migrate")
  /\ UNCHANGED <<host, schema, staged, published, incoming, cur, faults, lapsed, astray>>

\* alembic upgrade head, by the new image; it refuses a database stamped with a
\* revision the image does not know
Migrate ==
  /\ At("migrate")
  /\ IF schema <= Level[ap.sha]
     THEN schema' = Level[ap.sha] /\ Go("up")
     ELSE UNCHANGED schema /\ Go("failed")
  /\ UNCHANGED <<host, disk, incoming, cur, faults, lapsed, astray>>

Running(r) == [host EXCEPT !.api = r, !.conf = host.config]

ComposeUp ==
  /\ At("up")
  /\ host' = Running(ap.sha)
  /\ Go(IF WebHere THEN "publish" ELSE "reload")
  /\ HostOnly

\* an existing web release is compared with the archive and reused as it is
PublishWeb ==
  /\ At("publish")
  /\ published' = IF Has(published, ap.sha) THEN published ELSE Newest(published, ap.sha)
  /\ Go("switch")
  /\ UNCHANGED <<host, schema, staged, images, incoming, cur, faults, lapsed, astray>>

SwitchWeb ==
  /\ At("switch")
  /\ host' = [host EXCEPT !.web = ap.sha]
  /\ Go("reload")
  /\ HostOnly

Reload(next) ==
  /\ host' = IF EdgeHere THEN [host EXCEPT !.edge = host.files] ELSE host
  /\ astray' = FALSE
  /\ Go(next)
  /\ UNCHANGED <<schema, disk, incoming, cur, faults, lapsed>>

\* health, ingress and header checks pass
CheckHealth ==
  /\ At("check")
  /\ Go("record")
  /\ UNCHANGED host /\ HostOnly

WriteDeployed ==
  /\ At("record")
  /\ cur' = [status |-> "deployed", sha |-> ap.sha]
  /\ Go("prune")
  /\ UNCHANGED <<host, schema, disk, incoming, faults, lapsed, astray>>

\* pruning that counts the current release too and may remove it
KeptAnyway(s, r) == First(s, Keep - 1)

\* prune_releases: r and the Keep - 1 newest others
Kept(s, r) ==
  IF Has(First(s, Keep), r) THEN First(s, Keep)
  ELSE First(s, Keep - 1) \o IF Has(s, r) THEN <<r>> ELSE <<>>

\* touch, prune both directories, then the image tags without a staged release;
\* docker refuses to remove the image in use
Prune ==
  /\ At("prune")
  /\ staged' = Kept(Newest(staged, ap.sha), ap.sha)
  /\ published' = Kept(published, ap.sha)
  /\ images' = {i \in images : Has(staged', i) \/ i = host.api}
  /\ Exit
  /\ UNCHANGED <<host, schema, incoming, cur, faults, lapsed, astray>>

-----------------------------------------------------------------------------
(* What a step leaves behind when it fails or is cut short: nothing, or its *)
(* effect in part.                                                          *)

Half ==
  {host} \cup
  CASE ap.pc \in {"config", "undo_config", "rb_config"} -> {[host EXCEPT !.config = Mixed]}
    [] ap.pc \in {"install", "undo_files", "rb_files"}  -> {[host EXCEPT !.files = Mixed]}
    [] ap.pc = "up"                                     -> {Running(ap.sha)}
    [] ap.pc = "rb_up" /\ ap.prev \in images            -> {Running(ap.prev)}
    [] OTHER                                            -> {}

HalfLoaded == {images} \cup IF At("load") THEN {images \cup {ap.sha}} ELSE {}

\* a failure that leaves the rejected candidate installed
EarlyFailureExits ==
  /\ ap.pc \in Early
  /\ Fault
  /\ host' \in Half
  /\ Exit
  /\ UNCHANGED <<schema, disk, incoming, cur, lapsed, astray>>

\* fail_pre_transition: nothing serves the candidate yet, restore what was there
EarlyFailure ==
  /\ ap.pc \in Early
  /\ Fault
  /\ host' \in Half
  /\ IF At("backup") THEN Exit ELSE Go("undo_config")
  /\ UNCHANGED <<schema, disk, incoming, cur, lapsed, astray>>

\* fail_and_rollback
LateFailure ==
  /\ ap.pc \in Late
  /\ Fault
  /\ host' \in Half /\ images' \in HalfLoaded
  /\ Go("failed")
  /\ UNCHANGED <<schema, staged, published, incoming, cur, lapsed, astray>>

\* current.json cannot be written: the wrapper exits where it stands
WriteFailure ==
  /\ ap.pc \in Writes
  /\ At("rb_record") => ap.ok
  /\ Fault
  /\ lapsed' = TRUE
  /\ Exit
  /\ UNCHANGED <<host, schema, disk, incoming, cur, astray>>

\* the wrapper is killed or its ssh session breaks off
Crash ==
  /\ ~At("idle")
  /\ Fault
  /\ host' \in Half /\ images' \in HalfLoaded
  /\ lapsed' = TRUE
  /\ Exit
  /\ UNCHANGED <<schema, staged, published, incoming, cur, astray>>

\* the host restarts, during an apply or between two: the containers come back as
\* they were created, nginx loads the files that are installed
HostRestarts ==
  /\ Fault
  /\ \E left \in Half :
       host' = IF EdgeHere THEN [left EXCEPT !.edge = left.files] ELSE left
  /\ astray' = (astray \/ host'.edge # host.edge)
  /\ images' \in HalfLoaded
  /\ incoming' = [r \in Releases |-> 0]
  /\ lapsed' = (lapsed \/ ~At("idle"))
  /\ Exit
  /\ UNCHANGED <<schema, staged, published, cur>>

-----------------------------------------------------------------------------
(* fail_pre_transition and rollback_previous *)

NextUndo == IF At("undo_config") /\ ap.nginx THEN Go("undo_files") ELSE Exit

UndoConfig ==
  /\ At("undo_config")
  /\ host' = [host EXCEPT !.config = ap.cfg]
  /\ NextUndo
  /\ HostOnly

UndoNginx ==
  /\ At("undo_files")
  /\ host' = [host EXCEPT !.files = ap.files]
  /\ NextUndo
  /\ HostOnly

UndoFailure ==
  /\ ap.pc \in Undo
  /\ Fault
  /\ host' \in Half
  /\ lapsed' = TRUE
  /\ NextUndo
  /\ UNCHANGED <<schema, disk, incoming, cur, astray>>

\* sha is the target that failed: its release is believed live until the rollback
WriteFailed ==
  /\ At("failed")
  /\ cur' = [status |-> "failed", sha |-> ap.sha]
  /\ Go("rb_config")
  /\ UNCHANGED <<host, schema, disk, incoming, faults, lapsed, astray>>

AfterConfig == IF EdgeHere THEN "rb_files" ELSE "rb_web"

\* a rollback that brings back the image but not its config
RollbackNoConfig == At("rb_config") /\ Go(AfterConfig) /\ UNCHANGED host /\ HostOnly

RollbackConfig ==
  /\ At("rb_config")
  /\ host' = [host EXCEPT !.config = ap.cfg]
  /\ Go(AfterConfig)
  /\ HostOnly

RollbackNginx ==
  /\ At("rb_files")
  /\ host' = [host EXCEPT !.files = ap.files]
  /\ Go("rb_web")
  /\ HostOnly

\* each of these needs something of the previous release to go back to
RollbackWeb ==
  /\ At("rb_web")
  /\ WebHere => ap.prev # None /\ Has(published, ap.prev)
  /\ host' = [host EXCEPT !.web = IF WebHere THEN ap.prev ELSE @]
  /\ Go("rb_up")
  /\ HostOnly

RollbackUp ==
  /\ At("rb_up")
  /\ ap.prev \in images /\ host.config # Mixed
  /\ host' = Running(ap.prev)
  /\ Go("rb_reload")
  /\ HostOnly

RollbackCheck ==
  /\ At("rb_check")
  /\ Go("rb_record")
  /\ UNCHANGED host /\ HostOnly

Impossible ==
  \/ At("rb_web") /\ WebHere /\ (ap.prev = None \/ ~Has(published, ap.prev))
  \/ At("rb_up") /\ (ap.prev \notin images \/ host.config = Mixed)

After == [rb_config |-> AfterConfig, rb_files |-> "rb_web", rb_web |-> "rb_up",
          rb_up |-> "rb_reload", rb_reload |-> "rb_check", rb_check |-> "rb_record"]

\* a rollback step that fails sets rc=1 and the rollback goes on
RollbackStepFails ==
  /\ ap.pc \in Rollback
  /\ IF Impossible THEN UNCHANGED faults ELSE Fault
  /\ host' \in Half
  /\ ap' = [ap EXCEPT !.pc = After[ap.pc], !.ok = FALSE]
  /\ UNCHANGED <<schema, disk, incoming, cur, lapsed, astray>>

\* the record of a complete rollback; an incomplete one leaves "failed"
WriteRolledBack ==
  /\ At("rb_record")
  /\ cur' = IF ap.ok THEN [status |-> "rolled_back_to", sha |-> ap.prev] ELSE cur
  /\ lapsed' = (lapsed \/ ~ap.ok)
  /\ Exit
  /\ UNCHANGED <<host, schema, disk, incoming, faults, astray>>

-----------------------------------------------------------------------------
Init ==
  /\ host = [config |-> None, files |-> None, conf |-> None, edge |-> None,
             api |-> None, web |-> None]
  /\ schema = 0
  /\ staged = <<>> /\ published = <<>> /\ images = {}
  /\ incoming = [r \in Releases |-> 0]
  /\ cur = [status |-> "none", sha |-> None]
  /\ ap = NoApply
  /\ faults = 0 /\ lapsed = FALSE /\ astray = FALSE

Prepare ==
  \/ BackupConfig \/ InstallConfig \/ BackupNginx \/ InstallNginx \/ TestNginx
  \/ WriteMarker \/ EarlyFailure \/ UndoConfig \/ UndoNginx \/ UndoFailure

Switch ==
  \/ LoadImage \/ Migrate \/ ComposeUp \/ PublishWeb \/ SwitchWeb
  \/ At("reload") /\ Reload("check")
  \/ CheckHealth \/ WriteDeployed \/ Prune \/ LateFailure

RollBack ==
  \/ WriteFailed \/ RollbackConfig \/ RollbackNginx \/ RollbackWeb \/ RollbackUp
  \/ At("rb_reload") /\ Reload("rb_check")
  \/ RollbackCheck \/ RollbackStepFails \/ WriteRolledBack

Next ==
  \/ \E r \in Releases : Receive(r) \/ ReceiveMove(r) \/ ApplyStart(r)
  \/ Prepare \/ Switch \/ RollBack \/ WriteFailure \/ Crash \/ HostRestarts

Spec == Init /\ [][Next]_vars

-----------------------------------------------------------------------------
(* What holds whatever fails and crashes. *)

\* the containers and the web tree
ServesBehind(r) == host.api = r /\ host.conf = r /\ (WebHere => host.web = r)

Serves(r) == ServesBehind(r) /\ (EdgeHere => host.edge = r)

\* Of a release on record as deployed the containers and the web tree serve, also
\* while the next apply prepares and wherever that breaks off; and so does the edge,
\* unless nginx was restarted over what a broken-off apply had installed.
DeployedIsLive ==
  cur.status = "deployed" => ServesBehind(cur.sha) /\ (astray \/ Serves(cur.sha))

\* Retention keeps what is needed: the web tree and the image in service, the
\* release on record, and (unless an earlier apply lapsed) all that a rollback of
\* the apply in progress goes back to.
RetentionSafe ==
  /\ host.web # None => Has(published, host.web)
  /\ host.api # None => host.api \in images
  /\ cur.status = "deployed" => Has(staged, cur.sha)
  /\ ~lapsed /\ ap.prev # None =>
       ap.prev \in images /\ (WebHere => Has(published, ap.prev))

-----------------------------------------------------------------------------
(* What holds as long as no apply lapsed. *)

\* A rollback that is recorded as complete brought every part of the previous
\* release back.
RollbackRestores == ~lapsed /\ cur.status = "rolled_back_to" => Serves(cur.sha)

\* Between applies the host is in a recorded state, and the deploy config and nginx
\* files that the next apply takes as its baseline are those of that release.
BaselineKept ==
  ~lapsed /\ At("idle") =>
    /\ cur.status \in {"none", "deployed", "rolled_back_to"}
    /\ host.config = cur.sha
    /\ EdgeHere => host.files = cur.sha

\* No code runs before its migrations (step 4a), rolled back or not.
SchemaReady == ~lapsed /\ host.api # None => Level[host.api] <= schema

-----------------------------------------------------------------------------
(* What it promises whoever reads current.json. *)

\* the release that serves in every part, and behind the edge
Live == IF Serves(host.api) THEN host.api ELSE None
Behind == IF ServesBehind(host.api) THEN host.api ELSE None

\* what the switch in progress goes back to when it fails
GoesBack ==
  IF ap.pc \in Late \cup Rollback \cup {"record", "failed", "rb_record"} THEN {ap.prev} ELSE {}

deploys == INSTANCE ReleaseService
             WITH Nothing <- None, record <- cur, live <- Live, behind <- Behind,
                  back <- GoesBack, doubt <- lapsed

\* Wherever an apply fails or is cut short, what serves changes only between the marker
\* and the record of how the switch ended, or, at the edge, when nginx is restarted over
\* what a broken-off apply left; "deployed" is written of a release that serves, and a
\* complete rollback is recorded of the release that was on record before, which serves
\* again unless an apply lapsed.
ImplementsReleases == deploys!Spec

-----------------------------------------------------------------------------
(* What the documentation says, and the code does not do. *)

\* Without a fault every apply of a staged release succeeds, an older one's too
\* (deploy/vps/README.md, Rollback: "a re-deploy of the old artifact").
RedeployWorks == faults = 0 => cur.status \notin {"failed", "rolled_back_to"}
=============================================================================
