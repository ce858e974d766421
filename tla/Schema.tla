------------------------------- MODULE Schema -------------------------------
(***************************************************************************)
(* The database schema: the chain of migrations 0001 to 0017, what         *)
(* db/models.py declares, and the deletion of a project, which has to know *)
(* the foreign keys.  alembic runs a migration in one transaction, so one  *)
(* that raises changes nothing.  A column is known by its name and by      *)
(* whether it may be NULL; types are left out.                             *)
(***************************************************************************)
EXTENDS Integers, Sequences

CONSTANTS
  Watched  \* the tables whose rows the model follows

VARIABLES
  at,      \* alembic_version: how many migrations are applied
  tables,  \* the schema: table name -> definition
  rows,    \* the watched tables that hold rows of the project
  forked   \* some revision has two children

schemaVars == <<at, tables, rows, forked>>

Latest == 17

\* a table: columns NOT NULL, columns that may be NULL, UNIQUE constraints and
\* indexes (sequences of columns, those of a unique index after the word UNIQUE),
\* foreign keys <<column, table>>
Table(req, null, unique, index, refs) ==
  [req |-> req, null |-> null, unique |-> unique, index |-> index, refs |-> refs]

Each(cols) == {<<c>> : c \in cols}
UniqueIndex(col) == {<<"UNIQUE", col>>}
Owned == {<<"project_id", "projects">>}

\* tables added to the schema
With(s, more) ==
  [t \in DOMAIN s \cup DOMAIN more |-> IF t \in DOMAIN more THEN more[t] ELSE s[t]]

Create(s, t, def) == With(s, [u \in {t} |-> def])

\* drop_table one after the other; a table that others still refer to stays, and
\* with it the whole transaction
Drop(s, order) ==
  LET gone(i) == {order[k] : k \in 1..i}
      held == \E i \in 1..Len(order), t \in DOMAIN s :
                t \notin gone(i) /\ \E r \in s[t].refs : r[2] = order[i]
  IN IF held THEN s ELSE [t \in DOMAIN s \ gone(Len(order)) |-> s[t]]

Add(s, t, req, null, unique, index) ==
  [s EXCEPT ![t].req = @ \cup req, ![t].null = @ \cup null,
            ![t].unique = @ \cup unique, ![t].index = @ \cup index]

Remove(s, t, cols, unique, index) ==
  [s EXCEPT ![t].req = @ \ cols, ![t].null = @ \ cols,
            ![t].unique = @ \ unique, ![t].index = @ \ index]

-----------------------------------------------------------------------------
(* The migrations *)

Up0001(s) == With(s, [
  projects |-> Table({"id", "name", "created_at"}, {}, {}, {}, {}),
  scene_revisions |-> Table(
    {"id", "project_id", "schema_version", "content_hash", "scene_json", "created_at"},
    {"parent_revision_id", "command_id"}, {<<"parent_revision_id">>},
    Each({"project_id", "content_hash"}), Owned),
  design_commands |-> Table(
    {"id", "project_id", "base_revision_id", "operation", "target_id", "parameters",
     "reference_asset_ids", "origin", "created_at"},
    {"request_text"}, {}, Each({"project_id"}), Owned),
  assets |-> Table(
    {"id", "project_id", "object_key", "media_type", "size_bytes", "sha256",
     "provenance", "created_at"},
    {"original_name", "source_asset_id"}, {<<"object_key">>},
    Each({"project_id", "sha256"}), Owned),
  jobs |-> Table(
    {"id", "job_type", "status", "payload", "required_capabilities", "attempt",
     "created_at", "updated_at"},
    {"project_id", "result", "error", "leased_to", "lease_id", "lease_expires_at"}, {},
    Each({"project_id", "job_type", "status"}) \cup {<<"status", "created_at">>}, {}),
  workers |-> Table(
    {"id", "capabilities", "models", "runtimes", "hardware", "status", "last_heartbeat"},
    {"display_name"}, {}, {}, {}),
  auth_sessions |-> Table(
    {"id", "token_hash", "csrf_token", "expires_at", "created_at"}, {"revoked_at"},
    {<<"token_hash">>}, Each({"token_hash", "expires_at"}), {})])

Down0001(s) == Drop(s, <<"auth_sessions", "workers", "jobs", "assets",
                         "design_commands", "scene_revisions", "projects">>)

JobsKey == {<<"project_id", "job_type", "idempotency_key">>}

\* without the correlation id of jobs
Up0002Short(s) ==
  Add(Add(s, "assets", {"role", "metadata_json", "source_asset_ids"},
          {"duplicate_of_asset_id"}, {}, {}),
      "jobs", {"progress", "runtime_provenance"}, {"idempotency_key"}, JobsKey, {})

\* the NOT NULL columns have a server default, so rows are no obstacle
Up0002(s) ==
  Add(Add(s, "assets", {"role", "metadata_json", "source_asset_ids"},
          {"duplicate_of_asset_id"}, {}, {}),
      "jobs", {"progress", "runtime_provenance"}, {"idempotency_key", "correlation_id"},
      JobsKey, {})

Down0002(s) ==
  Remove(Remove(s, "jobs",
                {"runtime_provenance", "correlation_id", "progress", "idempotency_key"},
                JobsKey, {}),
         "assets", {"duplicate_of_asset_id", "source_asset_ids", "metadata_json", "role"},
         {}, {})

Up0003(s) == Add(s, "design_commands", {}, {"model_profile", "correlation_id"}, {}, {})
Down0003(s) == Remove(s, "design_commands", {"correlation_id", "model_profile"}, {}, {})

Up0004(s) == Create(s, "style_profiles", Table(
  {"id", "project_id", "schema_version", "source_asset_ids", "profile_json", "created_at"},
  {"source_text", "model_profile", "correlation_id"}, {}, Each({"project_id"}), Owned))
Down0004(s) == Drop(s, <<"style_profiles">>)

Up0005(s) == Create(s, "render_manifests", Table(
  {"id", "project_id", "job_id", "scene_revision_id", "camera_id", "manifest_json",
   "created_at"},
  {"design_revision_id"}, {<<"job_id">>},
  Each({"project_id", "scene_revision_id"}) \cup UniqueIndex("job_id"), Owned))
Down0005(s) == Drop(s, <<"render_manifests">>)

Up0006(s) == Create(s, "geometry_diagnostics", Table(
  {"id", "project_id", "job_id", "scene_revision_id", "camera_id", "reference_asset_id",
   "generated_asset_id", "diagnostic_json", "created_at"},
  {}, {<<"job_id">>}, Each({"project_id", "scene_revision_id"}) \cup UniqueIndex("job_id"),
  Owned))
Down0006(s) == Drop(s, <<"geometry_diagnostics">>)

Up0007(s) == Create(s, "generation_manifests", Table(
  {"id", "project_id", "job_id", "scene_revision_id", "design_revision_id", "camera_id",
   "manifest_json", "created_at"},
  {}, {<<"job_id">>},
  Each({"project_id", "scene_revision_id", "design_revision_id"}) \cup UniqueIndex("job_id"),
  Owned))
Down0007(s) == Drop(s, <<"generation_manifests">>)

Up0008(s) == Create(s, "plan_drafts", Table(
  {"id", "project_id", "version", "draft_json", "status", "created_at"}, {"job_id"}, {},
  {<<"project_id">>, <<"project_id", "version">>}, Owned))
Down0008(s) == Drop(s, <<"plan_drafts">>)

Up0009(s) == Add(s, "auth_sessions", {}, {"last_seen_at"}, {}, {})
Down0009(s) == Remove(s, "auth_sessions", {"last_seen_at"}, {}, {})

Telemetry == {"telemetry", "telemetry_updated_at"}
Up0010(s) == Add(s, "workers", {}, Telemetry, {}, {})
Down0010(s) == Remove(s, "workers", Telemetry, {}, {})
Up0011(s) == Remove(s, "workers", Telemetry, {}, {})
Down0011(s) == Add(s, "workers", {}, Telemetry, {}, {})

Up0012(s) == Create(s, "attachments", Table(
  {"id", "project_id", "target_type", "kind", "done", "metadata_json", "created_at",
   "updated_at"},
  {"target_id", "asset_id", "body", "due_date"}, {},
  {<<"project_id">>, <<"project_id", "target_type", "target_id">>, <<"asset_id">>,
   <<"project_id", "kind">>}, Owned))
Down0012(s) == Drop(s, <<"attachments">>)

Up0013(s) == Create(s, "validation_reports", Table(
  {"id", "project_id", "scene_revision_id", "scene_content_hash", "config_hash",
   "report_hash", "report_json", "created_at"}, {}, {},
  Each({"project_id", "scene_revision_id", "scene_content_hash", "config_hash",
        "report_hash"}) \cup {<<"project_id", "scene_revision_id", "created_at">>}, Owned))
Down0013(s) == Drop(s, <<"validation_reports">>)

Up0014(s) == Create(s, "product_candidates", Table(
  {"id", "project_id", "provenance", "metadata_json", "created_at", "updated_at"},
  {"source_url", "source_asset_id", "title", "brand", "model", "price", "currency",
   "width_mm", "depth_mm", "height_mm", "material_descriptors", "color_descriptors",
   "extraction_confidence", "preview_asset_id", "three_d_ref"}, {},
  {<<"project_id">>, <<"project_id", "created_at">>, <<"source_asset_id">>,
   <<"preview_asset_id">>},
  Owned \cup {<<"source_asset_id", "assets">>, <<"preview_asset_id", "assets">>}))
Down0014(s) == Drop(s, <<"product_candidates">>)

ParentLock == {<<"parent_revision_id">>}

\* the variant column of the two kinds of manifest
Linked(s, t) == Add(s, t, {}, {"variant_id"}, {}, {<<"variant_id">>})
Unlinked(s, t) == Remove(s, t, {"variant_id"}, {}, {<<"variant_id">>})

\* refused when the UNIQUE lock on the parent is not there to be dropped
Up0015(s) ==
  IF ParentLock \cap s["scene_revisions"].unique = {} THEN s
  ELSE LET unlocked == Add(Remove(s, "scene_revisions", {}, ParentLock, {}),
                           "scene_revisions", {}, {}, {}, {<<"parent_revision_id">>})
           variants == Create(unlocked, "scene_variants", Table(
             {"id", "project_id", "title", "base_scene_revision_id",
              "head_scene_revision_id", "status", "metadata_json", "created_at",
              "updated_at"}, {}, {},
             {<<"project_id">>, <<"project_id", "status">>,
              <<"project_id", "head_scene_revision_id">>,
              <<"project_id", "base_scene_revision_id">>}, Owned))
       IN Create(Linked(Linked(variants, "render_manifests"), "generation_manifests"),
                 "budget_items", Table(
             {"id", "project_id", "variant_id", "scene_revision_id", "kind", "label",
              "metadata_json", "created_at"},
             {"product_candidate_id", "amount", "currency", "quantity"}, {},
             {<<"project_id">>, <<"variant_id">>, <<"project_id", "variant_id">>,
              <<"variant_id", "scene_revision_id">>},
             Owned \cup {<<"product_candidate_id", "product_candidates">>}))

\* the lock put back over whatever history there is
Down0015Blindly(s) ==
  LET dropped == Drop(s, <<"budget_items", "scene_variants">>)
      bare == Unlinked(Unlinked(dropped, "render_manifests"), "generation_manifests")
  IN Add(Remove(bare, "scene_revisions", {}, {}, {<<"parent_revision_id">>}),
         "scene_revisions", {}, {}, ParentLock, {})

\* refused while there are variants or a revision has two children
Down0015(s) ==
  IF "scene_variants" \in rows \/ forked THEN s
  ELSE LET dropped == Drop(s, <<"budget_items", "scene_variants">>)
           bare == Unlinked(Unlinked(dropped, "render_manifests"), "generation_manifests")
       IN Add(Remove(bare, "scene_revisions", {}, {}, {<<"parent_revision_id">>}),
              "scene_revisions", {}, {}, ParentLock, {})

Up0016(s) == Add(s, "projects", {}, {"brief_notes_json"}, {}, {})
Down0016(s) == Remove(s, "projects", {"brief_notes_json"}, {}, {})

Up0017(s) ==
  Create(Create(s, "progress_snapshots", Table(
    {"id", "project_id", "name", "stage", "captured_at", "provenance", "attachment_ids",
     "compare_target_kind", "compare_target_revision_id", "metadata_json", "created_at",
     "updated_at"},
    {"stage_label", "note", "compare_target_variant_id", "deleted_at"}, {},
    {<<"project_id">>, <<"project_id", "created_at">>, <<"project_id", "stage">>,
     <<"project_id", "compare_target_kind", "compare_target_revision_id">>}, Owned)),
    "deviations", Table(
    {"id", "project_id", "snapshot_id", "status", "planned_revision_id",
     "planned_target_type", "observed_kind", "observed_value_json", "provenance",
     "confidence", "evidence_attachment_ids", "created_at", "updated_at"},
    {"planned_entity_id", "planned_room_id", "planned_property_path",
     "planned_value_json", "note", "accepted_target_kind", "accepted_variant_id",
     "accepted_command_id", "accepted_revision_id"}, {},
    {<<"project_id">>, <<"snapshot_id">>, <<"project_id", "snapshot_id", "status">>,
     <<"project_id", "planned_entity_id">>, <<"project_id", "accepted_revision_id">>},
    Owned))
Down0017(s) == Drop(s, <<"deviations", "progress_snapshots">>)

Upgraded(n, s) ==
  CASE n = 1 -> Up0001(s) [] n = 2 -> Up0002(s) [] n = 3 -> Up0003(s)
    [] n = 4 -> Up0004(s) [] n = 5 -> Up0005(s) [] n = 6 -> Up0006(s)
    [] n = 7 -> Up0007(s) [] n = 8 -> Up0008(s) [] n = 9 -> Up0009(s)
    [] n = 10 -> Up0010(s) [] n = 11 -> Up0011(s) [] n = 12 -> Up0012(s)
    [] n = 13 -> Up0013(s) [] n = 14 -> Up0014(s) [] n = 15 -> Up0015(s)
    [] n = 16 -> Up0016(s) [] n = 17 -> Up0017(s)

Downgraded(n, s) ==
  CASE n = 1 -> Down0001(s) [] n = 2 -> Down0002(s) [] n = 3 -> Down0003(s)
    [] n = 4 -> Down0004(s) [] n = 5 -> Down0005(s) [] n = 6 -> Down0006(s)
    [] n = 7 -> Down0007(s) [] n = 8 -> Down0008(s) [] n = 9 -> Down0009(s)
    [] n = 10 -> Down0010(s) [] n = 11 -> Down0011(s) [] n = 12 -> Down0012(s)
    [] n = 13 -> Down0013(s) [] n = 14 -> Down0014(s) [] n = 15 -> Down0015(s)
    [] n = 16 -> Down0016(s) [] n = 17 -> Down0017(s)

-----------------------------------------------------------------------------
(* What db/models.py declares: one table per class *)

ProjectRow == Table({"id", "name", "created_at"}, {"brief_notes_json"}, {}, {}, {})
SceneRevisionRow == Table(
  {"id", "project_id", "schema_version", "content_hash", "scene_json", "created_at"},
  {"parent_revision_id", "command_id"}, {},
  Each({"project_id", "parent_revision_id", "content_hash"}), Owned)
DesignCommandRow == Table(
  {"id", "project_id", "base_revision_id", "operation", "target_id", "parameters",
   "reference_asset_ids", "origin", "created_at"},
  {"request_text", "model_profile", "correlation_id"}, {}, Each({"project_id"}), Owned)
AssetRow == Table(
  {"id", "project_id", "object_key", "media_type", "size_bytes", "sha256", "provenance",
   "role", "metadata_json", "source_asset_ids", "created_at"},
  {"original_name", "source_asset_id", "duplicate_of_asset_id"}, {<<"object_key">>},
  Each({"project_id", "sha256"}), Owned)
ProductCandidateRow == Table(
  {"id", "project_id", "provenance", "metadata_json", "created_at", "updated_at"},
  {"source_url", "source_asset_id", "title", "brand", "model", "price", "currency",
   "width_mm", "depth_mm", "height_mm", "material_descriptors", "color_descriptors",
   "extraction_confidence", "preview_asset_id", "three_d_ref"}, {},
  Each({"project_id", "source_asset_id", "preview_asset_id"})
    \cup {<<"project_id", "created_at">>},
  Owned \cup {<<"source_asset_id", "assets">>, <<"preview_asset_id", "assets">>})
AttachmentRow == Table(
  {"id", "project_id", "target_type", "kind", "done", "metadata_json", "created_at",
   "updated_at"}, {"target_id", "asset_id", "body", "due_date"}, {},
  Each({"project_id", "asset_id"})
    \cup {<<"project_id", "target_type", "target_id">>, <<"project_id", "kind">>}, Owned)
StyleProfileRow == Table(
  {"id", "project_id", "schema_version", "source_asset_ids", "profile_json", "created_at"},
  {"source_text", "model_profile", "correlation_id"}, {}, Each({"project_id"}), Owned)
PlanDraftRow == Table(
  {"id", "project_id", "version", "draft_json", "status", "created_at"}, {"job_id"}, {},
  Each({"project_id"}) \cup {<<"project_id", "version">>}, Owned)
GenerationManifestRow == Table(
  {"id", "project_id", "job_id", "scene_revision_id", "design_revision_id", "camera_id",
   "manifest_json", "created_at"}, {"variant_id"}, {},
  Each({"project_id", "scene_revision_id", "design_revision_id", "variant_id"})
    \cup UniqueIndex("job_id"), Owned)
RenderManifestRow == Table(
  {"id", "project_id", "job_id", "scene_revision_id", "camera_id", "manifest_json",
   "created_at"}, {"design_revision_id", "variant_id"}, {},
  Each({"project_id", "scene_revision_id", "variant_id"}) \cup UniqueIndex("job_id"), Owned)
GeometryDiagnosticRow == Table(
  {"id", "project_id", "job_id", "scene_revision_id", "camera_id", "reference_asset_id",
   "generated_asset_id", "diagnostic_json", "created_at"}, {}, {},
  Each({"project_id", "scene_revision_id"}) \cup UniqueIndex("job_id"), Owned)
JobRow == Table(
  {"id", "job_type", "status", "payload", "required_capabilities", "progress",
   "runtime_provenance", "attempt", "created_at", "updated_at"},
  {"project_id", "result", "error", "idempotency_key", "correlation_id", "leased_to",
   "lease_id", "lease_expires_at"}, JobsKey,
  Each({"project_id", "job_type", "status"}) \cup {<<"status", "created_at">>}, {})
WorkerRow == Table(
  {"id", "capabilities", "models", "runtimes", "hardware", "status", "last_heartbeat"},
  {"display_name"}, {}, {}, {})
ValidationReportRow == Table(
  {"id", "project_id", "scene_revision_id", "scene_content_hash", "config_hash",
   "report_hash", "report_json", "created_at"}, {}, {},
  Each({"project_id", "scene_revision_id", "scene_content_hash", "config_hash",
        "report_hash"}) \cup {<<"project_id", "scene_revision_id", "created_at">>}, Owned)
SceneVariantRow == Table(
  {"id", "project_id", "title", "base_scene_revision_id", "head_scene_revision_id",
   "status", "metadata_json", "created_at", "updated_at"}, {}, {},
  {<<"project_id">>, <<"project_id", "status">>,
   <<"project_id", "head_scene_revision_id">>,
   <<"project_id", "base_scene_revision_id">>}, Owned)
BudgetItemRow == Table(
  {"id", "project_id", "variant_id", "scene_revision_id", "kind", "label",
   "metadata_json", "created_at"},
  {"product_candidate_id", "amount", "currency", "quantity"}, {},
  Each({"project_id", "variant_id"})
    \cup {<<"project_id", "variant_id">>, <<"variant_id", "scene_revision_id">>},
  Owned \cup {<<"product_candidate_id", "product_candidates">>})
ProgressSnapshotRow == Table(
  {"id", "project_id", "name", "stage", "captured_at", "provenance", "attachment_ids",
   "compare_target_kind", "compare_target_revision_id", "metadata_json", "created_at",
   "updated_at"},
  {"stage_label", "note", "compare_target_variant_id", "deleted_at"}, {},
  Each({"project_id"}) \cup {<<"project_id", "created_at">>, <<"project_id", "stage">>,
   <<"project_id", "compare_target_kind", "compare_target_revision_id">>}, Owned)
DeviationRow == Table(
  {"id", "project_id", "snapshot_id", "status", "planned_revision_id",
   "planned_target_type", "observed_kind", "observed_value_json", "provenance",
   "confidence", "evidence_attachment_ids", "created_at", "updated_at"},
  {"planned_entity_id", "planned_room_id", "planned_property_path", "planned_value_json",
   "note", "accepted_target_kind", "accepted_variant_id", "accepted_command_id",
   "accepted_revision_id"}, {},
  Each({"project_id", "snapshot_id"}) \cup {<<"project_id", "snapshot_id", "status">>,
   <<"project_id", "planned_entity_id">>, <<"project_id", "accepted_revision_id">>}, Owned)
AuthSessionRow == Table(
  {"id", "token_hash", "csrf_token", "expires_at", "created_at"},
  {"revoked_at", "last_seen_at"}, {},
  Each({"expires_at"}) \cup UniqueIndex("token_hash"), {})

Declared ==
  [projects |-> ProjectRow, scene_revisions |-> SceneRevisionRow,
   design_commands |-> DesignCommandRow, assets |-> AssetRow,
   product_candidates |-> ProductCandidateRow, attachments |-> AttachmentRow,
   style_profiles |-> StyleProfileRow, plan_drafts |-> PlanDraftRow,
   generation_manifests |-> GenerationManifestRow, render_manifests |-> RenderManifestRow,
   geometry_diagnostics |-> GeometryDiagnosticRow, jobs |-> JobRow, workers |-> WorkerRow,
   validation_reports |-> ValidationReportRow, scene_variants |-> SceneVariantRow,
   budget_items |-> BudgetItemRow, progress_snapshots |-> ProgressSnapshotRow,
   deviations |-> DeviationRow, auth_sessions |-> AuthSessionRow]

-----------------------------------------------------------------------------
(* Deleting a project *)

\* _CHILD_TABLES
ChildTables ==
  <<"style_profiles", "design_commands", "plan_drafts", "generation_manifests",
    "render_manifests", "geometry_diagnostics", "attachments", "budget_items",
    "product_candidates", "assets", "validation_reports", "scene_variants",
    "scene_revisions", "jobs">>

\* rows of R that may still refer to rows of t
Referring(R, t) == {u \in R : \E r \in tables[u].refs : r[2] = t}

\* delete_project over the rows R: the child tables in order, then the project, all
\* in one transaction; what is left of R
Remaining(R) ==
  LET order == Append(ChildTables, "projects")
      left(i) == R \ {order[k] : k \in 1..i}
  IN IF \E i \in 1..Len(order) : order[i] \in R /\ Referring(left(i), order[i]) # {}
     THEN R ELSE left(Len(order))

\* as the code of the latest revision does it; that it is refused while a job is
\* active (JobQueue has the statuses) changes nothing
DeleteRows ==
  /\ at = Latest /\ "projects" \in rows
  /\ rows' = Remaining(rows)
  /\ rows' # rows
  /\ forked' = (forked /\ "scene_revisions" \in rows')
  /\ UNCHANGED <<at, tables>>

-----------------------------------------------------------------------------
Upgrade ==
  /\ at < Latest
  /\ tables' = Upgraded(at + 1, tables)
  /\ tables' # tables
  /\ at' = at + 1
  /\ UNCHANGED <<rows, forked>>

Downgrade ==
  /\ at > 0
  /\ tables' = Downgraded(at, tables)
  /\ tables' # tables
  /\ at' = at - 1
  /\ rows' = rows \cap DOMAIN tables'
  /\ forked' = (forked /\ "scene_revisions" \in rows')

\* the first row of a table: what it must refer to is there
FirstRow(t) ==
  /\ t \in DOMAIN tables \ rows
  /\ \A r \in tables[t].refs : r[1] \in tables[t].req => r[2] \in rows
  /\ rows' = rows \cup {t}
  /\ UNCHANGED <<at, tables, forked>>

\* a revision gets a second child
SecondChild ==
  /\ "scene_revisions" \in rows
  /\ ParentLock \cap tables["scene_revisions"].unique = {}
  /\ forked' = TRUE
  /\ UNCHANGED <<at, tables, rows>>

\* the last row of a table whose rows can be deleted one by one
LastRow(t) ==
  /\ t \in rows /\ Referring(rows, t) = {}
  /\ rows' = rows \ {t}
  /\ UNCHANGED <<at, tables, forked>>

SchemaInit == at = 0 /\ tables = [t \in {} |-> Table({}, {}, {}, {}, {})]
              /\ rows = {} /\ forked = FALSE

Deletable == {"attachments", "budget_items", "product_candidates", "scene_variants"}

SchemaNext ==
  \/ Upgrade \/ Downgrade \/ SecondChild \/ DeleteRows
  \/ \E t \in Watched : FirstRow(t)
  \/ \E t \in Watched \cap Deletable : LastRow(t)

SchemaSpec == SchemaInit /\ [][SchemaNext]_schemaVars

-----------------------------------------------------------------------------
(* Properties *)

Chain[n \in 0..Latest] ==
  IF n = 0 THEN [t \in {} |-> Table({}, {}, {}, {}, {})] ELSE Upgraded(n, Chain[n - 1])

\* what a table keeps unique, and what it has an index for: a UNIQUE constraint and a
\* unique index each do both
KeptUnique(def) == def.unique \cup {Tail(i) : i \in {x \in def.index : x[1] = "UNIQUE"}}
Indexed(def) == KeptUnique(def) \cup {i \in def.index : i[1] # "UNIQUE"}

Serves(built, declared) ==
  /\ built.req = declared.req /\ built.null = declared.null /\ built.refs = declared.refs
  /\ KeptUnique(built) = KeptUnique(declared) /\ Indexed(built) = Indexed(declared)

\* The chain of migrations builds what the ORM takes for granted: every column and
\* whether it may be NULL, every foreign key, what is unique and what has an index
\* (though not by the same constraints and indexes: the migrations make a UNIQUE
\* constraint and an index of what the ORM declares as one unique index).  And
\* whatever upgrades and downgrades led here, the schema is the one of a fresh
\* database upgraded as far: each downgrade takes back its upgrade.
ChainSound ==
  /\ tables = Chain[at]
  /\ at = Latest => /\ DOMAIN tables = DOMAIN Declared
                    /\ \A t \in DOMAIN tables : Serves(tables[t], Declared[t])

\* A UNIQUE constraint never stands over data that breaks it: a branched history
\* keeps the schema from going back to the lock on the parent (migration 0015).
LockMeansLinear ==
  "scene_revisions" \in DOMAIN tables =>
    (ParentLock \subseteq tables["scene_revisions"].unique => ~forked)

\* delete_project removes every row of a project, in an order that the foreign keys
\* allow (projects.py, "Delete a project and every project-scoped row").
DeletionRemovesAll == at = Latest /\ "projects" \in rows => Remaining(rows) = {}
=============================================================================
